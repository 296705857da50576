------------------------- MODULE Connections_proofs -------------------------
(***************************************************************************)
(* Proofs about Connections, for any number of attempts to connect and of  *)
(* datagrams under way, whatever is lost, stopped or started again.        *)
(*                                                                         *)
(* What the window will show is the last state that was sent to it; a      *)
(* party's age never runs ahead of the time it has been silent for, as     *)
(* whoever is heard makes it younger (IInv).                               *)
(*                                                                         *)
(* What is under way, in its order, tells how far the attempt has come and *)
(* that the server's entry is its own; the ping's timer is due before that *)
(* entry is old enough to expire (Way).                                    *)
(***************************************************************************)
EXTENDS Connections, TLAPS

Displayed == IF shows = <<>> THEN shown ELSE shows[1]

DisplayFollows == ~unshown => Displayed = MakePublic(fsm)
SilentForItsAge == Subscribed(party) => party.age <= party.silent

(* The conjuncts of TypeOK, by who changes them *)
ClientTypes ==
    /\ fsm \in States /\ conn \in Conns \cup {NoConn}
    /\ pinged \in BOOLEAN /\ timer \in {"none", "set", "due"}
    /\ conn = NoConn <=> fsm \notin WithSockets
WindowTypes ==
    /\ messages \in {<<>>, <<"Connect">>, <<"Disconnect">>}
    /\ shows \in {<<>>} \cup {<<s>> : s \in Shown} /\ shown \in Shown
    /\ unshown \in BOOLEAN
UpTypes == up \in Seq(Commands) /\ Len(up) <= MaxDatagrams
DownTypes ==
    /\ down \in Seq(Replies) /\ Len(down) <= MaxDatagrams
    /\ pending \in {<<>>} \cup {<<r>> : r \in Replies}
PartyType == party \in Parties \cup {NoParty}
ServerTypes ==
    /\ link \in [Conns -> {"unused", "backlog", "accepted", "gone"}]
    /\ serverUp \in BOOLEAN /\ since \in SUBSET Happenings

Client_ == ClientTypes /\ WindowTypes /\ DisplayFollows
Server_ == PartyType /\ SilentForItsAge /\ ServerTypes

IInv == Client_ /\ UpTypes /\ DownTypes /\ Server_

LEMMA TypesApart == TypeOK <=> ClientTypes /\ WindowTypes /\ UpTypes /\ DownTypes /\ PartyType /\ ServerTypes
BY DEF TypeOK, ClientTypes, WindowTypes, UpTypes, DownTypes, PartyType, ServerTypes

-----------------------------------------------------------------------------
(* Types of what the actions put together *)

(* What is sent is shown in the end, and is a state that can be shown. *)
LEMMA MakePublicType == \A s \in States : MakePublic(s) \in Shown
BY DEF States, MakePublic, Shown

(* An entry is subscribed if and only if it is a party. *)
LEMMA SubscribedParties ==
    \A p \in Parties \cup {NoParty} : Subscribed(p) <=> p \in Parties
<1>1. \A p \in Parties : p.tcp \in Conns \cup {NoConn}
  BY DEF Parties
<1>2. -1 \notin Conns \cup {NoConn}
  BY ConnectionsAssumption DEF Conns, NoConn
<1>3. NoParty.tcp = -1
  BY DEF NoParty
<1>. QED  BY <1>1, <1>2, <1>3 DEF Subscribed

(* Refreshing a party, or hearing of it, leaves a party, with a new age. *)
LEMMA PartyTypes ==
    ASSUME NEW p \in Parties
    PROVE  /\ Refreshed(p) \in Parties /\ Refreshed(p).age = 0
           /\ Refreshed(p).silent = p.silent
           /\ Heard(p) \in Parties /\ Heard(p).age = 0 /\ Heard(p).silent = 0
<1>1. Subscribed(p)
  BY SubscribedParties
<1>2. Refreshed(p) = [p EXCEPT !.age = 0]
  BY <1>1 DEF Refreshed
<1>3. Refreshed(p) \in Parties /\ Refreshed(p).age = 0 /\ Refreshed(p).silent = p.silent
  BY <1>2 DEF Parties, Ages
<1>4. Heard(p) = [Refreshed(p) EXCEPT !.silent = 0]
  BY <1>1 DEF Heard
<1>5. Heard(p) \in Parties /\ Heard(p).age = 0 /\ Heard(p).silent = 0
  BY <1>3, <1>4 DEF Parties, Ages
<1>. QED  BY <1>3, <1>5

(* What is put on a queue of datagrams, or taken from it, leaves one. *)
LEMMA PutTypes ==
    ASSUME NEW S, NEW q \in Seq(S), NEW x \in S
    PROVE  /\ Append(q, x) \in Seq(S) /\ Len(Append(q, x)) = Len(q) + 1
           /\ q \o <<x>> \in Seq(S) /\ Len(q \o <<x>>) = Len(q) + 1
           /\ q \o <<>> = q
           /\ Len(q) \in Nat
OBVIOUS

LEMMA TakeTypes ==
    ASSUME NEW S, NEW q \in Seq(S), q # <<>>
    PROVE  Tail(q) \in Seq(S) /\ Len(Tail(q)) = Len(q) - 1 /\ Len(q) \in Nat /\ Head(q) \in S
OBVIOUS

LEMMA InitIInv == Init => IInv
<1>. SUFFICES ASSUME Init PROVE IInv
  OBVIOUS
<1>. USE ConnectionsAssumption
<1>1. Client_
  BY DEF Init, Client_, ClientTypes, WindowTypes, DisplayFollows, Displayed, MakePublic,
         States, Shown, WithSockets, Handshake
<1>2. UpTypes /\ DownTypes
  <2>. up = <<>> /\ down = <<>> /\ pending = <<>>
    BY DEF Init
  <2>. QED  BY DEF UpTypes, DownTypes
<1>3. Server_
  BY DEF Init, Server_, PartyType, SilentForItsAge, Subscribed, ServerTypes
<1>. QED  BY <1>1, <1>2, <1>3 DEF IInv

-----------------------------------------------------------------------------
(* Steps of the interface *)

(* Sending a state that the connection then is in keeps what is displayed. *)
LEMMA Notified ==
    ASSUME NEW s \in States, NotifyStateChange(s), fsm' = s
    PROVE  /\ shows' \in {<<>>} \cup {<<t>> : t \in Shown} /\ unshown' = FALSE
           /\ DisplayFollows'
<1>1. shows' = <<MakePublic(s)>> /\ unshown' = FALSE /\ MakePublic(s) \in Shown
  BY MakePublicType DEF NotifyStateChange
<1>2. shows' # <<>> /\ shows'[1] = MakePublic(fsm')
  BY <1>1
<1>. QED  BY <1>1, <1>2 DEF DisplayFollows, Displayed, MakePublic

LEMMA NotNotified ==
    ASSUME NEW s \in States, Unnotified(s), fsm' = s, UNCHANGED shown, DisplayFollows,
           unshown \in BOOLEAN
    PROVE  shows' = shows /\ unshown' \in BOOLEAN /\ DisplayFollows'
BY DEF Unnotified, DisplayFollows, Displayed, MakePublic

LEMMA SendTypes ==
    ASSUME UpTypes, NEW cmd \in Commands, Send(cmd)
    PROVE  UpTypes'
BY PutTypes, ConnectionsAssumption DEF UpTypes, Send

(* What a step leaves alone keeps its types. *)
LEMMA Kept ==
    /\ Client_ /\ UNCHANGED <<clientVars, uiVars>> => Client_'
    /\ UpTypes /\ UNCHANGED up => UpTypes'
    /\ DownTypes /\ UNCHANGED <<down, pending>> => DownTypes'
    /\ Server_ /\ UNCHANGED <<link, party, serverUp, since>> => Server_'
<1>1. Client_ /\ UNCHANGED <<clientVars, uiVars>> => Client_'
  BY DEF Client_, ClientTypes, WindowTypes, DisplayFollows, Displayed, MakePublic, clientVars, uiVars
<1>2. UpTypes /\ UNCHANGED up => UpTypes'
  BY DEF UpTypes
<1>3. DownTypes /\ UNCHANGED <<down, pending>> => DownTypes'
  BY DEF DownTypes
<1>4. Server_ /\ UNCHANGED <<link, party, serverUp, since>> => Server_'
  BY DEF Server_, PartyType, SilentForItsAge, Subscribed, ServerTypes
<1>. QED  BY <1>1, <1>2, <1>3, <1>4

LEMMA UserKeeps ==
    ASSUME IInv, User PROVE IInv'
<1>1. Client_'
  BY DEF User, ConnectClicked, DisconnectClicked, IInv, Client_, ClientTypes, WindowTypes,
         DisplayFollows, Displayed, MakePublic, clientVars
<1>. QED  BY <1>1, Kept DEF User, ConnectClicked, DisconnectClicked, IInv, serverVars

LEMMA OnStateChangeKeeps ==
    ASSUME IInv, OnStateChange PROVE IInv'
<1>1. Client_'
  <2>1. shows \in {<<t>> : t \in Shown} /\ shows[1] \in Shown
    BY DEF IInv, Client_, WindowTypes, OnStateChange
  <2>. QED  BY <2>1 DEF OnStateChange, IInv, Client_, ClientTypes, WindowTypes, DisplayFollows,
                Displayed, MakePublic, clientVars
<1>. QED  BY <1>1, Kept DEF OnStateChange, IInv, serverVars

LEMMA HandleInternalKeeps ==
    ASSUME IInv, HandleInternal PROVE IInv'
<1>. USE DEF HandleInternal
<1>1. PICK s \in {"Disconnected", "TcpConnecting"} :
        /\ fsm' = s /\ conn' = NoConn /\ NotifyStateChange(s)
        /\ since' \in {since, {}}
  OBVIOUS
<1>2. s \in States \ WithSockets
  BY DEF States, WithSockets, Handshake
<1>3. DisplayFollows' /\ WindowTypes'
  BY <1>1, <1>2, Notified DEF IInv, Client_, WindowTypes
<1>4. ClientTypes'
  BY <1>1, <1>2 DEF IInv, Client_, ClientTypes
<1>5. Server_'
  BY <1>1 DEF IInv, Server_, ServerTypes, serverVars, PartyType, SilentForItsAge, Subscribed
<1>. QED  BY <1>3, <1>4, <1>5, Kept DEF IInv, Client_, serverVars

LEMMA TcpReadyKeeps ==
    ASSUME IInv, TcpReady PROVE IInv'
<1>. USE DEF TcpReady
<1>1. PICK c \in Conns :
        /\ link' = [link EXCEPT ![c] = "backlog"]
        /\ \/ fsm' = "VersionQuerySent" /\ conn' = c /\ QueryVersion
           \/ fsm' = "Disconnected" /\ conn' = NoConn /\ UNCHANGED up
        /\ Unnotified(fsm')
  OBVIOUS
<1>2. fsm' \in States /\ (conn' = NoConn <=> fsm' \notin WithSockets)
  BY <1>1, ConnectionsAssumption DEF States, WithSockets, Handshake, Conns, NoConn
<1>3. DisplayFollows' /\ WindowTypes'
  BY <1>1, <1>2, NotNotified DEF IInv, Client_, WindowTypes
<1>4. ClientTypes'
  BY <1>1, <1>2 DEF IInv, Client_, ClientTypes
<1>5. UpTypes'
  <2>1. Version \in Commands
    BY DEF Commands
  <2>. QED  BY <1>1, <2>1, SendTypes, Kept DEF QueryVersion, IInv
<1>6. Server_'
  BY <1>1 DEF IInv, Server_, ServerTypes, PartyType, SilentForItsAge, Subscribed
<1>. QED  BY <1>3, <1>4, <1>5, <1>6, Kept DEF IInv, Client_

LEMMA TcpErrorKeeps ==
    ASSUME IInv, TcpError PROVE IInv'
<1>. USE DEF TcpError
<1>1. fsm' \in States /\ fsm \notin WithSockets /\ fsm' \notin WithSockets
  BY DEF States, WithSockets, Handshake
<1>2. DisplayFollows' /\ WindowTypes'
  BY <1>1, Notified DEF IInv, Client_, WindowTypes
<1>3. ClientTypes'
  BY <1>1 DEF IInv, Client_, ClientTypes
<1>. QED  BY <1>2, <1>3, Kept DEF IInv, Client_, serverVars

LEMMA HandleExternalKeeps ==
    ASSUME IInv, HandleExternal PROVE IInv'
<1>1. down # <<>> /\ down' = Tail(down)
  BY DEF HandleExternal
<1>2. UNCHANGED <<messages, shown, link, party, pending, serverUp, since>>
  BY DEF HandleExternal, serverVars
<1>3. DownTypes'
  BY <1>1, <1>2, TakeTypes, ConnectionsAssumption DEF IInv, DownTypes
<1>4. Server_'
  BY <1>2, Kept DEF IInv
<1>5. conn \in Conns \cup {NoConn} /\ (conn = NoConn <=> fsm \notin WithSockets) /\ fsm \in States
      /\ (shown \in Shown /\ messages \in {<<>>, <<"Connect">>, <<"Disconnect">>})
  BY DEF IInv, Client_, ClientTypes, WindowTypes
<1>6. CASE /\ fsm = "VersionQuerySent"
           /\ fsm' = "SubscriptionQuerySent"
           /\ Send(SubscribeAndAssociate(conn))
           /\ NotifyStateChange("SubscriptionQuerySent")
           /\ UNCHANGED <<conn, pinged, timer>>
  <2>1. conn \in Conns /\ fsm' \in States /\ conn' # NoConn /\ fsm' \in WithSockets
    BY <1>5, <1>6, ConnectionsAssumption DEF WithSockets, Handshake, States, Conns, NoConn
  <2>2. UpTypes'
    <3>1. SubscribeAndAssociate(conn) \in Commands
      BY <2>1 DEF Commands
    <3>. QED  BY <3>1, <1>6, SendTypes DEF IInv
  <2>3. DisplayFollows' /\ WindowTypes'
    BY <1>2, <1>5, <1>6, <2>1, Notified DEF WindowTypes
  <2>4. ClientTypes'
    BY <1>6, <2>1 DEF IInv, Client_, ClientTypes
  <2>. QED  BY <1>3, <1>4, <2>2, <2>3, <2>4 DEF IInv, Client_
<1>7. CASE fsm = "SubscriptionQuerySent" /\ Connect /\ NotifyStateChange("Connected")
  <2>1. fsm' = "Connected" /\ fsm' \in States /\ conn' = conn /\ conn # NoConn /\ fsm' \in WithSockets
    BY <1>5, <1>7 DEF Connect, WithSockets, Handshake, States
  <2>2. UpTypes'
    <3>1. Ping \in Commands
      BY DEF Commands
    <3>. QED  BY <3>1, <1>7, SendTypes DEF IInv, Connect
  <2>3. DisplayFollows' /\ WindowTypes'
    BY <1>2, <1>5, <1>7, <2>1, Notified DEF WindowTypes
  <2>4. ClientTypes'
    BY <1>5, <1>7, <2>1 DEF IInv, Client_, ClientTypes, Connect
  <2>. QED  BY <1>3, <1>4, <2>2, <2>3, <2>4 DEF IInv, Client_
<1>8. CASE fsm = "SubscriptionQuerySent" /\ Disconnect /\ NotifyStateChange("Disconnected")
  <2>1. /\ fsm' = "Disconnected" /\ fsm' \in States /\ conn' = NoConn /\ fsm' \notin WithSockets
        /\ UNCHANGED <<pinged, timer, up>>
    BY <1>8 DEF Disconnect, WithSockets, Handshake, States
  <2>2. DisplayFollows' /\ WindowTypes'
    BY <1>2, <1>5, <1>8, <2>1, Notified DEF WindowTypes
  <2>3. ClientTypes'
    BY <2>1 DEF IInv, Client_, ClientTypes
  <2>. QED  BY <1>3, <1>4, <2>1, <2>2, <2>3, Kept DEF IInv, Client_
<1>9. CASE /\ fsm = "Connected" /\ pinged' = FALSE
           /\ NotifyStateChange("Connected") /\ UNCHANGED <<fsm, conn, timer, up>>
  <2>1. fsm' = "Connected" /\ fsm' \in States
    BY <1>9 DEF States
  <2>2. DisplayFollows' /\ WindowTypes'
    BY <1>2, <1>5, <1>9, <2>1, Notified DEF WindowTypes
  <2>3. ClientTypes'
    BY <1>9 DEF IInv, Client_, ClientTypes
  <2>. QED  BY <1>3, <1>4, <1>9, <2>2, <2>3, Kept DEF IInv, Client_
<1>10. CASE UNCHANGED <<clientVars, shows, unshown, up>>
  <2>1. Client_' /\ UpTypes'
    BY <1>2, <1>10, Kept DEF IInv, clientVars, uiVars
  <2>. QED  BY <1>3, <1>4, <2>1 DEF IInv
<1>. QED  BY <1>6, <1>7, <1>8, <1>9, <1>10 DEF HandleExternal

LEMMA PingTimeoutKeeps ==
    ASSUME IInv, PingTimeout PROVE IInv'
<1>1. UNCHANGED <<messages, shown, down, link, party, pending, serverUp, since>>
  BY DEF PingTimeout, serverVars
<1>2. DownTypes' /\ Server_'
  BY <1>1, Kept DEF IInv
<1>3. shown \in Shown /\ messages \in {<<>>, <<"Connect">>, <<"Disconnect">>}
  BY DEF IInv, Client_, WindowTypes
<1>4. timer' \in {"none", "set", "due"}
  BY DEF PingTimeout, Rearmed
<1>5. CASE UNCHANGED <<fsm, conn, pinged, shows, unshown, up>>
  <2>1. ClientTypes' /\ WindowTypes' /\ DisplayFollows'
    BY <1>1, <1>4, <1>5 DEF IInv, Client_, ClientTypes, WindowTypes, DisplayFollows, Displayed, MakePublic
  <2>. QED  BY <1>2, <1>5, <2>1, Kept DEF IInv, Client_
<1>6. CASE /\ fsm' = "Disconnected" /\ conn' = NoConn
           /\ NotifyStateChange("Disconnected") /\ UNCHANGED <<pinged, up>>
  <2>1. fsm' \in States /\ fsm' \notin WithSockets
    BY <1>6 DEF States, WithSockets, Handshake
  <2>2. DisplayFollows' /\ WindowTypes'
    BY <1>1, <1>3, <1>6, <2>1, Notified DEF WindowTypes
  <2>3. ClientTypes'
    BY <1>4, <1>6, <2>1 DEF IInv, Client_, ClientTypes
  <2>. QED  BY <1>2, <1>6, <2>2, <2>3, Kept DEF IInv, Client_
<1>7. CASE /\ fsm = "Connected" /\ Send(Ping) /\ pinged' = TRUE
           /\ NotifyStateChange("Connected") /\ UNCHANGED <<fsm, conn>>
  <2>1. Ping \in Commands /\ fsm' = "Connected" /\ fsm' \in States
    BY <1>7 DEF Commands, States
  <2>2. DisplayFollows' /\ WindowTypes'
    BY <1>1, <1>3, <1>7, <2>1, Notified DEF WindowTypes
  <2>3. ClientTypes'
    BY <1>4, <1>7, <2>1 DEF IInv, Client_, ClientTypes
  <2>4. UpTypes'
    BY <1>7, <2>1, SendTypes DEF IInv
  <2>. QED  BY <1>2, <2>2, <2>3, <2>4 DEF IInv, Client_
<1>. QED  BY <1>5, <1>6, <1>7 DEF PingTimeout

-----------------------------------------------------------------------------
(* Steps of the server, the network and time *)

LEMMA OnExternalKeeps ==
    ASSUME IInv, OnExternal PROVE IInv'
<1>1. up # <<>> /\ up' = Tail(up) /\ UNCHANGED <<clientVars, uiVars, link, serverUp, since>>
  BY DEF OnExternal
<1>2. Client_'
  BY <1>1, Kept DEF IInv
<1>3. UpTypes'
  BY <1>1, TakeTypes, ConnectionsAssumption DEF IInv, UpTypes
<1>4. PICK reply \in Replies : Respond(reply)
  BY DEF OnExternal, Replies
<1>5. DownTypes'
  <2>1. down' = down \o pending /\ pending' = <<reply>> /\ Len(down) + Len(pending) <= MaxDatagrams
    BY <1>4 DEF Respond
  <2>2. down \in Seq(Replies) /\ (pending = <<>> \/ \E r \in Replies : pending = <<r>>)
    BY DEF IInv, DownTypes
  <2>3. CASE pending = <<>>
    BY <2>1, <2>2, <2>3, PutTypes DEF IInv, DownTypes
  <2>4. CASE \E r \in Replies : pending = <<r>>
    BY <2>1, <2>2, <2>4, PutTypes DEF DownTypes
  <2>. QED  BY <2>2, <2>3, <2>4
<1>6. PartyType' /\ SilentForItsAge'
  <2>1. CASE party' = Heard(party)
    <3>1. CASE Subscribed(party)
      BY <2>1, <3>1, SubscribedParties, PartyTypes DEF IInv, Server_, PartyType, SilentForItsAge
    <3>2. CASE ~Subscribed(party)
      BY <2>1, <3>2 DEF IInv, Server_, PartyType, SilentForItsAge, Subscribed, Heard
    <3>. QED  BY <3>1, <3>2
  <2>2. ASSUME NEW c \in Conns, party' = Associate(Fresh, c) PROVE PartyType' /\ SilentForItsAge'
    BY <2>2, ConnectionsAssumption
       DEF Associate, Fresh, PartyType, SilentForItsAge, Parties, Ages, Conns, NoConn
  <2>3. Head(up).kind = "SubscribeAndAssociate" => Head(up).addr \in Conns
    BY <1>1, TakeTypes DEF IInv, UpTypes, Commands, Version, Ping, SubscribeAndAssociate
  <2>. QED  BY <2>1, <2>2, <2>3 DEF OnExternal
<1>7. ServerTypes'
  BY <1>1 DEF IInv, Server_, ServerTypes
<1>. QED  BY <1>2, <1>3, <1>5, <1>6, <1>7 DEF IInv, Server_

(* Flushing what waits, with nothing of it known. *)
LEMMA FlushTypes ==
    ASSUME DownTypes, Len(down) + Len(pending) <= MaxDatagrams,
           down' = down \o pending, pending' = <<>>
    PROVE  DownTypes'
<1>1. down \in Seq(Replies) /\ (pending = <<>> \/ \E r \in Replies : pending = <<r>>)
  BY DEF DownTypes
<1>2. CASE pending = <<>>
  BY <1>1, <1>2, PutTypes DEF DownTypes
<1>3. CASE \E r \in Replies : pending = <<r>>
  BY <1>1, <1>3, PutTypes DEF DownTypes
<1>. QED  BY <1>1, <1>2, <1>3

LEMMA OthersDatagramKeeps ==
    ASSUME IInv, OthersDatagram PROVE IInv'
<1>. USE DEF OthersDatagram, Flush
<1>1. PartyType' /\ SilentForItsAge'
  <2>1. CASE Subscribed(party)
    BY <2>1, SubscribedParties, PartyTypes DEF IInv, Server_, PartyType, SilentForItsAge, Parties, Ages
  <2>2. CASE ~Subscribed(party)
    BY <2>2 DEF IInv, Server_, PartyType, SilentForItsAge, Subscribed, Refreshed
  <2>. QED  BY <2>1, <2>2
<1>2. ServerTypes'
  BY DEF IInv, Server_, ServerTypes, Happenings
<1>. QED  BY <1>1, <1>2, Kept, FlushTypes DEF IInv, Server_

LEMMA LinksKeep ==
    ASSUME IInv, PollTcp \/ Accept PROVE IInv'
<1>1. ServerTypes'
  BY DEF PollTcp, Accept, Waiting, IInv, Server_, ServerTypes
<1>2. PartyType' /\ SilentForItsAge'
  BY DEF PollTcp, Accept, IInv, Server_, PartyType, SilentForItsAge, Subscribed
<1>. QED  BY <1>1, <1>2, Kept DEF PollTcp, Accept, IInv, Server_

(* What a broadcast may make of the party. *)
LEMMA BroadcastParty ==
    ASSUME IInv, Broadcast
    PROVE  /\ PartyType' /\ SilentForItsAge'
           /\ ~Subscribed(party) => ~Subscribed(party')
           /\ Subscribed(party) /\ party.age < 3 => Subscribed(party')
<1>1. PICK kept \in Retained, overTcp \in BOOLEAN, others \in BOOLEAN :
        party' \in {kept} \cup {p \in {[kept EXCEPT !.tcp = NoConn]} : Subscribed(kept)}
  BY DEF Broadcast
<1>2. kept = party \/ (kept = NoParty /\ MayExpire(party))
  BY DEF Retained
<1>3. CASE Subscribed(party)
  <2>1. party \in Parties /\ party.age <= party.silent /\ (party.age < 3 => ~MayExpire(party))
    BY <1>3, SubscribedParties DEF IInv, Server_, PartyType, SilentForItsAge, MayExpire, Parties, Ages
  <2>2. party' \in {NoParty, party, [party EXCEPT !.tcp = NoConn]} /\ (party' = NoParty => MayExpire(party))
    <3>1. CASE kept = party
      <4>1. party # NoParty
        BY <1>3 DEF Subscribed
      <4>2. [party EXCEPT !.tcp = NoConn] # NoParty
        BY <2>1, ConnectionsAssumption DEF NoParty, NoConn, Parties
      <4>. QED  BY <1>1, <3>1, <4>1, <4>2
    <3>2. CASE kept = NoParty /\ MayExpire(party)
      BY <1>1, <3>2 DEF Subscribed
    <3>. QED  BY <1>2, <3>1, <3>2
  <2>3. [party EXCEPT !.tcp = NoConn] \in Parties
    BY <2>1 DEF Parties
  <2>4. party' # NoParty => party' \in Parties /\ party'.age = party.age /\ party'.silent = party.silent
    BY <2>1, <2>2, <2>3 DEF Parties
  <2>5. party' # NoParty => Subscribed(party')
    BY DEF Subscribed
  <2>. QED  BY <1>3, <2>1, <2>2, <2>4, <2>5 DEF PartyType, SilentForItsAge, Subscribed
<1>4. CASE ~Subscribed(party)
  <2>1. kept = NoParty /\ ~Subscribed(NoParty)
    BY <1>2, <1>4 DEF Subscribed
  <2>2. party' = NoParty
    BY <1>1, <2>1
  <2>. QED  BY <1>4, <2>1, <2>2 DEF PartyType, SilentForItsAge, Subscribed
<1>. QED  BY <1>3, <1>4

LEMMA BroadcastKeeps ==
    ASSUME IInv, Broadcast PROVE IInv'
<1>1. UNCHANGED <<clientVars, uiVars, up, link, serverUp>> /\ since' \in {since, since \cup {"crowded"}}
  BY DEF Broadcast
<1>2. UNCHANGED <<down, pending>> \/ Flush
  BY DEF Broadcast
<1>3. DownTypes'
  BY <1>2, Kept, FlushTypes DEF Flush, IInv
<1>4. ServerTypes'
  BY <1>1 DEF IInv, Server_, ServerTypes, Happenings
<1>. QED  BY <1>1, <1>3, <1>4, BroadcastParty, Kept DEF IInv, Server_

LEMMA PollCompleteKeeps ==
    ASSUME IInv, PollComplete PROVE IInv'
<1>1. Len(down) + Len(pending) <= MaxDatagrams
  <2>1. /\ down \in Seq(Replies) /\ pending \in {<<>>} \cup {<<r>> : r \in Replies}
    BY DEF IInv, DownTypes
  <2>2. Len(down) \in Nat /\ Len(pending) \in 0..1
    BY <2>1
  <2>3. MaxDatagrams \in Nat /\ Len(down) < MaxDatagrams
    BY ConnectionsAssumption DEF PollComplete
  <2>4. \A m, n \in Nat, k \in 0..1 : n < m => n + k <= m
    OBVIOUS
  <2>. QED  BY ONLY <2>2, <2>3, <2>4
<1>2. DownTypes'
  BY <1>1, FlushTypes DEF PollComplete, IInv
<1>. QED  BY <1>2, Kept DEF PollComplete, IInv

LEMMA LoseKeeps ==
    ASSUME IInv, Lose \/ Unreachable PROVE IInv'
<1>1. UpTypes'
  BY TakeTypes, ConnectionsAssumption DEF Lose, Unreachable, IInv, UpTypes
<1>2. DownTypes'
  BY TakeTypes, ConnectionsAssumption DEF Lose, Unreachable, IInv, DownTypes, serverVars
<1>3. Server_'
  BY DEF Lose, Unreachable, serverVars, IInv, Server_, PartyType, SilentForItsAge, Subscribed,
         ServerTypes, Happenings
<1>. QED  BY <1>1, <1>2, <1>3, Kept DEF Lose, Unreachable, IInv

LEMMA StopKeeps ==
    ASSUME IInv, Crash \/ Restart PROVE IInv'
<1>1. DownTypes'
  BY DEF Crash, Restart, IInv, DownTypes
<1>2. Server_'
  BY DEF Crash, Restart, IInv, Server_, PartyType, SilentForItsAge, Subscribed, ServerTypes, Happenings
<1>. QED  BY <1>1, <1>2, Kept DEF Crash, Restart, IInv

LEMMA TickKeeps ==
    ASSUME IInv, Tick PROVE IInv'
<1>. USE DEF Tick
<1>1. Client_'
  BY DEF IInv, Client_, ClientTypes, WindowTypes, DisplayFollows, Displayed, MakePublic, uiVars
<1>2. PartyType' /\ SilentForItsAge'
  <2>1. CASE Subscribed(party)
    <3>1. party \in Parties /\ party.age <= party.silent
      BY <2>1, SubscribedParties DEF IInv, Server_, PartyType, SilentForItsAge
    <3>2. party' = [party EXCEPT !.age = Older(@), !.silent = Older(@)]
      BY <2>1
    <3>3. /\ Older(party.age) \in Ages /\ Older(party.silent) \in Ages
          /\ Older(party.age) <= Older(party.silent)
      BY <3>1 DEF Parties, Ages, Older
    <3>4. /\ party' \in Parties
          /\ party'.age = Older(party.age) /\ party'.silent = Older(party.silent)
      BY <3>1, <3>2, <3>3 DEF Parties
    <3>. QED  BY <3>3, <3>4 DEF PartyType, SilentForItsAge
  <2>2. CASE ~Subscribed(party)
    BY <2>2 DEF IInv, Server_, PartyType, SilentForItsAge, Subscribed
  <2>. QED  BY <2>1, <2>2
<1>3. ServerTypes'
  BY DEF IInv, Server_, ServerTypes
<1>. QED  BY <1>1, <1>2, <1>3, Kept DEF IInv, Server_

(* Who is a party stays one, but for a silent one and a server that stops. *)
LEMMA StaysSubscribed ==
    ASSUME IInv, Next, Subscribed(party), serverUp', party.silent < 3
    PROVE  Subscribed(party')
<1>1. party \in Parties /\ party.age <= party.silent /\ party.age < 3
  BY SubscribedParties DEF IInv, Server_, PartyType, SilentForItsAge, Parties, Ages
<1>2. CASE OnExternal
  <2>1. CASE party' = Heard(party)
    BY <2>1, <1>1, PartyTypes, SubscribedParties
  <2>2. ASSUME NEW c \in Conns, party' = Associate(Fresh, c)
        PROVE  Subscribed(party')
    <3>1. party' = [age |-> 0, tcp |-> IF link[c] = "accepted" THEN c ELSE NoConn, silent |-> 0]
      BY <2>2 DEF Associate, Fresh
    <3>2. party'.tcp # -1
      BY <3>1, ConnectionsAssumption DEF Conns, NoConn
    <3>. QED  BY <3>2 DEF Subscribed, NoParty
  <2>3. Head(up).kind = "SubscribeAndAssociate" => Head(up).addr \in Conns
    BY <1>2, TakeTypes DEF OnExternal, IInv, UpTypes, Commands, Version, Ping, SubscribeAndAssociate
  <2>. QED  BY <1>2, <2>1, <2>2, <2>3 DEF OnExternal
<1>3. CASE OthersDatagram
  BY <1>1, <1>3, PartyTypes, SubscribedParties DEF OthersDatagram
<1>4. CASE Broadcast
  BY <1>1, <1>4, BroadcastParty
<1>5. CASE Tick
  <2>1. party' = [party EXCEPT !.age = Older(@), !.silent = Older(@)]
    BY <1>5 DEF Tick
  <2>2. party'.tcp = party.tcp /\ party.tcp \in Conns \cup {NoConn}
    BY <1>1, <2>1 DEF Parties
  <2>3. party'.tcp # -1
    BY <2>2, ConnectionsAssumption DEF Conns, NoConn
  <2>. QED  BY <2>3 DEF Subscribed, NoParty
<1>6. CASE User \/ Client \/ PollTcp \/ Accept \/ PollComplete \/ Lose \/ Unreachable \/ Restart
  <2>1. UNCHANGED party
    BY <1>6 DEF User, ConnectClicked, DisconnectClicked, Client, OnStateChange, HandleInternal, TcpReady,
       TcpError, HandleExternal, PingTimeout, PollTcp, Accept, PollComplete, Lose, Unreachable,
       Restart, serverVars
  <2>. QED  BY <2>1
<1>7. CASE Crash
  BY <1>7 DEF Crash
<1>. QED  BY <1>2, <1>3, <1>4, <1>5, <1>6, <1>7 DEF Next, Server, Environment

LEMMA StepIInv == IInv /\ [Next]_vars => IInv'
<1>. SUFFICES ASSUME IInv, [Next]_vars PROVE IInv'
  OBVIOUS
<1>1. CASE UNCHANGED vars
  BY <1>1, Kept DEF vars, serverVars, IInv
<1>. QED
  BY <1>1, UserKeeps, OnStateChangeKeeps, HandleInternalKeeps, TcpReadyKeeps, TcpErrorKeeps,
     HandleExternalKeeps, PingTimeoutKeeps, OnExternalKeeps, OthersDatagramKeeps, LinksKeep,
     BroadcastKeeps, PollCompleteKeeps, LoseKeeps, StopKeeps, TickKeeps
  DEF Next, Client, Server, Environment

-----------------------------------------------------------------------------
(* What is under way between an attempt to connect and the server.  At most *)
(* one attempt comes before it (OneBefore), and the datagrams are in order: *)
(* so the answer to its subscription is behind the one to its version query, *)
(* and no answer to another subscription can be.                            *)

Says(q, R) == \E i \in 1..Len(q) : q[i] \in R
Orderly(q, V, A) == \A i, j \in 1..Len(q) : i < j /\ q[i] \in V => q[j] \notin A

Subscriptions == {SubscribeAndAssociate(c) : c \in Conns}
Answers == {"Associated", "NotAssociated"}

NoVersions == ~Says(down, {"ServerVersion"}) /\ ~Says(pending, {"ServerVersion"}) /\ ~Says(up, {Version})
NoAssociations == ~Says(down, Answers) /\ ~Says(pending, Answers) /\ ~Says(up, Subscriptions)
(* No association comes after a version. *)
NoneLater ==
    /\ Orderly(down, {"ServerVersion"}, Answers) /\ Orderly(up, {Version}, Subscriptions)
    /\ Says(down, {"ServerVersion"}) => ~Says(pending, Answers) /\ ~Says(up, Subscriptions)
    /\ Says(pending, {"ServerVersion"}) => ~Says(up, Subscriptions)

(* TCP connections are made one after the other. *)
Links ==
    /\ \A c, d \in Conns : c < d /\ link[d] # "unused" => link[c] # "unused"
    /\ conn # NoConn => link[conn] # "unused" /\ \A d \in Conns : d > conn => link[d] = "unused"
    /\ conn # NoConn /\ "stopped" \notin since => link[conn] \in {"backlog", "accepted"}
NoneMade == \A c \in Conns : link[c] = "unused"
OneMade == \A c \in Conns : c >= 2 => link[c] = "unused"

(* Of one attempt only, the version query and what follows it are never     *)
(* under way together.                                                      *)
Pipeline ==
    /\ NoneMade => up = <<>> /\ down = <<>> /\ pending = <<>>
    /\ OneMade => NoVersions \/ NoAssociations
    /\ OneMade /\ fsm = "VersionQuerySent" =>
           NoAssociations /\ Len(up) + Len(pending) + Len(down) <= 1
    /\ OneMade /\ fsm \in {"SubscriptionQuerySent", "Connected"} => NoVersions
    /\ conn \in 1..2 /\ fsm = "VersionQuerySent" => NoneLater
    /\ conn \in 1..2 /\ fsm \in {"SubscriptionQuerySent", "Connected"} =>
           \A c \in Conns : Says(up, {SubscribeAndAssociate(c)}) => c = conn

(* Whoever is answered was heard just now. *)
Recent == Subscribed(party) /\ (down # <<>> \/ pending # <<>>) => party.age = 0

(* The party's age when the timer is looked at, with a ping or without. *)
IsMine == party.tcp = conn /\ link[conn] = "accepted"
InTime ==
    \/ timer = "set" /\ party.age <= (IF pinged THEN 1 ELSE 0)
    \/ timer = "due" /\ party.age <= (IF pinged THEN 2 ELSE 1)
Associated ==
    conn \in 1..2 /\ "stopped" \notin since =>
        /\ fsm = "SubscriptionQuerySent"
              /\ (Says(down, {"Associated"}) \/ Says(pending, {"Associated"})) => IsMine
        /\ fsm = "Connected" => IsMine /\ InTime

(* The first attempt is accepted before its version query is answered. *)
Accepted ==
    conn = 1 /\ since \cap {"stopped", "crowded"} = {} =>
        /\ fsm = "VersionQuerySent" /\ down # <<>> => link[1] = "accepted"
        /\ fsm # "VersionQuerySent" =>
              link[1] = "accepted" /\ ~Says(down, {"NotAssociated"}) /\ ~Says(pending, {"NotAssociated"})

Way == Links /\ Pipeline /\ Recent /\ Associated /\ Accepted

(* Before the first attempt has subscribed, the interface is not sent a     *)
(* broadcast, which would have the answer to its version query flushed.     *)
Early == NoneMade \/ (conn = 1 /\ fsm = "VersionQuerySent")
Unheard == Early => ~Subscribed(party)

-----------------------------------------------------------------------------
(* What a queue says with a datagram more or less *)

LEMMA SaysPut ==
    ASSUME NEW S, NEW q \in Seq(S), NEW x \in S
    PROVE  /\ \A R : Says(Append(q, x), R) <=> Says(q, R) \/ x \in R
           /\ \A V, A : Orderly(q, V, A) /\ (Says(q, V) => x \notin A) => Orderly(Append(q, x), V, A)
<1>. DEFINE r == Append(q, x)
            n == Len(q)
<1>1. /\ n \in Nat /\ Len(r) = n + 1 /\ r[n + 1] = x
      /\ \A k \in 1..n : r[k] = q[k]
  OBVIOUS
<1>2. /\ \A k \in 1..(n + 1) : k \in 1..n \/ k = n + 1
      /\ \A k \in 1..n : k \in 1..(n + 1) /\ ~(n + 1 < k)
      /\ n + 1 \in 1..(n + 1) /\ ~(n + 1 < n + 1)
  BY <1>1
<1>. HIDE DEF r, n
<1>3. ASSUME NEW R PROVE Says(r, R) <=> Says(q, R) \/ x \in R
  BY <1>1, <1>2 DEF Says, n
<1>4. ASSUME NEW V, NEW A, Orderly(q, V, A), Says(q, V) => x \notin A PROVE Orderly(r, V, A)
  <2>1. SUFFICES ASSUME NEW i \in 1..(n + 1), NEW j \in 1..(n + 1), i < j, r[i] \in V PROVE r[j] \notin A
    BY <1>1 DEF Orderly
  <2>2. i \in 1..n /\ r[i] = q[i]
    BY <1>1, <1>2, <2>1
  <2>3. CASE j \in 1..n
    BY <1>1, <1>4, <2>1, <2>2, <2>3 DEF Orderly, n
  <2>4. CASE j = n + 1
    BY <1>1, <1>4, <2>1, <2>2, <2>4 DEF Says, n
  <2>. QED  BY <1>2, <2>3, <2>4
<1>. QED  BY <1>3, <1>4 DEF r

LEMMA SaysTaken ==
    ASSUME NEW S, NEW q \in Seq(S), q # <<>>
    PROVE  /\ \A R : Says(Tail(q), R) => Says(q, R)
           /\ \A R : Head(q) \in R => Says(q, R)
           /\ \A V, A : Orderly(q, V, A) =>
                 Orderly(Tail(q), V, A) /\ (Head(q) \in V => ~Says(Tail(q), A))
<1>. DEFINE r == Tail(q)
            n == Len(q)
<1>1. /\ n \in Nat \ {0} /\ Len(r) = n - 1 /\ Head(q) = q[1]
      /\ \A k \in 1..(n - 1) : r[k] = q[k + 1]
  OBVIOUS
<1>2. /\ \A k \in 1..(n - 1) : k + 1 \in 1..n /\ 1 < k + 1
      /\ \A j, k \in 1..(n - 1) : j < k => j + 1 < k + 1
      /\ 1 \in 1..n
  BY <1>1
<1>. HIDE DEF r, n
<1>3. ASSUME NEW R PROVE (Says(r, R) => Says(q, R)) /\ (Head(q) \in R => Says(q, R))
  BY <1>1, <1>2 DEF Says, n
<1>4. ASSUME NEW V, NEW A, Orderly(q, V, A)
      PROVE  Orderly(r, V, A) /\ (Head(q) \in V => ~Says(r, A))
  <2>1. Orderly(r, V, A)
    BY <1>1, <1>2, <1>4 DEF Orderly, n
  <2>2. Head(q) \in V => ~Says(r, A)
    BY <1>1, <1>2, <1>4 DEF Orderly, Says, n
  <2>. QED  BY <2>1, <2>2
<1>. QED  BY <1>3, <1>4 DEF r

LEMMA SaysNothing ==
    /\ \A R : ~Says(<<>>, R)
    /\ \A r, R : Says(<<r>>, R) <=> r \in R
    /\ \A V, A : Orderly(<<>>, V, A)
<1>1. Len(<<>>) = 0 /\ \A r : Len(<<r>>) = 1 /\ <<r>>[1] = r
  OBVIOUS
<1>2. 1..0 = {} /\ 1..1 = {1}
  OBVIOUS
<1>. QED  BY <1>1, <1>2 DEF Says, Orderly

(* What waits is put behind what is under way. *)
LEMMA SaysFlushed ==
    ASSUME DownTypes
    PROVE  /\ \A R : Says(down \o pending, R) <=> Says(down, R) \/ Says(pending, R)
           /\ Orderly(down, {"ServerVersion"}, Answers)
                 /\ (Says(down, {"ServerVersion"}) => ~Says(pending, Answers))
              => Orderly(down \o pending, {"ServerVersion"}, Answers)
           /\ down \o pending # <<>> => down # <<>> \/ pending # <<>>
           /\ Len(down \o pending) = Len(down) + Len(pending)
           /\ Len(down) \in Nat /\ Len(pending) \in Nat
           /\ (down = <<>> <=> Len(down) = 0) /\ (pending = <<>> <=> Len(pending) = 0)
<1>1. down \in Seq(Replies) /\ (pending = <<>> \/ \E r \in Replies : pending = <<r>>)
  BY DEF DownTypes
<1>2. Len(down) \in Nat /\ (down = <<>> <=> Len(down) = 0)
  BY <1>1
<1>3. CASE pending = <<>>
  <2>1. down \o pending = down /\ Len(pending) = 0
    BY <1>1, <1>3
  <2>. QED  BY <1>2, <1>3, <2>1, SaysNothing
<1>4. ASSUME NEW r \in Replies, pending = <<r>>
      PROVE  /\ \A R : Says(down \o pending, R) <=> Says(down, R) \/ Says(pending, R)
             /\ Orderly(down, {"ServerVersion"}, Answers)
                   /\ (Says(down, {"ServerVersion"}) => ~Says(pending, Answers))
                => Orderly(down \o pending, {"ServerVersion"}, Answers)
             /\ down \o pending # <<>> => down # <<>> \/ pending # <<>>
             /\ Len(down \o pending) = Len(down) + Len(pending)
             /\ Len(down) \in Nat /\ Len(pending) \in Nat
             /\ (down = <<>> <=> Len(down) = 0) /\ (pending = <<>> <=> Len(pending) = 0)
  <2>1. /\ down \o pending = Append(down, r)
        /\ Len(pending) = 1 /\ Len(Append(down, r)) = Len(down) + 1 /\ pending # <<>>
    BY <1>1, <1>4
  <2>2. \A R : Says(pending, R) <=> r \in R
    BY <1>4, SaysNothing
  <2>3. /\ \A R : Says(Append(down, r), R) <=> Says(down, R) \/ r \in R
        /\ \A V, A : Orderly(down, V, A) /\ (Says(down, V) => r \notin A) => Orderly(Append(down, r), V, A)
    BY <1>1, SaysPut
  <2>. QED  BY <1>2, <2>1, <2>2, <2>3
<1>. QED  BY <1>1, <1>3, <1>4

(* What is taken from a queue leaves it less to say. *)
LEMMA DownTaken ==
    ASSUME IInv, down # <<>>, down' = Tail(down)
    PROVE  /\ \A R : Says(down', R) => Says(down, R)
           /\ \A R : Head(down) \in R => Says(down, R)
           /\ Orderly(down, {"ServerVersion"}, Answers) =>
                 /\ Orderly(down', {"ServerVersion"}, Answers)
                 /\ Head(down) = "ServerVersion" => ~Says(down', Answers)
           /\ Len(down') = Len(down) - 1 /\ Len(down) \in Nat \ {0}
<1>1. down \in Seq(Replies)
  BY DEF IInv, DownTypes
<1>2. Len(down') = Len(down) - 1 /\ Len(down) \in Nat \ {0}
  BY <1>1
<1>3. /\ \A R : Says(Tail(down), R) => Says(down, R)
      /\ \A R : Head(down) \in R => Says(down, R)
      /\ \A V, A : Orderly(down, V, A) =>
            Orderly(Tail(down), V, A) /\ (Head(down) \in V => ~Says(Tail(down), A))
  BY <1>1, SaysTaken
<1>. QED  BY <1>2, <1>3

LEMMA UpTaken ==
    ASSUME IInv, up # <<>>, up' = Tail(up)
    PROVE  /\ \A R : Says(up', R) => Says(up, R)
           /\ \A R : Head(up) \in R => Says(up, R)
           /\ Orderly(up, {Version}, Subscriptions) =>
                 /\ Orderly(up', {Version}, Subscriptions)
                 /\ Head(up) = Version => ~Says(up', Subscriptions)
           /\ Len(up') = Len(up) - 1 /\ Len(up) \in Nat \ {0} /\ Head(up) \in Commands
<1>1. up \in Seq(Commands)
  BY DEF IInv, UpTypes
<1>2. Len(up') = Len(up) - 1 /\ Len(up) \in Nat \ {0} /\ Head(up) \in Commands
  BY <1>1
<1>3. /\ \A R : Says(Tail(up), R) => Says(up, R)
      /\ \A R : Head(up) \in R => Says(up, R)
      /\ \A V, A : Orderly(up, V, A) =>
            Orderly(Tail(up), V, A) /\ (Head(up) \in V => ~Says(Tail(up), A))
  BY <1>1, SaysTaken
<1>. QED  BY <1>2, <1>3

LEMMA UpPut ==
    ASSUME IInv, NEW cmd \in Commands, Send(cmd)
    PROVE  /\ \A R : Says(up', R) <=> Says(up, R) \/ cmd \in R
           /\ \A V, A : Orderly(up, V, A) /\ (Says(up, V) => cmd \notin A) => Orderly(up', V, A)
           /\ Len(up') = Len(up) + 1 /\ Len(up) \in Nat
<1>1. up \in Seq(Commands) /\ up' = Append(up, cmd)
  BY DEF IInv, UpTypes, Send
<1>2. Len(up') = Len(up) + 1 /\ Len(up) \in Nat
  BY <1>1
<1>. QED  BY <1>1, <1>2, SaysPut

LEMMA LengthsKnown ==
    ASSUME IInv
    PROVE  /\ Len(up) \in Nat /\ Len(down) \in Nat /\ Len(pending) \in Nat
           /\ up = <<>> <=> Len(up) = 0
           /\ down = <<>> <=> Len(down) = 0
           /\ pending = <<>> <=> Len(pending) = 0
<1>1. up \in Seq(Commands)
  BY DEF IInv, UpTypes
<1>2. Len(up) \in Nat /\ (up = <<>> <=> Len(up) = 0)
  BY <1>1
<1>. QED  BY <1>2, SaysFlushed DEF IInv

(* The commands are three, and a party that is associated is subscribed. *)
LEMMA CommandsApart ==
    /\ Version \in Commands /\ Ping \in Commands
    /\ Version \notin Subscriptions /\ Ping \notin Subscriptions /\ Ping # Version
    /\ \A c \in Conns : /\ SubscribeAndAssociate(c) \in Commands \cap Subscriptions
                        /\ SubscribeAndAssociate(c) # Version
                        /\ \A d \in Conns : SubscribeAndAssociate(c) = SubscribeAndAssociate(d) => c = d
    /\ \A cmd \in Commands :
          \/ cmd = Version \/ cmd = Ping
          \/ cmd.addr \in Conns /\ cmd = SubscribeAndAssociate(cmd.addr)
<1>. DEFINE SA(c) == SubscribeAndAssociate(c)
<1>1. /\ Version.kind = "Version" /\ Ping.kind = "Ping"
      /\ \A c : SA(c).kind = "SubscribeAndAssociate" /\ SA(c).addr = c
  BY DEF Version, Ping, SubscribeAndAssociate
<1>2. /\ Commands = {Version, Ping} \cup {SA(c) : c \in Conns}
      /\ Subscriptions = {SA(c) : c \in Conns}
  BY DEF Commands, Subscriptions
<1>. HIDE DEF SA
<1>3. /\ Version \in Commands /\ Ping \in Commands
      /\ Version \notin Subscriptions /\ Ping \notin Subscriptions /\ Ping # Version
  BY <1>1, <1>2
<1>4. \A c \in Conns : /\ SA(c) \in Commands \cap Subscriptions
                       /\ SA(c) # Version
                       /\ \A d \in Conns : SA(c) = SA(d) => c = d
  <2>1. \A c \in Conns : SA(c) \in Commands \cap Subscriptions
    BY <1>2
  <2>2. \A c, d \in Conns : SA(c) = SA(d) => c = d
    BY <1>1
  <2>3. \A c \in Conns : SA(c) # Version
    BY <1>1
  <2>. QED  BY <2>1, <2>2, <2>3
<1>5. \A cmd \in Commands :
         \/ cmd = Version \/ cmd = Ping
         \/ cmd.addr \in Conns /\ cmd = SA(cmd.addr)
  BY <1>1, <1>2
<1>. QED  BY <1>3, <1>4, <1>5 DEF SA

LEMMA MineSubscribed ==
    ASSUME conn \in 1..2, party.tcp = conn
    PROVE  Subscribed(party)
BY DEF Subscribed, NoParty

-----------------------------------------------------------------------------
(* Way is kept *)

LEMMA InitWay == Init => Way
<1>. SUFFICES ASSUME Init PROVE Way
  OBVIOUS
<1>1. /\ fsm = "Disconnected" /\ conn = 0 /\ up = <<>> /\ down = <<>> /\ pending = <<>>
      /\ party = NoParty /\ \A c \in Conns : link[c] = "unused"
  BY DEF Init, NoConn
<1>2. Links
  BY <1>1 DEF Links, NoConn
<1>3. NoVersions
  BY <1>1, SaysNothing DEF NoVersions
<1>4. Pipeline
  BY <1>1, <1>3 DEF Pipeline
<1>5. Recent /\ Associated /\ Accepted
  BY <1>1 DEF Recent, Associated, Accepted
<1>. QED  BY <1>2, <1>4, <1>5 DEF Way

LEMMA PartsKept ==
    /\ Links /\ UNCHANGED <<link, conn, since>> => Links'
    /\ Pipeline /\ UNCHANGED <<link, fsm, conn, up, down, pending>> => Pipeline'
    /\ Recent /\ UNCHANGED <<party, down, pending>> => Recent'
    /\ Associated /\ UNCHANGED <<fsm, conn, since, down, pending, party, link, timer, pinged>>
          => Associated'
    /\ Accepted /\ UNCHANGED <<fsm, conn, since, down, pending, link>> => Accepted'
<1>1. Links /\ UNCHANGED <<link, conn, since>> => Links'
  BY DEF Links
<1>2. Pipeline /\ UNCHANGED <<link, fsm, conn, up, down, pending>> => Pipeline'
  BY DEF Pipeline, NoneMade, OneMade, NoVersions, NoAssociations, NoneLater
<1>3. Recent /\ UNCHANGED <<party, down, pending>> => Recent'
  BY DEF Recent, Subscribed
<1>4. Associated /\ UNCHANGED <<fsm, conn, since, down, pending, party, link, timer, pinged>>
         => Associated'
  BY DEF Associated, IsMine, InTime
<1>5. Accepted /\ UNCHANGED <<fsm, conn, since, down, pending, link>> => Accepted'
  BY DEF Accepted
<1>. QED  BY <1>1, <1>2, <1>3, <1>4, <1>5

(* What is under way becomes less. *)
LEMMA FewerUnderWay ==
    ASSUME IInv, Pipeline,
           \A c \in Conns : link'[c] = "unused" <=> link[c] = "unused",
           UNCHANGED up \/ (up # <<>> /\ up' = Tail(up)),
           UNCHANGED down \/ (down # <<>> /\ down' = Tail(down)),
           UNCHANGED pending \/ pending' = <<>>,
           UNCHANGED <<fsm, conn>> \/ (conn' = NoConn /\ fsm' \in {"Disconnected", "TcpConnecting"})
    PROVE  Pipeline'
<1>1. /\ \A R : Says(up', R) => Says(up, R)
      /\ \A R : Says(down', R) => Says(down, R)
      /\ \A R : Says(pending', R) => Says(pending, R)
  BY UpTaken, DownTaken, SaysNothing
<1>2. /\ Orderly(up, {Version}, Subscriptions) => Orderly(up', {Version}, Subscriptions)
      /\ Orderly(down, {"ServerVersion"}, Answers) => Orderly(down', {"ServerVersion"}, Answers)
  BY UpTaken, DownTaken
<1>3. /\ Len(up') \in 0..Len(up) /\ Len(down') \in 0..Len(down) /\ Len(pending') \in 0..Len(pending)
      /\ Len(up) \in Nat /\ Len(down) \in Nat /\ Len(pending) \in Nat
      /\ up = <<>> => up' = <<>>
      /\ down = <<>> => down' = <<>>
      /\ pending = <<>> => pending' = <<>>
  <2>1. /\ Len(up) \in Nat /\ Len(down) \in Nat /\ Len(pending) \in Nat /\ Len(<<>>) = 0
    BY LengthsKnown
  <2>2. Len(up') \in 0..Len(up) /\ (up = <<>> => up' = <<>>)
    BY <2>1, UpTaken
  <2>3. Len(down') \in 0..Len(down) /\ (down = <<>> => down' = <<>>)
    BY <2>1, DownTaken
  <2>4. Len(pending') \in 0..Len(pending) /\ (pending = <<>> => pending' = <<>>)
    BY <2>1
  <2>. QED  BY <2>1, <2>2, <2>3, <2>4
<1>4. /\ NoVersions => NoVersions'
      /\ NoAssociations => NoAssociations'
      /\ NoneLater => NoneLater'
  BY <1>1, <1>2 DEF NoVersions, NoAssociations, NoneLater
<1>5. Len(up) + Len(pending) + Len(down) <= 1 => Len(up') + Len(pending') + Len(down') <= 1
  BY <1>3
<1>6. /\ NoneMade' <=> NoneMade
      /\ OneMade' <=> OneMade
  BY DEF NoneMade, OneMade
<1>7. CASE UNCHANGED <<fsm, conn>>
  BY <1>1, <1>3, <1>4, <1>5, <1>6, <1>7 DEF Pipeline
<1>8. CASE conn' = NoConn /\ fsm' \in {"Disconnected", "TcpConnecting"}
  <2>1. conn' \notin 1..2
    BY <1>8 DEF NoConn
  <2>. QED  BY <1>3, <1>4, <1>6, <1>8, <2>1 DEF Pipeline
<1>. QED  BY <1>7, <1>8

(* An attempt is given up, or one is begun. *)
LEMMA GivenUp ==
    ASSUME IInv, Way, conn' = NoConn, fsm' \in {"Disconnected", "TcpConnecting"},
           UNCHANGED down \/ (down # <<>> /\ down' = Tail(down)),
           UNCHANGED <<link, up, pending, party>>
    PROVE  Way'
<1>1. Pipeline'
  BY FewerUnderWay DEF Way
<1>2. Links'
  BY DEF Way, Links
<1>3. Recent'
  BY DEF Way, Recent, Subscribed
<1>4. conn' = 0 /\ conn' \notin 1..2 /\ conn' # 1
  BY DEF NoConn
<1>5. Associated' /\ Accepted'
  BY <1>4 DEF Associated, Accepted
<1>. QED  BY <1>1, <1>2, <1>3, <1>5 DEF Way

(* A connection that is made is the next one. *)
LEMMA NextLink ==
    ASSUME IInv, Links, NEW c \in Conns, IsNext(c), link' = [link EXCEPT ![c] = "backlog"]
    PROVE  /\ c = 1 => NoneMade
           /\ c = 2 => OneMade
           /\ OneMade' => c = 1
           /\ ~NoneMade' /\ link'[c] = "backlog"
           /\ \A a, b \in Conns : a < b /\ link'[b] # "unused" => link'[a] # "unused"
           /\ \A d \in Conns : d > c => link'[d] = "unused"
<1>1. /\ link \in [Conns -> {"unused", "backlog", "accepted", "gone"}]
      /\ \A a \in Conns : a \in Nat \ {0}
  BY ConnectionsAssumption DEF IInv, Server_, ServerTypes, Conns
<1>2. link'[c] = "backlog" /\ \A d \in Conns : d # c => link'[d] = link[d]
  BY <1>1
<1>3. link[c] = "unused" /\ \A d \in Conns : link[d] = "unused" => c <= d
  BY DEF IsNext
<1>4. \A d \in Conns : d > c => link[d] = "unused"
  BY <1>3 DEF Links
<1>5. c = 1 => NoneMade
  BY <1>1, <1>3, <1>4 DEF NoneMade
<1>6. c = 2 => OneMade
  BY <1>1, <1>3, <1>4 DEF OneMade
<1>7. OneMade' => c = 1
  BY <1>1, <1>2 DEF OneMade
<1>8. ~NoneMade'
  BY <1>2 DEF NoneMade
<1>9. \A a, b \in Conns : a < b /\ link'[b] # "unused" => link'[a] # "unused"
  BY <1>1, <1>2, <1>3 DEF Links
<1>10. \A d \in Conns : d > c => link'[d] = "unused"
  BY <1>1, <1>2, <1>4
<1>. QED  BY <1>2, <1>5, <1>6, <1>7, <1>8, <1>9, <1>10

LEMMA TcpReadyWay ==
    ASSUME IInv, Way, TcpReady PROVE Way'
<1>1. PICK c \in Conns :
        /\ IsNext(c) /\ link' = [link EXCEPT ![c] = "backlog"]
        /\ \/ fsm' = "VersionQuerySent" /\ conn' = c /\ QueryVersion
           \/ fsm' = "Disconnected" /\ conn' = NoConn /\ UNCHANGED up
  BY DEF TcpReady
<1>2. UNCHANGED <<down, party, pending, since, timer, pinged>>
  BY DEF TcpReady
<1>3. /\ c = 1 => NoneMade
      /\ c = 2 => OneMade
      /\ OneMade' => c = 1
      /\ ~NoneMade' /\ link'[c] = "backlog"
      /\ \A a, b \in Conns : a < b /\ link'[b] # "unused" => link'[a] # "unused"
      /\ \A d \in Conns : d > c => link'[d] = "unused"
  BY <1>1, NextLink DEF Way
<1>4. /\ c = 1 => NoVersions /\ NoAssociations /\ up = <<>> /\ down = <<>> /\ pending = <<>>
      /\ c = 2 => NoVersions \/ NoAssociations
  BY <1>3, SaysNothing DEF Way, Pipeline, NoVersions, NoAssociations
<1>5. Recent'
  BY <1>2, PartsKept DEF Way
<1>6. Links'
  BY <1>1, <1>3 DEF Links, NoConn
<1>7. CASE fsm' = "VersionQuerySent" /\ conn' = c /\ QueryVersion
  <2>1. /\ \A R : Says(up', R) <=> Says(up, R) \/ Version \in R
        /\ \A V, A : Orderly(up, V, A) /\ (Says(up, V) => Version \notin A) => Orderly(up', V, A)
        /\ Len(up') = Len(up) + 1
    BY <1>7, CommandsApart, UpPut DEF QueryVersion
  <2>2. Version \notin Subscriptions
    BY CommandsApart
  <2>3. NoAssociations => NoAssociations'
    BY <1>2, <2>1, <2>2 DEF NoAssociations
  <2>4. Len(<<>>) = 0
    OBVIOUS
  <2>5. c = 1 => Len(up') + Len(pending') + Len(down') <= 1
    BY <1>2, <1>4, <2>1, <2>4
  <2>6. NoVersions \/ NoAssociations => NoneLater'
    <3>1. ASSUME NEW q, NEW V, NEW A, ~Says(q, V) \/ ~Says(q, A) PROVE Orderly(q, V, A)
      BY <3>1 DEF Orderly, Says
    <3>. QED  BY <1>2, <2>1, <2>2, <3>1 DEF NoVersions, NoAssociations, NoneLater
  <2>7. c \in 1..2 => NoneLater'
    BY <1>4, <2>6
  <2>8. Pipeline'
    BY <1>3, <1>4, <1>7, <2>3, <2>5, <2>7 DEF Pipeline
  <2>9. Associated'
    BY <1>7 DEF Associated
  <2>10. Accepted'
    BY <1>2, <1>4, <1>7 DEF Accepted
  <2>. QED  BY <1>5, <1>6, <2>8, <2>9, <2>10 DEF Way
<1>8. CASE fsm' = "Disconnected" /\ conn' = NoConn /\ UNCHANGED up
  <2>1. conn' \notin 1..2 /\ conn' # 1
    BY <1>8 DEF NoConn
  <2>2. NoVersions => NoVersions'
    BY <1>2, <1>8 DEF NoVersions
  <2>3. Pipeline'
    BY <1>3, <1>4, <1>8, <2>1, <2>2 DEF Pipeline
  <2>4. Associated' /\ Accepted'
    BY <2>1 DEF Associated, Accepted
  <2>. QED  BY <1>5, <1>6, <2>3, <2>4 DEF Way
<1>. QED  BY <1>1, <1>7, <1>8

(* A reply that does not change what the attempt waits for. *)
LEMMA OneReplyLess ==
    ASSUME IInv, Way, down # <<>>, down' = Tail(down),
           UNCHANGED <<fsm, conn, timer, up, link, party, pending, since>>,
           UNCHANGED pinged \/ (fsm = "Connected" /\ pinged' = FALSE)
    PROVE  Way'
<1>1. Pipeline'
  BY FewerUnderWay DEF Way
<1>2. Links'
  BY PartsKept DEF Way
<1>3. Recent'
  BY DEF Way, Recent, Subscribed
<1>4. \A R : Says(down', R) => Says(down, R)
  BY DownTaken
<1>5. Accepted'
  BY <1>4 DEF Way, Accepted
<1>6. Associated'
  <2>1. SUFFICES ASSUME conn \in 1..2, "stopped" \notin since
                 PROVE  /\ fsm = "SubscriptionQuerySent"
                              /\ (Says(down', {"Associated"}) \/ Says(pending, {"Associated"})) => IsMine
                        /\ fsm = "Connected" => IsMine /\ InTime'
    BY DEF Associated, IsMine
  <2>2. ASSUME fsm = "Connected" PROVE IsMine /\ InTime'
    <3>1. IsMine /\ InTime
      BY <2>1, <2>2 DEF Way, Associated
    <3>2. Subscribed(party)
      BY <2>1, <3>1, MineSubscribed DEF IsMine
    <3>3. party.age = 0
      BY <3>2 DEF Way, Recent
    <3>. QED  BY <3>1, <3>3 DEF InTime
  <2>. QED  BY <1>4, <2>1, <2>2 DEF Way, Associated
<1>. QED  BY <1>1, <1>2, <1>3, <1>5, <1>6 DEF Way

(* A command is sent, or none, in answer to the version or the association. *)
LEMMA VersionAnswered ==
    ASSUME IInv, Way, fsm = "VersionQuerySent", down # <<>>, Head(down) = "ServerVersion",
           down' = Tail(down), fsm' = "SubscriptionQuerySent", Send(SubscribeAndAssociate(conn)),
           UNCHANGED <<conn, pinged, timer, link, party, pending, since>>
    PROVE  Way'
<1>. DEFINE cmd == SubscribeAndAssociate(conn)
<1>1. conn \in Conns
  BY DEF IInv, Client_, ClientTypes, WithSockets, Handshake
<1>2. cmd \in Commands /\ cmd \in Subscriptions /\ cmd # Version
  BY <1>1, CommandsApart
<1>. HIDE DEF cmd
<1>3. /\ \A R : Says(up', R) <=> Says(up, R) \/ cmd \in R
      /\ Len(up') = Len(up) + 1 /\ Len(up) \in Nat
  BY <1>2, UpPut DEF cmd
<1>4. /\ \A R : Says(down', R) => Says(down, R)
      /\ Orderly(down, {"ServerVersion"}, Answers) => ~Says(down', Answers)
      /\ Len(down') = Len(down) - 1 /\ Len(down) \in Nat \ {0}
      /\ Says(down, {"ServerVersion"})
  BY DownTaken
<1>5. Links'
  BY PartsKept DEF Way
<1>6. Recent'
  BY DEF Way, Recent, Subscribed
<1>7. /\ NoneMade' <=> NoneMade
      /\ OneMade' <=> OneMade
  BY DEF NoneMade, OneMade
<1>8. OneMade => NoVersions'
  <2>1. SUFFICES ASSUME OneMade PROVE NoVersions'
    OBVIOUS
  <2>2. Len(up) + Len(pending) + Len(down) <= 1 /\ Len(pending) \in Nat
    BY <2>1, LengthsKnown DEF Way, Pipeline
  <2>3. Len(up) = 0 /\ Len(pending) = 0 /\ Len(down') = 0
    BY <1>3, <1>4, <2>2
  <2>4. \A R : ~Says(up, R) /\ ~Says(pending, R) /\ ~Says(down', R)
    <3>1. 1..0 = {}
      OBVIOUS
    <3>2. \A q, R : Len(q) = 0 => ~Says(q, R)
      BY <3>1 DEF Says
    <3>. QED  BY <2>3, <3>2
  <2>. QED  BY <1>2, <1>3, <2>4 DEF NoVersions
<1>9. conn \in 1..2 => ~Says(down', Answers) /\ ~Says(pending, Answers) /\ ~Says(up, Subscriptions)
  BY <1>4 DEF Way, Pipeline, NoneLater
<1>10. NoneMade => FALSE
  BY <1>1, ConnectionsAssumption DEF Way, Links, NoneMade, Conns, NoConn
<1>11. conn \in 1..2 => \A c \in Conns : Says(up', {SubscribeAndAssociate(c)}) => c = conn
  <2>1. SUFFICES ASSUME conn \in 1..2, NEW c \in Conns, Says(up', {SubscribeAndAssociate(c)})
                 PROVE  c = conn
    OBVIOUS
  <2>2. ~Says(up, {SubscribeAndAssociate(c)})
    BY <1>9, <2>1, CommandsApart DEF Says
  <2>3. cmd = SubscribeAndAssociate(c)
    BY <1>3, <2>1, <2>2
  <2>. QED  BY <1>1, <2>3, CommandsApart DEF cmd
<1>12. Pipeline'
  BY <1>7, <1>8, <1>10, <1>11 DEF Pipeline
<1>13. Associated'
  BY <1>9 DEF Associated, Answers, Says
<1>14. Accepted'
  BY <1>9 DEF Way, Accepted, Answers, Says
<1>. QED  BY <1>5, <1>6, <1>12, <1>13, <1>14 DEF Way

(* A ping is sent, with which a connection begins or goes on. *)
LEMMA PingSent ==
    ASSUME IInv, Way, fsm \in {"SubscriptionQuerySent", "Connected"}, fsm' = "Connected",
           Send(Ping), pinged' = TRUE, timer' = "set",
           UNCHANGED down \/ (down # <<>> /\ down' = Tail(down)),
           conn \in 1..2 /\ "stopped" \notin since => IsMine /\ party.age <= 1,
           UNCHANGED <<conn, link, party, pending, since>>
    PROVE  Way'
<1>1. /\ \A R : Says(up', R) <=> Says(up, R) \/ Ping \in R
      /\ Ping # Version /\ Ping \notin Subscriptions
      /\ \A c \in Conns : Ping # SubscribeAndAssociate(c)
  <2>1. Ping \in Commands /\ Ping # Version /\ Ping \notin Subscriptions
    BY CommandsApart
  <2>. QED  BY <2>1, UpPut, CommandsApart
<1>2. /\ \A R : Says(down', R) => Says(down, R)
      /\ down' # <<>> => down # <<>>
  BY DownTaken
<1>3. Links'
  BY PartsKept DEF Way
<1>4. Recent'
  BY <1>2 DEF Way, Recent, Subscribed
<1>5. /\ NoneMade' <=> NoneMade
      /\ OneMade' <=> OneMade
      /\ NoVersions => NoVersions'
      /\ ~NoneMade
  <2>1. conn \in Conns /\ conn # NoConn
    BY ConnectionsAssumption DEF IInv, Client_, ClientTypes, WithSockets, Handshake, Conns, NoConn
  <2>2. ~NoneMade
    BY <2>1 DEF Way, Links, NoneMade
  <2>. QED  BY <1>1, <1>2, <2>2 DEF NoneMade, OneMade, NoVersions
<1>6. Pipeline'
  BY <1>1, <1>5 DEF Way, Pipeline
<1>7. Associated'
  BY DEF Associated, IsMine, InTime
<1>8. Accepted'
  BY <1>2 DEF Way, Accepted
<1>. QED  BY <1>3, <1>4, <1>6, <1>7, <1>8 DEF Way

LEMMA HandleExternalWay ==
    ASSUME IInv, Way, HandleExternal PROVE Way'
<1>1. down # <<>> /\ down' = Tail(down) /\ UNCHANGED <<link, party, pending, since>>
  BY DEF HandleExternal, serverVars
<1>2. CASE /\ fsm = "VersionQuerySent" /\ Head(down) = "ServerVersion"
           /\ fsm' = "SubscriptionQuerySent"
           /\ Send(SubscribeAndAssociate(conn))
           /\ UNCHANGED <<conn, pinged, timer>>
  BY <1>1, <1>2, VersionAnswered
<1>3. CASE fsm = "SubscriptionQuerySent" /\ Head(down) = "Associated" /\ Connect
  <2>1. fsm' = "Connected" /\ Send(Ping) /\ pinged' = TRUE /\ timer' = "set" /\ UNCHANGED conn
    BY <1>3 DEF Connect
  <2>2. ASSUME conn \in 1..2, "stopped" \notin since PROVE IsMine /\ party.age <= 1
    <3>1. Says(down, {"Associated"})
      BY <1>1, <1>3, DownTaken
    <3>2. IsMine
      BY <1>3, <2>2, <3>1 DEF Way, Associated
    <3>3. party.age = 0
      BY <1>1, <2>2, <3>2, MineSubscribed DEF Way, Recent, IsMine
    <3>. QED  BY <3>2, <3>3
  <2>. QED  BY <1>1, <1>3, <2>1, <2>2, PingSent
<1>4. CASE Disconnect
  BY <1>1, <1>4, GivenUp DEF Disconnect
<1>5. CASE fsm = "Connected" /\ pinged' = FALSE /\ UNCHANGED <<fsm, conn, timer, up>>
  BY <1>1, <1>5, OneReplyLess
<1>6. CASE UNCHANGED <<clientVars, up>>
  BY <1>1, <1>6, OneReplyLess DEF clientVars
<1>. QED  BY <1>2, <1>3, <1>4, <1>5, <1>6 DEF HandleExternal

LEMMA PingTimeoutWay ==
    ASSUME IInv, Way, PingTimeout PROVE Way'
<1>1. UNCHANGED <<down, link, party, pending, since>> /\ timer = "due"
  BY DEF PingTimeout, serverVars
<1>2. CASE fsm # "Connected" /\ UNCHANGED <<fsm, conn, pinged, up>>
  <2>1. Links' /\ Pipeline' /\ Recent' /\ Accepted'
    BY <1>1, <1>2, PartsKept DEF Way
  <2>2. Associated'
    BY <1>1, <1>2 DEF Way, Associated, IsMine
  <2>. QED  BY <2>1, <2>2 DEF Way
<1>3. CASE fsm' = "Disconnected" /\ conn' = NoConn /\ UNCHANGED <<pinged, up>>
  BY <1>1, <1>3, GivenUp
<1>4. CASE /\ fsm = "Connected" /\ ~pinged /\ Send(Ping) /\ pinged' = TRUE /\ timer' = "set"
           /\ UNCHANGED <<fsm, conn>>
  <2>1. ASSUME conn \in 1..2, "stopped" \notin since PROVE IsMine /\ party.age <= 1
    BY <1>1, <1>4, <2>1 DEF Way, Associated, InTime
  <2>. QED  BY <1>1, <1>4, <2>1, PingSent
<1>. QED  BY <1>2, <1>3, <1>4 DEF PingTimeout, Rearmed

LEMMA IdleWay ==
    ASSUME Way, ConnectClicked \/ DisconnectClicked \/ OnStateChange \/ Restart PROVE Way'
<1>1. UNCHANGED <<clientVars, up, down, link, party, pending, since>>
  BY DEF ConnectClicked, DisconnectClicked, OnStateChange, Restart, serverVars
<1>. QED  BY <1>1, PartsKept DEF Way, clientVars

LEMMA InternalWay ==
    ASSUME IInv, Way, HandleInternal \/ TcpError PROVE Way'
<1>1. UNCHANGED <<up, down, link, party, pending>>
  BY DEF HandleInternal, TcpError, serverVars
<1>2. conn' = NoConn /\ fsm' \in {"Disconnected", "TcpConnecting"}
  <2>1. CASE HandleInternal
    BY <2>1 DEF HandleInternal
  <2>2. CASE TcpError
    BY <2>2 DEF TcpError, IInv, Client_, ClientTypes, WithSockets, Handshake
  <2>. QED  BY <2>1, <2>2
<1>. QED  BY <1>1, <1>2, GivenUp

(* A datagram is answered with what belongs to it. *)
LEMMA Answered ==
    ASSUME IInv, Pipeline, up # <<>>, up' = Tail(up), NEW reply \in Replies, Respond(reply),
           reply = "ServerVersion" => Head(up) = Version,
           reply \in Answers => Head(up) \in Subscriptions,
           UNCHANGED <<fsm, conn, link>>
    PROVE  Pipeline'
<1>1. /\ \A R : Says(up', R) => Says(up, R)
      /\ Head(up) \in {Version} => Says(up, {Version})
      /\ Head(up) \in Subscriptions => Says(up, Subscriptions)
      /\ Orderly(up, {Version}, Subscriptions) =>
            /\ Orderly(up', {Version}, Subscriptions)
            /\ Head(up) = Version => ~Says(up', Subscriptions)
      /\ Len(up') = Len(up) - 1 /\ Len(up) \in Nat
  BY UpTaken
<1>2. down' = down \o pending /\ pending' = <<reply>>
  BY DEF Respond
<1>3. \A R : Says(pending', R) <=> reply \in R
  BY <1>2, SaysNothing
<1>4. /\ \A R : Says(down', R) <=> Says(down, R) \/ Says(pending, R)
      /\ Orderly(down, {"ServerVersion"}, Answers)
            /\ (Says(down, {"ServerVersion"}) => ~Says(pending, Answers))
         => Orderly(down', {"ServerVersion"}, Answers)
      /\ Len(down') = Len(down) + Len(pending)
      /\ Len(down) \in Nat /\ Len(pending) \in Nat
  BY <1>2, SaysFlushed DEF IInv
<1>5. NoVersions => NoVersions'
  BY <1>1, <1>3, <1>4 DEF NoVersions
<1>6. NoAssociations => NoAssociations'
  BY <1>1, <1>3, <1>4 DEF NoAssociations
<1>7. NoneLater => NoneLater'
  BY <1>1, <1>3, <1>4 DEF NoneLater
<1>8. Len(up') + Len(pending') + Len(down') = Len(up) + Len(pending) + Len(down)
  <2>1. Len(pending') = 1
    BY <1>2
  <2>. QED  BY <1>1, <1>4, <2>1
<1>9. /\ NoneMade' <=> NoneMade
      /\ OneMade' <=> OneMade
  BY DEF NoneMade, OneMade
<1>. QED  BY <1>1, <1>5, <1>6, <1>7, <1>8, <1>9 DEF Pipeline

LEMMA OnExternalWay ==
    ASSUME IInv, Way, OnExternal PROVE Way'
<1>. DEFINE cmd == Head(up)
            c == cmd.addr
            refused == link[c] # "accepted"
<1>1. up # <<>> /\ up' = Tail(up) /\ UNCHANGED <<fsm, conn, timer, pinged, link, since>>
  BY DEF OnExternal, clientVars
<1>2. PICK reply \in Replies :
        /\ Respond(reply)
        /\ \/ cmd = Version /\ reply = "ServerVersion" /\ party' = Heard(party)
           \/ cmd = Ping /\ reply = "Pong" /\ party' = Heard(party)
           \/ /\ cmd.kind = "SubscribeAndAssociate" /\ party' = Associate(Fresh, c)
              /\ reply = IF refused THEN "NotAssociated" ELSE "Associated"
  BY DEF OnExternal, Replies
<1>3. cmd \in Commands /\ \A R : cmd \in R => Says(up, R)
  BY <1>1, UpTaken
<1>4. ASSUME cmd.kind = "SubscribeAndAssociate"
      PROVE  /\ c \in Conns /\ cmd = SubscribeAndAssociate(c) /\ cmd \in Subscriptions
             /\ Says(up, {SubscribeAndAssociate(c)})
  <2>1. cmd # Version /\ cmd # Ping
    BY <1>4 DEF Version, Ping
  <2>. QED  BY <1>3, <2>1, CommandsApart
<1>. HIDE DEF cmd
<1>5. Pipeline'
  <2>1. reply = "ServerVersion" => cmd = Version
    BY <1>2
  <2>2. reply \in Answers => cmd \in Subscriptions
    BY <1>2, <1>4 DEF Answers
  <2>. QED  BY <1>1, <1>2, <2>1, <2>2, Answered DEF Way, cmd
<1>6. Links'
  BY <1>1, PartsKept DEF Way
<1>7. Subscribed(party') => party'.age = 0
  <2>1. CASE party' = Heard(party)
    BY <2>1, PartyTypes, SubscribedParties DEF Heard, IInv, Server_, PartyType
  <2>2. CASE party' = Associate(Fresh, c)
    BY <2>2 DEF Associate, Fresh
  <2>. QED  BY <1>2, <2>1, <2>2
<1>8. Recent'
  BY <1>7 DEF Recent
<1>9. ASSUME conn \in 1..2, fsm \in {"SubscriptionQuerySent", "Connected"},
             IsMine \/ reply = "Associated"
      PROVE  IsMine' /\ party'.age = 0
  <2>1. CASE party' = Heard(party) /\ IsMine
    <3>1. Heard(party).tcp = party.tcp
      BY DEF Heard, Refreshed
    <3>. QED  BY <1>1, <1>7, <1>9, <2>1, <3>1, MineSubscribed DEF IsMine, Heard, Refreshed
  <2>2. CASE cmd.kind = "SubscribeAndAssociate" /\ party' = Associate(Fresh, c)
    <3>1. c = conn
      BY <1>4, <1>9, <2>2 DEF Way, Pipeline
    <3>2. link[conn] = "accepted"
      BY <1>2, <1>9, <2>2, <3>1 DEF IsMine, Version, Ping
    <3>3. party' = [Fresh EXCEPT !.tcp = c]
      BY <2>2, <3>1, <3>2 DEF Associate
    <3>. QED  BY <1>1, <3>1, <3>2, <3>3 DEF IsMine, Fresh
  <2>. QED  BY <1>2, <1>9, <2>1, <2>2
<1>10. /\ \A R : Says(down', R) <=> Says(down, R) \/ Says(pending, R)
       /\ \A R : Says(pending', R) <=> reply \in R
  BY <1>2, SaysFlushed, SaysNothing DEF Respond, IInv
<1>11. Associated'
  <2>1. SUFFICES ASSUME conn \in 1..2, "stopped" \notin since
                 PROVE  /\ fsm = "SubscriptionQuerySent"
                              /\ (Says(down', {"Associated"}) \/ Says(pending', {"Associated"})) => IsMine'
                        /\ fsm = "Connected" => IsMine' /\ InTime'
    BY <1>1 DEF Associated
  <2>2. ASSUME fsm = "SubscriptionQuerySent",
               Says(down', {"Associated"}) \/ Says(pending', {"Associated"})
        PROVE  IsMine'
    <3>1. IsMine \/ reply = "Associated"
      BY <1>10, <2>1, <2>2 DEF Way, Associated
    <3>. QED  BY <1>9, <2>1, <2>2, <3>1
  <2>3. ASSUME fsm = "Connected" PROVE IsMine' /\ InTime'
    <3>1. IsMine /\ InTime
      BY <2>1, <2>3 DEF Way, Associated
    <3>2. IsMine' /\ party'.age = 0
      BY <1>9, <2>1, <2>3, <3>1
    <3>. QED  BY <1>1, <3>1, <3>2 DEF InTime
  <2>. QED  BY <2>2, <2>3
<1>12. Accepted'
  <2>1. SUFFICES ASSUME conn = 1, since \cap {"stopped", "crowded"} = {}
                 PROVE  /\ fsm = "VersionQuerySent" /\ down' # <<>> => link[1] = "accepted"
                        /\ fsm # "VersionQuerySent" =>
                              /\ link[1] = "accepted"
                              /\ ~Says(down', {"NotAssociated"}) /\ ~Says(pending', {"NotAssociated"})
    BY <1>1 DEF Accepted
  <2>2. ASSUME fsm = "VersionQuerySent" PROVE down' = <<>>
    <3>1. OneMade
      BY <2>1 DEF Way, Links, OneMade, NoConn, Conns
    <3>2. Len(up) + Len(pending) + Len(down) <= 1
      BY <2>2, <3>1 DEF Way, Pipeline
    <3>3. pending = <<>> /\ down = <<>>
      BY <1>1, <3>2, LengthsKnown
    <3>4. <<>> \o <<>> = <<>>
      OBVIOUS
    <3>. QED  BY <1>2, <3>3, <3>4 DEF Respond
  <2>3. ASSUME fsm # "VersionQuerySent"
        PROVE  /\ link[1] = "accepted"
               /\ ~Says(down', {"NotAssociated"}) /\ ~Says(pending', {"NotAssociated"})
    <3>1. /\ link[1] = "accepted"
          /\ ~Says(down, {"NotAssociated"}) /\ ~Says(pending, {"NotAssociated"})
      BY <2>1, <2>3 DEF Way, Accepted
    <3>2. fsm \in {"SubscriptionQuerySent", "Connected"}
      BY <2>1, <2>3 DEF IInv, Client_, ClientTypes, WithSockets, Handshake, NoConn
    <3>3. cmd.kind = "SubscribeAndAssociate" => c = conn
      BY <1>4, <2>1, <3>2 DEF Way, Pipeline
    <3>4. reply # "NotAssociated"
      BY <1>2, <2>1, <3>1, <3>3
    <3>. QED  BY <1>10, <3>1, <3>4
  <2>. QED  BY <2>2, <2>3
<1>. QED  BY <1>5, <1>6, <1>8, <1>11, <1>12 DEF Way

(* What waits to be flushed is, with none waiting to be accepted or by the *)
(* datagram of another client.                                             *)
LEMMA FlushedWay ==
    ASSUME IInv, Way, down' = down \o pending, pending' = <<>>,
           UNCHANGED <<fsm, conn, timer, pinged, link, up>>,
           \/ UNCHANGED since /\ (Waiting = {} \/ ~(conn = 1 /\ fsm = "VersionQuerySent"))
           \/ since' = since \cup {"crowded"},
           Subscribed(party') /\ (down # <<>> \/ pending # <<>>) => party'.age = 0,
           conn \in 1..2 /\ IsMine /\ (InTime \/ party.age = 0) =>
               party'.tcp = conn /\ party'.age \in {0, party.age}
    PROVE  Way'
<1>1. /\ \A R : Says(down', R) <=> Says(down, R) \/ Says(pending, R)
      /\ Orderly(down, {"ServerVersion"}, Answers)
            /\ (Says(down, {"ServerVersion"}) => ~Says(pending, Answers))
         => Orderly(down', {"ServerVersion"}, Answers)
      /\ down' # <<>> => down # <<>> \/ pending # <<>>
      /\ down = <<>> /\ pending = <<>> => down' = <<>>
      /\ Len(down') = Len(down) + Len(pending)
      /\ Len(up) \in Nat /\ Len(down) \in Nat /\ Len(pending) \in Nat
  <2>1. Len(up) \in Nat
    BY LengthsKnown
  <2>. QED  BY <2>1, SaysFlushed DEF IInv
<1>2. \A R : ~Says(pending', R)
  BY SaysNothing
<1>3. Pipeline'
  <2>1. /\ NoVersions => NoVersions'
        /\ NoAssociations => NoAssociations'
        /\ NoneLater => NoneLater'
    BY <1>1, <1>2 DEF NoVersions, NoAssociations, NoneLater
  <2>2. Len(up') + Len(pending') + Len(down') = Len(up) + Len(pending) + Len(down)
    <3>1. Len(pending') = 0
      OBVIOUS
    <3>. QED  BY <1>1, <3>1
  <2>3. /\ NoneMade' <=> NoneMade
        /\ OneMade' <=> OneMade
    BY DEF NoneMade, OneMade
  <2>. QED  BY <1>1, <2>1, <2>2, <2>3 DEF Way, Pipeline
<1>4. Links'
  BY DEF Way, Links
<1>5. Recent'
  BY <1>1 DEF Recent
<1>6. Associated'
  <2>1. SUFFICES ASSUME conn \in 1..2, "stopped" \notin since
                 PROVE  /\ fsm = "SubscriptionQuerySent" /\ Says(down', {"Associated"}) => IsMine'
                        /\ fsm = "Connected" => IsMine' /\ InTime'
    BY <1>2 DEF Associated
  <2>2. IsMine /\ (InTime \/ party.age = 0) => IsMine'
    BY <2>1 DEF IsMine
  <2>3. IsMine /\ InTime => InTime'
    BY <2>1 DEF InTime
  <2>4. ASSUME fsm = "SubscriptionQuerySent", Says(down', {"Associated"}) PROVE IsMine'
    <3>1. Says(down, {"Associated"}) \/ Says(pending, {"Associated"})
      BY <1>1, <2>4
    <3>2. IsMine /\ Subscribed(party)
      BY <2>1, <2>4, <3>1, MineSubscribed DEF Way, Associated, IsMine
    <3>3. down # <<>> \/ pending # <<>>
      BY <3>1, SaysNothing
    <3>. QED  BY <2>2, <3>2, <3>3 DEF Way, Recent
  <2>. QED  BY <2>1, <2>2, <2>3, <2>4 DEF Way, Associated
<1>7. Accepted'
  <2>1. SUFFICES ASSUME conn = 1, since \cap {"stopped", "crowded"} = {},
                        Waiting = {} \/ fsm # "VersionQuerySent"
                 PROVE  /\ fsm = "VersionQuerySent" /\ down' # <<>> => link[1] = "accepted"
                        /\ fsm # "VersionQuerySent" =>
                              link[1] = "accepted" /\ ~Says(down', {"NotAssociated"})
    BY <1>2 DEF Accepted
  <2>2. CASE Waiting = {}
    <3>1. 1 \in Conns /\ "stopped" \notin since
      BY <2>1 DEF IInv, Client_, ClientTypes, NoConn
    <3>2. link[1] = "accepted"
      BY <2>1, <2>2, <3>1 DEF Way, Links, Waiting, NoConn
    <3>. QED  BY <1>1, <2>1, <3>2 DEF Way, Accepted
  <2>3. CASE fsm # "VersionQuerySent"
    BY <1>1, <2>1, <2>3 DEF Way, Accepted
  <2>. QED  BY <2>1, <2>2, <2>3
<1>. QED  BY <1>3, <1>4, <1>5, <1>6, <1>7 DEF Way

LEMMA OthersDatagramWay ==
    ASSUME IInv, Way, OthersDatagram PROVE Way'
<1>1. /\ down' = down \o pending /\ pending' = <<>> /\ party' = Refreshed(party)
      /\ UNCHANGED <<fsm, conn, timer, pinged, link, up>> /\ since' = since \cup {"crowded"}
  BY DEF OthersDatagram, Flush, clientVars
<1>2. Subscribed(party') => party'.age = 0
  BY <1>1, PartyTypes, SubscribedParties DEF Refreshed, IInv, Server_, PartyType
<1>3. ASSUME conn \in 1..2, IsMine PROVE party'.tcp = conn /\ party'.age = 0
  <2>1. Subscribed(party)
    BY <1>3, MineSubscribed DEF IsMine
  <2>2. party' = [party EXCEPT !.age = 0] /\ party \in Parties
    BY <1>1, <2>1, SubscribedParties DEF Refreshed, IInv, Server_, PartyType
  <2>. QED  BY <1>3, <2>2 DEF IsMine, Parties
<1>. QED  BY <1>1, <1>2, <1>3, FlushedWay

LEMMA PollCompleteWay ==
    ASSUME IInv, Way, PollComplete PROVE Way'
<1>1. /\ down' = down \o pending /\ pending' = <<>> /\ Waiting = {}
      /\ UNCHANGED <<fsm, conn, timer, pinged, link, up, party, since>>
  BY DEF PollComplete, clientVars
<1>2. Subscribed(party') /\ (down # <<>> \/ pending # <<>>) => party'.age = 0
  BY <1>1 DEF Way, Recent
<1>3. conn \in 1..2 /\ IsMine => party'.tcp = conn /\ party'.age \in {0, party.age}
  BY <1>1 DEF IsMine
<1>. QED  BY <1>1, <1>2, <1>3, FlushedWay

(* The party of an attempt that is connected is never old enough to expire, *)
(* and has a connection that can be used; and an attempt that waits for the *)
(* server's version is not subscribed, so that only a broadcast to another  *)
(* client can flush its answer.                                             *)
LEMMA BroadcastWay ==
    ASSUME IInv, Way, Unheard, Broadcast PROVE Way'
<1>. DEFINE usable(p) == p.tcp \in Conns /\ link[p.tcp] = "accepted"
<1>1. PICK kept \in Retained, overTcp \in BOOLEAN, others \in BOOLEAN :
        /\ LET byUdp == Subscribed(kept) /\ ~(overTcp /\ usable(kept))
           IN /\ party' = IF byUdp /\ overTcp THEN [kept EXCEPT !.tcp = NoConn] ELSE kept
              /\ IF byUdp \/ others THEN Flush ELSE UNCHANGED <<down, pending>>
        /\ since' = IF others THEN since \cup {"crowded"} ELSE since
  BY DEF Broadcast
<1>2. UNCHANGED <<fsm, conn, timer, pinged, link, up>>
  BY DEF Broadcast, clientVars
<1>. HIDE DEF usable
<1>3. kept = party \/ (kept = NoParty /\ MayExpire(party))
  BY DEF Retained
<1>4. Subscribed(party) => party \in Parties
  BY SubscribedParties DEF IInv, Server_, PartyType
<1>5. ASSUME conn \in 1..2, IsMine, InTime \/ party.age = 0 PROVE party' = party
  <2>1. Subscribed(party) /\ party \in Parties
    BY <1>4, <1>5, MineSubscribed DEF IsMine
  <2>2. party.age \in Nat /\ party.age <= 2
    BY <1>5, <2>1 DEF InTime, Parties, Ages
  <2>3. kept = party
    BY <1>3, <2>2 DEF MayExpire
  <2>4. conn \in Conns
    BY <1>5, ConnectionsAssumption DEF IInv, Client_, ClientTypes, NoConn
  <2>5. usable(party)
    BY <1>5, <2>4 DEF IsMine, usable
  <2>. QED  BY <1>1, <2>3, <2>5
<1>6. CASE (Subscribed(kept) /\ ~(overTcp /\ usable(kept))) \/ others
  <2>1. down' = down \o pending /\ pending' = <<>>
    BY <1>1, <1>6 DEF Flush
  <2>2. Subscribed(party') /\ (down # <<>> \/ pending # <<>>) => party'.age = 0
    <3>1. SUFFICES ASSUME Subscribed(party'), down # <<>> \/ pending # <<>> PROVE party'.age = 0
      OBVIOUS
    <3>2. Subscribed(party)
      BY <3>1, BroadcastParty
    <3>3. party \in Parties /\ party.age = 0
      BY <1>4, <3>1, <3>2 DEF Way, Recent
    <3>4. kept = party
      BY <1>3, <3>3 DEF MayExpire
    <3>. QED  BY <1>1, <3>3, <3>4 DEF Parties
  <2>3. conn \in 1..2 /\ IsMine /\ (InTime \/ party.age = 0) =>
            party'.tcp = conn /\ party'.age \in {0, party.age}
    BY <1>5 DEF IsMine
  <2>4. CASE others
    BY <1>1, <1>2, <2>1, <2>2, <2>3, <2>4, FlushedWay
  <2>5. CASE Subscribed(kept) /\ ~others
    <3>1. Subscribed(party)
      BY <1>3, <2>5 DEF Subscribed
    <3>2. ~(conn = 1 /\ fsm = "VersionQuerySent")
      BY <3>1 DEF Unheard, Early
    <3>. QED  BY <1>1, <1>2, <2>1, <2>2, <2>3, <2>5, <3>2, FlushedWay
  <2>. QED  BY <1>6, <2>4, <2>5
<1>7. CASE ~(Subscribed(kept) /\ ~(overTcp /\ usable(kept))) /\ ~others
  <2>1. UNCHANGED <<down, pending, since>> /\ party' = kept
    BY <1>1, <1>7
  <2>2. CASE kept = party
    BY <1>2, <2>1, <2>2, PartsKept DEF Way
  <2>3. CASE kept = NoParty /\ MayExpire(party)
    <3>1. Links' /\ Pipeline' /\ Accepted'
      BY <1>2, <2>1, PartsKept DEF Way
    <3>2. Recent'
      BY <2>1, <2>3 DEF Recent, Subscribed
    <3>3. Associated'
      <4>1. SUFFICES ASSUME conn \in 1..2, "stopped" \notin since
                     PROVE  /\ fsm = "SubscriptionQuerySent"
                                  /\ (Says(down, {"Associated"}) \/ Says(pending, {"Associated"}))
                                => IsMine'
                            /\ fsm = "Connected" => IsMine' /\ InTime'
        BY <1>2, <2>1 DEF Associated
      <4>2. IsMine /\ (InTime \/ party.age = 0) => IsMine' /\ (InTime => InTime')
        BY <1>2, <1>5, <2>1, <4>1 DEF IsMine, InTime
      <4>3. ASSUME fsm = "SubscriptionQuerySent",
                   Says(down, {"Associated"}) \/ Says(pending, {"Associated"})
            PROVE  IsMine'
        <5>1. IsMine /\ Subscribed(party)
          BY <4>1, <4>3, MineSubscribed DEF Way, Associated, IsMine
        <5>2. down # <<>> \/ pending # <<>>
          BY <4>3, SaysNothing
        <5>. QED  BY <4>2, <5>1, <5>2 DEF Way, Recent
      <4>. QED  BY <4>1, <4>2, <4>3 DEF Way, Associated
    <3>. QED  BY <3>1, <3>2, <3>3 DEF Way
  <2>. QED  BY <1>3, <2>2, <2>3
<1>. QED  BY <1>6, <1>7

(* The server's end of a connection of the attempt goes on, if it changes. *)
LEMMA LinksWay ==
    ASSUME IInv, Way, PollTcp \/ Accept PROVE Way'
<1>1. UNCHANGED <<fsm, conn, timer, pinged, up, down, party, pending, since>>
  BY DEF PollTcp, Accept, clientVars
<1>2. /\ \A c \in Conns : link'[c] = "unused" <=> link[c] = "unused"
      /\ conn \in Conns => link'[conn] = link[conn]
                             \/ (link[conn] = "backlog" /\ link'[conn] = "accepted")
  <2>1. link \in [Conns -> {"unused", "backlog", "accepted", "gone"}]
    BY DEF IInv, Server_, ServerTypes
  <2>2. CASE PollTcp
    BY <2>1, <2>2 DEF PollTcp
  <2>3. CASE Accept
    BY <2>1, <2>3 DEF Accept, Waiting
  <2>. QED  BY <2>2, <2>3
<1>3. conn \in Conns \cup {NoConn}
  BY DEF IInv, Client_, ClientTypes
<1>4. conn # NoConn /\ link[conn] = "accepted" => link'[conn] = "accepted"
  BY <1>2, <1>3
<1>5. Links'
  <2>1. \A c, d \in Conns : c < d /\ link'[d] # "unused" => link'[c] # "unused"
    BY <1>2 DEF Way, Links
  <2>2. conn # NoConn => link'[conn] # "unused" /\ \A d \in Conns : d > conn => link'[d] = "unused"
    BY <1>2, <1>3 DEF Way, Links
  <2>3. conn # NoConn /\ "stopped" \notin since => link'[conn] \in {"backlog", "accepted"}
    BY <1>2, <1>3 DEF Way, Links
  <2>. QED  BY <1>1, <2>1, <2>2, <2>3 DEF Links
<1>6. Pipeline'
  BY <1>1, <1>2, FewerUnderWay DEF Way
<1>7. Recent'
  BY <1>1, PartsKept DEF Way
<1>8. Associated'
  <2>1. conn \in 1..2 /\ IsMine => IsMine'
    BY <1>1, <1>4 DEF IsMine, NoConn
  <2>2. InTime' <=> InTime
    BY <1>1 DEF InTime
  <2>. QED  BY <1>1, <2>1, <2>2 DEF Way, Associated
<1>9. Accepted'
  BY <1>1, <1>4 DEF Way, Accepted, NoConn
<1>. QED  BY <1>5, <1>6, <1>7, <1>8, <1>9 DEF Way

LEMMA LoseWay ==
    ASSUME IInv, Way, Lose \/ Unreachable PROVE Way'
<1>1. /\ UNCHANGED <<fsm, conn, timer, pinged, link, party, pending>>
      /\ since' \in {since, since \cup {"lost"}}
      /\ UNCHANGED up \/ (up # <<>> /\ up' = Tail(up))
      /\ UNCHANGED down \/ (down # <<>> /\ down' = Tail(down))
  BY DEF Lose, Unreachable, clientVars, serverVars
<1>2. Pipeline'
  BY <1>1, FewerUnderWay DEF Way
<1>3. /\ \A R : Says(down', R) => Says(down, R)
      /\ down' # <<>> => down # <<>>
  BY <1>1, DownTaken
<1>4. Links'
  BY <1>1 DEF Way, Links
<1>5. Recent'
  BY <1>1, <1>3 DEF Way, Recent, Subscribed
<1>6. Associated'
  <2>1. /\ IsMine' <=> IsMine
        /\ InTime' <=> InTime
    BY <1>1 DEF IsMine, InTime
  <2>. QED  BY <1>1, <1>3, <2>1 DEF Way, Associated
<1>7. Accepted'
  BY <1>1, <1>3 DEF Way, Accepted
<1>. QED  BY <1>2, <1>4, <1>5, <1>6, <1>7 DEF Way

LEMMA CrashWay ==
    ASSUME IInv, Way, Crash PROVE Way'
<1>1. /\ UNCHANGED <<fsm, conn, up, down>> /\ pending' = <<>>
      /\ party' = NoParty /\ since' = since \cup {"stopped"}
      /\ link' = [c \in Conns |-> IF link[c] = "unused" THEN "unused" ELSE "gone"]
  BY DEF Crash, clientVars
<1>2. \A c \in Conns : link'[c] = "unused" <=> link[c] = "unused"
  BY <1>1
<1>3. Pipeline'
  BY <1>1, <1>2, FewerUnderWay DEF Way
<1>4. Links'
  <2>1. conn \in Conns \cup {NoConn}
    BY DEF IInv, Client_, ClientTypes
  <2>. QED  BY <1>1, <1>2, <2>1 DEF Way, Links
<1>5. Recent' /\ Associated' /\ Accepted'
  BY <1>1 DEF Recent, Subscribed, Associated, Accepted
<1>. QED  BY <1>3, <1>4, <1>5 DEF Way

(* As time goes by, the timer is due before the party is old. *)
LEMMA TickWay ==
    ASSUME IInv, Way, Tick PROVE Way'
<1>1. /\ up = <<>> /\ down = <<>> /\ pending = <<>> /\ timer # "due"
      /\ timer' = IF timer = "set" THEN "due" ELSE timer
      /\ UNCHANGED <<fsm, conn, pinged, up, down, link, pending, since>>
  BY DEF Tick
<1>2. Links' /\ Pipeline' /\ Accepted'
  BY <1>1, PartsKept DEF Way
<1>3. Recent'
  BY <1>1 DEF Recent
<1>4. Associated'
  <2>1. SUFFICES ASSUME conn \in 1..2, "stopped" \notin since, fsm = "Connected"
                 PROVE  IsMine' /\ InTime'
    BY <1>1, SaysNothing DEF Associated
  <2>2. IsMine /\ InTime
    BY <2>1 DEF Way, Associated
  <2>3. Subscribed(party) /\ party \in Parties
    BY <2>1, <2>2, MineSubscribed, SubscribedParties DEF IsMine, IInv, Server_, PartyType
  <2>4. party' = [party EXCEPT !.age = Older(@), !.silent = Older(@)]
    BY <2>3 DEF Tick
  <2>5. party'.tcp = party.tcp /\ party'.age <= party.age + 1 /\ party.age \in Nat /\ party'.age \in Nat
    BY <2>3, <2>4 DEF Parties, Ages, Older
  <2>6. IsMine'
    BY <1>1, <2>2, <2>5 DEF IsMine
  <2>7. InTime'
    BY <1>1, <2>2, <2>5 DEF InTime
  <2>. QED  BY <2>6, <2>7
<1>. QED  BY <1>2, <1>3, <1>4 DEF Way

LEMMA StepWay == IInv /\ Way /\ Unheard /\ [Next]_vars => Way'
<1>. SUFFICES ASSUME IInv, Way, Unheard, [Next]_vars PROVE Way'
  OBVIOUS
<1>1. CASE UNCHANGED vars
  BY <1>1, PartsKept DEF vars, clientVars, serverVars, Way
<1>2. CASE Next
  BY <1>2, IdleWay, InternalWay, TcpReadyWay, HandleExternalWay, PingTimeoutWay, OnExternalWay,
     OthersDatagramWay, LinksWay, BroadcastWay, PollCompleteWay, LoseWay, CrashWay, TickWay
  DEF Next, User, Client, Server, Environment
<1>. QED  BY <1>1, <1>2

-----------------------------------------------------------------------------
(* Unheard is kept: whoever waits for the version of the server has no      *)
(* subscription under way.                                                  *)

LEMMA InitUnheard == Init => Unheard
BY DEF Init, Unheard, Subscribed

LEMMA StillEarly ==
    ASSUME IInv, Way, Next, Early' PROVE Early
<1>1. link \in [Conns -> {"unused", "backlog", "accepted", "gone"}]
  BY DEF IInv, Server_, ServerTypes
<1>2. CASE TcpReady
  <2>1. PICK c \in Conns :
          /\ IsNext(c) /\ link' = [link EXCEPT ![c] = "backlog"]
          /\ \/ fsm' = "VersionQuerySent" /\ conn' = c
             \/ fsm' = "Disconnected"
    BY <1>2 DEF TcpReady
  <2>2. (c = 1 => NoneMade) /\ ~NoneMade'
    BY <2>1, NextLink DEF Way
  <2>. QED  BY <2>1, <2>2 DEF Early
<1>3. CASE PollTcp \/ Accept \/ Crash
  <2>1. UNCHANGED <<fsm, conn>>
    BY <1>3 DEF PollTcp, Accept, Crash, clientVars
  <2>2. \A c \in Conns : link'[c] = "unused" => link[c] = "unused"
    BY <1>1, <1>3 DEF PollTcp, Accept, Crash, Waiting
  <2>. QED  BY <2>1, <2>2 DEF Early, NoneMade
<1>4. CASE UNCHANGED link /\ (UNCHANGED <<fsm, conn>> \/ fsm' # "VersionQuerySent")
  BY <1>4 DEF Early, NoneMade
<1>5. CASE HandleInternal \/ TcpError \/ HandleExternal \/ PingTimeout
  <2>1. UNCHANGED link
    BY <1>5 DEF HandleInternal, TcpError, HandleExternal, PingTimeout, serverVars
  <2>2. UNCHANGED <<fsm, conn>> \/ fsm' # "VersionQuerySent"
    BY <1>5 DEF HandleInternal, TcpError, HandleExternal, PingTimeout, Connect, Disconnect, clientVars
  <2>. QED  BY <1>4, <2>1, <2>2
<1>6. CASE User \/ OnStateChange \/ OnExternal \/ OthersDatagram \/ Broadcast \/ PollComplete
             \/ Lose \/ Unreachable \/ Restart \/ Tick
  <2>1. UNCHANGED <<link, fsm, conn>>
    BY <1>6 DEF User, ConnectClicked, DisconnectClicked, OnStateChange, OnExternal, OthersDatagram,
       Broadcast, PollComplete, Lose, Unreachable, Restart, Tick, clientVars, serverVars
  <2>. QED  BY <1>4, <2>1
<1>. QED  BY <1>2, <1>3, <1>5, <1>6 DEF Next, Client, Server, Environment

LEMMA StepUnheard == IInv /\ Way /\ Unheard /\ [Next]_vars => Unheard'
<1>. SUFFICES ASSUME IInv, Way, Unheard, [Next]_vars PROVE Unheard'
  OBVIOUS
<1>1. CASE UNCHANGED vars
  BY <1>1 DEF vars, clientVars, serverVars, Unheard, Early, NoneMade, Subscribed
<1>2. CASE Next
  <2>. SUFFICES ASSUME Early' PROVE ~Subscribed(party')
    BY DEF Unheard, Subscribed
  <2>1. Early /\ ~Subscribed(party)
    BY <1>2, StillEarly DEF Unheard
  <2>2. ~Says(up, Subscriptions)
    <3>1. CASE NoneMade
      BY <3>1, SaysNothing DEF Way, Pipeline
    <3>2. CASE conn = 1 /\ fsm = "VersionQuerySent"
      <4>1. OneMade
        BY <3>2 DEF Way, Links, OneMade, NoConn, Conns
      <4>. QED  BY <3>2, <4>1 DEF Way, Pipeline, NoAssociations
    <3>. QED  BY <2>1, <3>1, <3>2 DEF Early
  <2>3. CASE OnExternal
    <3>1. up # <<>> /\ up' = Tail(up)
      BY <2>3 DEF OnExternal
    <3>2. Head(up) \in Commands /\ Head(up) \notin Subscriptions
      BY <2>2, <3>1, UpTaken
    <3>3. Head(up) = Version \/ Head(up) = Ping
      BY <3>2, CommandsApart
    <3>4. party' = Heard(party)
      BY <2>3, <3>3 DEF OnExternal, Version, Ping
    <3>. QED  BY <2>1, <3>4 DEF Heard
  <2>4. CASE OthersDatagram
    BY <2>1, <2>4 DEF OthersDatagram, Refreshed
  <2>5. CASE Broadcast
    BY <2>1, <2>5, BroadcastParty
  <2>6. CASE Crash
    BY <2>6 DEF Crash, Subscribed
  <2>7. CASE Tick
    BY <2>1, <2>7 DEF Tick
  <2>8. CASE User \/ Client \/ PollTcp \/ Accept \/ PollComplete \/ Lose \/ Unreachable \/ Restart
    <3>1. UNCHANGED party
      BY <2>8 DEF User, ConnectClicked, DisconnectClicked, Client, OnStateChange, HandleInternal, TcpReady,
         TcpError, HandleExternal, PingTimeout, PollTcp, Accept, PollComplete, Lose, Unreachable, Restart, serverVars
    <3>. QED  BY <2>1, <3>1
  <2>. QED  BY <1>2, <2>3, <2>4, <2>5, <2>6, <2>7, <2>8 DEF Next, Server, Environment
<1>. QED  BY <1>1, <1>2

-----------------------------------------------------------------------------
(* The attempt that is connected, and the one that came before it at most *)

LEMMA FirstOrSecond ==
    ASSUME IInv, fsm \in WithSockets, OneBefore PROVE conn \in 1..2
BY ConnectionsAssumption DEF IInv, Client_, ClientTypes, OneBefore, Conns, NoConn

LEMMA SubscribedThen == IInv /\ Way => ConnectedIsSubscribed
<1>. SUFFICES ASSUME IInv, Way, fsm = "Connected", OneBefore, "stopped" \notin since
              PROVE  Subscribed(party)
  BY DEF ConnectedIsSubscribed
<1>1. conn \in 1..2
  BY FirstOrSecond DEF WithSockets
<1>. QED  BY <1>1, MineSubscribed DEF Way, Associated, IsMine

LEMMA MineThen == IInv /\ Way => AssociatedIsMine
<1>. SUFFICES ASSUME IInv, Way, fsm = "Connected", OneBefore, "stopped" \notin since
              PROVE  party.tcp = conn /\ link[conn] = "accepted"
  BY DEF AssociatedIsMine
<1>1. conn \in 1..2
  BY FirstOrSecond DEF WithSockets
<1>. QED  BY <1>1 DEF Way, Associated, IsMine

LEMMA AssociatesThen == IInv /\ Way => FirstHandshakeAssociates
<1>. SUFFICES ASSUME IInv, Way, conn = 1, since \cap {"stopped", "crowded"} = {},
                     NEW i \in 1..Len(down), down[i] = "NotAssociated"
              PROVE  FALSE
  BY DEF FirstHandshakeAssociates
<1>1. Says(down, {"NotAssociated"}) /\ Says(down, Answers)
  BY DEF Says, Answers
<1>2. fsm = "VersionQuerySent"
  BY <1>1 DEF Way, Accepted
<1>3. OneMade
  BY DEF Way, Links, OneMade, NoConn, Conns
<1>. QED  BY <1>1, <1>2, <1>3 DEF Way, Pipeline, NoAssociations

LEMMA ShownThen == IInv => ShownIsState
BY DEF IInv, Client_, DisplayFollows, Displayed, ShownIsState

LEMMA InvariantWay == Spec => [](IInv /\ Way)
BY InitIInv, StepIInv, InitWay, StepWay, InitUnheard, StepUnheard, PTL DEF Spec

-----------------------------------------------------------------------------

(* Connection, queues of datagrams and parties are of their types: there    *)
(* is a TCP connection exactly in the states that hold one, and at most one *)
(* datagram waits to be flushed.                                            *)
THEOREM TypeCorrect == Spec => []TypeOK
<1>1. IInv => TypeOK
  BY TypesApart DEF IInv, Client_, Server_
<1>. QED  BY <1>1, InitIInv, StepIInv, PTL DEF Spec

(* The window comes to show the state of the connection, whatever happens   *)
(* to the handshake, but for the change a failing bind makes.               *)
THEOREM AlwaysShown == Spec => []ShownIsState
BY ShownThen, InvariantWay, PTL

(* No client that speaks is forgotten: a party that expires was silent for  *)
(* twenty seconds at least.                                                 *)
THEOREM OnlySilentExpire == Spec => ExpiresWhenSilent
<1>. DEFINE Expiry == Subscribed(party) /\ ~Subscribed(party') /\ serverUp' => party.silent >= 3
<1>1. IInv /\ [Next]_vars => [Expiry]_vars
  <2>. SUFFICES ASSUME IInv, Next, Subscribed(party), ~Subscribed(party'), serverUp'
                PROVE  party.silent >= 3
    OBVIOUS
  <2>1. party.silent \in Ages
    BY SubscribedParties DEF IInv, Server_, PartyType, Parties
  <2>. QED  BY <2>1, StaysSubscribed DEF Ages
<1>. QED  BY <1>1, InitIInv, StepIInv, PTL DEF Spec, ExpiresWhenSilent

(* The interface never takes itself to be connected to a server that has    *)
(* forgotten it, whatever is lost: it gives up on its ping in time.         *)
THEOREM ConnectedAlwaysSubscribed == Spec => []ConnectedIsSubscribed
BY SubscribedThen, InvariantWay, PTL

(* Big messages go to the connection of the attempt that is connected,      *)
(* which the server still holds.                                            *)
THEOREM AssociatedAlwaysMine == Spec => []AssociatedIsMine
BY MineThen, InvariantWay, PTL

(* The first attempt is never turned away, unless another client speaks, or *)
(* is sent a broadcast, which has the answer to the version query flushed   *)
(* before the server takes the attempt's TCP connection.                    *)
THEOREM FirstAlwaysAssociates == Spec => []FirstHandshakeAssociates
BY AssociatesThen, InvariantWay, PTL
=============================================================================
