----------------------------- MODULE Connections -----------------------------
(***************************************************************************)
(* The server's clients (sqa-backend/src/handlers.rs) and the connection   *)
(* of one user interface to it (sqa-ui/src/connection.rs), with what that  *)
(* interface shows: the handshake over UDP and TCP, pings, the expiry of   *)
(* parties that are silent, lost datagrams, a server that stops and is     *)
(* started again, a user who connects and disconnects at any time, and     *)
(* another client that speaks to the server and is sent its broadcasts.    *)
(*                                                                         *)
(* Time goes by in steps of ten seconds, within which a datagram arrives   *)
(* or is lost.  An age of n steps is more than n - 1 and less than n + 1   *)
(* of them.  Messages that change nothing of this (commands, updates) are  *)
(* left out; they refresh a party as a Ping does.                          *)
(***************************************************************************)
EXTENDS Integers, Sequences

CONSTANTS
    MaxConns,     \* bound: TCP connections the interface makes
    MaxDatagrams, \* bound: datagrams under way in one direction
    With          \* what may happen, of Circumstances

VARIABLES
    fsm, conn,        \* PrivateConnectionState and its TCP connection
    pinged, timer,    \* last_pong < last_ping, Context.timeout
    messages,         \* from the controller to the connection
    shows, shown,     \* states sent to the controller, the one it shows
    up, down,         \* datagrams to the server, to the interface
    link,             \* the server's end of each TCP connection
    party,            \* udp_clients: the entry of the interface
    pending,          \* the datagram the server's framed has not flushed
    serverUp,
    since,            \* history: what has happened since Connect
    unshown           \* history: the last change of fsm was not sent to the controller

clientVars == <<fsm, conn, pinged, timer>>
uiVars == <<messages, shows, shown, unshown>>
serverVars == <<link, party, pending, serverUp>>
vars == <<clientVars, uiVars, up, down, serverVars, since>>

-----------------------------------------------------------------------------

States == {"Disconnected", "TcpConnecting", "VersionQuerySent", "SubscriptionQuerySent", "Connected"}
Handshake == {"VersionQuerySent", "SubscriptionQuerySent"}
WithSockets == Handshake \cup {"Connected"}
Shown == {"Disconnected", "Connecting", "Connected"}
Conns == 1..MaxConns
NoConn == 0

Version == [kind |-> "Version"]
Ping == [kind |-> "Ping"]
SubscribeAndAssociate(c) == [kind |-> "SubscribeAndAssociate", addr |-> c]
Commands == {Version, Ping} \cup {SubscribeAndAssociate(c) : c \in Conns}
Replies == {"ServerVersion", "Associated", "NotAssociated", "Pong"}

(* A UdpClient: the steps since subscribed_at, the TCP address it gave, and *)
(* (history) the steps since the interface was heard.                      *)
Ages == 0..4
Parties == [age : Ages, tcp : Conns \cup {NoConn}, silent : Ages]
NoParty == [age |-> 0, tcp |-> -1, silent |-> 0]
Fresh == [age |-> 0, tcp |-> NoConn, silent |-> 0]
Subscribed(p) == p # NoParty

(* Crowded: another client has spoken, or a broadcast went to it. *)
Happenings == {"lost", "stopped", "crowded"}

(* Another client sends datagrams and is sent broadcasts; datagrams are     *)
(* lost; the server stops and is started again; 127.0.0.1:53001 may be      *)
(* taken.                                                                   *)
Circumstances == {"others", "losses", "stops", "binds"}

ASSUME ConnectionsAssumption ==
    /\ MaxConns \in Nat \ {0} /\ MaxDatagrams \in Nat
    /\ With \subseteq Circumstances

Init ==
    /\ fsm = "Disconnected" /\ conn = NoConn /\ pinged = FALSE /\ timer = "none"
    /\ messages = <<>> /\ shows = <<>> /\ shown = "Disconnected" /\ unshown = FALSE
    /\ up = <<>> /\ down = <<>>
    /\ link = [c \in Conns |-> "unused"] /\ party = NoParty
    /\ pending = <<>> /\ serverUp = TRUE
    /\ since = {}

-----------------------------------------------------------------------------
(* The user interface's thread *)

(* A click on Connect for the server that is shown as connected is ignored. *)
ConnectClicked ==
    /\ shown # "Connected" /\ messages = <<>>
    /\ messages' = <<"Connect">>
    /\ UNCHANGED <<clientVars, shows, shown, unshown, up, down, serverVars, since>>
DisconnectClicked ==
    /\ messages = <<>>
    /\ messages' = <<"Disconnect">>
    /\ UNCHANGED <<clientVars, shows, shown, unshown, up, down, serverVars, since>>

OnStateChange ==
    /\ shows # <<>>
    /\ shown' = shows[1] /\ shows' = <<>>
    /\ UNCHANGED <<clientVars, messages, unshown, up, down, serverVars, since>>

-----------------------------------------------------------------------------
(* The connection's thread *)

MakePublic(s) ==
    IF s \in {"Disconnected", "Connected"} THEN s ELSE "Connecting"

(* Of the states that wait to be shown the last one is kept.               *)
(* Mutant: only the states that last are sent.                             *)
NotifyLasting(s) == shows' = (IF s = "Connected" THEN <<s>> ELSE shows) /\ unshown' = FALSE
NotifyStateChange(s) == shows' = <<MakePublic(s)>> /\ unshown' = FALSE

(* The states of a connection attempt that are not sent look the same. *)
Unnotified(s) ==
    /\ UNCHANGED shows
    /\ unshown' = (unshown \/ MakePublic(s) # MakePublic(fsm))

Send(cmd) == Len(up) < MaxDatagrams /\ up' = Append(up, cmd)

(* Mutant: the first query is not flushed. *)
QueryVersionNot == UNCHANGED up
QueryVersion == Send(Version)

(* What a state that is taken held is dropped: its sockets are closed. *)
HandleInternal ==
    /\ messages # <<>> /\ messages' = <<>>
    /\ \/ /\ messages[1] = "Disconnect"
          /\ fsm' = "Disconnected" /\ conn' = NoConn
          /\ NotifyStateChange("Disconnected")
          /\ UNCHANGED since
       \/ /\ messages[1] = "Connect"
          /\ fsm' = "TcpConnecting" /\ conn' = NoConn
          /\ NotifyStateChange("TcpConnecting")
          /\ since' = {}
    /\ UNCHANGED <<pinged, timer, shown, up, down, serverVars>>

IsNext(c) == link[c] = "unused" /\ \A d \in Conns : link[d] = "unused" => c <= d

(* The connection waits to be accepted; a server that is not there refuses *)
(* it.  The sockets that were made before a bind that fails are dropped.   *)
TcpReady ==
    /\ fsm = "TcpConnecting" /\ serverUp
    /\ \E c \in Conns :
          /\ IsNext(c)
          /\ link' = [link EXCEPT ![c] = "backlog"]
          /\ \/ /\ fsm' = "VersionQuerySent" /\ conn' = c
                /\ QueryVersion
                /\ Unnotified("VersionQuerySent")
             \/ /\ "binds" \in With
                /\ fsm' = "Disconnected" /\ conn' = NoConn
                /\ Unnotified("Disconnected")
                /\ UNCHANGED up
    /\ UNCHANGED <<pinged, timer, messages, shown, down, party, pending, serverUp, since>>
TcpError ==
    /\ fsm = "TcpConnecting" /\ ~serverUp
    /\ fsm' = "Disconnected"
    /\ NotifyStateChange("Disconnected")
    /\ UNCHANGED <<conn, pinged, timer, messages, shown, up, down, serverVars, since>>

(* ping_timeout of a connection that has just been made *)
Connect ==
    /\ fsm' = "Connected"
    /\ Send(Ping) /\ pinged' = TRUE /\ timer' = "set"
    /\ UNCHANGED conn
(* Mutant: the sockets are kept. *)
DisconnectKept == fsm' = "Disconnected" /\ UNCHANGED <<conn, pinged, timer, up>>
Disconnect == fsm' = "Disconnected" /\ conn' = NoConn /\ UNCHANGED <<pinged, timer, up>>

(* Datagrams for a socket that is not there any more are dropped; those    *)
(* that are late can reach the next one, which has the same address.       *)
HandleExternal ==
    /\ down # <<>> /\ down' = Tail(down)
    /\ LET msg == Head(down)
       IN \/ /\ fsm = "VersionQuerySent" /\ msg = "ServerVersion"
             /\ fsm' = "SubscriptionQuerySent"
             /\ Send(SubscribeAndAssociate(conn))
             /\ NotifyStateChange("SubscriptionQuerySent")
             /\ UNCHANGED <<conn, pinged, timer>>
          \/ /\ fsm = "SubscriptionQuerySent" /\ msg = "Associated"
             /\ Connect
             /\ NotifyStateChange("Connected")
          \/ /\ fsm = "SubscriptionQuerySent" /\ msg = "NotAssociated"
             /\ Disconnect
             /\ NotifyStateChange("Disconnected")
          \/ /\ fsm = "Connected" /\ msg = "Pong"
             /\ pinged' = FALSE
             /\ NotifyStateChange("Connected")
             /\ UNCHANGED <<fsm, conn, timer, up>>
          \/ /\ ~ \/ fsm = "VersionQuerySent" /\ msg = "ServerVersion"
                  \/ fsm = "SubscriptionQuerySent" /\ msg \in {"Associated", "NotAssociated"}
                  \/ fsm = "Connected" /\ msg = "Pong"
             /\ UNCHANGED <<clientVars, shows, unshown, up>>
    /\ UNCHANGED <<messages, shown, serverVars, since>>

(* What has arrived is read before the timer is looked at.  A timer that   *)
(* fires without a connection is left as it is.                            *)
(* Mutant: the timer is not set again. *)
RearmedOnce == "none"
Rearmed == "set"
PingTimeout ==
    /\ timer = "due" /\ down = <<>>
    /\ IF fsm # "Connected"
       THEN timer' = "none" /\ UNCHANGED <<fsm, conn, pinged, shows, unshown, up>>
       ELSE /\ timer' = Rearmed
            /\ IF pinged
               THEN /\ fsm' = "Disconnected" /\ conn' = NoConn
                    /\ NotifyStateChange("Disconnected")
                    /\ UNCHANGED <<pinged, up>>
               ELSE /\ Send(Ping) /\ pinged' = TRUE
                    /\ NotifyStateChange("Connected")
                    /\ UNCHANGED <<fsm, conn>>
    /\ UNCHANGED <<messages, shown, down, serverVars, since>>

-----------------------------------------------------------------------------
(* The server's thread.  Connection::poll takes internal messages first,    *)
(* then a datagram, then what the TCP connections bring, then one           *)
(* connection that waits; when there is none of these it lets the handler   *)
(* wake up, flushes and sleeps.  What is sent stays in the framed sink      *)
(* until then, or until something else is sent.                             *)
Flush == Len(down) + Len(pending) <= MaxDatagrams /\ down' = down \o pending /\ pending' = <<>>

(* Mutant: the reply is on its way before the call returns. *)
RespondAtOnce(reply) ==
    /\ Len(down) < MaxDatagrams
    /\ down' = Append(down, reply) /\ pending' = <<>>
Respond(reply) ==
    /\ Len(down) + Len(pending) <= MaxDatagrams
    /\ down' = down \o pending /\ pending' = <<reply>>

(* on_external: a datagram of anyone refreshes every party. *)
(* Mutant: only Subscribe counts.                                   *)
RefreshedNot(p) == p
Refreshed(p) == IF Subscribed(p) THEN [p EXCEPT !.age = 0] ELSE p
Heard(p) == IF Subscribed(p) THEN [Refreshed(p) EXCEPT !.silent = 0] ELSE p

(* Mutant: an address that is known already is kept. *)
AssociateOnce(p, c) ==
    IF Subscribed(party) /\ party.tcp # NoConn THEN [p EXCEPT !.tcp = party.tcp]
    ELSE [p EXCEPT !.tcp = IF link[c] = "accepted" THEN c ELSE @]
Associate(p, c) == [p EXCEPT !.tcp = IF link[c] = "accepted" THEN c ELSE @]

(* Subscribed, which the interface ignores, is left out: it flushes as the *)
(* answer that follows it does.                                            *)
OnExternal ==
    /\ serverUp /\ up # <<>> /\ up' = Tail(up)
    /\ LET cmd == Head(up)
       IN \/ cmd = Version /\ Respond("ServerVersion") /\ party' = Heard(party)
          \/ cmd = Ping /\ Respond("Pong") /\ party' = Heard(party)
          \/ /\ cmd.kind = "SubscribeAndAssociate"
             /\ party' = Associate(Fresh, cmd.addr)
             /\ Respond(IF link[cmd.addr] = "accepted" THEN "Associated" ELSE "NotAssociated")
    /\ UNCHANGED <<clientVars, uiVars, link, serverUp, since>>

(* The other client's datagram is answered; the answer is not followed. *)
OthersDatagram ==
    /\ "others" \in With /\ serverUp
    /\ Flush
    /\ party' = Refreshed(party)
    /\ since' = since \cup {"crowded"}
    /\ UNCHANGED <<clientVars, uiVars, up, link, serverUp>>

(* The ends of the connections the interface has closed *)
PollTcp ==
    /\ serverUp
    /\ \E c \in Conns : link[c] = "accepted" /\ c # conn
    /\ link' = [c \in Conns |-> IF link[c] = "accepted" /\ c # conn THEN "gone" ELSE link[c]]
    /\ UNCHANGED <<clientVars, uiVars, up, down, party, pending, serverUp, since>>

Waiting == {c \in Conns : link[c] = "backlog"}
Accept ==
    /\ serverUp
    /\ \E c \in Waiting :
          /\ \A d \in Waiting : c <= d
          /\ link' = [link EXCEPT ![c] = "accepted"]
    /\ UNCHANGED <<clientVars, uiVars, up, down, party, pending, serverUp, since>>

(* A party that is not heard is removed: 2 steps are less than 30 seconds, *)
(* 4 are more.                                                             *)
MayStay(p) == p.age <= 3
(* Mutant: parties are kept for ten seconds. *)
MayExpireEarly(p) == p.age >= 1
MayExpire(p) == p.age >= 3

Retained == (IF MayStay(party) THEN {party} ELSE {}) \cup (IF MayExpire(party) THEN {NoParty} ELSE {})

(* broadcast, at any time, as an internal message may bring it about, to    *)
(* whoever is subscribed, perhaps the other client too.  The update is      *)
(* small enough for a datagram, which flushes what is pending, or needs     *)
(* TCP; an association with a connection that is gone is forgotten.         *)
Broadcast ==
    /\ serverUp
    /\ \E kept \in Retained, overTcp \in BOOLEAN, others \in BOOLEAN :
         /\ others => "others" \in With
         /\ LET usable == kept.tcp \in Conns /\ link[kept.tcp] = "accepted"
                byUdp == Subscribed(kept) /\ ~(overTcp /\ usable)
            IN /\ party' = IF byUdp /\ overTcp THEN [kept EXCEPT !.tcp = NoConn] ELSE kept
               /\ IF byUdp \/ others THEN Flush ELSE UNCHANGED <<down, pending>>
               /\ since' = IF others THEN since \cup {"crowded"} ELSE since
    /\ UNCHANGED <<clientVars, uiVars, up, link, serverUp>>

PollComplete ==
    /\ serverUp /\ Waiting = {} /\ pending # <<>>
    /\ Len(down) < MaxDatagrams
    /\ down' = down \o pending /\ pending' = <<>>
    /\ UNCHANGED <<clientVars, uiVars, up, link, party, serverUp, since>>

-----------------------------------------------------------------------------
(* The network, the process of the server, and time *)

Lose ==
    /\ "losses" \in With
    /\ \/ up # <<>> /\ up' = Tail(up) /\ UNCHANGED down
       \/ down # <<>> /\ down' = Tail(down) /\ UNCHANGED up
    /\ since' = since \cup {"lost"}
    /\ UNCHANGED <<clientVars, uiVars, serverVars>>

Unreachable ==
    /\ ~serverUp /\ up # <<>> /\ up' = Tail(up)
    /\ UNCHANGED <<clientVars, uiVars, down, serverVars, since>>

Crash ==
    /\ "stops" \in With /\ serverUp
    /\ serverUp' = FALSE /\ party' = NoParty /\ pending' = <<>>
    /\ link' = [c \in Conns |-> IF link[c] = "unused" THEN "unused" ELSE "gone"]
    /\ since' = since \cup {"stopped"}
    /\ UNCHANGED <<clientVars, uiVars, up, down>>
Restart ==
    /\ ~serverUp /\ serverUp' = TRUE
    /\ UNCHANGED <<clientVars, uiVars, up, down, link, party, pending, since>>

Older(a) == IF a < 4 THEN a + 1 ELSE a
Tick ==
    /\ up = <<>> /\ down = <<>> /\ pending = <<>>
    /\ messages = <<>> /\ shows = <<>> /\ timer # "due"
    /\ timer' = IF timer = "set" THEN "due" ELSE timer
    /\ party' = IF Subscribed(party)
                THEN [party EXCEPT !.age = Older(@), !.silent = Older(@)] ELSE party
    /\ UNCHANGED <<fsm, conn, pinged, uiVars, up, down, link, pending, serverUp, since>>

-----------------------------------------------------------------------------

User == ConnectClicked \/ DisconnectClicked
Client == OnStateChange \/ HandleInternal \/ TcpReady \/ TcpError \/ HandleExternal \/ PingTimeout
Server == OnExternal \/ PollTcp \/ Accept \/ PollComplete
Environment == Lose \/ Unreachable \/ Crash \/ Restart \/ Tick
Next ==
    User \/ Client \/ Server \/ OthersDatagram \/ Broadcast \/ Environment

Spec == Init /\ [][Next]_vars

(* Both event loops run, the kernel delivers or drops, time goes by. *)
Fairness ==
    /\ WF_vars(OnStateChange) /\ WF_vars(HandleInternal) /\ WF_vars(TcpReady \/ TcpError)
    /\ WF_vars(HandleExternal) /\ WF_vars(PingTimeout)
    /\ WF_vars(OnExternal) /\ WF_vars(Accept) /\ WF_vars(PollComplete)
    /\ WF_vars(Unreachable) /\ SF_vars(Tick)
FairSpec == Spec /\ Fairness

-----------------------------------------------------------------------------
(* Properties *)

TypeOK ==
    /\ fsm \in States /\ conn \in Conns \cup {NoConn}
    /\ pinged \in BOOLEAN /\ timer \in {"none", "set", "due"}
    /\ messages \in {<<>>, <<"Connect">>, <<"Disconnect">>}
    /\ shows \in {<<>>} \cup {<<s>> : s \in Shown} /\ shown \in Shown
    /\ up \in Seq(Commands) /\ down \in Seq(Replies)
    /\ Len(up) <= MaxDatagrams /\ Len(down) <= MaxDatagrams
    /\ link \in [Conns -> {"unused", "backlog", "accepted", "gone"}]
    /\ party \in Parties \cup {NoParty}
    /\ pending \in {<<>>} \cup {<<r>> : r \in Replies}
    /\ serverUp \in BOOLEAN /\ since \in SUBSET Happenings /\ unshown \in BOOLEAN
    /\ conn = NoConn <=> fsm \notin WithSockets

(* The socket of every attempt has the same address.  When more than one    *)
(* earlier attempt was cut short, the answers to one can take the interface *)
(* to SubscriptionQuerySent and those to another to Connected, with its own *)
(* subscription still under way, and refused in the end.                    *)
OneBefore == conn <= 2

(* While the interface takes itself to be connected, the server has it as  *)
(* a subscriber, whatever datagrams are lost, unless the server has        *)
(* stopped: the interface gives up after one ping that is not answered,    *)
(* before the server forgets it (handlers.rs:233, connection.rs:167).      *)
ConnectedIsSubscribed ==
    fsm = "Connected" /\ OneBefore /\ "stopped" \notin since => Subscribed(party)

(* Big messages go to the TCP connection of the attempt that is connected,  *)
(* which the server still holds, not to one that an earlier attempt left    *)
(* behind (handlers.rs:213), whatever is lost: the attempt is connected     *)
(* only after its own subscription was answered.                            *)
AssociatedIsMine ==
    fsm = "Connected" /\ OneBefore /\ "stopped" \notin since =>
        party.tcp = conn /\ link[conn] = "accepted"

(* The first attempt is never turned away: the server takes the TCP         *)
(* connection before the answer to Version leaves it, as it does not flush  *)
(* before (handlers.rs:379).  Another client can have it flushed: one that  *)
(* speaks meanwhile, or one that is sent a broadcast (handlers.rs:304).     *)
FirstHandshakeAssociates ==
    conn = 1 /\ since \cap {"stopped", "crowded"} = {} =>
        \A i \in 1..Len(down) : down[i] # "NotAssociated"

(* The window shows the state the connection is in, once it has taken the  *)
(* states that are sent to it; only the change that a failing bind makes   *)
(* is not sent (connection.rs:311).                                        *)
ShownIsState == shows = <<>> /\ ~unshown => shown = MakePublic(fsm)

(* A party is forgotten only after it was silent for 20 seconds at least   *)
(* (handlers.rs:234).                                                      *)
ExpiresWhenSilent ==
    [][Subscribed(party) /\ ~Subscribed(party') /\ serverUp' => party.silent >= 3]_vars

(* A server that has stopped is noticed: the interface does not go on      *)
(* as if it was connected (connection.rs:165).                             *)
StopNoticed ==
    (fsm = "Connected" /\ ~serverUp) ~> (fsm # "Connected" \/ serverUp)

(* A handshake that nothing disturbs comes to its end.  No timer watches   *)
(* over it: one lost datagram and it waits for ever (connection.rs:294).   *)
HandshakeEnds ==
    fsm \in Handshake ~> (fsm \notin Handshake \/ since \cap {"lost", "stopped"} # {})
=============================================================================
