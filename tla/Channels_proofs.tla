-------------------------- MODULE Channels_proofs --------------------------
(***************************************************************************)
(* Proofs of the safety properties of Channels, for every MaxChans, every  *)
(* ControlSize and any set of ports.                                       *)
(*                                                                         *)
(* The inductive invariant follows the audio thread's table through the    *)
(* commands of the queue (`trail'): every command can be handled by the    *)
(* table it will meet, and the last table is the main thread's, or will be *)
(* once the command being pushed is in the queue.                          *)
(***************************************************************************)
EXTENDS Channels, SequenceTheorems, FiniteSetTheorems, TLAPS

-----------------------------------------------------------------------------
(* The inductive invariant *)

Sound(t) ==
    /\ HolesExact(t)
    /\ \A i, j \in 1..Len(t.chans) :
          t.chans[i] = t.chans[j] /\ t.chans[i] # NoPort => i = j

(* A table can take a command: a new port fits, an old channel exists. *)
CanAdd(t, port) ==
    /\ port \in Ports
    /\ t.holes # <<>> \/ Len(t.chans) + 1 < MaxChans
    /\ \A i \in 1..Len(t.chans) : t.chans[i] # port

CanRemove(t, idx) == idx \in 1..Len(t.chans) /\ t.chans[idx] # NoPort

CanHandle(t, cmd) ==
    \/ cmd.op = "AddChannel" /\ CanAdd(t, cmd.port)
    \/ cmd.op = "RemoveChannel" /\ CanRemove(t, cmd.idx)

LastTable == trail[Len(trail)]

TrailSound ==
    /\ Len(trail) = Len(control) + 1
    /\ trail[1] = Dev
    /\ \A i \in 1..Len(trail) : Sound(trail[i])
    /\ \A i \in 1..Len(control) :
          CanHandle(trail[i], control[i]) /\ trail[i + 1] = DevHandle(trail[i], control[i])

MainReady == pc = "ready" => LastTable = Main

MainPushing ==
    pc = "pushing" =>
        /\ pending \in Command
        /\ CanHandle(LastTable, pending)
        /\ pending.op = "AddChannel" => Main = DevHandle(LastTable, pending)
        /\ pending.op = "RemoveChannel" =>
              /\ chans = Append(LastTable.chans, NoPort)
              /\ holes = Append(LastTable.holes, pending.idx)

PortsRegistered ==
    \A i \in 1..Len(chans) : chans[i] # NoPort => chans[i] \in registered

IInv == TypeOK /\ TrailSound /\ MainReady /\ MainPushing /\ PortsRegistered

-----------------------------------------------------------------------------
(* Tables *)

(* A list of holes is no longer than the table, so that one more fits. *)
LEMMA HolesFit ==
    ASSUME NEW t \in Table, HolesExact(t)
    PROVE  Len(t.holes) <= Len(t.chans) /\ Len(t.holes) < MaxChans
<1>1. Len(t.chans) \in Nat /\ Len(t.holes) \in Nat
  BY LenProperties DEF Table
<1>2. t.holes \in Injection(1..Len(t.holes), 1..Len(t.chans))
  <2>1. t.holes \in [1..Len(t.holes) -> 1..MaxChans]
    BY LenProperties DEF Table
  <2>2. t.holes \in [1..Len(t.holes) -> 1..Len(t.chans)]
    BY <2>1 DEF HolesExact
  <2>. QED  BY <2>2 DEF HolesExact, Injection, IsInjective
<1>3. Cardinality(1..Len(t.holes)) <= Cardinality(1..Len(t.chans))
  BY <1>1, <1>2, FS_Injection, FS_Interval
<1>4. ASSUME NEW n \in Nat
      PROVE  Cardinality(1..n) = n
  <2>1. Cardinality(1..n) = IF 1 > n THEN 0 ELSE n - 1 + 1
    BY FS_Interval
  <2>. QED  BY <2>1
<1>. QED  BY <1>1, <1>3, <1>4, ChannelsAssumption DEF HolesExact

(* Handling AddChannel: the port takes a hole or the end, nothing moves. *)
LEMMA AddSound ==
    ASSUME NEW t \in Table, NEW port, Sound(t), CanAdd(t, port)
    PROVE  /\ DevAddChannel(t, port) \in Table
           /\ Sound(DevAddChannel(t, port))
           /\ KeepsIndices(t.chans, DevAddChannel(t, port).chans)
           /\ \A i \in 1..Len(DevAddChannel(t, port).chans) :
                 DevAddChannel(t, port).chans[i] \in {port} \cup {t.chans[k] : k \in 1..Len(t.chans)}
<1>. DEFINE u == DevAddChannel(t, port)
            P == Ports \cup {NoPort}
<1>1. /\ t.chans \in Seq(P) /\ t.holes \in Seq(1..MaxChans)
      /\ Len(t.chans) \in Nat /\ Len(t.holes) \in Nat
  BY LenProperties DEF Table
<1>2. port \in P /\ port # NoPort
  BY ChannelsAssumption DEF CanAdd
<1>3. CASE t.holes # <<>>
  <2>. DEFINE h == Head(t.holes)
  <2>1. u = [chans |-> [t.chans EXCEPT ![h] = port], holes |-> Tail(t.holes)]
    BY <1>3 DEF DevAddChannel
  <2>2. /\ h = t.holes[1] /\ 1 \in 1..Len(t.holes)
        /\ h \in 1..Len(t.chans) /\ t.chans[h] = NoPort
    BY <1>1, <1>3, EmptySeq DEF Sound, HolesExact
  <2>3. /\ u.chans \in Seq(P) /\ Len(u.chans) = Len(t.chans)
        /\ \A j \in 1..Len(t.chans) : u.chans[j] = IF j = h THEN port ELSE t.chans[j]
    BY <1>1, <1>2, <2>1, <2>2, ExceptSeq
  <2>4. /\ u.holes \in Seq(1..MaxChans) /\ Len(u.holes) = Len(t.holes) - 1
        /\ \A k \in 1..Len(u.holes) : u.holes[k] = t.holes[k + 1]
    <3>1. u.holes = Tail(t.holes)
      BY <2>1
    <3>2. /\ Tail(t.holes) \in Seq(1..MaxChans)
          /\ Len(Tail(t.holes)) = Len(t.holes) - 1
          /\ \A k \in 1..Len(Tail(t.holes)) : Tail(t.holes)[k] = t.holes[k + 1]
      BY <1>1, <1>3, HeadTailProperties
    <3>. QED  BY <3>1, <3>2
  <2>5. u \in Table
    BY <2>1, <2>3, <2>4 DEF Table
  <2>6. HolesExact(u)
    <3>1. Len(u.chans) < MaxChans
      BY <2>3 DEF Sound, HolesExact
    <3>2. \A k \in 1..Len(u.holes) : u.holes[k] \in 1..Len(u.chans) /\ u.holes[k] # h
      BY <1>1, <2>2, <2>3, <2>4 DEF Sound, HolesExact
    <3>3. \A j, k \in 1..Len(u.holes) : u.holes[j] = u.holes[k] => j = k
      BY <1>1, <2>4 DEF Sound, HolesExact
    <3>4. ASSUME NEW i \in 1..Len(u.chans), u.chans[i] = NoPort
          PROVE  \E k \in 1..Len(u.holes) : u.holes[k] = i
      <4>1. i # h /\ t.chans[i] = NoPort /\ i \in 1..Len(t.chans)
        BY <1>2, <2>3, <3>4
      <4>2. PICK k \in 1..Len(t.holes) : t.holes[k] = i
        BY <4>1 DEF Sound, HolesExact
      <4>. k # 1 /\ k - 1 \in 1..Len(u.holes) /\ u.holes[k - 1] = i
        BY <1>1, <2>2, <2>4, <4>1, <4>2
      <4>. WITNESS k - 1 \in 1..Len(u.holes)
      <4>. QED  OBVIOUS
    <3>5. ASSUME NEW k \in 1..Len(u.holes)
          PROVE  u.chans[u.holes[k]] = NoPort
      <4>1. k + 1 \in 1..Len(t.holes) /\ u.holes[k] = t.holes[k + 1]
        BY <1>1, <2>4
      <4>2. t.holes[k + 1] \in 1..Len(t.chans) /\ t.chans[t.holes[k + 1]] = NoPort
        BY <4>1 DEF Sound, HolesExact
      <4>. QED  BY <2>3, <3>2, <4>1, <4>2
    <3>. QED  BY <3>1, <3>2, <3>3, <3>4, <3>5 DEF HolesExact
  <2>7. Sound(u)
    BY <1>2, <2>3, <2>6 DEF Sound, CanAdd
  <2>8. KeepsIndices(t.chans, u.chans)
    BY <2>2, <2>3 DEF KeepsIndices
  <2>. QED  BY <2>3, <2>5, <2>7, <2>8
<1>4. CASE t.holes = <<>>
  <2>1. Len(t.chans) + 1 < MaxChans /\ Len(t.holes) = 0
    BY <1>4, EmptySeq DEF CanAdd
  <2>2. u.chans = Append(t.chans, port) /\ u.holes = t.holes
    BY <1>1, <1>4, <2>1, ChannelsAssumption DEF DevAddChannel, Push, Table
  <2>3. /\ u.chans \in Seq(P) /\ Len(u.chans) = Len(t.chans) + 1
        /\ \A i \in 1..Len(t.chans) : u.chans[i] = t.chans[i]
        /\ u.chans[Len(t.chans) + 1] = port
    BY <1>1, <1>2, <2>2, AppendProperties
  <2>4. u \in Table
    BY <1>1, <1>4, <2>3 DEF Table, DevAddChannel
  <2>5. HolesExact(u)
    BY <1>1, <1>2, <2>1, <2>2, <2>3 DEF Sound, HolesExact
  <2>6. Sound(u)
    BY <1>1, <1>2, <2>3, <2>5 DEF Sound, CanAdd
  <2>7. KeepsIndices(t.chans, u.chans)
    BY <1>1, <2>3 DEF KeepsIndices
  <2>8. \A i \in 1..Len(u.chans) : i \in 1..Len(t.chans) \/ i = Len(t.chans) + 1
    BY <1>1, <2>3
  <2>9. \A i \in 1..Len(u.chans) : u.chans[i] \in {port} \cup {t.chans[k] : k \in 1..Len(t.chans)}
    BY <2>3, <2>8
  <2>. QED  BY <2>4, <2>6, <2>7, <2>9
<1>. QED  BY <1>3, <1>4

(* What remove_channel's push and swap_remove come to: the index is empty  *)
(* and becomes the newest hole.                                            *)
LEMMA SwapRemoveAppend ==
    ASSUME NEW t \in Table, NEW idx \in 1..Len(t.chans)
    PROVE  /\ SwapRemove(Append(t.chans, NoPort), idx) \in Seq(Ports \cup {NoPort})
           /\ Len(SwapRemove(Append(t.chans, NoPort), idx)) = Len(t.chans)
           /\ \A i \in 1..Len(t.chans) :
                 SwapRemove(Append(t.chans, NoPort), idx)[i] =
                    IF i = idx THEN NoPort ELSE t.chans[i]
<1>. DEFINE P == Ports \cup {NoPort}
            a == Append(t.chans, NoPort)
            e(i) == IF i = idx THEN a[Len(a)] ELSE a[i]
<1>1. t.chans \in Seq(P) /\ Len(t.chans) \in Nat /\ NoPort \in P
  BY LenProperties DEF Table
<1>2. /\ Len(a) = Len(t.chans) + 1
      /\ a[Len(t.chans) + 1] = NoPort
      /\ \A i \in 1..Len(t.chans) : a[i] = t.chans[i]
  BY <1>1, AppendProperties
<1>3. Len(a) - 1 = Len(t.chans)
  BY <1>1, <1>2
<1>4. SwapRemove(a, idx) = [i \in 1..Len(t.chans) |-> e(i)]
  BY <1>3 DEF SwapRemove
<1>5. \A i \in 1..Len(t.chans) : e(i) = (IF i = idx THEN NoPort ELSE t.chans[i])
                                /\ e(i) \in P
  BY <1>1, <1>2, ElementOfSeq
<1>6. SwapRemove(a, idx) \in [1..Len(t.chans) -> P]
  BY <1>4, <1>5
<1>7. SwapRemove(a, idx) \in Seq(P) /\ Len(SwapRemove(a, idx)) = Len(t.chans)
  BY <1>1, <1>6, SeqDef, LenProperties
<1>. QED  BY <1>4, <1>5, <1>7

(* Handling RemoveChannel. *)
LEMMA RemoveSound ==
    ASSUME NEW t \in Table, NEW idx, Sound(t), CanRemove(t, idx)
    PROVE  /\ Push(t.chans, NoPort) = Append(t.chans, NoPort)
           /\ Push(t.holes, idx) = Append(t.holes, idx)
           /\ DevRemoveChannel(t, idx) \in Table
           /\ Sound(DevRemoveChannel(t, idx))
           /\ KeepsIndices(t.chans, DevRemoveChannel(t, idx).chans)
<1>. DEFINE u == DevRemoveChannel(t, idx)
            P == Ports \cup {NoPort}
<1>1. /\ t.chans \in Seq(P) /\ t.holes \in Seq(1..MaxChans)
      /\ Len(t.chans) \in Nat /\ Len(t.holes) \in Nat
  BY LenProperties DEF Table
<1>2. idx \in 1..MaxChans /\ idx \in 1..Len(t.chans) /\ t.chans[idx] # NoPort
  BY <1>1, ChannelsAssumption DEF CanRemove, Sound, HolesExact
<1>3. Push(t.chans, NoPort) = Append(t.chans, NoPort)
      /\ Push(t.holes, idx) = Append(t.holes, idx)
  BY HolesFit DEF Push, Sound, HolesExact
<1>4. /\ u.chans \in Seq(P) /\ Len(u.chans) = Len(t.chans)
      /\ \A i \in 1..Len(t.chans) : u.chans[i] = IF i = idx THEN NoPort ELSE t.chans[i]
  BY <1>2, <1>3, SwapRemoveAppend DEF DevRemoveChannel
<1>5. /\ u.holes \in Seq(1..MaxChans) /\ Len(u.holes) = Len(t.holes) + 1
      /\ \A k \in 1..Len(t.holes) : u.holes[k] = t.holes[k]
      /\ u.holes[Len(t.holes) + 1] = idx
  <2>1. u.holes = Append(t.holes, idx)
    BY <1>3 DEF DevRemoveChannel
  <2>. QED  BY <1>1, <1>2, <2>1, AppendProperties
<1>6. u \in Table
  BY <1>4, <1>5 DEF DevRemoveChannel, Table
<1>7. HolesExact(u)
  <2>1. Len(u.chans) < MaxChans
    BY <1>4 DEF Sound, HolesExact
  <2>2. \A k \in 1..Len(t.holes) : t.holes[k] \in 1..Len(t.chans) /\ t.holes[k] # idx
    BY <1>2 DEF Sound, HolesExact
  <2>3. \A k \in 1..Len(u.holes) : u.holes[k] \in 1..Len(u.chans)
    BY <1>1, <1>2, <1>4, <1>5, <2>2
  <2>4. \A j, k \in 1..Len(u.holes) : u.holes[j] = u.holes[k] => j = k
    BY <1>1, <1>5, <2>2 DEF Sound, HolesExact
  <2>5. ASSUME NEW i \in 1..Len(u.chans), u.chans[i] = NoPort
        PROVE  \E k \in 1..Len(u.holes) : u.holes[k] = i
    <3>1. CASE i = idx
      BY <1>1, <1>5, <3>1
    <3>2. CASE i # idx
      <4>1. i \in 1..Len(t.chans) /\ t.chans[i] = NoPort
        BY <1>4, <2>5, <3>2
      <4>2. PICK k \in 1..Len(t.holes) : t.holes[k] = i
        BY <4>1 DEF Sound, HolesExact
      <4>. k \in 1..Len(u.holes) /\ u.holes[k] = i
        BY <1>1, <1>5, <4>2
      <4>. WITNESS k \in 1..Len(u.holes)
      <4>. QED  OBVIOUS
    <3>. QED  BY <3>1, <3>2
  <2>6. ASSUME NEW k \in 1..Len(u.holes)
        PROVE  u.chans[u.holes[k]] = NoPort
    <3>1. CASE k = Len(t.holes) + 1
      BY <1>2, <1>4, <1>5, <3>1
    <3>2. CASE k \in 1..Len(t.holes)
      <4>1. t.holes[k] \in 1..Len(t.chans) /\ t.chans[t.holes[k]] = NoPort
        BY <3>2 DEF Sound, HolesExact
      <4>. QED  BY <1>4, <1>5, <3>2, <4>1
    <3>. QED  BY <1>1, <1>5, <3>1, <3>2
  <2>. QED  BY <2>1, <2>3, <2>4, <2>5, <2>6 DEF HolesExact
<1>8. Sound(u)
  BY <1>4, <1>7 DEF Sound
<1>9. KeepsIndices(t.chans, u.chans)
  BY <1>4 DEF KeepsIndices
<1>. QED  BY <1>3, <1>6, <1>8, <1>9

(* Handling either command. *)
LEMMA HandleSound ==
    ASSUME NEW t \in Table, NEW cmd, Sound(t), CanHandle(t, cmd)
    PROVE  /\ DevHandle(t, cmd) \in Table
           /\ Sound(DevHandle(t, cmd))
           /\ KeepsIndices(t.chans, DevHandle(t, cmd).chans)
BY AddSound, RemoveSound DEF CanHandle, DevHandle

-----------------------------------------------------------------------------
(* The invariant is inductive *)

LEMMA TrailFacts ==
    ASSUME IInv
    PROVE  /\ Len(control) \in Nat /\ Len(trail) \in Nat /\ Len(trail) \in 1..Len(trail)
           /\ LastTable \in Table /\ Sound(LastTable)
           /\ Dev \in Table /\ Sound(Dev)
           /\ Main \in Table
<1>1. control \in Seq(Command) /\ trail \in Seq(Table)
  BY DEF IInv, TypeOK
<1>2. Len(control) \in Nat /\ Len(trail) \in Nat
  BY <1>1, LenProperties
<1>3. 1 \in 1..Len(trail) /\ Len(trail) \in 1..Len(trail)
  BY <1>2 DEF IInv, TrailSound
<1>4. LastTable \in Table /\ trail[1] \in Table
  BY <1>1, <1>3, ElementOfSeq DEF LastTable
<1>5. Sound(LastTable) /\ Sound(trail[1]) /\ trail[1] = Dev
  BY <1>3 DEF IInv, TrailSound, LastTable
<1>6. Main \in Table
  BY DEF IInv, TypeOK, Main, Table
<1>. QED  BY <1>2, <1>3, <1>4, <1>5, <1>6

LEMMA InitIInv == Init => IInv
<1>. SUFFICES ASSUME Init PROVE IInv
  OBVIOUS
<1>1. /\ Main = [chans |-> <<>>, holes |-> <<>>] /\ Dev = Main
      /\ Main \in Table /\ trail = <<Main>> /\ Len(control) = 0
  BY DEF Init, Main, Dev, Table
<1>2. TypeOK
  BY <1>1 DEF Init, TypeOK
<1>3. Sound(Main)
  BY <1>1, ChannelsAssumption DEF Sound, HolesExact
<1>4. TrailSound
  BY <1>1, <1>3 DEF TrailSound
<1>. QED
  BY <1>1, <1>2, <1>4 DEF Init, IInv, MainReady, MainPushing, LastTable, PortsRegistered

LEMMA NewChannelIInv ==
    ASSUME IInv, NEW port \in Ports, NewChannel(port)
    PROVE  IInv' /\ KeepsIndices(chans, chans') /\ KeepsIndices(devChans, devChans')
<1>. USE DEF NewChannel, devVars
<1>1. /\ LastTable = Main /\ Main \in Table /\ Sound(Main)
      /\ Len(chans) \in Nat /\ Len(holes) \in Nat
  BY TrailFacts, LenProperties DEF IInv, MainReady, TypeOK
<1>2. TrailSound' /\ LastTable' = LastTable /\ Dev' = Dev
  <2>1. TrailSound
    BY DEF IInv
  <2>. QED  BY <2>1 DEF TrailSound, Dev, LastTable
<1>3. CASE AtLimit /\ UNCHANGED <<chans, holes, pc, pending>>
  BY <1>1, <1>2, <1>3
     DEF IInv, TypeOK, MainReady, MainPushing, PortsRegistered, Main, KeepsIndices
<1>4. CASE /\ ~AtLimit
           /\ pc' = "pushing" /\ pending' = AddChannelCmd(port)
           /\ chans' = IF holes # <<>> THEN [chans EXCEPT ![Head(holes)] = port]
                                       ELSE Push(chans, port)
           /\ holes' = IF holes # <<>> THEN Tail(holes) ELSE <<>>
  <2>1. CanAdd(Main, port)
    <3>1. holes = <<>> => Len(chans) + 1 < MaxChans
      <4>1. Len(chans) < MaxChans
        BY <1>1 DEF Sound, HolesExact, Main
      <4>. QED  BY <1>1, <1>4, <4>1, ChannelsAssumption DEF AtLimit
    <3>2. \A i \in 1..Len(chans) : chans[i] # port
      BY ChannelsAssumption DEF IInv, PortsRegistered
    <3>. QED  BY <3>1, <3>2 DEF CanAdd, Main
  <2>2. Main' = DevAddChannel(Main, port)
    BY <1>4 DEF Main, DevAddChannel
  <2>3. /\ Main' \in Table /\ KeepsIndices(chans, chans')
        /\ \A i \in 1..Len(chans') : chans'[i] \in {port} \cup {chans[k] : k \in 1..Len(chans)}
    BY <1>1, <2>1, <2>2, AddSound DEF Main
  <2>4. pending' \in Command /\ pending'.op = "AddChannel" /\ pending'.port = port
    BY <1>4 DEF AddChannelCmd, Command
  <2>5. TypeOK'
    BY <1>4, <2>3, <2>4 DEF IInv, TypeOK, Main, Table
  <2>6. MainPushing'
    BY <1>1, <1>2, <2>1, <2>2, <2>4 DEF MainPushing, CanHandle, DevHandle
  <2>7. PortsRegistered'
    BY <2>3 DEF IInv, PortsRegistered
  <2>. QED
    BY <1>2, <1>4, <2>3, <2>5, <2>6, <2>7 DEF IInv, MainReady, KeepsIndices
<1>. QED  BY <1>3, <1>4

LEMMA RemoveChannelIInv ==
    ASSUME IInv, NEW idx \in 1..MaxChans, RemoveChannel(idx)
    PROVE  IInv' /\ KeepsIndices(chans, chans') /\ KeepsIndices(devChans, devChans')
<1>. USE DEF RemoveChannel, devVars
<1>1. /\ LastTable = Main /\ Main \in Table /\ Sound(Main)
      /\ Len(chans) \in Nat /\ Len(holes) \in Nat
      /\ chans \in Seq(Ports \cup {NoPort}) /\ holes \in Seq(1..MaxChans)
  BY TrailFacts, LenProperties DEF IInv, MainReady, TypeOK
<1>2. TrailSound' /\ LastTable' = LastTable /\ Dev' = Dev
  <2>1. TrailSound
    BY DEF IInv
  <2>. QED  BY <2>1 DEF TrailSound, Dev, LastTable
<1>3. CanRemove(Main, idx)
  BY <1>1 DEF CanRemove, Main, Sound, HolesExact
<1>4. chans' = Append(chans, NoPort) /\ holes' = Append(holes, idx)
  BY <1>1, <1>3, RemoveSound DEF Main
<1>5. /\ chans' \in Seq(Ports \cup {NoPort}) /\ Len(chans') = Len(chans) + 1
      /\ \A i \in 1..Len(chans) : chans'[i] = chans[i]
      /\ chans'[Len(chans) + 1] = NoPort
      /\ holes' \in Seq(1..MaxChans)
  BY <1>1, <1>4, AppendProperties
<1>6. pending' \in Command /\ pending'.op = "RemoveChannel" /\ pending'.idx = idx
  BY DEF RemoveChannelCmd, Command
<1>7. TypeOK'
  BY <1>5, <1>6 DEF IInv, TypeOK
<1>8. MainPushing'
  BY <1>1, <1>2, <1>3, <1>4, <1>6 DEF MainPushing, CanHandle, Main
<1>9. PortsRegistered'
  BY <1>1, <1>5 DEF IInv, PortsRegistered
<1>10. KeepsIndices(chans, chans') /\ KeepsIndices(devChans, devChans')
  BY <1>1, <1>5 DEF KeepsIndices
<1>. QED  BY <1>2, <1>7, <1>8, <1>9, <1>10 DEF IInv, MainReady

LEMMA PushCommandIInv ==
    ASSUME IInv, PushCommand
    PROVE  IInv' /\ KeepsIndices(chans, chans') /\ KeepsIndices(devChans, devChans')
<1>. USE DEF PushCommand, devVars
<1>. DEFINE t == LastTable
            u == DevHandle(t, pending)
<1>1. /\ t \in Table /\ Sound(t) /\ Dev' = Dev
      /\ Len(control) \in Nat /\ Len(trail) = Len(control) + 1
      /\ control \in Seq(Command) /\ trail \in Seq(Table)
  BY TrailFacts DEF IInv, TypeOK, TrailSound, Dev
<1>2. pending \in Command /\ CanHandle(t, pending)
  BY DEF IInv, MainPushing
<1>3. u \in Table /\ Sound(u) /\ KeepsIndices(t.chans, u.chans)
  BY <1>1, <1>2, HandleSound
<1>4. /\ control' \in Seq(Command) /\ Len(control') = Len(control) + 1
      /\ \A i \in 1..Len(control) : control'[i] = control[i]
      /\ control'[Len(control) + 1] = pending
  BY <1>1, <1>2, AppendProperties
<1>5. /\ trail' \in Seq(Table) /\ Len(trail') = Len(trail) + 1
      /\ \A i \in 1..Len(trail) : trail'[i] = trail[i]
      /\ trail'[Len(trail) + 1] = u
  BY <1>1, <1>3, AppendProperties DEF LastTable
<1>6. LastTable' = u
  BY <1>5 DEF LastTable
<1>7. TrailSound'
  <2>1. TrailSound
    BY DEF IInv
  <2>2. Len(trail') = Len(control') + 1 /\ trail'[1] = Dev'
    BY <1>1, <1>4, <1>5, <2>1 DEF TrailSound
  <2>3. \A i \in 1..Len(trail') : Sound(trail'[i])
    BY <1>1, <1>3, <1>5, <2>1 DEF TrailSound
  <2>4. ASSUME NEW i \in 1..Len(control')
        PROVE  CanHandle(trail'[i], control'[i]) /\ trail'[i + 1] = DevHandle(trail'[i], control'[i])
    <3>1. CASE i \in 1..Len(control)
      BY <1>1, <1>4, <1>5, <2>1, <3>1 DEF TrailSound
    <3>2. CASE i = Len(control) + 1
      BY <1>1, <1>2, <1>4, <1>5, <3>2 DEF LastTable
    <3>. QED  BY <1>1, <1>4, <3>1, <3>2
  <2>. QED  BY <2>2, <2>3, <2>4 DEF TrailSound
<1>8. Main' = u /\ PortsRegistered' /\ KeepsIndices(chans, chans')
  <2>1. CASE pending.op = "AddChannel" /\ UNCHANGED <<chans, registered>>
    <3>1. Main' = u
      BY <2>1 DEF IInv, MainPushing, Main
    <3>. QED  BY <2>1, <3>1 DEF IInv, PortsRegistered, KeepsIndices
  <2>2. CASE /\ pending.op = "RemoveChannel"
             /\ chans' = SwapRemove(chans, pending.idx)
             /\ registered' \in {registered, registered \ {chans[pending.idx]}}
    <3>. DEFINE idx == pending.idx
    <3>1. /\ chans = Append(t.chans, NoPort) /\ holes = Append(t.holes, idx)
          /\ CanRemove(t, idx)
      BY <1>2, <2>2 DEF IInv, MainPushing, CanHandle
    <3>2. u = DevRemoveChannel(t, idx) /\ Main' = u
      BY <1>1, <2>2, <3>1, RemoveSound DEF DevHandle, DevRemoveChannel, Main
    <3>3. /\ t.chans \in Seq(Ports \cup {NoPort}) /\ Len(t.chans) \in Nat
          /\ Len(chans) = Len(t.chans) + 1 /\ chans[Len(t.chans) + 1] = NoPort
          /\ \A i \in 1..Len(t.chans) : chans[i] = t.chans[i]
      <4>1. t.chans \in Seq(Ports \cup {NoPort})
        BY <1>1 DEF Table
      <4>. QED  BY <3>1, <4>1, LenProperties, AppendProperties
    <3>4. /\ Len(chans') = Len(t.chans)
          /\ \A i \in 1..Len(t.chans) : chans'[i] = IF i = idx THEN NoPort ELSE t.chans[i]
      BY <1>1, <2>2, <3>1, SwapRemoveAppend DEF CanRemove
    <3>5. PortsRegistered'
      <4>. SUFFICES ASSUME NEW i \in 1..Len(chans'), chans'[i] # NoPort
                    PROVE  chans'[i] \in registered'
        BY DEF PortsRegistered
      <4>1. i \in 1..Len(t.chans) /\ i # idx /\ chans'[i] = t.chans[i]
        BY <3>4
      <4>2. t.chans[i] # t.chans[idx]
        BY <1>1, <3>1, <4>1 DEF Sound, CanRemove
      <4>3. chans[i] = t.chans[i] /\ chans[idx] = t.chans[idx] /\ i \in 1..Len(chans)
        BY <3>1, <3>3, <4>1 DEF CanRemove
      <4>4. t.chans[i] \in registered
        BY <4>1, <4>3 DEF IInv, PortsRegistered
      <4>. QED  BY <2>2, <4>1, <4>2, <4>3, <4>4
    <3>6. KeepsIndices(chans, chans')
      BY <3>3, <3>4 DEF KeepsIndices
    <3>. QED  BY <3>2, <3>5, <3>6
  <2>. QED  BY <2>1, <2>2
<1>9. TypeOK'
  <2>1. chans' \in Seq(Ports \cup {NoPort}) /\ holes' \in Seq(1..MaxChans)
    BY <1>3, <1>8 DEF Main, Table
  <2>. QED  BY <1>4, <1>5, <2>1 DEF IInv, TypeOK
<1>10. MainReady' /\ MainPushing' /\ KeepsIndices(devChans, devChans')
  BY <1>6, <1>8 DEF MainReady, MainPushing, KeepsIndices
<1>. QED  BY <1>7, <1>8, <1>9, <1>10 DEF IInv

LEMMA ProcessIInv ==
    ASSUME IInv, Process
    PROVE  IInv' /\ KeepsIndices(chans, chans') /\ KeepsIndices(devChans, devChans')
<1>. USE DEF Process, HasCommand, mainVars
<1>. DEFINE u == DevHandle(Dev, Head(control))
<1>1. /\ control \in Seq(Command) /\ trail \in Seq(Table)
      /\ Len(control) \in Nat \ {0} /\ Len(trail) = Len(control) + 1
      /\ Head(control) = control[1] /\ 1 \in 1..Len(control)
  BY EmptySeq DEF IInv, TypeOK, TrailSound
<1>2. /\ Dev \in Table /\ Sound(Dev) /\ CanHandle(Dev, Head(control))
      /\ trail[2] = u
  BY <1>1, TrailFacts DEF IInv, TrailSound
<1>3. u \in Table /\ KeepsIndices(devChans, u.chans)
  BY <1>2, HandleSound DEF Dev
<1>4. Dev' = u /\ devChans' = u.chans /\ devHoles' = u.holes
  <2>1. u = [chans |-> u.chans, holes |-> u.holes]
    BY <1>3 DEF Table
  <2>. QED  BY <2>1 DEF Dev
<1>5. /\ control' \in Seq(Command) /\ Len(control') = Len(control) - 1
      /\ \A i \in 1..Len(control') : control'[i] = control[i + 1]
  BY <1>1, HeadTailProperties
<1>6. /\ trail' \in Seq(Table) /\ Len(trail') = Len(trail) - 1
      /\ \A i \in 1..Len(trail') : trail'[i] = trail[i + 1]
  <2>1. trail # <<>>
    BY <1>1, EmptySeq
  <2>. QED  BY <1>1, <2>1, HeadTailProperties
<1>7. LastTable' = LastTable
  BY <1>1, <1>6 DEF LastTable
<1>8. TrailSound'
  <2>1. TrailSound
    BY DEF IInv
  <2>2. Len(trail') = Len(control') + 1 /\ trail'[1] = Dev'
    BY <1>1, <1>2, <1>4, <1>5, <1>6
  <2>3. \A i \in 1..Len(trail') : Sound(trail'[i])
    BY <1>1, <1>6, <2>1 DEF TrailSound
  <2>4. ASSUME NEW i \in 1..Len(control')
        PROVE  CanHandle(trail'[i], control'[i]) /\ trail'[i + 1] = DevHandle(trail'[i], control'[i])
    <3>1. i + 1 \in 1..Len(control) /\ i \in 1..Len(trail') /\ i + 1 \in 1..Len(trail')
      BY <1>1, <1>5, <1>6
    <3>2. /\ control'[i] = control[i + 1] /\ trail'[i] = trail[i + 1]
          /\ trail'[i + 1] = trail[(i + 1) + 1]
      BY <1>5, <1>6, <3>1
    <3>. QED  BY <2>1, <3>1, <3>2 DEF TrailSound
  <2>. QED  BY <2>2, <2>3, <2>4 DEF TrailSound
<1>9. TypeOK'
  BY <1>3, <1>4, <1>5, <1>6 DEF IInv, TypeOK, Table
<1>10. MainReady' /\ MainPushing' /\ PortsRegistered'
  BY <1>7 DEF IInv, MainReady, MainPushing, PortsRegistered, Main
<1>11. KeepsIndices(chans, chans') /\ KeepsIndices(devChans, devChans')
  BY <1>3, <1>4 DEF KeepsIndices
<1>. QED  BY <1>8, <1>9, <1>10, <1>11 DEF IInv

(* Every step keeps the invariant, and every channel where it is. *)
LEMMA StepIInv ==
    ASSUME IInv, [Next]_vars
    PROVE  IInv' /\ KeepsIndices(chans, chans') /\ KeepsIndices(devChans, devChans')
<1>1. CASE UNCHANGED vars
  BY <1>1 DEF vars, IInv, TypeOK, TrailSound, MainReady, MainPushing, PortsRegistered,
     LastTable, Main, Dev, KeepsIndices
<1>2. CASE \E port \in Ports : NewChannel(port)
  BY <1>2, NewChannelIInv
<1>3. CASE \E idx \in 1..MaxChans : RemoveChannel(idx)
  BY <1>3, RemoveChannelIInv
<1>4. CASE PushCommand
  BY <1>4, PushCommandIInv
<1>5. CASE Process
  BY <1>5, ProcessIInv
<1>. QED  BY <1>1, <1>2, <1>3, <1>4, <1>5 DEF Next

(* The strengthened invariant holds in every reachable state. *)
THEOREM Inductive == Spec => []IInv
<1>1. Init => IInv
  BY InitIInv
<1>2. IInv /\ [Next]_vars => IInv'
  BY StepIInv
<1>. QED  BY <1>1, <1>2, PTL DEF Spec

-----------------------------------------------------------------------------
(* The properties *)

(* All tables, queues and commands are of their types: above all, no       *)
(* command names an index outside the table's capacity.                    *)
THEOREM TypeCorrect == Spec => []TypeOK
<1>1. IInv => TypeOK
  BY DEF IInv
<1>. QED  BY <1>1, Inductive, PTL

(* Between calls the holes of each table are its empty indices, each       *)
(* listed once, and the push of remove_channel fits.                       *)
THEOREM TablesAlwaysSound == Spec => []TablesSound
<1>1. IInv => TablesSound
  BY TrailFacts DEF IInv, MainReady, TablesSound, Sound
<1>. QED  BY <1>1, Inductive, PTL

(* The copies of the code in lib.rs and thread.rs mirror each other: when  *)
(* every command has been handled the tables are equal.                    *)
THEOREM AlwaysMirrored == Spec => []Mirrored
<1>1. IInv => Mirrored
  <2>. SUFFICES ASSUME IInv, pc = "ready", control = <<>>
                PROVE  Dev = Main
    BY DEF Mirrored
  <2>1. Len(control) = 0
    OBVIOUS
  <2>. QED  BY <2>1 DEF IInv, TrailSound, MainReady, LastTable
<1>. QED  BY <1>1, Inductive, PTL

(* The unwraps of remove_channel and the indexing of handle never panic.   *)
THEOREM PanicFree == Spec => []NeverPanics
<1>1. IInv => NeverPanics
  <2>. SUFFICES ASSUME IInv PROVE NeverPanics
    OBVIOUS
  <2>1. ASSUME pc = "pushing", pending.op = "RemoveChannel"
        PROVE  pending.idx < Len(chans) /\ chans[pending.idx] # NoPort
    <3>. DEFINE t == LastTable
    <3>1. chans = Append(t.chans, NoPort) /\ CanRemove(t, pending.idx)
      BY <2>1 DEF IInv, MainPushing, CanHandle
    <3>2. t.chans \in Seq(Ports \cup {NoPort}) /\ NoPort \in Ports \cup {NoPort}
      BY TrailFacts DEF Table
    <3>3. Len(t.chans) \in Nat /\ Len(chans) = Len(t.chans) + 1
          /\ \A i \in 1..Len(t.chans) : chans[i] = t.chans[i]
      BY <3>1, <3>2, AppendProperties, LenProperties
    <3>. QED  BY <3>1, <3>3 DEF CanRemove
  <2>2. ASSUME control # <<>>, Head(control).op = "RemoveChannel"
        PROVE  /\ Head(control).idx \in 1..Len(devChans)
               /\ devChans[Head(control).idx] # NoPort
    <3>1. Head(control) = control[1] /\ 1 \in 1..Len(control)
      BY <2>2, EmptySeq DEF IInv, TypeOK
    <3>. QED  BY <2>2, <3>1 DEF IInv, TrailSound, CanHandle, CanRemove, Dev
  <2>3. ASSUME devHoles # <<>>
        PROVE  Head(devHoles) \in 1..Len(devChans)
    <3>1. Head(devHoles) = devHoles[1] /\ 1 \in 1..Len(devHoles)
      BY <2>3, EmptySeq DEF IInv, TypeOK
    <3>. QED  BY <3>1, TrailFacts DEF Sound, HolesExact, Dev
  <2>. QED  BY <2>1, <2>2, <2>3 DEF NeverPanics
<1>. QED  BY <1>1, Inductive, PTL

(* No two channels of the audio thread have the same port.                 *)
THEOREM PortsAlwaysDistinct == Spec => []PortsDistinct
<1>1. IInv => PortsDistinct
  BY TrailFacts DEF PortsDistinct, Sound, Dev
<1>. QED  BY <1>1, Inductive, PTL

(* No call and no callback moves a channel that stays to another index.    *)
THEOREM ChannelsStay == Spec => IndicesStable
<1>1. IInv /\ [Next]_vars =>
          [KeepsIndices(chans, chans') /\ KeepsIndices(devChans, devChans')]_vars
  BY StepIInv
<1>. QED  BY <1>1, Inductive, PTL DEF Spec, IndicesStable
=============================================================================
