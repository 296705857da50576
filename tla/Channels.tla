------------------------------ MODULE Channels ------------------------------
(***************************************************************************)
(* The output channels of sqa-engine.                                      *)
(*                                                                         *)
(* EngineContext (sqa-engine/src/lib.rs) and DeviceContext (thread.rs)     *)
(* each keep a table of channels, `chans', and a list of the free indices  *)
(* in it, `holes'.  No message ever says which index a channel gets: the   *)
(* main thread computes it from its own table, hands it to the caller as   *)
(* an output patch, and relies on the audio thread reaching the same table *)
(* by replaying the AddChannel and RemoveChannel commands of a bounded     *)
(* queue, of which it handles at most one per process() callback.  Both    *)
(* copies carry the comment "This code must mirror the code in ...".       *)
(*                                                                         *)
(* Position i of a TLA+ sequence is index i - 1 of the Rust vector.  The   *)
(* ArrayVecs hold at most MaxChans elements; a push beyond that returns    *)
(* the element, which this code drops.                                     *)
(*                                                                         *)
(* A call of the main thread that stops in control.push(), which spins     *)
(* while the queue is full, is two steps: pc is "pushing" in between.      *)
(***************************************************************************)
EXTENDS Integers, Sequences, FiniteSets

CONSTANTS
    Ports,        \* JACK port handles
    NoPort,       \* None in a channel table
    MaxChans,     \* MAX_CHANS, the capacity of chans and holes
    ControlSize   \* CONTROL_BUFFER_SIZE, the capacity of the command queue

ASSUME ChannelsAssumption ==
    /\ NoPort \notin Ports
    /\ MaxChans \in Nat \ {0}
    /\ ControlSize \in Nat \ {0}

VARIABLES
    chans, holes,       \* EngineContext.chans and .holes
    pc,                 \* the main thread: "ready", or "pushing" a command
    pending,            \* the command being pushed
    registered,         \* the ports JACK has registered for this client
    control,            \* the queue from the main to the audio thread
    devChans, devHoles, \* DeviceContext.chans and .holes
    trail               \* history: the tables the queued commands lead through

mainVars == <<chans, holes, pc, pending, registered>>
devVars == <<devChans, devHoles>>
vars == <<chans, holes, pc, pending, registered, control, devChans, devHoles, trail>>

-----------------------------------------------------------------------------
(* Commands and tables *)

(* Mutant: the command carries the index before idx. *)
RemoveChannelCmdOffByOne(idx) ==
    [op |-> "RemoveChannel", port |-> NoPort, idx |-> idx - 1]

AddChannelCmd(port) == [op |-> "AddChannel", port |-> port, idx |-> 0]
RemoveChannelCmd(idx) == [op |-> "RemoveChannel", port |-> NoPort, idx |-> idx]
Command == [op : {"AddChannel"}, port : Ports, idx : {0}]
             \cup [op : {"RemoveChannel"}, port : {NoPort}, idx : 1..MaxChans]
NoCommand == AddChannelCmd(NoPort)

Table == [chans : Seq(Ports \cup {NoPort}), holes : Seq(1..MaxChans)]
Main == [chans |-> chans, holes |-> holes]
Dev == [chans |-> devChans, holes |-> devHoles]

(* ArrayVec::push and ::swap_remove (the last element replaces element i). *)
Push(s, x) == IF Len(s) < MaxChans THEN Append(s, x) ELSE s
SwapRemove(s, i) == [k \in 1..(Len(s) - 1) |-> IF k = i THEN s[Len(s)] ELSE s[k]]

-----------------------------------------------------------------------------
(* The audio thread's copy of the code: what handle does to its table.     *)

DevAddChannel(t, port) ==
    IF t.holes # <<>>
    THEN [chans |-> [t.chans EXCEPT ![Head(t.holes)] = port], holes |-> Tail(t.holes)]
    ELSE [chans |-> Push(t.chans, port), holes |-> t.holes]

(* Mutants: the newest hole goes first; the None that swap_remove moves    *)
(* into place is not pushed; the channel stays in the table.               *)
DevRemoveChannelNewestFirst(t, idx) ==
    [chans |-> SwapRemove(Push(t.chans, NoPort), idx), holes |-> <<idx>> \o t.holes]
DevRemoveChannelNoPush(t, idx) ==
    [chans |-> SwapRemove(t.chans, idx), holes |-> Push(t.holes, idx)]
DevRemoveChannelKeeps(t, idx) == [t EXCEPT !.holes = Push(@, idx)]

DevRemoveChannel(t, idx) ==
    [chans |-> SwapRemove(Push(t.chans, NoPort), idx), holes |-> Push(t.holes, idx)]

DevHandle(t, cmd) ==
    IF cmd.op = "AddChannel" THEN DevAddChannel(t, cmd.port)
                             ELSE DevRemoveChannel(t, cmd.idx)

(* Mutant: a callback leaves a full queue alone. *)
HasCommandUnlessFull == Len(control) \in 1..(ControlSize - 1)

HasCommand == control # <<>>

(* process() with a channel command at the head of the queue. *)
Process ==
    /\ HasCommand
    /\ LET t == DevHandle(Dev, Head(control))
       IN devChans' = t.chans /\ devHoles' = t.holes
    /\ control' = Tail(control)
    /\ trail' = Tail(trail)
    /\ UNCHANGED mainVars

-----------------------------------------------------------------------------
(* The main thread *)

Init ==
    /\ chans = <<>> /\ holes = <<>>
    /\ pc = "ready" /\ pending = NoCommand
    /\ registered = {}
    /\ control = <<>>
    /\ devChans = <<>> /\ devHoles = <<>>
    /\ trail = <<Main>>

(* Mutant: the last index, which remove_channel needs, is given out too. *)
AtLimitOfCapacity == Len(chans) - Len(holes) = MaxChans

AtLimit == Len(chans) - Len(holes) = MaxChans - 1

(* new_channel registers the port first; at the limit it returns an error  *)
(* without giving the port back.  Otherwise it takes the oldest hole, or   *)
(* the end of the table, and goes on to push AddChannel.                   *)
NewChannel(port) ==
    /\ pc = "ready"
    /\ port \notin registered
    /\ registered' = registered \cup {port}
    /\ \/ AtLimit /\ UNCHANGED <<chans, holes, pc, pending>>
       \/ /\ ~AtLimit
          /\ chans' = IF holes # <<>> THEN [chans EXCEPT ![Head(holes)] = port]
                                     ELSE Push(chans, port)
          /\ holes' = IF holes # <<>> THEN Tail(holes) ELSE <<>>
          /\ pc' = "pushing" /\ pending' = AddChannelCmd(port)
    /\ UNCHANGED <<control, trail, devVars>>

(* remove_channel up to the push of RemoveChannel; an index beyond the     *)
(* table, or in holes, is NoSuchChannel and changes nothing.               *)
RemoveChannel(idx) ==
    /\ pc = "ready"
    /\ idx <= Len(chans)
    /\ \A k \in 1..Len(holes) : holes[k] # idx
    /\ chans' = Push(chans, NoPort)
    /\ holes' = Push(holes, idx)
    /\ pc' = "pushing" /\ pending' = RemoveChannelCmd(idx)
    /\ UNCHANGED <<registered, control, trail, devVars>>

(* control.push(), which spins while the queue is full, and the rest of    *)
(* the call: remove_channel takes the port out of its table, and JACK      *)
(* unregisters it or fails, which is passed on with `?'.                   *)
PushCommand ==
    /\ pc = "pushing"
    /\ Len(control) < ControlSize
    /\ control' = Append(control, pending)
    /\ trail' = Append(trail, DevHandle(trail[Len(trail)], pending))
    /\ pc' = "ready" /\ pending' = NoCommand
    /\ \/ pending.op = "AddChannel" /\ UNCHANGED <<chans, registered>>
       \/ /\ pending.op = "RemoveChannel"
          /\ chans' = SwapRemove(chans, pending.idx)
          /\ registered' \in {registered, registered \ {chans[pending.idx]}}
    /\ UNCHANGED <<holes, devVars>>

Next ==
    \/ \E port \in Ports : NewChannel(port)
    \/ \E idx \in 1..MaxChans : RemoveChannel(idx)
    \/ PushCommand
    \/ Process

Spec == Init /\ [][Next]_vars

(* JACK calls process() for as long as the client is active, and a thread  *)
(* that spins in control.push() keeps running.                             *)
FairSpec == Spec /\ WF_vars(Process) /\ WF_vars(PushCommand)

-----------------------------------------------------------------------------
(* Properties *)

TypeOK ==
    /\ chans \in Seq(Ports \cup {NoPort})
    /\ holes \in Seq(1..MaxChans)
    /\ pc \in {"ready", "pushing"}
    /\ pending \in Command \cup {NoCommand}
    /\ registered \subseteq Ports
    /\ control \in Seq(Command)
    /\ devChans \in Seq(Ports \cup {NoPort})
    /\ devHoles \in Seq(1..MaxChans)
    /\ trail \in Seq(Table)

(* The holes of a table are its empty indices, each listed once, and one   *)
(* element can still be pushed.                                            *)
HolesExact(t) ==
    /\ Len(t.chans) < MaxChans
    /\ \A i \in 1..Len(t.chans) :
          t.chans[i] = NoPort <=> \E k \in 1..Len(t.holes) : t.holes[k] = i
    /\ \A k \in 1..Len(t.holes) : t.holes[k] \in 1..Len(t.chans)
    /\ \A j, k \in 1..Len(t.holes) : t.holes[j] = t.holes[k] => j = k

(* Both threads' tables are sound between the steps of a call: a hole is   *)
(* never handed out twice, an occupied index is never in holes, and the    *)
(* push of remove_channel always fits, so that swap_remove never moves a   *)
(* channel to another index (lib.rs new_channel and remove_channel,        *)
(* thread.rs handle).                                                      *)
TablesSound ==
    /\ pc = "ready" => HolesExact(Main)
    /\ HolesExact(Dev)

(* The two copies of the code do mirror each other: once the audio thread  *)
(* has handled every command, its table is the main thread's, so that an   *)
(* index new_channel returned means the same channel on both sides.        *)
Mirrored ==
    pc = "ready" /\ control = <<>> => Dev = Main

(* No call panics: swap_remove(idx).unwrap().unwrap() of remove_channel    *)
(* finds a port, and the audio thread never indexes outside its table nor  *)
(* removes an empty index.                                                 *)
NeverPanics ==
    /\ pc = "pushing" /\ pending.op = "RemoveChannel" =>
          /\ pending.idx < Len(chans)
          /\ chans[pending.idx] # NoPort
    /\ control # <<>> /\ Head(control).op = "RemoveChannel" =>
          /\ Head(control).idx \in 1..Len(devChans)
          /\ devChans[Head(control).idx] # NoPort
    /\ devHoles # <<>> => Head(devHoles) \in 1..Len(devChans)

(* No port is the port of two channels of the audio thread, although JACK  *)
(* may hand out the handle of a port that remove_channel unregistered      *)
(* before the audio thread has seen the RemoveChannel.                     *)
PortsDistinct ==
    \A i, j \in 1..Len(devChans) :
        devChans[i] = devChans[j] /\ devChans[i] # NoPort => i = j

KeepsIndices(old, new) ==
    \A i \in 1..Len(old) :
        old[i] # NoPort => i \in 1..Len(new) /\ new[i] \in {old[i], NoPort}

(* A channel never moves: while an index is occupied its port stays, on    *)
(* the main thread and on the audio thread (output patches are indices).   *)
IndicesStable ==
    [][KeepsIndices(chans, chans') /\ KeepsIndices(devChans, devChans')]_vars

(* A main thread that spins on a full command queue gets through.          *)
PushReturns == pc = "pushing" ~> pc = "ready"
=============================================================================
