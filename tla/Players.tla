------------------------------ MODULE Players ------------------------------
(***************************************************************************)
(* The life of a stream of sqa-engine: a Sender, used by any thread, and   *)
(* its Player, owned by the audio thread, share a few atomics and nothing  *)
(* else (sqa-engine/src/lib.rs, thread.rs).                                *)
(*                                                                         *)
(* The Player travels: EngineContext::new_sender puts it in the command    *)
(* queue, process() moves it to DeviceContext.players, and the queue of    *)
(* AudioThreadMessages (sync.rs) gives it back to be deallocated, as the   *)
(* audio thread must not.  A message that does not fit in that queue is    *)
(* forgotten, with the Player in it.                                       *)
(*                                                                         *)
(* A callback of process() is one step per command, per load of a Player's *)
(* flags and per store to them, so that the threads that hold Senders      *)
(* interleave with it.  The atomics are sequentially consistent here.      *)
(* Channels are fixed (module Channels changes them).  Samples, volume and *)
(* time are left out: whether a stream is due, how full its buffer is, and *)
(* whether that was reported before, are choices of each visit.            *)
(***************************************************************************)
EXTENDS Integers, Sequences, FiniteSets

CONSTANTS
    Streams,      \* the streams that may be created, by UUID
    Played,       \* those whose Senders are used: bounds the setters
    Channels,     \* output patches with a channel
    NoPatch,      \* an output patch without one, usize::MAX at first
    MaxPlayers,   \* MAX_PLAYERS, the capacity of DeviceContext.players
    ControlSize,  \* CONTROL_BUFFER_SIZE of the command queue
    EventSize     \* CONTROL_BUFFER_SIZE of the message queue

ASSUME PlayersAssumption ==
    /\ Played \subseteq Streams
    /\ NoPatch \notin Channels
    /\ MaxPlayers \in Nat
    /\ ControlSize \in Nat \ {0}
    /\ EventSize \in Nat \ {0}

VARIABLES
    sender,        \* the original Sender of a stream
    active, alive, outputPatch,    \* the shared atomics
    length,        \* EngineContext.length, shared
    control,       \* AddPlayer commands on their way
    players,       \* DeviceContext.players
    audio,         \* where the callback is: [at, i, toRemove, outpatch]
    events,        \* messages on their way to the main thread
    freed, leaked  \* Players deallocated by the main thread, or forgotten

flagVars == <<active, alive, outputPatch>>
deviceVars == <<length, players, audio>>
vars == <<sender, flagVars, deviceVars, control, events, freed, leaked>>

-----------------------------------------------------------------------------

(* AudioThreadMessages; the first two own the Player. *)
Owning == {"PlayerRejected", "PlayerRemoved"}
Kinds == Owning \cup {"PlayerAdded", "PlayerInvalidOutpatch", "PlayerBufHalf",
                      "PlayerBufEmpty"}
Message == [kind : Kinds, player : Streams]

Init ==
    /\ sender = [p \in Streams |-> "none"]
    /\ active = [p \in Streams |-> FALSE]
    /\ alive = [p \in Streams |-> FALSE]
    /\ outputPatch = [p \in Streams |-> NoPatch]
    /\ length = 0
    /\ control = <<>> /\ players = <<>> /\ events = <<>>
    /\ audio = [at |-> "idle", i |-> 0, toRemove |-> 0, outpatch |-> NoPatch]
    /\ freed = {} /\ leaked = {}

-----------------------------------------------------------------------------
(* The threads that hold Senders *)

(* new_sender; control.push() spins while the queue is full. *)
NewSender(p) ==
    /\ sender[p] = "none"
    /\ Len(control) < ControlSize
    /\ control' = Append(control, p)
    /\ sender' = [sender EXCEPT ![p] = "held"]
    /\ UNCHANGED <<flagVars, deviceVars, events, freed, leaked>>

(* The setters, by the original Sender or by a PlainSender made from it,   *)
(* which may outlive it.  set_kill_when_empty is seen in Underrun only.    *)
SetActive(p, b) ==
    /\ sender[p] # "none"
    /\ active' = [active EXCEPT ![p] = b]
    /\ UNCHANGED <<sender, alive, outputPatch, deviceVars, control, events, freed, leaked>>

SetOutputPatch(p, c) ==
    /\ sender[p] # "none"
    /\ outputPatch' = [outputPatch EXCEPT ![p] = c]
    /\ UNCHANGED <<sender, active, alive, deviceVars, control, events, freed, leaked>>

(* Drop of the original Sender stores to active, then to alive; what a     *)
(* thread sees in between it can also see before or after.                 *)
DropSender(p) ==
    /\ sender[p] = "held"
    /\ sender' = [sender EXCEPT ![p] = "dropped"]
    /\ active' = [active EXCEPT ![p] = FALSE]
    /\ alive' = [alive EXCEPT ![p] = FALSE]
    /\ UNCHANGED <<outputPatch, deviceVars, control, events, freed, leaked>>

(* The main thread receives a message and drops it, with the Player in it: *)
(* its Drop stores to active and alive.                                    *)
Receive ==
    /\ events # <<>>
    /\ events' = Tail(events)
    /\ LET m == Head(events)
           owned == IF m.kind \in Owning THEN {m.player} ELSE {}
       IN /\ freed' = freed \cup owned
          /\ active' = [p \in Streams |-> active[p] /\ p \notin owned]
          /\ alive' = [p \in Streams |-> alive[p] /\ p \notin owned]
    /\ UNCHANGED <<sender, outputPatch, deviceVars, control, leaked>>

-----------------------------------------------------------------------------
(* The audio thread *)

(* AudioThreadSender::send *)
Send(kind, p) ==
    IF Len(events) < EventSize
    THEN /\ events' = Append(events, [kind |-> kind, player |-> p])
         /\ UNCHANGED leaked
    ELSE /\ leaked' = IF kind \in Owning THEN leaked \cup {p} ELSE leaked
         /\ UNCHANGED events

At(step) == audio.at = step
Goto(step) == audio' = [at |-> step, i |-> audio.i, toRemove |-> audio.toRemove,
                        outpatch |-> audio.outpatch]
NextPlayerRemoving(r) ==
    audio' = [at |-> "visit", i |-> audio.i + 1, toRemove |-> r, outpatch |-> NoPatch]
NextPlayer == NextPlayerRemoving(audio.toRemove)
Visited == players[audio.i]

Fits == Len(players) < MaxPlayers

(* Mutants: the length is not counted, or counts a rejected Player. *)
LengthAddedNever == length
LengthAddedAlways == length + 1
LengthAdded == IF Fits THEN length + 1 ELSE length

(* Mutant: a rejected stream is alive. *)
AliveAddedAlways(p) == [alive EXCEPT ![p] = TRUE]
AliveAdded(p) == IF Fits THEN [alive EXCEPT ![p] = TRUE] ELSE alive

(* handle(AddPlayer(p)) *)
AddPlayer(p) ==
    /\ players' = IF Fits THEN Append(players, p) ELSE players
    /\ length' = LengthAdded
    /\ alive' = AliveAdded(p)
    /\ Send(IF Fits THEN "PlayerAdded" ELSE "PlayerRejected", p)

(* The start of process(): at most one command. *)
Begin ==
    /\ At("idle")
    /\ audio' = [at |-> "visit", i |-> 1, toRemove |-> 0, outpatch |-> NoPatch]
    /\ \/ /\ control = <<>>
          /\ UNCHANGED <<control, players, length, alive, events, leaked>>
       \/ /\ control # <<>>
          /\ control' = Tail(control)
          /\ AddPlayer(Head(control))
    /\ UNCHANGED <<sender, active, outputPatch, freed>>

(* One Player of the loop: dead, of which the first is remembered; halted, *)
(* or not due yet; or to be played on the patch that is loaded here.       *)
Visit ==
    /\ At("visit") /\ audio.i <= Len(players)
    /\ \/ /\ ~alive[Visited]
          /\ NextPlayerRemoving(IF audio.toRemove = 0 THEN audio.i ELSE audio.toRemove)
       \/ alive[Visited] /\ NextPlayer
       \/ /\ alive[Visited] /\ active[Visited]
          /\ audio' = [at |-> "buffer", i |-> audio.i, toRemove |-> audio.toRemove,
                       outpatch |-> outputPatch[Visited]]
    /\ UNCHANGED <<sender, flagVars, length, players, control, events, freed, leaked>>

(* The buffer cannot fill this callback: if kill_when_empty is set, which  *)
(* any Sender may have done, the stream is killed; if not, it is reported, *)
(* unless it was before.                                                   *)
Underrun ==
    /\ At("buffer")
    /\ NextPlayer
    /\ \/ /\ alive' = [alive EXCEPT ![Visited] = FALSE]
          /\ UNCHANGED <<events, leaked>>
       \/ /\ Send("PlayerBufEmpty", Visited) \/ UNCHANGED <<events, leaked>>
          /\ UNCHANGED alive
    /\ UNCHANGED <<sender, active, outputPatch, length, players, control, freed>>

(* The buffer can, and is reported when it falls below the half. *)
Filled ==
    /\ At("buffer")
    /\ Goto("patch")
    /\ Send("PlayerBufHalf", Visited) \/ UNCHANGED <<events, leaked>>
    /\ UNCHANGED <<sender, flagVars, length, players, control, freed>>

(* The patch loaded before: samples are written, or the stream is halted   *)
(* after the main thread is told.                                          *)
Write ==
    /\ At("patch") /\ audio.outpatch \in Channels
    /\ NextPlayer
    /\ UNCHANGED <<sender, flagVars, length, players, control, events, freed, leaked>>

InvalidOutpatch ==
    /\ At("patch") /\ audio.outpatch \notin Channels
    /\ Goto("halt")
    /\ Send("PlayerInvalidOutpatch", Visited)
    /\ UNCHANGED <<sender, flagVars, length, players, control, freed>>

Halt ==
    /\ At("halt")
    /\ NextPlayer
    /\ active' = [active EXCEPT ![Visited] = FALSE]
    /\ UNCHANGED <<sender, alive, outputPatch>>
    /\ UNCHANGED <<length, players, control, events, freed, leaked>>

(* Mutants: the last Player goes instead; no Player goes. *)
SwapRemoveLast(s, i) == SubSeq(s, 1, Len(s) - 1)
SwapRemoveNone(s, i) == s
(* ArrayVec::swap_remove: the last element takes the place of element i. *)
SwapRemove(s, i) == [k \in 1..(Len(s) - 1) |-> IF k = i THEN s[Len(s)] ELSE s[k]]

(* Mutant: index 0 is taken for None. *)
NoneToRemoveOffByOne == audio.toRemove <= 1
NoneToRemove == audio.toRemove = 0

(* The end of process(): the dead Player found first is given back. *)
Finish ==
    /\ At("visit") /\ audio.i > Len(players)
    /\ audio' = [at |-> "idle", i |-> 0, toRemove |-> 0, outpatch |-> NoPatch]
    /\ IF NoneToRemove
       THEN UNCHANGED <<players, length, events, leaked>>
       ELSE /\ players' = SwapRemove(players, audio.toRemove)
            /\ length' = length - 1
            /\ Send("PlayerRemoved", players[audio.toRemove])
    /\ UNCHANGED <<sender, flagVars, control, freed>>

Callback ==
    \/ Begin \/ Visit \/ Underrun \/ Filled \/ Write
    \/ InvalidOutpatch \/ Halt \/ Finish

Next ==
    \/ \E p \in Streams : NewSender(p)
    \/ \E p \in Played, b \in BOOLEAN : SetActive(p, b)
    \/ \E p \in Played, c \in Channels \cup {NoPatch} : SetOutputPatch(p, c)
    \/ \E p \in Streams : DropSender(p)
    \/ Receive
    \/ Callback

Spec == Init /\ [][Next]_vars

(* JACK calls process() for as long as the client is active, and the main  *)
(* thread must keep receiving (the doc of EngineContext::get_handle).      *)
FairSpec == Spec /\ WF_vars(Callback) /\ WF_vars(Receive)

-----------------------------------------------------------------------------
(* Properties *)

RangeOf(s) == {s[k] : k \in 1..Len(s)}
Distinct(s) == \A j, k \in 1..Len(s) : s[j] = s[k] => j = k

TypeOK ==
    /\ sender \in [Streams -> {"none", "held", "dropped"}]
    /\ active \in [Streams -> BOOLEAN]
    /\ alive \in [Streams -> BOOLEAN]
    /\ outputPatch \in [Streams -> Channels \cup {NoPatch}]
    /\ length \in Nat
    /\ control \in Seq(Streams)
    /\ players \in Seq(Streams)
    /\ audio \in [at : {"idle", "visit", "buffer", "patch", "halt"},
                  i : Nat, toRemove : Nat, outpatch : Channels \cup {NoPatch}]
    /\ events \in Seq(Message)
    /\ freed \subseteq Streams
    /\ leaked \subseteq Streams

OwningEvents == {k \in 1..Len(events) : events[k].kind \in Owning}
InEvents == {events[k].player : k \in OwningEvents}

Places == <<RangeOf(control), RangeOf(players), InEvents, freed, leaked>>

(* Every Player that new_sender made is in one place only, and once: on    *)
(* its way in, in the callback's list, on its way back, deallocated, or    *)
(* forgotten.  So none is used after it is deallocated, or freed twice.    *)
OnePlace ==
    /\ Distinct(control) /\ Distinct(players)
    /\ \A j, k \in OwningEvents : events[j].player = events[k].player => j = k
    /\ UNION {Places[k] : k \in 1..5} = {p \in Streams : sender[p] # "none"}
    /\ \A j, k \in 1..5 : j # k => Places[j] \cap Places[k] = {}

(* num_senders is the length of the audio thread's list, whatever was      *)
(* rejected, removed or forgotten.                                         *)
LengthExact == length = Len(players) /\ Len(players) <= MaxPlayers

(* A stream whose alive flag is set is one the audio thread goes through:  *)
(* no other flag is raised, and the flag is down before the Player leaves. *)
AliveInDevice == \A p \in Streams : alive[p] => p \in RangeOf(players)

(* The main thread hears nothing more of a stream after it was given its   *)
(* Player back, and nothing of a stream that the audio thread has not got. *)
NoMessageAfterReturn ==
    /\ \A j, k \in 1..Len(events) :
          j < k /\ events[j].kind \in Owning => events[k].player # events[j].player
    /\ \A k \in 1..Len(events) :
          events[k].player \notin freed \cup RangeOf(control)

(* Once no streams are added any more, each Player in the list that is     *)
(* dead gets out of it and back to the main thread, or is forgotten,       *)
(* whatever else dies meanwhile and wherever swap_remove puts the others.  *)
(* While they are added it may stay: a callback removes the dead Player    *)
(* with the lowest index only (thread.rs:119), and one that was added last *)
(* takes that index.                                                       *)
NoMoreAdded == <>[](control = <<>>)
DeadReturned ==
    NoMoreAdded =>
        \A p \in Streams :
            (p \in RangeOf(players) /\ ~alive[p]) ~> (p \in freed \cup leaked)

(* The doc of Drop for Sender (lib.rs:227): dropping the original sets     *)
(* alive to false; the stream is over.                                     *)
DropIsFinal == \A p \in Streams : sender[p] = "dropped" => ~alive[p]
=============================================================================
