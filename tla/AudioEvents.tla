---------------------------- MODULE AudioEvents -----------------------------
(***************************************************************************)
(* The notification channel of sqa-engine/src/sync.rs: the audio thread    *)
(* puts AudioThreadMessages in a bounded lock-free queue and may only      *)
(* notify_one() on a condition variable, without its mutex; one thread     *)
(* receives, with recv(), wait_for() (wait_until() alike) or try_recv().   *)
(*                                                                         *)
(* A callback calls init(time), send() any number of times and notify(),   *)
(* which signals only if send() stored the callback's own time, cur_t, in  *)
(* written_t; an xrun callback uses the time 0.  The clock never shows the *)
(* same time to two callbacks: a callback picks one of Times that neither  *)
(* field holds.  Messages are counted, not told apart.                     *)
(***************************************************************************)
EXTENDS Integers

CONSTANTS
    QueueSize,   \* CONTROL_BUFFER_SIZE
    Times,       \* times of the monotonic clock
    Calls        \* the calls the receiver makes

ASSUME AudioEventsAssumption ==
    /\ QueueSize \in Nat \ {0}
    /\ Times \subseteq Nat \ {0}
    /\ \A s, t \in Times \cup {0} : Times \ {s, t} # {}
    /\ Calls \subseteq {"recv", "wait_for", "try_recv"}

VARIABLES
    queued,            \* how many messages are in the queue
    cur, written,      \* AudioThreadSender.cur_t, .written_t
    audio,             \* the callback: "idle", "process", "xrun" or "xrunSent"
    receiver,          \* "idle", "empty", "waiting" or "woken"
    call,              \* the call the receiver is in
    left               \* history: messages in the queue as the wait began

vars == <<queued, cur, written, audio, receiver, call, left>>

Init ==
    /\ queued = 0
    /\ cur = 1 /\ written = 0
    /\ audio = "idle"
    /\ receiver = "idle" /\ call = "try_recv" /\ left = 0

-----------------------------------------------------------------------------
(* The audio thread *)

(* init(t) of process() and of xrun() *)
Begin(kind, t) ==
    /\ audio = "idle"
    /\ audio' = kind
    /\ cur' = t
    /\ UNCHANGED <<queued, written, receiver, call, left>>

Stamp == cur

(* Mutant: a full queue takes one more. *)
QueuedUnbounded == queued + 1
Queued == IF queued < QueueSize THEN queued + 1 ELSE queued

(* send(), once in xrun(): a message that does not fit is forgotten. *)
Send ==
    /\ audio \in {"process", "xrun"}
    /\ audio' = IF audio = "xrun" THEN "xrunSent" ELSE audio
    /\ written' = Stamp
    /\ queued' = Queued
    /\ UNCHANGED <<cur, receiver, call, left>>

(* Mutant: an xrun callback does not signal. *)
SentNotXrun == written = cur /\ cur # 0
Sent == written = cur

(* Mutant: the signal is lost on a receiver that waits. *)
SignalNone == receiver
(* Condvar::notify_one: nothing, if nobody waits. *)
Signal == IF receiver = "waiting" THEN "woken" ELSE receiver

(* notify(), at the end of both callbacks. *)
Notify ==
    /\ audio \in {"process", "xrunSent"}
    /\ audio' = "idle"
    /\ receiver' = IF Sent THEN Signal ELSE receiver
    /\ UNCHANGED <<queued, cur, written, call, left>>

-----------------------------------------------------------------------------
(* The receiver *)

(* A try_pop that finds a message ends the call. *)
Pop ==
    /\ queued > 0
    /\ queued' = queued - 1
    /\ receiver' = "idle"

(* The try_pop that every call starts with. *)
Start(c) ==
    /\ receiver = "idle"
    /\ call' = c
    /\ \/ Pop
       \/ /\ queued = 0
          /\ receiver' = IF c = "try_recv" THEN "idle" ELSE "empty"
          /\ UNCHANGED queued
    /\ UNCHANGED <<cur, written, audio, left>>

(* The lock, which the audio thread never takes, and the wait. *)
Wait ==
    /\ receiver = "empty"
    /\ receiver' = "waiting"
    /\ left' = queued
    /\ UNCHANGED <<queued, cur, written, audio, call>>

(* Mutant: a wait that timed out is not ended. *)
TimedCallsNone == {}
TimedCalls == {"wait_for"}

Timeout ==
    /\ receiver = "waiting" /\ call \in TimedCalls
    /\ receiver' = "woken"
    /\ UNCHANGED <<queued, cur, written, audio, call, left>>

(* The try_pop after the wait: recv() waits again, wait_for() gives up. *)
Wake ==
    /\ receiver = "woken"
    /\ \/ Pop
       \/ /\ queued = 0
          /\ receiver' = IF call = "recv" THEN "empty" ELSE "idle"
          /\ UNCHANGED queued
    /\ UNCHANGED <<cur, written, audio, call, left>>

-----------------------------------------------------------------------------

Process == \E t \in Times \ {cur, written} : Begin("process", t)
Xrun == Begin("xrun", 0)

Next ==
    \/ Process \/ Xrun \/ Send \/ Notify
    \/ \E c \in Calls : Start(c)
    \/ Wait \/ Timeout \/ Wake

Spec == Init /\ [][Next]_vars

(* JACK goes on calling process(), and a callback returns; a thread that   *)
(* is not blocked runs, and a timeout expires.  Nobody has to call.        *)
FairSpec ==
    /\ Spec
    /\ WF_vars(Process) /\ WF_vars(Notify) /\ WF_vars(audio = "xrun" /\ Send)
    /\ WF_vars(Wait) /\ WF_vars(Timeout) /\ WF_vars(Wake)

-----------------------------------------------------------------------------
(* Properties *)

TypeOK ==
    /\ queued \in 0..QueueSize
    /\ cur \in Times \cup {0, 1} /\ written \in Times \cup {0}
    /\ audio \in {"idle", "process", "xrun", "xrunSent"}
    /\ receiver \in {"idle", "empty", "waiting", "woken"}
    /\ call \in Calls \cup {"try_recv"}
    /\ left \in 0..QueueSize

(* Between callbacks a waiting receiver has missed nothing that was sent   *)
(* since it waits: the messages in the queue were there before.            *)
WakesWhileWaiting == audio = "idle" /\ receiver = "waiting" => queued = left

(* A call in progress with a message in the queue returns, provided that   *)
(* callbacks go on sending.                                                *)
ReturnsIfSendsGoOn ==
    []<>(audio # "idle" /\ Sent) => (receiver # "idle" /\ queued > 0 ~> receiver = "idle")

(* wait_for() returns whatever the audio thread does. *)
TimedReturns == receiver # "idle" /\ call = "wait_for" ~> receiver = "idle"

(* The doc of recv() (sync.rs:69): "Wait (forever, if necessary) until a   *)
(* message is available, and return it."                                   *)
RecvReturns == receiver # "idle" /\ call = "recv" /\ queued > 0 ~> receiver = "idle"
=============================================================================
