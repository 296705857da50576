------------------------- MODULE AudioEvents_proofs -------------------------
(***************************************************************************)
(* Proofs of the invariants of AudioEvents, for a queue of any size and    *)
(* any clock that shows no time to two callbacks.                          *)
(*                                                                         *)
(* While a callback runs, a waiting receiver may have missed a message,    *)
(* but then the callback's stamp says that it has to signal.               *)
(***************************************************************************)
EXTENDS AudioEvents, TLAPS

SignalDue == audio # "idle" /\ Sent

IInv ==
    /\ TypeOK
    /\ audio # "idle" => cur \in Times \cup {0}
    /\ receiver = "waiting" => queued = left \/ SignalDue

LEMMA InitIInv == Init => IInv
BY AudioEventsAssumption DEF Init, IInv, TypeOK

LEMMA StepIInv == IInv /\ [Next]_vars => IInv'
<1>. SUFFICES ASSUME IInv, [Next]_vars PROVE IInv'
  OBVIOUS
<1>. USE AudioEventsAssumption DEF IInv, TypeOK, SignalDue, Sent
<1>1. CASE Process
  BY <1>1 DEF Process, Begin
<1>2. CASE Xrun
  BY <1>2 DEF Xrun, Begin
<1>3. CASE Send
  BY <1>3 DEF Send, Stamp, Queued
<1>4. CASE Notify
  BY <1>4 DEF Notify, Signal
<1>5. CASE \E c \in Calls : Start(c)
  BY <1>5 DEF Start, Pop
<1>6. CASE Wait
  BY <1>6 DEF Wait
<1>7. CASE Timeout
  BY <1>7 DEF Timeout
<1>8. CASE Wake
  BY <1>8 DEF Wake, Pop
<1>9. CASE UNCHANGED vars
  BY <1>9 DEF vars
<1>. QED
  BY <1>1, <1>2, <1>3, <1>4, <1>5, <1>6, <1>7, <1>8, <1>9 DEF Next

(* The queue never holds more than it can, and all else is of its type.    *)
THEOREM TypeCorrect == Spec => []TypeOK
<1>1. IInv => TypeOK
  BY DEF IInv
<1>. QED  BY <1>1, InitIInv, StepIInv, PTL DEF Spec

(* Between callbacks a waiting receiver has missed no message that was     *)
(* sent since it waits, xrun callbacks with their time of 0 included.      *)
THEOREM AlwaysWoken == Spec => []WakesWhileWaiting
<1>1. IInv => WakesWhileWaiting
  BY DEF IInv, SignalDue, WakesWhileWaiting
<1>. QED  BY <1>1, InitIInv, StepIInv, PTL DEF Spec
=============================================================================
