-------------------------------- MODULE Undo --------------------------------
(***************************************************************************)
(* UndoContext of sqa-backend/src/undo.rs: one vector of changes and an    *)
(* optional index into it, the last change that is not undone; None stands *)
(* for the end.  The vector starts with a gutter, a change described as    *)
(* "nothing", which cannot be undone.                                      *)
(*                                                                         *)
(* Positions are one-based: idx = k is Some(k - 1), idx = NoIdx is None.   *)
(* The handlers of Undo and Redo (commands.rs) and of a new change         *)
(* (state.rs) go on to call state(), which indexes the vector.             *)
(***************************************************************************)
EXTENDS Integers, Sequences

CONSTANTS
    Changes,    \* undoable changes
    Gutter,
    NoIdx,      \* None
    MaxUndos    \* MAX_UNDOS

ASSUME UndoAssumption ==
    /\ Gutter \notin Changes
    /\ NoIdx \notin Nat
    /\ MaxUndos \in Nat \ {0, 1}

VARIABLES
    changes, idx,  \* UndoContext
    given,         \* the command that the last call returned, if any
    panicked       \* the backend has panicked

vars == <<changes, idx, given, panicked>>

Nothing == <<"nothing">>

Init == changes = <<Gutter>> /\ idx = NoIdx /\ given = Nothing /\ panicked = FALSE

-----------------------------------------------------------------------------

(* indexes(): the position that an undo or a redo would use, 0 for None. *)
Last == IF idx = NoIdx THEN Len(changes) ELSE idx
UndoAt == IF changes[Last] # Gutter THEN Last ELSE 0
RedoAt == IF Last + 1 <= Len(changes) THEN Last + 1 ELSE 0

(* Mutant: the change at the index goes too. *)
NotUndoneBefore == IF idx = NoIdx THEN changes ELSE SubSeq(changes, 1, idx - 1)
(* register_change: drain((idx+1)..) *)
NotUndone == IF idx = NoIdx THEN changes ELSE SubSeq(changes, 1, idx)

Cut(s) == IF Len(s) > MaxUndos THEN Tail(s) ELSE s

RegisterChange(c) ==
    /\ ~panicked
    /\ changes' = Cut(Append(NotUndone, c))
    /\ idx' = NoIdx
    /\ given' = Nothing
    /\ UNCHANGED panicked

(* Mutant: an undo goes two changes back. *)
BeforeUndoTwo == UndoAt - 2
BeforeUndo == UndoAt - 1

(* undo(), whose idx - 1 underflows at index 0; a build that wraps around  *)
(* instead panics in state(), at changes[idx].                             *)
Undo ==
    /\ ~panicked
    /\ UndoAt # 0
    /\ \/ /\ UndoAt > 1
          /\ idx' = BeforeUndo
          /\ given' = <<"undo", changes[UndoAt]>>
          /\ UNCHANGED panicked
       \/ /\ UndoAt = 1
          /\ panicked' = TRUE
          /\ UNCHANGED <<idx, given>>
    /\ UNCHANGED changes

(* Mutant: the index stays Some at the end of the vector. *)
AfterRedoSome == RedoAt + 1
AfterRedo == IF RedoAt = Len(changes) THEN NoIdx ELSE RedoAt

Redo ==
    /\ ~panicked
    /\ RedoAt # 0
    /\ idx' = AfterRedo
    /\ given' = <<"redo", changes[RedoAt]>>
    /\ UNCHANGED <<changes, panicked>>

Next == (\E c \in Changes : RegisterChange(c)) \/ Undo \/ Redo

Spec == Init /\ [][Next]_vars

-----------------------------------------------------------------------------
(* Properties *)

TypeOK ==
    /\ changes \in Seq(Changes \cup {Gutter})
    /\ idx \in (Nat \ {0}) \cup {NoIdx}
    /\ given \in {Nothing} \cup ({"undo", "redo"} \X (Changes \cup {Gutter}))
    /\ panicked \in BOOLEAN

(* Every index that undo(), redo() and state() use is one of the vector,   *)
(* which holds a change at least and MAX_UNDOS at most; the gutter is      *)
(* nowhere but at its start, where no undo gets past it; and an index that *)
(* is Some has something to redo.                                          *)
IndexInRange ==
    /\ Len(changes) \in 1..MaxUndos
    /\ idx = NoIdx \/ idx \in 1..(Len(changes) - 1)
    /\ \A k \in 2..Len(changes) : changes[k] # Gutter

FirstChange == IF changes[1] = Gutter THEN 2 ELSE 1
Stacks == INSTANCE UndoStacks WITH
            Limit <- MaxUndos,
            done <- SubSeq(changes, FirstChange, Last),
            undone <- SubSeq(changes, Last + 1, Len(changes))

(* The vector and its index are the two stacks that a user sees, and every *)
(* call gives the command that the stacks give.                            *)
RefinesStacks == Stacks!Spec

(* An undo that state() offers, as the client's menu shows it              *)
(* (sqa-ui/src/connection.rs:475), can be made.                            *)
OfferedUndoWorks == ~panicked
=============================================================================
