----------------------------- MODULE UndoStacks -----------------------------
(***************************************************************************)
(* What undo and redo promise to a user of sqa-backend: the changes made   *)
(* and not undone, of which the last Limit are kept, and the changes       *)
(* undone and not redone.  A new change ends what could be redone.         *)
(***************************************************************************)
EXTENDS Integers, Sequences

CONSTANTS Changes, Limit

VARIABLES
    done,    \* changes that can be undone, the newest last
    undone,  \* changes that can be redone, the next one first
    given    \* the command that the last call gave, if any

Nothing == <<"nothing">>

Init == done = <<>> /\ undone = <<>> /\ given = Nothing

(* The last Limit elements of a sequence that is at most one longer. *)
Kept(s) == IF Len(s) > Limit THEN Tail(s) ELSE s

Register(c) ==
    /\ done' = Kept(Append(done, c))
    /\ undone' = <<>>
    /\ given' = Nothing

Undo ==
    /\ done # <<>>
    /\ given' = <<"undo", done[Len(done)]>>
    /\ undone' = <<done[Len(done)]>> \o undone
    /\ done' = SubSeq(done, 1, Len(done) - 1)

Redo ==
    /\ undone # <<>>
    /\ given' = <<"redo", Head(undone)>>
    /\ done' = Append(done, Head(undone))
    /\ undone' = Tail(undone)

Next == (\E c \in Changes : Register(c)) \/ Undo \/ Redo

Spec == Init /\ [][Next]_<<done, undone, given>>
=============================================================================
