----------------------------- MODULE MCBackend -----------------------------
(* Two actions of two types, and the commands that interfere: creating     *)
(* what exists or is of no type, parameters of the wrong type, a position  *)
(* out of bounds.  And, as a second instance, one action and fewer         *)
(* commands, with a file.  Only the instance chosen at first takes steps.  *)
EXTENDS Backend

CONSTANTS u1, u2, a1, a2, f1, m1, m2

VARIABLES part, fList, fChanges, fIdx, fGiven, fPanicked, fFiles, fClient, fTimeline
fVars == <<fList, fChanges, fIdx, fGiven, fPanicked, fFiles, fClient, fTimeline>>

MCParams == {a1, a2, f1}
MCTypeOf == a1 :> "audio" @@ a2 :> "audio" @@ f1 :> "fade"
MCDefaultParams == [audio |-> a1, fade |-> f1]

Creation(u, t) == [op |-> "CreateActionWithUuid", uuid |-> u, typ |-> t]
Extras(u, t, p) == [op |-> "CreateActionWithExtras", uuid |-> u, typ |-> t, params |-> p]
Revival(u, t, p, m) == [op |-> "ReviveAction", uuid |-> u, typ |-> t, params |-> p, meta |-> m]
NewParams(u, p) == [op |-> "UpdateActionParams", uuid |-> u, params |-> p]
NewMeta(u, m) == [op |-> "UpdateActionMetadata", uuid |-> u, meta |-> m]
Deletion(u) == [op |-> "DeleteAction", uuid |-> u]
Move(u, i) == [op |-> "ReorderAction", uuid |-> u, pos |-> i]

FewRequests == {Creation(u1, "audio"), NewMeta(u1, m2), Deletion(u1)}
MCRequests == FewRequests \cup
    {NewParams(u1, a2), Creation(u1, UnknownType), Extras(u2, "fade", a2),
     Revival(u2, "audio", a2, m2), NewParams(u2, f1), Deletion(u2), Move(u1, 2)}

F == INSTANCE Backend WITH
       Uuids <- {u1}, Requests <- FewRequests, Paths <- {"show"}, MaxUndos <- 2,
       list <- fList, changes <- fChanges, idx <- fIdx, given <- fGiven,
       panicked <- fPanicked, files <- fFiles, client <- fClient, timeline <- fTimeline

ASSUME FilesAssumption == F!BackendAssumption

MCInit == part \in {"history", "files"} /\ Init /\ F!Init
MCNext ==
    \/ part = "history" /\ Next /\ UNCHANGED <<part, fVars>>
    \/ part = "files" /\ F!Next /\ UNCHANGED <<part, vars>>
MCSpec == MCInit /\ [][MCNext]_<<part, vars, fVars>>

(* What Backend says of its list, its history and its clients, also where  *)
(* there are files: with saves at any point of the history, failed saves,  *)
(* crashes and loads, whole or stopped in the middle (save.rs).            *)
FilesSound == F!OrderIsActions /\ F!TimelineExact /\ F!ShownIsCurrent
=============================================================================
