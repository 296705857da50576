------------------------------ MODULE Backend ------------------------------
(***************************************************************************)
(* The action list of sqa-backend: ActionManager (action_manager.rs), the  *)
(* commands that change it (commands.rs), the change each registers to be  *)
(* undone (undo.rs), what subscribed clients are told (state.rs), and save *)
(* files (save.rs).                                                        *)
(*                                                                         *)
(* All of it runs on one event loop, so a handler is one step: register    *)
(* the change, carry out the command, broadcast what was marked as changed *)
(* on the way.  It stops early if the reply to its command cannot be sent. *)
(*                                                                         *)
(* An action is its parameters and metadata.  Left out are its playback    *)
(* and what set_params itself adds to parameters or resets in them: the    *)
(* channels and fades it pads with defaults, and the UUID of a waveform.   *)
(* Positions are one-based.                                                *)
(***************************************************************************)
EXTENDS Integers, Sequences, SequencesExt

CONSTANTS
    Uuids,
    Types, UnknownType,  \* the names of types of actions, and any other name
    Params, TypeOf,      \* ActionParameters, and the type each is for
    Metas,               \* ActionMetadata
    DefaultParams,       \* by type: those of a new Controller
    DefaultMeta,
    NoAction,
    Requests,            \* the undoable commands that clients send
    Paths, Unreadable,   \* names of files, and one that is absent or truncated
    Gutter, NoIdx, MaxUndos

VARIABLES
    list,                           \* ActionManager: actions by UUID, and order
    changes, idx, given, panicked,  \* UndoContext, as in Undo
    files,
    client,    \* the list and UndoState of a client that gets every broadcast
    timeline   \* history: the actions as each of changes left them, or <<>>
               \* once they cannot be restored

undoVars == <<changes, idx, given, panicked>>
vars == <<list, undoVars, files, client, timeline>>

-----------------------------------------------------------------------------
(* Actions, commands and changes *)

Data == [params : Params, meta : Metas]
Actions == [Uuids -> Data \cup {NoAction}]
List == [actions : Actions, order : Seq(Uuids)]
TypeNames == Types \cup {UnknownType}

CreateOps == {"CreateActionWithUuid", "CreateActionWithExtras", "ReviveAction"}
Command ==
    [op : {"CreateActionWithUuid"}, uuid : Uuids, typ : TypeNames]
      \cup [op : {"CreateActionWithExtras"}, uuid : Uuids, typ : TypeNames, params : Params]
      \cup [op : {"ReviveAction"}, uuid : Uuids, typ : TypeNames, params : Params, meta : Metas]
      \cup [op : {"UpdateActionParams"}, uuid : Uuids, params : Params]
      \cup [op : {"UpdateActionMetadata"}, uuid : Uuids, meta : Metas]
      \cup [op : {"DeleteAction"}, uuid : Uuids]
      \cup [op : {"ReorderAction"}, uuid : Uuids, pos : Nat \ {0}]
Change == [undo : Command, redo : Command]

ASSUME BackendAssumption ==
    /\ Requests \subseteq Command
    /\ TypeOf \in [Params -> Types] /\ DefaultParams \in [Types -> Params]
    /\ \A t \in Types : TypeOf[DefaultParams[t]] = t
    /\ DefaultMeta \in Metas
    /\ UnknownType \notin Types /\ NoAction \notin Data
    /\ Gutter \notin Change /\ NoIdx \notin Nat /\ MaxUndos \in Nat \ {0, 1}

U == INSTANCE Undo WITH Changes <- Change

NoActions == [u \in Uuids |-> NoAction]
NoList == [actions |-> NoActions, order |-> <<>>]

(* state(): the descriptions that a client shows in its menu, told apart   *)
(* here by the change they describe.                                       *)
UndoState == [undo |-> IF U!UndoAt = 0 THEN Gutter ELSE changes[U!UndoAt],
              redo |-> IF U!RedoAt = 0 THEN Gutter ELSE changes[U!RedoAt]]

Init ==
    /\ list = NoList
    /\ U!Init
    /\ files = [p \in Paths |-> Unreadable]
    /\ client = [list |-> NoList, undo |-> UndoState]
    /\ timeline = <<NoActions>>

-----------------------------------------------------------------------------
(* What a command does to a list l: the new list, the UUIDs marked as      *)
(* changed, whether the order was, and whether the full list is broadcast. *)

Exists(l, u) == l.actions[u] # NoAction
Unchanged(l) == [list |-> l, marked |-> {}, reordered |-> FALSE, full |-> FALSE]

NewAction(c) ==
    [params |-> IF c.op # "CreateActionWithUuid" /\ TypeOf[c.params] = c.typ
                THEN c.params ELSE DefaultParams[c.typ],
     meta |-> IF c.op = "ReviveAction" THEN c.meta ELSE DefaultMeta]

(* Mutant: create_action does not look for an action with that UUID. *)
CanCreateAgain(l, c) == c.typ \in Types
CanCreate(l, c) == c.typ \in Types /\ ~Exists(l, c.uuid)

(* Mutant: create_action does not mark the action as changed. *)
CreatedMarks(c) == {}
CreateMarks(c) == {c.uuid}

(* create_action and insert; ReviveAction sends the list in any case. *)
Create(l, c) ==
    IF CanCreate(l, c)
    THEN [list |-> [actions |-> [l.actions EXCEPT ![c.uuid] = NewAction(c)],
                    order |-> Append(l.order, c.uuid)],
          marked |-> CreateMarks(c), reordered |-> TRUE, full |-> c.op = "ReviveAction"]
    ELSE [Unchanged(l) EXCEPT !.full = (c.op = "ReviveAction")]

(* set_params, which refuses parameters of another type, and set_meta. *)
Accepts(l, c) == Exists(l, c.uuid) /\ TypeOf[c.params] = TypeOf[l.actions[c.uuid].params]
SetParams(l, c) ==
    [Unchanged(l) EXCEPT
        !.list.actions[c.uuid] = IF Accepts(l, c) THEN [@ EXCEPT !.params = c.params] ELSE @,
        !.marked = {c.uuid}]
SetMeta(l, c) ==
    [Unchanged(l) EXCEPT
        !.list.actions[c.uuid] = IF Exists(l, c.uuid) THEN [@ EXCEPT !.meta = c.meta] ELSE @,
        !.marked = {c.uuid}]

(* position_of, 0 for None *)
PositionOf(l, u) == IF Contains(l.order, u) THEN CHOOSE i \in DOMAIN l.order : l.order[i] = u ELSE 0

(* Mutant: remove leaves the UUID in the order. *)
OrderKept(l, u) == l.order
OrderWithout(l, u) == IF Contains(l.order, u) THEN RemoveAt(l.order, PositionOf(l, u)) ELSE l.order

Delete(l, c) ==
    IF Exists(l, c.uuid)
    THEN [list |-> [actions |-> [l.actions EXCEPT ![c.uuid] = NoAction],
                    order |-> OrderWithout(l, c.uuid)],
          marked |-> {c.uuid}, reordered |-> Contains(l.order, c.uuid), full |-> TRUE]
    ELSE Unchanged(l)

Reorder(l, c) ==
    IF PositionOf(l, c.uuid) # 0 /\ c.pos <= Len(l.order)
    THEN [Unchanged(l) EXCEPT
            !.list.order = InsertAt(RemoveAt(l.order, PositionOf(l, c.uuid)), c.pos, c.uuid),
            !.reordered = TRUE]
    ELSE Unchanged(l)

Effect(l, c) ==
    CASE c.op \in CreateOps -> Create(l, c)
      [] c.op = "UpdateActionParams" -> SetParams(l, c)
      [] c.op = "UpdateActionMetadata" -> SetMeta(l, c)
      [] c.op = "DeleteAction" -> Delete(l, c)
      [] c.op = "ReorderAction" -> Reorder(l, c)

(* The broadcasts of a command with result r, as a client takes them: the  *)
(* full list replaces its own, an action marked replaces its data, and the *)
(* order its order.  The full list is not sent if the reply failed.        *)
Told(l, r, replied) ==
    [actions |-> [u \in Uuids |->
        IF (r.full /\ replied) \/ (u \in r.marked /\ Exists(r.list, u))
        THEN r.list.actions[u] ELSE l.actions[u]],
     order |-> IF (r.full /\ replied) \/ r.reordered THEN r.list.order ELSE l.order]

-----------------------------------------------------------------------------
(* Commands that can be undone *)

Old(l, c) == l.actions[c.uuid]

(* Mutant: the metadata of a deleted action is not kept. *)
ReviveDeletedPlain(l, c) ==
    [op |-> "ReviveAction", uuid |-> c.uuid, typ |-> TypeOf[Old(l, c).params],
     params |-> Old(l, c).params, meta |-> DefaultMeta]
ReviveDeleted(l, c) ==
    [op |-> "ReviveAction", uuid |-> c.uuid, typ |-> TypeOf[Old(l, c).params],
     params |-> Old(l, c).params, meta |-> Old(l, c).meta]

(* Mutant: a position counted from zero goes with one counted from one. *)
MoveBackOffByOne(l, c) ==
    [op |-> "ReorderAction", uuid |-> c.uuid, pos |-> PositionOf(l, c.uuid) - 1]
MoveBack(l, c) ==
    [op |-> "ReorderAction", uuid |-> c.uuid, pos |-> PositionOf(l, c.uuid)]

(* cmd_as_undoable: the command that undoes c, if there is one.  It does   *)
(* not ask whether c is going to succeed.                                  *)
Undoes(l, c) ==
    CASE c.op \in CreateOps -> {[op |-> "DeleteAction", uuid |-> c.uuid]}
      [] c.op = "ReorderAction" /\ PositionOf(l, c.uuid) # 0 -> {MoveBack(l, c)}
      [] c.op = "UpdateActionParams" /\ Exists(l, c.uuid) ->
           {[op |-> "UpdateActionParams", uuid |-> c.uuid, params |-> Old(l, c).params]}
      [] c.op = "UpdateActionMetadata" /\ Exists(l, c.uuid) ->
           {[op |-> "UpdateActionMetadata", uuid |-> c.uuid, meta |-> Old(l, c).meta]}
      [] c.op = "DeleteAction" /\ Exists(l, c.uuid) -> {ReviveDeleted(l, c)}
      [] OTHER -> {}

(* Creating an action whose UUID exists fails, but is registered, and its  *)
(* undo deletes that action: the timeline ends.                            *)
ExtendTimeline(c) ==
    timeline' = IF timeline = <<>> \/ (c.op \in CreateOps /\ Exists(list, c.uuid))
                THEN <<>>
                ELSE U!Cut(Append(SubSeq(timeline, 1, U!Last), list'.actions))

(* process_command with its broadcasts *)
Process(c) ==
    LET result == Effect(list, c)
    IN /\ list' = result.list
       /\ \E replied \in BOOLEAN :
            client' = [list |-> Told(client.list, result, replied), undo |-> UndoState']

(* external() with a command of which a change is registered.  The others  *)
(* of these commands name an action that is not there: they are refused.   *)
External(c) ==
    /\ \E undo \in Undoes(list, c) : U!RegisterChange([undo |-> undo, redo |-> c])
    /\ Process(c)
    /\ ExtendTimeline(c)
    /\ UNCHANGED files

-----------------------------------------------------------------------------
(* Commands that cannot *)

(* A UUID that new_v4 can give: nothing refers to it. *)
Fresh(u) ==
    LET Mentions(l, s) ==
          Exists(l, u) \/ \E i \in DOMAIN s : s[i] # Gutter /\ s[i].undo.uuid = u
    IN /\ ~Mentions(list, changes)
       /\ \A p \in Paths : files[p] # Unreadable => ~Mentions(files[p].list, files[p].changes)

(* CreateAction: no change is registered, so that no undo removes it. *)
CreateAction(typ, u) ==
    LET c == [op |-> "CreateActionWithUuid", uuid |-> u, typ |-> typ]
    IN /\ ~panicked
       /\ Fresh(u)
       /\ UNCHANGED undoVars
       /\ Process(c)
       /\ timeline' = [i \in DOMAIN timeline |-> [timeline[i] EXCEPT ![u] = list'.actions[u]]]
       /\ UNCHANGED files

(* Undo and Redo: the state of the history is broadcast, and the command   *)
(* is carried out without being registered.                                *)
Undo ==
    /\ U!Undo
    /\ IF panicked' THEN UNCHANGED <<list, client>> ELSE Process(given'[2].undo)
    /\ UNCHANGED <<files, timeline>>

Redo ==
    /\ U!Redo
    /\ Process(given'[2].redo)
    /\ UNCHANGED <<files, timeline>>

-----------------------------------------------------------------------------
(* Files *)

Savefile == [list |-> list, changes |-> changes, idx |-> idx, timeline |-> timeline]

(* save_to_file truncates the file first, then may fail. *)
Save(p) ==
    /\ ~panicked
    /\ \E saved \in {Savefile, Unreadable} : files' = [files EXCEPT ![p] = saved]
    /\ UNCHANGED <<list, undoVars, client, timeline>>

(* apply_to_ctx up to the mixer: the empty list is broadcast, actions are  *)
(* created in some order and the saved order is restored.  A file that was *)
(* written whole has the version expected, known types and each UUID once. *)
(* Mutant: the actions created are not marked as changed.                  *)
RestoredUnmarked(p) ==
    [list |-> files[p].list, marked |-> {},
     reordered |-> files[p].list.order # <<>>, full |-> FALSE]
Restored(p) ==
    [list |-> files[p].list, marked |-> {u \in Uuids : Exists(files[p].list, u)},
     reordered |-> files[p].list.order # <<>>, full |-> FALSE]
RestoreList(p) ==
    /\ ~panicked
    /\ files[p] # Unreadable
    /\ list' = files[p].list
    /\ UNCHANGED files

(* Mutant: the index is not saved. *)
LoadedUndoAtEnd(p) == <<files[p].changes, NoIdx>>
LoadedUndo(p) == <<files[p].changes, files[p].idx>>

Load(p) ==
    /\ RestoreList(p)
    /\ changes' = LoadedUndo(p)[1] /\ idx' = LoadedUndo(p)[2]
    /\ client' = [list |-> list', undo |-> UndoState']
    /\ timeline' = files[p].timeline
    /\ UNCHANGED <<given, panicked>>

(* The mixer cannot apply its configuration, and the load is not forced:   *)
(* the actions are new, the history of undos is not.                       *)
LoadStopped(p) ==
    /\ RestoreList(p)
    /\ client' = [client EXCEPT !.list = Told(NoList, Restored(p), TRUE)]
    /\ timeline' = <<>>
    /\ UNCHANGED undoVars

(* The process ends and is started again, perhaps in the middle of a save; *)
(* its clients connect again and ask for the list.                         *)
Crash ==
    /\ list' = NoList
    /\ changes' = <<Gutter>> /\ idx' = NoIdx /\ given' = U!Nothing /\ panicked' = FALSE
    /\ client' = [list |-> NoList, undo |-> UndoState']
    /\ timeline' = <<NoActions>>
    /\ \/ UNCHANGED files
       \/ \E p \in Paths : files' = [files EXCEPT ![p] = Unreadable]

Next ==
    \/ \E c \in Requests : External(c)
    \/ \E typ \in Types, u \in Uuids : CreateAction(typ, u)
    \/ Undo
    \/ Redo
    \/ \E p \in Paths : Save(p) \/ Load(p) \/ LoadStopped(p)
    \/ Crash

Spec == Init /\ [][Next]_vars

-----------------------------------------------------------------------------
(* Properties *)

Histories == Seq(Change \cup {Gutter})
TypeOK ==
    /\ list \in List
    /\ changes \in Histories /\ idx \in (Nat \ {0}) \cup {NoIdx} /\ panicked \in BOOLEAN
    /\ \A p \in Paths : files[p] = Unreadable \/
         (files[p].list \in List /\ files[p].changes \in Histories)
    /\ client.list \in List
    /\ timeline = <<>> \/ (timeline \in Seq(Actions) /\ Len(timeline) = Len(changes))

(* The order of a list names each of its actions, once, and nothing else,  *)
(* in memory and in files: the assertions of ActionManager::insert and the *)
(* check of restore_order hold whatever commands came before, failed or    *)
(* not.                                                                    *)
OrderMatches(l) ==
    /\ ToSet(l.order) = {u \in Uuids : Exists(l, u)}
    /\ IsInjective(l.order)
OrderIsActions ==
    /\ OrderMatches(list)
    /\ \A p \in Paths : files[p] # Unreadable => OrderMatches(files[p].list)

(* Undoing and redoing gives the actions the parameters and metadata they  *)
(* had when each change was made, however undos, redos, failed commands,   *)
(* actions that cannot be undone, the limit of the history, saving and     *)
(* loading come in between.  It ends with a command that creates what      *)
(* exists and with a load that stops in the middle, which the history does *)
(* not describe.                                                           *)
TimelineExact == timeline # <<>> /\ ~panicked => list.actions = timeline[U!Last]

(* What a client shows, the actions in its order (update_store in sqa-ui), *)
(* and what its menu offers, is what the backend has, even if replies to   *)
(* commands could not be sent.                                             *)
ShownIsCurrent ==
    ~panicked =>
      /\ client.list.order = list.order
      /\ \A i \in DOMAIN list.order : client.list.actions[list.order[i]] = list.actions[list.order[i]]
      /\ client.undo = UndoState
=============================================================================
