------------------------------ MODULE ActionView ------------------------------
(***************************************************************************)
(* The list of actions in a user interface (sqa-ui/src/actions/mod.rs):    *)
(* the copy it keeps of the server's, the rows of its view with the editor *)
(* of the selected one beside it or in a window of its own, choosing the   *)
(* target of a fade by selecting a row, dragging, copying and pasting; and *)
(* the server, which other clients command as well.                        *)
(*                                                                         *)
(* What is too long for a datagram comes over TCP, so that it and what is  *)
(* sent before and after can change places.  Actions are numbers in the    *)
(* order in which they are made, and all are fades: an audio action is one *)
(* that is never given a target.  The interface handles the messages it    *)
(* sends itself before anything else happens to it.                        *)
(***************************************************************************)
EXTENDS Integers, Sequences, SequencesExt, Functions

CONSTANTS
    MaxActs,   \* bound: actions ever made
    Listed,    \* those that are listed at first are 1..Listed
    Long,      \* actions whose data do not fit in a datagram
    MaxOps     \* bound: what the user and other clients do, and datagrams lost

(* What a module that instantiates this one assumes of the constants. *)
ActionViewAssumption ==
    MaxActs \in Nat /\ Listed \in 0..MaxActs /\ Long \subseteq 1..MaxActs /\ MaxOps \in Nat

VARIABLES
    list, order, made,             \* the server's actions and their order
    up, down,
    opas, ctls, shownOrder,        \* ActionController: opas, ctls, order
    row, widget,                   \* the row selected, cur_widget
    sel, dnd, clipboard,           \* cur_sel, cur_dnd, clipboard
    ops, handled,
    newest, missed,                \* history: of the messages received
    interrupted, hidden            \* history: of the selections, of the editors

serverVars == <<list, order, made>>
mirrorVars == <<opas, ctls, shownOrder, row, widget, newest, missed>>
userVars == <<sel, dnd, clipboard, interrupted>>
vars == <<serverVars, up, down, mirrorVars, userVars, hidden, ops, handled>>

Acts == 1..MaxActs
None == 0
NoSel == [initiator |-> None, prev |-> None]
NoWidget == [uuid |-> None, live |-> FALSE]
NoDnd == <<>>

(* A controller: the target its editor has, whether its button says that a *)
(* target is being chosen, whether it is in a window of its own.           *)
NewCtl(target) == [target |-> target, selecting |-> FALSE, window |-> FALSE]

Command ==
    [op : {"Create", "Delete"}, uuid : Acts] \cup [op : {"ActionList"}]
    \cup [op : {"Revive", "UpdateParams"}, uuid : Acts, target : Acts \cup {None}]
    \cup [op : {"Reorder"}, uuid : Acts, pos : Nat]

Init ==
    /\ list = [u \in 1..Listed |-> None] /\ order = [i \in 1..Listed |-> i] /\ made = Listed
    /\ up = <<>> /\ down = <<>>
    /\ opas = list /\ ctls = [u \in 1..Listed |-> NewCtl(None)] /\ shownOrder = order
    /\ row = None /\ widget = NoWidget
    /\ sel = NoSel /\ dnd = NoDnd /\ clipboard = <<>>
    /\ ops = 0 /\ handled = 0
    /\ newest = 0 /\ missed = FALSE /\ interrupted = {} /\ hidden = {}

-----------------------------------------------------------------------------
(* The server.  A command that is refused changes nothing there. *)

Without(f, u) == Restrict(f, DOMAIN f \ {u})
Put(f, u, x) == [v \in DOMAIN f \cup {u} |-> IF v = u THEN x ELSE f[v]]
Index(s, x) == CHOOSE i \in DOMAIN s : s[i] = x
Moved(s, x, pos) == InsertAt(RemoveAt(s, Index(s, x)), pos, x)

Accepted(c) ==
    \/ c.op = "ActionList"
    \/ c.op \in {"Create", "Revive"} /\ c.uuid \notin DOMAIN list
    \/ c.op \in {"Delete", "UpdateParams"} /\ c.uuid \in DOMAIN list
    \/ c.op = "Reorder" /\ c.uuid \in DOMAIN list /\ c.pos <= Len(order)

NewList(c) ==
    CASE c.op = "Create" -> Put(list, c.uuid, None)
      [] c.op \in {"Revive", "UpdateParams"} -> Put(list, c.uuid, c.target)
      [] c.op = "Delete" -> Without(list, c.uuid)
      [] OTHER -> list
NewOrder(c) ==
    CASE c.op \in {"Create", "Revive"} -> Append(order, c.uuid)
      [] c.op = "Delete" -> RemoveAt(order, Index(order, c.uuid))
      [] c.op = "Reorder" -> Moved(order, c.uuid, c.pos)
      [] OTHER -> order

Info(u) == [kind |-> "UpdateActionInfo", uuid |-> u, data |-> list'[u], n |-> handled']
Deleted(u) == [kind |-> "UpdateActionDeleted", uuid |-> u, n |-> handled']
Order == [kind |-> "UpdateOrder", order |-> order', n |-> handled']
ActionList == [kind |-> "ReplyActionList", list |-> list', order |-> order', n |-> handled']

(* What process_command broadcasts, then external: actions changed, order. *)
(* Mutant: the order is left to the next list. *)
BroadcastsNoOrder(c) ==
    CASE c.op \in {"Create", "UpdateParams"} -> <<Info(c.uuid)>>
      [] c.op = "Revive" -> <<ActionList, Info(c.uuid)>>
      [] c.op = "Delete" -> <<Deleted(c.uuid), ActionList>>
      [] c.op = "Reorder" -> <<>>
      [] c.op = "ActionList" -> <<ActionList>>
Broadcasts(c) ==
    CASE c.op = "Create" -> <<Info(c.uuid), Order>>
      [] c.op = "Revive" -> <<ActionList, Info(c.uuid), Order>>
      [] c.op = "UpdateParams" -> <<Info(c.uuid)>>
      [] c.op = "Delete" -> <<Deleted(c.uuid), ActionList, Order>>
      [] c.op = "Reorder" -> <<Order>>
      [] c.op = "ActionList" -> <<ActionList>>

(* A revival that is refused is followed by the list all the same. *)
Process(c) ==
    /\ handled' = handled + 1
    /\ IF Accepted(c)
       THEN /\ list' = NewList(c) /\ order' = NewOrder(c)
            /\ down' = down \o Broadcasts(c)
       ELSE /\ UNCHANGED <<list, order>>
            /\ down' = IF c.op = "Revive" THEN Append(down, ActionList) ELSE down

HandleCommand ==
    /\ up # <<>> /\ up' = Tail(up)
    /\ Process(Head(up))
    /\ UNCHANGED <<made, mirrorVars, userVars, hidden, ops>>

Op == ops < MaxOps /\ ops' = ops + 1

(* Another client creates, deletes or moves an action, or undoes a delete. *)
OthersCommand ==
    /\ Op
    /\ \/ /\ made < MaxActs /\ made' = made + 1
          /\ Process([op |-> "Create", uuid |-> made'])
       \/ \E c \in [op : {"Delete"}, uuid : 1..made]
                   \cup [op : {"Revive"}, uuid : 1..made, target : {None}]
                   \cup [op : {"Reorder"}, uuid : 1..made, pos : {1}] :
             (c.op = "Revive" \/ Accepted(c)) /\ Process(c) /\ UNCHANGED made
    /\ UNCHANGED <<up, mirrorVars, userVars, hidden>>

-----------------------------------------------------------------------------
(* What the interface is told *)

Path(msg) ==
    IF \/ msg.kind = "ReplyActionList" /\ msg.list # <<>>
       \/ msg.kind = "UpdateActionInfo" /\ msg.uuid \in Long
    THEN "tcp" ELSE "udp"
IsNext(i) == \A j \in 1..(i - 1) : Path(down[j]) # Path(down[i])

Shown(o, as) == {u \in ToSet(o) : u \in DOMAIN as}

(* Controllers that go leave their editor in the sidebar, and the choice of *)
(* their target unfinished.                                                *)
Left(gone) ==
    /\ widget' = [widget EXCEPT !.live = @ /\ widget.uuid \notin gone]
    /\ hidden' = hidden \cup (gone \cap {widget.uuid})
    /\ interrupted' = interrupted \cup (gone \cap {sel.initiator})

(* update_store(None): a row that is gone is deselected without a message. *)
UpdateStore == row' = IF row \in Shown(shownOrder', opas') THEN row ELSE None

OnActionInfo(cs, u, data) ==
    Put(cs, u, IF u \in DOMAIN cs THEN [cs[u] EXCEPT !.target = data] ELSE NewCtl(data))

(* Mutant: what the list does not name stays. *)
OnActionListKeeping(msg) ==
    /\ opas' = [u \in DOMAIN opas \cup DOMAIN msg.list |->
                    IF u \in DOMAIN msg.list THEN msg.list[u] ELSE opas[u]]
    /\ ctls' = [u \in DOMAIN opas' |->
                    IF u \in DOMAIN msg.list THEN OnActionInfo(ctls, u, msg.list[u])[u] ELSE ctls[u]]
    /\ shownOrder' = msg.order
    /\ UNCHANGED <<widget, hidden, interrupted>>
OnActionList(msg) ==
    /\ opas' = msg.list
    /\ ctls' = [u \in DOMAIN msg.list |-> OnActionInfo(ctls, u, msg.list[u])[u]]
    /\ shownOrder' = msg.order
    /\ Left(DOMAIN ctls \ DOMAIN msg.list)

OnActionReply(msg) ==
    \/ /\ msg.kind = "UpdateActionInfo"
       /\ opas' = Put(opas, msg.uuid, msg.data)
       /\ ctls' = OnActionInfo(ctls, msg.uuid, msg.data)
       /\ UNCHANGED <<shownOrder, widget, hidden, interrupted>>
    \/ /\ msg.kind = "UpdateActionDeleted"
       /\ opas' = Without(opas, msg.uuid) /\ ctls' = Without(ctls, msg.uuid)
       /\ Left({msg.uuid} \cap DOMAIN ctls)
       /\ UNCHANGED shownOrder
    \/ /\ msg.kind = "UpdateOrder"
       /\ shownOrder' = msg.order
       /\ UNCHANGED <<opas, ctls, widget, hidden, interrupted>>
    \/ msg.kind = "ReplyActionList" /\ OnActionList(msg)

Newer(n) == IF n > newest THEN n ELSE newest
HandleReply ==
    \E i \in DOMAIN down :
        /\ IsNext(i)
        /\ down' = RemoveAt(down, i)
        /\ OnActionReply(down[i]) /\ UpdateStore
        /\ newest' = Newer(down[i].n)
        /\ missed' = IF down[i].n < newest THEN TRUE
                     ELSE missed /\ down[i].kind # "ReplyActionList"
        /\ UNCHANGED <<serverVars, up, sel, dnd, clipboard, ops, handled>>

LoseDatagram ==
    /\ Op
    /\ \E i \in DOMAIN down :
          /\ Path(down[i]) = "udp"
          /\ down' = RemoveAt(down, i)
          /\ newest' = Newer(down[i].n)
    /\ missed' = TRUE
    /\ UNCHANGED <<serverVars, up, opas, ctls, shownOrder, row, widget, userVars, hidden, handled>>

-----------------------------------------------------------------------------
(* Commands of the user *)

Send(c) == up' = Append(up, c)
Rest == UNCHANGED <<list, order, down, opas, shownOrder, newest, missed, handled>>
Gui == <<ctls, row, widget, sel, dnd, interrupted, hidden>>

CreateAction ==
    /\ Op /\ made < MaxActs /\ made' = made + 1
    /\ Send([op |-> "Create", uuid |-> made'])
    /\ Rest /\ UNCHANGED <<Gui, clipboard>>

Rebuild == Op /\ Send([op |-> "ActionList"]) /\ Rest /\ UNCHANGED <<made, Gui, clipboard>>

DeleteAction ==
    /\ Op /\ row # None
    /\ Send([op |-> "Delete", uuid |-> row])
    /\ Rest /\ UNCHANGED <<made, Gui, clipboard>>

Copied == <<[uuid |-> row, target |-> opas[row]]>>
CopyOrCut ==
    /\ Op /\ row # None /\ clipboard' = Copied
    /\ Send([op |-> "Delete", uuid |-> row]) \/ UNCHANGED up
    /\ Rest /\ UNCHANGED <<made, Gui>>

(* What was cut, and is gone, keeps its UUID. *)
Paste ==
    /\ Op /\ clipboard # <<>>
    /\ IF clipboard[1].uuid \in DOMAIN opas
       THEN /\ made < MaxActs /\ made' = made + 1
            /\ Send([op |-> "Revive", uuid |-> made', target |-> clipboard[1].target])
       ELSE /\ Send([op |-> "Revive", uuid |-> clipboard[1].uuid, target |-> clipboard[1].target])
            /\ UNCHANGED made
    /\ Rest /\ UNCHANGED <<Gui, clipboard>>

-----------------------------------------------------------------------------
(* Rows, editors and the choice of a target *)

(* Mutant: an editor in the sidebar stays there. *)
ShowEditorOnce(r, cs) ==
    /\ widget' = IF r = None THEN NoWidget
                 ELSE IF widget # NoWidget THEN widget ELSE [uuid |-> r, live |-> TRUE]
    /\ hidden' = hidden \ {r}
(* The end of SelectionChanged: the editor of the row goes to the sidebar,  *)
(* unless it is there, or is in its window.                                 *)
ShowEditor(r, cs) ==
    IF r # None /\ widget.uuid = r
    THEN UNCHANGED <<widget, hidden>>
    ELSE /\ widget' = IF r = None \/ cs[r].window THEN NoWidget ELSE [uuid |-> r, live |-> TRUE]
         /\ hidden' = hidden \ {r}

(* Mutant: the button of the fade goes on saying that it is choosing. *)
FinishSelectionQuietly(u, target, cs) ==
    IF u \in DOMAIN cs
    THEN /\ ctls' = [cs EXCEPT ![u].target = target]
         /\ Send([op |-> "UpdateParams", uuid |-> u, target |-> target])
    ELSE ctls' = cs /\ UNCHANGED up
FinishSelection(u, target, cs) ==
    IF u \in DOMAIN cs
    THEN /\ ctls' = [cs EXCEPT ![u].target = target, ![u].selecting = FALSE]
         /\ Send([op |-> "UpdateParams", uuid |-> u, target |-> target])
    ELSE ctls' = cs /\ UNCHANGED up

(* update_store(sel.prev) *)
Back(prev, r) == IF prev = None THEN r ELSE IF prev \in Shown(shownOrder, opas) THEN prev ELSE None

SelectionChanged(r, cs) ==
    IF r # None /\ sel # NoSel
    THEN /\ sel' = NoSel /\ row' = Back(sel.prev, r)
         /\ FinishSelection(sel.initiator, r, cs)
         /\ ShowEditor(row', cs)
    ELSE /\ row' = r /\ ctls' = cs
         /\ ShowEditor(r, cs)
         /\ UNCHANGED <<sel, up>>

SelectRow ==
    /\ Op
    /\ \E r \in Shown(shownOrder, opas) \ {row} : SelectionChanged(r, ctls)
    /\ Rest /\ UNCHANGED <<made, dnd, clipboard, interrupted>>

Visible(u) == (widget.uuid = u /\ widget.live) \/ ctls[u].window

Interrupted == IF sel = NoSel THEN {} ELSE {sel.initiator}
BeginSelection(u) ==
    /\ ctls' = [ctls EXCEPT ![u].selecting = TRUE]
    /\ sel' = [initiator |-> u, prev |-> row]
    /\ interrupted' = (interrupted \cup Interrupted) \ {u}
    /\ UNCHANGED <<row, widget, hidden>>

CancelSelection ==
    /\ sel' = NoSel
    /\ IF sel = NoSel
       THEN UNCHANGED <<ctls, row, widget, hidden>>
       ELSE /\ row' = Back(sel.prev, row)
            /\ ctls' = IF sel.initiator \in DOMAIN ctls
                       THEN [ctls EXCEPT ![sel.initiator].selecting = FALSE] ELSE ctls
            /\ ShowEditor(row', ctls)
    /\ UNCHANGED interrupted

(* The button with the name of the target, in an editor that can be seen. *)
ChooseTarget ==
    /\ Op
    /\ \E u \in DOMAIN ctls :
          Visible(u) /\ IF ctls[u].selecting THEN CancelSelection ELSE BeginSelection(u)
    /\ Rest /\ UNCHANGED <<made, up, dnd, clipboard>>

EditAction ==
    /\ Op /\ row # None
    /\ widget' = IF widget.uuid = row THEN NoWidget ELSE widget
    /\ ctls' = [ctls EXCEPT ![row].window = TRUE]
    /\ Rest /\ UNCHANGED <<made, up, row, userVars, hidden>>

(* The button of the window hides it; closing the window also shows the     *)
(* editor of the row, as if that had been selected.                         *)
CloseWindow ==
    /\ Op
    /\ \E u \in DOMAIN ctls :
          /\ ctls[u].window
          /\ LET cs == [ctls EXCEPT ![u].window = FALSE]
             IN \/ /\ ctls' = cs /\ hidden' = hidden \cup {u}
                   /\ UNCHANGED <<up, row, widget, sel>>
                \/ SelectionChanged(row, cs)
    /\ Rest /\ UNCHANGED <<made, dnd, clipboard, interrupted>>

-----------------------------------------------------------------------------
(* Dragging *)

OpenDndMenu ==
    /\ Op
    /\ \E from, to \in Shown(shownOrder, opas) : from # to /\ dnd' = <<from, to>>
    /\ Rest /\ UNCHANGED <<made, up, ctls, row, widget, sel, clipboard, interrupted, hidden>>

BeforePos(o, to) == IF Index(o, to) = 1 THEN 1 ELSE Index(o, to) - 1
AfterPos(o, to) == IF Index(o, to) + 1 >= Len(o) THEN Index(o, to) ELSE Index(o, to) + 1

Reorder(pos) ==
    /\ dnd # NoDnd /\ dnd' = NoDnd
    /\ IF ToSet(dnd) \subseteq ToSet(shownOrder)
       THEN Send([op |-> "Reorder", uuid |-> dnd[1], pos |-> pos])
       ELSE UNCHANGED up
    /\ Rest /\ UNCHANGED <<made, ctls, row, widget, sel, clipboard, interrupted, hidden, ops>>
DndReorderBefore == Reorder(BeforePos(shownOrder, dnd[2]))
DndReorderAfter == Reorder(AfterPos(shownOrder, dnd[2]))

DndRetarget ==
    /\ dnd # NoDnd /\ dnd' = NoDnd
    /\ FinishSelection(dnd[2], dnd[1], ctls)
    /\ interrupted' = interrupted \cup ({sel.initiator} \cap {dnd[2]})
    /\ Rest /\ UNCHANGED <<made, row, widget, sel, clipboard, hidden, ops>>

CloseDndMenu ==
    /\ dnd # NoDnd /\ dnd' = NoDnd
    /\ Rest /\ UNCHANGED <<made, up, ctls, row, widget, sel, clipboard, interrupted, hidden, ops>>

-----------------------------------------------------------------------------

Commands == CreateAction \/ Rebuild \/ DeleteAction \/ CopyOrCut \/ Paste
Selecting == SelectRow \/ ChooseTarget \/ EditAction \/ CloseWindow
Dragging == OpenDndMenu \/ DndReorderBefore \/ DndReorderAfter \/ DndRetarget \/ CloseDndMenu
Next ==
    \/ Commands \/ Selecting \/ Dragging
    \/ HandleCommand \/ OthersCommand \/ HandleReply \/ LoseDatagram

Spec == Init /\ [][Next]_vars

-----------------------------------------------------------------------------
(* Properties *)

TypeOK ==
    /\ ToSet(order) = DOMAIN list /\ Range(list) \subseteq Acts \cup {None}
    /\ made \in 0..MaxActs /\ up \in Seq(Command)
    /\ DOMAIN opas = DOMAIN ctls
    /\ \A u \in DOMAIN ctls :
          ctls[u] \in [target : Acts \cup {None}, selecting : BOOLEAN, window : BOOLEAN]
    /\ row \in Shown(shownOrder, opas) \cup {None}
    /\ widget \in [uuid : Acts \cup {None}, live : BOOLEAN]
    /\ sel \in [initiator : Acts \cup {None}, prev : Acts \cup {None}]
    /\ hidden \subseteq Acts /\ interrupted \subseteq Acts /\ missed \in BOOLEAN

Quiet == up = <<>> /\ down = <<>>

(* Once nothing is under way, the interface has the server's actions, their *)
(* order and their data, however the messages of one command changed places *)
(* (mod.rs:425) - unless a message of an earlier command came after one of  *)
(* a later, or none: then until the next full list.                         *)
MirrorExact ==
    Quiet /\ ~missed =>
        /\ opas = list /\ shownOrder = order
        /\ \A u \in DOMAIN ctls : ctls[u].target = list[u]

(* "Reorder the dropped action before this one" and "after this one" are     *)
(* what the menu says (ui.glade:45, 53): carried out in the list that the   *)
(* user sees, the command puts it directly before or after.  It does not:   *)
(* the position is one of the list with the action still in it (mod.rs:611, *)
(* 629), and the server inserts into the list without.                      *)
DropLands ==
    [][LET c == Last(up')
           o == Moved(shownOrder, c.uuid, c.pos)
       IN up' # up =>
            /\ DndReorderBefore => Index(o, dnd[1]) = Index(o, dnd[2]) - 1
            /\ DndReorderAfter => Index(o, dnd[1]) = Index(o, dnd[2]) + 1]_vars

(* The fade whose button says so is the one whose target is being chosen,   *)
(* unless another choice, a drop, or its deletion came between (mod.rs:545). *)
OneIsChoosing ==
    \A u \in DOMAIN ctls \ interrupted : ctls[u].selecting <=> sel.initiator = u

(* The selected row has its editor in the sidebar or in a window, whatever  *)
(* is deleted, moved and chosen meanwhile - unless the button of its window *)
(* was pressed, or it was deleted and came back (mod.rs:511).               *)
EditorIsShown ==
    row # None =>
        \/ widget = [uuid |-> row, live |-> TRUE] \/ ctls[row].window
        \/ row \in hidden
=============================================================================
