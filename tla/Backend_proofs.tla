--------------------------- MODULE Backend_proofs ---------------------------
(***************************************************************************)
(* Proofs about Backend, for any actions, parameters, metadata, commands   *)
(* and files, and every MaxUndos of at least 2.                            *)
(*                                                                         *)
(* What is proved of the list, the history of undos and the timeline holds *)
(* of them in memory and in each file that can be read, since a save and a *)
(* load copy all of them: it is stated once, of any four values.           *)
(***************************************************************************)
EXTENDS Backend, SequenceTheorems, TLAPS

-----------------------------------------------------------------------------
(* The inductive invariant *)

ListSound(l) == l \in List /\ OrderMatches(l)

(* The index of the vector is in range, the gutter is nowhere but at its   *)
(* start, and a change is about one action.                                *)
HistorySound(c, i) ==
    /\ c \in Histories /\ Len(c) \in 1..MaxUndos
    /\ i = NoIdx \/ i \in 1..(Len(c) - 1)
    /\ \A k \in 2..Len(c) : c[k] # Gutter
    /\ \A k \in 1..Len(c) : c[k] # Gutter => c[k].redo.uuid = c[k].undo.uuid

(* What a command does to the actions: it is about one of them, and what   *)
(* becomes of that one depends on nothing else.                            *)
Renewed(x, c) ==
    CASE c.op \in CreateOps -> IF c.typ \in Types /\ x = NoAction THEN NewAction(c) ELSE x
      [] c.op = "UpdateActionParams" ->
           IF x # NoAction /\ TypeOf[c.params] = TypeOf[x.params]
           THEN [x EXCEPT !.params = c.params] ELSE x
      [] c.op = "UpdateActionMetadata" ->
           IF x # NoAction THEN [x EXCEPT !.meta = c.meta] ELSE x
      [] c.op = "DeleteAction" -> NoAction
      [] c.op = "ReorderAction" -> x
After(a, c) == [a EXCEPT ![c.uuid] = Renewed(a[c.uuid], c)]

LastOf(c, i) == IF i = NoIdx THEN Len(c) ELSE i

(* Each change leads from one entry of the timeline to the next, and back, *)
(* and the actions are those of the entry at the index.                    *)
TimelineSound(l, c, i, t) ==
    /\ t \in Seq(Actions)
    /\ t # <<>> =>
          /\ Len(t) = Len(c)
          /\ l.actions = t[LastOf(c, i)]
          /\ \A k \in 2..Len(c) :
                After(t[k - 1], c[k].redo) = t[k] /\ After(t[k], c[k].undo) = t[k - 1]

Sound(l, c, i, t) == ListSound(l) /\ HistorySound(c, i) /\ TimelineSound(l, c, i, t)

UndoStates == [undo : Change \cup {Gutter}, redo : Change \cup {Gutter}]
Clients == [list : List, undo : UndoStates]
Savefiles == [list : List, changes : Histories, idx : (Nat \ {0}) \cup {NoIdx},
              timeline : Seq(Actions)]

MemoryOK == Sound(list, changes, idx, timeline) /\ panicked \in BOOLEAN
FilesOK ==
    /\ files \in [Paths -> Savefiles \cup {Unreadable}]
    /\ \A p \in Paths : files[p] # Unreadable =>
          Sound(files[p].list, files[p].changes, files[p].idx, files[p].timeline)
ClientOK == client \in Clients /\ ShownIsCurrent
IInv == MemoryOK /\ FilesOK /\ ClientOK

-----------------------------------------------------------------------------
(* Sequences with an element less or more, and with an element that cannot *)
(* be undone put in the place of those that were undone                    *)

LEMMA PartOf ==
    ASSUME NEW S, NEW s \in Seq(S), NEW m \in 1..(Len(s) + 1), NEW n \in 0..Len(s), m <= n + 1
    PROVE  /\ SubSeq(s, m, n) \in Seq(S)
           /\ Len(SubSeq(s, m, n)) = n - m + 1
           /\ \A k \in 1..(n - m + 1) : SubSeq(s, m, n)[k] = s[m + k - 1]
<1>1. Len(s) \in Nat
  BY LenProperties
<1>2. \A k \in m..n : s[k] \in S
  BY <1>1, ElementOfSeq
<1>3. m \in Int /\ n \in Int
  BY <1>1
<1>4. /\ SubSeq(s, m, n) \in Seq(S)
      /\ Len(SubSeq(s, m, n)) = IF m <= n THEN n - m + 1 ELSE 0
      /\ \A k \in 1..(n - m + 1) : SubSeq(s, m, n)[k] = s[m + k - 1]
  BY <1>2, <1>3, SubSeqProperties
<1>5. (IF m <= n THEN n - m + 1 ELSE 0) = n - m + 1
  BY <1>1
<1>. QED  BY <1>4, <1>5

LEMMA RemoveAtProperties ==
    ASSUME NEW S, NEW s \in Seq(S), NEW i \in 1..Len(s)
    PROVE  /\ RemoveAt(s, i) \in Seq(S)
           /\ Len(RemoveAt(s, i)) = Len(s) - 1
           /\ \A k \in 1..(Len(s) - 1) :
                 RemoveAt(s, i)[k] = IF k < i THEN s[k] ELSE s[k + 1]
<1>. DEFINE p == SubSeq(s, 1, i - 1)
            q == SubSeq(s, i + 1, Len(s))
<1>1. Len(s) \in Nat /\ i \in Nat
  BY LenProperties
<1>2. /\ p \in Seq(S) /\ Len(p) = i - 1 - 1 + 1
      /\ \A k \in 1..(i - 1 - 1 + 1) : p[k] = s[1 + k - 1]
  <2>1. 1 \in 1..(Len(s) + 1) /\ i - 1 \in 0..Len(s) /\ 1 <= i - 1 + 1
    BY <1>1
  <2>. QED  BY <2>1, PartOf
<1>3. /\ q \in Seq(S) /\ Len(q) = Len(s) - (i + 1) + 1
      /\ \A k \in 1..(Len(s) - (i + 1) + 1) : q[k] = s[i + 1 + k - 1]
  <2>1. i + 1 \in 1..(Len(s) + 1) /\ Len(s) \in 0..Len(s) /\ i + 1 <= Len(s) + 1
    BY <1>1
  <2>. QED  BY <2>1, PartOf
<1>. HIDE DEF p, q
<1>4. /\ p \o q \in Seq(S) /\ Len(p \o q) = Len(p) + Len(q)
      /\ \A k \in 1..(Len(p) + Len(q)) : (p \o q)[k] = IF k <= Len(p) THEN p[k] ELSE q[k - Len(p)]
  BY <1>2, <1>3, ConcatProperties
<1>5. RemoveAt(s, i) = p \o q
  BY DEF RemoveAt, p, q
<1>6. ASSUME NEW k \in 1..(Len(s) - 1)
      PROVE  (p \o q)[k] = IF k < i THEN s[k] ELSE s[k + 1]
  <2>1. CASE k < i
    BY <1>1, <1>2, <1>3, <1>4, <2>1
  <2>2. CASE ~(k < i)
    <3>1. k - Len(p) \in 1..(Len(s) - (i + 1) + 1) /\ ~(k <= Len(p))
          /\ i + 1 + (k - Len(p)) - 1 = k + 1 /\ k \in 1..(Len(p) + Len(q))
      BY <1>1, <1>2, <1>3, <2>2
    <3>. QED  BY <1>3, <1>4, <2>2, <3>1
  <2>. QED  BY <2>1, <2>2
<1>. QED  BY <1>1, <1>2, <1>3, <1>4, <1>5, <1>6

LEMMA InsertAtProperties ==
    ASSUME NEW S, NEW s \in Seq(S), NEW i \in 1..(Len(s) + 1), NEW e \in S
    PROVE  /\ InsertAt(s, i, e) \in Seq(S)
           /\ Len(InsertAt(s, i, e)) = Len(s) + 1
           /\ \A k \in 1..(Len(s) + 1) :
                 InsertAt(s, i, e)[k] = IF k < i THEN s[k] ELSE IF k = i THEN e ELSE s[k - 1]
<1>. DEFINE p == SubSeq(s, 1, i - 1)
            q == SubSeq(s, i, Len(s))
            pe == p \o <<e>>
<1>1. Len(s) \in Nat /\ i \in Nat
  BY LenProperties
<1>2. /\ p \in Seq(S) /\ Len(p) = i - 1 - 1 + 1
      /\ \A k \in 1..(i - 1 - 1 + 1) : p[k] = s[1 + k - 1]
  <2>1. 1 \in 1..(Len(s) + 1) /\ i - 1 \in 0..Len(s) /\ 1 <= i - 1 + 1
    BY <1>1
  <2>. QED  BY <2>1, PartOf
<1>3. /\ q \in Seq(S) /\ Len(q) = Len(s) - i + 1
      /\ \A k \in 1..(Len(s) - i + 1) : q[k] = s[i + k - 1]
  <2>1. Len(s) \in 0..Len(s) /\ i <= Len(s) + 1
    BY <1>1
  <2>. QED  BY <2>1, PartOf
<1>4. <<e>> \in Seq(S) /\ Len(<<e>>) = 1 /\ <<e>>[1] = e
  OBVIOUS
<1>5. InsertAt(s, i, e) = pe \o q
  BY DEF InsertAt
<1>. HIDE DEF p, q
<1>6. /\ pe \in Seq(S) /\ Len(pe) = Len(p) + 1
      /\ \A k \in 1..(Len(p) + 1) : pe[k] = IF k <= Len(p) THEN p[k] ELSE <<e>>[k - Len(p)]
  BY <1>2, <1>4, ConcatProperties
<1>. HIDE DEF pe
<1>7. /\ pe \o q \in Seq(S) /\ Len(pe \o q) = Len(pe) + Len(q)
      /\ \A k \in 1..(Len(pe) + Len(q)) :
            (pe \o q)[k] = IF k <= Len(pe) THEN pe[k] ELSE q[k - Len(pe)]
  BY <1>3, <1>6, ConcatProperties
<1>8. Len(p) = i - 1 /\ Len(pe) = i /\ Len(q) = Len(s) - i + 1
  BY <1>1, <1>2, <1>3, <1>6
<1>9. ASSUME NEW k \in 1..(Len(s) + 1)
      PROVE  (pe \o q)[k] = IF k < i THEN s[k] ELSE IF k = i THEN e ELSE s[k - 1]
  <2>1. CASE k < i
    <3>1. k <= Len(p) /\ k \in 1..(Len(p) + 1) /\ k <= Len(pe) /\ k \in 1..(Len(pe) + Len(q))
          /\ k \in 1..(i - 1 - 1 + 1) /\ 1 + k - 1 = k
      BY <1>1, <1>8, <2>1
    <3>. QED  BY <1>2, <1>6, <1>7, <2>1, <3>1
  <2>2. CASE k = i
    <3>1. ~(k <= Len(p)) /\ k \in 1..(Len(p) + 1) /\ k <= Len(pe)
          /\ k \in 1..(Len(pe) + Len(q)) /\ k - Len(p) = 1
      BY <1>1, <1>8, <2>2
    <3>. QED  BY <1>4, <1>6, <1>7, <2>2, <3>1
  <2>3. CASE k > i
    <3>1. ~(k <= Len(pe)) /\ k \in 1..(Len(pe) + Len(q)) /\ ~(k < i) /\ k # i
          /\ k - Len(pe) \in 1..(Len(s) - i + 1) /\ i + (k - Len(pe)) - 1 = k - 1
      BY <1>1, <1>8, <2>3
    <3>. QED  BY <1>3, <1>7, <3>1
  <2>4. k < i \/ k = i \/ k > i
    BY <1>1
  <2>. QED  BY <2>1, <2>2, <2>3, <2>4
<1>10. Len(pe) + Len(q) = Len(s) + 1
  BY <1>1, <1>8
<1>. QED  BY <1>5, <1>7, <1>9, <1>10

-----------------------------------------------------------------------------
(* An order of a set: each element once and nothing else *)

Orders(s, P) == ToSet(s) = P /\ IsInjective(s)

LEMMA OrdersByIndex ==
    ASSUME NEW s \in Seq(Uuids), NEW P \in SUBSET Uuids
    PROVE  Orders(s, P) <=>
             /\ \A k \in 1..Len(s) : s[k] \in P
             /\ \A u \in P : \E k \in 1..Len(s) : s[k] = u
             /\ \A j, k \in 1..Len(s) : s[j] = s[k] => j = k
<1>1. DOMAIN s = 1..Len(s)
  BY LenProperties
<1>2. ToSet(s) = P <=> (/\ \A k \in 1..Len(s) : s[k] \in P
                        /\ \A u \in P : \E k \in 1..Len(s) : s[k] = u)
  BY <1>1 DEF ToSet
<1>3. IsInjective(s) <=> \A j, k \in 1..Len(s) : s[j] = s[k] => j = k
  BY <1>1 DEF IsInjective
<1>. QED  BY <1>2, <1>3 DEF Orders

LEMMA AppendOrders ==
    ASSUME NEW s \in Seq(Uuids), NEW P \in SUBSET Uuids, Orders(s, P), NEW u \in Uuids \ P
    PROVE  Append(s, u) \in Seq(Uuids) /\ Orders(Append(s, u), P \cup {u})
<1>. DEFINE t == Append(s, u)
<1>1. /\ t \in Seq(Uuids) /\ Len(t) = Len(s) + 1 /\ t[Len(s) + 1] = u
      /\ \A k \in 1..Len(s) : t[k] = s[k]
  BY AppendProperties
<1>2. /\ \A k \in 1..Len(s) : s[k] \in P
      /\ \A v \in P : \E k \in 1..Len(s) : s[k] = v
      /\ \A j, k \in 1..Len(s) : s[j] = s[k] => j = k
  BY OrdersByIndex
<1>3. Len(s) \in Nat
  BY LenProperties
<1>. HIDE DEF t
<1>4. \A k \in 1..Len(t) : k = Len(s) + 1 \/ k \in 1..Len(s)
  BY <1>1, <1>3
<1>5. \A k \in 1..Len(t) : t[k] \in P \cup {u}
  BY <1>1, <1>2, <1>4
<1>6. \A v \in P \cup {u} : \E k \in 1..Len(t) : t[k] = v
  BY <1>1, <1>2, <1>3
<1>7. \A j, k \in 1..Len(t) : t[j] = t[k] => j = k
  BY <1>1, <1>2, <1>4
<1>8. P \cup {u} \in SUBSET Uuids
  OBVIOUS
<1>9. Orders(t, P \cup {u})
  BY <1>1, <1>5, <1>6, <1>7, <1>8, OrdersByIndex
<1>. QED  BY <1>1, <1>9 DEF t

LEMMA RemoveOrders ==
    ASSUME NEW s \in Seq(Uuids), NEW P \in SUBSET Uuids, Orders(s, P), NEW i \in 1..Len(s)
    PROVE  /\ RemoveAt(s, i) \in Seq(Uuids) /\ Len(RemoveAt(s, i)) = Len(s) - 1
           /\ Orders(RemoveAt(s, i), P \ {s[i]})
<1>. DEFINE t == RemoveAt(s, i)
<1>1. /\ t \in Seq(Uuids) /\ Len(t) = Len(s) - 1
      /\ \A k \in 1..(Len(s) - 1) : t[k] = IF k < i THEN s[k] ELSE s[k + 1]
  BY RemoveAtProperties
<1>2. /\ \A k \in 1..Len(s) : s[k] \in P
      /\ \A v \in P : \E k \in 1..Len(s) : s[k] = v
      /\ \A j, k \in 1..Len(s) : s[j] = s[k] => j = k
  BY OrdersByIndex
<1>3. Len(s) \in Nat
  BY LenProperties
<1>. HIDE DEF t
<1>. DEFINE From(k) == IF k < i THEN k ELSE k + 1
<1>4. \A k \in 1..Len(t) : From(k) \in 1..Len(s) /\ From(k) # i /\ t[k] = s[From(k)]
  BY <1>1, <1>3
<1>5. \A k \in 1..Len(t) : t[k] \in P \ {s[i]}
  BY <1>2, <1>4
<1>6. ASSUME NEW v \in P \ {s[i]} PROVE \E k \in 1..Len(t) : t[k] = v
  <2>1. PICK k \in 1..Len(s) : s[k] = v
    BY <1>2
  <2>2. k # i
    BY <2>1
  <2>3. CASE k < i
    BY <1>1, <1>3, <2>1, <2>3
  <2>4. CASE k > i
    <3>1. k - 1 \in 1..Len(t) /\ ~(k - 1 < i) /\ k - 1 + 1 = k
      BY <1>1, <1>3, <2>4
    <3>. QED  BY <1>1, <2>1, <3>1
  <2>. QED  BY <1>3, <2>2, <2>3, <2>4
<1>7. ASSUME NEW j \in 1..Len(t), NEW k \in 1..Len(t), t[j] = t[k] PROVE j = k
  <2>1. From(j) = From(k)
    <3>. HIDE DEF From
    <3>1. From(j) \in 1..Len(s) /\ From(k) \in 1..Len(s) /\ s[From(j)] = s[From(k)]
      BY <1>4, <1>7
    <3>. QED  BY <1>2, <3>1
  <2>. QED  BY <1>1, <1>3, <2>1
<1>8. P \ {s[i]} \in SUBSET Uuids
  OBVIOUS
<1>9. Orders(t, P \ {s[i]})
  BY <1>1, <1>5, <1>6, <1>7, <1>8, OrdersByIndex
<1>. QED  BY <1>1, <1>9 DEF t

LEMMA InsertOrders ==
    ASSUME NEW s \in Seq(Uuids), NEW P \in SUBSET Uuids, Orders(s, P),
           NEW u \in Uuids \ P, NEW i \in 1..(Len(s) + 1)
    PROVE  InsertAt(s, i, u) \in Seq(Uuids) /\ Orders(InsertAt(s, i, u), P \cup {u})
<1>. DEFINE t == InsertAt(s, i, u)
<1>1. /\ t \in Seq(Uuids) /\ Len(t) = Len(s) + 1
      /\ \A k \in 1..(Len(s) + 1) :
            t[k] = IF k < i THEN s[k] ELSE IF k = i THEN u ELSE s[k - 1]
  BY InsertAtProperties
<1>2. /\ \A k \in 1..Len(s) : s[k] \in P
      /\ \A v \in P : \E k \in 1..Len(s) : s[k] = v
      /\ \A j, k \in 1..Len(s) : s[j] = s[k] => j = k
  BY OrdersByIndex
<1>3. Len(s) \in Nat
  BY LenProperties
<1>. HIDE DEF t
<1>. DEFINE From(k) == IF k < i THEN k ELSE k - 1
<1>4. \A k \in 1..Len(t) : k # i => From(k) \in 1..Len(s) /\ t[k] = s[From(k)]
  BY <1>1, <1>3
<1>5. i \in 1..Len(t) /\ t[i] = u
  BY <1>1, <1>3
<1>6. \A k \in 1..Len(t) : t[k] \in P \cup {u}
  BY <1>2, <1>4, <1>5
<1>7. ASSUME NEW v \in P PROVE \E k \in 1..Len(t) : t[k] = v
  <2>1. PICK k \in 1..Len(s) : s[k] = v
    BY <1>2
  <2>2. CASE k < i
    BY <1>1, <1>3, <2>1, <2>2
  <2>3. CASE ~(k < i)
    <3>1. k + 1 \in 1..Len(t) /\ ~(k + 1 < i) /\ k + 1 # i /\ k + 1 - 1 = k
      BY <1>1, <1>3, <2>3
    <3>2. t[k + 1] = s[k]
      BY <1>1, <3>1
    <3>. QED  BY <2>1, <3>1, <3>2
  <2>. QED  BY <2>2, <2>3
<1>8. ASSUME NEW j \in 1..Len(t), NEW k \in 1..Len(t), t[j] = t[k] PROVE j = k
  <2>1. CASE j = i
    <3>1. k = i
      BY <1>2, <1>4, <1>5, <1>8, <2>1
    <3>. QED  BY <2>1, <3>1
  <2>2. CASE k = i
    <3>1. j = i
      BY <1>2, <1>4, <1>5, <1>8, <2>2
    <3>. QED  BY <2>2, <3>1
  <2>3. CASE j # i /\ k # i
    <3>1. From(j) = From(k)
      <4>. HIDE DEF From
      <4>1. /\ From(j) \in 1..Len(s) /\ From(k) \in 1..Len(s)
            /\ s[From(j)] = s[From(k)]
        BY <1>4, <1>8, <2>3
      <4>. QED  BY <1>2, <4>1
    <3>. QED  BY <1>1, <1>3, <2>3, <3>1
  <2>. QED  BY <2>1, <2>2, <2>3
<1>9. P \cup {u} \in SUBSET Uuids
  OBVIOUS
<1>10. Orders(t, P \cup {u})
  BY <1>1, <1>5, <1>6, <1>7, <1>8, <1>9, OrdersByIndex
<1>. QED  BY <1>1, <1>10 DEF t

(* A list whose order names its actions, as an order of a set. *)
Acting(a) == {u \in Uuids : a[u] # NoAction}

LEMMA SoundIsOrder ==
    ASSUME NEW l
    PROVE  ListSound(l) <=> l \in List /\ Orders(l.order, Acting(l.actions))
BY DEF ListSound, OrderMatches, Orders, Acting, Exists

-----------------------------------------------------------------------------
(* What a command does *)

UpdateOps == {"UpdateActionParams", "UpdateActionMetadata"}

LEMMA CommandFields ==
    ASSUME NEW c \in Command
    PROVE  /\ c.uuid \in Uuids
           /\ c.op \in CreateOps \cup UpdateOps \cup {"DeleteAction", "ReorderAction"}
           /\ c.op \in CreateOps => c.typ \in TypeNames
           /\ c.op \in CreateOps \ {"CreateActionWithUuid"} => c.params \in Params
           /\ c.op = "ReviveAction" => c.meta \in Metas
           /\ c.op = "UpdateActionParams" => c.params \in Params
           /\ c.op = "UpdateActionMetadata" => c.meta \in Metas
           /\ c.op = "ReorderAction" => c.pos \in Nat \ {0}
BY DEF Command, CreateOps, UpdateOps

LEMMA RenewedType ==
    ASSUME NEW x \in Data \cup {NoAction}, NEW c \in Command
    PROVE  Renewed(x, c) \in Data \cup {NoAction}
<1>. USE CommandFields
<1>1. CASE c.op \in CreateOps
  <2>1. ASSUME c.typ \in Types PROVE NewAction(c) \in Data
    BY <1>1, <2>1, BackendAssumption DEF NewAction, Data, CreateOps
  <2>. QED  BY <1>1, <2>1 DEF Renewed, CreateOps
<1>2. CASE c.op = "UpdateActionParams"
  BY <1>2 DEF Renewed, Data, CreateOps
<1>3. CASE c.op = "UpdateActionMetadata"
  BY <1>3 DEF Renewed, Data, CreateOps
<1>4. CASE c.op \in {"DeleteAction", "ReorderAction"}
  BY <1>4 DEF Renewed, CreateOps
<1>. QED  BY <1>1, <1>2, <1>3, <1>4 DEF UpdateOps

LEMMA AfterType ==
    ASSUME NEW a \in Actions, NEW c \in Command
    PROVE  After(a, c) \in Actions
<1>1. a[c.uuid] \in Data \cup {NoAction}
  BY CommandFields DEF Actions
<1>. QED  BY <1>1, RenewedType DEF After, Actions

(* The actions that an action made, kept or taken away leaves. *)
LEMMA ActingAfter ==
    ASSUME NEW a \in Actions, NEW c \in Command
    PROVE  Acting(After(a, c)) = IF Renewed(a[c.uuid], c) # NoAction
                                 THEN Acting(a) \cup {c.uuid} ELSE Acting(a) \ {c.uuid}
<1>1. c.uuid \in Uuids
  BY CommandFields
<1>2. \A u \in Uuids : After(a, c)[u] = IF u = c.uuid THEN Renewed(a[c.uuid], c) ELSE a[u]
  BY <1>1 DEF After, Actions
<1>. QED  BY <1>1, <1>2 DEF Acting

(* A command changes what it marks as changed, which is at most the action *)
(* it is about, and the order only if it says so.                          *)
Faithful(l, c, r) ==
    /\ ListSound(r.list)
    /\ r.list.actions = After(l.actions, c)
    /\ r.marked \subseteq {c.uuid} /\ (c.uuid \in r.marked \/ r.list.actions = l.actions)
    /\ r.reordered \/ r.list.order = l.order

LEMMA UnchangedFaithful ==
    ASSUME NEW l, ListSound(l), NEW c \in Command, After(l.actions, c) = l.actions
    PROVE  Faithful(l, c, Unchanged(l))
BY DEF Faithful, Unchanged

LEMMA PositionFacts ==
    ASSUME NEW l, ListSound(l), NEW u \in Uuids
    PROVE  /\ PositionOf(l, u) # 0 <=> Exists(l, u)
           /\ Contains(l.order, u) <=> Exists(l, u)
           /\ Exists(l, u) => PositionOf(l, u) \in 1..Len(l.order) /\ l.order[PositionOf(l, u)] = u
<1>. DEFINE s == l.order
<1>1. /\ s \in Seq(Uuids) /\ Acting(l.actions) \in SUBSET Uuids
      /\ Orders(s, Acting(l.actions))
  BY SoundIsOrder DEF List, Acting
<1>2. DOMAIN s = 1..Len(s)
  BY <1>1, LenProperties
<1>3. /\ \A k \in 1..Len(s) : s[k] \in Acting(l.actions)
      /\ \A v \in Acting(l.actions) : \E k \in 1..Len(s) : s[k] = v
  BY <1>1, OrdersByIndex
<1>4. Contains(s, u) <=> u \in Acting(l.actions)
  BY <1>3 DEF Contains
<1>5. u \in Acting(l.actions) <=> Exists(l, u)
  BY DEF Acting, Exists
<1>6. Contains(s, u) => \E k \in DOMAIN s : s[k] = u
  BY <1>2 DEF Contains
<1>7. Contains(s, u) => PositionOf(l, u) \in 1..Len(s) /\ s[PositionOf(l, u)] = u
  BY <1>2, <1>6 DEF PositionOf
<1>8. 0 \notin 1..Len(s)
  OBVIOUS
<1>9. ~Contains(s, u) => PositionOf(l, u) = 0
  BY DEF PositionOf
<1>. QED  BY <1>4, <1>5, <1>7, <1>8, <1>9

LEMMA CreateFaithful ==
    ASSUME NEW l, ListSound(l), NEW c \in Command, c.op \in CreateOps
    PROVE  Faithful(l, c, Create(l, c))
<1>1. l \in List /\ l.actions \in Actions /\ l.order \in Seq(Uuids) /\ c.uuid \in Uuids
      /\ Orders(l.order, Acting(l.actions)) /\ Acting(l.actions) \in SUBSET Uuids
  BY SoundIsOrder, CommandFields DEF List, Acting
<1>2. CASE CanCreate(l, c)
  <2>1. /\ c.typ \in Types /\ l.actions[c.uuid] = NoAction /\ c.uuid \in Uuids \ Acting(l.actions)
    BY <1>1, <1>2 DEF CanCreate, Exists, Acting
  <2>2. NewAction(c) \in Data /\ NewAction(c) # NoAction
    BY <2>1, CommandFields, BackendAssumption DEF NewAction, Data, CreateOps
  <2>3. Renewed(l.actions[c.uuid], c) = NewAction(c)
    BY <2>1 DEF Renewed, CreateOps
  <2>4. Create(l, c) =
          [list |-> [actions |-> After(l.actions, c), order |-> Append(l.order, c.uuid)],
           marked |-> {c.uuid}, reordered |-> TRUE, full |-> c.op = "ReviveAction"]
    BY <1>2, <2>3 DEF Create, After, CreateMarks
  <2>5. After(l.actions, c) \in Actions /\ Acting(After(l.actions, c)) = Acting(l.actions) \cup {c.uuid}
    BY <1>1, <2>2, <2>3, AfterType, ActingAfter
  <2>6. /\ Append(l.order, c.uuid) \in Seq(Uuids)
        /\ Orders(Append(l.order, c.uuid), Acting(l.actions) \cup {c.uuid})
    BY <1>1, <2>1, AppendOrders
  <2>7. /\ Create(l, c).list \in List /\ Create(l, c).list.actions = After(l.actions, c)
        /\ Create(l, c).list.order = Append(l.order, c.uuid)
    BY <2>4, <2>5, <2>6 DEF List
  <2>8. ListSound(Create(l, c).list)
    BY <2>5, <2>6, <2>7, SoundIsOrder
  <2>. QED  BY <2>4, <2>7, <2>8 DEF Faithful
<1>3. CASE ~CanCreate(l, c)
  <2>1. Renewed(l.actions[c.uuid], c) = l.actions[c.uuid]
    BY <1>3 DEF CanCreate, Exists, Renewed, CreateOps
  <2>2. After(l.actions, c) = l.actions
    BY <1>1, <2>1 DEF After, Actions
  <2>3. Create(l, c) = [list |-> l, marked |-> {}, reordered |-> FALSE, full |-> c.op = "ReviveAction"]
    BY <1>3 DEF Create, Unchanged
  <2>. QED  BY <2>2, <2>3 DEF Faithful
<1>. QED  BY <1>2, <1>3

LEMMA SetFaithful ==
    ASSUME NEW l, ListSound(l), NEW c \in Command, c.op \in UpdateOps
    PROVE  Faithful(l, c, Effect(l, c))
<1>1. l \in List /\ l.actions \in Actions /\ l.order \in Seq(Uuids) /\ c.uuid \in Uuids
      /\ Orders(l.order, Acting(l.actions))
  BY SoundIsOrder, CommandFields DEF List
<1>. DEFINE x == l.actions[c.uuid]
<1>2. x \in Data \cup {NoAction} /\ NoAction \notin Data
  BY <1>1, BackendAssumption DEF Actions
<1>3. /\ Effect(l, c).list = [l EXCEPT !.actions = After(l.actions, c)]
      /\ Effect(l, c).marked = {c.uuid}
  <2>1. CASE c.op = "UpdateActionParams"
    BY <1>1, <2>1 DEF Effect, SetParams, Unchanged, After, Renewed, Accepts, Exists, CreateOps, List
  <2>2. CASE c.op = "UpdateActionMetadata"
    BY <1>1, <2>2 DEF Effect, SetMeta, Unchanged, After, Renewed, Exists, CreateOps, List
  <2>. QED  BY <2>1, <2>2 DEF UpdateOps
<1>4. Renewed(x, c) = NoAction <=> x = NoAction
  BY <1>2, CommandFields DEF Renewed, Data, CreateOps, UpdateOps
<1>5. Acting(After(l.actions, c)) = Acting(l.actions) /\ After(l.actions, c) \in Actions
  BY <1>1, <1>4, AfterType, ActingAfter DEF Acting
<1>6. /\ Effect(l, c).list.order = l.order /\ Effect(l, c).list.actions = After(l.actions, c)
      /\ Effect(l, c).list \in List
  BY <1>1, <1>3, <1>5 DEF List
<1>7. ListSound(Effect(l, c).list)
  BY <1>1, <1>5, <1>6, SoundIsOrder
<1>. QED  BY <1>3, <1>6, <1>7 DEF Faithful

LEMMA DeleteFaithful ==
    ASSUME NEW l, ListSound(l), NEW c \in Command, c.op = "DeleteAction"
    PROVE  Faithful(l, c, Delete(l, c))
<1>1. l \in List /\ l.actions \in Actions /\ l.order \in Seq(Uuids) /\ c.uuid \in Uuids
      /\ Orders(l.order, Acting(l.actions)) /\ Acting(l.actions) \in SUBSET Uuids
  BY SoundIsOrder, CommandFields DEF List, Acting
<1>2. Renewed(l.actions[c.uuid], c) = NoAction
  BY DEF Renewed, CreateOps
<1>3. CASE Exists(l, c.uuid)
  <2>. DEFINE i == PositionOf(l, c.uuid)
  <2>1. i \in 1..Len(l.order) /\ l.order[i] = c.uuid /\ Contains(l.order, c.uuid)
    BY <1>1, <1>3, PositionFacts
  <2>2. Delete(l, c) =
          [list |-> [actions |-> After(l.actions, c), order |-> RemoveAt(l.order, i)],
           marked |-> {c.uuid}, reordered |-> TRUE, full |-> TRUE]
    BY <1>2, <1>3, <2>1 DEF Delete, After, OrderWithout
  <2>3. /\ After(l.actions, c) \in Actions
        /\ Acting(After(l.actions, c)) = Acting(l.actions) \ {c.uuid}
    BY <1>1, <1>2, AfterType, ActingAfter
  <2>4. /\ RemoveAt(l.order, i) \in Seq(Uuids)
        /\ Orders(RemoveAt(l.order, i), Acting(l.actions) \ {c.uuid})
    BY <1>1, <2>1, RemoveOrders
  <2>5. /\ Delete(l, c).list \in List /\ Delete(l, c).list.actions = After(l.actions, c)
        /\ Delete(l, c).list.order = RemoveAt(l.order, i)
    BY <2>2, <2>3, <2>4 DEF List
  <2>6. ListSound(Delete(l, c).list)
    BY <2>3, <2>4, <2>5, SoundIsOrder
  <2>. QED  BY <2>2, <2>5, <2>6 DEF Faithful
<1>4. CASE ~Exists(l, c.uuid)
  <2>1. After(l.actions, c) = l.actions
    BY <1>1, <1>2, <1>4 DEF After, Actions, Exists
  <2>. QED  BY <1>4, <2>1, UnchangedFaithful DEF Delete
<1>. QED  BY <1>3, <1>4

LEMMA ReorderFaithful ==
    ASSUME NEW l, ListSound(l), NEW c \in Command, c.op = "ReorderAction"
    PROVE  Faithful(l, c, Reorder(l, c))
<1>1. l \in List /\ l.actions \in Actions /\ l.order \in Seq(Uuids) /\ c.uuid \in Uuids
      /\ Orders(l.order, Acting(l.actions)) /\ Acting(l.actions) \in SUBSET Uuids
  BY SoundIsOrder, CommandFields DEF List, Acting
<1>2. Renewed(l.actions[c.uuid], c) = l.actions[c.uuid]
  BY DEF Renewed, CreateOps
<1>3. After(l.actions, c) = l.actions
  BY <1>1, <1>2 DEF After, Actions
<1>4. CASE PositionOf(l, c.uuid) # 0 /\ c.pos <= Len(l.order)
  <2>. DEFINE i == PositionOf(l, c.uuid)
              s == RemoveAt(l.order, i)
              t == InsertAt(s, c.pos, c.uuid)
  <2>1. i \in 1..Len(l.order) /\ l.order[i] = c.uuid /\ c.uuid \in Acting(l.actions)
    BY <1>1, <1>4, PositionFacts DEF Acting, Exists
  <2>2. /\ s \in Seq(Uuids) /\ Len(s) = Len(l.order) - 1
        /\ Orders(s, Acting(l.actions) \ {c.uuid})
    BY <1>1, <2>1, RemoveOrders
  <2>3. c.pos \in 1..(Len(s) + 1)
    <3>1. Len(l.order) \in Nat /\ c.pos \in Nat \ {0}
      BY <1>1, LenProperties, CommandFields
    <3>. QED  BY <1>4, <2>2, <3>1
  <2>. HIDE DEF s
  <2>4. /\ Acting(l.actions) \ {c.uuid} \in SUBSET Uuids
        /\ c.uuid \in Uuids \ (Acting(l.actions) \ {c.uuid})
        /\ (Acting(l.actions) \ {c.uuid}) \cup {c.uuid} = Acting(l.actions)
    BY <1>1, <2>1
  <2>5. t \in Seq(Uuids) /\ Orders(t, (Acting(l.actions) \ {c.uuid}) \cup {c.uuid})
    BY <2>2, <2>3, <2>4, InsertOrders
  <2>6. Orders(t, Acting(l.actions))
    BY <2>4, <2>5
  <2>. HIDE DEF t
  <2>7. /\ Reorder(l, c).list = [l EXCEPT !.order = t]
        /\ Reorder(l, c).marked = {} /\ Reorder(l, c).reordered = TRUE
    BY <1>4 DEF Reorder, Unchanged, s, t
  <2>8. /\ Reorder(l, c).list.order = t /\ Reorder(l, c).list.actions = l.actions
        /\ Reorder(l, c).list \in List
    BY <1>1, <2>5, <2>7 DEF List
  <2>9. ListSound(Reorder(l, c).list)
    BY <2>6, <2>8, SoundIsOrder
  <2>. QED  BY <1>3, <2>7, <2>8, <2>9 DEF Faithful
<1>5. CASE ~(PositionOf(l, c.uuid) # 0 /\ c.pos <= Len(l.order))
  BY <1>3, <1>5, UnchangedFaithful DEF Reorder
<1>. QED  BY <1>4, <1>5

LEMMA EffectFaithful ==
    ASSUME NEW l, ListSound(l), NEW c \in Command
    PROVE  Faithful(l, c, Effect(l, c))
<1>1. CASE c.op \in CreateOps
  BY <1>1, CreateFaithful DEF Effect, CreateOps
<1>2. CASE c.op \in UpdateOps
  BY <1>2, SetFaithful
<1>3. CASE c.op = "DeleteAction"
  <2>1. Effect(l, c) = Delete(l, c)
    BY <1>3 DEF Effect, CreateOps
  <2>. QED  BY <1>3, <2>1, DeleteFaithful
<1>4. CASE c.op = "ReorderAction"
  <2>1. Effect(l, c) = Reorder(l, c)
    BY <1>4 DEF Effect, CreateOps
  <2>. QED  BY <1>4, <2>1, ReorderFaithful
<1>. QED  BY <1>1, <1>2, <1>3, <1>4, CommandFields

-----------------------------------------------------------------------------
(* The command that undoes another *)

LEMMA UndoesFacts ==
    ASSUME NEW l, ListSound(l), NEW c \in Command, NEW d \in Undoes(l, c)
    PROVE  /\ d \in Command /\ d.uuid = c.uuid
           /\ c.op \in CreateOps => d.op = "DeleteAction"
           /\ c.op = "ReorderAction" => d.op = "ReorderAction"
           /\ c.op \in UpdateOps \cup {"DeleteAction"} =>
                 /\ Old(l, c) \in Data
                 /\ c.op = "UpdateActionParams" =>
                       d.op = "UpdateActionParams" /\ d.params = Old(l, c).params
                 /\ c.op = "UpdateActionMetadata" =>
                       d.op = "UpdateActionMetadata" /\ d.meta = Old(l, c).meta
                 /\ c.op = "DeleteAction" =>
                       /\ d.op = "ReviveAction" /\ d.typ = TypeOf[Old(l, c).params]
                       /\ d.params = Old(l, c).params /\ d.meta = Old(l, c).meta
<1>1. l \in List /\ l.actions \in Actions /\ l.order \in Seq(Uuids) /\ c.uuid \in Uuids
  BY SoundIsOrder, CommandFields DEF List
<1>2. Exists(l, c.uuid) => Old(l, c) \in Data
  BY <1>1 DEF Exists, Old, Actions
<1>3. CASE c.op \in CreateOps
  <2>1. d = [op |-> "DeleteAction", uuid |-> c.uuid]
    BY <1>3 DEF Undoes, CreateOps
  <2>. QED  BY <1>1, <1>3, <2>1 DEF Command, CreateOps, UpdateOps
<1>4. CASE c.op = "ReorderAction"
  <2>1. PositionOf(l, c.uuid) # 0 /\ d = MoveBack(l, c)
    BY <1>4 DEF Undoes, CreateOps
  <2>2. PositionOf(l, c.uuid) \in Nat \ {0}
    BY <1>1, <2>1, PositionFacts
  <2>3. d = [op |-> "ReorderAction", uuid |-> c.uuid, pos |-> PositionOf(l, c.uuid)]
    BY <2>1 DEF MoveBack
  <2>. QED  BY <1>1, <1>4, <2>2, <2>3 DEF Command, CreateOps, UpdateOps
<1>5. CASE c.op = "UpdateActionParams"
  <2>1. /\ Exists(l, c.uuid)
        /\ d = [op |-> "UpdateActionParams", uuid |-> c.uuid, params |-> Old(l, c).params]
    BY <1>5 DEF Undoes, CreateOps
  <2>. QED  BY <1>1, <1>2, <1>5, <2>1 DEF Command, CreateOps, UpdateOps, Data
<1>6. CASE c.op = "UpdateActionMetadata"
  <2>1. /\ Exists(l, c.uuid)
        /\ d = [op |-> "UpdateActionMetadata", uuid |-> c.uuid, meta |-> Old(l, c).meta]
    BY <1>6 DEF Undoes, CreateOps
  <2>. QED  BY <1>1, <1>2, <1>6, <2>1 DEF Command, CreateOps, UpdateOps, Data
<1>7. CASE c.op = "DeleteAction"
  <2>1. Exists(l, c.uuid) /\ d = ReviveDeleted(l, c)
    BY <1>7 DEF Undoes, CreateOps
  <2>2. d = [op |-> "ReviveAction", uuid |-> c.uuid, typ |-> TypeOf[Old(l, c).params],
             params |-> Old(l, c).params, meta |-> Old(l, c).meta]
    BY <2>1 DEF ReviveDeleted
  <2>3. /\ Old(l, c).params \in Params /\ Old(l, c).meta \in Metas
        /\ TypeOf[Old(l, c).params] \in TypeNames
    BY <1>2, <2>1, BackendAssumption DEF Data, TypeNames
  <2>4. d \in Command
    BY <1>1, <2>2, <2>3 DEF Command
  <2>. QED  BY <1>2, <1>7, <2>1, <2>2, <2>4 DEF CreateOps, UpdateOps
<1>. QED  BY <1>3, <1>4, <1>5, <1>6, <1>7, CommandFields DEF UpdateOps

(* Whatever became of a command, unless it was to create what exists, the  *)
(* command that undoes it gives the action back as it was.                 *)
LEMMA UndoesExactly ==
    ASSUME NEW l, ListSound(l), NEW c \in Command, NEW d \in Undoes(l, c),
           ~(c.op \in CreateOps /\ Exists(l, c.uuid))
    PROVE  After(After(l.actions, c), d) = l.actions
<1>. DEFINE x == l.actions[c.uuid]
<1>1. /\ l.actions \in Actions /\ c.uuid \in Uuids /\ d \in Command /\ d.uuid = c.uuid
      /\ x \in Data \cup {NoAction} /\ NoAction \notin Data
  BY SoundIsOrder, CommandFields, UndoesFacts, BackendAssumption DEF List, Actions
<1>2. Renewed(Renewed(x, c), d) = x
  <2>1. CASE c.op \in CreateOps
    BY <2>1, UndoesFacts DEF Exists, Renewed, CreateOps
  <2>2. CASE c.op = "ReorderAction"
    BY <2>2, UndoesFacts DEF Renewed, CreateOps
  <2>3. CASE c.op \in UpdateOps \cup {"DeleteAction"}
    <3>1. x \in Data /\ x = Old(l, c) /\ x.params \in Params /\ x # NoAction
      BY <1>1, <2>3, UndoesFacts DEF Old, Data
    <3>2. CASE c.op = "UpdateActionParams"
      <4>1. d.op = "UpdateActionParams" /\ d.params = x.params
        BY <2>3, <3>1, <3>2, UndoesFacts
      <4>2. CASE TypeOf[c.params] = TypeOf[x.params]
        <5>1. Renewed(x, c) = [x EXCEPT !.params = c.params] /\ c.params \in Params
          BY <3>1, <3>2, <4>2, CommandFields DEF Renewed, CreateOps
        <5>2. Renewed(x, c) \in Data /\ Renewed(x, c).params = c.params
          BY <3>1, <5>1 DEF Data
        <5>3. Renewed(Renewed(x, c), d) = [Renewed(x, c) EXCEPT !.params = x.params]
          BY <1>1, <4>1, <4>2, <5>2 DEF Renewed, CreateOps
        <5>. QED  BY <3>1, <5>1, <5>3 DEF Data
      <4>3. CASE TypeOf[c.params] # TypeOf[x.params]
        <5>1. Renewed(x, c) = x
          BY <3>2, <4>3 DEF Renewed, CreateOps
        <5>. QED  BY <3>1, <4>1, <5>1 DEF Renewed, CreateOps, Data
      <4>. QED  BY <4>2, <4>3
    <3>3. CASE c.op = "UpdateActionMetadata"
      <4>1. d.op = "UpdateActionMetadata" /\ d.meta = x.meta
        BY <2>3, <3>1, <3>3, UndoesFacts
      <4>2. Renewed(x, c) = [x EXCEPT !.meta = c.meta] /\ c.meta \in Metas
        BY <3>1, <3>3, CommandFields DEF Renewed, CreateOps
      <4>3. Renewed(x, c) \in Data
        BY <3>1, <4>2 DEF Data
      <4>4. Renewed(Renewed(x, c), d) = [Renewed(x, c) EXCEPT !.meta = x.meta]
        BY <1>1, <4>1, <4>3 DEF Renewed, CreateOps
      <4>. QED  BY <3>1, <4>2, <4>4 DEF Data
    <3>4. CASE c.op = "DeleteAction"
      <4>1. /\ d.op = "ReviveAction" /\ d.typ = TypeOf[x.params] /\ d.params = x.params
            /\ d.meta = x.meta
        BY <2>3, <3>1, <3>4, UndoesFacts
      <4>2. Renewed(x, c) = NoAction /\ d.typ \in Types
        BY <3>1, <3>4, <4>1, BackendAssumption DEF Renewed, CreateOps
      <4>3. Renewed(NoAction, d) = NewAction(d)
        BY <4>1, <4>2 DEF Renewed, CreateOps
      <4>4. NewAction(d) = [params |-> x.params, meta |-> x.meta]
        BY <4>1 DEF NewAction
      <4>. QED  BY <3>1, <4>2, <4>3, <4>4 DEF Data
    <3>. QED  BY <2>3, <3>2, <3>3, <3>4 DEF UpdateOps
  <2>. QED  BY <2>1, <2>2, <2>3, CommandFields
<1>3. After(After(l.actions, c), d) = [l.actions EXCEPT ![c.uuid] = Renewed(Renewed(x, c), d)]
  BY <1>1 DEF After, Actions
<1>. QED  BY <1>1, <1>2, <1>3 DEF Actions

-----------------------------------------------------------------------------
(* What a client is told *)

(* A client has the order of the list and the data of its actions. *)
Current(cl, l) ==
    /\ cl \in List /\ cl.order = l.order
    /\ \A u \in Uuids : Exists(l, u) => cl.actions[u] = l.actions[u]

LEMMA CurrentIsShown ==
    ASSUME NEW l, ListSound(l), NEW cl \in List
    PROVE  Current(cl, l) <=>
             /\ cl.order = l.order
             /\ \A i \in DOMAIN l.order : cl.actions[l.order[i]] = l.actions[l.order[i]]
<1>1. /\ l.order \in Seq(Uuids) /\ Acting(l.actions) \in SUBSET Uuids
      /\ Orders(l.order, Acting(l.actions))
  BY SoundIsOrder DEF List, Acting
<1>2. DOMAIN l.order = 1..Len(l.order)
  BY <1>1, LenProperties
<1>3. /\ \A k \in 1..Len(l.order) : l.order[k] \in Acting(l.actions)
      /\ \A u \in Acting(l.actions) : \E k \in 1..Len(l.order) : l.order[k] = u
  BY <1>1, OrdersByIndex
<1>. QED  BY <1>2, <1>3 DEF Current, Acting, Exists

LEMMA ToldCurrent ==
    ASSUME NEW l, ListSound(l), NEW cl, Current(cl, l), NEW c \in Command,
           NEW replied \in BOOLEAN
    PROVE  Current(Told(cl, Effect(l, c), replied), Effect(l, c).list)
<1>. DEFINE r == Effect(l, c)
            m == r.list
            told == Told(cl, r, replied)
<1>1. /\ m \in List /\ m.actions = After(l.actions, c)
      /\ c.uuid \notin r.marked => m.actions = l.actions
      /\ r.reordered \/ m.order = l.order
  BY EffectFaithful, SoundIsOrder DEF Faithful
<1>2. l.actions \in Actions /\ cl.actions \in Actions /\ cl.order \in Seq(Uuids)
      /\ m.actions \in Actions /\ m.order \in Seq(Uuids) /\ cl.order = l.order
  BY <1>1, SoundIsOrder DEF Current, List
<1>. HIDE DEF r
<1>3. /\ told.actions = [u \in Uuids |->
                            IF (r.full /\ replied) \/ (u \in r.marked /\ Exists(m, u))
                            THEN m.actions[u] ELSE cl.actions[u]]
      /\ told.order = IF (r.full /\ replied) \/ r.reordered THEN m.order ELSE cl.order
      /\ told = [actions |-> told.actions, order |-> told.order]
  BY DEF Told
<1>4. told.actions \in Actions /\ told.order \in Seq(Uuids)
  <2>1. told.actions \in Actions
    BY <1>2, <1>3 DEF Actions
  <2>. QED  BY <1>2, <1>3, <2>1
<1>5. told.order = m.order
  BY <1>1, <1>2, <1>3
<1>6. ASSUME NEW u \in Uuids, Exists(m, u) PROVE told.actions[u] = m.actions[u]
  <2>1. CASE (r.full /\ replied) \/ u \in r.marked
    BY <1>3, <1>6, <2>1
  <2>2. CASE ~((r.full /\ replied) \/ u \in r.marked)
    <3>1. m.actions[u] = l.actions[u]
      <4>1. CASE u = c.uuid
        BY <1>1, <2>2, <4>1
      <4>2. CASE u # c.uuid
        BY <1>1, <1>2, <4>2 DEF After, Actions
      <4>. QED  BY <4>1, <4>2
    <3>2. cl.actions[u] = l.actions[u]
      BY <1>6, <3>1 DEF Current, Exists
    <3>. QED  BY <1>3, <2>2, <3>1, <3>2
  <2>. QED  BY <2>1, <2>2
<1>. HIDE DEF told, m
<1>7. told \in List
  BY <1>3, <1>4 DEF List
<1>8. Current(told, m)
  BY <1>5, <1>6, <1>7 DEF Current
<1>. QED  BY <1>8 DEF told, m, r

-----------------------------------------------------------------------------
(* The history of undos *)

LEMMA LastIsLast == U!Last = LastOf(changes, idx)
BY DEF U!Last, LastOf

LEMMA HistoryFacts ==
    ASSUME NEW c, NEW i, HistorySound(c, i)
    PROVE  /\ c \in Seq(Change \cup {Gutter}) /\ Len(c) \in Nat /\ Len(c) \in 1..MaxUndos
           /\ LastOf(c, i) \in 1..Len(c) /\ LastOf(c, i) \in Nat
           /\ i # NoIdx => i \in Nat /\ LastOf(c, i) = i /\ i < Len(c)
           /\ i \in (Nat \ {0}) \cup {NoIdx}
           /\ \A k \in 1..Len(c) : c[k] \in Change \cup {Gutter}
           /\ \A k \in 1..Len(c) : c[k] # Gutter =>
                 c[k] \in Change /\ c[k].redo \in Command /\ c[k].undo \in Command
<1>1. c \in Seq(Change \cup {Gutter}) /\ Len(c) \in Nat
  BY LenProperties DEF HistorySound, Histories
<1>2. \A k \in 1..Len(c) : c[k] \in Change \cup {Gutter}
  BY <1>1, ElementOfSeq
<1>. QED  BY <1>1, <1>2, BackendAssumption DEF HistorySound, LastOf, Change

(* That of the memory, and what is offered, as the state has them. *)
HistoryOK == HistorySound(changes, idx)
MenuOK == UndoState \in UndoStates

LEMMA UndoStateType == HistoryOK => MenuOK
<1>. SUFFICES ASSUME HistorySound(changes, idx) PROVE UndoState \in UndoStates
  BY DEF HistoryOK, MenuOK
<1>1. /\ Len(changes) \in Nat /\ U!Last \in 1..Len(changes)
      /\ \A k \in 1..Len(changes) : changes[k] \in Change \cup {Gutter}
  BY HistoryFacts, LastIsLast
<1>2. U!UndoAt = 0 \/ U!UndoAt \in 1..Len(changes)
  BY <1>1 DEF U!UndoAt
<1>3. U!RedoAt = 0 \/ U!RedoAt \in 1..Len(changes)
  BY <1>1 DEF U!RedoAt
<1>. QED  BY <1>1, <1>2, <1>3 DEF UndoState, UndoStates

(* A sequence up to a position, with an element after it. *)
Extended(s, b, n, e) ==
    /\ Len(s) = n + 1
    /\ \A k \in 1..n : s[k] = b[k]
    /\ s[n + 1] = e

LEMMA ExtendedProperties ==
    ASSUME NEW S, NEW b \in Seq(S), NEW n \in 0..Len(b), NEW e \in S
    PROVE  /\ Append(SubSeq(b, 1, n), e) \in Seq(S)
           /\ Extended(Append(SubSeq(b, 1, n), e), b, n, e)
<1>. DEFINE p == SubSeq(b, 1, n)
<1>1. Len(b) \in Nat
  BY LenProperties
<1>2. p \in Seq(S) /\ Len(p) = n - 1 + 1 /\ \A k \in 1..(n - 1 + 1) : p[k] = b[1 + k - 1]
  <2>1. 1 \in 1..(Len(b) + 1) /\ 1 <= n + 1
    BY <1>1
  <2>. QED  BY <2>1, PartOf
<1>3. Len(p) = n /\ \A k \in 1..n : p[k] = b[k]
  BY <1>1, <1>2
<1>. HIDE DEF p
<1>4. /\ Append(p, e) \in Seq(S) /\ Len(Append(p, e)) = Len(p) + 1
      /\ \A k \in 1..Len(p) : Append(p, e)[k] = p[k]
      /\ Append(p, e)[Len(p) + 1] = e
  BY <1>2, AppendProperties
<1>. QED  BY <1>3, <1>4 DEF Extended, p

(* The cut takes away the first element or nothing. *)
CutFrom(s, r, d) == Len(r) = Len(s) - d /\ \A k \in 1..Len(r) : r[k] = s[k + d]

LEMMA CutProperties ==
    ASSUME NEW S, NEW s \in Seq(S), Len(s) \in 2..(MaxUndos + 1)
    PROVE  /\ U!Cut(s) \in Seq(S)
           /\ CutFrom(s, U!Cut(s), IF Len(s) > MaxUndos THEN 1 ELSE 0)
<1>. MaxUndos \in Nat /\ Len(s) \in Nat
  BY BackendAssumption
<1>1. CASE Len(s) > MaxUndos
  <2>1. U!Cut(s) = Tail(s) /\ s # <<>>
    BY <1>1 DEF U!Cut
  <2>2. /\ Tail(s) \in Seq(S) /\ Len(Tail(s)) = Len(s) - 1
        /\ \A k \in 1..Len(Tail(s)) : Tail(s)[k] = s[k + 1]
    BY <2>1, HeadTailProperties
  <2>. QED  BY <1>1, <2>1, <2>2 DEF CutFrom
<1>2. CASE ~(Len(s) > MaxUndos)
  <2>1. U!Cut(s) = s
    BY <1>2 DEF U!Cut
  <2>2. \A k \in 1..Len(s) : k + 0 = k
    OBVIOUS
  <2>. QED  BY <1>2, <2>1, <2>2 DEF CutFrom
<1>. QED  BY <1>1, <1>2

(* A registered change in the vector, and what it leads to in the timeline. *)
LEMMA RegisterSound ==
    ASSUME NEW i, NEW c, HistorySound(c, i), NEW ch \in Change, ch.redo.uuid = ch.undo.uuid,
           NEW l, NEW t, TimelineSound(l, c, i, t), NEW b \in Actions,
           NEW m, m.actions = b,
           t # <<>> => After(l.actions, ch.redo) = b /\ After(b, ch.undo) = l.actions
    PROVE  LET d == U!Cut(Append(SubSeq(c, 1, LastOf(c, i)), ch))
           IN /\ HistorySound(d, NoIdx)
              /\ t # <<>> =>
                   TimelineSound(m, d, NoIdx, U!Cut(Append(SubSeq(t, 1, LastOf(c, i)), b)))
<1>. DEFINE n == LastOf(c, i)
            C == Change \cup {Gutter}
            s == Append(SubSeq(c, 1, n), ch)
            d == U!Cut(s)
            x == IF Len(s) > MaxUndos THEN 1 ELSE 0
            v == Append(SubSeq(t, 1, n), b)
            w == U!Cut(v)
<1>1. /\ c \in Seq(C) /\ Len(c) \in Nat /\ Len(c) \in 1..MaxUndos /\ n \in 1..Len(c) /\ n \in Nat
      /\ MaxUndos \in Nat /\ MaxUndos > 1
  BY HistoryFacts, BackendAssumption
<1>2. s \in Seq(C) /\ Extended(s, c, n, ch)
  <2>1. n \in 0..Len(c) /\ ch \in C
    BY <1>1
  <2>. HIDE DEF C, n
  <2>. QED  BY <1>1, <2>1, ExtendedProperties
<1>. HIDE DEF s, n
<1>3. Len(s) = n + 1 /\ Len(s) \in 2..(MaxUndos + 1)
  BY <1>1, <1>2 DEF Extended
<1>4. d \in Seq(C) /\ CutFrom(s, d, x)
  BY <1>2, <1>3, CutProperties
<1>5. x \in {0, 1} /\ Len(d) = n + 1 - x /\ Len(d) \in 1..MaxUndos
      /\ \A k \in 1..Len(d) : k + x \in 1..(n + 1) /\ d[k] = s[k + x]
  BY <1>1, <1>3, <1>4 DEF CutFrom
<1>. HIDE DEF x, d
<1>6. /\ \A k \in 2..Len(s) : s[k] # Gutter
      /\ \A k \in 1..Len(s) : s[k] # Gutter => s[k].redo.uuid = s[k].undo.uuid
  <2>1. \A k \in 1..Len(s) : k = n + 1 \/ k \in 1..n
    BY <1>1, <1>3
  <2>2. ch # Gutter
    BY BackendAssumption
  <2>3. 1..n \subseteq 1..Len(c)
    BY <1>1
  <2>4. ASSUME NEW k \in 2..Len(s) PROVE s[k] # Gutter
    <3>1. CASE k = n + 1
      BY <1>2, <2>2, <3>1 DEF Extended
    <3>2. CASE k \in 1..n
      <4>1. k \in 2..Len(c) /\ s[k] = c[k]
        BY <1>1, <1>2, <3>2 DEF Extended
      <4>. QED  BY <4>1 DEF HistorySound
    <3>. QED  BY <1>1, <1>3, <3>1, <3>2
  <2>5. ASSUME NEW k \in 1..Len(s), s[k] # Gutter PROVE s[k].redo.uuid = s[k].undo.uuid
    <3>1. CASE k = n + 1
      BY <1>2, <3>1 DEF Extended
    <3>2. CASE k \in 1..n
      BY <1>2, <2>3, <2>5, <3>2 DEF Extended, HistorySound
    <3>. QED  BY <2>1, <3>1, <3>2
  <2>. QED  BY <2>4, <2>5
<1>7. HistorySound(d, NoIdx)
  <2>1. \A k \in 2..Len(d) : d[k] # Gutter
    <3>1. \A k \in 2..Len(d) : k \in 1..Len(d) /\ k + x \in 2..Len(s)
      BY <1>1, <1>3, <1>5
    <3>. QED  BY <1>5, <1>6, <3>1
  <2>2. \A k \in 1..Len(d) : d[k] # Gutter => d[k].redo.uuid = d[k].undo.uuid
    BY <1>3, <1>5, <1>6
  <2>. QED  BY <1>4, <1>5, <2>1, <2>2 DEF HistorySound, Histories
<1>8. ASSUME t # <<>> PROVE TimelineSound(m, d, NoIdx, w)
  <2>1. /\ t \in Seq(Actions) /\ Len(t) = Len(c) /\ l.actions = t[n]
        /\ \A k \in 2..Len(c) :
              After(t[k - 1], c[k].redo) = t[k] /\ After(t[k], c[k].undo) = t[k - 1]
    BY <1>8 DEF TimelineSound, n
  <2>2. v \in Seq(Actions) /\ Extended(v, t, n, b)
    <3>1. n \in 0..Len(t)
      BY <1>1, <2>1
    <3>. QED  BY <2>1, <3>1, ExtendedProperties
  <2>. HIDE DEF v
  <2>3. Len(v) = Len(s)
    BY <1>2, <2>2 DEF Extended
  <2>4. w \in Seq(Actions) /\ CutFrom(v, w, x)
    BY <1>3, <2>2, <2>3, CutProperties DEF x
  <2>. HIDE DEF w
  <2>5. Len(w) = Len(d) /\ \A k \in 1..Len(d) : w[k] = v[k + x]
    <3>1. Len(w) = Len(d) /\ \A k \in 1..Len(w) : w[k] = v[k + x]
      BY <1>1, <1>3, <1>5, <2>3, <2>4 DEF CutFrom
    <3>. QED  BY <3>1
  <2>6. ASSUME NEW k \in 2..(n + 1)
        PROVE  After(v[k - 1], s[k].redo) = v[k] /\ After(v[k], s[k].undo) = v[k - 1]
    <3>1. CASE k = n + 1
      <4>1. k - 1 = n /\ n \in 1..n
        BY <1>1, <3>1
      <4>2. v[k - 1] = l.actions /\ v[k] = b /\ s[k] = ch
        BY <1>2, <2>1, <2>2, <3>1, <4>1 DEF Extended
      <4>. QED  BY <1>8, <4>2
    <3>2. CASE k \in 2..n
      <4>1. k \in 1..n /\ k - 1 \in 1..n /\ k \in 2..Len(c)
        BY <1>1, <3>2
      <4>2. v[k - 1] = t[k - 1] /\ v[k] = t[k] /\ s[k] = c[k]
        BY <1>2, <2>2, <4>1 DEF Extended
      <4>. QED  BY <2>1, <4>1, <4>2
    <3>. QED  BY <1>1, <3>1, <3>2
  <2>7. ASSUME NEW k \in 2..Len(d)
        PROVE  After(w[k - 1], d[k].redo) = w[k] /\ After(w[k], d[k].undo) = w[k - 1]
    <3>1. k \in 1..Len(d) /\ k - 1 \in 1..Len(d) /\ k + x \in 2..(n + 1) /\ k - 1 + x = k + x - 1
      BY <1>1, <1>5
    <3>. DEFINE j == k + x
    <3>2. j \in 2..(n + 1) /\ w[k - 1] = v[j - 1] /\ w[k] = v[j] /\ d[k] = s[j]
      BY <1>5, <2>5, <3>1
    <3>. HIDE DEF j
    <3>3. After(v[j - 1], s[j].redo) = v[j] /\ After(v[j], s[j].undo) = v[j - 1]
      BY <2>6, <3>2
    <3>. QED  BY <3>2, <3>3
  <2>8. w[Len(d)] = b
    <3>1. Len(d) \in 1..Len(d) /\ Len(d) + x = n + 1
      BY <1>1, <1>5
    <3>. QED  BY <2>2, <2>5, <3>1 DEF Extended
  <2>. QED  BY <2>4, <2>5, <2>7, <2>8 DEF TimelineSound, LastOf
<1>. QED  BY <1>7, <1>8 DEF d, w, v, s, n

-----------------------------------------------------------------------------
(* Every step keeps the invariant *)

LEMMA MemoryFacts ==
    ASSUME IInv
    PROVE  /\ ListSound(list) /\ list \in List /\ list.actions \in Actions
           /\ HistorySound(changes, idx) /\ TimelineSound(list, changes, idx, timeline)
           /\ U!Last = LastOf(changes, idx) /\ UndoState \in UndoStates
           /\ ~panicked => Current(client.list, list)
BY LastIsLast, UndoStateType, CurrentIsShown, SoundIsOrder
   DEF IInv, MemoryOK, ClientOK, Sound, Clients, ShownIsCurrent, List, HistoryOK, MenuOK

(* process_command on a sound list, before an undo or a redo panicked. *)
LEMMA ProcessSound ==
    ASSUME IInv, ~panicked, NEW c \in Command, Process(c), HistorySound(changes', idx')
    PROVE  /\ ListSound(list') /\ list'.actions = After(list.actions, c)
           /\ ClientOK'
<1>1. PICK replied \in BOOLEAN :
        client' = [list |-> Told(client.list, Effect(list, c), replied), undo |-> UndoState']
  BY DEF Process
<1>2. list' = Effect(list, c).list
  BY DEF Process
<1>3. ListSound(list') /\ list'.actions = After(list.actions, c)
  BY <1>2, MemoryFacts, EffectFaithful DEF Faithful
<1>4. Current(client'.list, list') /\ client'.undo = UndoState'
  BY <1>1, <1>2, MemoryFacts, ToldCurrent
<1>5. client'.list \in List
  BY <1>4 DEF Current
<1>6. UndoState' \in UndoStates
  <2>1. HistoryOK' => MenuOK'
    BY UndoStateType, PTL
  <2>. QED  BY <2>1 DEF HistoryOK, MenuOK
<1>7. client' \in Clients
  BY <1>1, <1>4, <1>5, <1>6 DEF Clients
<1>8. ShownIsCurrent'
  BY <1>3, <1>4, <1>5, CurrentIsShown DEF ShownIsCurrent
<1>. QED  BY <1>3, <1>7, <1>8 DEF ClientOK

LEMMA FilesKept == IInv /\ UNCHANGED files => FilesOK'
BY DEF IInv, FilesOK

LEMMA ExternalIInv ==
    ASSUME IInv, NEW c \in Requests, External(c)
    PROVE  IInv'
<1>1. c \in Command
  BY BackendAssumption
<1>2. PICK undo \in Undoes(list, c) : U!RegisterChange([undo |-> undo, redo |-> c])
  BY DEF External
<1>. DEFINE ch == [undo |-> undo, redo |-> c]
            n == LastOf(changes, idx)
            b == After(list.actions, c)
<1>3. /\ ch \in Change /\ ch.redo.uuid = ch.undo.uuid /\ b \in Actions
  BY <1>1, MemoryFacts, UndoesFacts, AfterType DEF Change
<1>4. /\ ~panicked /\ panicked' = panicked /\ idx' = NoIdx
      /\ changes' = U!Cut(Append(SubSeq(changes, 1, n), ch))
  <2>1. U!NotUndone = SubSeq(changes, 1, n)
    BY MemoryFacts, HistoryFacts, SubSeqFull DEF U!NotUndone, LastOf
  <2>. QED  BY <1>2, <2>1 DEF U!RegisterChange
<1>5. CASE timeline = <<>> \/ (c.op \in CreateOps /\ Exists(list, c.uuid))
  <2>1. timeline' = <<>>
    BY <1>5 DEF External, ExtendTimeline
  <2>2. TimelineSound(list, changes, idx, <<>>)
    BY EmptySeq DEF TimelineSound
  <2>3. HistorySound(changes', idx')
    <3>. DEFINE m == [actions |-> b]
    <3>1. m.actions = b
      OBVIOUS
    <3>. QED  BY <1>3, <1>4, <2>2, <3>1, MemoryFacts, RegisterSound
  <2>4. ListSound(list') /\ ClientOK'
    BY <1>1, <1>4, <2>3, ProcessSound DEF External
  <2>5. TimelineSound(list', changes', idx', timeline')
    BY <2>1, EmptySeq DEF TimelineSound
  <2>. QED  BY <1>4, <2>3, <2>4, <2>5, FilesKept DEF External, IInv, MemoryOK, Sound
<1>6. CASE ~(timeline = <<>> \/ (c.op \in CreateOps /\ Exists(list, c.uuid)))
  <2>1. list'.actions = b
    BY <1>1, MemoryFacts, EffectFaithful DEF External, Process, Faithful
  <2>2. After(b, ch.undo) = list.actions
    BY <1>1, <1>6, MemoryFacts, UndoesExactly
  <2>3. timeline' = U!Cut(Append(SubSeq(timeline, 1, n), b))
    BY <1>6, <2>1, MemoryFacts DEF External, ExtendTimeline
  <2>4. HistorySound(changes', idx') /\ TimelineSound(list', changes', idx', timeline')
    BY <1>3, <1>4, <1>6, <2>1, <2>2, <2>3, MemoryFacts, RegisterSound
  <2>5. ListSound(list') /\ ClientOK'
    BY <1>1, <1>4, <2>4, ProcessSound DEF External
  <2>. QED  BY <1>4, <2>4, <2>5, FilesKept DEF External, IInv, MemoryOK, Sound
<1>. QED  BY <1>5, <1>6

(* What a command does to one action is the same whatever another is. *)
Patched(a, b, u, x) == b = [a EXCEPT ![u] = x]

LEMMA AfterElsewhere ==
    ASSUME NEW a \in Actions, NEW u \in Uuids, NEW x, NEW b, Patched(a, b, u, x),
           NEW d \in Command, d.uuid # u
    PROVE  Patched(After(a, d), After(b, d), u, x)
BY CommandFields DEF After, Actions, Patched

LEMMA CreateActionIInv ==
    ASSUME IInv, NEW typ \in Types, NEW u \in Uuids, CreateAction(typ, u)
    PROVE  IInv'
<1>. DEFINE c == [op |-> "CreateActionWithUuid", uuid |-> u, typ |-> typ]
            x == list'.actions[u]
            C == changes
<1>1. c \in Command /\ c.uuid = u
  BY DEF Command, TypeNames
<1>2. ~panicked /\ UNCHANGED <<changes, idx, panicked, files>> /\ Process(c)
  BY DEF CreateAction, undoVars
<1>3. HistorySound(changes', idx')
  BY <1>2, MemoryFacts
<1>4. ListSound(list') /\ list'.actions = After(list.actions, c) /\ ClientOK'
  BY <1>1, <1>2, <1>3, ProcessSound
<1>. HIDE DEF c
<1>5. list'.actions \in Actions /\ x \in Data \cup {NoAction}
  BY <1>4, SoundIsOrder DEF List, Actions
<1>6. list'.actions = [list.actions EXCEPT ![u] = x]
  BY <1>1, <1>4, MemoryFacts DEF After, Actions
<1>. HIDE DEF x
<1>7. timeline' = [i \in DOMAIN timeline |-> [timeline[i] EXCEPT ![u] = x]]
  BY DEF CreateAction, x
<1>8. TimelineSound(list', changes', idx', timeline')
  <2>. DEFINE n == Len(timeline)
  <2>1. /\ timeline \in Seq(Actions) /\ n \in Nat /\ DOMAIN timeline = 1..n
        /\ \A k \in 1..n : timeline[k] \in Actions
    <3>1. timeline \in Seq(Actions)
      BY MemoryFacts DEF TimelineSound
    <3>. QED  BY <3>1, LenProperties, ElementOfSeq
  <2>. HIDE DEF n
  <2>2. \A k \in 1..n : [timeline[k] EXCEPT ![u] = x] \in Actions
    BY <1>5, <2>1 DEF Actions
  <2>3. /\ timeline' \in [1..n -> Actions]
        /\ \A k \in 1..n : timeline'[k] = [timeline[k] EXCEPT ![u] = x]
    BY <1>7, <2>1, <2>2
  <2>4. timeline' \in Seq(Actions)
    BY <2>1, <2>3, SeqDef
  <2>5. Len(timeline') = n
    <3>1. DOMAIN timeline' = 1..Len(timeline') /\ Len(timeline') \in Nat
      BY <2>4, LenProperties
    <3>2. 1..Len(timeline') = 1..n
      BY <2>3, <3>1
    <3>3. CASE Len(timeline') < n
      <4>1. n \in 1..n /\ n \notin 1..Len(timeline')
        BY <2>1, <3>1, <3>3
      <4>. QED  BY <3>2, <4>1
    <3>4. CASE Len(timeline') > n
      <4>1. Len(timeline') \in 1..Len(timeline') /\ Len(timeline') \notin 1..n
        BY <2>1, <3>1, <3>4
      <4>. QED  BY <3>2, <4>1
    <3>5. \A j, k \in Nat : j < k \/ j = k \/ j > k
      OBVIOUS
    <3>. QED  BY <2>1, <3>1, <3>3, <3>4, <3>5
  <2>6. ASSUME timeline' # <<>>
        PROVE  /\ Len(timeline') = Len(C)
               /\ list'.actions = timeline'[LastOf(C, idx)]
               /\ \A k \in 2..Len(C) :
                     /\ After(timeline'[k - 1], C[k].redo) = timeline'[k]
                     /\ After(timeline'[k], C[k].undo) = timeline'[k - 1]
    <3>1. timeline # <<>>
      <4>1. Len(timeline') # 0
        BY <2>4, <2>6, EmptySeq
      <4>. QED  BY <2>5, <4>1, EmptySeq DEF n
    <3>2. /\ n = Len(C) /\ list.actions = timeline[LastOf(C, idx)]
          /\ \A k \in 2..Len(C) :
                 /\ After(timeline[k - 1], C[k].redo) = timeline[k]
                 /\ After(timeline[k], C[k].undo) = timeline[k - 1]
      BY <3>1, MemoryFacts DEF TimelineSound, n
    <3>3. LastOf(C, idx) \in 1..n
      BY <3>2, MemoryFacts, HistoryFacts
    <3>4. ASSUME NEW k \in 2..Len(C)
          PROVE  /\ After(timeline'[k - 1], C[k].redo) = timeline'[k]
                 /\ After(timeline'[k], C[k].undo) = timeline'[k - 1]
      <4>1. k \in 1..n /\ k - 1 \in 1..n /\ k \in 1..Len(C)
        BY <2>1, <3>2
      <4>2. C[k] # Gutter
        BY MemoryFacts DEF HistorySound
      <4>3. C[k].redo \in Command /\ C[k].undo \in Command /\ C[k].redo.uuid = C[k].undo.uuid
        BY <4>1, <4>2, MemoryFacts, HistoryFacts DEF HistorySound
      <4>4. C[k].undo.uuid # u
        <5>1. DOMAIN C = 1..Len(C)
          BY MemoryFacts, HistoryFacts, LenProperties
        <5>. QED  BY <4>1, <4>2, <5>1 DEF CreateAction, Fresh
      <4>5. /\ timeline[k - 1] \in Actions /\ timeline[k] \in Actions
            /\ timeline'[k - 1] = [timeline[k - 1] EXCEPT ![u] = x]
            /\ timeline'[k] = [timeline[k] EXCEPT ![u] = x]
        BY <2>1, <2>3, <4>1
      <4>6. /\ After(timeline[k - 1], C[k].redo) = timeline[k]
            /\ After(timeline[k], C[k].undo) = timeline[k - 1]
        BY <3>2
      <4>7. /\ Patched(timeline[k - 1], timeline'[k - 1], u, x)
            /\ Patched(timeline[k], timeline'[k], u, x)
        BY <4>5 DEF Patched
      <4>8. /\ Patched(timeline[k], After(timeline'[k - 1], C[k].redo), u, x)
            /\ Patched(timeline[k - 1], After(timeline'[k], C[k].undo), u, x)
        BY <4>3, <4>4, <4>5, <4>6, <4>7, AfterElsewhere
      <4>. QED  BY <4>5, <4>8 DEF Patched
    <3>. QED  BY <1>6, <2>3, <2>5, <3>2, <3>3, <3>4
  <2>7. changes' = C /\ idx' = idx
    BY <1>2
  <2>. QED  BY <2>4, <2>6, <2>7 DEF TimelineSound
<1>. QED  BY <1>2, <1>3, <1>4, <1>8, FilesKept, MemoryFacts DEF IInv, MemoryOK, Sound

(* An undo or a redo goes to the next entry of the timeline. *)
LEMMA MovedSound ==
    ASSUME IInv, HistorySound(changes, idx'), NEW c \in Command,
           list'.actions = After(list.actions, c), UNCHANGED <<changes, timeline>>,
           timeline # <<>> =>
             After(timeline[LastOf(changes, idx)], c) = timeline[LastOf(changes, idx')]
    PROVE  TimelineSound(list', changes', idx', timeline')
BY MemoryFacts DEF TimelineSound

LEMMA UndoIInv == ASSUME IInv, Undo PROVE IInv'
<1>. DEFINE n == LastOf(changes, idx)
<1>1. /\ ~panicked /\ UNCHANGED <<changes, timeline, files>>
      /\ n \in 1..Len(changes) /\ Len(changes) \in Nat
      /\ U!UndoAt = n /\ changes[n] # Gutter
  BY MemoryFacts, HistoryFacts DEF Undo, U!Undo, U!UndoAt
<1>2. CASE panicked'
  <2>1. panicked' = TRUE /\ UNCHANGED <<idx, list, client>>
    <3>1. ~(panicked' = panicked)
      BY <1>1, <1>2
    <3>2. panicked' = TRUE /\ UNCHANGED idx
      BY <3>1 DEF Undo, U!Undo
    <3>. QED  BY <1>2, <3>2 DEF Undo
  <2>2. MemoryOK'
    BY <1>1, <2>1 DEF IInv, MemoryOK
  <2>3. ClientOK'
    BY <2>1 DEF IInv, ClientOK, ShownIsCurrent
  <2>. QED  BY <1>1, <2>2, <2>3, FilesKept DEF IInv
<1>3. CASE ~panicked'
  <2>. DEFINE c == changes[n].undo
  <2>1. /\ n > 1 /\ idx' = n - 1 /\ panicked' = panicked /\ given' = <<"undo", changes[n]>>
    BY <1>1, <1>3 DEF Undo, U!Undo, U!BeforeUndo
  <2>2. c \in Command
    BY <1>1, MemoryFacts, HistoryFacts
  <2>3. Process(c)
    <3>1. given'[2] = changes[n]
      BY <2>1
    <3>. QED  BY <1>3, <3>1 DEF Undo
  <2>4. HistorySound(changes, idx') /\ LastOf(changes, idx') = n - 1
    BY <1>1, <2>1, MemoryFacts, BackendAssumption DEF HistorySound, LastOf
  <2>5. ListSound(list') /\ list'.actions = After(list.actions, c) /\ ClientOK'
    BY <1>1, <2>2, <2>3, <2>4, ProcessSound
  <2>6. timeline # <<>> => After(timeline[n], c) = timeline[n - 1]
    <3>1. n \in 2..Len(changes)
      BY <1>1, <2>1
    <3>. QED  BY <3>1, MemoryFacts DEF TimelineSound
  <2>7. TimelineSound(list', changes', idx', timeline')
    BY <1>1, <2>2, <2>4, <2>5, <2>6, MovedSound
  <2>. QED  BY <1>1, <2>1, <2>4, <2>5, <2>7, FilesKept DEF IInv, MemoryOK, Sound
<1>. QED  BY <1>2, <1>3

LEMMA RedoIInv == ASSUME IInv, Redo PROVE IInv'
<1>. DEFINE n == LastOf(changes, idx)
            c == changes[n + 1].redo
<1>1. /\ ~panicked /\ UNCHANGED <<changes, timeline, files, panicked>>
      /\ n \in 1..Len(changes) /\ Len(changes) \in Nat
      /\ n + 1 \in 2..Len(changes) /\ U!RedoAt = n + 1
  BY MemoryFacts, HistoryFacts DEF Redo, U!Redo, U!RedoAt
<1>2. c \in Command
  <2>1. changes[n + 1] # Gutter /\ n + 1 \in 1..Len(changes)
    BY <1>1, MemoryFacts DEF HistorySound
  <2>. QED  BY <2>1, MemoryFacts, HistoryFacts
<1>3. Process(c)
  <2>1. given' = <<"redo", changes[n + 1]>>
    BY <1>1 DEF Redo, U!Redo
  <2>2. given'[2] = changes[n + 1]
    BY <2>1
  <2>. QED  BY <2>2 DEF Redo
<1>4. HistorySound(changes, idx') /\ LastOf(changes, idx') = n + 1
  <2>1. idx' = IF n + 1 = Len(changes) THEN NoIdx ELSE n + 1
    BY <1>1 DEF Redo, U!Redo, U!AfterRedo
  <2>. QED  BY <1>1, <2>1, MemoryFacts, BackendAssumption DEF HistorySound, LastOf
<1>5. ListSound(list') /\ list'.actions = After(list.actions, c) /\ ClientOK'
  BY <1>1, <1>2, <1>3, <1>4, ProcessSound
<1>6. timeline # <<>> => After(timeline[n], c) = timeline[n + 1]
  <2>. DEFINE k == n + 1
  <2>1. k \in 2..Len(changes) /\ k - 1 = n
    BY <1>1
  <2>. HIDE DEF k
  <2>2. timeline # <<>> => After(timeline[k - 1], changes[k].redo) = timeline[k]
    BY <2>1, MemoryFacts DEF TimelineSound
  <2>. QED  BY <2>1, <2>2 DEF k
<1>7. TimelineSound(list', changes', idx', timeline')
  BY <1>1, <1>2, <1>4, <1>5, <1>6, MovedSound
<1>. QED  BY <1>1, <1>4, <1>5, <1>7, FilesKept DEF IInv, MemoryOK, Sound

LEMMA FileFacts ==
    ASSUME IInv, NEW p \in Paths, files[p] # Unreadable
    PROVE  /\ Sound(files[p].list, files[p].changes, files[p].idx, files[p].timeline)
           /\ files[p] \in Savefiles /\ files[p].list \in List
           /\ ListSound(files[p].list)
BY SoundIsOrder DEF IInv, FilesOK, Sound, ListSound

LEMMA SaveIInv == ASSUME IInv, NEW p \in Paths, Save(p) PROVE IInv'
<1>1. Savefile \in Savefiles
  BY MemoryFacts, HistoryFacts DEF Savefile, Savefiles, Histories, TimelineSound
<1>2. PICK saved \in {Savefile, Unreadable} : files' = [files EXCEPT ![p] = saved]
  BY DEF Save
<1>3. FilesOK'
  <2>1. files' \in [Paths -> Savefiles \cup {Unreadable}]
    BY <1>1, <1>2 DEF IInv, FilesOK
  <2>2. ASSUME NEW q \in Paths, files'[q] # Unreadable
        PROVE  Sound(files'[q].list, files'[q].changes, files'[q].idx, files'[q].timeline)
    <3>1. files'[q] = IF q = p THEN saved ELSE files[q]
      BY <1>2 DEF IInv, FilesOK
    <3>2. CASE q = p
      <4>1. files'[q] = Savefile
        BY <2>2, <3>1, <3>2
      <4>. QED  BY <4>1 DEF Savefile, IInv, MemoryOK
    <3>3. CASE q # p
      BY <2>2, <3>1, <3>3, FileFacts
    <3>. QED  BY <3>2, <3>3
  <2>. QED  BY <2>1, <2>2 DEF FilesOK
<1>4. UNCHANGED <<list, changes, idx, panicked, client, timeline>>
  BY DEF Save, undoVars
<1>. QED  BY <1>3, <1>4 DEF IInv, MemoryOK, ClientOK, ShownIsCurrent, UndoState,
                            U!UndoAt, U!RedoAt, U!Last

LEMMA LoadIInv == ASSUME IInv, NEW p \in Paths, Load(p) PROVE IInv'
<1>1. files[p] # Unreadable /\ UNCHANGED <<files, panicked>>
  BY DEF Load, RestoreList
<1>2. /\ list' = files[p].list /\ changes' = files[p].changes /\ idx' = files[p].idx
      /\ timeline' = files[p].timeline /\ client' = [list |-> list', undo |-> UndoState']
  BY DEF Load, RestoreList, LoadedUndo
<1>3. MemoryOK'
  BY <1>1, <1>2, FileFacts DEF IInv, MemoryOK
<1>4. client' \in Clients
  <2>1. HistoryOK' => MenuOK'
    BY UndoStateType, PTL
  <2>2. UndoState' \in UndoStates
    BY <1>3, <2>1 DEF HistoryOK, MenuOK, MemoryOK, Sound
  <2>. QED  BY <1>1, <1>2, <2>2, FileFacts DEF Clients
<1>5. ClientOK'
  BY <1>2, <1>4 DEF ClientOK, ShownIsCurrent
<1>. QED  BY <1>1, <1>3, <1>5, FilesKept DEF IInv

LEMMA LoadStoppedIInv == ASSUME IInv, NEW p \in Paths, LoadStopped(p) PROVE IInv'
<1>. DEFINE l == files[p].list
            told == Told(NoList, Restored(p), TRUE)
<1>1. /\ files[p] # Unreadable /\ ~panicked /\ UNCHANGED <<files, changes, idx, panicked>>
      /\ list' = l /\ client' = [client EXCEPT !.list = told] /\ timeline' = <<>>
  BY DEF LoadStopped, RestoreList, undoVars
<1>2. MemoryOK'
  <2>1. TimelineSound(list', changes', idx', <<>>)
    BY EmptySeq DEF TimelineSound
  <2>. QED  BY <1>1, <2>1, FileFacts, MemoryFacts DEF IInv, MemoryOK, Sound
<1>3. l \in List /\ ListSound(l) /\ l.actions \in Actions /\ l.order \in Seq(Uuids)
  BY <1>1, FileFacts DEF List
<1>4. /\ told.actions = [u \in Uuids |-> IF Exists(l, u) THEN l.actions[u] ELSE NoAction]
      /\ told.order = l.order /\ told = [actions |-> told.actions, order |-> told.order]
  <2>1. /\ Restored(p).full = FALSE /\ Restored(p).list = l
        /\ Restored(p).marked = {u \in Uuids : Exists(l, u)}
        /\ Restored(p).reordered <=> l.order # <<>>
    BY DEF Restored
  <2>2. NoList.order = <<>> /\ \A u \in Uuids : NoList.actions[u] = NoAction
    BY DEF NoList, NoActions
  <2>. QED  BY <2>1, <2>2 DEF Told
<1>. HIDE DEF told, l
<1>5. told \in List
  <2>1. told.actions \in Actions
    BY <1>3, <1>4 DEF Actions
  <2>. QED  BY <1>3, <1>4, <2>1 DEF List
<1>6. Current(told, l)
  BY <1>4, <1>5 DEF Current
<1>7. client' \in Clients /\ client'.list = told /\ client'.undo = client.undo
  BY <1>1, <1>5 DEF IInv, ClientOK, Clients
<1>8. client.undo = UndoState /\ UndoState' = UndoState
  BY <1>1 DEF IInv, ClientOK, ShownIsCurrent, UndoState, U!UndoAt, U!RedoAt, U!Last
<1>9. ClientOK'
  BY <1>1, <1>3, <1>5, <1>6, <1>7, <1>8, CurrentIsShown DEF ClientOK, ShownIsCurrent
<1>. QED  BY <1>1, <1>2, <1>9, FilesKept DEF IInv

(* What the program starts with, and starts with again after a crash. *)
Started ==
    /\ list = NoList /\ changes = <<Gutter>> /\ idx = NoIdx /\ panicked = FALSE
    /\ client = [list |-> NoList, undo |-> UndoState]
    /\ timeline = <<NoActions>>

LEMMA StartedOK == Started => MemoryOK /\ ClientOK
<1>. SUFFICES ASSUME Started PROVE MemoryOK /\ ClientOK
  OBVIOUS
<1>1. NoActions \in Actions /\ Acting(NoActions) = {}
  BY DEF NoActions, Actions, Acting
<1>2. NoList \in List /\ NoList.actions = NoActions /\ NoList.order = <<>>
  BY <1>1 DEF NoList, List
<1>3. ListSound(NoList)
  <2>. DEFINE e == <<>>
  <2>1. e \in Seq(Uuids) /\ Len(e) = 0 /\ {} \in SUBSET Uuids
    OBVIOUS
  <2>. HIDE DEF e
  <2>2. \A k \in 1..Len(e) : FALSE
    BY <2>1
  <2>3. Orders(e, {})
    BY <2>1, <2>2, OrdersByIndex
  <2>. QED  BY <1>1, <1>2, <2>3, SoundIsOrder DEF e
<1>4. HistorySound(changes, idx)
  <2>1. changes \in Seq(Change \cup {Gutter}) /\ Len(changes) = 1 /\ changes[1] = Gutter
    BY DEF Started
  <2>. QED  BY <2>1, BackendAssumption DEF Started, HistorySound, Histories
<1>5. TimelineSound(list, changes, idx, timeline)
  <2>1. timeline \in Seq(Actions) /\ Len(timeline) = 1 /\ timeline[1] = NoActions
    BY <1>1 DEF Started
  <2>2. Len(changes) = 1 /\ LastOf(changes, idx) = 1
    BY DEF Started, LastOf
  <2>. QED  BY <1>2, <2>1, <2>2 DEF Started, TimelineSound
<1>6. MemoryOK
  BY <1>3, <1>4, <1>5 DEF MemoryOK, Sound, Started
<1>7. UndoState \in UndoStates
  BY <1>4, UndoStateType DEF HistoryOK, MenuOK
<1>8. ClientOK
  BY <1>2, <1>7 DEF Started, ClientOK, Clients, ShownIsCurrent
<1>. QED  BY <1>6, <1>8

LEMMA InitIInv == Init => IInv
<1>. SUFFICES ASSUME Init PROVE IInv
  OBVIOUS
<1>1. Started
  BY DEF Init, U!Init, Started
<1>2. FilesOK
  BY DEF Init, FilesOK
<1>. QED  BY <1>1, <1>2, StartedOK DEF IInv

LEMMA CrashIInv == ASSUME IInv, Crash PROVE IInv'
<1>1. Started'
  BY DEF Crash, Started
<1>2. Started' => (MemoryOK /\ ClientOK)'
  BY StartedOK, PTL
<1>3. FilesOK'
  <2>1. CASE UNCHANGED files
    BY <2>1, FilesKept
  <2>2. ASSUME NEW p \in Paths, files' = [files EXCEPT ![p] = Unreadable] PROVE FilesOK'
    BY <2>2 DEF IInv, FilesOK
  <2>. QED  BY <2>1, <2>2 DEF Crash
<1>. QED  BY <1>1, <1>2, <1>3 DEF IInv

LEMMA StepIInv == IInv /\ [Next]_vars => IInv'
<1>1. ASSUME IInv, UNCHANGED vars PROVE IInv'
  BY <1>1 DEF vars, undoVars, IInv, MemoryOK, FilesOK, ClientOK, ShownIsCurrent, UndoState,
              U!UndoAt, U!RedoAt, U!Last
<1>. QED  BY <1>1, ExternalIInv, CreateActionIInv, UndoIInv, RedoIInv, SaveIInv, LoadIInv,
              LoadStoppedIInv, CrashIInv DEF Next

(* The inductive invariant holds in every reachable state. *)
THEOREM Inductive == Spec => []IInv
BY InitIInv, StepIInv, PTL DEF Spec

-----------------------------------------------------------------------------
(* What follows of the invariants that are checked *)

(* The list, the vector of changes, what files hold and what a client has  *)
(* been told are of their types, and the timeline has an entry for each    *)
(* change, if it has any.                                                  *)
THEOREM TypeCorrect == Spec => []TypeOK
<1>1. ASSUME IInv PROVE TypeOK
  <2>1. /\ list \in List /\ changes \in Histories /\ idx \in (Nat \ {0}) \cup {NoIdx}
        /\ timeline = <<>> \/ (timeline \in Seq(Actions) /\ Len(timeline) = Len(changes))
    BY <1>1, MemoryFacts, HistoryFacts DEF TimelineSound, Histories
  <2>2. client.list \in List /\ panicked \in BOOLEAN
    BY <1>1 DEF IInv, ClientOK, MemoryOK, Clients
  <2>3. \A p \in Paths : files[p] = Unreadable \/
           (files[p].list \in List /\ files[p].changes \in Histories)
    BY <1>1, FileFacts DEF Sound, HistorySound
  <2>. QED  BY <2>1, <2>2, <2>3 DEF TypeOK
<1>. QED  BY <1>1, Inductive, PTL

(* The order of a list, in memory and in every file that can be read, is   *)
(* each of its actions once and nothing else: no assertion of              *)
(* ActionManager fails and no file is refused by restore_order.            *)
THEOREM OrderAlwaysActions == Spec => []OrderIsActions
<1>1. ASSUME IInv PROVE OrderIsActions
  BY <1>1, MemoryFacts, FileFacts DEF ListSound, OrderIsActions
<1>. QED  BY <1>1, Inductive, PTL

(* However commands, undos, redos, failures, the limit of the history,     *)
(* saves, loads and crashes follow each other, the actions are what they   *)
(* were after the change that the history is at.                           *)
THEOREM TimelineAlwaysExact == Spec => []TimelineExact
<1>1. ASSUME IInv PROVE TimelineExact
  BY <1>1, MemoryFacts DEF TimelineSound, TimelineExact
<1>. QED  BY <1>1, Inductive, PTL

(* A client that gets the broadcasts shows the actions, their order and    *)
(* the undo and redo on offer as they are, whichever replies failed.       *)
THEOREM ShownAlwaysCurrent == Spec => []ShownIsCurrent
<1>1. IInv => ShownIsCurrent
  BY DEF IInv, ClientOK
<1>. QED  BY <1>1, Inductive, PTL
=============================================================================
