---------------------------- MODULE Undo_proofs ----------------------------
(***************************************************************************)
(* Proofs about Undo, for every MaxUndos of at least 2 and any set of      *)
(* changes: the index stays in range, and the vector with its index        *)
(* implements the two stacks of module UndoStacks.                         *)
(***************************************************************************)
EXTENDS Undo, SequenceTheorems, TLAPS

IInv == TypeOK /\ IndexInRange

-----------------------------------------------------------------------------
(* What a new change leaves of the vector *)

LEMMA Facts ==
    ASSUME IInv
    PROVE  /\ changes \in Seq(Changes \cup {Gutter})
           /\ Len(changes) \in 1..MaxUndos /\ Last \in 1..Len(changes)
           /\ idx # NoIdx => idx \in Nat /\ Last = idx /\ Last < Len(changes)
           /\ UndoAt \in {0, Last} /\ RedoAt \in {0, Last + 1}
           /\ RedoAt # 0 => Last + 1 \in 1..Len(changes)
           /\ UndoAt # 0 => changes[Last] # Gutter
BY UndoAssumption DEF IInv, TypeOK, IndexInRange, Last, UndoAt, RedoAt

LEMMA NotUndoneIsPrefix ==
    ASSUME IInv
    PROVE  NotUndone = SubSeq(changes, 1, Last)
BY Facts, SubSeqFull DEF NotUndone, Last

(* The vector with the new change at its end, before it is cut. *)
LEMMA Registered ==
    ASSUME IInv, NEW c \in Changes, NEW s, s = Append(NotUndone, c)
    PROVE  /\ s \in Seq(Changes \cup {Gutter})
           /\ Len(s) = Last + 1
           /\ \A k \in 1..Last : s[k] = changes[k]
           /\ s[Last + 1] = c
<1>. DEFINE p == SubSeq(changes, 1, Last)
<1>1. /\ p \in Seq(Changes \cup {Gutter}) /\ Len(p) = Last
      /\ \A k \in 1..Last : p[k] = changes[k]
  <2>1. \A k \in 1..Last : changes[k] \in Changes \cup {Gutter}
    BY Facts, ElementOfSeq
  <2>2. Last \in Int /\ 1 \in Int /\ 1 <= Last
    BY Facts
  <2>. QED  BY <2>1, <2>2, SubSeqProperties
<1>2. s = Append(p, c)
  BY NotUndoneIsPrefix
<1>. QED  BY <1>1, <1>2, AppendProperties

(* The cut: nothing but the oldest change or the gutter goes. *)
LEMMA CutProperties ==
    ASSUME NEW S, NEW s \in Seq(S), Len(s) \in 1..(MaxUndos + 1)
    PROVE  \/ Len(s) <= MaxUndos /\ Cut(s) = s
           \/ /\ Len(s) = MaxUndos + 1 /\ Cut(s) = Tail(s)
              /\ Cut(s) \in Seq(S) /\ Len(Cut(s)) = MaxUndos
              /\ \A k \in 1..MaxUndos : Cut(s)[k] = s[k + 1]
<1>1. CASE Len(s) <= MaxUndos
  BY <1>1, UndoAssumption DEF Cut
<1>2. CASE Len(s) = MaxUndos + 1
  <2>1. Cut(s) = Tail(s) /\ s # <<>>
    BY <1>2, UndoAssumption DEF Cut
  <2>. QED  BY <1>2, <2>1, HeadTailProperties, UndoAssumption
<1>. QED  BY <1>1, <1>2, UndoAssumption

-----------------------------------------------------------------------------
(* The invariant *)

LEMMA InitIInv == Init => IInv
<1>. SUFFICES ASSUME Init PROVE IInv
  OBVIOUS
<1>1. changes \in Seq(Changes \cup {Gutter}) /\ Len(changes) = 1
  BY DEF Init
<1>2. panicked \in BOOLEAN
  BY DEF Init
<1>. QED  BY <1>1, <1>2, UndoAssumption DEF Init, IInv, TypeOK, IndexInRange

LEMMA RegisterIInv ==
    ASSUME IInv, NEW c \in Changes, RegisterChange(c)
    PROVE  IInv'
<1>. DEFINE s == Append(NotUndone, c)
            S == Changes \cup {Gutter}
<1>1. /\ s \in Seq(S) /\ Len(s) = Last + 1
      /\ \A k \in 1..Last : s[k] = changes[k]
      /\ s[Last + 1] = c
  BY Registered
<1>2. /\ \A k \in 2..Len(s) : s[k] # Gutter
      /\ Len(s) \in 1..(MaxUndos + 1)
  BY <1>1, Facts, UndoAssumption DEF IInv, IndexInRange
<1>3. /\ changes' \in Seq(S) /\ Len(changes') \in 1..MaxUndos
      /\ \A k \in 2..Len(changes') : changes'[k] # Gutter
  <2>1. changes' = Cut(s)
    BY DEF RegisterChange
  <2>2. CASE Len(s) <= MaxUndos /\ Cut(s) = s
    BY <1>1, <1>2, <2>1, <2>2
  <2>3. CASE /\ Len(s) = MaxUndos + 1
             /\ Cut(s) \in Seq(S) /\ Len(Cut(s)) = MaxUndos
             /\ \A k \in 1..MaxUndos : Cut(s)[k] = s[k + 1]
    BY <1>2, <2>1, <2>3, UndoAssumption
  <2>. QED  BY <1>1, <1>2, <2>2, <2>3, CutProperties
<1>. QED  BY <1>3 DEF RegisterChange, IInv, TypeOK, IndexInRange

LEMMA UndoIInv == ASSUME IInv, Undo PROVE IInv'
<1>1. panicked' \in BOOLEAN
  BY DEF Undo, IInv, TypeOK
<1>2. changes[Last] \in Changes \cup {Gutter}
  BY Facts, ElementOfSeq
<1>3. idx' = idx \/ (idx' \in Nat \ {0} /\ idx' < Len(changes))
  BY Facts DEF Undo, BeforeUndo
<1>4. given' \in {Nothing} \cup ({"undo", "redo"} \X (Changes \cup {Gutter}))
  BY Facts, <1>2 DEF Undo, IInv, TypeOK
<1>. QED  BY Facts, <1>1, <1>3, <1>4 DEF Undo, IInv, TypeOK, IndexInRange

LEMMA RedoIInv == ASSUME IInv, Redo PROVE IInv'
<1>1. panicked' \in BOOLEAN
  BY DEF Redo, IInv, TypeOK
<1>2. RedoAt = Last + 1 /\ RedoAt \in 1..Len(changes)
  BY Facts DEF Redo
<1>3. idx' = NoIdx \/ (idx' \in Nat \ {0} /\ idx' < Len(changes))
  BY Facts, <1>2 DEF Redo, AfterRedo
<1>4. given' \in {Nothing} \cup ({"undo", "redo"} \X (Changes \cup {Gutter}))
  BY <1>2, Facts, ElementOfSeq DEF Redo
<1>. QED  BY Facts, <1>1, <1>3, <1>4 DEF Redo, IInv, TypeOK, IndexInRange

LEMMA StepIInv == IInv /\ [Next]_vars => IInv'
<1>1. ASSUME IInv, UNCHANGED vars PROVE IInv'
  BY <1>1 DEF vars, IInv, TypeOK, IndexInRange
<1>. QED  BY <1>1, RegisterIInv, UndoIInv, RedoIInv DEF Next

(* The strengthened invariant holds in every reachable state. *)
THEOREM Inductive == Spec => []IInv
BY InitIInv, StepIInv, PTL DEF Spec

(* All of the context is of its type: positions are positions. *)
THEOREM TypeCorrect == Spec => []TypeOK
<1>1. IInv => TypeOK
  BY DEF IInv
<1>. QED  BY <1>1, Inductive, PTL

(* Every index that undo(), redo() and state() use is one of the vector,   *)
(* however many changes were registered, undone and redone.                *)
THEOREM IndexAlwaysInRange == Spec => []IndexInRange
<1>1. IInv => IndexInRange
  BY DEF IInv
<1>. QED  BY <1>1, Inductive, PTL

-----------------------------------------------------------------------------
(* The refinement *)

(* The stacks, as they are read off the vector. *)
Done == SubSeq(changes, FirstChange, Last)
Undone == SubSeq(changes, Last + 1, Len(changes))

(* Both stacks, element by element; the gutter is no part of them. *)
Stacked ==
    /\ FirstChange \in {1, 2} /\ FirstChange <= Last + 1
    /\ changes[Last] # Gutter => FirstChange <= Last
    /\ Done \in Seq(Changes \cup {Gutter})
    /\ Len(Done) = Last - FirstChange + 1
    /\ \A k \in 1..Len(Done) : Done[k] = changes[FirstChange + k - 1]
    /\ Undone \in Seq(Changes \cup {Gutter})
    /\ Len(Undone) = Len(changes) - Last
    /\ \A k \in 1..Len(Undone) : Undone[k] = changes[Last + k]
    /\ Last \in 1..Len(changes) /\ Len(changes) \in 1..MaxUndos

LEMMA StackFacts == IInv => Stacked
<1>. SUFFICES ASSUME IInv PROVE Stacked
  OBVIOUS
<1>. DEFINE S == Changes \cup {Gutter}
<1>1. /\ FirstChange \in {1, 2} /\ FirstChange <= Last + 1
      /\ changes[Last] # Gutter => FirstChange <= Last
  BY Facts DEF FirstChange
<1>2. \A k \in 1..Len(changes) : changes[k] \in S
  BY Facts, ElementOfSeq
<1>3. /\ Done \in Seq(S) /\ Len(Done) = Last - FirstChange + 1
      /\ \A k \in 1..(Last - FirstChange + 1) : Done[k] = changes[FirstChange + k - 1]
  <2>1. FirstChange \in Int /\ Last \in Int /\ \A k \in FirstChange..Last : changes[k] \in S
    BY Facts, <1>1, <1>2
  <2>. QED  BY <1>1, <2>1, SubSeqProperties, Facts DEF Done
<1>4. /\ Undone \in Seq(S) /\ Len(Undone) = Len(changes) - Last
      /\ \A k \in 1..(Len(changes) - Last) : Undone[k] = changes[Last + k]
  <2>1. Last + 1 \in Int /\ Len(changes) \in Int
        /\ \A k \in (Last + 1)..Len(changes) : changes[k] \in S
    BY Facts, <1>2
  <2>. QED  BY <2>1, SubSeqProperties, Facts DEF Undone
<1>. QED  BY <1>1, <1>3, <1>4, Facts DEF Stacked

LEMMA InitRefines == Init => Stacks!Init
<1>. SUFFICES ASSUME Init PROVE Stacks!Init
  OBVIOUS
<1>1. IInv
  BY InitIInv
<1>2. Last = 1 /\ FirstChange = 2 /\ Len(changes) = 1
  BY DEF Init, Last, FirstChange
<1>3. Done = <<>> /\ Undone = <<>>
  BY <1>2, SubSeqEmpty DEF Done, Undone
<1>. QED  BY <1>3 DEF Init, Stacks!Init, Done, Undone, Nothing, Stacks!Nothing

LEMMA StackStep ==
    ASSUME IInv, [Next]_vars
    PROVE  Stacked /\ Stacked'
<1>1. IInv'
  BY StepIInv
<1>2. IInv' => Stacked'
  BY StackFacts, PTL
<1>. QED  BY <1>1, <1>2, StackFacts

(* What Kept keeps of the stack d that ends in a new change is e, if both  *)
(* are read off the vector s, which has the gutter before them or not, and *)
(* e off what the cut leaves of it.                                        *)
ReadOff(s, d, e, f) ==
    /\ Len(s) \in 2..(MaxUndos + 1)
    /\ Len(d) = Len(s) - f + 1
    /\ \A k \in 1..Len(d) : d[k] = s[f + k - 1]
    /\ Len(s) <= MaxUndos =>
          Len(e) = Len(d) /\ \A k \in 1..Len(e) : e[k] = s[f + k - 1]
    /\ Len(s) = MaxUndos + 1 =>
          Len(e) = MaxUndos /\ \A k \in 1..Len(e) : e[k] = s[k + 1]

LEMMA KeptIsCut ==
    ASSUME NEW S, NEW s \in Seq(S), NEW d \in Seq(S), NEW e \in Seq(S),
           NEW f \in {1, 2}, ReadOff(s, d, e, f)
    PROVE  e = Stacks!Kept(d)
<1>. USE DEF ReadOff
<1>. MaxUndos \in Nat /\ MaxUndos >= 2 /\ Len(s) \in Nat
  BY UndoAssumption
<1>1. CASE Len(d) <= MaxUndos
  <2>1. Stacks!Kept(d) = d
    BY <1>1 DEF Stacks!Kept
  <2>2. Len(e) = Len(d) /\ \A k \in 1..Len(e) : e[k] = d[k]
    BY <1>1
  <2>. QED  BY <2>1, <2>2, SeqEqual
<1>2. CASE Len(d) > MaxUndos
  <2>1. Len(d) = MaxUndos + 1 /\ f = 1 /\ Len(s) = MaxUndos + 1
    BY <1>2
  <2>2. Stacks!Kept(d) = Tail(d) /\ d # <<>>
    BY <2>1 DEF Stacks!Kept
  <2>3. /\ Tail(d) \in Seq(S) /\ Len(Tail(d)) = Len(d) - 1
        /\ \A k \in 1..Len(Tail(d)) : Tail(d)[k] = d[k + 1]
    BY <2>2, HeadTailProperties
  <2>4. Len(e) = MaxUndos /\ \A k \in 1..Len(e) : e[k] = s[k + 1]
    BY <2>1
  <2>5. \A k \in 1..MaxUndos : d[k + 1] = s[k + 1]
    BY <2>1
  <2>6. Len(e) = Len(Tail(d)) /\ \A k \in 1..Len(e) : e[k] = Tail(d)[k]
    BY <2>1, <2>3, <2>4, <2>5
  <2>. QED  BY <2>2, <2>3, <2>6, SeqEqual
<1>. QED  BY <1>1, <1>2

(* A stack with one more change. *)
LEMMA DoneAppend ==
    ASSUME IInv, NEW c \in Changes \cup {Gutter}
    PROVE  /\ Append(Done, c) \in Seq(Changes \cup {Gutter})
           /\ Len(Append(Done, c)) = Last - FirstChange + 2
           /\ \A k \in 1..(Last - FirstChange + 1) :
                 Append(Done, c)[k] = changes[FirstChange + k - 1]
           /\ Append(Done, c)[Last - FirstChange + 2] = c
<1>1. /\ Done \in Seq(Changes \cup {Gutter}) /\ Len(Done) = Last - FirstChange + 1
      /\ \A k \in 1..Len(Done) : Done[k] = changes[FirstChange + k - 1]
      /\ Last \in Nat /\ FirstChange \in Nat
  BY StackFacts DEF Stacked
<1>2. Len(Done) + 1 = Last - FirstChange + 2
  BY <1>1
<1>. QED  BY <1>1, <1>2, AppendProperties

LEMMA RegisterRefines ==
    ASSUME IInv, NEW c \in Changes, RegisterChange(c)
    PROVE  Stacks!Register(c)
<1>. DEFINE S == Changes \cup {Gutter}
            s == Append(NotUndone, c)
            d == Append(Done, c)
<1>1. Stacked /\ Stacked'
  BY StackStep DEF Next
<1>2. /\ s \in Seq(S) /\ Len(s) = Last + 1
      /\ \A k \in 1..Last : s[k] = changes[k]
      /\ s[Last + 1] = c
  BY Registered
<1>3. changes' = Cut(s) /\ idx' = NoIdx /\ Last' = Len(changes') /\ given' = Nothing
  BY DEF RegisterChange, Last
<1>4. Undone' = <<>>
  <2>1. Len(Undone') = 0 /\ Undone' \in Seq(S)
    BY <1>1, <1>3 DEF Stacked
  <2>. QED  BY <2>1, EmptySeq
<1>5. /\ d \in Seq(S) /\ Len(d) = Last - FirstChange + 2
      /\ \A k \in 1..(Last - FirstChange + 1) : d[k] = changes[FirstChange + k - 1]
      /\ d[Last - FirstChange + 2] = c
  BY DoneAppend
<1>. HIDE DEF s, d
<1>6. /\ FirstChange \in {1, 2} /\ Last \in Nat /\ FirstChange <= Last + 1
      /\ Len(s) \in 2..(MaxUndos + 1) /\ Len(d) = Len(s) - FirstChange + 1
  BY <1>1, <1>2, <1>5, UndoAssumption DEF Stacked
<1>7. ASSUME NEW k \in 1..Len(d)
      PROVE  d[k] = s[FirstChange + k - 1]
  <2>1. CASE k = Last - FirstChange + 2
    BY <1>2, <1>5, <1>6, <2>1
  <2>2. CASE k \in 1..(Last - FirstChange + 1)
    <3>1. FirstChange + k - 1 \in 1..Last
      BY <1>6, <2>2
    <3>. QED  BY <1>2, <1>5, <2>2, <3>1
  <2>. QED  BY <1>5, <1>6, <2>1, <2>2
<1>8. /\ Done' \in Seq(S) /\ FirstChange' \in {1, 2}
      /\ Len(Done') = Len(changes') - FirstChange' + 1
      /\ \A k \in 1..Len(Done') : Done'[k] = changes'[FirstChange' + k - 1]
  BY <1>1, <1>3 DEF Stacked
<1>9. ASSUME Len(s) <= MaxUndos, Cut(s) = s
      PROVE  Done' = Stacks!Kept(d)
  <2>1. FirstChange' = FirstChange
    BY <1>2, <1>3, <1>6, <1>9 DEF FirstChange
  <2>2. /\ Len(Done') = Len(d)
        /\ \A k \in 1..Len(Done') : Done'[k] = s[FirstChange + k - 1]
    BY <1>3, <1>6, <1>8, <1>9, <2>1
  <2>3. Len(s) # MaxUndos + 1
    BY <1>9, UndoAssumption
  <2>4. \A k \in 1..Len(d) : d[k] = s[FirstChange + k - 1]
    BY <1>7
  <2>5. ReadOff(s, d, Done', FirstChange)
    BY <1>6, <2>2, <2>3, <2>4 DEF ReadOff
  <2>. QED  BY <1>2, <1>5, <1>6, <1>8, <2>5, KeptIsCut
<1>10. ASSUME /\ Len(s) = MaxUndos + 1
              /\ Cut(s) \in Seq(S) /\ Len(Cut(s)) = MaxUndos
              /\ \A k \in 1..MaxUndos : Cut(s)[k] = s[k + 1]
       PROVE  Done' = Stacks!Kept(d)
  <2>1. 1 \in 1..MaxUndos /\ Last = MaxUndos /\ 2 \in 1..Last
    BY <1>2, <1>6, <1>10, UndoAssumption
  <2>2. changes'[1] # Gutter
    BY <1>1, <1>2, <1>3, <1>10, <2>1 DEF IInv, IndexInRange, Stacked
  <2>3. FirstChange' = 1
    BY <2>2 DEF FirstChange
  <2>4. /\ Len(Done') = MaxUndos
        /\ \A k \in 1..Len(Done') : Done'[k] = s[k + 1]
    BY <1>3, <1>8, <1>10, <2>1, <2>3
  <2>5. ~(Len(s) <= MaxUndos)
    BY <1>10, UndoAssumption
  <2>6. \A k \in 1..Len(d) : d[k] = s[FirstChange + k - 1]
    BY <1>7
  <2>7. ReadOff(s, d, Done', FirstChange)
    BY <1>6, <2>4, <2>5, <2>6 DEF ReadOff
  <2>. QED  BY <1>2, <1>5, <1>6, <1>8, <2>7, KeptIsCut
<1>11. Done' = Stacks!Kept(d)
  <2>1. Len(s) \in 1..(MaxUndos + 1)
    BY <1>6
  <2>. QED  BY <1>2, <1>9, <1>10, <2>1, CutProperties
<1>. QED  BY <1>3, <1>4, <1>11 DEF Stacks!Register, Stacks!Nothing, Nothing, Done, Undone, d

LEMMA UndoRefines ==
    ASSUME IInv, Undo
    PROVE  Stacks!Undo \/ UNCHANGED <<Done, Undone, given>>
<1>. DEFINE S == Changes \cup {Gutter}
<1>1. /\ Stacked /\ changes \in Seq(S) /\ UndoAt = Last /\ changes[Last] # Gutter
      /\ Last \in Nat /\ Last \in 1..Len(changes) /\ FirstChange \in {1, 2}
      /\ FirstChange <= Last
  BY Facts, StackFacts DEF Undo, Stacked
<1>2. CASE UndoAt = 1
  BY <1>1, <1>2 DEF Undo, Done, Undone, FirstChange, Last
<1>3. CASE UndoAt > 1
  <2>1. /\ changes' = changes /\ FirstChange' = FirstChange /\ Last' = Last - 1
        /\ given' = <<"undo", changes[Last]>>
    BY <1>1, <1>3, UndoAssumption DEF Undo, BeforeUndo, Last, FirstChange
  <2>2. /\ Done \in Seq(S) /\ Len(Done) = Last - FirstChange + 1 /\ Len(Done) \in Nat \ {0}
        /\ \A k \in 1..Len(Done) : Done[k] = changes[FirstChange + k - 1]
    BY <1>1 DEF Stacked
  <2>3. Done # <<>> /\ Done[Len(Done)] = changes[Last]
    BY <1>1, <2>2
  <2>4. Undone' = <<changes[Last]>> \o Undone
    <3>1. Undone' = SubSeq(changes, Last, Len(changes))
      BY <1>1, <2>1 DEF Undone
    <3>2. Len(changes) \in Last..Len(changes)
      BY <1>1
    <3>. QED  BY <1>1, <3>1, <3>2, SubSeqRecursiveFirst DEF Undone
  <2>5. Done' = SubSeq(Done, 1, Len(Done) - 1)
    <3>. DEFINE e == SubSeq(Done, 1, Len(Done) - 1)
    <3>1. /\ Done' \in Seq(S) /\ Len(Done') = Len(Done) - 1
          /\ \A k \in 1..(Len(Done) - 1) : Done'[k] = changes[FirstChange + k - 1]
      BY <1>1, <2>1, <2>2, StackStep DEF Next, Stacked
    <3>2. /\ e \in Seq(S) /\ Len(e) = Len(Done) - 1
          /\ \A k \in 1..(Len(Done) - 1) : e[k] = Done[k]
      <4>1. \A k \in 1..(Len(Done) - 1) : Done[k] \in S
        BY <2>2, ElementOfSeq
      <4>2. 1 \in Int /\ Len(Done) - 1 \in Int
        BY <2>2
      <4>3. /\ e \in Seq(S)
            /\ Len(e) = IF 1 <= Len(Done) - 1 THEN Len(Done) - 1 - 1 + 1 ELSE 0
            /\ \A k \in 1..(Len(Done) - 1 - 1 + 1) : e[k] = Done[1 + k - 1]
        BY <4>1, <4>2, SubSeqProperties
      <4>. HIDE DEF e
      <4>. QED  BY <2>2, <4>3
    <3>. HIDE DEF e
    <3>3. \A k \in 1..Len(Done') : Done'[k] = e[k]
      BY <2>2, <3>1, <3>2
    <3>4. Done' = e
      BY <3>1, <3>2, <3>3, SeqEqual
    <3>. QED  BY <3>4 DEF e
  <2>. QED  BY <2>1, <2>3, <2>4, <2>5 DEF Stacks!Undo, Done, Undone
<1>. QED  BY <1>1, <1>2, <1>3

LEMMA RedoRefines ==
    ASSUME IInv, Redo
    PROVE  Stacks!Redo
<1>. DEFINE S == Changes \cup {Gutter}
<1>1. /\ Stacked /\ changes \in Seq(S) /\ RedoAt = Last + 1
      /\ Last \in Nat /\ Last + 1 \in 1..Len(changes) /\ FirstChange \in {1, 2}
      /\ FirstChange <= Last + 1
  BY Facts, StackFacts DEF Redo, Stacked
<1>2. /\ changes' = changes /\ FirstChange' = FirstChange /\ Last' = Last + 1
      /\ given' = <<"redo", changes[Last + 1]>>
  BY <1>1, UndoAssumption DEF Redo, AfterRedo, Last, FirstChange
<1>3. Head(Undone) = changes[Last + 1] /\ Tail(Undone) = Undone'
  <2>1. Len(changes) \in (Last + 1)..Len(changes)
    BY <1>1
  <2>2. Undone' = SubSeq(changes, Last + 1 + 1, Len(changes))
    BY <1>2 DEF Undone
  <2>. QED  BY <1>1, <2>1, <2>2, HeadTailOfSubSeq DEF Undone
<1>4. Undone # <<>>
  BY <1>1, EmptySeq DEF Stacked
<1>5. Done' = Append(Done, changes[Last + 1])
  <2>1. FirstChange \in 1..Len(changes) /\ Last + 1 \in FirstChange..Len(changes)
    BY <1>1
  <2>2. SubSeq(changes, FirstChange, Last + 1) =
          SubSeq(changes, FirstChange, Last + 1 - 1) \o <<changes[Last + 1]>>
    BY <1>1, <2>1, SubSeqRecursiveSecond
  <2>3. Done' = Done \o <<changes[Last + 1]>>
    BY <1>1, <1>2, <2>2 DEF Done
  <2>4. Done \in Seq(S) /\ changes[Last + 1] \in S
    BY <1>1, ElementOfSeq DEF Stacked
  <2>. QED  BY <2>3, <2>4, AppendIsConcat
<1>. QED  BY <1>2, <1>3, <1>4, <1>5 DEF Stacks!Redo, Done, Undone

(* The vector of changes and its optional index implement the stack of     *)
(* changes done, of which the last MAX_UNDOS are kept, and the stack of    *)
(* changes undone: every command that undo() or redo() gives is theirs.    *)
THEOREM ImplementsStacks == Spec => RefinesStacks
<1>1. Init => Stacks!Init
  BY InitRefines
<1>2. IInv /\ [Next]_vars => [Stacks!Next]_<<Done, Undone, given>>
  <2>. SUFFICES ASSUME IInv, [Next]_vars
                PROVE  [Stacks!Next]_<<Done, Undone, given>>
    OBVIOUS
  <2>1. CASE UNCHANGED vars
    BY <2>1 DEF vars, Done, Undone, FirstChange, Last
  <2>2. CASE \E c \in Changes : RegisterChange(c)
    BY <2>2, RegisterRefines DEF Stacks!Next
  <2>3. CASE Undo
    BY <2>3, UndoRefines DEF Stacks!Next
  <2>4. CASE Redo
    BY <2>4, RedoRefines DEF Stacks!Next
  <2>. QED  BY <2>1, <2>2, <2>3, <2>4 DEF Next
<1>. QED
  BY <1>1, <1>2, Inductive, PTL DEF Spec, RefinesStacks, Stacks!Spec, Done, Undone
=============================================================================
