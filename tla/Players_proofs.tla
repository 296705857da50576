--------------------------- MODULE Players_proofs ---------------------------
(***************************************************************************)
(* Proofs of the safety properties of Players, for any set of streams and  *)
(* queues and a list of Players of any size.                               *)
(*                                                                         *)
(* The inductive invariant adds to the properties where the callback is:   *)
(* the Player it goes through is one of the list, and the one that it is   *)
(* going to remove is dead, as nothing but AddPlayer, which never comes in *)
(* the middle of a callback, raises an alive flag.                         *)
(***************************************************************************)
EXTENDS Players, SequenceTheorems, TLAPS

-----------------------------------------------------------------------------
(* Sequences without repetitions *)

LEMMA RangeAppend ==
    ASSUME NEW S, NEW s \in Seq(S), NEW x \in S
    PROVE  /\ Append(s, x) \in Seq(S) /\ Len(Append(s, x)) = Len(s) + 1
           /\ RangeOf(Append(s, x)) = RangeOf(s) \cup {x}
           /\ Distinct(s) /\ x \notin RangeOf(s) => Distinct(Append(s, x))
<1>. DEFINE a == Append(s, x)
<1>1. /\ a \in Seq(S) /\ Len(a) = Len(s) + 1 /\ Len(s) \in Nat
      /\ \A k \in 1..Len(s) : a[k] = s[k]
      /\ a[Len(s) + 1] = x
  BY AppendProperties, LenProperties
<1>. HIDE DEF a
<1>2. RangeOf(a) = RangeOf(s) \cup {x}
  <2>1. \A k \in 1..Len(a) : k \in 1..Len(s) \/ k = Len(s) + 1
    BY <1>1
  <2>2. Len(s) + 1 \in 1..Len(a) /\ \A k \in 1..Len(s) : k \in 1..Len(a)
    BY <1>1
  <2>. QED  BY <1>1, <2>1, <2>2 DEF RangeOf
<1>3. ASSUME Distinct(s), x \notin RangeOf(s)
      PROVE  Distinct(a)
  BY <1>1, <1>3 DEF Distinct, RangeOf
<1>. QED  BY <1>1, <1>2, <1>3 DEF a

LEMMA RangeTail ==
    ASSUME NEW S, NEW s \in Seq(S), s # <<>>, Distinct(s)
    PROVE  /\ Head(s) \in S /\ Head(s) \in RangeOf(s)
           /\ Tail(s) \in Seq(S)
           /\ RangeOf(Tail(s)) = RangeOf(s) \ {Head(s)}
           /\ Distinct(Tail(s))
<1>. DEFINE t == Tail(s)
<1>1. /\ t \in Seq(S) /\ Len(t) = Len(s) - 1 /\ Len(s) \in Nat \ {0}
      /\ \A k \in 1..Len(t) : t[k] = s[k + 1]
      /\ Head(s) = s[1] /\ Head(s) \in S
  BY HeadTailProperties, EmptySeq
<1>. HIDE DEF t
<1>2. \A k \in 1..Len(t) : k + 1 \in 1..Len(s) /\ k + 1 # 1
  BY <1>1
<1>3. \A k \in 1..Len(s) : k = 1 \/ (k - 1 \in 1..Len(t) /\ t[k - 1] = s[k])
  BY <1>1
<1>4. 1 \in 1..Len(s)
  BY <1>1
<1>5. RangeOf(t) = RangeOf(s) \ {s[1]}
  <2>1. \A k \in 1..Len(t) : t[k] \in RangeOf(s) /\ t[k] # s[1]
    BY <1>1, <1>2, <1>4 DEF RangeOf, Distinct
  <2>2. \A k \in 1..Len(s) : s[k] # s[1] => s[k] \in RangeOf(t)
    BY <1>3 DEF RangeOf
  <2>. QED  BY <2>1, <2>2 DEF RangeOf
<1>6. Distinct(t)
  BY <1>1, <1>2 DEF Distinct
<1>. QED  BY <1>1, <1>4, <1>5, <1>6 DEF t, RangeOf

(* swap_remove takes out element i and nothing else. *)
LEMMA RangeSwapRemove ==
    ASSUME NEW S, NEW s \in Seq(S), NEW i \in 1..Len(s), Distinct(s)
    PROVE  /\ SwapRemove(s, i) \in Seq(S)
           /\ Len(SwapRemove(s, i)) = Len(s) - 1
           /\ RangeOf(SwapRemove(s, i)) = RangeOf(s) \ {s[i]}
           /\ Distinct(SwapRemove(s, i))
<1>. DEFINE n == Len(s) - 1
            r == SwapRemove(s, i)
<1>1. n \in Nat /\ Len(s) \in Nat /\ Len(s) = n + 1 /\ \A k \in 1..Len(s) : s[k] \in S
  BY LenProperties, ElementOfSeq
<1>2. /\ r \in [1..n -> S]
      /\ \A k \in 1..n : r[k] = IF k = i THEN s[Len(s)] ELSE s[k]
  BY <1>1 DEF SwapRemove
<1>. HIDE DEF r, n
<1>3. r \in Seq(S) /\ Len(r) = n
  <2>1. r \in Seq(S)
    BY <1>1, <1>2, SeqDef
  <2>2. Len(r) \in Nat /\ DOMAIN r = 1..Len(r) /\ DOMAIN r = 1..n
    BY <1>2, <2>1, LenProperties
  <2>3. \A k \in Nat : k \in 1..Len(r) <=> k \in 1..n
    BY <2>2
  <2>4. Len(r) <= n
    BY <1>1, <2>2, <2>3
  <2>5. n <= Len(r)
    BY <1>1, <2>2, <2>3
  <2>6. Len(r) \in Nat /\ n \in Nat
    BY <1>1, <2>2
  <2>7. Len(r) = n
    BY <2>4, <2>5, <2>6
  <2>. QED  BY <2>1, <2>7
<1>4. \A k \in 1..Len(s) : k # i => \E j \in 1..n : r[j] = s[k]
  <2>. SUFFICES ASSUME NEW k \in 1..Len(s), k # i
                PROVE  \E j \in 1..n : r[j] = s[k]
    OBVIOUS
  <2>1. CASE k = Len(s)
    BY <1>1, <1>2, <2>1
  <2>2. CASE k # Len(s)
    BY <1>1, <1>2, <2>2
  <2>. QED  BY <2>1, <2>2
<1>5. \A j \in 1..n : \E k \in 1..Len(s) : k # i /\ r[j] = s[k]
  BY <1>1, <1>2
<1>6. RangeOf(r) = RangeOf(s) \ {s[i]}
  <2>1. ASSUME NEW j \in 1..n
        PROVE  r[j] \in RangeOf(s) \ {s[i]}
    <3>1. PICK k \in 1..Len(s) : k # i /\ r[j] = s[k]
      BY <1>5
    <3>2. s[k] # s[i]
      BY <3>1 DEF Distinct
    <3>. QED  BY <3>1, <3>2 DEF RangeOf
  <2>2. ASSUME NEW k \in 1..Len(s), s[k] # s[i]
        PROVE  s[k] \in RangeOf(r)
    <3>1. PICK j \in 1..n : r[j] = s[k]
      BY <1>4, <2>2
    <3>2. Len(r) = n
      BY <1>3
    <3>. QED  BY <3>1, <3>2 DEF RangeOf
  <2>3. RangeOf(r) = {r[j] : j \in 1..n}
    BY <1>3 DEF RangeOf
  <2>4. RangeOf(s) = {s[k] : k \in 1..Len(s)}
    BY DEF RangeOf
  <2>. QED  BY <2>1, <2>2, <2>3, <2>4
<1>7. Distinct(r)
  BY <1>1, <1>2, <1>3 DEF Distinct
<1>. QED  BY <1>3, <1>6, <1>7 DEF r, n

-----------------------------------------------------------------------------
(* Messages *)

Owns(m) == IF m.kind \in Owning THEN {m.player} ELSE {}
Owned(es) == UNION {Owns(es[k]) : k \in 1..Len(es)}
Heard(es) == {es[k].player : k \in 1..Len(es)}

(* Nothing follows the message that gives a Player back. *)
Quiet(es) ==
    \A j, k \in 1..Len(es) : j < k => es[k].player \notin Owns(es[j])

LEMMA EventsAppend ==
    ASSUME NEW es \in Seq(Message), NEW m \in Message,
           Quiet(es), m.player \notin Owned(es)
    PROVE  /\ Append(es, m) \in Seq(Message)
           /\ Quiet(Append(es, m))
           /\ Owned(Append(es, m)) = Owned(es) \cup Owns(m)
           /\ Heard(Append(es, m)) = Heard(es) \cup {m.player}
<1>. DEFINE a == Append(es, m)
<1>1. /\ a \in Seq(Message) /\ Len(a) = Len(es) + 1 /\ Len(es) \in Nat
      /\ \A k \in 1..Len(es) : a[k] = es[k]
      /\ a[Len(es) + 1] = m
  BY AppendProperties, LenProperties
<1>. HIDE DEF a
<1>2. \A k \in 1..Len(a) : k \in 1..Len(es) \/ k = Len(es) + 1
  BY <1>1
<1>3. Len(es) + 1 \in 1..Len(a) /\ \A k \in 1..Len(es) : k \in 1..Len(a)
  BY <1>1
<1>4. Owned(a) = Owned(es) \cup Owns(m)
  BY <1>1, <1>2, <1>3 DEF Owned
<1>5. Heard(a) = Heard(es) \cup {m.player}
  BY <1>1, <1>2, <1>3 DEF Heard
<1>6. Quiet(a)
  <2>. SUFFICES ASSUME NEW j \in 1..Len(a), NEW k \in 1..Len(a), j < k
                PROVE  a[k].player \notin Owns(a[j])
    BY DEF Quiet
  <2>1. j \in 1..Len(es) /\ a[j] = es[j]
    BY <1>1
  <2>2. CASE k \in 1..Len(es)
    BY <1>1, <2>1, <2>2 DEF Quiet
  <2>3. CASE k = Len(es) + 1
    BY <1>1, <2>1, <2>3 DEF Owned
  <2>. QED  BY <1>2, <2>2, <2>3
<1>. QED  BY <1>1, <1>4, <1>5, <1>6 DEF a

LEMMA EventsTail ==
    ASSUME NEW es \in Seq(Message), es # <<>>, Quiet(es)
    PROVE  /\ Head(es) \in Message
           /\ Tail(es) \in Seq(Message)
           /\ Quiet(Tail(es))
           /\ Owned(es) = Owned(Tail(es)) \cup Owns(Head(es))
           /\ Heard(Tail(es)) \subseteq Heard(es)
           /\ Heard(Tail(es)) \cap Owns(Head(es)) = {}
           /\ Owned(Tail(es)) \cap Owns(Head(es)) = {}
<1>. DEFINE t == Tail(es)
<1>1. /\ t \in Seq(Message) /\ Len(t) = Len(es) - 1 /\ Len(es) \in Nat \ {0}
      /\ \A k \in 1..Len(t) : t[k] = es[k + 1]
      /\ Head(es) = es[1] /\ Head(es) \in Message
  BY HeadTailProperties, EmptySeq
<1>. HIDE DEF t
<1>2. \A k \in 1..Len(t) : k + 1 \in 1..Len(es) /\ 1 < k + 1
  BY <1>1
<1>3. \A k \in 1..Len(es) : k = 1 \/ (k - 1 \in 1..Len(t) /\ t[k - 1] = es[k])
  BY <1>1
<1>4. 1 \in 1..Len(es)
  BY <1>1
<1>5. Owned(es) = Owned(t) \cup Owns(es[1])
  BY <1>1, <1>2, <1>3, <1>4 DEF Owned
<1>6. Heard(t) \subseteq Heard(es)
  BY <1>1, <1>2 DEF Heard
<1>7. Heard(t) \cap Owns(es[1]) = {}
  BY <1>1, <1>2, <1>4 DEF Heard, Quiet
<1>8. Owned(t) \subseteq Heard(t)
  BY DEF Owned, Owns, Heard
<1>9. Quiet(t)
  BY <1>1, <1>2 DEF Quiet
<1>. QED  BY <1>1, <1>5, <1>6, <1>7, <1>8, <1>9 DEF t

-----------------------------------------------------------------------------
(* The inductive invariant *)

Position ==
    /\ audio.at \in {"buffer", "patch", "halt"} => audio.i \in 1..Len(players)
    /\ audio.at = "visit" => audio.i \in Nat \ {0}
    /\ audio.toRemove # 0 =>
          audio.toRemove \in 1..Len(players) /\ ~alive[players[audio.toRemove]]

(* OnePlace in terms of the sets. *)
Created == {p \in Streams : sender[p] # "none"}

Apart(C, P, E, F, L, all) ==
    /\ C \cap (P \cup E \cup F \cup L) = {}
    /\ P \cap (E \cup F \cup L) = {}
    /\ E \cap (F \cup L) = {}
    /\ F \cap L = {}
    /\ C \cup P \cup E \cup F \cup L = all

Separate ==
    /\ Distinct(control) /\ Distinct(players)
    /\ Apart(RangeOf(control), RangeOf(players), Owned(events), freed, leaked, Created)

Silent ==
    /\ Quiet(events)
    /\ Heard(events) \subseteq Created \ (freed \cup RangeOf(control))

IInv == TypeOK /\ LengthExact /\ AliveInDevice /\ Position /\ Separate /\ Silent

LEMMA InitIInv == Init => IInv
<1>. SUFFICES ASSUME Init PROVE IInv
  OBVIOUS
<1>1. RangeOf(<<>>) = {} /\ Owned(<<>>) = {} /\ Heard(<<>>) = {} /\ Distinct(<<>>)
      /\ Quiet(<<>>)
  BY DEF RangeOf, Owned, Heard, Distinct, Quiet
<1>2. TypeOK
  BY DEF Init, TypeOK
<1>3. LengthExact /\ AliveInDevice /\ Position
  BY PlayersAssumption DEF Init, LengthExact, AliveInDevice, Position
<1>4. Created = {}
  BY DEF Init, Created
<1>5. Separate /\ Silent
  BY <1>1, <1>4 DEF Init, Separate, Apart, Silent
<1>. QED  BY <1>2, <1>3, <1>5 DEF IInv

-----------------------------------------------------------------------------
(* The threads that hold Senders *)

LEMMA NewSenderIInv == ASSUME IInv, NEW p \in Streams, NewSender(p) PROVE IInv'
<1>. USE DEF NewSender, flagVars, deviceVars
<1>1. p \notin Created /\ Created' = Created \cup {p}
  BY DEF IInv, TypeOK, Created
<1>2. p \notin RangeOf(control)
  BY <1>1 DEF IInv, Separate, Apart
<1>3. /\ control' \in Seq(Streams) /\ RangeOf(control') = RangeOf(control) \cup {p}
      /\ Distinct(control')
  BY <1>2, RangeAppend DEF IInv, TypeOK, Separate
<1>4. TypeOK'
  BY <1>3 DEF IInv, TypeOK
<1>5. LengthExact' /\ AliveInDevice' /\ Position'
  BY DEF IInv, LengthExact, AliveInDevice, Position
<1>6. Separate'
  <2>1. Apart(RangeOf(control) \cup {p}, RangeOf(players), Owned(events), freed, leaked,
              Created \cup {p})
    BY <1>1 DEF IInv, Separate, Apart
  <2>. QED  BY <1>1, <1>3, <2>1 DEF IInv, Separate
<1>7. Silent'
  BY <1>1, <1>3 DEF IInv, Silent
<1>. QED  BY <1>4, <1>5, <1>6, <1>7 DEF IInv

LEMMA SetActiveIInv ==
    ASSUME IInv, NEW p \in Played, NEW b \in BOOLEAN, SetActive(p, b) PROVE IInv'
<1>. USE DEF SetActive, deviceVars
<1>1. TypeOK'
  BY PlayersAssumption DEF IInv, TypeOK
<1>2. LengthExact' /\ AliveInDevice' /\ Position'
  BY DEF IInv, LengthExact, AliveInDevice, Position
<1>3. Created' = Created
  BY DEF Created
<1>4. Separate' /\ Silent'
  BY <1>3 DEF IInv, Separate, Silent
<1>. QED  BY <1>1, <1>2, <1>4 DEF IInv

LEMMA SetOutputPatchIInv ==
    ASSUME IInv, NEW p \in Played, NEW c \in Channels \cup {NoPatch}, SetOutputPatch(p, c)
    PROVE  IInv'
<1>. USE DEF SetOutputPatch, deviceVars
<1>1. TypeOK'
  BY PlayersAssumption DEF IInv, TypeOK
<1>2. LengthExact' /\ AliveInDevice' /\ Position'
  BY DEF IInv, LengthExact, AliveInDevice, Position
<1>3. Created' = Created
  BY DEF Created
<1>4. Separate' /\ Silent'
  BY <1>3 DEF IInv, Separate, Silent
<1>. QED  BY <1>1, <1>2, <1>4 DEF IInv

(* Flags that only fall keep what is said of those that are up. *)
LEMMA Falling ==
    ASSUME TypeOK, AliveInDevice, Position, UNCHANGED deviceVars,
           \A p \in Streams : alive'[p] => alive[p]
    PROVE  AliveInDevice' /\ Position'
<1>1. \A k \in 1..Len(players) : players[k] \in Streams
  BY ElementOfSeq DEF TypeOK
<1>2. AliveInDevice'
  BY DEF AliveInDevice, deviceVars
<1>3. Position'
  BY <1>1 DEF Position, deviceVars
<1>. QED  BY <1>2, <1>3

LEMMA DropSenderIInv == ASSUME IInv, NEW p \in Streams, DropSender(p) PROVE IInv'
<1>. USE DEF DropSender
<1>1. TypeOK'
  BY DEF IInv, TypeOK, deviceVars
<1>2. LengthExact'
  BY DEF IInv, LengthExact, deviceVars
<1>3. AliveInDevice' /\ Position'
  <2>1. \A q \in Streams : alive'[q] => alive[q]
    BY DEF IInv, TypeOK
  <2>. QED  BY <2>1, Falling DEF IInv
<1>4. Created' = Created
  BY DEF IInv, TypeOK, Created
<1>5. Separate' /\ Silent'
  BY <1>4 DEF IInv, Separate, Silent, deviceVars
<1>. QED  BY <1>1, <1>2, <1>3, <1>5 DEF IInv

LEMMA ReceiveIInv == ASSUME IInv, Receive PROVE IInv'
<1>. DEFINE owned == Owns(Head(events))
<1>1. /\ events # <<>> /\ events' = Tail(events)
      /\ freed' = freed \cup owned
      /\ active' = [p \in Streams |-> active[p] /\ p \notin owned]
      /\ alive' = [p \in Streams |-> alive[p] /\ p \notin owned]
      /\ UNCHANGED <<sender, outputPatch, deviceVars, control, leaked>>
  BY DEF Receive, Owns
<1>2. /\ Head(events) \in Message /\ events' \in Seq(Message)
      /\ Quiet(events')
      /\ Owned(events) = Owned(events') \cup owned
      /\ Heard(events') \subseteq Heard(events)
      /\ Heard(events') \cap owned = {}
      /\ Owned(events') \cap owned = {}
  BY <1>1, EventsTail DEF IInv, TypeOK, Silent
<1>3. owned \subseteq Streams
  BY <1>2 DEF Owns, Message
<1>. HIDE DEF owned
<1>4. TypeOK'
  <2>1. active' \in [Streams -> BOOLEAN] /\ alive' \in [Streams -> BOOLEAN]
    BY <1>1
  <2>. QED  BY <1>1, <1>2, <1>3, <2>1 DEF IInv, TypeOK, deviceVars
<1>5. LengthExact'
  BY <1>1 DEF IInv, LengthExact, deviceVars
<1>6. AliveInDevice' /\ Position'
  <2>1. \A q \in Streams : alive'[q] => alive[q]
    BY <1>1
  <2>. QED  BY <1>1, <2>1, Falling DEF IInv
<1>7. Created' = Created
  BY <1>1 DEF Created
<1>8. Separate'
  <2>1. Apart(RangeOf(control), RangeOf(players), Owned(events'), freed \cup owned, leaked,
              Created)
    BY <1>2 DEF IInv, Separate, Apart
  <2>. QED  BY <1>1, <1>7, <2>1 DEF IInv, Separate, deviceVars
<1>9. Silent'
  BY <1>1, <1>2, <1>7 DEF IInv, Silent
<1>. QED  BY <1>4, <1>5, <1>6, <1>8, <1>9 DEF IInv

-----------------------------------------------------------------------------
(* The audio thread *)

(* What send does: the Player in the message is owned by it, or forgotten. *)
OwnedBy(kind, p) == IF kind \in Owning THEN {p} ELSE {}

LEMMA SendFacts ==
    ASSUME events \in Seq(Message), Quiet(events),
           NEW kind \in Kinds, NEW p \in Streams, p \notin Owned(events), Send(kind, p)
    PROVE  /\ events' \in Seq(Message) /\ Quiet(events')
           /\ Heard(events') \subseteq Heard(events) \cup {p}
           /\ \/ Owned(events') = Owned(events) \cup OwnedBy(kind, p) /\ leaked' = leaked
              \/ Owned(events') = Owned(events) /\ leaked' = leaked \cup OwnedBy(kind, p)
<1>. DEFINE m == [kind |-> kind, player |-> p]
<1>1. m \in Message /\ m.player = p /\ Owns(m) = OwnedBy(kind, p)
  BY DEF Message, Owns, OwnedBy
<1>2. CASE Len(events) < EventSize
  <2>1. events' = Append(events, m) /\ leaked' = leaked
    BY <1>2 DEF Send
  <2>. HIDE DEF m
  <2>. QED  BY <1>1, <2>1, EventsAppend
<1>3. CASE ~(Len(events) < EventSize)
  <2>1. events' = events /\ leaked' = leaked \cup OwnedBy(kind, p)
    BY <1>3 DEF Send, OwnedBy
  <2>. QED  BY <2>1
<1>. QED  BY <1>2, <1>3

LEMMA VisitedInList ==
    ASSUME TypeOK, Position, audio.at \in {"buffer", "patch", "halt"}
    PROVE  /\ audio.i \in 1..Len(players)
           /\ Visited \in Streams /\ Visited \in RangeOf(players)
<1>1. audio.i \in 1..Len(players)
  BY DEF Position
<1>. QED  BY <1>1, ElementOfSeq DEF TypeOK, Visited, RangeOf

(* A report about a Player of the list moves no Player. *)
LEMMA ReportMovesNone ==
    ASSUME TypeOK, Separate, Silent, NEW kind \in Kinds \ Owning,
           NEW p \in RangeOf(players), p \in Streams,
           Send(kind, p) \/ UNCHANGED <<events, leaked>>,
           UNCHANGED <<sender, players, control, freed>>
    PROVE  events' \in Seq(Message) /\ leaked' = leaked /\ Separate' /\ Silent'
<1>1. p \notin Owned(events) \cup freed \cup RangeOf(control) /\ p \in Created
  BY DEF Separate, Apart
<1>2. OwnedBy(kind, p) = {}
  BY DEF OwnedBy
<1>3. /\ events' \in Seq(Message) /\ Quiet(events') /\ leaked' = leaked
      /\ Heard(events') \subseteq Heard(events) \cup {p}
      /\ Owned(events') = Owned(events)
  <2>1. CASE Send(kind, p)
    <3>1. events \in Seq(Message) /\ Quiet(events) /\ kind \in Kinds
      BY DEF TypeOK, Silent
    <3>2. /\ events' \in Seq(Message) /\ Quiet(events')
          /\ Heard(events') \subseteq Heard(events) \cup {p}
          /\ \/ Owned(events') = Owned(events) \cup OwnedBy(kind, p) /\ leaked' = leaked
             \/ Owned(events') = Owned(events) /\ leaked' = leaked \cup OwnedBy(kind, p)
      BY <1>1, <2>1, <3>1, SendFacts
    <3>. QED  BY <1>2, <3>2
  <2>2. CASE UNCHANGED <<events, leaked>>
    BY <2>2 DEF TypeOK, Silent
  <2>. QED  BY <2>1, <2>2
<1>4. Created' = Created
  BY DEF Created
<1>5. Separate'
  BY <1>3, <1>4 DEF Separate
<1>6. Silent'
  BY <1>1, <1>3, <1>4 DEF Silent
<1>. QED  BY <1>3, <1>5, <1>6

(* The step from a Player to the next, or to the next thing to do with it. *)
LEMMA AudioMoves ==
    ASSUME TypeOK, Position, audio.at \in {"buffer", "patch", "halt"},
           UNCHANGED players, \A p \in Streams : alive'[p] => alive[p],
           NextPlayer \/ \E step \in {"patch", "halt"} : Goto(step)
    PROVE  /\ audio' \in [at : {"idle", "visit", "buffer", "patch", "halt"},
                          i : Nat, toRemove : Nat, outpatch : Channels \cup {NoPatch}]
           /\ Position'
<1>1. audio.i \in 1..Len(players) /\ \A k \in 1..Len(players) : players[k] \in Streams
  BY ElementOfSeq DEF TypeOK, Position
<1>2. audio'.toRemove = audio.toRemove
  BY DEF TypeOK, NextPlayer, NextPlayerRemoving, Goto
<1>3. audio' \in [at : {"idle", "visit", "buffer", "patch", "halt"},
                  i : Nat, toRemove : Nat, outpatch : Channels \cup {NoPatch}]
  BY DEF TypeOK, NextPlayer, NextPlayerRemoving, Goto
<1>4. audio'.at \in {"buffer", "patch", "halt"} => audio'.i = audio.i
  BY DEF TypeOK, NextPlayer, NextPlayerRemoving, Goto
<1>5. audio'.at = "visit" => audio'.i \in Nat \ {0}
  BY <1>1 DEF TypeOK, NextPlayer, NextPlayerRemoving, Goto
<1>. QED  BY <1>1, <1>2, <1>3, <1>4, <1>5 DEF Position

(* A new Player is appended, and told of, or it goes back. *)
LEMMA AddPlayerIInv ==
    ASSUME IInv, At("idle"), control # <<>>,
           audio' = [at |-> "visit", i |-> 1, toRemove |-> 0, outpatch |-> NoPatch],
           control' = Tail(control), AddPlayer(Head(control)),
           UNCHANGED <<sender, active, outputPatch, freed>>
    PROVE  IInv'
<1>. DEFINE p == Head(control)
<1>1. /\ p \in Streams /\ p \in RangeOf(control)
      /\ control' \in Seq(Streams) /\ Distinct(control')
      /\ RangeOf(control') = RangeOf(control) \ {p}
  BY RangeTail DEF IInv, TypeOK, Separate
<1>2. /\ players' = IF Fits THEN Append(players, p) ELSE players
      /\ length' = IF Fits THEN length + 1 ELSE length
      /\ alive' = IF Fits THEN [alive EXCEPT ![p] = TRUE] ELSE alive
      /\ Send(IF Fits THEN "PlayerAdded" ELSE "PlayerRejected", p)
  BY DEF AddPlayer, LengthAdded, AliveAdded
<1>. HIDE DEF p
<1>3. /\ p \notin RangeOf(players) \cup Owned(events) \cup freed \cup leaked
      /\ p \in Created /\ Created' = Created
  BY <1>1 DEF IInv, Separate, Apart, Created
<1>4. /\ events \in Seq(Message) /\ Quiet(events) /\ players \in Seq(Streams)
      /\ Distinct(players) /\ length = Len(players) /\ Len(players) \in Nat
      /\ Len(players) <= MaxPlayers /\ MaxPlayers \in Nat
  BY LenProperties, PlayersAssumption DEF IInv, TypeOK, Silent, Separate, LengthExact
<1>5. CASE Fits
  <2>1. /\ players' = Append(players, p) /\ length' = length + 1
        /\ alive' = [alive EXCEPT ![p] = TRUE] /\ Send("PlayerAdded", p)
    BY <1>2, <1>5
  <2>2. /\ players' \in Seq(Streams) /\ Len(players') = Len(players) + 1
        /\ RangeOf(players') = RangeOf(players) \cup {p} /\ Distinct(players')
    BY <1>1, <1>3, <1>4, <2>1, RangeAppend
  <2>3. OwnedBy("PlayerAdded", p) = {} /\ "PlayerAdded" \in Kinds
    BY DEF OwnedBy, Owning, Kinds
  <2>4. /\ events' \in Seq(Message) /\ Quiet(events')
        /\ Heard(events') \subseteq Heard(events) \cup {p}
        /\ \/ Owned(events') = Owned(events) \cup OwnedBy("PlayerAdded", p) /\ leaked' = leaked
           \/ Owned(events') = Owned(events) /\ leaked' = leaked \cup OwnedBy("PlayerAdded", p)
    BY <1>1, <1>3, <1>4, <2>1, <2>3, SendFacts
  <2>5. Owned(events') = Owned(events) /\ leaked' = leaked
    BY <2>3, <2>4
  <2>6. TypeOK'
    BY <1>1, <2>1, <2>2, <2>4, <2>5 DEF IInv, TypeOK
  <2>7. LengthExact'
    BY <1>4, <1>5, <2>1, <2>2 DEF Fits, LengthExact
  <2>8. AliveInDevice'
    BY <2>1, <2>2 DEF IInv, TypeOK, AliveInDevice
  <2>9. Position'
    BY DEF Position
  <2>10. Separate'
    <3>1. Apart(RangeOf(control) \ {p}, RangeOf(players) \cup {p}, Owned(events), freed,
                leaked, Created)
      BY <1>1, <1>3 DEF IInv, Separate, Apart
    <3>. QED  BY <1>1, <1>3, <2>2, <2>5, <3>1 DEF Separate
  <2>11. Silent'
    BY <1>1, <1>3, <2>4 DEF IInv, Silent
  <2>. QED  BY <2>6, <2>7, <2>8, <2>9, <2>10, <2>11 DEF IInv
<1>6. CASE ~Fits
  <2>1. UNCHANGED <<players, length, alive>> /\ Send("PlayerRejected", p)
    BY <1>2, <1>6
  <2>2. OwnedBy("PlayerRejected", p) = {p} /\ "PlayerRejected" \in Kinds
    BY DEF OwnedBy, Owning, Kinds
  <2>3. /\ events' \in Seq(Message) /\ Quiet(events')
        /\ Heard(events') \subseteq Heard(events) \cup {p}
        /\ \/ Owned(events') = Owned(events) \cup OwnedBy("PlayerRejected", p)
              /\ leaked' = leaked
           \/ /\ Owned(events') = Owned(events)
              /\ leaked' = leaked \cup OwnedBy("PlayerRejected", p)
    BY <1>1, <1>3, <1>4, <2>1, <2>2, SendFacts
  <2>4. TypeOK'
    BY <1>1, <2>1, <2>2, <2>3 DEF IInv, TypeOK
  <2>5. LengthExact' /\ AliveInDevice' /\ Position'
    BY <2>1 DEF IInv, LengthExact, AliveInDevice, Position
  <2>6. Separate'
    <3>1. Apart(RangeOf(control) \ {p}, RangeOf(players), Owned(events'), freed, leaked', Created)
      BY <1>1, <1>3, <2>2, <2>3 DEF IInv, Separate, Apart
    <3>. QED  BY <1>1, <1>3, <1>4, <2>1, <3>1 DEF Separate
  <2>7. Silent'
    BY <1>1, <1>3, <2>3 DEF IInv, Silent
  <2>. QED  BY <2>4, <2>5, <2>6, <2>7 DEF IInv
<1>. QED  BY <1>5, <1>6

LEMMA BeginIInv == ASSUME IInv, Begin PROVE IInv'
<1>1. CASE control = <<>>
  <2>1. /\ UNCHANGED <<sender, active, outputPatch, freed, control, players, length, alive,
                       events, leaked>>
        /\ audio' = [at |-> "visit", i |-> 1, toRemove |-> 0, outpatch |-> NoPatch]
    BY <1>1 DEF Begin
  <2>2. TypeOK'
    BY <2>1 DEF IInv, TypeOK
  <2>3. LengthExact' /\ AliveInDevice' /\ Position'
    BY <2>1 DEF IInv, LengthExact, AliveInDevice, Position
  <2>4. Separate' /\ Silent'
    BY <2>1 DEF IInv, Separate, Silent, Created
  <2>. QED  BY <2>2, <2>3, <2>4 DEF IInv
<1>2. CASE control # <<>>
  BY <1>2, AddPlayerIInv DEF Begin
<1>. QED  BY <1>1, <1>2

LEMMA VisitIInv == ASSUME IInv, Visit PROVE IInv'
<1>1. /\ audio.at = "visit" /\ audio.i \in 1..Len(players) /\ Visited = players[audio.i]
      /\ Visited \in Streams /\ Len(players) \in Nat
      /\ UNCHANGED <<sender, active, alive, outputPatch, length, players, control, events,
                     freed, leaked>>
  BY LenProperties, ElementOfSeq
     DEF IInv, TypeOK, Position, Visit, Visited, At, flagVars
<1>2. TypeOK'
  BY <1>1 DEF IInv, TypeOK, Visit, NextPlayer, NextPlayerRemoving
<1>3. LengthExact' /\ AliveInDevice'
  BY <1>1 DEF IInv, LengthExact, AliveInDevice
<1>4. Position'
  <2>1. /\ audio'.at = "visit" => audio'.i \in Nat \ {0}
        /\ audio'.at \in {"buffer", "patch", "halt"} => audio'.i = audio.i
    BY <1>1 DEF IInv, TypeOK, Visit, NextPlayer, NextPlayerRemoving
  <2>2. \/ audio'.toRemove = audio.toRemove
        \/ audio'.toRemove = audio.i /\ ~alive[Visited]
    BY DEF Visit, NextPlayer, NextPlayerRemoving
  <2>. QED  BY <1>1, <2>1, <2>2 DEF IInv, Position
<1>5. Separate' /\ Silent'
  BY <1>1 DEF IInv, Separate, Silent, Created
<1>. QED  BY <1>2, <1>3, <1>4, <1>5 DEF IInv

LEMMA UnderrunIInv == ASSUME IInv, Underrun PROVE IInv'
<1>1. /\ audio.at = "buffer" /\ NextPlayer
      /\ UNCHANGED <<sender, active, outputPatch, length, players, control, freed>>
      /\ Visited \in Streams /\ Visited \in RangeOf(players)
  BY VisitedInList DEF IInv, Underrun, At
<1>2. /\ alive' \in [Streams -> BOOLEAN]
      /\ \A p \in Streams : alive'[p] => alive[p]
  BY DEF IInv, TypeOK, Underrun
<1>3. events' \in Seq(Message) /\ leaked' = leaked /\ Separate' /\ Silent'
  <2>1. "PlayerBufEmpty" \in Kinds \ Owning
    BY DEF Kinds, Owning
  <2>2. Send("PlayerBufEmpty", Visited) \/ UNCHANGED <<events, leaked>>
    BY DEF Underrun
  <2>. QED  BY <1>1, <2>1, <2>2, ReportMovesNone DEF IInv
<1>4. /\ audio' \in [at : {"idle", "visit", "buffer", "patch", "halt"},
                     i : Nat, toRemove : Nat, outpatch : Channels \cup {NoPatch}]
      /\ Position'
  BY <1>1, <1>2, AudioMoves DEF IInv
<1>5. TypeOK'
  BY <1>1, <1>2, <1>3, <1>4 DEF IInv, TypeOK
<1>6. LengthExact' /\ AliveInDevice'
  BY <1>1, <1>2 DEF IInv, LengthExact, AliveInDevice
<1>. QED  BY <1>3, <1>4, <1>5, <1>6 DEF IInv

(* The steps of a visit that leave the alive flags alone. *)
LEMMA ReportIInv ==
    ASSUME IInv, audio.at \in {"buffer", "patch", "halt"},
           NextPlayer \/ \E step \in {"patch", "halt"} : Goto(step),
           NEW kind \in Kinds \ Owning,
           Send(kind, Visited) \/ UNCHANGED <<events, leaked>>,
           active' \in [Streams -> BOOLEAN],
           UNCHANGED <<sender, alive, outputPatch, length, players, control, freed>>
    PROVE  IInv'
<1>1. Visited \in Streams /\ Visited \in RangeOf(players)
  BY VisitedInList DEF IInv
<1>2. events' \in Seq(Message) /\ leaked' = leaked /\ Separate' /\ Silent'
  BY <1>1, ReportMovesNone DEF IInv
<1>3. /\ audio' \in [at : {"idle", "visit", "buffer", "patch", "halt"},
                     i : Nat, toRemove : Nat, outpatch : Channels \cup {NoPatch}]
      /\ Position'
  BY AudioMoves DEF IInv
<1>4. TypeOK'
  BY <1>2, <1>3 DEF IInv, TypeOK
<1>5. LengthExact' /\ AliveInDevice'
  BY DEF IInv, LengthExact, AliveInDevice
<1>. QED  BY <1>2, <1>3, <1>4, <1>5 DEF IInv

LEMMA FilledIInv == ASSUME IInv, Filled PROVE IInv'
<1>1. "PlayerBufHalf" \in Kinds \ Owning
  BY DEF Kinds, Owning
<1>2. /\ audio.at \in {"buffer", "patch", "halt"}
      /\ NextPlayer \/ \E step \in {"patch", "halt"} : Goto(step)
      /\ Send("PlayerBufHalf", Visited) \/ UNCHANGED <<events, leaked>>
      /\ UNCHANGED <<sender, alive, outputPatch, length, players, control, freed>>
      /\ active' \in [Streams -> BOOLEAN]
  BY DEF IInv, TypeOK, Filled, At, flagVars
<1>. QED  BY <1>1, <1>2, ReportIInv

LEMMA InvalidOutpatchIInv == ASSUME IInv, InvalidOutpatch PROVE IInv'
<1>1. "PlayerInvalidOutpatch" \in Kinds \ Owning
  BY DEF Kinds, Owning
<1>2. /\ audio.at \in {"buffer", "patch", "halt"}
      /\ NextPlayer \/ \E step \in {"patch", "halt"} : Goto(step)
      /\ Send("PlayerInvalidOutpatch", Visited) \/ UNCHANGED <<events, leaked>>
      /\ UNCHANGED <<sender, alive, outputPatch, length, players, control, freed>>
      /\ active' \in [Streams -> BOOLEAN]
  BY DEF IInv, TypeOK, InvalidOutpatch, At, flagVars
<1>. QED  BY <1>1, <1>2, ReportIInv

LEMMA SilentStepIInv == ASSUME IInv, Write \/ Halt PROVE IInv'
<1>1. "PlayerBufHalf" \in Kinds \ Owning
  BY DEF Kinds, Owning
<1>2. active' \in [Streams -> BOOLEAN]
  BY DEF IInv, TypeOK, Write, Halt, flagVars
<1>3. /\ audio.at \in {"buffer", "patch", "halt"}
      /\ NextPlayer \/ \E step \in {"patch", "halt"} : Goto(step)
      /\ Send("PlayerBufHalf", Visited) \/ UNCHANGED <<events, leaked>>
      /\ UNCHANGED <<sender, alive, outputPatch, length, players, control, freed>>
  BY DEF Write, Halt, At, flagVars
<1>. QED  BY <1>1, <1>2, <1>3, ReportIInv

LEMMA FinishIInv == ASSUME IInv, Finish PROVE IInv'
<1>1. /\ audio' = [at |-> "idle", i |-> 0, toRemove |-> 0, outpatch |-> NoPatch]
      /\ UNCHANGED <<sender, active, alive, outputPatch, control, freed>>
      /\ Created' = Created
  BY DEF Finish, flagVars, Created
<1>2. Position'
  BY <1>1 DEF Position
<1>3. CASE NoneToRemove
  <2>1. UNCHANGED <<players, length, events, leaked>>
    BY <1>3 DEF Finish
  <2>2. TypeOK'
    BY <1>1, <2>1 DEF IInv, TypeOK
  <2>3. LengthExact' /\ AliveInDevice'
    BY <1>1, <2>1 DEF IInv, LengthExact, AliveInDevice
  <2>4. Separate' /\ Silent'
    BY <1>1, <2>1 DEF IInv, Separate, Silent
  <2>. QED  BY <1>2, <2>2, <2>3, <2>4 DEF IInv
<1>4. CASE ~NoneToRemove
  <2>. DEFINE r == audio.toRemove
              p == players[r]
  <2>1. /\ players' = SwapRemove(players, r) /\ length' = length - 1
        /\ Send("PlayerRemoved", p)
    BY <1>4 DEF Finish
  <2>2. /\ r \in 1..Len(players) /\ ~alive[p] /\ p \in Streams /\ p \in RangeOf(players)
        /\ players \in Seq(Streams) /\ Distinct(players)
        /\ events \in Seq(Message) /\ Quiet(events)
        /\ length = Len(players) /\ Len(players) \in Nat \ {0}
    BY <1>4, LenProperties, ElementOfSeq
       DEF IInv, TypeOK, Position, Separate, Silent, NoneToRemove, LengthExact, RangeOf
  <2>3. /\ SwapRemove(players, r) \in Seq(Streams)
        /\ Len(SwapRemove(players, r)) = Len(players) - 1
        /\ RangeOf(SwapRemove(players, r)) = RangeOf(players) \ {p}
        /\ Distinct(SwapRemove(players, r))
    BY <2>2, RangeSwapRemove
  <2>. HIDE DEF p, r
  <2>4. /\ players' \in Seq(Streams) /\ Len(players') = Len(players) - 1
        /\ RangeOf(players') = RangeOf(players) \ {p} /\ Distinct(players')
    BY <2>1, <2>3
  <2>5. /\ p \notin RangeOf(control) \cup Owned(events) \cup freed \cup leaked
        /\ p \in Created
    BY <2>2 DEF IInv, Separate, Apart
  <2>6. OwnedBy("PlayerRemoved", p) = {p} /\ "PlayerRemoved" \in Kinds
    BY DEF OwnedBy, Owning, Kinds
  <2>7. /\ events' \in Seq(Message) /\ Quiet(events')
        /\ Heard(events') \subseteq Heard(events) \cup {p}
        /\ \/ Owned(events') = Owned(events) \cup OwnedBy("PlayerRemoved", p)
              /\ leaked' = leaked
           \/ /\ Owned(events') = Owned(events)
              /\ leaked' = leaked \cup OwnedBy("PlayerRemoved", p)
    BY <2>1, <2>2, <2>5, <2>6, SendFacts
  <2>8. TypeOK'
    BY <1>1, <2>1, <2>2, <2>4, <2>6, <2>7 DEF IInv, TypeOK
  <2>9. LengthExact' /\ AliveInDevice'
    BY <1>1, <2>1, <2>2, <2>4, PlayersAssumption DEF IInv, LengthExact, AliveInDevice
  <2>10. Separate'
    <3>1. Apart(RangeOf(control), RangeOf(players) \ {p}, Owned(events'), freed, leaked', Created)
      BY <2>2, <2>5, <2>6, <2>7 DEF IInv, Separate, Apart
    <3>. QED  BY <1>1, <2>4, <3>1 DEF IInv, Separate
  <2>11. Silent'
    BY <1>1, <2>5, <2>7 DEF IInv, Silent
  <2>. QED  BY <1>2, <2>8, <2>9, <2>10, <2>11 DEF IInv
<1>. QED  BY <1>3, <1>4

-----------------------------------------------------------------------------
(* The theorems *)

LEMMA StepIInv == IInv /\ [Next]_vars => IInv'
<1>. SUFFICES ASSUME IInv, [Next]_vars PROVE IInv'
  OBVIOUS
<1>1. CASE UNCHANGED vars
  BY <1>1
     DEF IInv, TypeOK, LengthExact, AliveInDevice, Position, Separate, Silent, Created, vars,
         flagVars, deviceVars
<1>2. CASE Callback
  BY <1>2, BeginIInv, VisitIInv, UnderrunIInv, FilledIInv, InvalidOutpatchIInv,
     SilentStepIInv, FinishIInv DEF Callback
<1>. QED
  BY <1>1, <1>2, NewSenderIInv, SetActiveIInv, SetOutputPatchIInv, DropSenderIInv, ReceiveIInv
     DEF Next

(* The strengthened invariant holds in every reachable state. *)
THEOREM Inductive == Spec => []IInv
  BY InitIInv, StepIInv, PTL DEF Spec

(* Every variable of the threads and of the callback has its type. *)
THEOREM TypeCorrect == Spec => []TypeOK
<1>1. IInv => TypeOK
  BY DEF IInv
<1>. QED  BY <1>1, Inductive, PTL

(* num_senders counts the list of the audio thread, and it never exceeds   *)
(* its capacity, whatever MAX_PLAYERS is.                                  *)
THEOREM LengthAlwaysExact == Spec => []LengthExact
<1>1. IInv => LengthExact
  BY DEF IInv
<1>. QED  BY <1>1, Inductive, PTL

(* A stream with its alive flag up is in the list of the audio thread. *)
THEOREM AliveAlwaysInDevice == Spec => []AliveInDevice
<1>1. IInv => AliveInDevice
  BY DEF IInv
<1>. QED  BY <1>1, Inductive, PTL

LEMMA InEventsOwned ==
    ASSUME events \in Seq(Message)
    PROVE  InEvents = Owned(events)
<1>1. \A k \in 1..Len(events), p \in Streams :
        p \in Owns(events[k]) <=> events[k].kind \in Owning /\ p = events[k].player
  BY DEF Owns
<1>. QED  BY <1>1 DEF InEvents, OwningEvents, Owned, Owns

(* Each Player is queued, in the list, on its way back, deallocated or     *)
(* forgotten, in exactly one of these places and once: the audio thread    *)
(* uses no Player that was freed, and none is freed twice.                 *)
THEOREM AlwaysOnePlace == Spec => []OnePlace
<1>1. IInv => OnePlace
  <2>. SUFFICES ASSUME IInv PROVE OnePlace
    OBVIOUS
  <2>1. InEvents = Owned(events)
    BY InEventsOwned DEF IInv, TypeOK
  <2>2. Apart(RangeOf(control), RangeOf(players), InEvents, freed, leaked, Created)
    BY <2>1 DEF IInv, Separate
  <2>3. UNION {Places[k] : k \in 1..5} = {p \in Streams : sender[p] # "none"}
    <3>1. UNION {Places[k] : k \in 1..5}
            = Places[1] \cup Places[2] \cup Places[3] \cup Places[4] \cup Places[5]
      <4>1. \A k \in 1..5 : k = 1 \/ k = 2 \/ k = 3 \/ k = 4 \/ k = 5
        OBVIOUS
      <4>2. 1 \in 1..5 /\ 2 \in 1..5 /\ 3 \in 1..5 /\ 4 \in 1..5 /\ 5 \in 1..5
        OBVIOUS
      <4>. QED  BY <4>1, <4>2
    <3>2. /\ Places[1] = RangeOf(control) /\ Places[2] = RangeOf(players)
          /\ Places[3] = InEvents /\ Places[4] = freed /\ Places[5] = leaked
      BY DEF Places
    <3>. QED  BY <2>2, <3>1, <3>2 DEF Apart, Created
  <2>4. \A j, k \in 1..5 : j # k => Places[j] \cap Places[k] = {}
    BY <2>2 DEF Apart, Places
  <2>5. \A j, k \in OwningEvents : events[j].player = events[k].player => j = k
    <3>. SUFFICES ASSUME NEW j \in OwningEvents, NEW k \in OwningEvents,
                         events[j].player = events[k].player, j # k
                  PROVE  FALSE
      OBVIOUS
    <3>1. j \in 1..Len(events) /\ k \in 1..Len(events)
      BY DEF OwningEvents
    <3>2. Owns(events[j]) = {events[j].player} /\ Owns(events[k]) = {events[k].player}
      BY DEF OwningEvents, Owns
    <3>3. ~(j < k) /\ ~(k < j)
      BY <3>1, <3>2 DEF IInv, Silent, Quiet
    <3>. QED  BY <3>1, <3>3
  <2>. QED  BY <2>3, <2>4, <2>5 DEF OnePlace, IInv, Separate
<1>. QED  BY <1>1, Inductive, PTL

(* The main thread hears of no stream after it got its Player back, and of *)
(* none whose Player is still in the command queue.                        *)
THEOREM AlwaysSilentAfterReturn == Spec => []NoMessageAfterReturn
<1>1. IInv => NoMessageAfterReturn
  <2>. SUFFICES ASSUME IInv PROVE NoMessageAfterReturn
    OBVIOUS
  <2>1. \A j, k \in 1..Len(events) :
          j < k /\ events[j].kind \in Owning => events[k].player # events[j].player
    BY DEF IInv, Silent, Quiet, Owns
  <2>2. \A k \in 1..Len(events) : events[k].player \notin freed \cup RangeOf(control)
    BY DEF IInv, Silent, Heard
  <2>. QED  BY <2>1, <2>2 DEF NoMessageAfterReturn
<1>. QED  BY <1>1, Inductive, PTL
=============================================================================
