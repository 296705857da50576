-------------------------- MODULE MCServices_proofs --------------------------
(***************************************************************************)
(* Proofs about MCServices: what its parts promise, for every value of the *)
(* constants.  A part steps only when it is in use, and so an invariant of *)
(* a part is one of the sum.                                               *)
(***************************************************************************)
EXTENDS MCServices, Connections_proofs, SequenceTheorems, FiniteSetTheorems,
        WellFoundedInduction, TLAPS

-----------------------------------------------------------------------------
(* Waveforms: the inductive invariant *)

WaveCommands ==
    [kind : {"UpdateActionParams"}, params : W!Params]
      \cup [kind : {"GenerateWaveform"}, uuid : W!Uuids, file : Files]
WaveReplies ==
    [kind : {"UpdateActionInfo"}, params : W!Params]
      \cup [kind : {"WaveformGenerated"}, uuid : W!Uuids, res : Files \cup {"Err"}]

WaveTypes == W!TypeOK /\ waveUp \in Seq(WaveCommands) /\ waveDown \in Seq(WaveReplies)

(* The UUIDs in what the editor and the server have are ones that were made. *)
Known(p) == p.wave <= Len(waveMade)
UuidsKnown ==
    /\ Known(params) /\ Known(ui)
    /\ \A k \in 1..Len(waveUp) :
          IF waveUp[k].kind = "UpdateActionParams" THEN Known(waveUp[k].params)
          ELSE waveUp[k].uuid <= Len(waveMade)
    /\ \A k \in 1..Len(waveDown) :
          IF waveDown[k].kind = "UpdateActionInfo" THEN Known(waveDown[k].params)
          ELSE waveDown[k].uuid <= Len(waveMade)
    /\ \A u \in DOMAIN active \cup DOMAIN completed : u <= Len(waveMade)
    /\ \A k \in 1..Len(done) : Known(done[k].undo) /\ Known(done[k].redo)
    /\ \A k \in 1..Len(undone) : Known(undone[k].undo) /\ Known(undone[k].redo)

(* Parameters that are on their way. *)
Updates(q) == {k \in 1..Len(q) : W!Carries(q[k])}

(* The last parameters sent to the editor are those of the server, and so  *)
(* are the editor's if none are on their way.                              *)
LastIsCurrent ==
    /\ \A k \in Updates(waveDown) :
          (\A j \in Updates(waveDown) : j <= k) => waveDown[k].params = params
    /\ Updates(waveUp) = {} /\ Updates(waveDown) = {} => ui = params

(* Each change in the history starts from the file that the one before it  *)
(* left, and the file of the server is the one that the history is at.     *)
Chained ==
    /\ done # <<>> => done[Len(done)].redo.url = params.url
    /\ \A k \in 1..(Len(done) - 1) : done[k].redo.url = done[k + 1].undo.url
    /\ undone # <<>> => undone[Len(undone)].undo.url = params.url
    /\ \A k \in 1..(Len(undone) - 1) : undone[k].undo.url = undone[k + 1].redo.url

(* What is shown, or on its way to be, is what the server keeps for its     *)
(* UUID: that never changes.                                                *)
IsKept(u, res) == u \in DOMAIN completed /\ completed[u] = res
ShownIsKept ==
    /\ wave # NoFile => IsKept(ui.wave, wave)
    /\ \A k \in 1..Len(waveDown) :
          waveDown[k].kind = "WaveformGenerated" /\ waveDown[k].res # "Err" =>
              IsKept(waveDown[k].uuid, waveDown[k].res)

(* The UUIDs that the server has seen, and the requests for one. *)
Seen == DOMAIN active \cup DOMAIN completed
RequestsFor(q, u) ==
    {k \in 1..Len(q) : q[k].kind = "GenerateWaveform" /\ q[k].uuid = u}

(* As long as no request failed, the waveform of a UUID is that of the file *)
(* it was made for, as the first request for it was sent with it.           *)
FirstIsFor(u) ==
    \A k \in RequestsFor(waveUp, u) :
        (\A j \in RequestsFor(waveUp, u) : k <= j) => waveUp[k].file = waveMade[u]
RequestsRight ==
    /\ \A u \in DOMAIN active :
          active[u].file = waveMade[u] /\ active[u].thread \in {"running", "Ok"}
    /\ \A u \in DOMAIN completed : completed[u] = waveMade[u]
    /\ \A u \in (1..Len(waveMade)) \ Seen : RequestsFor(waveUp, u) # {} /\ FirstIsFor(u)

(* As long as no file was sent twice with the UUID of the one before, the   *)
(* server's UUID is of its file: an update whose UUID is of another file    *)
(* has a file that the server does not know when it takes it, neither from  *)
(* the update before nor from its own parameters, and loses the UUID.       *)
FitsIn(r) == W!Fits(r.undo) /\ (W!Fits(r.redo) \/ r.redo.url # r.undo.url)
HistoryFits ==
    /\ \A k \in 1..Len(done) : FitsIn(done[k])
    /\ \A k \in 1..Len(undone) : FitsIn(undone[k])
ComesAsNew(k) ==
    /\ \A j \in Updates(waveUp) : j < k => waveUp[j].params.url # waveUp[k].params.url
    /\ (\A j \in Updates(waveUp) : k <= j) => params.url # waveUp[k].params.url
UpdatesFit == \A k \in Updates(waveUp) : W!Fits(waveUp[k].params) \/ ComesAsNew(k)
Fitting == W!Fits(params) /\ HistoryFits /\ UpdatesFit

WaveInv ==
    /\ WaveTypes /\ UuidsKnown /\ LastIsCurrent /\ Chained /\ ShownIsKept
    /\ ~failed => RequestsRight
    /\ ~hasty => Fitting

-----------------------------------------------------------------------------
(* Waveforms: queues with a message more or less *)

LEMMA AppendedTo ==
    ASSUME NEW S, NEW q \in Seq(S), NEW x \in S
    PROVE  /\ Append(q, x) \in Seq(S) /\ Len(q) \in Nat
           /\ Len(Append(q, x)) = Len(q) + 1
           /\ \A k \in 1..Len(q) : Append(q, x)[k] = q[k]
           /\ Append(q, x)[Len(q) + 1] = x
           /\ \A k \in 1..(Len(q) + 1) : k \in 1..Len(q) \/ k = Len(q) + 1
<1>1. /\ Append(q, x) \in Seq(S) /\ Len(Append(q, x)) = Len(q) + 1
      /\ \A k \in 1..Len(q) : Append(q, x)[k] = q[k]
      /\ Append(q, x)[Len(q) + 1] = x
  BY AppendProperties
<1>2. Len(q) \in Nat
  BY LenProperties
<1>3. \A k \in 1..(Len(q) + 1) : k \in 1..Len(q) \/ k = Len(q) + 1
  BY <1>2
<1>. QED  BY <1>1, <1>2, <1>3

LEMMA UpdatesAppended ==
    ASSUME NEW S, NEW q \in Seq(S), NEW x \in S
    PROVE  /\ W!Carries(x) => Updates(Append(q, x)) = Updates(q) \cup {Len(q) + 1}
           /\ ~W!Carries(x) => Updates(Append(q, x)) = Updates(q)
<1>. DEFINE r == Append(q, x)
            n == Len(q)
<1>1. /\ n \in Nat /\ Len(r) = n + 1 /\ r[n + 1] = x
      /\ \A k \in 1..n : r[k] = q[k]
      /\ \A k \in 1..(n + 1) : k \in 1..n \/ k = n + 1
  BY AppendedTo
<1>. HIDE DEF r, n
<1>2. n + 1 \in 1..(n + 1) /\ n + 1 \notin 1..n /\ \A k \in 1..n : k \in 1..(n + 1)
  BY <1>1
<1>3. Updates(q) = {k \in 1..n : W!Carries(q[k])} /\ Updates(r) = {k \in 1..(n + 1) : W!Carries(r[k])}
  BY <1>1 DEF Updates, n
<1>4. W!Carries(x) => Updates(r) = Updates(q) \cup {n + 1}
  BY <1>1, <1>2, <1>3
<1>5. ~W!Carries(x) => Updates(r) = Updates(q)
  BY <1>1, <1>2, <1>3
<1>. QED  BY <1>4, <1>5 DEF r, n

LEMMA RequestsAppended ==
    ASSUME NEW S, NEW q \in Seq(S), NEW x \in S, NEW u
    PROVE  /\ x.kind = "GenerateWaveform" /\ x.uuid = u =>
                RequestsFor(Append(q, x), u) = RequestsFor(q, u) \cup {Len(q) + 1}
           /\ ~(x.kind = "GenerateWaveform" /\ x.uuid = u) =>
                RequestsFor(Append(q, x), u) = RequestsFor(q, u)
<1>. DEFINE r == Append(q, x)
            n == Len(q)
            Asks(m) == m.kind = "GenerateWaveform" /\ m.uuid = u
<1>1. /\ n \in Nat /\ Len(r) = n + 1 /\ r[n + 1] = x
      /\ \A k \in 1..n : r[k] = q[k]
      /\ \A k \in 1..(n + 1) : k \in 1..n \/ k = n + 1
  BY AppendedTo
<1>. HIDE DEF r, n
<1>2. n + 1 \in 1..(n + 1) /\ n + 1 \notin 1..n /\ \A k \in 1..n : k \in 1..(n + 1)
  BY <1>1
<1>3. RequestsFor(q, u) = {k \in 1..n : Asks(q[k])} /\ RequestsFor(r, u) = {k \in 1..(n + 1) : Asks(r[k])}
  BY <1>1 DEF RequestsFor, n
<1>. HIDE DEF Asks
<1>4. Asks(x) => RequestsFor(r, u) = RequestsFor(q, u) \cup {n + 1}
  BY <1>1, <1>2, <1>3
<1>5. ~Asks(x) => RequestsFor(r, u) = RequestsFor(q, u)
  BY <1>1, <1>2, <1>3
<1>. QED  BY <1>4, <1>5 DEF r, n, Asks

LEMMA TakenFrom ==
    ASSUME NEW S, NEW q \in Seq(S), q # <<>>
    PROVE  /\ Tail(q) \in Seq(S) /\ Len(q) \in Nat \ {0} /\ Len(Tail(q)) = Len(q) - 1
           /\ \A k \in 1..Len(Tail(q)) : Tail(q)[k] = q[k + 1] /\ k + 1 \in 1..Len(q)
           /\ Head(q) = q[1] /\ Head(q) \in S /\ 1 \in 1..Len(q)
           /\ \A k \in 1..Len(q) : k = 1 \/ k - 1 \in 1..Len(Tail(q))
<1>1. /\ Tail(q) \in Seq(S) /\ Len(Tail(q)) = Len(q) - 1 /\ Head(q) \in S
      /\ \A k \in 1..Len(Tail(q)) : Tail(q)[k] = q[k + 1]
  BY HeadTailProperties
<1>2. Len(q) \in Nat \ {0}
  BY EmptySeq
<1>3. Head(q) = q[1]
  OBVIOUS
<1>. QED  BY <1>1, <1>2, <1>3

LEMMA LastTaken ==
    ASSUME NEW S, NEW q \in Seq(S), q # <<>>
    PROVE  LET n == Len(q)
               r == SubSeq(q, 1, n - 1)
           IN  r \in Seq(S) /\ Len(r) = n - 1 /\ \A k \in 1..(n - 1) : r[k] = q[k] /\ k \in 1..n
<1>. DEFINE n == Len(q)
            r == SubSeq(q, 1, n - 1)
<1>1. n \in Nat \ {0}
  BY EmptySeq
<1>2. \A k \in 1..(n - 1) : k \in 1..n
  BY <1>1
<1>3. \A k \in 1..(n - 1) : q[k] \in S
  BY <1>2, ElementOfSeq
<1>4. r = [k \in 1..(n - 1) |-> q[k]]
  BY <1>1, <1>2
<1>. HIDE DEF r
<1>5. r \in Seq(S) /\ Len(r) = n - 1
  <2>1. n - 1 \in Nat
    BY <1>1
  <2>. HIDE DEF n
  <2>. QED  BY <1>3, <1>4, <2>1
<1>. QED  BY <1>2, <1>4, <1>5 DEF r

LEMMA UpdatesTaken ==
    ASSUME NEW S, NEW q \in Seq(S), q # <<>>
    PROVE  /\ \A k \in Updates(Tail(q)) : k + 1 \in Updates(q) /\ Tail(q)[k] = q[k + 1] /\ k \in Nat
           /\ \A k \in Updates(q) : k = 1 \/ k - 1 \in Updates(Tail(q))
           /\ 1 \in Updates(q) <=> W!Carries(Head(q))
           /\ Updates(q) \in SUBSET Nat
<1>. DEFINE r == Tail(q)
<1>1. /\ Len(q) \in Nat \ {0} /\ Len(r) = Len(q) - 1
      /\ \A k \in 1..Len(r) : r[k] = q[k + 1] /\ k + 1 \in 1..Len(q)
      /\ Head(q) = q[1] /\ 1 \in 1..Len(q)
      /\ \A k \in 1..Len(q) : k = 1 \/ k - 1 \in 1..Len(r)
  BY TakenFrom
<1>. HIDE DEF r
<1>2. \A k \in Updates(r) : k + 1 \in Updates(q) /\ r[k] = q[k + 1] /\ k \in Nat
  BY <1>1 DEF Updates
<1>3. ASSUME NEW k \in Updates(q), k # 1 PROVE k - 1 \in Updates(r)
  <2>1. k \in 1..Len(q) /\ W!Carries(q[k]) /\ k - 1 \in 1..Len(r) /\ k - 1 + 1 = k
    BY <1>1, <1>3 DEF Updates
  <2>2. r[k - 1] = q[k]
    BY <1>1, <2>1
  <2>. QED  BY <2>1, <2>2 DEF Updates
<1>4. (1 \in Updates(q) <=> W!Carries(Head(q))) /\ Updates(q) \in SUBSET Nat
  BY <1>1 DEF Updates
<1>. QED  BY <1>2, <1>3, <1>4 DEF r

LEMMA RequestsTaken ==
    ASSUME NEW S, NEW q \in Seq(S), q # <<>>, NEW u
    PROVE  /\ \A k \in RequestsFor(Tail(q), u) :
                  k + 1 \in RequestsFor(q, u) /\ Tail(q)[k] = q[k + 1] /\ k \in Nat
           /\ \A k \in RequestsFor(q, u) : k = 1 \/ k - 1 \in RequestsFor(Tail(q), u)
           /\ 1 \in RequestsFor(q, u) <=> Head(q).kind = "GenerateWaveform" /\ Head(q).uuid = u
           /\ RequestsFor(q, u) \in SUBSET Nat
<1>. DEFINE r == Tail(q)
            Asks(m) == m.kind = "GenerateWaveform" /\ m.uuid = u
<1>1. /\ Len(q) \in Nat \ {0} /\ Len(r) = Len(q) - 1
      /\ \A k \in 1..Len(r) : r[k] = q[k + 1] /\ k + 1 \in 1..Len(q)
      /\ Head(q) = q[1] /\ 1 \in 1..Len(q)
      /\ \A k \in 1..Len(q) : k = 1 \/ k - 1 \in 1..Len(r)
  BY TakenFrom
<1>. HIDE DEF r
<1>2. /\ \A k : k \in RequestsFor(q, u) <=> k \in 1..Len(q) /\ Asks(q[k])
      /\ \A k : k \in RequestsFor(r, u) <=> k \in 1..Len(r) /\ Asks(r[k])
  BY DEF RequestsFor
<1>3. Asks(Head(q)) <=> Head(q).kind = "GenerateWaveform" /\ Head(q).uuid = u
  OBVIOUS
<1>. HIDE DEF Asks
<1>4. \A k \in RequestsFor(r, u) : k + 1 \in RequestsFor(q, u) /\ r[k] = q[k + 1] /\ k \in Nat
  BY <1>1, <1>2
<1>5. ASSUME NEW k \in RequestsFor(q, u), k # 1 PROVE k - 1 \in RequestsFor(r, u)
  <2>1. k \in 1..Len(q) /\ Asks(q[k]) /\ k - 1 \in 1..Len(r) /\ k - 1 + 1 = k
    BY <1>1, <1>2, <1>5
  <2>2. r[k - 1] = q[k]
    BY <1>1, <2>1
  <2>. QED  BY <1>2, <2>1, <2>2
<1>6. (1 \in RequestsFor(q, u) <=> Asks(Head(q))) /\ RequestsFor(q, u) \in SUBSET Nat
  BY <1>1, <1>2
<1>. QED  BY <1>3, <1>4, <1>5, <1>6 DEF r

(* Replies that carry no parameters are sent together. *)
LEMMA RepliesSent ==
    ASSUME NEW S, NEW q \in Seq(S), NEW r \in Seq(S), \A i \in 1..Len(r) : ~W!Carries(r[i])
    PROVE  /\ q \o r \in Seq(S)
           /\ \A k \in 1..Len(q) : (q \o r)[k] = q[k]
           /\ \A k \in 1..Len(q \o r) : k \in 1..Len(q) \/ \E i \in 1..Len(r) : (q \o r)[k] = r[i]
           /\ Updates(q \o r) = Updates(q)
<1>. DEFINE n == Len(q)
            o == Len(r)
            c == q \o r
<1>1. n \in Nat /\ o \in Nat
  BY LenProperties
<1>2. /\ c \in Seq(S) /\ Len(c) = n + o
      /\ \A k \in 1..(n + o) : c[k] = IF k <= n THEN q[k] ELSE r[k - n]
  BY ConcatProperties
<1>3. /\ \A k \in 1..n : k \in 1..(n + o) /\ k <= n
      /\ \A k \in 1..(n + o) : k \in 1..n \/ (~(k <= n) /\ k - n \in 1..o)
  BY <1>1
<1>. HIDE DEF c, n, o
<1>4. \A k \in 1..n : c[k] = q[k]
  BY <1>2, <1>3
<1>5. \A k \in 1..(n + o) : k \in 1..n \/ \E i \in 1..o : c[k] = r[i]
  BY <1>2, <1>3
<1>6. Updates(c) = {k \in 1..(n + o) : W!Carries(c[k])} /\ Updates(q) = {k \in 1..n : W!Carries(q[k])}
  BY <1>2 DEF Updates, n
<1>7. Updates(c) = Updates(q)
  <2>1. ASSUME NEW k \in Updates(c) PROVE k \in Updates(q)
    <3>1. k \in 1..(n + o) /\ W!Carries(c[k])
      BY <1>6, <2>1
    <3>2. k \in 1..n
      BY <1>5, <3>1 DEF o
    <3>. QED  BY <1>4, <1>6, <3>1, <3>2
  <2>2. ASSUME NEW k \in Updates(q) PROVE k \in Updates(c)
    BY <1>3, <1>4, <1>6, <2>2
  <2>. QED  BY <2>1, <2>2
<1>. QED  BY <1>2, <1>4, <1>5, <1>7 DEF c, n, o

(* An update that is on its way is one of those that were sent. *)
LEMMA UpdatesSent ==
    ASSUME WaveTypes
    PROVE  /\ \A k \in Updates(waveUp) : /\ waveUp[k].params \in W!Sent(waveUp)
                                         /\ waveUp[k].params \in W!Sent(waveUp \o waveDown)
           /\ \A k \in Updates(waveDown) : waveDown[k].params \in W!Sent(waveUp \o waveDown)
<1>. DEFINE S == WaveCommands \cup WaveReplies
            a == waveUp
            b == waveDown
            n == Len(a)
            c == a \o b
<1>1. a \in Seq(S) /\ b \in Seq(S)
  BY SeqMonotonic DEF WaveTypes
<1>2. Len(a) \in Nat /\ Len(b) \in Nat
  BY <1>1, LenProperties
<1>3. /\ Len(c) = n + Len(b)
      /\ \A i \in 1..(n + Len(b)) : c[i] = IF i <= n THEN a[i] ELSE b[i - n]
      /\ DOMAIN c = 1..Len(c) /\ DOMAIN a = 1..n
  BY <1>1, ConcatProperties, LenProperties
<1>4. /\ \A i \in 1..(n + Len(b)) : W!Carries(c[i]) => c[i].params \in W!Sent(c)
      /\ \A i \in 1..n : W!Carries(a[i]) => a[i].params \in W!Sent(a)
  BY <1>3 DEF W!Sent, W!ToSet
<1>. HIDE DEF c
<1>5. ASSUME NEW k \in Updates(a) PROVE a[k].params \in W!Sent(a) /\ a[k].params \in W!Sent(c)
  <2>1. k \in 1..n /\ W!Carries(a[k]) /\ k \in 1..(n + Len(b)) /\ c[k] = a[k]
    BY <1>2, <1>3 DEF Updates
  <2>. QED  BY <1>4, <2>1
<1>6. ASSUME NEW k \in Updates(b) PROVE b[k].params \in W!Sent(c)
  <2>1. k \in 1..Len(b) /\ W!Carries(b[k]) /\ n + k - n = k /\ ~(n + k <= n)
        /\ n + k \in 1..(n + Len(b))
    BY <1>2 DEF Updates
  <2>2. c[n + k] = b[k]
    BY <1>3, <2>1
  <2>. QED  BY <1>4, <2>1, <2>2
<1>. QED  BY <1>5, <1>6 DEF c

(* Of the updates in a queue, one is the last. *)
LEMMA LastOfUpdates ==
    ASSUME NEW q, Len(q) \in Nat, Updates(q) # {}
    PROVE  \E k \in Updates(q) : \A j \in Updates(q) : j <= k
<1>. DEFINE n == Len(q)
            T == {n - k : k \in Updates(q)}
<1>1. \A k \in Updates(q) : k \in Nat /\ n - k \in Nat
  BY DEF Updates
<1>2. T \subseteq Nat /\ T # {}
  BY <1>1
<1>. HIDE DEF T
<1>3. \E x \in T : \A y \in T : <<y, x>> \notin OpToRel(<, Nat)
  BY <1>2, WFMin, NatLessThanWellFounded, Zenon
<1>4. PICK x \in T : \A y \in T : ~(y < x)
  BY <1>2, <1>3 DEF OpToRel
<1>5. PICK k \in Updates(q) : x = n - k
  BY <1>4 DEF T
<1>6. ASSUME NEW j \in Updates(q) PROVE j <= k
  <2>1. n - j \in T /\ ~(n - j < n - k)
    BY <1>4, <1>5 DEF T
  <2>. QED  BY <1>1, <2>1
<1>. QED  BY <1>6

-----------------------------------------------------------------------------
(* Waveforms: the invariant is kept *)

LEMMA WaveFacts ==
    ASSUME WaveTypes
    PROVE  /\ params \in W!Params /\ ui \in W!Params
           /\ params.wave \in Nat /\ ui.wave \in Nat /\ Len(waveMade) \in Nat
           /\ waveUp \in Seq(WaveCommands) /\ waveDown \in Seq(WaveReplies)
           /\ Len(waveUp) \in Nat /\ Len(waveDown) \in Nat
           /\ \A k \in 1..Len(waveUp) : waveUp[k] \in WaveCommands
           /\ \A k \in 1..Len(waveDown) : waveDown[k] \in WaveReplies
           /\ \A k \in Updates(waveUp) : k \in 1..Len(waveUp) /\ waveUp[k].params \in W!Params
           /\ \A k \in Updates(waveDown) : k \in 1..Len(waveDown) /\ waveDown[k].params \in W!Params
           /\ waveMade \in Seq(Files) /\ Len(waveMade) <= MaxUuids /\ MaxUuids \in Nat
           /\ DOMAIN active \cap DOMAIN completed = {} /\ Seen \subseteq W!Uuids
<1>1. params \in W!Params /\ ui \in W!Params
  BY DEF WaveTypes, W!TypeOK
<1>2. MaxUuids \in Nat /\ \A p \in W!Params : p.wave \in Nat
  BY WaveformsConstants DEF W!WaveformsAssumption, W!Params, W!Uuids, W!NoWave
<1>3. waveMade \in Seq(Files) /\ Len(waveMade) \in Nat /\ Len(waveMade) <= MaxUuids
      /\ DOMAIN active \cap DOMAIN completed = {} /\ Seen \subseteq W!Uuids
  BY LenProperties DEF WaveTypes, W!TypeOK, Seen
<1>4. waveUp \in Seq(WaveCommands) /\ waveDown \in Seq(WaveReplies)
  BY DEF WaveTypes
<1>5. Len(waveUp) \in Nat /\ Len(waveDown) \in Nat
  BY <1>4, LenProperties
<1>6. /\ \A k \in 1..Len(waveUp) : waveUp[k] \in WaveCommands
      /\ \A k \in 1..Len(waveDown) : waveDown[k] \in WaveReplies
  BY <1>4, ElementOfSeq
<1>7. /\ \A m \in WaveCommands : W!Carries(m) => m.params \in W!Params
      /\ \A m \in WaveReplies : W!Carries(m) => m.params \in W!Params
  BY DEF WaveCommands, WaveReplies, W!Carries
<1>8. \A k \in Updates(waveUp) : k \in 1..Len(waveUp) /\ waveUp[k].params \in W!Params
  BY <1>6, <1>7 DEF Updates
<1>9. \A k \in Updates(waveDown) : k \in 1..Len(waveDown) /\ waveDown[k].params \in W!Params
  BY <1>6, <1>7 DEF Updates
<1>. QED  BY <1>1, <1>2, <1>3, <1>4, <1>5, <1>6, <1>8, <1>9

LEMMA UpdateFacts ==
    ASSUME NEW p \in W!Params
    PROVE  /\ W!Update(p) \in WaveCommands /\ W!Carries(W!Update(p))
           /\ W!Update(p).kind = "UpdateActionParams" /\ W!Update(p).params = p
           /\ W!Info(p) \in WaveReplies /\ W!Carries(W!Info(p))
           /\ W!Info(p).kind = "UpdateActionInfo" /\ W!Info(p).params = p
BY DEF W!Update, W!Info, WaveCommands, WaveReplies, W!Carries

(* What only a part of the state says. *)
LEMMA WaveKept ==
    /\ Chained /\ UNCHANGED <<params, done, undone>> => Chained'
    /\ ShownIsKept /\ UNCHANGED <<ui, wave, waveDown, completed>> => ShownIsKept'
    /\ RequestsRight /\ UNCHANGED <<waveUp, active, completed, waveMade>> => RequestsRight'
    /\ HistoryFits /\ UNCHANGED <<done, undone, waveMade>> => HistoryFits'
    /\ Fitting /\ UNCHANGED <<params, done, undone, waveUp, waveMade>> => Fitting'
<1>1. Chained /\ UNCHANGED <<params, done, undone>> => Chained'
  BY DEF Chained
<1>2. ShownIsKept /\ UNCHANGED <<ui, wave, waveDown, completed>> => ShownIsKept'
  BY DEF ShownIsKept, IsKept
<1>3. RequestsRight /\ UNCHANGED <<waveUp, active, completed, waveMade>> => RequestsRight'
  BY DEF RequestsRight, FirstIsFor, Seen
<1>4. HistoryFits /\ UNCHANGED <<done, undone, waveMade>> => HistoryFits'
  BY DEF HistoryFits, FitsIn, W!Fits
<1>5. Fitting /\ UNCHANGED <<params, done, undone, waveUp, waveMade>> => Fitting'
  BY <1>4 DEF Fitting, UpdatesFit, ComesAsNew, W!Fits
<1>. QED  BY <1>1, <1>2, <1>3, <1>4, <1>5

(* What is drawn, and the bound on what the user does, say nothing more. *)
LEMMA OnlyDrawn ==
    ASSUME WaveInv, redraw' \in BOOLEAN, changes' \in 0..MaxChanges,
           UNCHANGED <<params, done, undone, active, completed, ui, wave, waveMade,
                       waveUp, waveDown, failed, crossed, hasty>>
    PROVE  WaveInv'
<1>1. WaveTypes'
  BY DEF WaveInv, WaveTypes, W!TypeOK
<1>2. UuidsKnown'
  BY DEF WaveInv, UuidsKnown, Known
<1>3. LastIsCurrent'
  BY DEF WaveInv, LastIsCurrent
<1>. QED  BY <1>1, <1>2, <1>3, WaveKept DEF WaveInv

(* Requests that stay in the queue, behind which others may come. *)
LEMMA RequestsKept ==
    ASSUME WaveTypes, RequestsRight, UNCHANGED <<active, completed>>,
           Len(waveMade) <= Len(waveMade'), \A u \in 1..Len(waveMade) : waveMade'[u] = waveMade[u],
           \A u \in Seen : u <= Len(waveMade),
           \A k \in 1..Len(waveUp) : waveUp'[k] = waveUp[k],
           \A u \in 1..Len(waveMade) :
              /\ RequestsFor(waveUp, u) \subseteq RequestsFor(waveUp', u)
              /\ \A k \in RequestsFor(waveUp', u) : k \in RequestsFor(waveUp, u) \/ k > Len(waveUp)
    PROVE  /\ \A u \in DOMAIN active' :
                 active'[u].file = waveMade'[u] /\ active'[u].thread \in {"running", "Ok"}
           /\ \A u \in DOMAIN completed' : completed'[u] = waveMade'[u]
           /\ \A u \in (1..Len(waveMade)) \ Seen : RequestsFor(waveUp', u) # {} /\ FirstIsFor(u)'
<1>1. \A u \in Seen : u \in 1..Len(waveMade)
  BY WaveFacts DEF W!Uuids
<1>2. ASSUME NEW u \in (1..Len(waveMade)) \ Seen PROVE RequestsFor(waveUp', u) # {} /\ FirstIsFor(u)'
  <2>1. PICK i : i \in RequestsFor(waveUp, u)
    BY <1>2 DEF RequestsRight
  <2>2. i \in RequestsFor(waveUp', u) /\ i \in 1..Len(waveUp)
    BY <1>2, <2>1 DEF RequestsFor
  <2>3. ASSUME NEW k \in RequestsFor(waveUp', u), \A j \in RequestsFor(waveUp', u) : k <= j
        PROVE  waveUp'[k].file = waveMade'[u]
    <3>1. k <= i
      BY <2>2, <2>3
    <3>2. k \in Nat /\ Len(waveUp) \in Nat
      BY <2>3, WaveFacts DEF RequestsFor
    <3>3. k \in RequestsFor(waveUp, u)
      BY <1>2, <2>2, <2>3, <3>1, <3>2
    <3>4. \A j \in RequestsFor(waveUp, u) : k <= j
      BY <1>2, <2>3
    <3>5. k \in 1..Len(waveUp)
      BY <3>3 DEF RequestsFor
    <3>6. waveUp[k].file = waveMade[u]
      BY <1>2, <3>3, <3>4 DEF RequestsRight, FirstIsFor
    <3>. QED  BY <1>2, <3>5, <3>6
  <2>. QED  BY <2>2, <2>3 DEF FirstIsFor
<1>3. /\ \A u \in DOMAIN active : u \in 1..Len(waveMade)
      /\ \A u \in DOMAIN completed : u \in 1..Len(waveMade)
  BY <1>1 DEF Seen
<1>. QED  BY <1>2, <1>3 DEF RequestsRight

(* Updates that stay in the queue, behind which another may come. *)
LEMMA UpdatesStillFit ==
    ASSUME WaveTypes, UpdatesFit, UNCHANGED params,
           Updates(waveUp) \subseteq Updates(waveUp'),
           Updates(waveUp') \subseteq Updates(waveUp) \cup {Len(waveUp) + 1},
           \A k \in Updates(waveUp) :
              /\ waveUp'[k] = waveUp[k]
              /\ W!Fits(waveUp[k].params) => W!Fits(waveUp[k].params)'
    PROVE  \A k \in Updates(waveUp) : W!Fits(waveUp[k].params)' \/ ComesAsNew(k)'
<1>. SUFFICES ASSUME NEW k \in Updates(waveUp), ComesAsNew(k) PROVE ComesAsNew(k)'
  BY DEF UpdatesFit
<1>1. k \in 1..Len(waveUp) /\ Len(waveUp) \in Nat
  BY WaveFacts
<1>2. ASSUME NEW j \in Updates(waveUp'), j < k PROVE waveUp'[j].params.url # waveUp'[k].params.url
  <2>1. j \in Updates(waveUp)
    BY <1>1, <1>2
  <2>. QED  BY <1>2, <2>1 DEF ComesAsNew
<1>3. ASSUME \A j \in Updates(waveUp') : k <= j PROVE params'.url # waveUp'[k].params.url
  BY <1>3 DEF ComesAsNew
<1>. QED  BY <1>2, <1>3 DEF ComesAsNew

(* The editor's parameters change and are sent: a file, or no waveform.    *)
LEMMA EditorUpdates ==
    ASSUME WaveInv, NEW p \in W!Params, p.wave \in {ui.wave, W!NoWave},
           ui' = p, W!ApplyChanges(p),
           (wave' = wave /\ p.wave = ui.wave) \/ wave' = NoFile,
           redraw' \in BOOLEAN, changes' \in 0..MaxChanges,
           UNCHANGED <<params, done, undone, active, completed, waveMade, waveDown, failed>>
    PROVE  WaveInv'
<1>. DEFINE n == Len(waveUp)
            m == W!Update(p)
<1>0. WaveTypes /\ UuidsKnown /\ LastIsCurrent
  BY DEF WaveInv
<1>1. /\ m \in WaveCommands /\ W!Carries(m) /\ m.kind = "UpdateActionParams" /\ m.params = p
      /\ waveUp' = Append(waveUp, m)
  BY UpdateFacts DEF W!ApplyChanges
<1>. HIDE DEF m
<1>2. /\ waveUp' \in Seq(WaveCommands) /\ n \in Nat /\ Len(waveUp') = n + 1
      /\ \A k \in 1..n : waveUp'[k] = waveUp[k]
      /\ waveUp'[n + 1] = m
      /\ \A k \in 1..(n + 1) : k \in 1..n \/ k = n + 1
  BY <1>0, <1>1, WaveFacts, AppendedTo
<1>3. /\ Updates(waveUp') = Updates(waveUp) \cup {n + 1}
      /\ \A u : RequestsFor(waveUp', u) = RequestsFor(waveUp, u)
  BY <1>0, <1>1, WaveFacts, UpdatesAppended, RequestsAppended
<1>4. \A k \in Updates(waveUp) : k \in Nat /\ k <= n /\ k < n + 1 /\ waveUp'[k] = waveUp[k]
  BY <1>2 DEF Updates
<1>. HIDE DEF n
<1>5. WaveTypes'
  <2>1. wave' \in Files \cup {NoFile}
    BY <1>0 DEF WaveTypes, W!TypeOK
  <2>2. crossed' \in BOOLEAN /\ hasty' \in BOOLEAN
    BY DEF W!ApplyChanges
  <2>. QED  BY <1>0, <1>2, <2>1, <2>2 DEF WaveTypes, W!TypeOK
<1>6. UuidsKnown'
  <2>1. p.wave <= Len(waveMade)
    BY <1>0, WaveFacts DEF UuidsKnown, Known, W!NoWave
  <2>2. ASSUME NEW k \in 1..Len(waveUp')
        PROVE  IF waveUp'[k].kind = "UpdateActionParams" THEN Known(waveUp'[k].params)
               ELSE waveUp'[k].uuid <= Len(waveMade)
    BY <1>0, <1>1, <1>2, <2>1 DEF UuidsKnown, Known, n
  <2>. QED  BY <1>0, <2>1, <2>2 DEF UuidsKnown, Known
<1>7. LastIsCurrent'
  BY <1>0, <1>3 DEF LastIsCurrent
<1>8. Chained'
  BY WaveKept DEF WaveInv
<1>9. ShownIsKept'
  BY DEF WaveInv, ShownIsKept, IsKept
<1>10. ASSUME ~failed' PROVE RequestsRight'
  <2>1. RequestsRight
    BY <1>10 DEF WaveInv
  <2>2. /\ \A k \in 1..Len(waveUp) : waveUp'[k] = waveUp[k]
        /\ \A u \in Seen : u <= Len(waveMade)
        /\ Len(waveMade) <= Len(waveMade)
    BY <1>0, <1>2, WaveFacts DEF n, UuidsKnown, Seen
  <2>3. /\ \A u \in DOMAIN active' :
              active'[u].file = waveMade'[u] /\ active'[u].thread \in {"running", "Ok"}
        /\ \A u \in DOMAIN completed' : completed'[u] = waveMade'[u]
        /\ \A u \in (1..Len(waveMade)) \ Seen : RequestsFor(waveUp', u) # {} /\ FirstIsFor(u)'
    BY <1>0, <1>3, <2>1, <2>2, RequestsKept
  <2>4. Seen' = Seen
    BY DEF Seen
  <2>. QED  BY <2>3, <2>4 DEF RequestsRight
<1>11. ASSUME ~hasty' PROVE Fitting'
  <2>1. Fitting
    BY <1>11 DEF WaveInv, W!ApplyChanges
  <2>2. W!Fits(p) \/ \A r \in W!Sent(waveUp \o waveDown) : r.url # p.url
    BY <1>11 DEF W!ApplyChanges
  <2>3. \A r : W!Fits(r)' <=> W!Fits(r)
    BY DEF W!Fits
  <2>4. ASSUME ~W!Fits(p), Updates(waveUp) = {} PROVE params.url # p.url
    <3>1. CASE Updates(waveDown) # {}
      <4>1. PICK k \in Updates(waveDown) : \A j \in Updates(waveDown) : j <= k
        BY <1>0, <3>1, WaveFacts, LastOfUpdates
      <4>2. waveDown[k].params = params /\ waveDown[k].params.url # p.url
        BY <1>0, <2>2, <2>4, <4>1, UpdatesSent DEF LastIsCurrent
      <4>. QED  BY <4>2
    <3>2. CASE Updates(waveDown) = {}
      <4>1. ui = params /\ p.wave = params.wave
        BY <1>0, <2>4, <3>2 DEF LastIsCurrent, W!Fits
      <4>. QED  BY <2>1, <2>4, <4>1 DEF Fitting, W!Fits
    <3>. QED  BY <3>1, <3>2
  <2>5. ASSUME NEW k, k = n + 1, ~W!Fits(p) PROVE ComesAsNew(k)'
    <3>1. ASSUME NEW j \in Updates(waveUp'), j < k
          PROVE  waveUp'[j].params.url # waveUp'[k].params.url
      <4>1. j \in Updates(waveUp)
        BY <1>2, <1>3, <2>5, <3>1
      <4>2. waveUp[j].params.url # p.url
        BY <1>0, <2>2, <2>5, <4>1, UpdatesSent
      <4>. QED  BY <1>1, <1>2, <1>4, <2>5, <4>1, <4>2
    <3>2. ASSUME \A j \in Updates(waveUp') : k <= j
          PROVE  params'.url # waveUp'[k].params.url
      <4>1. Updates(waveUp) = {}
        BY <1>2, <1>3, <1>4, <2>5, <3>2
      <4>. QED  BY <1>1, <1>2, <2>4, <2>5, <4>1
    <3>. QED  BY <3>1, <3>2 DEF ComesAsNew
  <2>6. ASSUME NEW k \in Updates(waveUp) PROVE W!Fits(waveUp[k].params)' \/ ComesAsNew(k)'
    <3>1. \A j \in Updates(waveUp) : waveUp'[j] = waveUp[j] /\ (W!Fits(waveUp[j].params) => W!Fits(waveUp[j].params)')
      BY <1>4 DEF W!Fits
    <3>. QED  BY <1>0, <1>3, <2>1, <3>1, UpdatesStillFit DEF Fitting, n
  <2>7. ASSUME NEW k, k = n + 1, W!Fits(p) PROVE W!Fits(waveUp[k].params)'
    BY <1>1, <1>2, <2>7 DEF W!Fits
  <2>8. UpdatesFit'
    BY <1>3, <2>5, <2>6, <2>7 DEF UpdatesFit
  <2>9. HistoryFits' /\ W!Fits(params)'
    BY <2>1, <2>3, WaveKept DEF Fitting
  <2>. QED  BY <2>8, <2>9 DEF Fitting
<1>. QED  BY <1>5, <1>6, <1>7, <1>8, <1>9, <1>10, <1>11 DEF WaveInv
LEMMA FileChangedKeeps ==
    ASSUME WaveInv, NEW f \in Files, W!FileChanged(f)
    PROVE  WaveInv'
<1>. DEFINE p == [ui EXCEPT !.url = f]
<1>1. ui \in W!Params /\ redraw \in BOOLEAN /\ changes \in 0..MaxChanges /\ MaxChanges \in Nat
  BY WaveformsConstants DEF WaveInv, WaveTypes, W!TypeOK, W!WaveformsAssumption
<1>2. p \in W!Params /\ p.wave = ui.wave
  BY <1>1 DEF W!Params
<1>. HIDE DEF p
<1>3. ui' = p /\ W!ApplyChanges(p)
  BY DEF W!FileChanged, p
<1>4. changes' \in 0..MaxChanges
  BY <1>1 DEF W!FileChanged, W!Change
<1>5. UNCHANGED <<params, done, undone, active, completed, wave, redraw, waveMade, waveDown, failed>>
  BY DEF W!FileChanged, W!serverVars
<1>. QED  BY <1>1, <1>2, <1>3, <1>4, <1>5, EditorUpdates

LEMMA InvalidateWaveformKeeps ==
    ASSUME WaveInv, W!InvalidateWaveform
    PROVE  WaveInv'
<1>. DEFINE p == [ui EXCEPT !.wave = W!NoWave]
<1>1. ui \in W!Params /\ changes \in 0..MaxChanges /\ MaxChanges \in Nat
  BY WaveformsConstants DEF WaveInv, WaveTypes, W!TypeOK, W!WaveformsAssumption
<1>2. p \in W!Params /\ p.wave = W!NoWave
  BY <1>1 DEF W!Params
<1>. HIDE DEF p
<1>3. ui' = p /\ W!ApplyChanges(p)
  BY DEF W!InvalidateWaveform, p
<1>4. changes' \in 0..MaxChanges
  BY <1>1 DEF W!InvalidateWaveform, W!Change
<1>5. wave' = NoFile /\ redraw' \in BOOLEAN
  BY DEF W!InvalidateWaveform, W!UpdateWaveform
<1>6. UNCHANGED <<params, done, undone, active, completed, waveMade, waveDown, failed>>
  BY DEF W!InvalidateWaveform, W!serverVars
<1>. QED  BY <1>2, <1>3, <1>4, <1>5, <1>6, EditorUpdates

LEMMA ExposeKeeps ==
    ASSUME WaveInv, W!Expose
    PROVE  WaveInv'
<1>1. changes \in 0..MaxChanges /\ MaxChanges \in Nat
  BY WaveformsConstants DEF WaveInv, WaveTypes, W!TypeOK, W!WaveformsAssumption
<1>2. changes' \in 0..MaxChanges /\ redraw' \in BOOLEAN
  BY <1>1 DEF W!Expose, W!Change
<1>. QED  BY <1>2, OnlyDrawn DEF W!Expose, W!serverVars

(* A UUID that is made goes with no parameters that are there already. *)
LEMMA FitsStill ==
    ASSUME WaveTypes, Len(waveMade') \in Nat, Len(waveMade) <= Len(waveMade'),
           \A u \in 1..Len(waveMade) : waveMade'[u] = waveMade[u]
    PROVE  /\ \A p \in W!Params : Known(p) => Known(p)' /\ (W!Fits(p) => W!Fits(p)')
           /\ UuidsKnown /\ HistoryFits /\ UNCHANGED <<done, undone>> => HistoryFits'
<1>1. \A p \in W!Params : p.wave \in Nat /\ p.wave >= 0
  BY WaveFacts DEF W!Params, W!Uuids, W!NoWave
<1>2. Len(waveMade) \in Nat
  BY WaveFacts
<1>3. ASSUME NEW p \in W!Params, Known(p) PROVE Known(p)' /\ (W!Fits(p) => W!Fits(p)')
  <2>1. p.wave <= Len(waveMade) /\ p.wave <= Len(waveMade')
    BY <1>1, <1>2, <1>3 DEF Known
  <2>2. p.wave # W!NoWave => p.wave \in 1..Len(waveMade)
    BY <1>1, <1>2, <2>1 DEF W!NoWave
  <2>. QED  BY <2>1, <2>2 DEF Known, W!Fits
<1>4. ASSUME UuidsKnown, HistoryFits, UNCHANGED <<done, undone>> PROVE HistoryFits'
  <2>1. done \in Seq([undo : W!Params, redo : W!Params])
        /\ undone \in Seq([undo : W!Params, redo : W!Params])
    BY DEF WaveTypes, W!TypeOK
  <2>2. /\ \A k \in 1..Len(done) : done[k].undo \in W!Params /\ done[k].redo \in W!Params
        /\ \A k \in 1..Len(undone) : undone[k].undo \in W!Params /\ undone[k].redo \in W!Params
    <3>1. /\ \A k \in 1..Len(done) : done[k] \in [undo : W!Params, redo : W!Params]
          /\ \A k \in 1..Len(undone) : undone[k] \in [undo : W!Params, redo : W!Params]
      BY <2>1, ElementOfSeq
    <3>. QED  BY <3>1
  <2>3. \A p \in W!Params : p.wave <= Len(waveMade) /\ (p.wave = W!NoWave \/ waveMade[p.wave] = p.url) =>
           p.wave = W!NoWave \/ waveMade'[p.wave] = p.url
    BY <1>3 DEF Known, W!Fits
  <2>. QED  BY <1>4, <2>2, <2>3 DEF UuidsKnown, Known, HistoryFits, FitsIn, W!Fits
<1>. QED  BY <1>3, <1>4

(* A request for a waveform is sent again. *)
LEMMA RequestAgain ==
    ASSUME WaveInv, ui.wave # W!NoWave, ui.url # NoFile,
           waveUp' = Append(waveUp, W!Generate(ui.wave, ui.url)), redraw' \in BOOLEAN,
           UNCHANGED <<params, done, undone, active, completed, ui, wave, waveMade,
                       waveDown, changes, failed, crossed, hasty>>
    PROVE  WaveInv'
<1>. DEFINE n == Len(waveUp)
            m == W!Generate(ui.wave, ui.url)
<1>0. WaveTypes /\ UuidsKnown
  BY DEF WaveInv
<1>1. /\ m \in WaveCommands /\ ~W!Carries(m) /\ m.kind = "GenerateWaveform"
      /\ m.uuid = ui.wave /\ m.file = ui.url /\ ui.wave \in 1..Len(waveMade)
      /\ waveUp' = Append(waveUp, m)
  <2>1. ui \in W!Params /\ ui.wave <= Len(waveMade) /\ MaxUuids \in Nat /\ Len(waveMade) \in Nat
    BY <1>0, WaveFacts DEF UuidsKnown, Known
  <2>2. ui.wave \in W!Uuids /\ ui.url \in Files /\ ui.wave \in 1..Len(waveMade)
    BY <2>1 DEF W!Params, W!Uuids, W!NoWave
  <2>. QED  BY <2>2 DEF W!Generate, WaveCommands, W!Carries
<1>. HIDE DEF m
<1>2. /\ waveUp' \in Seq(WaveCommands) /\ n \in Nat /\ Len(waveUp') = n + 1
      /\ \A k \in 1..n : waveUp'[k] = waveUp[k]
      /\ waveUp'[n + 1] = m
      /\ \A k \in 1..(n + 1) : k \in 1..n \/ k = n + 1
  BY <1>0, <1>1, WaveFacts, AppendedTo
<1>3. /\ Updates(waveUp') = Updates(waveUp)
      /\ \A u : u # ui.wave => RequestsFor(waveUp', u) = RequestsFor(waveUp, u)
      /\ RequestsFor(waveUp', ui.wave) = RequestsFor(waveUp, ui.wave) \cup {n + 1}
  <2>1. waveUp \in Seq(WaveCommands)
    BY <1>0, WaveFacts
  <2>2. Updates(waveUp') = Updates(waveUp)
    BY <1>1, <2>1, UpdatesAppended
  <2>3. ASSUME NEW u PROVE u # ui.wave => RequestsFor(waveUp', u) = RequestsFor(waveUp, u)
    BY <1>1, <2>1, RequestsAppended
  <2>4. RequestsFor(waveUp', ui.wave) = RequestsFor(waveUp, ui.wave) \cup {n + 1}
    BY <1>1, <2>1, RequestsAppended
  <2>. QED  BY <2>2, <2>3, <2>4
<1>4. \A k \in Updates(waveUp) : waveUp'[k] = waveUp[k]
  BY <1>2 DEF Updates
<1>. HIDE DEF n
<1>5. WaveTypes'
  BY <1>0, <1>2 DEF WaveTypes, W!TypeOK
<1>6. UuidsKnown'
  <2>1. ASSUME NEW k \in 1..Len(waveUp')
        PROVE  IF waveUp'[k].kind = "UpdateActionParams" THEN Known(waveUp'[k].params)
               ELSE waveUp'[k].uuid <= Len(waveMade)
    BY <1>0, <1>1, <1>2 DEF UuidsKnown, Known, n
  <2>. QED  BY <1>0, <2>1 DEF UuidsKnown, Known
<1>7. LastIsCurrent'
  BY <1>3 DEF WaveInv, LastIsCurrent
<1>8. Chained' /\ ShownIsKept'
  BY WaveKept DEF WaveInv
<1>9. ASSUME ~failed' PROVE RequestsRight'
  <2>1. RequestsRight
    BY <1>9 DEF WaveInv
  <2>2. /\ \A k \in 1..Len(waveUp) : waveUp'[k] = waveUp[k]
        /\ \A u \in Seen : u <= Len(waveMade)
        /\ Len(waveMade) <= Len(waveMade)
    BY <1>0, <1>2, WaveFacts DEF n, UuidsKnown, Seen
  <2>3. \A u \in 1..Len(waveMade) :
           /\ RequestsFor(waveUp, u) \subseteq RequestsFor(waveUp', u)
           /\ \A k \in RequestsFor(waveUp', u) : k \in RequestsFor(waveUp, u) \/ k > Len(waveUp)
    <3>1. n + 1 > Len(waveUp)
      BY <1>2 DEF n
    <3>2. \A u : RequestsFor(waveUp', u) = RequestsFor(waveUp, u)
                 \/ RequestsFor(waveUp', u) = RequestsFor(waveUp, u) \cup {n + 1}
      BY <1>3
    <3>. QED  BY <3>1, <3>2
  <2>4. /\ \A u \in DOMAIN active' :
              active'[u].file = waveMade'[u] /\ active'[u].thread \in {"running", "Ok"}
        /\ \A u \in DOMAIN completed' : completed'[u] = waveMade'[u]
        /\ \A u \in (1..Len(waveMade)) \ Seen : RequestsFor(waveUp', u) # {} /\ FirstIsFor(u)'
    BY <1>0, <2>1, <2>2, <2>3, RequestsKept
  <2>5. Seen' = Seen
    BY DEF Seen
  <2>. QED  BY <2>4, <2>5 DEF RequestsRight
<1>10. ASSUME ~hasty' PROVE Fitting'
  <2>1. Fitting
    BY <1>10 DEF WaveInv
  <2>2. UpdatesFit'
    <3>1. \A k \in Updates(waveUp) : W!Fits(waveUp[k].params)' \/ ComesAsNew(k)'
      <4>1. \A k \in Updates(waveUp) : W!Fits(waveUp[k].params) => W!Fits(waveUp[k].params)'
        BY <1>4 DEF W!Fits
      <4>. QED  BY <1>0, <1>3, <1>4, <2>1, <4>1, UpdatesStillFit DEF Fitting
    <3>. QED  BY <1>3, <3>1 DEF UpdatesFit
  <2>3. HistoryFits' /\ W!Fits(params)'
    BY <2>1, WaveKept DEF Fitting, W!Fits
  <2>. QED  BY <2>2, <2>3 DEF Fitting
<1>. QED  BY <1>5, <1>6, <1>7, <1>8, <1>9, <1>10 DEF WaveInv

(* A waveform is asked for, under a new UUID that is sent first. *)
LEMMA RequestAnew ==
    ASSUME WaveInv, ui.wave = W!NoWave, ui.url # NoFile, wave = NoFile,
           Len(waveMade) < MaxUuids, waveMade' = Append(waveMade, ui.url),
           ui' = [ui EXCEPT !.wave = Len(waveMade) + 1],
           waveUp' = waveUp \o <<W!Update(ui'), W!Generate(Len(waveMade) + 1, ui.url)>>,
           crossed' = (crossed \/ W!Crosses), redraw' \in BOOLEAN,
           UNCHANGED <<params, done, undone, active, completed, wave,
                       waveDown, changes, failed, hasty>>
    PROVE  WaveInv'
<1>. DEFINE n == Len(waveUp)
            v == Len(waveMade) + 1
            p == [ui EXCEPT !.wave = v]
            a == W!Update(p)
            b == W!Generate(v, ui.url)
            q == Append(waveUp, a)
<1>0. WaveTypes /\ UuidsKnown
  BY DEF WaveInv
<1>1. /\ v \in W!Uuids /\ v \in Nat /\ Len(waveMade) \in Nat /\ v > Len(waveMade) /\ v # W!NoWave
      /\ p \in W!Params /\ p.wave = v /\ p.url = ui.url /\ ui.url \in Files
      /\ waveUp \in Seq(WaveCommands) /\ n \in Nat
  <2>1. v \in W!Uuids /\ v \in Nat /\ Len(waveMade) \in Nat /\ v > Len(waveMade) /\ v # W!NoWave
    BY <1>0, WaveFacts DEF W!Uuids, W!NoWave
  <2>2. p \in W!Params /\ p.wave = v /\ p.url = ui.url /\ ui.url \in Files
    BY <1>0, <2>1, WaveFacts DEF W!Params
  <2>. QED  BY <1>0, <2>1, <2>2, WaveFacts
<1>2. /\ waveMade' \in Seq(Files) /\ Len(waveMade') = v /\ waveMade'[v] = ui.url
       /\ \A u \in 1..Len(waveMade) : waveMade'[u] = waveMade[u]
  <2>1. waveMade \in Seq(Files)
    BY <1>0, WaveFacts
  <2>. QED  BY <1>1, <2>1, AppendedTo
<1>3. /\ a \in WaveCommands /\ W!Carries(a) /\ a.kind = "UpdateActionParams" /\ a.params = p
  BY <1>1, UpdateFacts
<1>4. /\ b \in WaveCommands /\ ~W!Carries(b) /\ b.kind = "GenerateWaveform"
      /\ b.uuid = v /\ b.file = ui.url
  BY <1>1 DEF W!Generate, WaveCommands, W!Carries
<1>5. ui' = p /\ waveUp' = Append(q, b)
  <2>1. ui' = p /\ waveUp' = waveUp \o <<a, b>>
    OBVIOUS
  <2>. HIDE DEF a, b, p
  <2>2. waveUp \o <<a, b>> = Append(Append(waveUp, a), b)
    BY <1>1, <1>3, <1>4
  <2>. QED  BY <2>1, <2>2
<1>. HIDE DEF a, b
<1>6. /\ q \in Seq(WaveCommands) /\ Len(q) = n + 1
      /\ \A k \in 1..n : q[k] = waveUp[k]
      /\ q[n + 1] = a
      /\ \A k \in 1..(n + 1) : k \in 1..n \/ k = n + 1
  BY <1>1, <1>3, AppendedTo
<1>7. /\ Updates(q) = Updates(waveUp) \cup {n + 1}
      /\ \A u : RequestsFor(q, u) = RequestsFor(waveUp, u)
  BY <1>1, <1>3, UpdatesAppended, RequestsAppended
<1>. HIDE DEF q
<1>8. /\ waveUp' \in Seq(WaveCommands) /\ Len(waveUp') = n + 2
      /\ \A k \in 1..(n + 1) : waveUp'[k] = q[k]
      /\ waveUp'[n + 2] = b
      /\ \A k \in 1..(n + 2) : k \in 1..(n + 1) \/ k = n + 2
  <2>1. /\ Append(q, b) \in Seq(WaveCommands) /\ Len(Append(q, b)) = Len(q) + 1
        /\ \A k \in 1..Len(q) : Append(q, b)[k] = q[k]
        /\ Append(q, b)[Len(q) + 1] = b
        /\ \A k \in 1..(Len(q) + 1) : k \in 1..Len(q) \/ k = Len(q) + 1
    BY <1>4, <1>6, AppendedTo
  <2>2. n + 1 + 1 = n + 2
    BY <1>1
  <2>. QED  BY <1>5, <1>6, <2>1, <2>2
<1>9. /\ Updates(waveUp') = Updates(waveUp) \cup {n + 1}
      /\ \A u : u # v => RequestsFor(waveUp', u) = RequestsFor(waveUp, u)
      /\ RequestsFor(waveUp', v) = RequestsFor(waveUp, v) \cup {n + 2}
  <2>1. q \in Seq(WaveCommands) /\ b \in WaveCommands
    BY <1>4, <1>6
  <2>2. Len(q) + 1 = n + 2
    BY <1>1, <1>6
  <2>. HIDE DEF n, v
  <2>3. Updates(Append(q, b)) = Updates(q)
    BY <1>4, <2>1, UpdatesAppended
  <2>4. ASSUME NEW u PROVE u # v => RequestsFor(Append(q, b), u) = RequestsFor(q, u)
    BY <1>4, <2>1, RequestsAppended
  <2>5. RequestsFor(Append(q, b), v) = RequestsFor(q, v) \cup {Len(q) + 1}
    <3>1. b.kind = "GenerateWaveform" /\ b.uuid = v
      BY <1>4
    <3>2. ASSUME NEW u
          PROVE  b.kind = "GenerateWaveform" /\ b.uuid = u =>
                     RequestsFor(Append(q, b), u) = RequestsFor(q, u) \cup {Len(q) + 1}
      BY ONLY <2>1, RequestsAppended
    <3>. QED  BY ONLY <3>1, <3>2
  <2>. QED  BY <1>5, <1>7, <2>2, <2>3, <2>4, <2>5
<1>10. /\ \A k \in 1..n : waveUp'[k] = waveUp[k] /\ k \in 1..Len(waveUp')
      /\ waveUp'[n + 1] = a /\ waveUp'[n + 2] = b
      /\ \A k \in 1..Len(waveUp') : k \in 1..n \/ k = n + 1 \/ k = n + 2
  <2>1. n + 1 \in 1..(n + 1) /\ \A k \in 1..n : k \in 1..(n + 1) /\ k \in 1..(n + 2)
    BY <1>1
  <2>. HIDE DEF n
  <2>. QED  BY <1>6, <1>8, <2>1
<1>. HIDE DEF n, p
<1>11. WaveTypes'
  <2>1. Len(waveMade') <= MaxUuids
    BY <1>0, <1>1, <1>2, WaveFacts
  <2>2. crossed' \in BOOLEAN
    OBVIOUS
  <2>. QED  BY <1>0, <1>1, <1>5, <1>8, <1>2, <2>1, <2>2 DEF WaveTypes, W!TypeOK
<1>12. \A u : u \in Nat /\ u <= Len(waveMade) => u <= v
  BY <1>1
<1>13. UuidsKnown'
  <2>. DEFINE Changes == [undo : W!Params, redo : W!Params]
  <2>1. \A r \in W!Params : r.wave \in Nat
    BY <1>0, WaveFacts DEF W!Params, W!Uuids, W!NoWave
  <2>2. /\ \A k \in 1..Len(waveUp) :
              IF waveUp[k].kind = "UpdateActionParams" THEN waveUp[k].params \in W!Params
              ELSE waveUp[k].uuid \in Nat
        /\ \A k \in 1..Len(waveDown) :
              IF waveDown[k].kind = "UpdateActionInfo" THEN waveDown[k].params \in W!Params
              ELSE waveDown[k].uuid \in Nat
    BY <1>0, WaveFacts DEF WaveCommands, WaveReplies, W!Uuids
  <2>3. /\ \A k \in 1..Len(done) : done[k] \in Changes
        /\ \A k \in 1..Len(undone) : undone[k] \in Changes
    BY <1>0, ElementOfSeq DEF WaveTypes, W!TypeOK
  <2>4. \A u \in Seen : u \in Nat
    BY <1>0, WaveFacts DEF W!Uuids
  <2>5. Known(params)' /\ Known(ui)'
    BY <1>0, <1>1, <1>5, <1>2, <2>1, WaveFacts DEF UuidsKnown, Known
  <2>6. ASSUME NEW k \in 1..Len(waveUp')
        PROVE  IF waveUp'[k].kind = "UpdateActionParams" THEN waveUp'[k].params.wave <= v
               ELSE waveUp'[k].uuid <= v
    <3>1. CASE k \in 1..n
      BY <1>0, <1>10, <1>12, <2>1, <2>2, <3>1 DEF UuidsKnown, Known, n
    <3>2. CASE k = n + 1
      BY <1>1, <1>3, <1>10, <3>2
    <3>3. CASE k = n + 2
      <4>1. waveUp'[k] = b
        BY <1>10, <3>3
      <4>. QED  BY <1>1, <1>4, <4>1
    <3>. QED  BY <1>10, <3>1, <3>2, <3>3
  <2>7. \A k \in 1..Len(waveDown) :
           IF waveDown[k].kind = "UpdateActionInfo" THEN waveDown[k].params.wave <= v
           ELSE waveDown[k].uuid <= v
    BY <1>0, <1>12, <2>1, <2>2 DEF UuidsKnown, Known
  <2>8. \A u \in Seen : u <= v
    BY <1>0, <1>12, <2>4 DEF UuidsKnown, Seen
  <2>9. /\ \A k \in 1..Len(done) : done[k].undo.wave <= v /\ done[k].redo.wave <= v
        /\ \A k \in 1..Len(undone) : undone[k].undo.wave <= v /\ undone[k].redo.wave <= v
    BY <1>0, <1>12, <2>1, <2>3 DEF UuidsKnown, Known
  <2>. QED  BY <1>2, <2>5, <2>6, <2>7, <2>8, <2>9 DEF UuidsKnown, Known, Seen
<1>14. LastIsCurrent'
  BY <1>9 DEF WaveInv, LastIsCurrent
<1>15. Chained' /\ ShownIsKept'
  <2>1. Chained'
    BY WaveKept DEF WaveInv
  <2>. QED  BY <2>1 DEF WaveInv, ShownIsKept, IsKept
<1>16. ASSUME ~failed' PROVE RequestsRight'
  <2>1. RequestsRight
    BY <1>16 DEF WaveInv
  <2>2. Seen' = Seen /\ \A u \in Seen : u <= Len(waveMade)
    BY <1>0 DEF UuidsKnown, Seen
  <2>3. Len(waveMade) <= Len(waveMade') /\ \A u \in 1..Len(waveMade) : u # v
    BY <1>1, <1>2
  <2>4. /\ \A k \in 1..Len(waveUp) : waveUp'[k] = waveUp[k]
        /\ \A u \in 1..Len(waveMade) :
              /\ RequestsFor(waveUp, u) \subseteq RequestsFor(waveUp', u)
              /\ \A k \in RequestsFor(waveUp', u) : k \in RequestsFor(waveUp, u) \/ k > Len(waveUp)
    BY <1>9, <1>10, <2>3 DEF n
  <2>5. /\ \A u \in DOMAIN active' :
              active'[u].file = waveMade'[u] /\ active'[u].thread \in {"running", "Ok"}
        /\ \A u \in DOMAIN completed' : completed'[u] = waveMade'[u]
        /\ \A u \in (1..Len(waveMade)) \ Seen : RequestsFor(waveUp', u) # {} /\ FirstIsFor(u)'
    BY <1>0, <1>2, <2>1, <2>2, <2>3, <2>4, RequestsKept
  <2>6. RequestsFor(waveUp, v) = {}
    <3>1. SUFFICES ASSUME NEW k \in 1..Len(waveUp), waveUp[k].kind = "GenerateWaveform", waveUp[k].uuid = v
                   PROVE  FALSE
      BY DEF RequestsFor
    <3>2. v <= Len(waveMade)
      BY <1>0, <3>1 DEF UuidsKnown
    <3>. QED  BY <1>1, <3>2
  <2>7. ASSUME NEW u, u = v PROVE RequestsFor(waveUp', u) # {} /\ FirstIsFor(u)'
    BY <1>4, <1>9, <1>10, <1>2, <2>6, <2>7 DEF FirstIsFor
  <2>8. \A u \in 1..Len(waveMade') : u \in 1..Len(waveMade) \/ u = v
    BY <1>1, <1>2
  <2>. QED  BY <2>2, <2>5, <2>7, <2>8 DEF RequestsRight
<1>17. ASSUME ~hasty' PROVE Fitting'
  <2>1. Fitting
    BY <1>17 DEF WaveInv
  <2>2. /\ \A r \in W!Params : Known(r) => Known(r)' /\ (W!Fits(r) => W!Fits(r)')
        /\ UuidsKnown /\ HistoryFits /\ UNCHANGED <<done, undone>> => HistoryFits'
    BY <1>0, <1>1, <1>2, FitsStill
  <2>3. HistoryFits'
    BY <1>0, <2>1, <2>2 DEF Fitting
  <2>4. W!Fits(params)'
    BY <1>0, <2>1, <2>2, WaveFacts DEF Fitting, UuidsKnown, Known, W!Fits
  <2>5. \A k \in Updates(waveUp) :
           /\ waveUp'[k] = waveUp[k]
           /\ W!Fits(waveUp[k].params) => W!Fits(waveUp[k].params)'
    <3>1. SUFFICES ASSUME NEW k \in Updates(waveUp)
                   PROVE  /\ waveUp'[k] = waveUp[k]
                          /\ W!Fits(waveUp[k].params) => W!Fits(waveUp[k].params)'
      OBVIOUS
    <3>2. /\ waveUp'[k] = waveUp[k] /\ waveUp[k].params \in W!Params
          /\ Known(waveUp[k].params)
      BY <1>0, <1>10, WaveFacts DEF UuidsKnown, Updates, W!Carries, WaveCommands, n
    <3>. QED  BY <2>2, <3>2 DEF W!Fits, Known
  <2>6. \A k \in Updates(waveUp) : W!Fits(waveUp[k].params)' \/ ComesAsNew(k)'
    BY <1>0, <1>9, <2>1, <2>5, UpdatesStillFit DEF Fitting, n
  <2>7. ASSUME NEW k, k = n + 1 PROVE W!Fits(waveUp[k].params)'
    BY <1>1, <1>3, <1>10, <1>2, <2>7 DEF W!Fits
  <2>8. UpdatesFit'
    BY <1>9, <2>6, <2>7 DEF UpdatesFit
  <2>. QED  BY <2>3, <2>4, <2>8 DEF Fitting
<1>. QED  BY <1>11, <1>13, <1>14, <1>15, <1>16, <1>17 DEF WaveInv

LEMMA DrawKeeps ==
    ASSUME WaveInv, W!Draw
    PROVE  WaveInv'
<1>1. /\ redraw' \in BOOLEAN
      /\ UNCHANGED <<params, done, undone, active, completed, wave, waveDown, changes, failed, hasty>>
  BY DEF W!Draw, W!serverVars
<1>2. changes \in 0..MaxChanges
  BY DEF WaveInv, WaveTypes, W!TypeOK
<1>3. CASE ~(wave = NoFile /\ ui.url # NoFile)
  BY <1>1, <1>2, <1>3, OnlyDrawn DEF W!Draw
<1>4. CASE wave = NoFile /\ ui.url # NoFile /\ ui.wave = W!NoWave
  <2>1. W!GenerateWaveform
    BY <1>4 DEF W!Draw
  <2>2. /\ Len(waveMade) < MaxUuids /\ waveMade' = Append(waveMade, ui.url)
        /\ ui' = [ui EXCEPT !.wave = Len(waveMade')]
        /\ waveUp' = waveUp \o <<W!Update(ui'), W!Generate(ui'.wave, ui.url)>>
        /\ crossed' = (crossed \/ W!Crosses)
    BY <1>4, <2>1 DEF W!GenerateWaveform
  <2>3. Len(waveMade') = Len(waveMade) + 1 /\ ui'.wave = Len(waveMade')
    <3>1. ui \in W!Params /\ waveMade \in Seq(Files) /\ ui.url \in Files
      BY <1>4, WaveFacts DEF WaveInv, W!Params
    <3>. QED  BY <2>2, <3>1, AppendedTo DEF W!Params
  <2>. QED  BY <1>1, <1>4, <2>2, <2>3, RequestAnew
<1>5. CASE wave = NoFile /\ ui.url # NoFile /\ ui.wave # W!NoWave
  <2>1. W!GenerateWaveform
    BY <1>5 DEF W!Draw
  <2>2. /\ waveUp' = Append(waveUp, W!Generate(ui.wave, ui.url))
        /\ UNCHANGED <<waveMade, ui, crossed>>
    BY <1>5, <2>1 DEF W!GenerateWaveform
  <2>. QED  BY <1>1, <1>5, <2>2, RequestAgain
<1>. QED  BY <1>3, <1>4, <1>5

(* The editor takes a reply. *)
LEMMA HandleReplyKeeps ==
    ASSUME WaveInv, W!HandleReply
    PROVE  WaveInv'
<1>. DEFINE n == Len(waveDown)
            m == Head(waveDown)
<1>0. WaveTypes /\ UuidsKnown
  BY DEF WaveInv
<1>1. /\ waveDown # <<>> /\ waveDown' = Tail(waveDown)
      /\ UNCHANGED <<params, done, undone, active, completed, waveMade, waveUp, changes,
                     failed, crossed, hasty>>
      /\ \/ m.kind = "UpdateActionInfo" /\ W!OnNewParameters(m.params)
         \/ m.kind = "WaveformGenerated" /\ W!OnWaveformReply(m.uuid, m.res)
  BY DEF W!HandleReply, W!serverVars
<1>2. /\ waveDown' \in Seq(WaveReplies) /\ n \in Nat \ {0} /\ Len(waveDown') = n - 1
      /\ \A k \in 1..Len(waveDown') : waveDown'[k] = waveDown[k + 1] /\ k + 1 \in 1..n
      /\ m = waveDown[1] /\ m \in WaveReplies /\ 1 \in 1..n
  BY <1>0, <1>1, WaveFacts, TakenFrom
<1>3. /\ \A k \in Updates(waveDown') : k + 1 \in Updates(waveDown) /\ waveDown'[k] = waveDown[k + 1]
                                         /\ k \in Nat
      /\ \A k \in Updates(waveDown) : k = 1 \/ k - 1 \in Updates(waveDown')
      /\ 1 \in Updates(waveDown) <=> W!Carries(m)
      /\ Updates(waveDown) \in SUBSET Nat
  BY <1>0, <1>1, WaveFacts, UpdatesTaken
<1>4. /\ m.kind = "UpdateActionInfo" => m.params \in W!Params /\ W!Carries(m) /\ m.params.wave <= Len(waveMade)
      /\ m.kind = "WaveformGenerated" => /\ m.uuid \in W!Uuids /\ m.res \in Files \cup {"Err"}
                                         /\ ~W!Carries(m)
  BY <1>0, <1>2 DEF WaveReplies, W!Carries, UuidsKnown, Known
<1>. HIDE DEF n, m
<1>5. /\ m.kind = "UpdateActionInfo" => ui' = m.params
      /\ m.kind = "WaveformGenerated" => ui' = ui
  BY <1>1 DEF W!OnNewParameters, W!OnWaveformReply
<1>6. WaveTypes'
  <2>1. CASE m.kind = "UpdateActionInfo"
    <3>1. W!OnNewParameters(m.params)
      BY <1>1, <2>1
    <3>2. ui' \in W!Params /\ wave' \in Files \cup {NoFile} /\ redraw' \in BOOLEAN
      BY <1>0, <1>4, <2>1, <3>1 DEF W!OnNewParameters, W!UpdateWaveform, WaveTypes, W!TypeOK
    <3>. QED  BY <1>0, <1>1, <1>2, <3>2 DEF WaveTypes, W!TypeOK
  <2>2. CASE m.kind = "WaveformGenerated"
    <3>1. W!OnWaveformReply(m.uuid, m.res)
      BY <1>1, <2>2
    <3>2. ui' \in W!Params /\ wave' \in Files \cup {NoFile} /\ redraw' \in BOOLEAN
      BY <1>0, <1>4, <2>2, <3>1 DEF W!OnWaveformReply, W!UpdateWaveform, WaveTypes, W!TypeOK
    <3>. QED  BY <1>0, <1>1, <1>2, <3>2 DEF WaveTypes, W!TypeOK
  <2>. QED  BY <1>1, <2>1, <2>2
<1>7. UuidsKnown'
  <2>1. Known(ui)'
    BY <1>0, <1>1, <1>4, <1>5 DEF UuidsKnown, Known
  <2>2. \A k \in 1..Len(waveDown') :
           IF waveDown'[k].kind = "UpdateActionInfo" THEN waveDown'[k].params.wave <= Len(waveMade)
           ELSE waveDown'[k].uuid <= Len(waveMade)
    BY <1>0, <1>2 DEF UuidsKnown, Known, n
  <2>. QED  BY <1>0, <1>1, <2>1, <2>2 DEF UuidsKnown, Known
<1>8. LastIsCurrent'
  <2>1. ASSUME NEW k \in Updates(waveDown'), \A j \in Updates(waveDown') : j <= k
        PROVE  waveDown'[k].params = params
    <3>1. ASSUME NEW j \in Updates(waveDown) PROVE j <= k + 1
      <4>1. CASE j = 1
        BY <1>3, <2>1, <4>1
      <4>2. CASE j # 1
        <5>1. j - 1 <= k /\ j \in Nat /\ k \in Nat
          BY <1>3, <2>1, <3>1, <4>2
        <5>. QED  BY <5>1
      <4>. QED  BY <4>1, <4>2
    <3>. QED  BY <1>3, <2>1, <3>1 DEF WaveInv, LastIsCurrent
  <2>2. ASSUME Updates(waveUp) = {}, Updates(waveDown') = {} PROVE ui' = params
    <3>1. CASE m.kind = "UpdateActionInfo"
      <4>1. 1 \in Updates(waveDown) /\ \A j \in Updates(waveDown) : j <= 1
        BY <1>3, <1>4, <2>2, <3>1
      <4>. QED  BY <1>2, <1>5, <3>1, <4>1 DEF WaveInv, LastIsCurrent
    <3>2. CASE m.kind = "WaveformGenerated"
      <4>1. Updates(waveDown) = {}
        BY <1>3, <1>4, <2>2, <3>2
      <4>. QED  BY <1>5, <2>2, <3>2, <4>1 DEF WaveInv, LastIsCurrent
    <3>. QED  BY <1>1, <3>1, <3>2
  <2>. QED  BY <1>1, <2>1, <2>2 DEF LastIsCurrent
<1>9. Chained'
  BY <1>1, WaveKept DEF WaveInv
<1>10. ShownIsKept'
  <2>1. ShownIsKept
    BY DEF WaveInv
  <2>2. ASSUME NEW k \in 1..Len(waveDown'), waveDown'[k].kind = "WaveformGenerated",
               waveDown'[k].res # "Err"
        PROVE  IsKept(waveDown'[k].uuid, waveDown'[k].res)
    BY <1>2, <2>1, <2>2 DEF ShownIsKept, n
  <2>3. wave' # NoFile => IsKept(ui'.wave, wave')
    <3>1. CASE m.kind = "UpdateActionInfo"
      <4>1. W!OnNewParameters(m.params)
        BY <1>1, <3>1
      <4>. QED  BY <2>1, <4>1 DEF W!OnNewParameters, W!UpdateWaveform, ShownIsKept
    <3>2. CASE m.kind = "WaveformGenerated"
      <4>1. W!OnWaveformReply(m.uuid, m.res) /\ (m.res # "Err" => IsKept(m.uuid, m.res))
        BY <1>1, <1>2, <2>1, <3>2 DEF ShownIsKept, n
      <4>. QED  BY <2>1, <4>1 DEF W!OnWaveformReply, W!UpdateWaveform, ShownIsKept
    <3>. QED  BY <1>1, <3>1, <3>2
  <2>. QED  BY <1>1, <2>2, <2>3 DEF ShownIsKept, IsKept
<1>11. (~failed' => RequestsRight') /\ (~hasty' => Fitting')
  BY <1>1, WaveKept DEF WaveInv
<1>. QED  BY <1>6, <1>7, <1>8, <1>9, <1>10, <1>11 DEF WaveInv

(* What the server makes of parameters. *)
LEMMA TakenFacts ==
    ASSUME NEW q \in W!Params
    PROVE  /\ W!Taken(q) \in W!Params /\ W!Taken(q).url = q.url
           /\ W!Taken(q).wave \in {q.wave, W!NoWave}
           /\ q.url = params.url => W!Taken(q) = q
           /\ q.url # params.url => W!Taken(q).wave = W!NoWave
BY DEF W!Taken, W!Params

LEMMA TakenFits ==
    ASSUME NEW q \in W!Params, W!Fits(q) \/ q.url # params.url, UNCHANGED waveMade,
           params' = W!Taken(q)
    PROVE  W!Fits(params)'
BY TakenFacts DEF W!Fits

(* The server takes parameters and tells the editor, and the history goes  *)
(* along.                                                                  *)
Changes == [undo : W!Params, redo : W!Params]
HistoryKnown ==
    /\ \A k \in 1..Len(done) : Known(done[k].undo) /\ Known(done[k].redo)
    /\ \A k \in 1..Len(undone) : Known(undone[k].undo) /\ Known(undone[k].redo)
CommandsKnown ==
    \A k \in 1..Len(waveUp) :
        IF waveUp[k].kind = "UpdateActionParams" THEN Known(waveUp[k].params)
        ELSE waveUp[k].uuid <= Len(waveMade)

LEMMA ServerUpdates ==
    ASSUME WaveInv, NEW q \in W!Params, q.wave <= Len(waveMade), W!SetParams(q),
           done' \in Seq(Changes), undone' \in Seq(Changes), HistoryKnown', Chained',
           waveUp' \in Seq(WaveCommands), CommandsKnown',
           changes' \in 0..MaxChanges, crossed' \in BOOLEAN, hasty' \in BOOLEAN,
           ~failed => RequestsRight', ~hasty' => Fitting',
           UNCHANGED <<active, completed, ui, wave, redraw, waveMade, failed>>
    PROVE  WaveInv'
<1>. DEFINE n == Len(waveDown)
            t == W!Taken(q)
            m == W!Info(t)
<1>1. WaveTypes /\ UuidsKnown
  BY DEF WaveInv
<1>2. /\ t \in W!Params /\ t.wave <= Len(waveMade)
      /\ q.url = params.url => t = q
      /\ q.url # params.url => t.wave = W!NoWave
  <2>1. Len(waveMade) \in Nat
    BY <1>1, WaveFacts
  <2>. QED  BY <2>1, TakenFacts DEF W!NoWave
<1>3. params' = t /\ waveDown' = Append(waveDown, m)
  BY DEF W!SetParams
<1>. HIDE DEF t
<1>4. m \in WaveReplies /\ W!Carries(m) /\ m.kind = "UpdateActionInfo" /\ m.params = t
  BY <1>2, UpdateFacts
<1>. HIDE DEF m
<1>5. /\ waveDown' \in Seq(WaveReplies) /\ n \in Nat /\ Len(waveDown') = n + 1
      /\ \A k \in 1..n : waveDown'[k] = waveDown[k]
      /\ waveDown'[n + 1] = m
      /\ \A k \in 1..(n + 1) : k \in 1..n \/ k = n + 1
  BY <1>1, <1>3, <1>4, WaveFacts, AppendedTo
<1>6. Updates(waveDown') = Updates(waveDown) \cup {n + 1}
  BY <1>1, <1>3, <1>4, WaveFacts, UpdatesAppended
<1>7. \A k \in Updates(waveDown) : k \in Nat /\ k <= n
  BY <1>5 DEF Updates
<1>. HIDE DEF n
<1>8. WaveTypes'
  BY <1>1, <1>2, <1>3, <1>5 DEF WaveTypes, W!TypeOK, Changes
<1>9. UuidsKnown'
  <2>1. ASSUME NEW k \in 1..Len(waveDown')
        PROVE  IF waveDown'[k].kind = "UpdateActionInfo" THEN waveDown'[k].params.wave <= Len(waveMade)
               ELSE waveDown'[k].uuid <= Len(waveMade)
    BY <1>1, <1>2, <1>4, <1>5 DEF UuidsKnown, Known, n
  <2>. QED  BY <1>1, <1>2, <1>3, <2>1 DEF UuidsKnown, Known, HistoryKnown, CommandsKnown
<1>10. LastIsCurrent'
  <2>1. ASSUME NEW k \in Updates(waveDown'), \A j \in Updates(waveDown') : j <= k
        PROVE  waveDown'[k].params = params'
    <3>1. k = n + 1
      <4>1. n + 1 <= k
        BY <1>6, <2>1
      <4>2. k \notin Updates(waveDown)
        BY <1>5, <1>7, <4>1
      <4>. QED  BY <1>6, <2>1, <4>2
    <3>. QED  BY <1>3, <1>4, <1>5, <3>1
  <2>. QED  BY <1>6, <2>1 DEF LastIsCurrent
<1>11. ShownIsKept'
  <2>1. ShownIsKept
    BY DEF WaveInv
  <2>2. ASSUME NEW k \in 1..Len(waveDown'), waveDown'[k].kind = "WaveformGenerated",
               waveDown'[k].res # "Err"
        PROVE  IsKept(waveDown'[k].uuid, waveDown'[k].res)
    BY <1>4, <1>5, <2>1, <2>2 DEF ShownIsKept, n
  <2>. QED  BY <2>1, <2>2 DEF ShownIsKept, IsKept
<1>. QED  BY <1>8, <1>9, <1>10, <1>11 DEF WaveInv

(* A request that stays in the queue, from which another message is taken. *)
LEMMA RequestsStillFor ==
    ASSUME WaveTypes, NEW u, waveUp # <<>>, waveUp' = Tail(waveUp), UNCHANGED waveMade,
           1 \notin RequestsFor(waveUp, u), RequestsFor(waveUp, u) # {}, FirstIsFor(u)
    PROVE  RequestsFor(waveUp', u) # {} /\ FirstIsFor(u)'
<1>1. /\ \A k \in RequestsFor(waveUp', u) :
             k + 1 \in RequestsFor(waveUp, u) /\ waveUp'[k] = waveUp[k + 1] /\ k \in Nat
      /\ \A k \in RequestsFor(waveUp, u) : k = 1 \/ k - 1 \in RequestsFor(waveUp', u)
      /\ RequestsFor(waveUp, u) \in SUBSET Nat
  BY WaveFacts, RequestsTaken
<1>2. ASSUME NEW k \in RequestsFor(waveUp', u), \A j \in RequestsFor(waveUp', u) : k <= j
      PROVE  waveUp'[k].file = waveMade'[u]
  <2>1. ASSUME NEW j \in RequestsFor(waveUp, u) PROVE k + 1 <= j
    <3>1. j \in Nat /\ j - 1 \in RequestsFor(waveUp', u)
      BY <1>1, <2>1
    <3>2. k <= j - 1
      BY <1>2, <3>1
    <3>. QED  BY <1>1, <1>2, <3>1, <3>2
  <2>. QED  BY <1>1, <1>2, <2>1 DEF FirstIsFor
<1>3. RequestsFor(waveUp', u) # {}
  BY <1>1
<1>. QED  BY <1>2, <1>3 DEF FirstIsFor

LEMMA UpdateKeeps ==
    ASSUME WaveInv, W!HandleCommand, Head(waveUp).kind = "UpdateActionParams"
    PROVE  WaveInv'
<1>. DEFINE n == Len(waveUp)
            m == Head(waveUp)
            q == m.params
            r == [undo |-> params, redo |-> q]
<1>1. WaveTypes /\ UuidsKnown /\ Chained
  BY DEF WaveInv
<1>2. /\ waveUp # <<>> /\ waveUp' = Tail(waveUp) /\ W!SetParams(q)
      /\ done' = Append(done, r) /\ undone' = <<>>
      /\ UNCHANGED <<active, completed, ui, wave, redraw, waveMade, changes, failed, crossed, hasty>>
  BY DEF W!HandleCommand, W!uiVars
<1>3. /\ waveUp' \in Seq(WaveCommands) /\ n \in Nat \ {0} /\ Len(waveUp') = n - 1
      /\ \A k \in 1..Len(waveUp') : waveUp'[k] = waveUp[k + 1] /\ k + 1 \in 1..n
      /\ m = waveUp[1] /\ m \in WaveCommands /\ 1 \in 1..n
  BY <1>1, <1>2, WaveFacts, TakenFrom
<1>4. q \in W!Params /\ W!Carries(m) /\ q.wave <= Len(waveMade)
  BY <1>1, <1>3 DEF WaveCommands, W!Carries, UuidsKnown, Known
<1>5. /\ \A k \in Updates(waveUp') : k + 1 \in Updates(waveUp) /\ k \in Nat
      /\ 1 \in Updates(waveUp)
  BY <1>1, <1>2, <1>4, WaveFacts, UpdatesTaken
<1>6. /\ \A u : \A k \in RequestsFor(waveUp', u) :
            k + 1 \in RequestsFor(waveUp, u) /\ waveUp'[k] = waveUp[k + 1] /\ k \in Nat
      /\ \A u : \A k \in RequestsFor(waveUp, u) : k = 1 \/ k - 1 \in RequestsFor(waveUp', u)
      /\ \A u : 1 \notin RequestsFor(waveUp, u) /\ RequestsFor(waveUp, u) \in SUBSET Nat
  BY <1>1, <1>2, WaveFacts, RequestsTaken
<1>7. r \in Changes /\ r.undo = params /\ r.redo = q
  BY <1>1, <1>4, WaveFacts DEF Changes
<1>. HIDE DEF q, m, r
<1>8. /\ done' \in Seq(Changes) /\ undone' \in Seq(Changes) /\ Len(done) \in Nat
      /\ Len(done') = Len(done) + 1 /\ Len(undone') = 0
      /\ \A k \in 1..Len(done) : done'[k] = done[k]
      /\ done'[Len(done) + 1] = r
      /\ \A k \in 1..(Len(done) + 1) : k \in 1..Len(done) \/ k = Len(done) + 1
  <2>1. done \in Seq(Changes)
    BY <1>1 DEF WaveTypes, W!TypeOK, Changes
  <2>2. undone' \in Seq(Changes) /\ Len(undone') = 0
    BY <1>2
  <2>. QED  BY <1>2, <1>7, <2>1, <2>2, AppendedTo
<1>9. HistoryKnown'
  BY <1>1, <1>2, <1>4, <1>7, <1>8 DEF HistoryKnown, UuidsKnown, Known
<1>10. params'.url = q.url
  BY <1>2, <1>4, TakenFacts DEF W!SetParams
<1>11. Chained'
  <2>1. done' # <<>> => done'[Len(done')].redo.url = params'.url
    BY <1>7, <1>8, <1>10
  <2>2. ASSUME NEW k \in 1..(Len(done') - 1) PROVE done'[k].redo.url = done'[k + 1].undo.url
    <3>1. CASE k = Len(done)
      <4>1. k \in 1..Len(done) /\ done # <<>>
        BY <1>8, <2>2, <3>1
      <4>. QED  BY <1>1, <1>7, <1>8, <3>1, <4>1 DEF Chained
    <3>2. CASE k # Len(done)
      <4>1. k \in 1..(Len(done) - 1) /\ k \in 1..Len(done) /\ k + 1 \in 1..Len(done)
        BY <1>8, <2>2, <3>2
      <4>. QED  BY <1>1, <1>8, <4>1 DEF Chained
    <3>. QED  BY <3>1, <3>2
  <2>3. undone' = <<>> /\ 1..(Len(undone') - 1) = {}
    BY <1>2, <1>8
  <2>. QED  BY <2>1, <2>2, <2>3 DEF Chained
<1>12. CommandsKnown'
  <2>1. waveMade' = waveMade
    BY <1>2
  <2>. QED  BY <1>1, <1>3, <2>1 DEF CommandsKnown, UuidsKnown, Known, n
<1>13. ASSUME ~failed PROVE RequestsRight'
  <2>1. RequestsRight
    BY <1>13 DEF WaveInv
  <2>2. Seen' = Seen /\ waveMade' = waveMade
    BY <1>2 DEF Seen
  <2>3. ASSUME NEW u \in (1..Len(waveMade)) \ Seen PROVE RequestsFor(waveUp', u) # {} /\ FirstIsFor(u)'
    BY <1>1, <1>2, <1>6, <2>1, <2>3, RequestsStillFor DEF RequestsRight
  <2>. QED  BY <1>2, <2>1, <2>2, <2>3 DEF RequestsRight
<1>14. ASSUME ~hasty' PROVE Fitting'
  <2>1. Fitting /\ waveMade' = waveMade /\ \A p : W!Fits(p)' <=> W!Fits(p)
    BY <1>2, <1>14 DEF WaveInv, W!Fits
  <2>2. W!Fits(q) \/ q.url # params.url
    <3>1. W!Fits(waveUp[1].params) \/ ComesAsNew(1)
      BY <1>5, <2>1 DEF Fitting, UpdatesFit
    <3>2. \A j \in Updates(waveUp) : 1 <= j
      BY DEF Updates
    <3>. QED  BY <1>3, <3>1, <3>2 DEF ComesAsNew, q
  <2>3. W!Fits(params)'
    BY <1>2, <1>4, <2>2, TakenFits DEF W!SetParams
  <2>4. FitsIn(r)
    BY <1>7, <2>1, <2>2 DEF Fitting, FitsIn
  <2>5. HistoryFits'
    <3>1. \A x : FitsIn(x) => /\ W!Fits(x.undo)'
                              /\ W!Fits(x.redo)' \/ x.redo.url # x.undo.url
      BY <2>1 DEF FitsIn
    <3>2. ASSUME NEW k \in 1..Len(done') PROVE FitsIn(done'[k])
      BY <1>8, <2>1, <2>4, <3>2 DEF Fitting, HistoryFits
    <3>3. 1..Len(undone') = {}
      BY <1>8
    <3>. QED  BY <2>1, <3>2, <3>3 DEF HistoryFits, FitsIn, W!Fits
  <2>6. ASSUME NEW k \in Updates(waveUp'), ComesAsNew(k + 1) PROVE ComesAsNew(k)'
    <3>1. k + 1 \in Updates(waveUp) /\ k \in Nat /\ 1 < k + 1 /\ waveUp'[k] = waveUp[k + 1]
      BY <1>3, <1>5, <2>6 DEF Updates
    <3>2. ASSUME NEW j \in Updates(waveUp'), j < k PROVE waveUp'[j].params.url # waveUp'[k].params.url
      <4>1. j + 1 \in Updates(waveUp) /\ j \in Nat /\ j + 1 < k + 1 /\ waveUp'[j] = waveUp[j + 1]
        BY <1>3, <1>5, <3>1, <3>2 DEF Updates
      <4>. QED  BY <2>6, <3>1, <4>1 DEF ComesAsNew
    <3>3. params'.url # waveUp'[k].params.url
      BY <1>3, <1>5, <1>10, <2>6, <3>1 DEF ComesAsNew, q
    <3>. QED  BY <3>2, <3>3 DEF ComesAsNew
  <2>7. UpdatesFit'
    <3>1. ASSUME NEW k \in Updates(waveUp') PROVE W!Fits(waveUp[k].params)' \/ ComesAsNew(k)'
      <4>1. k + 1 \in Updates(waveUp) /\ waveUp'[k] = waveUp[k + 1]
        BY <1>3, <1>5, <3>1 DEF Updates
      <4>2. W!Fits(waveUp[k + 1].params) \/ ComesAsNew(k + 1)
        BY <2>1, <4>1 DEF Fitting, UpdatesFit
      <4>. QED  BY <2>1, <2>6, <4>1, <4>2 DEF W!Fits
    <3>. QED  BY <3>1 DEF UpdatesFit
  <2>. QED  BY <2>3, <2>5, <2>7 DEF Fitting
<1>15. changes' \in 0..MaxChanges /\ crossed' \in BOOLEAN /\ hasty' \in BOOLEAN
  BY <1>1, <1>2 DEF WaveTypes, W!TypeOK
<1>. QED
  BY <1>2, <1>3, <1>4, <1>8, <1>9, <1>11, <1>12, <1>13, <1>14, <1>15, ServerUpdates

(* What is undone or redone fits, and so does what is then in the history. *)
LEMMA RestoredFits ==
    ASSUME WaveInv, W!UndoOrRedo, ~hasty', NEW q \in W!Params, W!SetParams(q),
           W!Fits(q) \/ q.url # params.url, HistoryFits'
    PROVE  Fitting'
<1>1. /\ WaveTypes /\ Fitting /\ UNCHANGED <<waveUp, waveMade>>
      /\ \A p \in W!Sent(waveUp) : W!Fits(p) \/ p.url # params'.url
  BY DEF WaveInv, W!UndoOrRedo, W!uiVars
<1>2. W!Fits(params)'
  BY <1>1, TakenFits DEF W!SetParams
<1>3. ASSUME NEW k \in Updates(waveUp') PROVE W!Fits(waveUp[k].params)' \/ ComesAsNew(k)'
  <2>1. k \in Updates(waveUp) /\ waveUp'[k] = waveUp[k]
    BY <1>1, <1>3
  <2>2. CASE W!Fits(waveUp[k].params)
    BY <1>1, <2>2 DEF W!Fits
  <2>3. CASE ~W!Fits(waveUp[k].params)
    <3>1. params'.url # waveUp[k].params.url
      BY <1>1, <2>1, <2>3, UpdatesSent
    <3>2. ComesAsNew(k)
      BY <1>1, <2>1, <2>3 DEF Fitting, UpdatesFit
    <3>. QED  BY <1>1, <3>1, <3>2 DEF ComesAsNew
  <2>. QED  BY <2>2, <2>3
<1>. QED  BY <1>2, <1>3 DEF Fitting, UpdatesFit

LEMMA UndoOrRedoKeeps ==
    ASSUME WaveInv, W!UndoOrRedo
    PROVE  WaveInv'
<1>1. WaveTypes /\ UuidsKnown /\ Chained
  BY DEF WaveInv
<1>2. /\ waveUp' = waveUp /\ changes' \in 0..MaxChanges
      /\ crossed' \in BOOLEAN /\ hasty' \in BOOLEAN
      /\ UNCHANGED <<active, completed, ui, wave, redraw, waveMade, failed>>
  <2>1. changes \in 0..MaxChanges /\ MaxChanges \in Nat
    BY <1>1, WaveformsConstants DEF WaveTypes, W!TypeOK, W!WaveformsAssumption
  <2>2. changes' \in 0..MaxChanges
    BY <2>1 DEF W!UndoOrRedo, W!Change
  <2>3. crossed' \in BOOLEAN /\ hasty' \in BOOLEAN /\ waveUp' = waveUp
        /\ UNCHANGED <<active, completed, ui, wave, redraw, waveMade, failed>>
    BY DEF W!UndoOrRedo, W!uiVars
  <2>. QED  BY <2>2, <2>3
<1>3. waveUp' \in Seq(WaveCommands) /\ CommandsKnown'
  BY <1>1, <1>2 DEF WaveTypes, UuidsKnown, CommandsKnown, Known
<1>4. ~failed => RequestsRight'
  BY <1>2, WaveKept DEF WaveInv
<1>5. ~hasty' => HistoryFits
  BY DEF WaveInv, Fitting, W!UndoOrRedo
<1>6. done \in Seq(Changes) /\ undone \in Seq(Changes)
  BY <1>1 DEF WaveTypes, W!TypeOK, Changes
<1>7. CASE done # <<>> /\ W!SetParams(W!Last(done).undo)
           /\ done' = W!Front(done) /\ undone' = Append(undone, W!Last(done))
  <2>. DEFINE n == Len(done)
              o == Len(undone)
              r == done[n]
              q == r.undo
  <2>1. /\ n \in Nat \ {0} /\ n \in 1..n /\ r \in Changes /\ o \in Nat
        /\ q \in W!Params /\ q.wave <= Len(waveMade) /\ r.redo.wave <= Len(waveMade)
    <3>1. n \in Nat \ {0} /\ n \in 1..n /\ o \in Nat
      BY <1>6, <1>7, EmptySeq
    <3>2. r \in Changes
      BY <1>6, <3>1, ElementOfSeq
    <3>. QED  BY <1>1, <3>1, <3>2 DEF Changes, UuidsKnown, Known
  <2>2. W!SetParams(q) /\ done' = SubSeq(done, 1, n - 1) /\ undone' = Append(undone, r)
    BY <1>7 DEF W!Last, W!Front
  <2>3. /\ done' \in Seq(Changes) /\ Len(done') = n - 1
        /\ \A k \in 1..(n - 1) : done'[k] = done[k] /\ k \in 1..n
    BY <1>6, <1>7, <2>2, LastTaken
  <2>4. /\ undone' \in Seq(Changes) /\ Len(undone') = o + 1
        /\ \A k \in 1..o : undone'[k] = undone[k]
        /\ undone'[o + 1] = r
        /\ \A k \in 1..(o + 1) : k \in 1..o \/ k = o + 1
    BY <1>6, <2>1, <2>2, AppendedTo
  <2>5. params'.url = q.url
    BY <2>1, <2>2, TakenFacts DEF W!SetParams
  <2>6. r.redo.url = params.url
    BY <1>1, <1>7 DEF Chained
  <2>7. /\ \A k \in 1..(n - 1) : done[k].redo.url = done[k + 1].undo.url
        /\ o # 0 => undone[o].undo.url = params.url
        /\ \A k \in 1..(o - 1) : undone[k].undo.url = undone[k + 1].redo.url
    BY <1>1, <1>6 DEF Chained
  <2>8. ~hasty' => /\ \A k \in 1..n : FitsIn(done[k])
                   /\ \A k \in 1..o : FitsIn(undone[k])
    BY <1>5 DEF HistoryFits
  <2>9. /\ \A k \in 1..n : Known(done[k].undo) /\ Known(done[k].redo)
        /\ \A k \in 1..o : Known(undone[k].undo) /\ Known(undone[k].redo)
    BY <1>1 DEF UuidsKnown
  <2>10. r = done[n] /\ q = r.undo
    OBVIOUS
  <2>. HIDE DEF n, o, r, q
  <2>11. HistoryKnown'
    <3>1. \A p : Known(p) => Known(p)'
      BY <1>2 DEF Known
    <3>. QED  BY <1>2, <2>1, <2>3, <2>4, <2>9, <2>10 DEF HistoryKnown, Known
  <2>12. Chained'
    <3>1. done' # <<>> => done'[Len(done')].redo.url = params'.url
      <4>1. SUFFICES ASSUME n - 1 # 0 PROVE done'[n - 1].redo.url = q.url
        BY <2>3, <2>5, EmptySeq
      <4>2. n - 1 \in 1..(n - 1) /\ n - 1 + 1 = n
        BY <2>1, <4>1
      <4>. QED  BY <2>3, <2>7, <2>10, <4>2
    <3>2. ASSUME NEW k \in 1..(Len(done') - 1) PROVE done'[k].redo.url = done'[k + 1].undo.url
      <4>1. k \in 1..(n - 1) /\ k + 1 \in 1..(n - 1)
        BY <2>1, <2>3, <3>2
      <4>. QED  BY <2>3, <2>7, <4>1
    <3>3. undone' # <<>> => undone'[Len(undone')].undo.url = params'.url
      BY <2>4, <2>5, <2>10
    <3>4. ASSUME NEW k \in 1..(Len(undone') - 1) PROVE undone'[k].undo.url = undone'[k + 1].redo.url
      <4>1. k \in 1..o /\ o # 0
        BY <2>1, <2>4, <3>4
      <4>2. CASE k = o
        BY <2>4, <2>6, <2>7, <4>1, <4>2
      <4>3. CASE k # o
        <5>1. k \in 1..(o - 1) /\ k + 1 \in 1..o
          BY <2>1, <4>1, <4>3
        <5>. QED  BY <2>4, <2>7, <4>1, <5>1
      <4>. QED  BY <4>2, <4>3
    <3>. QED  BY <3>1, <3>2, <3>3, <3>4 DEF Chained
  <2>13. ASSUME ~hasty' PROVE Fitting'
    <3>1. FitsIn(r)
      BY <2>1, <2>8, <2>10, <2>13
    <3>2. W!Fits(q) \/ q.url # params.url
      BY <2>6, <2>10, <3>1 DEF FitsIn
    <3>3. HistoryFits'
      <4>1. /\ \A k \in 1..(n - 1) : FitsIn(done'[k])
            /\ \A k \in 1..(o + 1) : FitsIn(undone'[k])
        BY <2>3, <2>4, <2>8, <2>13, <3>1
      <4>. QED  BY <1>2, <2>3, <2>4, <4>1 DEF HistoryFits, FitsIn, W!Fits
    <3>. QED  BY <2>1, <2>2, <2>13, <3>2, <3>3, RestoredFits
  <2>. QED
    BY <1>2, <1>3, <1>4, <2>1, <2>2, <2>3, <2>4, <2>11, <2>12, <2>13, ServerUpdates
<1>8. CASE undone # <<>> /\ W!SetParams(W!Last(undone).redo)
           /\ undone' = W!Front(undone) /\ done' = Append(done, W!Last(undone))
  <2>. DEFINE n == Len(undone)
              o == Len(done)
              r == undone[n]
              q == r.redo
  <2>1. /\ n \in Nat \ {0} /\ n \in 1..n /\ r \in Changes /\ o \in Nat
        /\ q \in W!Params /\ q.wave <= Len(waveMade) /\ r.undo.wave <= Len(waveMade)
    <3>1. n \in Nat \ {0} /\ n \in 1..n /\ o \in Nat
      BY <1>6, <1>8, EmptySeq
    <3>2. r \in Changes
      BY <1>6, <3>1, ElementOfSeq
    <3>. QED  BY <1>1, <3>1, <3>2 DEF Changes, UuidsKnown, Known
  <2>2. W!SetParams(q) /\ undone' = SubSeq(undone, 1, n - 1) /\ done' = Append(done, r)
    BY <1>8 DEF W!Last, W!Front
  <2>3. /\ undone' \in Seq(Changes) /\ Len(undone') = n - 1
        /\ \A k \in 1..(n - 1) : undone'[k] = undone[k] /\ k \in 1..n
    BY <1>6, <1>8, <2>2, LastTaken
  <2>4. /\ done' \in Seq(Changes) /\ Len(done') = o + 1
        /\ \A k \in 1..o : done'[k] = done[k]
        /\ done'[o + 1] = r
        /\ \A k \in 1..(o + 1) : k \in 1..o \/ k = o + 1
    BY <1>6, <2>1, <2>2, AppendedTo
  <2>5. params'.url = q.url
    BY <2>1, <2>2, TakenFacts DEF W!SetParams
  <2>6. r.undo.url = params.url
    BY <1>1, <1>8 DEF Chained
  <2>7. /\ \A k \in 1..(n - 1) : undone[k].undo.url = undone[k + 1].redo.url
        /\ o # 0 => done[o].redo.url = params.url
        /\ \A k \in 1..(o - 1) : done[k].redo.url = done[k + 1].undo.url
    BY <1>1, <1>6 DEF Chained
  <2>8. ~hasty' => /\ \A k \in 1..n : FitsIn(undone[k])
                   /\ \A k \in 1..o : FitsIn(done[k])
    BY <1>5 DEF HistoryFits
  <2>9. /\ \A k \in 1..n : Known(undone[k].undo) /\ Known(undone[k].redo)
        /\ \A k \in 1..o : Known(done[k].undo) /\ Known(done[k].redo)
    BY <1>1 DEF UuidsKnown
  <2>10. r = undone[n] /\ q = r.redo
    OBVIOUS
  <2>. HIDE DEF n, o, r, q
  <2>11. HistoryKnown'
    <3>1. \A p : Known(p) => Known(p)'
      BY <1>2 DEF Known
    <3>. QED  BY <1>2, <2>1, <2>3, <2>4, <2>9, <2>10 DEF HistoryKnown, Known
  <2>12. Chained'
    <3>1. undone' # <<>> => undone'[Len(undone')].undo.url = params'.url
      <4>1. SUFFICES ASSUME n - 1 # 0 PROVE undone'[n - 1].undo.url = q.url
        BY <2>3, <2>5, EmptySeq
      <4>2. n - 1 \in 1..(n - 1) /\ n - 1 + 1 = n
        BY <2>1, <4>1
      <4>. QED  BY <2>3, <2>7, <2>10, <4>2
    <3>2. ASSUME NEW k \in 1..(Len(undone') - 1) PROVE undone'[k].undo.url = undone'[k + 1].redo.url
      <4>1. k \in 1..(n - 1) /\ k + 1 \in 1..(n - 1)
        BY <2>1, <2>3, <3>2
      <4>. QED  BY <2>3, <2>7, <4>1
    <3>3. done' # <<>> => done'[Len(done')].redo.url = params'.url
      BY <2>4, <2>5, <2>10
    <3>4. ASSUME NEW k \in 1..(Len(done') - 1) PROVE done'[k].redo.url = done'[k + 1].undo.url
      <4>1. k \in 1..o /\ o # 0
        BY <2>1, <2>4, <3>4
      <4>2. CASE k = o
        BY <2>4, <2>6, <2>7, <4>1, <4>2
      <4>3. CASE k # o
        <5>1. k \in 1..(o - 1) /\ k + 1 \in 1..o
          BY <2>1, <4>1, <4>3
        <5>. QED  BY <2>4, <2>7, <4>1, <5>1
      <4>. QED  BY <4>2, <4>3
    <3>. QED  BY <3>1, <3>2, <3>3, <3>4 DEF Chained
  <2>13. ASSUME ~hasty' PROVE Fitting'
    <3>1. FitsIn(r)
      BY <2>1, <2>8, <2>10, <2>13
    <3>2. W!Fits(q) \/ q.url # params.url
      BY <2>6, <2>10, <3>1 DEF FitsIn
    <3>3. HistoryFits'
      <4>1. /\ \A k \in 1..(n - 1) : FitsIn(undone'[k])
            /\ \A k \in 1..(o + 1) : FitsIn(done'[k])
        BY <2>3, <2>4, <2>8, <2>13, <3>1
      <4>. QED  BY <1>2, <2>3, <2>4, <4>1 DEF HistoryFits, FitsIn, W!Fits
    <3>. QED  BY <2>1, <2>2, <2>13, <3>2, <3>3, RestoredFits
  <2>. QED
    BY <1>2, <1>3, <1>4, <2>1, <2>2, <2>3, <2>4, <2>11, <2>12, <2>13, ServerUpdates
<1>. QED  BY <1>7, <1>8 DEF W!UndoOrRedo

(* A request is executed. *)
LEMMA RequestKeeps ==
    ASSUME WaveInv, W!HandleCommand, Head(waveUp).kind = "GenerateWaveform"
    PROVE  WaveInv'
<1>. DEFINE n == Len(waveDown)
            m == Head(waveUp)
            u == m.uuid
            f == m.file
            b == W!Generated(u, completed[u])
<1>1. WaveTypes /\ UuidsKnown
  BY DEF WaveInv
<1>2. /\ waveUp # <<>> /\ waveUp' = Tail(waveUp) /\ W!ExecuteRequest(u, f)
      /\ UNCHANGED <<params, done, undone, completed, ui, wave, redraw, waveMade, changes, crossed, hasty>>
  BY DEF W!HandleCommand, W!uiVars
<1>3. /\ waveUp' \in Seq(WaveCommands)
      /\ \A k \in 1..Len(waveUp') : waveUp'[k] = waveUp[k + 1] /\ k + 1 \in 1..Len(waveUp)
      /\ m = waveUp[1] /\ m \in WaveCommands /\ 1 \in 1..Len(waveUp)
  BY <1>1, <1>2, WaveFacts, TakenFrom
<1>4. u \in W!Uuids /\ f \in Files /\ ~W!Carries(m) /\ u <= Len(waveMade)
  BY <1>1, <1>3 DEF WaveCommands, W!Carries, UuidsKnown
<1>5. /\ \A k \in Updates(waveUp') : k + 1 \in Updates(waveUp) /\ k \in Nat
                                       /\ waveUp'[k] = waveUp[k + 1]
      /\ \A k \in Updates(waveUp) : k = 1 \/ k - 1 \in Updates(waveUp')
      /\ 1 \notin Updates(waveUp)
  BY <1>1, <1>2, <1>4, WaveFacts, UpdatesTaken
<1>6. /\ \A v : \A k \in RequestsFor(waveUp', v) :
            k + 1 \in RequestsFor(waveUp, v) /\ waveUp'[k] = waveUp[k + 1] /\ k \in Nat
      /\ \A v : \A k \in RequestsFor(waveUp, v) : k = 1 \/ k - 1 \in RequestsFor(waveUp', v)
      /\ \A v : 1 \in RequestsFor(waveUp, v) <=> v = u
      /\ \A v : RequestsFor(waveUp, v) \in SUBSET Nat
  <2>1. waveUp \in Seq(WaveCommands)
    BY <1>1, WaveFacts
  <2>2. SUFFICES ASSUME NEW v
                 PROVE  /\ \A k \in RequestsFor(waveUp', v) :
                               k + 1 \in RequestsFor(waveUp, v) /\ waveUp'[k] = waveUp[k + 1] /\ k \in Nat
                        /\ \A k \in RequestsFor(waveUp, v) : k = 1 \/ k - 1 \in RequestsFor(waveUp', v)
                        /\ 1 \in RequestsFor(waveUp, v) <=> v = u
                        /\ RequestsFor(waveUp, v) \in SUBSET Nat
    OBVIOUS
  <2>3. m.kind = "GenerateWaveform" /\ waveUp # <<>>
    BY <1>2
  <2>4. /\ \A k \in RequestsFor(Tail(waveUp), v) :
               k + 1 \in RequestsFor(waveUp, v) /\ Tail(waveUp)[k] = waveUp[k + 1] /\ k \in Nat
        /\ \A k \in RequestsFor(waveUp, v) : k = 1 \/ k - 1 \in RequestsFor(Tail(waveUp), v)
        /\ 1 \in RequestsFor(waveUp, v) <=> m.kind = "GenerateWaveform" /\ m.uuid = v
        /\ RequestsFor(waveUp, v) \in SUBSET Nat
    BY <2>1, <2>3, RequestsTaken
  <2>5. 1 \in RequestsFor(waveUp, v) <=> v = u
    BY <2>3, <2>4
  <2>. HIDE DEF m, u
  <2>. QED  BY <1>2, <2>4, <2>5
<1>7. /\ UNCHANGED waveDown \/ (u \in DOMAIN completed /\ waveDown' = Append(waveDown, b))
      /\ UNCHANGED active
         \/ /\ u \notin Seen
            /\ active' = [v \in DOMAIN active \cup {u} |->
                             IF v = u THEN [file |-> f, thread |-> "running"] ELSE active[v]]
      /\ failed' \in BOOLEAN /\ (failed => failed')
      /\ ~failed' => u \in Seen'
  <2>. HIDE DEF u, f, b
  <2>1. CASE u \in DOMAIN active /\ UNCHANGED <<active, waveDown, failed>>
    BY <1>1, <2>1 DEF WaveTypes, W!TypeOK, Seen
  <2>2. CASE /\ u \notin DOMAIN active /\ u \in DOMAIN completed
             /\ waveDown' = Append(waveDown, W!Generated(u, completed[u]))
             /\ UNCHANGED <<active, failed>>
    BY <1>1, <1>2, <2>2 DEF WaveTypes, W!TypeOK, Seen, b
  <2>3. CASE /\ u \notin DOMAIN active \cup DOMAIN completed
             /\ failed' = TRUE /\ UNCHANGED <<active, waveDown>>
    BY <2>3
  <2>4. CASE /\ u \notin DOMAIN active \cup DOMAIN completed
             /\ active' = [v \in DOMAIN active \cup {u} |->
                              IF v = u THEN [file |-> f, thread |-> "running"] ELSE active[v]]
             /\ UNCHANGED <<waveDown, failed>>
    BY <1>1, <1>2, <2>4 DEF WaveTypes, W!TypeOK, Seen
  <2>. QED  BY <1>2, <2>1, <2>2, <2>3, <2>4 DEF W!ExecuteRequest
<1>. HIDE DEF u, f, m
<1>8. u \in DOMAIN completed => /\ b \in WaveReplies /\ ~W!Carries(b)
                                /\ b.kind = "WaveformGenerated" /\ b.uuid = u /\ b.res = completed[u]
  BY <1>1, <1>4 DEF WaveTypes, W!TypeOK, W!Generated, WaveReplies, W!Carries
<1>. HIDE DEF b
<1>9. /\ waveDown' \in Seq(WaveReplies) /\ n \in Nat
      /\ \A k \in 1..n : waveDown'[k] = waveDown[k] /\ k \in 1..Len(waveDown')
      /\ \A k \in 1..Len(waveDown') : k \in 1..n \/ (u \in DOMAIN completed /\ waveDown'[k] = b)
      /\ Updates(waveDown') = Updates(waveDown)
  <2>1. waveDown \in Seq(WaveReplies) /\ n \in Nat
    BY <1>1, WaveFacts
  <2>2. CASE UNCHANGED waveDown
    BY <2>1, <2>2
  <2>3. CASE u \in DOMAIN completed /\ waveDown' = Append(waveDown, b)
    <3>1. /\ waveDown' \in Seq(WaveReplies) /\ Len(waveDown') = n + 1
          /\ \A k \in 1..n : waveDown'[k] = waveDown[k]
          /\ waveDown'[n + 1] = b
          /\ \A k \in 1..(n + 1) : k \in 1..n \/ k = n + 1
      BY <1>8, <2>1, <2>3, AppendedTo
    <3>2. Updates(waveDown') = Updates(waveDown)
      BY <1>8, <2>1, <2>3, UpdatesAppended
    <3>3. \A k \in 1..n : k \in 1..(n + 1)
      BY <2>1
    <3>. HIDE DEF n
    <3>. QED  BY <2>1, <2>3, <3>1, <3>2, <3>3
  <2>. QED  BY <1>7, <2>2, <2>3
<1>10. /\ Seen' \subseteq Seen \cup {u} /\ Seen \subseteq Seen'
       /\ \A v \in DOMAIN active : v \in DOMAIN active' /\ active'[v] = active[v]
       /\ \A v \in DOMAIN active' :
             v \in DOMAIN active \/ /\ v = u /\ u \notin Seen
                                    /\ active'[v] = [file |-> f, thread |-> "running"]
  BY <1>2, <1>7 DEF Seen
<1>11. WaveTypes'
  <2>1. DOMAIN active' \subseteq W!Uuids /\ DOMAIN active' \cap DOMAIN completed = {}
    BY <1>1, <1>4, <1>10 DEF WaveTypes, W!TypeOK, Seen
  <2>2. \A v \in DOMAIN active' : active'[v] \in [file : Files, thread : W!Threads]
    BY <1>1, <1>4, <1>10 DEF WaveTypes, W!TypeOK, W!Threads
  <2>3. failed' \in BOOLEAN
    BY <1>7
  <2>. QED  BY <1>1, <1>2, <1>3, <1>9, <2>1, <2>2, <2>3 DEF WaveTypes, W!TypeOK
<1>. HIDE DEF n
<1>12. UuidsKnown'
  <2>1. ASSUME NEW k \in 1..Len(waveUp')
        PROVE  IF waveUp'[k].kind = "UpdateActionParams" THEN waveUp'[k].params.wave <= Len(waveMade)
               ELSE waveUp'[k].uuid <= Len(waveMade)
    BY <1>1, <1>3 DEF UuidsKnown, Known
  <2>2. ASSUME NEW k \in 1..Len(waveDown')
        PROVE  IF waveDown'[k].kind = "UpdateActionInfo" THEN waveDown'[k].params.wave <= Len(waveMade)
               ELSE waveDown'[k].uuid <= Len(waveMade)
    BY <1>1, <1>4, <1>8, <1>9 DEF UuidsKnown, Known, n
  <2>3. \A v \in Seen' : v <= Len(waveMade)
    BY <1>1, <1>4, <1>10 DEF UuidsKnown, Seen
  <2>. QED  BY <1>1, <1>2, <2>1, <2>2, <2>3 DEF UuidsKnown, Known, Seen
<1>13. \A k \in Updates(waveDown) : waveDown'[k] = waveDown[k]
  BY <1>9 DEF Updates, n
<1>14. LastIsCurrent'
  BY <1>2, <1>5, <1>9, <1>13 DEF WaveInv, LastIsCurrent
<1>15. Chained'
  BY <1>2, WaveKept DEF WaveInv
<1>16. ShownIsKept'
  <2>1. ShownIsKept
    BY DEF WaveInv
  <2>2. ASSUME NEW k \in 1..Len(waveDown'), waveDown'[k].kind = "WaveformGenerated",
               waveDown'[k].res # "Err"
        PROVE  IsKept(waveDown'[k].uuid, waveDown'[k].res)
    BY <1>8, <1>9, <2>1, <2>2 DEF ShownIsKept, IsKept, n
  <2>. QED  BY <1>2, <2>1, <2>2 DEF ShownIsKept, IsKept
<1>17. ASSUME ~failed' PROVE RequestsRight'
  <2>1. RequestsRight
    BY <1>7, <1>17 DEF WaveInv
  <2>2. u \in 1..Len(waveMade) /\ Len(waveMade) \in Nat
    BY <1>1, <1>4, WaveFacts DEF W!Uuids
  <2>3. u \notin Seen => f = waveMade[u]
    <3>1. ASSUME u \notin Seen PROVE waveUp[1].file = waveMade[u]
      <4>1. 1 \in RequestsFor(waveUp, u) /\ \A j \in RequestsFor(waveUp, u) : 1 <= j
        BY <1>6 DEF RequestsFor
      <4>. QED  BY <2>1, <2>2, <3>1, <4>1 DEF RequestsRight, FirstIsFor
    <3>. QED  BY <1>3, <3>1 DEF f
  <2>4. \A v \in DOMAIN active' : active'[v].file = waveMade[v] /\ active'[v].thread \in {"running", "Ok"}
    BY <1>10, <2>1, <2>3 DEF RequestsRight
  <2>5. ASSUME NEW v \in (1..Len(waveMade)) \ Seen' PROVE RequestsFor(waveUp', v) # {} /\ FirstIsFor(v)'
    <3>1. v # u /\ v \notin Seen
      BY <1>7, <1>10, <1>17, <2>5
    <3>. QED  BY <1>1, <1>2, <1>6, <2>1, <2>5, <3>1, RequestsStillFor DEF RequestsRight
  <2>. QED  BY <1>2, <2>1, <2>4, <2>5 DEF RequestsRight
<1>18. ASSUME ~hasty' PROVE Fitting'
  <2>1. Fitting /\ waveMade' = waveMade /\ params' = params
    BY <1>2, <1>18 DEF WaveInv
  <2>2. HistoryFits' /\ W!Fits(params)'
    BY <1>2, <2>1, WaveKept DEF Fitting, W!Fits
  <2>3. ASSUME NEW k \in Updates(waveUp'), ComesAsNew(k + 1) PROVE ComesAsNew(k)'
    <3>1. k + 1 \in Updates(waveUp) /\ k \in Nat /\ waveUp'[k] = waveUp[k + 1]
      BY <1>5, <2>3
    <3>2. ASSUME NEW j \in Updates(waveUp'), j < k PROVE waveUp'[j].params.url # waveUp'[k].params.url
      <4>1. j + 1 \in Updates(waveUp) /\ j \in Nat /\ j + 1 < k + 1 /\ waveUp'[j] = waveUp[j + 1]
        BY <1>5, <3>1, <3>2
      <4>. QED  BY <2>3, <3>1, <4>1 DEF ComesAsNew
    <3>3. ASSUME \A j \in Updates(waveUp') : k <= j PROVE params'.url # waveUp'[k].params.url
      <4>1. ASSUME NEW j \in Updates(waveUp) PROVE k + 1 <= j
        <5>1. j \in Nat /\ j - 1 \in Updates(waveUp')
          BY <1>5, <4>1 DEF Updates
        <5>2. k <= j - 1
          BY <3>3, <5>1
        <5>. QED  BY <3>1, <5>1, <5>2
      <4>. QED  BY <2>1, <2>3, <3>1, <4>1 DEF ComesAsNew
    <3>. QED  BY <3>2, <3>3 DEF ComesAsNew
  <2>4. ASSUME NEW k \in Updates(waveUp') PROVE W!Fits(waveUp[k].params)' \/ ComesAsNew(k)'
    <3>1. k + 1 \in Updates(waveUp) /\ waveUp'[k] = waveUp[k + 1]
      BY <1>5, <2>4
    <3>2. W!Fits(waveUp[k + 1].params) \/ ComesAsNew(k + 1)
      BY <2>1, <3>1 DEF Fitting, UpdatesFit
    <3>. QED  BY <2>1, <2>3, <2>4, <3>1, <3>2 DEF W!Fits
  <2>. QED  BY <2>2, <2>4 DEF Fitting, UpdatesFit
<1>. QED  BY <1>11, <1>12, <1>14, <1>15, <1>16, <1>17, <1>18 DEF WaveInv

LEMMA FinishKeeps ==
    ASSUME WaveInv, W!Finish
    PROVE  WaveInv'
<1>1. WaveTypes /\ UuidsKnown
  BY DEF WaveInv
<1>2. PICK u \in DOMAIN active, end \in W!Threads \ {"running"} :
         /\ active[u].thread = "running"
         /\ active' = [active EXCEPT ![u].thread = end]
         /\ failed' = (failed \/ end # "Ok")
  BY DEF W!Finish
<1>3. UNCHANGED <<params, done, undone, completed, ui, wave, redraw, waveMade, waveUp, waveDown,
                  changes, crossed, hasty>>
  BY DEF W!Finish, W!uiVars
<1>4. /\ DOMAIN active' = DOMAIN active
      /\ \A v \in DOMAIN active : /\ active'[v] \in [file : Files, thread : W!Threads]
                                  /\ active'[v].file = active[v].file
                                  /\ active'[v].thread \in {active[v].thread, end}
  BY <1>1, <1>2 DEF WaveTypes, W!TypeOK
<1>5. WaveTypes'
  BY <1>1, <1>2, <1>3, <1>4 DEF WaveTypes, W!TypeOK
<1>6. UuidsKnown'
  BY <1>1, <1>3, <1>4 DEF UuidsKnown, Known
<1>7. LastIsCurrent'
  BY <1>3 DEF WaveInv, LastIsCurrent
<1>8. Chained' /\ ShownIsKept' /\ (~hasty' => Fitting')
  BY <1>3, WaveKept DEF WaveInv
<1>9. ASSUME ~failed' PROVE RequestsRight'
  <2>1. RequestsRight /\ end = "Ok"
    BY <1>2, <1>9 DEF WaveInv
  <2>2. \A v \in DOMAIN active' : active'[v].file = waveMade[v] /\ active'[v].thread \in {"running", "Ok"}
    BY <1>4, <2>1 DEF RequestsRight
  <2>3. Seen' = Seen
    BY <1>3, <1>4 DEF Seen
  <2>. QED  BY <1>3, <2>1, <2>2, <2>3 DEF RequestsRight, FirstIsFor
<1>. QED  BY <1>5, <1>6, <1>7, <1>8, <1>9 DEF WaveInv

(* What the threads that ended have found is kept and sent. *)
LEMMA OnWakeupKeeps ==
    ASSUME WaveInv, W!OnWakeup
    PROVE  WaveInv'
<1>. DEFINE ended == {u \in DOMAIN active : W!Resolved(u)}
            found == {u \in ended : W!Result(u) # "Err"}
<1>1. WaveTypes /\ UuidsKnown
  BY DEF WaveInv
<1>2. PICK told \in W!SetToSeqs(ended) :
         waveDown' = waveDown \o [i \in DOMAIN told |-> W!Generated(told[i], W!Result(told[i]))]
  BY DEF W!OnWakeup
<1>. DEFINE r == [i \in DOMAIN told |-> W!Generated(told[i], W!Result(told[i]))]
            c == Cardinality(ended)
<1>3. /\ active' = [u \in DOMAIN active \ ended |-> active[u]]
      /\ completed' = [u \in DOMAIN completed \cup found |->
                          IF u \in found THEN W!Result(u) ELSE completed[u]]
      /\ UNCHANGED <<params, done, undone, ui, wave, redraw, waveMade, waveUp, changes, failed, crossed, hasty>>
  BY DEF W!OnWakeup, W!Restrict, W!uiVars
<1>4. /\ \A u \in DOMAIN active : u \in W!Uuids /\ active[u] \in [file : Files, thread : W!Threads]
      /\ \A u \in ended : u \in DOMAIN active
      /\ \A u \in DOMAIN active : W!Result(u) \in Files \cup {"Err"}
  BY <1>1 DEF WaveTypes, W!TypeOK, W!Result
<1>5. /\ \A u \in found : W!Result(u) \in Files /\ active[u].thread = "Ok" /\ W!Result(u) = active[u].file
      /\ found \subseteq ended
      /\ \A u \in ended : active[u].thread = "Ok" => u \in found
  BY <1>4, WaveformsConstants DEF W!Result, W!WaveformsAssumption
<1>6. c \in Nat
  <2>1. IsFiniteSet(W!Uuids)
    BY <1>1, WaveFacts, FS_Interval DEF W!Uuids
  <2>2. ended \subseteq W!Uuids
    BY <1>4
  <2>. HIDE DEF ended
  <2>3. IsFiniteSet(ended)
    BY <2>1, <2>2, FS_Subset
  <2>. QED  BY <2>3, FS_CardinalityType
<1>. HIDE DEF c
<1>7. DOMAIN told = 1..c /\ \A i \in 1..c : told[i] \in ended
  BY DEF W!SetToSeqs, W!Cardinality, Cardinality, c
<1>. HIDE DEF ended, found
<1>8. \A u \in ended : /\ W!Generated(u, W!Result(u)) \in WaveReplies
                       /\ ~W!Carries(W!Generated(u, W!Result(u)))
                       /\ W!Generated(u, W!Result(u)).kind = "WaveformGenerated"
                       /\ W!Generated(u, W!Result(u)).uuid = u
                       /\ W!Generated(u, W!Result(u)).res = W!Result(u)
  BY <1>4 DEF W!Generated, WaveReplies, W!Carries
<1>9. /\ r \in Seq(WaveReplies) /\ Len(r) = c
      /\ \A i \in 1..c : \E u \in ended : r[i] = W!Generated(u, W!Result(u))
  <2>1. r = [i \in 1..c |-> W!Generated(told[i], W!Result(told[i]))]
    BY <1>7
  <2>2. \A i \in 1..c : W!Generated(told[i], W!Result(told[i])) \in WaveReplies
    BY <1>7, <1>8
  <2>. HIDE DEF r
  <2>3. r \in Seq(WaveReplies) /\ Len(r) = c
    BY <1>6, <2>1, <2>2
  <2>. QED  BY <1>7, <2>1, <2>3
<1>. HIDE DEF r
<1>10. /\ waveDown' \in Seq(WaveReplies)
       /\ \A k \in 1..Len(waveDown) : waveDown'[k] = waveDown[k]
       /\ \A k \in 1..Len(waveDown') :
             k \in 1..Len(waveDown) \/ \E u \in ended : waveDown'[k] = W!Generated(u, W!Result(u))
       /\ Updates(waveDown') = Updates(waveDown)
  <2>1. waveDown \in Seq(WaveReplies) /\ waveDown' = waveDown \o r
    BY <1>1, <1>2, WaveFacts DEF r
  <2>2. \A i \in 1..Len(r) : ~W!Carries(r[i])
    BY <1>8, <1>9
  <2>3. /\ waveDown \o r \in Seq(WaveReplies)
        /\ \A k \in 1..Len(waveDown) : (waveDown \o r)[k] = waveDown[k]
        /\ \A k \in 1..Len(waveDown \o r) :
              k \in 1..Len(waveDown) \/ \E i \in 1..Len(r) : (waveDown \o r)[k] = r[i]
        /\ Updates(waveDown \o r) = Updates(waveDown)
    BY <1>9, <2>1, <2>2, RepliesSent
  <2>. QED  BY <1>9, <2>1, <2>3
<1>11. Seen' \subseteq Seen /\ DOMAIN active' \subseteq DOMAIN active
       /\ DOMAIN completed' = DOMAIN completed \cup found
  BY <1>3, <1>4, <1>5 DEF Seen
<1>12. WaveTypes'
  <2>1. DOMAIN active' \subseteq W!Uuids /\ DOMAIN completed' \subseteq W!Uuids
    BY <1>1, <1>11, WaveFacts DEF Seen
  <2>2. DOMAIN active' \cap DOMAIN completed' = {}
    BY <1>1, <1>3, <1>5, <1>11 DEF WaveTypes, W!TypeOK
  <2>3. /\ \A u \in DOMAIN active' : active'[u] \in [file : Files, thread : W!Threads]
        /\ \A u \in DOMAIN completed' : completed'[u] \in Files
    BY <1>1, <1>3, <1>4, <1>5 DEF WaveTypes, W!TypeOK
  <2>. QED  BY <1>1, <1>3, <1>10, <2>1, <2>2, <2>3 DEF WaveTypes, W!TypeOK
<1>13. UuidsKnown'
  <2>1. \A u \in Seen : u <= Len(waveMade)
    BY <1>1 DEF UuidsKnown, Seen
  <2>2. ASSUME NEW k \in 1..Len(waveDown')
        PROVE  IF waveDown'[k].kind = "UpdateActionInfo" THEN waveDown'[k].params.wave <= Len(waveMade)
               ELSE waveDown'[k].uuid <= Len(waveMade)
    <3>1. CASE k \in 1..Len(waveDown)
      BY <1>1, <1>10, <3>1 DEF UuidsKnown, Known
    <3>2. CASE \E u \in ended : waveDown'[k] = W!Generated(u, W!Result(u))
      BY <1>4, <1>8, <2>1, <3>2 DEF Seen
    <3>. QED  BY <1>10, <3>1, <3>2
  <2>3. \A u \in Seen' : u <= Len(waveMade)
    BY <1>11, <2>1
  <2>. QED  BY <1>1, <1>3, <2>2, <2>3 DEF UuidsKnown, Known, Seen
<1>14. LastIsCurrent'
  <2>1. \A k \in Updates(waveDown) : waveDown'[k] = waveDown[k]
    BY <1>10 DEF Updates
  <2>. QED  BY <1>3, <1>10, <2>1 DEF WaveInv, LastIsCurrent
<1>15. Chained' /\ (~hasty' => Fitting')
  BY <1>3, WaveKept DEF WaveInv
<1>16. ShownIsKept'
  <2>1. ShownIsKept
    BY DEF WaveInv
  <2>2. \A u \in DOMAIN completed : u \notin found
    BY <1>1, <1>4, <1>5 DEF WaveTypes, W!TypeOK
  <2>3. \A u \in DOMAIN completed : u \in DOMAIN completed' /\ completed'[u] = completed[u]
    BY <1>3, <2>2
  <2>4. ASSUME NEW u \in ended, W!Result(u) # "Err" PROVE u \in DOMAIN completed' /\ completed'[u] = W!Result(u)
    BY <1>3, <2>4 DEF found
  <2>5. ASSUME NEW k \in 1..Len(waveDown'), waveDown'[k].kind = "WaveformGenerated",
               waveDown'[k].res # "Err"
        PROVE  waveDown'[k].uuid \in DOMAIN completed' /\ completed'[waveDown'[k].uuid] = waveDown'[k].res
    <3>1. CASE k \in 1..Len(waveDown)
      BY <1>10, <2>1, <2>3, <2>5, <3>1 DEF ShownIsKept, IsKept
    <3>2. CASE \E u \in ended : waveDown'[k] = W!Generated(u, W!Result(u))
      BY <1>8, <2>4, <2>5, <3>2
    <3>. QED  BY <1>10, <3>1, <3>2
  <2>6. wave' # NoFile => ui'.wave \in DOMAIN completed' /\ completed'[ui'.wave] = wave'
    BY <1>3, <2>1, <2>3 DEF ShownIsKept, IsKept
  <2>. QED  BY <2>5, <2>6 DEF ShownIsKept, IsKept
<1>17. ASSUME ~failed' PROVE RequestsRight'
  <2>1. RequestsRight
    BY <1>3, <1>17 DEF WaveInv
  <2>2. \A u \in ended : u \in found /\ W!Result(u) = waveMade[u]
    <3>1. ASSUME NEW u \in ended PROVE active[u].thread = "Ok" /\ active[u].file = waveMade[u]
      BY <2>1, <3>1 DEF RequestsRight, ended, W!Resolved
    <3>. QED  BY <1>5, <3>1
  <2>3. /\ \A u \in DOMAIN active' : active'[u].file = waveMade[u] /\ active'[u].thread \in {"running", "Ok"}
        /\ \A u \in DOMAIN completed' : completed'[u] = waveMade[u]
    BY <1>3, <1>5, <2>1, <2>2 DEF RequestsRight
  <2>4. Seen' = Seen
    BY <1>3, <1>5, <1>11, <2>2 DEF Seen
  <2>5. \A u : RequestsFor(waveUp', u) = RequestsFor(waveUp, u) /\ (FirstIsFor(u) => FirstIsFor(u)')
    BY <1>3 DEF FirstIsFor
  <2>. QED  BY <1>3, <2>1, <2>3, <2>4, <2>5 DEF RequestsRight
<1>. QED  BY <1>12, <1>13, <1>14, <1>15, <1>16, <1>17 DEF WaveInv

-----------------------------------------------------------------------------
(* Waveforms: the theorem *)

LEMMA WaveInitially ==
    ASSUME W!Init
    PROVE  WaveInv
<1>1. /\ params \in W!Params /\ params.wave = 0 /\ ui = params
      /\ MaxUuids \in Nat /\ MaxChanges \in Nat
  BY WaveformsConstants DEF W!Init, W!NewParams, W!Params, W!NoWave, W!WaveformsAssumption
<1>2. /\ waveUp = <<>> /\ waveDown = <<>> /\ done = <<>> /\ undone = <<>>
      /\ active = <<>> /\ completed = <<>>
      /\ wave = NoFile /\ redraw = TRUE /\ waveMade = <<>> /\ changes = 0
      /\ failed = FALSE /\ crossed = FALSE /\ hasty = FALSE
  BY DEF W!Init
<1>3. /\ Updates(waveUp) = {} /\ Updates(waveDown) = {}
      /\ \A u : RequestsFor(waveUp, u) = {}
      /\ Seen = {} /\ DOMAIN active = {} /\ DOMAIN completed = {}
  BY <1>2 DEF Updates, RequestsFor, Seen
<1>4. WaveTypes
  <2>1. \A S : <<>> \in Seq(S)
    OBVIOUS
  <2>2. Len(waveMade) <= MaxUuids /\ 0 \in 0..MaxChanges
    BY <1>1, <1>2
  <2>3. /\ \A u \in DOMAIN active : active[u] \in [file : Files, thread : W!Threads]
        /\ \A u \in DOMAIN completed : completed[u] \in Files
    BY <1>3
  <2>. QED  BY <1>1, <1>2, <1>3, <2>1, <2>2, <2>3 DEF WaveTypes, W!TypeOK
<1>5. UuidsKnown /\ Chained /\ LastIsCurrent
  BY <1>1, <1>2, <1>3 DEF UuidsKnown, Known, Chained, LastIsCurrent
<1>6. ShownIsKept /\ RequestsRight
  BY <1>2, <1>3 DEF ShownIsKept, RequestsRight
<1>7. Fitting
  BY <1>1, <1>2, <1>3 DEF Fitting, HistoryFits, UpdatesFit, W!Fits, W!NoWave
<1>. QED  BY <1>4, <1>5, <1>6, <1>7 DEF WaveInv

LEMMA WaveStep ==
    ASSUME WaveInv, W!Next
    PROVE  WaveInv'
<1>1. CASE \E f \in Files : W!FileChanged(f)
  BY <1>1, FileChangedKeeps
<1>2. CASE W!InvalidateWaveform
  BY <1>2, InvalidateWaveformKeeps
<1>3. CASE W!Expose
  BY <1>3, ExposeKeeps
<1>4. CASE W!Draw
  BY <1>4, DrawKeeps
<1>5. CASE W!HandleReply
  BY <1>5, HandleReplyKeeps
<1>6. CASE W!HandleCommand
  <2>1. Head(waveUp).kind \in {"UpdateActionParams", "GenerateWaveform"}
    BY <1>6 DEF W!HandleCommand
  <2>. QED  BY <1>6, <2>1, UpdateKeeps, RequestKeeps
<1>7. CASE W!UndoOrRedo
  BY <1>7, UndoOrRedoKeeps
<1>8. CASE W!Finish
  BY <1>8, FinishKeeps
<1>9. CASE W!OnWakeup
  BY <1>9, OnWakeupKeeps
<1>. QED
  BY <1>1, <1>2, <1>3, <1>4, <1>5, <1>6, <1>7, <1>8, <1>9 DEF W!Next, W!User

LEMMA WaveUnchanged ==
    ASSUME WaveInv, UNCHANGED waveformVars
    PROVE  WaveInv'
<1>1. redraw' \in BOOLEAN /\ changes' \in 0..MaxChanges
  BY DEF WaveInv, WaveTypes, W!TypeOK, waveformVars
<1>. QED  BY <1>1, OnlyDrawn DEF waveformVars

(* What is shown once nothing is under way. *)
LEMMA WaveShown ==
    ASSUME WaveInv
    PROVE  WaveformSound
<1>1. SUFFICES ASSUME waveUp = <<>>, waveDown = <<>>
               PROVE  /\ ui = params
                      /\ wave # NoFile => params.wave \in DOMAIN completed /\ wave = completed[params.wave]
                      /\ wave # NoFile /\ ~failed /\ ~hasty => wave = params.url
  BY DEF WaveformSound, W!ShownIsOfFile, W!Quiet
<1>2. Updates(waveUp) = {} /\ Updates(waveDown) = {}
  BY <1>1 DEF Updates
<1>3. ui = params
  BY <1>2 DEF WaveInv, LastIsCurrent
<1>4. wave # NoFile => params.wave \in DOMAIN completed /\ wave = completed[params.wave]
  BY <1>3 DEF WaveInv, ShownIsKept, IsKept
<1>5. ASSUME wave # NoFile, ~failed, ~hasty PROVE wave = params.url
  <2>1. params.wave # W!NoWave
    BY <1>4, <1>5 DEF WaveInv, WaveTypes, W!TypeOK, W!Uuids, W!NoWave
  <2>2. waveMade[params.wave] = params.url /\ completed[params.wave] = waveMade[params.wave]
    BY <1>4, <1>5, <2>1 DEF WaveInv, Fitting, W!Fits, RequestsRight
  <2>. QED  BY <1>4, <1>5, <2>2
<1>. QED  BY <1>3, <1>4, <1>5

(* Whatever is chosen, invalidated, undone and requested meanwhile, and in  *)
(* whatever order updates pass each other, the waveform that is shown once  *)
(* nothing is under way is what the server keeps for the action's           *)
(* parameters.  It is that of the action's file, unless a request failed    *)
(* (waveform.rs:60), or a new file was sent again before the server had     *)
(* answered (backend audio.rs:188), which keeps the UUID of the old one.    *)
THEOREM WaveformAlwaysSound == MCSpec => []WaveformSound
<1>1. MCInit => WaveInv
  BY WaveInitially DEF MCInit
<1>2. WaveInv /\ [MCNext]_allVars => WaveInv'
  <2>1. ASSUME WaveInv, MCNext PROVE WaveInv'
    BY <2>1, WaveStep, WaveUnchanged
       DEF MCNext, ConnectionsStep, MixerStep, WaveformsStep, ViewStep
  <2>2. ASSUME WaveInv, UNCHANGED allVars PROVE WaveInv'
    BY <2>2, WaveUnchanged DEF allVars
  <2>. QED  BY <2>1, <2>2
<1>3. WaveInv => WaveformSound
  BY WaveShown
<1>. QED  BY <1>1, <1>2, <1>3, PTL DEF MCSpec

-----------------------------------------------------------------------------
(* Connections, as one of the parts *)

(* Whatever is lost, cut short, stopped or said by others, interface and    *)
(* server agree on who is subscribed and over which connection, and the     *)
(* window on what the connection is; and as long as the server has had no  *)
(* occasion to tell other clients anything and none of them speaks, the     *)
(* first attempt to connect gets the TCP connection it asked for.           *)
THEOREM ConnectionAlwaysSound == MCSpec => []ConnectionSound
<1>1. MCInit => IInv /\ Way /\ Unheard
  BY InitIInv, InitWay, InitUnheard DEF MCInit
<1>2. IInv /\ Way /\ Unheard /\ [MCNext]_allVars => IInv' /\ Way' /\ Unheard'
  <2>1. [MCNext]_allVars => [Next]_vars
    BY DEF MCNext, ConnectionsStep, MixerStep, WaveformsStep, ViewStep, allVars
  <2>. QED  BY <2>1, StepIInv, StepWay, StepUnheard
<1>3. IInv /\ Way => ConnectionSound
  BY SubscribedThen, MineThen, AssociatesThen, ShownThen DEF ConnectionSound
<1>. QED  BY <1>1, <1>2, <1>3, PTL DEF MCSpec

-----------------------------------------------------------------------------
(* The list of actions: the inductive invariant *)

Targets == V!Acts \cup {V!None}
IsList(f) ==
    /\ f = [u \in DOMAIN f |-> f[u]] /\ DOMAIN f \subseteq V!Acts
    /\ \A u \in DOMAIN f : f[u] \in Targets
Lists == UNION {[S -> Targets] : S \in SUBSET V!Acts}

ViewReplies ==
    [kind : {"UpdateActionInfo"}, uuid : V!Acts, data : Targets, n : Nat]
      \cup [kind : {"UpdateActionDeleted"}, uuid : V!Acts, n : Nat]
      \cup [kind : {"UpdateOrder"}, order : Seq(V!Acts), n : Nat]
      \cup [kind : {"ReplyActionList"}, list : Lists, order : Seq(V!Acts), n : Nat]

Ctl == [target : Targets, selecting : BOOLEAN, window : BOOLEAN]
IsCtls(f) ==
    /\ f = [u \in DOMAIN f |-> f[u]] /\ DOMAIN f \subseteq V!Acts
    /\ \A u \in DOMAIN f : f[u] \in Ctl

(* Each action once. *)
Distinct(s) == \A j, k \in 1..Len(s) : s[j] = s[k] => j = k
Lines(s, P) == V!ToSet(s) = P /\ Distinct(s)

ListTypes ==
    /\ list \in Lists /\ order \in Seq(V!Acts) /\ Lines(order, DOMAIN list)
    /\ made \in 0..MaxActs /\ handled \in Nat /\ newest \in Nat /\ ops \in Nat
    /\ commands \in Seq(V!Command) /\ replies \in Seq(ViewReplies)
    /\ \A k \in 1..Len(commands) : commands[k].op = "Reorder" => commands[k].pos > 0
    /\ missed \in BOOLEAN
MirrorTypes ==
    /\ opas \in Lists /\ IsCtls(ctls) /\ DOMAIN opas = DOMAIN ctls
    /\ shownOrder \in Seq(V!Acts) /\ Distinct(shownOrder)
    /\ row \in V!Shown(shownOrder, opas) \cup {V!None}
    /\ widget \in [uuid : Targets, live : BOOLEAN]
    /\ sel \in [initiator : Targets, prev : Targets]
    /\ dnd = V!NoDnd \/ \E from, to \in V!Acts : dnd = <<from, to>>
    /\ clipboard = <<>>
         \/ \E c \in [uuid : V!Acts, target : Targets] : clipboard = <<c>>
    /\ hidden \subseteq V!Acts /\ interrupted \subseteq V!Acts

(* What the interface shows is of an action each, or the order of all. *)
Gone == -1
Sent == V!ToSet(replies)
Data(f, u) == IF u \in DOMAIN f THEN f[u] ELSE Gone

Tells(m, u) == m.kind = "ReplyActionList" \/ (m.kind # "UpdateOrder" /\ m.uuid = u)
Told(m, u) ==
    CASE m.kind = "UpdateActionInfo" -> m.data
      [] m.kind = "UpdateActionDeleted" -> Gone
      [] OTHER -> Data(m.list, u)
TellsOrder(m) == m.kind \in {"UpdateOrder", "ReplyActionList"}

(* A message that does not say what is the case precedes one that does, or *)
(* one that was received or lost.                                          *)
Stamped == newest <= handled /\ \A m \in Sent : m.n <= handled
LastTellsData ==
    \A u \in V!Acts : \A m \in Sent :
        Tells(m, u) =>
            \/ Told(m, u) = Data(list, u) \/ m.n < newest
            \/ \E l \in Sent : Tells(l, u) /\ Told(l, u) = Data(list, u) /\ m.n < l.n
LastTellsOrder ==
    \A m \in Sent :
        TellsOrder(m) =>
            \/ m.order = order \/ m.n < newest
            \/ \E l \in Sent : TellsOrder(l) /\ l.order = order /\ m.n < l.n
OrdersDistinct == \A m \in Sent : TellsOrder(m) => Distinct(m.order)

(* What the interface does not show yet, a message will tell. *)
DataComes(u) == \E m \in Sent : Tells(m, u) /\ Told(m, u) = Data(list, u)
OrderComes == \E m \in Sent : TellsOrder(m) /\ m.order = order
Updating(u) == \E k \in 1..Len(commands) : commands[k].op = "UpdateParams" /\ commands[k].uuid = u
Comes ==
    ~missed =>
        /\ \A u \in V!Acts : Data(opas, u) = Data(list, u) \/ DataComes(u)
        /\ \A u \in DOMAIN ctls :
              ctls[u].target = Data(list, u) \/ DataComes(u) \/ Updating(u)
        /\ shownOrder = order \/ OrderComes

(* The editor in the sidebar is that of a controller, or is out of sight;  *)
(* a choice is that of a controller, or was interrupted.                   *)
EditorsLive == widget.uuid # V!None /\ ~widget.live => widget.uuid \in hidden
InitiatorsLive == sel # V!NoSel => sel.initiator \in DOMAIN ctls \cup interrupted

MirrorInv == Stamped /\ LastTellsData /\ LastTellsOrder /\ OrdersDistinct /\ Comes
EditorInv == EditorsLive /\ V!EditorIsShown
ChoiceInv == InitiatorsLive /\ V!OneIsChoosing
ViewInv == ListTypes /\ MirrorTypes /\ MirrorInv /\ EditorInv /\ ChoiceInv

-----------------------------------------------------------------------------
(* Parts of a sequence, and sequences with an element more or less *)

LEMMA PartOf ==
    ASSUME NEW S, NEW s \in Seq(S), NEW m \in 1..(Len(s) + 1), NEW n \in 0..Len(s), m <= n + 1
    PROVE  /\ SubSeq(s, m, n) \in Seq(S)
           /\ Len(SubSeq(s, m, n)) = n - m + 1
           /\ \A k \in 1..(n - m + 1) : SubSeq(s, m, n)[k] = s[m + k - 1]
<1>1. Len(s) \in Nat
  BY LenProperties
<1>2. \A k \in m..n : s[k] \in S
  BY <1>1, ElementOfSeq
<1>3. m \in Int /\ n \in Int
  BY <1>1
<1>4. /\ SubSeq(s, m, n) \in Seq(S)
      /\ Len(SubSeq(s, m, n)) = IF m <= n THEN n - m + 1 ELSE 0
      /\ \A k \in 1..(n - m + 1) : SubSeq(s, m, n)[k] = s[m + k - 1]
  BY <1>2, <1>3, SubSeqProperties
<1>5. (IF m <= n THEN n - m + 1 ELSE 0) = n - m + 1
  BY <1>1
<1>. QED  BY <1>4, <1>5

LEMMA RemoveAtProperties ==
    ASSUME NEW S, NEW s \in Seq(S), NEW i \in 1..Len(s)
    PROVE  /\ V!RemoveAt(s, i) \in Seq(S)
           /\ Len(V!RemoveAt(s, i)) = Len(s) - 1
           /\ \A k \in 1..(Len(s) - 1) :
                 V!RemoveAt(s, i)[k] = IF k < i THEN s[k] ELSE s[k + 1]
<1>. DEFINE p == SubSeq(s, 1, i - 1)
            q == SubSeq(s, i + 1, Len(s))
<1>1. Len(s) \in Nat /\ i \in Nat
  BY LenProperties
<1>2. /\ p \in Seq(S) /\ Len(p) = i - 1 - 1 + 1
      /\ \A k \in 1..(i - 1 - 1 + 1) : p[k] = s[1 + k - 1]
  <2>1. 1 \in 1..(Len(s) + 1) /\ i - 1 \in 0..Len(s) /\ 1 <= i - 1 + 1
    BY <1>1
  <2>. QED  BY <2>1, PartOf
<1>3. /\ q \in Seq(S) /\ Len(q) = Len(s) - (i + 1) + 1
      /\ \A k \in 1..(Len(s) - (i + 1) + 1) : q[k] = s[i + 1 + k - 1]
  <2>1. i + 1 \in 1..(Len(s) + 1) /\ Len(s) \in 0..Len(s) /\ i + 1 <= Len(s) + 1
    BY <1>1
  <2>. QED  BY <2>1, PartOf
<1>. HIDE DEF p, q
<1>4. /\ p \o q \in Seq(S) /\ Len(p \o q) = Len(p) + Len(q)
      /\ \A k \in 1..(Len(p) + Len(q)) : (p \o q)[k] = IF k <= Len(p) THEN p[k] ELSE q[k - Len(p)]
  BY <1>2, <1>3, ConcatProperties
<1>5. V!RemoveAt(s, i) = p \o q
  BY DEF V!RemoveAt, p, q
<1>6. ASSUME NEW k \in 1..(Len(s) - 1)
      PROVE  (p \o q)[k] = IF k < i THEN s[k] ELSE s[k + 1]
  <2>1. CASE k < i
    <3>1. k <= Len(p) /\ k \in 1..(Len(p) + Len(q)) /\ k \in 1..(i - 1 - 1 + 1) /\ 1 + k - 1 = k
      BY <1>1, <1>2, <1>3, <2>1
    <3>. QED  BY <1>2, <1>4, <2>1, <3>1
  <2>2. CASE ~(k < i)
    <3>1. k - Len(p) \in 1..(Len(s) - (i + 1) + 1) /\ ~(k <= Len(p))
          /\ i + 1 + (k - Len(p)) - 1 = k + 1 /\ k \in 1..(Len(p) + Len(q))
      BY <1>1, <1>2, <1>3, <2>2
    <3>. QED  BY <1>3, <1>4, <2>2, <3>1
  <2>. QED  BY <2>1, <2>2
<1>7. Len(p) + Len(q) = Len(s) - 1
  BY <1>1, <1>2, <1>3
<1>. QED  BY <1>4, <1>5, <1>6, <1>7

LEMMA InsertAtProperties ==
    ASSUME NEW S, NEW s \in Seq(S), NEW i \in 1..(Len(s) + 1), NEW e \in S
    PROVE  /\ V!InsertAt(s, i, e) \in Seq(S)
           /\ Len(V!InsertAt(s, i, e)) = Len(s) + 1
           /\ \A k \in 1..(Len(s) + 1) :
                 V!InsertAt(s, i, e)[k] = IF k < i THEN s[k] ELSE IF k = i THEN e ELSE s[k - 1]
<1>. DEFINE p == SubSeq(s, 1, i - 1)
            q == SubSeq(s, i, Len(s))
            pe == p \o <<e>>
<1>1. Len(s) \in Nat /\ i \in Nat
  BY LenProperties
<1>2. /\ p \in Seq(S) /\ Len(p) = i - 1 - 1 + 1
      /\ \A k \in 1..(i - 1 - 1 + 1) : p[k] = s[1 + k - 1]
  <2>1. 1 \in 1..(Len(s) + 1) /\ i - 1 \in 0..Len(s) /\ 1 <= i - 1 + 1
    BY <1>1
  <2>. QED  BY <2>1, PartOf
<1>3. /\ q \in Seq(S) /\ Len(q) = Len(s) - i + 1
      /\ \A k \in 1..(Len(s) - i + 1) : q[k] = s[i + k - 1]
  <2>1. Len(s) \in 0..Len(s) /\ i <= Len(s) + 1
    BY <1>1
  <2>. QED  BY <2>1, PartOf
<1>4. <<e>> \in Seq(S) /\ Len(<<e>>) = 1 /\ <<e>>[1] = e
  OBVIOUS
<1>5. V!InsertAt(s, i, e) = pe \o q
  BY DEF V!InsertAt
<1>. HIDE DEF p, q
<1>6. /\ pe \in Seq(S) /\ Len(pe) = Len(p) + 1
      /\ \A k \in 1..(Len(p) + 1) : pe[k] = IF k <= Len(p) THEN p[k] ELSE <<e>>[k - Len(p)]
  BY <1>2, <1>4, ConcatProperties
<1>. HIDE DEF pe
<1>7. /\ pe \o q \in Seq(S) /\ Len(pe \o q) = Len(pe) + Len(q)
      /\ \A k \in 1..(Len(pe) + Len(q)) :
            (pe \o q)[k] = IF k <= Len(pe) THEN pe[k] ELSE q[k - Len(pe)]
  BY <1>3, <1>6, ConcatProperties
<1>8. Len(p) = i - 1 /\ Len(pe) = i /\ Len(q) = Len(s) - i + 1
  BY <1>1, <1>2, <1>3, <1>6
<1>9. ASSUME NEW k \in 1..(Len(s) + 1)
      PROVE  (pe \o q)[k] = IF k < i THEN s[k] ELSE IF k = i THEN e ELSE s[k - 1]
  <2>1. CASE k < i
    <3>1. k <= Len(p) /\ k \in 1..(Len(p) + 1) /\ k <= Len(pe) /\ k \in 1..(Len(pe) + Len(q))
          /\ k \in 1..(i - 1 - 1 + 1) /\ 1 + k - 1 = k
      BY <1>1, <1>8, <2>1
    <3>. QED  BY <1>2, <1>6, <1>7, <2>1, <3>1
  <2>2. CASE k = i
    <3>1. ~(k <= Len(p)) /\ k \in 1..(Len(p) + 1) /\ k <= Len(pe)
          /\ k \in 1..(Len(pe) + Len(q)) /\ k - Len(p) = 1
      BY <1>1, <1>8, <2>2
    <3>. QED  BY <1>4, <1>6, <1>7, <2>2, <3>1
  <2>3. CASE k > i
    <3>1. ~(k <= Len(pe)) /\ k \in 1..(Len(pe) + Len(q)) /\ ~(k < i) /\ k # i
          /\ k - Len(pe) \in 1..(Len(s) - i + 1) /\ i + (k - Len(pe)) - 1 = k - 1
      BY <1>1, <1>8, <2>3
    <3>. QED  BY <1>3, <1>7, <3>1
  <2>4. k < i \/ k = i \/ k > i
    BY <1>1
  <2>. QED  BY <2>1, <2>2, <2>3, <2>4
<1>10. Len(pe) + Len(q) = Len(s) + 1
  BY <1>1, <1>8
<1>. QED  BY <1>5, <1>7, <1>9, <1>10

-----------------------------------------------------------------------------
(* Lists of each action once *)

LEMMA LinesByIndex ==
    ASSUME NEW S, NEW s \in Seq(S), NEW P \in SUBSET S
    PROVE  Lines(s, P) <=>
             /\ \A k \in 1..Len(s) : s[k] \in P
             /\ \A u \in P : \E k \in 1..Len(s) : s[k] = u
             /\ \A j, k \in 1..Len(s) : s[j] = s[k] => j = k
<1>1. DOMAIN s = 1..Len(s)
  BY LenProperties
<1>2. V!ToSet(s) = P <=> (/\ \A k \in 1..Len(s) : s[k] \in P
                        /\ \A u \in P : \E k \in 1..Len(s) : s[k] = u)
  BY <1>1 DEF V!ToSet
<1>3. Distinct(s) <=> \A j, k \in 1..Len(s) : s[j] = s[k] => j = k
  BY <1>1 DEF Distinct
<1>. QED  BY <1>2, <1>3 DEF Lines

LEMMA AppendLines ==
    ASSUME NEW S, NEW s \in Seq(S), NEW P \in SUBSET S, Lines(s, P), NEW u \in S \ P
    PROVE  Append(s, u) \in Seq(S) /\ Lines(Append(s, u), P \cup {u})
<1>. DEFINE t == Append(s, u)
<1>1. /\ t \in Seq(S) /\ Len(t) = Len(s) + 1 /\ t[Len(s) + 1] = u
      /\ \A k \in 1..Len(s) : t[k] = s[k]
  BY AppendProperties
<1>2. /\ \A k \in 1..Len(s) : s[k] \in P
      /\ \A v \in P : \E k \in 1..Len(s) : s[k] = v
      /\ \A j, k \in 1..Len(s) : s[j] = s[k] => j = k
  BY LinesByIndex
<1>3. Len(s) \in Nat
  BY LenProperties
<1>. HIDE DEF t
<1>4. \A k \in 1..Len(t) : k = Len(s) + 1 \/ k \in 1..Len(s)
  BY <1>1, <1>3
<1>5. \A k \in 1..Len(t) : t[k] \in P \cup {u}
  BY <1>1, <1>2, <1>4
<1>6. \A v \in P \cup {u} : \E k \in 1..Len(t) : t[k] = v
  BY <1>1, <1>2, <1>3
<1>7. \A j, k \in 1..Len(t) : t[j] = t[k] => j = k
  BY <1>1, <1>2, <1>4
<1>8. P \cup {u} \in SUBSET S
  OBVIOUS
<1>9. Lines(t, P \cup {u})
  BY <1>1, <1>5, <1>6, <1>7, <1>8, LinesByIndex
<1>. QED  BY <1>1, <1>9 DEF t

LEMMA RemoveLines ==
    ASSUME NEW S, NEW s \in Seq(S), NEW P \in SUBSET S, Lines(s, P), NEW i \in 1..Len(s)
    PROVE  /\ V!RemoveAt(s, i) \in Seq(S) /\ Len(V!RemoveAt(s, i)) = Len(s) - 1
           /\ Lines(V!RemoveAt(s, i), P \ {s[i]})
<1>. DEFINE t == V!RemoveAt(s, i)
<1>1. /\ t \in Seq(S) /\ Len(t) = Len(s) - 1
      /\ \A k \in 1..(Len(s) - 1) : t[k] = IF k < i THEN s[k] ELSE s[k + 1]
  BY RemoveAtProperties
<1>2. /\ \A k \in 1..Len(s) : s[k] \in P
      /\ \A v \in P : \E k \in 1..Len(s) : s[k] = v
      /\ \A j, k \in 1..Len(s) : s[j] = s[k] => j = k
  BY LinesByIndex
<1>3. Len(s) \in Nat
  BY LenProperties
<1>. HIDE DEF t
<1>. DEFINE From(k) == IF k < i THEN k ELSE k + 1
<1>4. \A k \in 1..Len(t) : From(k) \in 1..Len(s) /\ From(k) # i /\ t[k] = s[From(k)]
  BY <1>1, <1>3
<1>5. \A k \in 1..Len(t) : t[k] \in P \ {s[i]}
  BY <1>2, <1>4
<1>6. ASSUME NEW v \in P \ {s[i]} PROVE \E k \in 1..Len(t) : t[k] = v
  <2>1. PICK k \in 1..Len(s) : s[k] = v
    BY <1>2
  <2>2. k # i
    BY <2>1
  <2>3. CASE k < i
    BY <1>1, <1>3, <2>1, <2>3
  <2>4. CASE k > i
    <3>1. k - 1 \in 1..Len(t) /\ ~(k - 1 < i) /\ k - 1 + 1 = k
      BY <1>1, <1>3, <2>4
    <3>. QED  BY <1>1, <2>1, <3>1
  <2>. QED  BY <1>3, <2>2, <2>3, <2>4
<1>7. ASSUME NEW j \in 1..Len(t), NEW k \in 1..Len(t), t[j] = t[k] PROVE j = k
  <2>1. From(j) = From(k)
    <3>. HIDE DEF From
    <3>1. From(j) \in 1..Len(s) /\ From(k) \in 1..Len(s) /\ s[From(j)] = s[From(k)]
      BY <1>4, <1>7
    <3>. QED  BY <1>2, <3>1
  <2>. QED  BY <1>1, <1>3, <2>1
<1>8. P \ {s[i]} \in SUBSET S
  OBVIOUS
<1>9. Lines(t, P \ {s[i]})
  BY <1>1, <1>5, <1>6, <1>7, <1>8, LinesByIndex
<1>. QED  BY <1>1, <1>9 DEF t

LEMMA InsertLines ==
    ASSUME NEW S, NEW s \in Seq(S), NEW P \in SUBSET S, Lines(s, P),
           NEW u \in S \ P, NEW i \in 1..(Len(s) + 1)
    PROVE  V!InsertAt(s, i, u) \in Seq(S) /\ Lines(V!InsertAt(s, i, u), P \cup {u})
<1>. DEFINE t == V!InsertAt(s, i, u)
<1>1. /\ t \in Seq(S) /\ Len(t) = Len(s) + 1
      /\ \A k \in 1..(Len(s) + 1) :
            t[k] = IF k < i THEN s[k] ELSE IF k = i THEN u ELSE s[k - 1]
  BY InsertAtProperties
<1>2. /\ \A k \in 1..Len(s) : s[k] \in P
      /\ \A v \in P : \E k \in 1..Len(s) : s[k] = v
      /\ \A j, k \in 1..Len(s) : s[j] = s[k] => j = k
  BY LinesByIndex
<1>3. Len(s) \in Nat
  BY LenProperties
<1>. HIDE DEF t
<1>. DEFINE From(k) == IF k < i THEN k ELSE k - 1
<1>4. \A k \in 1..Len(t) : k # i => From(k) \in 1..Len(s) /\ t[k] = s[From(k)]
  BY <1>1, <1>3
<1>5. i \in 1..Len(t) /\ t[i] = u
  BY <1>1, <1>3
<1>6. \A k \in 1..Len(t) : t[k] \in P \cup {u}
  BY <1>2, <1>4, <1>5
<1>7. ASSUME NEW v \in P PROVE \E k \in 1..Len(t) : t[k] = v
  <2>1. PICK k \in 1..Len(s) : s[k] = v
    BY <1>2
  <2>2. CASE k < i
    BY <1>1, <1>3, <2>1, <2>2
  <2>3. CASE ~(k < i)
    <3>1. k + 1 \in 1..Len(t) /\ ~(k + 1 < i) /\ k + 1 # i /\ k + 1 - 1 = k
      BY <1>1, <1>3, <2>3
    <3>2. t[k + 1] = s[k]
      BY <1>1, <3>1
    <3>. QED  BY <2>1, <3>1, <3>2
  <2>. QED  BY <2>2, <2>3
<1>8. ASSUME NEW j \in 1..Len(t), NEW k \in 1..Len(t), t[j] = t[k] PROVE j = k
  <2>1. CASE j = i
    <3>1. k = i
      BY <1>2, <1>4, <1>5, <1>8, <2>1
    <3>. QED  BY <2>1, <3>1
  <2>2. CASE k = i
    <3>1. j = i
      BY <1>2, <1>4, <1>5, <1>8, <2>2
    <3>. QED  BY <2>2, <3>1
  <2>3. CASE j # i /\ k # i
    <3>1. From(j) = From(k)
      <4>. HIDE DEF From
      <4>1. /\ From(j) \in 1..Len(s) /\ From(k) \in 1..Len(s)
            /\ s[From(j)] = s[From(k)]
        BY <1>4, <1>8, <2>3
      <4>. QED  BY <1>2, <4>1
    <3>. QED  BY <1>1, <1>3, <2>3, <3>1
  <2>. QED  BY <2>1, <2>2, <2>3
<1>9. P \cup {u} \in SUBSET S
  OBVIOUS
<1>10. Lines(t, P \cup {u})
  BY <1>1, <1>5, <1>6, <1>7, <1>8, <1>9, LinesByIndex
<1>. QED  BY <1>1, <1>10 DEF t


-----------------------------------------------------------------------------
(* Where an action is in a list, and a list with an action moved *)

LEMMA IndexIn ==
    ASSUME NEW S, NEW s \in Seq(S), NEW x \in V!ToSet(s)
    PROVE  V!Index(s, x) \in 1..Len(s) /\ s[V!Index(s, x)] = x
<1>1. DOMAIN s = 1..Len(s)
  BY LenProperties
<1>2. \E i \in DOMAIN s : s[i] = x
  BY DEF V!ToSet
<1>. QED  BY <1>1, <1>2 DEF V!Index

LEMMA ToSetOf ==
    ASSUME NEW S, NEW s \in Seq(S)
    PROVE  /\ V!ToSet(s) \subseteq S
           /\ \A k \in 1..Len(s) : s[k] \in V!ToSet(s)
           /\ \A x \in V!ToSet(s) : \E k \in 1..Len(s) : s[k] = x
<1>1. DOMAIN s = 1..Len(s) /\ \A k \in 1..Len(s) : s[k] \in S
  BY LenProperties, ElementOfSeq
<1>. QED  BY <1>1 DEF V!ToSet

LEMMA MovedLines ==
    ASSUME NEW S, NEW s \in Seq(S), NEW P \in SUBSET S, Lines(s, P),
           NEW u \in P, NEW pos \in 1..Len(s)
    PROVE  /\ V!Moved(s, u, pos) \in Seq(S) /\ Lines(V!Moved(s, u, pos), P)
           /\ Len(V!Moved(s, u, pos)) = Len(s)
<1>. DEFINE i == V!Index(s, u)
            t == V!RemoveAt(s, i)
<1>1. i \in 1..Len(s) /\ s[i] = u
  BY IndexIn DEF Lines
<1>2. t \in Seq(S) /\ Len(t) = Len(s) - 1 /\ Lines(t, P \ {u})
  BY <1>1, RemoveLines
<1>3. Len(s) \in Nat
  BY LenProperties
<1>4. V!Moved(s, u, pos) = V!InsertAt(t, pos, u)
  BY DEF V!Moved
<1>. HIDE DEF t, i
<1>5. pos \in 1..(Len(t) + 1) /\ P \ {u} \in SUBSET S /\ u \in S \ (P \ {u})
  BY <1>2, <1>3
<1>6. V!InsertAt(t, pos, u) \in Seq(S) /\ Lines(V!InsertAt(t, pos, u), (P \ {u}) \cup {u})
  BY <1>2, <1>5, InsertLines
<1>7. Len(V!InsertAt(t, pos, u)) = Len(t) + 1
  BY <1>2, <1>5, InsertAtProperties
<1>8. (P \ {u}) \cup {u} = P
  OBVIOUS
<1>9. Len(t) + 1 = Len(s)
  BY <1>2, <1>3
<1>. QED  BY <1>4, <1>6, <1>7, <1>8, <1>9

-----------------------------------------------------------------------------
(* Lists with an action more or less *)

LEMMA ListsAre ==
    ASSUME NEW f
    PROVE  f \in Lists <=> IsList(f)
<1>1. ASSUME f \in Lists PROVE IsList(f)
  <2>1. PICK S \in SUBSET V!Acts : f \in [S -> Targets]
    BY <1>1 DEF Lists
  <2>. QED  BY <2>1 DEF IsList
<1>2. ASSUME IsList(f) PROVE f \in Lists
  <2>1. DOMAIN f \in SUBSET V!Acts /\ f \in [DOMAIN f -> Targets]
    BY <1>2 DEF IsList
  <2>. QED  BY <2>1 DEF Lists
<1>. QED  BY <1>1, <1>2

(* No action has the value that stands for none. *)
LEMMA GoneOrNot ==
    ASSUME NEW f \in Lists, NEW u
    PROVE  Data(f, u) = Gone <=> u \notin DOMAIN f
<1>1. \A v \in DOMAIN f : f[v] \in Targets
  BY ListsAre DEF IsList
<1>2. Gone \notin Targets
  BY DEF Gone, Targets, V!Acts, V!None
<1>. QED  BY <1>1, <1>2 DEF Data

LEMMA SameData ==
    ASSUME NEW f \in Lists, NEW g \in Lists, \A u \in V!Acts : Data(f, u) = Data(g, u)
    PROVE  f = g
<1>1. /\ f = [u \in DOMAIN f |-> f[u]] /\ DOMAIN f \subseteq V!Acts
      /\ g = [u \in DOMAIN g |-> g[u]] /\ DOMAIN g \subseteq V!Acts
  BY ListsAre DEF IsList
<1>2. \A u : u \in DOMAIN f <=> u \in DOMAIN g
  BY <1>1, GoneOrNot
<1>3. DOMAIN f = DOMAIN g
  BY <1>2
<1>4. \A u \in DOMAIN f : f[u] = g[u]
  BY <1>1, <1>3 DEF Data
<1>. QED  BY <1>1, <1>3, <1>4

(* g is f with x for u; h is f without u. *)
IsPut(g, f, u, x) ==
    /\ g \in Lists /\ DOMAIN g = DOMAIN f \cup {u}
    /\ Data(g, u) = x /\ \A v : v # u => Data(g, v) = Data(f, v)
IsWithout(h, f, u) ==
    /\ h \in Lists /\ DOMAIN h = DOMAIN f \ {u}
    /\ Data(h, u) = Gone /\ \A v : v # u => Data(h, v) = Data(f, v)

LEMMA PutList ==
    ASSUME NEW f \in Lists, NEW u \in V!Acts, NEW x \in Targets
    PROVE  IsPut(V!Put(f, u, x), f, u, x)
<1>. DEFINE g == V!Put(f, u, x)
<1>1. DOMAIN f \subseteq V!Acts /\ \A v \in DOMAIN f : f[v] \in Targets
  BY ListsAre DEF IsList
<1>2. g = [v \in DOMAIN f \cup {u} |-> IF v = u THEN x ELSE f[v]]
  BY DEF V!Put
<1>. HIDE DEF g
<1>3. IsList(g)
  BY <1>1, <1>2 DEF IsList
<1>4. DOMAIN g = DOMAIN f \cup {u} /\ Data(g, u) = x /\ \A v : v # u => Data(g, v) = Data(f, v)
  BY <1>2 DEF Data
<1>. QED  BY <1>3, <1>4, ListsAre DEF g, IsPut

LEMMA WithoutList ==
    ASSUME NEW f \in Lists, NEW u
    PROVE  IsWithout(V!Without(f, u), f, u)
<1>. DEFINE g == V!Without(f, u)
<1>1. DOMAIN f \subseteq V!Acts /\ \A v \in DOMAIN f : f[v] \in Targets
  BY ListsAre DEF IsList
<1>2. g = [v \in DOMAIN f \ {u} |-> f[v]]
  BY DEF V!Without, V!Restrict
<1>. HIDE DEF g
<1>3. IsList(g)
  BY <1>1, <1>2 DEF IsList
<1>4. DOMAIN g = DOMAIN f \ {u} /\ Data(g, u) = Gone /\ \A v : v # u => Data(g, v) = Data(f, v)
  BY <1>2 DEF Data
<1>. QED  BY <1>3, <1>4, ListsAre DEF g, IsWithout

-----------------------------------------------------------------------------
(* What is under way, with messages more and with one less *)

LEMMA SetAppended ==
    ASSUME NEW S, NEW q \in Seq(S), NEW r \in Seq(S)
    PROVE  q \o r \in Seq(S) /\ V!ToSet(q \o r) = V!ToSet(q) \cup V!ToSet(r)
<1>. DEFINE t == q \o r
<1>1. /\ t \in Seq(S) /\ Len(t) = Len(q) + Len(r)
      /\ \A k \in 1..(Len(q) + Len(r)) : t[k] = IF k <= Len(q) THEN q[k] ELSE r[k - Len(q)]
  BY ConcatProperties
<1>2. Len(q) \in Nat /\ Len(r) \in Nat
  BY LenProperties
<1>. HIDE DEF t
<1>3. ASSUME NEW x \in V!ToSet(t) PROVE x \in V!ToSet(q) \cup V!ToSet(r)
  <2>1. PICK k \in 1..(Len(q) + Len(r)) : t[k] = x
    BY <1>1, ToSetOf
  <2>2. CASE k <= Len(q)
    <3>1. k \in 1..Len(q) /\ q[k] = x
      BY <1>1, <1>2, <2>1, <2>2
    <3>. QED  BY <3>1, ToSetOf
  <2>3. CASE ~(k <= Len(q))
    <3>1. k - Len(q) \in 1..Len(r) /\ r[k - Len(q)] = x
      BY <1>1, <1>2, <2>1, <2>3
    <3>. QED  BY <3>1, ToSetOf
  <2>. QED  BY <2>2, <2>3
<1>4. ASSUME NEW x \in V!ToSet(q) PROVE x \in V!ToSet(t)
  <2>1. PICK k \in 1..Len(q) : q[k] = x
    BY ToSetOf
  <2>2. k \in 1..Len(t) /\ t[k] = x
    BY <1>1, <1>2, <2>1
  <2>. QED  BY <1>1, <2>2, ToSetOf
<1>5. ASSUME NEW x \in V!ToSet(r) PROVE x \in V!ToSet(t)
  <2>1. PICK k \in 1..Len(r) : r[k] = x
    BY ToSetOf
  <2>2. PICK i \in 1..(Len(q) + Len(r)) : ~(i <= Len(q)) /\ i - Len(q) = k
    <3>1. Len(q) + k \in 1..(Len(q) + Len(r)) /\ ~(Len(q) + k <= Len(q)) /\ Len(q) + k - Len(q) = k
      BY <1>2
    <3>. QED  BY <3>1
  <2>3. i \in 1..Len(t) /\ t[i] = x
    BY <1>1, <2>1, <2>2
  <2>. QED  BY <1>1, <2>3, ToSetOf
<1>6. V!ToSet(t) = V!ToSet(q) \cup V!ToSet(r)
  BY <1>3, <1>4, <1>5
<1>. QED  BY <1>1, <1>6 DEF t

LEMMA SetRemoved ==
    ASSUME NEW S, NEW q \in Seq(S), NEW i \in DOMAIN q
    PROVE  /\ V!RemoveAt(q, i) \in Seq(S) /\ q[i] \in V!ToSet(q) /\ q[i] \in S
           /\ V!ToSet(V!RemoveAt(q, i)) \subseteq V!ToSet(q)
           /\ V!ToSet(q) \subseteq V!ToSet(V!RemoveAt(q, i)) \cup {q[i]}
<1>. DEFINE t == V!RemoveAt(q, i)
<1>1. Len(q) \in Nat /\ i \in 1..Len(q)
  BY LenProperties
<1>2. /\ t \in Seq(S) /\ Len(t) = Len(q) - 1
      /\ \A k \in 1..(Len(q) - 1) : t[k] = IF k < i THEN q[k] ELSE q[k + 1]
  BY <1>1, RemoveAtProperties
<1>. HIDE DEF t
<1>3. q[i] \in V!ToSet(q) /\ q[i] \in S
  BY <1>1, ToSetOf
<1>4. ASSUME NEW x \in V!ToSet(t) PROVE x \in V!ToSet(q)
  <2>1. PICK k \in 1..Len(t) : t[k] = x
    BY <1>2, ToSetOf
  <2>2. k \in 1..Len(q) /\ k + 1 \in 1..Len(q) /\ (t[k] = q[k] \/ t[k] = q[k + 1])
    BY <1>1, <1>2, <2>1
  <2>. QED  BY <2>1, <2>2, ToSetOf
<1>5. ASSUME NEW x \in V!ToSet(q), x # q[i] PROVE x \in V!ToSet(t)
  <2>1. PICK k \in 1..Len(q) : q[k] = x
    BY ToSetOf
  <2>2. CASE k < i
    <3>1. k \in 1..Len(t) /\ t[k] = x
      BY <1>1, <1>2, <2>1, <2>2
    <3>. QED  BY <1>2, <3>1, ToSetOf
  <2>3. CASE k > i
    <3>1. PICK j \in 1..Len(t) : ~(j < i) /\ j + 1 = k
      <4>1. k - 1 \in 1..Len(t) /\ ~(k - 1 < i) /\ k - 1 + 1 = k
        BY <1>1, <1>2, <2>3
      <4>. QED  BY <4>1
    <3>2. t[j] = x
      BY <1>2, <2>1, <3>1
    <3>. QED  BY <1>2, <3>2, ToSetOf
  <2>. QED  BY <1>1, <1>5, <2>1, <2>2, <2>3
<1>. QED  BY <1>2, <1>3, <1>4, <1>5 DEF t


-----------------------------------------------------------------------------
(* What a command does to the server's list, and what is told of it *)

Changing == {"Create", "Revive", "UpdateParams", "Delete"}

LEMMA CommandsAre ==
    ASSUME NEW c \in V!Command
    PROVE  /\ c.op \in Changing \cup {"Reorder", "ActionList"}
           /\ c.op \in Changing \cup {"Reorder"} => c.uuid \in V!Acts
           /\ c.op \in {"Revive", "UpdateParams"} => c.target \in Targets
           /\ c.op = "Reorder" => c.pos \in Nat
BY DEF V!Command, Changing, Targets

LEMMA NewListIs ==
    ASSUME list \in Lists, NEW c \in V!Command, V!Accepted(c)
    PROVE  /\ V!NewList(c) \in Lists
           /\ DOMAIN V!NewList(c) =
                CASE c.op \in {"Create", "Revive", "UpdateParams"} -> DOMAIN list \cup {c.uuid}
                  [] c.op = "Delete" -> DOMAIN list \ {c.uuid}
                  [] OTHER -> DOMAIN list
           /\ \A u : (c.op \in Changing /\ u = c.uuid) \/ Data(V!NewList(c), u) = Data(list, u)
<1>1. CASE c.op \in {"Create", "Revive", "UpdateParams"}
  <2>. DEFINE x == IF c.op = "Create" THEN V!None ELSE c.target
  <2>1. c.uuid \in V!Acts /\ x \in Targets
    BY <1>1, CommandsAre DEF Changing, Targets
  <2>2. V!NewList(c) = V!Put(list, c.uuid, x)
    BY <1>1 DEF V!NewList
  <2>. HIDE DEF x
  <2>3. IsPut(V!NewList(c), list, c.uuid, x)
    BY <2>1, <2>2, PutList
  <2>. QED  BY ONLY <1>1, <2>3 DEF IsPut, Changing
<1>2. CASE c.op = "Delete"
  <2>1. V!NewList(c) = V!Without(list, c.uuid)
    BY <1>2 DEF V!NewList
  <2>2. IsWithout(V!NewList(c), list, c.uuid)
    BY <2>1, WithoutList
  <2>. QED  BY ONLY <1>2, <2>2 DEF IsWithout, Changing
<1>3. CASE c.op \in {"Reorder", "ActionList"}
  <2>1. V!NewList(c) = list
    BY <1>3 DEF V!NewList
  <2>. QED  BY <1>3, <2>1
<1>. QED  BY <1>1, <1>2, <1>3, CommandsAre DEF Changing

LEMMA NewOrderIs ==
    ASSUME list \in Lists, order \in Seq(V!Acts), Lines(order, DOMAIN list),
           NEW c \in V!Command, V!Accepted(c), c.op = "Reorder" => c.pos > 0
    PROVE  /\ V!NewOrder(c) \in Seq(V!Acts) /\ Lines(V!NewOrder(c), DOMAIN V!NewList(c))
           /\ c.op \in {"UpdateParams", "ActionList"} => V!NewOrder(c) = order
<1>. USE CommandsAre, NewListIs
<1>1. DOMAIN list \in SUBSET V!Acts
  BY ListsAre DEF IsList
<1>2. CASE c.op \in {"Create", "Revive"}
  <2>1. V!NewOrder(c) = Append(order, c.uuid) /\ c.uuid \in V!Acts \ DOMAIN list
    BY <1>2 DEF V!NewOrder, V!Accepted, Changing
  <2>2. DOMAIN V!NewList(c) = DOMAIN list \cup {c.uuid}
    BY <1>2
  <2>. QED  BY <1>1, <1>2, <2>1, <2>2, AppendLines
<1>3. CASE c.op = "Delete"
  <2>. DEFINE i == V!Index(order, c.uuid)
  <2>1. V!NewOrder(c) = V!RemoveAt(order, i) /\ c.uuid \in DOMAIN list
    BY <1>3 DEF V!NewOrder, V!Accepted
  <2>2. i \in 1..Len(order) /\ order[i] = c.uuid
    BY <2>1, IndexIn DEF Lines
  <2>3. DOMAIN V!NewList(c) = DOMAIN list \ {c.uuid}
    BY <1>3
  <2>. HIDE DEF i
  <2>. QED  BY <1>1, <1>3, <2>1, <2>2, <2>3, RemoveLines
<1>4. CASE c.op = "Reorder"
  <2>1. /\ V!NewOrder(c) = V!Moved(order, c.uuid, c.pos)
        /\ c.uuid \in DOMAIN list /\ c.pos <= Len(order) /\ Len(order) \in Nat
    BY <1>4, LenProperties DEF V!NewOrder, V!Accepted
  <2>2. c.pos \in 1..Len(order)
    BY <1>4, <2>1
  <2>3. DOMAIN V!NewList(c) = DOMAIN list
    BY <1>4
  <2>. QED  BY <1>1, <1>4, <2>1, <2>2, <2>3, MovedLines
<1>5. CASE c.op \in {"UpdateParams", "ActionList"}
  <2>1. V!NewOrder(c) = order
    BY <1>5 DEF V!NewOrder
  <2>2. DOMAIN V!NewList(c) = DOMAIN list
    <3>1. c.op = "UpdateParams" => c.uuid \in DOMAIN list
      BY DEF V!Accepted
    <3>. QED  BY <1>5, <3>1
  <2>. QED  BY <2>1, <2>2
<1>. QED  BY <1>2, <1>3, <1>4, <1>5 DEF Changing

(* A message that says what is the case. *)
Truthful(m) ==
    /\ m \in ViewReplies /\ m.n = handled'
    /\ \A u \in V!Acts : Tells(m, u) => Told(m, u) = Data(list', u)
    /\ TellsOrder(m) => m.order = order'

LEMMA Announced ==
    ASSUME list' \in Lists, order' \in Seq(V!Acts), handled' \in Nat
    PROVE  /\ Truthful(V!Order) /\ TellsOrder(V!Order)
           /\ Truthful(V!ActionList) /\ TellsOrder(V!ActionList)
           /\ \A u : Tells(V!ActionList, u)
           /\ \A u \in DOMAIN list' : Truthful(V!Info(u)) /\ Tells(V!Info(u), u)
           /\ \A u \in V!Acts \ DOMAIN list' : Truthful(V!Deleted(u)) /\ Tells(V!Deleted(u), u)
<1>1. Truthful(V!Order) /\ TellsOrder(V!Order)
  BY DEF Truthful, V!Order, TellsOrder, Tells, ViewReplies
<1>2. Truthful(V!ActionList) /\ TellsOrder(V!ActionList) /\ \A u : Tells(V!ActionList, u)
  BY DEF Truthful, V!ActionList, TellsOrder, Tells, Told, ViewReplies
<1>3. ASSUME NEW u \in DOMAIN list' PROVE Truthful(V!Info(u)) /\ Tells(V!Info(u), u)
  <2>1. u \in V!Acts /\ list'[u] \in Targets
    BY <1>3, ListsAre DEF IsList
  <2>2. V!Info(u) \in ViewReplies
    BY <2>1 DEF V!Info, ViewReplies
  <2>. QED  BY <1>3, <2>2 DEF Truthful, V!Info, TellsOrder, Tells, Told, Data
<1>4. ASSUME NEW u \in V!Acts \ DOMAIN list' PROVE Truthful(V!Deleted(u)) /\ Tells(V!Deleted(u), u)
  <2>1. V!Deleted(u) \in ViewReplies
    BY DEF V!Deleted, ViewReplies
  <2>. QED  BY <1>4, <2>1 DEF Truthful, V!Deleted, TellsOrder, Tells, Told, Data
<1>. QED  BY <1>1, <1>2, <1>3, <1>4

(* N is what is told of a step of the server. *)
News(N) ==
    /\ replies' \in Seq(ViewReplies) /\ Sent' = Sent \cup N
    /\ \A m \in N : Truthful(m)
    /\ \A u \in V!Acts : Data(list', u) = Data(list, u) \/ \E m \in N : Tells(m, u)
    /\ order' = order \/ \E m \in N : TellsOrder(m)

ServerKept ==
    /\ list' \in Lists /\ order' \in Seq(V!Acts) /\ Lines(order', DOMAIN list')
    /\ handled' = handled + 1

LEMMA ProcessTells ==
    ASSUME ListTypes, NEW c \in V!Command, c.op = "Reorder" => c.pos > 0, V!Process(c)
    PROVE  /\ ServerKept
           /\ \E N \in SUBSET ViewReplies :
                 /\ News(N)
                 /\ c.op = "UpdateParams" =>
                        c.uuid \notin DOMAIN list \/ \E m \in N : Tells(m, c.uuid)
<1>. USE CommandsAre
<1>1. /\ list \in Lists /\ order \in Seq(V!Acts) /\ Lines(order, DOMAIN list)
      /\ handled \in Nat /\ replies \in Seq(ViewReplies)
  BY DEF ListTypes
<1>2. handled' = handled + 1 /\ handled' \in Nat
  BY <1>1 DEF V!Process
<1>3. CASE V!Accepted(c)
  <2>1. list' = V!NewList(c) /\ order' = V!NewOrder(c) /\ replies' = replies \o V!Broadcasts(c)
    BY <1>3 DEF V!Process
  <2>2. /\ list' \in Lists /\ order' \in Seq(V!Acts) /\ Lines(order', DOMAIN list')
        /\ c.op \in {"UpdateParams", "ActionList"} => order' = order
        /\ \A u : (c.op \in Changing /\ u = c.uuid) \/ Data(list', u) = Data(list, u)
        /\ DOMAIN list' =
             CASE c.op \in {"Create", "Revive", "UpdateParams"} -> DOMAIN list \cup {c.uuid}
               [] c.op = "Delete" -> DOMAIN list \ {c.uuid}
               [] OTHER -> DOMAIN list
    BY <1>1, <1>3, <2>1, NewListIs, NewOrderIs
  <2>3. /\ Truthful(V!Order) /\ TellsOrder(V!Order)
        /\ Truthful(V!ActionList) /\ TellsOrder(V!ActionList)
        /\ \A u : Tells(V!ActionList, u)
        /\ \A u \in DOMAIN list' : Truthful(V!Info(u)) /\ Tells(V!Info(u), u)
        /\ \A u \in V!Acts \ DOMAIN list' : Truthful(V!Deleted(u)) /\ Tells(V!Deleted(u), u)
    BY <1>2, <2>2, Announced
  <2>. DEFINE b == V!Broadcasts(c)
              N == V!ToSet(b)
  <2>4. /\ b \in Seq(ViewReplies) /\ \A m \in N : Truthful(m)
        /\ c.op \in Changing => \E m \in N : Tells(m, c.uuid)
        /\ c.op \notin {"UpdateParams", "ActionList"} => \E m \in N : TellsOrder(m)
    <3>1. \A m : Truthful(m) => m \in ViewReplies
      BY DEF Truthful
    <3>2. \A x, y, z : /\ V!ToSet(<<x>>) = {x} /\ V!ToSet(<<x, y>>) = {x, y}
                       /\ V!ToSet(<<x, y, z>>) = {x, y, z}
      BY DEF V!ToSet
    <3>3. CASE c.op = "Create"
      <4>1. b = <<V!Info(c.uuid), V!Order>>
        BY <3>3 DEF V!Broadcasts
      <4>2. Truthful(V!Info(c.uuid)) /\ Tells(V!Info(c.uuid), c.uuid)
        BY <2>2, <2>3, <3>3
      <4>. HIDE DEF b
      <4>. QED  BY <2>3, <3>1, <3>2, <3>3, <4>1, <4>2
    <3>4. CASE c.op = "Revive"
      <4>1. b = <<V!ActionList, V!Info(c.uuid), V!Order>>
        BY <3>4 DEF V!Broadcasts
      <4>2. Truthful(V!Info(c.uuid)) /\ Tells(V!Info(c.uuid), c.uuid)
        BY <2>2, <2>3, <3>4
      <4>. HIDE DEF b
      <4>. QED  BY <2>3, <3>1, <3>2, <3>4, <4>1, <4>2
    <3>5. CASE c.op = "UpdateParams"
      <4>1. b = <<V!Info(c.uuid)>>
        BY <3>5 DEF V!Broadcasts
      <4>2. Truthful(V!Info(c.uuid)) /\ Tells(V!Info(c.uuid), c.uuid)
        BY <2>2, <2>3, <3>5
      <4>. HIDE DEF b
      <4>. QED  BY <2>3, <3>1, <3>2, <3>5, <4>1, <4>2
    <3>6. CASE c.op = "Delete"
      <4>1. b = <<V!Deleted(c.uuid), V!ActionList, V!Order>>
        BY <3>6 DEF V!Broadcasts
      <4>2. Truthful(V!Deleted(c.uuid)) /\ Tells(V!Deleted(c.uuid), c.uuid)
        BY <2>2, <2>3, <3>6 DEF Changing
      <4>. HIDE DEF b
      <4>. QED  BY <2>3, <3>1, <3>2, <3>6, <4>1, <4>2
    <3>7. CASE c.op = "Reorder"
      <4>1. b = <<V!Order>>
        BY <3>7 DEF V!Broadcasts
      <4>. HIDE DEF b
      <4>. QED  BY <2>3, <3>1, <3>2, <3>7, <4>1 DEF Changing
    <3>8. CASE c.op = "ActionList"
      <4>1. b = <<V!ActionList>>
        BY <3>8 DEF V!Broadcasts
      <4>. HIDE DEF b
      <4>. QED  BY <2>3, <3>1, <3>2, <3>8, <4>1 DEF Changing
    <3>. QED  BY <3>3, <3>4, <3>5, <3>6, <3>7, <3>8 DEF Changing
  <2>. HIDE DEF b
  <2>5. replies' \in Seq(ViewReplies) /\ Sent' = Sent \cup N
    BY <1>1, <2>1, <2>4, SetAppended DEF Sent, b
  <2>. HIDE DEF N
  <2>6. News(N)
    BY <2>2, <2>4, <2>5 DEF News
  <2>7. N \in SUBSET ViewReplies
    BY <2>4 DEF Truthful
  <2>. QED  BY <1>2, <2>2, <2>4, <2>6, <2>7 DEF ServerKept, Changing
<1>4. CASE ~V!Accepted(c)
  <2>1. list' = list /\ order' = order
    BY <1>4 DEF V!Process
  <2>2. ServerKept
    BY <1>1, <1>2, <2>1 DEF ServerKept
  <2>3. c.op = "UpdateParams" => c.uuid \notin DOMAIN list
    BY <1>4 DEF V!Accepted
  <2>4. CASE c.op = "Revive"
    <3>1. replies' = replies \o <<V!ActionList>>
      BY <1>1, <1>4, <2>4 DEF V!Process
    <3>2. Truthful(V!ActionList)
      BY <1>1, <1>2, <2>1, Announced
    <3>3. V!ActionList \in ViewReplies /\ V!ToSet(<<V!ActionList>>) = {V!ActionList}
      BY <3>2 DEF Truthful, V!ToSet
    <3>4. replies' \in Seq(ViewReplies) /\ Sent' = Sent \cup {V!ActionList}
      <4>. DEFINE r == <<V!ActionList>>
      <4>1. r \in Seq(ViewReplies) /\ V!ToSet(r) = {V!ActionList} /\ replies' = replies \o r
        BY <3>1, <3>3
      <4>. HIDE DEF r
      <4>2. replies \o r \in Seq(ViewReplies) /\ V!ToSet(replies \o r) = V!ToSet(replies) \cup V!ToSet(r)
        BY <1>1, <4>1, SetAppended
      <4>. QED  BY <4>1, <4>2 DEF Sent
    <3>5. News({V!ActionList})
      BY <2>1, <3>2, <3>4 DEF News
    <3>. QED  BY <2>2, <2>4, <3>3, <3>5
  <2>5. CASE c.op # "Revive"
    <3>1. replies' = replies
      BY <1>4, <2>5 DEF V!Process
    <3>2. News({})
      BY <1>1, <2>1, <3>1 DEF News, Sent
    <3>. QED  BY <2>2, <2>3, <3>2
  <2>. QED  BY <2>4, <2>5
<1>. QED  BY <1>3, <1>4


-----------------------------------------------------------------------------
(* What is told keeps what is true of what is under way *)

LEMMA RepliesAreTyped ==
    ASSUME ListTypes
    PROVE  /\ Sent \subseteq ViewReplies /\ \A m \in Sent : m.n \in Nat
           /\ newest \in Nat /\ handled \in Nat
<1>1. replies \in Seq(ViewReplies) /\ newest \in Nat /\ handled \in Nat
  BY DEF ListTypes
<1>2. Sent \subseteq ViewReplies
  BY <1>1, ToSetOf DEF Sent
<1>3. \A m \in ViewReplies : m.n \in Nat
  BY DEF ViewReplies
<1>. QED  BY <1>1, <1>2, <1>3

LEMMA NewsKeeps ==
    ASSUME ListTypes, opas \in Lists, DOMAIN opas = DOMAIN ctls, MirrorInv, ServerKept,
           NEW N \in SUBSET ViewReplies, News(N),
           UNCHANGED <<opas, ctls, shownOrder, newest, missed>>,
           \A u \in DOMAIN ctls : Updating(u) =>
                Updating(u)' \/ u \notin DOMAIN list \/ \E m \in N : Tells(m, u)
    PROVE  MirrorInv'
<1>1. /\ Sent' = Sent \cup N /\ \A m \in N : Truthful(m)
      /\ \A u \in V!Acts : Data(list', u) = Data(list, u) \/ \E m \in N : Tells(m, u)
      /\ order' = order \/ \E m \in N : TellsOrder(m)
      /\ handled' = handled + 1 /\ newest' = newest /\ Distinct(order')
      /\ list \in Lists
  BY DEF News, ServerKept, Lines, ListTypes
<1>2. \A m \in Sent : m.n \in Nat /\ m.n <= handled
  BY RepliesAreTyped DEF MirrorInv, Stamped
<1>3. newest \in Nat /\ handled \in Nat /\ newest <= handled /\ handled' \in Nat
      /\ \A n \in Nat : n <= handled => n < handled' /\ n <= handled'
  BY <1>1, RepliesAreTyped DEF MirrorInv, Stamped
<1>4. \A m \in N : /\ m.n = handled'
                   /\ \A u \in V!Acts : Tells(m, u) => Told(m, u) = Data(list', u)
                   /\ TellsOrder(m) => m.order = order'
  BY <1>1 DEF Truthful
<1>5. Stamped'
  BY <1>1, <1>2, <1>3, <1>4 DEF Stamped
<1>6. LastTellsData'
  <2>1. SUFFICES ASSUME NEW u \in V!Acts, NEW m \in Sent', Tells(m, u)
                 PROVE  \/ Told(m, u) = Data(list', u) \/ m.n < newest
                        \/ \E l \in Sent' : Tells(l, u) /\ Told(l, u) = Data(list', u) /\ m.n < l.n
    BY <1>1 DEF LastTellsData
  <2>2. CASE m \in N
    BY <1>4, <2>1, <2>2
  <2>3. CASE m \in Sent /\ \E l \in N : Tells(l, u)
    <3>1. PICK l \in N : Tells(l, u)
      BY <2>3
    <3>2. Told(l, u) = Data(list', u) /\ m.n < l.n /\ l \in Sent'
      BY <1>1, <1>2, <1>3, <1>4, <2>3, <3>1
    <3>. QED  BY <3>1, <3>2
  <2>4. CASE m \in Sent /\ Data(list', u) = Data(list, u)
    <3>1. \/ Told(m, u) = Data(list, u) \/ m.n < newest
          \/ \E l \in Sent : Tells(l, u) /\ Told(l, u) = Data(list, u) /\ m.n < l.n
      BY <2>1, <2>4 DEF MirrorInv, LastTellsData
    <3>. QED  BY <1>1, <2>4, <3>1
  <2>. QED  BY <1>1, <2>2, <2>3, <2>4
<1>7. LastTellsOrder'
  <2>1. SUFFICES ASSUME NEW m \in Sent', TellsOrder(m)
                 PROVE  \/ m.order = order' \/ m.n < newest
                        \/ \E l \in Sent' : TellsOrder(l) /\ l.order = order' /\ m.n < l.n
    BY <1>1 DEF LastTellsOrder
  <2>2. CASE m \in N
    BY <1>4, <2>1, <2>2
  <2>3. CASE m \in Sent /\ \E l \in N : TellsOrder(l)
    <3>1. PICK l \in N : TellsOrder(l)
      BY <2>3
    <3>2. l.order = order' /\ m.n < l.n /\ l \in Sent'
      BY <1>1, <1>2, <1>3, <1>4, <2>3, <3>1
    <3>. QED  BY <3>1, <3>2
  <2>4. CASE m \in Sent /\ order' = order
    <3>1. \/ m.order = order \/ m.n < newest
          \/ \E l \in Sent : TellsOrder(l) /\ l.order = order /\ m.n < l.n
      BY <2>1, <2>4 DEF MirrorInv, LastTellsOrder
    <3>. QED  BY <1>1, <2>4, <3>1
  <2>. QED  BY <1>1, <2>2, <2>3, <2>4
<1>8. OrdersDistinct'
  BY <1>1, <1>4 DEF OrdersDistinct, MirrorInv
<1>9. Comes'
  <2>1. SUFFICES ASSUME ~missed
                 PROVE  /\ \A u \in V!Acts : Data(opas, u) = Data(list', u) \/ DataComes(u)'
                        /\ \A u \in DOMAIN ctls :
                              ctls[u].target = Data(list', u) \/ DataComes(u)' \/ Updating(u)'
                        /\ shownOrder = order' \/ OrderComes'
    BY DEF Comes
  <2>2. \A u \in V!Acts : Data(list', u) = Data(list, u) /\ DataComes(u) => DataComes(u)'
    BY <1>1 DEF DataComes
  <2>3. \A u \in V!Acts : (\E m \in N : Tells(m, u)) => DataComes(u)'
    BY <1>1, <1>4 DEF DataComes
  <2>4. (order' = order /\ OrderComes) \/ (\E m \in N : TellsOrder(m)) => OrderComes'
    BY <1>1, <1>4 DEF OrderComes
  <2>5. /\ \A u \in V!Acts : Data(opas, u) = Data(list, u) \/ DataComes(u)
        /\ \A u \in DOMAIN ctls : ctls[u].target = Data(list, u) \/ DataComes(u) \/ Updating(u)
        /\ shownOrder = order \/ OrderComes
    BY <2>1 DEF MirrorInv, Comes
  <2>6. shownOrder = order' \/ OrderComes'
    BY <1>1, <2>4, <2>5
  <2>7. \A u \in V!Acts : Data(opas, u) = Data(list', u) \/ DataComes(u)'
    BY <1>1, <2>2, <2>3, <2>5
  <2>8. ASSUME NEW u \in DOMAIN ctls
        PROVE  ctls[u].target = Data(list', u) \/ DataComes(u)' \/ Updating(u)'
    <3>1. u \in V!Acts /\ Data(opas, u) # Gone
      BY <2>8, ListsAre, GoneOrNot DEF IsList
    <3>2. CASE \E m \in N : Tells(m, u)
      BY <2>3, <3>1, <3>2
    <3>3. CASE Data(list', u) = Data(list, u) /\ ~\E m \in N : Tells(m, u)
      <4>1. CASE ctls[u].target = Data(list, u) \/ DataComes(u)
        BY <2>2, <3>1, <3>3, <4>1
      <4>2. CASE Updating(u)
        <5>1. CASE u \notin DOMAIN list
          <6>1. DataComes(u)
            BY <1>1, <2>5, <3>1, <5>1, GoneOrNot
          <6>. QED  BY <2>2, <3>1, <3>3, <6>1
        <5>. QED  BY <2>8, <3>3, <4>2, <5>1
      <4>. QED  BY <2>5, <2>8, <4>1, <4>2
    <3>. QED  BY <1>1, <3>1, <3>2, <3>3
  <2>. QED  BY <2>6, <2>7, <2>8
<1>. QED  BY <1>5, <1>6, <1>7, <1>8, <1>9 DEF MirrorInv

(* A message that has come, or is lost, is no longer under way. *)
Gets(m) ==
    /\ Sent' \subseteq Sent /\ Sent \subseteq Sent' \cup {m}
    /\ newest' = V!Newer(m.n)
    /\ UNCHANGED <<list, order, handled>>

LEMMA GetsKeeps ==
    ASSUME ListTypes, MirrorInv, NEW m \in Sent, Gets(m)
    PROVE  /\ Stamped' /\ LastTellsData' /\ LastTellsOrder' /\ OrdersDistinct'
           /\ newest' \in Nat /\ newest <= newest' /\ m.n <= newest'
<1>1. /\ \A l \in Sent : l.n \in Nat /\ l.n <= handled
      /\ newest \in Nat /\ handled \in Nat /\ newest <= handled
  BY RepliesAreTyped DEF MirrorInv, Stamped
<1>2. newest' \in Nat /\ newest <= newest' /\ m.n <= newest' /\ newest' <= handled
  BY <1>1 DEF Gets, V!Newer
<1>3. /\ Sent' \subseteq Sent /\ \A l \in Sent : l = m \/ l \in Sent'
      /\ list' = list /\ order' = order /\ handled' = handled
  BY DEF Gets
<1>4. \A l \in Sent : l.n < newest => l.n < newest'
  BY <1>1, <1>2
<1>5. \A l \in Sent : l.n < m.n => l.n < newest'
  BY <1>1, <1>2
<1>6. Stamped'
  BY <1>1, <1>2, <1>3 DEF Stamped
<1>7. LastTellsData'
  <2>1. SUFFICES ASSUME NEW u \in V!Acts, NEW k \in Sent', Tells(k, u)
                 PROVE  \/ Told(k, u) = Data(list, u) \/ k.n < newest'
                        \/ \E l \in Sent' : Tells(l, u) /\ Told(l, u) = Data(list, u) /\ k.n < l.n
    BY <1>3 DEF LastTellsData
  <2>2. \/ Told(k, u) = Data(list, u) \/ k.n < newest
        \/ \E l \in Sent : Tells(l, u) /\ Told(l, u) = Data(list, u) /\ k.n < l.n
    BY <1>3, <2>1 DEF MirrorInv, LastTellsData
  <2>. QED  BY <1>3, <1>4, <1>5, <2>2
<1>8. LastTellsOrder'
  <2>1. SUFFICES ASSUME NEW k \in Sent', TellsOrder(k)
                 PROVE  \/ k.order = order \/ k.n < newest'
                        \/ \E l \in Sent' : TellsOrder(l) /\ l.order = order /\ k.n < l.n
    BY <1>3 DEF LastTellsOrder
  <2>2. \/ k.order = order \/ k.n < newest
        \/ \E l \in Sent : TellsOrder(l) /\ l.order = order /\ k.n < l.n
    BY <1>3, <2>1 DEF MirrorInv, LastTellsOrder
  <2>. QED  BY <1>3, <1>4, <1>5, <2>2
<1>9. OrdersDistinct'
  BY <1>3 DEF OrdersDistinct, MirrorInv
<1>. QED  BY <1>2, <1>6, <1>7, <1>8, <1>9

(* The interface shows what m tells. *)
Shows(m) ==
    /\ \A u \in V!Acts : Data(opas', u) = IF Tells(m, u) THEN Told(m, u) ELSE Data(opas, u)
    /\ \A u \in DOMAIN ctls' :
          IF Tells(m, u) THEN ctls'[u].target = Told(m, u)
          ELSE u \in DOMAIN ctls /\ ctls'[u].target = ctls[u].target
    /\ shownOrder' = IF TellsOrder(m) THEN m.order ELSE shownOrder

LEMMA ShowsKeeps ==
    ASSUME ListTypes, MirrorInv, NEW m \in Sent, Gets(m), Shows(m),
           DOMAIN ctls' \subseteq V!Acts, UNCHANGED commands,
           missed' = IF m.n < newest THEN TRUE ELSE missed /\ m.kind # "ReplyActionList"
    PROVE  MirrorInv'
<1>1. /\ Stamped' /\ LastTellsData' /\ LastTellsOrder' /\ OrdersDistinct'
  BY GetsKeeps
<1>2. SUFFICES ASSUME ~missed' PROVE Comes'
  BY <1>1 DEF MirrorInv, Comes
<1>3. ~(m.n < newest) /\ (missed => m.kind = "ReplyActionList")
  BY <1>2
<1>4. /\ Sent' \subseteq Sent /\ \A l \in Sent : l = m \/ l \in Sent'
      /\ list' = list /\ order' = order
  BY DEF Gets
<1>5. m.n \in Nat /\ \A l \in Sent : l.n \in Nat
  BY RepliesAreTyped
<1>6. ASSUME NEW u \in V!Acts, Tells(m, u)
      PROVE  Told(m, u) = Data(list, u) \/ DataComes(u)'
  <2>1. \/ Told(m, u) = Data(list, u)
        \/ \E l \in Sent : Tells(l, u) /\ Told(l, u) = Data(list, u) /\ m.n < l.n
    BY <1>3, <1>6 DEF MirrorInv, LastTellsData
  <2>2. ASSUME NEW l \in Sent, Tells(l, u), Told(l, u) = Data(list, u), m.n < l.n
        PROVE  DataComes(u)'
    <3>1. l \in Sent'
      BY <1>4, <1>5, <2>2
    <3>. QED  BY <1>4, <2>2, <3>1 DEF DataComes
  <2>. QED  BY <2>1, <2>2
<1>7. ASSUME NEW u \in V!Acts, ~Tells(m, u), DataComes(u) PROVE DataComes(u)'
  BY <1>4, <1>7 DEF DataComes
<1>8. \A u : ~Tells(m, u) => ~missed
  BY <1>3 DEF Tells
<1>9. \A u \in V!Acts : Data(opas', u) = Data(list, u) \/ DataComes(u)'
  <2>1. SUFFICES ASSUME NEW u \in V!Acts PROVE Data(opas', u) = Data(list, u) \/ DataComes(u)'
    OBVIOUS
  <2>2. CASE Tells(m, u)
    BY <1>6, <2>2 DEF Shows
  <2>3. CASE ~Tells(m, u)
    BY <1>7, <1>8, <2>3 DEF Shows, MirrorInv, Comes
  <2>. QED  BY <2>2, <2>3
<1>10. ASSUME NEW u \in DOMAIN ctls'
       PROVE  ctls'[u].target = Data(list, u) \/ DataComes(u)' \/ Updating(u)'
  <2>1. u \in V!Acts
    BY <1>10
  <2>2. CASE Tells(m, u)
    BY <1>6, <1>10, <2>1, <2>2 DEF Shows
  <2>3. CASE ~Tells(m, u)
    <3>1. u \in DOMAIN ctls /\ ctls'[u].target = ctls[u].target
      BY <1>10, <2>3 DEF Shows
    <3>2. ctls[u].target = Data(list, u) \/ DataComes(u) \/ Updating(u)
      BY <1>8, <2>3, <3>1 DEF MirrorInv, Comes
    <3>3. Updating(u) => Updating(u)'
      BY DEF Updating
    <3>. QED  BY <1>7, <2>1, <2>3, <3>1, <3>2, <3>3
  <2>. QED  BY <2>2, <2>3
<1>11. shownOrder' = order \/ OrderComes'
  <2>1. CASE TellsOrder(m)
    <3>1. m.order = order \/ \E l \in Sent : TellsOrder(l) /\ l.order = order /\ m.n < l.n
      BY <1>3, <2>1 DEF MirrorInv, LastTellsOrder
    <3>2. ASSUME NEW l \in Sent, TellsOrder(l), l.order = order, m.n < l.n PROVE OrderComes'
      <4>1. l \in Sent'
        BY <1>4, <1>5, <3>2
      <4>. QED  BY <1>4, <3>2, <4>1 DEF OrderComes
    <3>. QED  BY <2>1, <3>1, <3>2 DEF Shows
  <2>2. CASE ~TellsOrder(m)
    <3>1. shownOrder' = shownOrder /\ ~missed
      BY <1>3, <2>2 DEF Shows, TellsOrder
    <3>2. shownOrder = order \/ OrderComes
      BY <3>1 DEF MirrorInv, Comes
    <3>3. OrderComes => OrderComes'
      BY <1>4, <2>2 DEF OrderComes
    <3>. QED  BY <3>1, <3>2, <3>3
  <2>. QED  BY <2>1, <2>2
<1>. QED  BY <1>4, <1>9, <1>10, <1>11 DEF Comes


-----------------------------------------------------------------------------
(* What a message does to the controllers and their editors *)

Informed(g, cs, u, data) ==
    /\ IsCtls(g) /\ DOMAIN g = DOMAIN cs \cup {u} /\ g[u].target = data
    /\ u \in DOMAIN cs => g[u].window = cs[u].window /\ g[u].selecting = cs[u].selecting
    /\ u \notin DOMAIN cs => ~g[u].window /\ ~g[u].selecting
    /\ \A v \in DOMAIN cs : v # u => g[v] = cs[v]

LEMMA InfoCtls ==
    ASSUME NEW cs, IsCtls(cs), NEW u \in V!Acts, NEW data \in Targets
    PROVE  Informed(V!OnActionInfo(cs, u, data), cs, u, data)
<1>. DEFINE g == V!OnActionInfo(cs, u, data)
            x == IF u \in DOMAIN cs THEN [cs[u] EXCEPT !.target = data] ELSE V!NewCtl(data)
<1>1. DOMAIN cs \subseteq V!Acts /\ \A v \in DOMAIN cs : cs[v] \in Ctl
  BY DEF IsCtls
<1>2. g = [v \in DOMAIN cs \cup {u} |-> IF v = u THEN x ELSE cs[v]]
  BY DEF V!OnActionInfo, V!Put
<1>3. /\ x \in Ctl /\ x.target = data
      /\ u \in DOMAIN cs => x.window = cs[u].window /\ x.selecting = cs[u].selecting
      /\ u \notin DOMAIN cs => ~x.window /\ ~x.selecting
  BY <1>1 DEF Ctl, V!NewCtl
<1>. HIDE DEF g, x
<1>4. g[u] = x /\ \A v \in DOMAIN cs : v # u => g[v] = cs[v]
  BY <1>2
<1>5. IsCtls(g)
  BY <1>1, <1>2, <1>3 DEF IsCtls
<1>. QED  BY <1>2, <1>3, <1>4, <1>5 DEF g, Informed

(* Controllers keep their window and their choice as long as they are there. *)
Survive ==
    /\ \A u \in DOMAIN ctls \cap DOMAIN ctls' :
          ctls'[u].window = ctls[u].window /\ ctls'[u].selecting = ctls[u].selecting
    /\ \A u \in DOMAIN ctls' \ DOMAIN ctls : ~ctls'[u].selecting
Leave(gone) ==
    /\ DOMAIN ctls \subseteq DOMAIN ctls' \cup gone /\ gone \cap DOMAIN ctls' = {}
    /\ widget'.uuid = widget.uuid /\ (widget'.live <=> widget.live /\ widget.uuid \notin gone)
    /\ widget' \in [uuid : Targets, live : BOOLEAN]
    /\ hidden' = hidden \cup (gone \cap {widget.uuid})
    /\ interrupted' = interrupted \cup (gone \cap {sel.initiator})
CtlsKept ==
    /\ opas' \in Lists /\ IsCtls(ctls') /\ DOMAIN opas' = DOMAIN ctls'
    /\ Survive /\ \E gone \in SUBSET V!Acts : Leave(gone)

LEMMA LeftLeaves ==
    ASSUME MirrorTypes, NEW gone, V!Left(gone),
           DOMAIN ctls \subseteq DOMAIN ctls' \cup gone, gone \cap DOMAIN ctls' = {}
    PROVE  Leave(gone)
<1>1. widget \in [uuid : Targets, live : BOOLEAN]
  BY DEF MirrorTypes
<1>2. widget' = [widget EXCEPT !.live = widget.live /\ widget.uuid \notin gone]
  BY DEF V!Left
<1>3. /\ widget' \in [uuid : Targets, live : BOOLEAN]
      /\ widget'.uuid = widget.uuid /\ widget'.live = (widget.live /\ widget.uuid \notin gone)
  BY <1>1, <1>2
<1>. QED  BY <1>3 DEF Leave, V!Left

LEMMA NoneLeaves ==
    ASSUME MirrorTypes, DOMAIN ctls \subseteq DOMAIN ctls', UNCHANGED <<widget, hidden, interrupted>>
    PROVE  Leave({})
<1>1. widget \in [uuid : Targets, live : BOOLEAN]
  BY DEF MirrorTypes
<1>. QED  BY <1>1 DEF Leave

LEMMA ReplyShows ==
    ASSUME MirrorTypes, NEW m \in ViewReplies, V!OnActionReply(m)
    PROVE  CtlsKept /\ Shows(m)
<1>1. /\ opas \in Lists /\ IsCtls(ctls) /\ DOMAIN opas = DOMAIN ctls /\ DOMAIN ctls \subseteq V!Acts
  BY DEF MirrorTypes, IsCtls
<1>2. CASE m.kind = "UpdateActionInfo"
  <2>1. m.uuid \in V!Acts /\ m.data \in Targets
    BY <1>2 DEF ViewReplies
  <2>2. /\ opas' = V!Put(opas, m.uuid, m.data) /\ ctls' = V!OnActionInfo(ctls, m.uuid, m.data)
        /\ UNCHANGED <<shownOrder, widget, hidden, interrupted>>
    BY <1>2 DEF V!OnActionReply
  <2>3. /\ opas' \in Lists /\ DOMAIN opas' = DOMAIN opas \cup {m.uuid}
        /\ Data(opas', m.uuid) = m.data /\ \A v : v # m.uuid => Data(opas', v) = Data(opas, v)
    <3>1. IsPut(opas', opas, m.uuid, m.data)
      BY <1>1, <2>1, <2>2, PutList
    <3>. QED  BY <3>1 DEF IsPut
  <2>4. /\ IsCtls(ctls') /\ DOMAIN ctls' = DOMAIN ctls \cup {m.uuid} /\ ctls'[m.uuid].target = m.data
        /\ m.uuid \in DOMAIN ctls =>
              /\ ctls'[m.uuid].window = ctls[m.uuid].window
              /\ ctls'[m.uuid].selecting = ctls[m.uuid].selecting
        /\ m.uuid \notin DOMAIN ctls => ~ctls'[m.uuid].selecting
        /\ \A v \in DOMAIN ctls : v # m.uuid => ctls'[v] = ctls[v]
    <3>1. Informed(ctls', ctls, m.uuid, m.data)
      BY <1>1, <2>1, <2>2, InfoCtls
    <3>. QED  BY <3>1 DEF Informed
  <2>5. Leave({})
    BY <2>2, <2>4, NoneLeaves
  <2>6. Survive
    BY <2>4 DEF Survive
  <2>7. /\ \A u : Tells(m, u) <=> u = m.uuid
        /\ \A u : Told(m, u) = m.data /\ ~TellsOrder(m)
    BY <1>2 DEF Tells, Told, TellsOrder
  <2>8. Shows(m)
    BY <2>2, <2>3, <2>4, <2>7 DEF Shows
  <2>. QED  BY <1>1, <2>3, <2>4, <2>5, <2>6, <2>8 DEF CtlsKept
<1>3. CASE m.kind = "UpdateActionDeleted"
  <2>1. m.uuid \in V!Acts
    BY <1>3 DEF ViewReplies
  <2>2. /\ opas' = V!Without(opas, m.uuid) /\ ctls' = V!Without(ctls, m.uuid)
        /\ V!Left({m.uuid} \cap DOMAIN ctls) /\ shownOrder' = shownOrder
    BY <1>3 DEF V!OnActionReply
  <2>3. /\ opas' \in Lists /\ DOMAIN opas' = DOMAIN opas \ {m.uuid}
        /\ Data(opas', m.uuid) = Gone /\ \A v : v # m.uuid => Data(opas', v) = Data(opas, v)
    <3>1. IsWithout(opas', opas, m.uuid)
      BY <1>1, <2>2, WithoutList
    <3>. QED  BY <3>1 DEF IsWithout
  <2>4. ctls' = [v \in DOMAIN ctls \ {m.uuid} |-> ctls[v]]
    BY <2>2 DEF V!Without, V!Restrict
  <2>5. IsCtls(ctls') /\ Survive
    BY <1>1, <2>4 DEF IsCtls, Survive
  <2>6. Leave({m.uuid} \cap DOMAIN ctls)
    BY <2>2, <2>4, LeftLeaves
  <2>7. /\ \A u : Tells(m, u) <=> u = m.uuid
        /\ \A u : Told(m, u) = Gone /\ ~TellsOrder(m)
    BY <1>3 DEF Tells, Told, TellsOrder
  <2>8. Shows(m)
    BY <2>2, <2>3, <2>4, <2>7 DEF Shows
  <2>. QED  BY <1>1, <2>1, <2>3, <2>4, <2>5, <2>6, <2>8 DEF CtlsKept
<1>4. CASE m.kind = "UpdateOrder"
  <2>1. shownOrder' = m.order /\ UNCHANGED <<opas, ctls, widget, hidden, interrupted>>
    BY <1>4 DEF V!OnActionReply
  <2>2. Leave({}) /\ Survive
    BY <2>1, NoneLeaves DEF Survive
  <2>3. TellsOrder(m) /\ \A u : ~Tells(m, u)
    BY <1>4 DEF TellsOrder, Tells
  <2>4. Shows(m)
    BY <2>1, <2>3 DEF Shows
  <2>. QED  BY <1>1, <2>1, <2>2, <2>4 DEF CtlsKept
<1>5. CASE m.kind = "ReplyActionList"
  <2>1. m.list \in Lists
    BY <1>5 DEF ViewReplies
  <2>2. DOMAIN m.list \subseteq V!Acts /\ \A u \in DOMAIN m.list : m.list[u] \in Targets
    BY <2>1, ListsAre DEF IsList
  <2>3. /\ opas' = m.list /\ shownOrder' = m.order
        /\ ctls' = [u \in DOMAIN m.list |-> V!OnActionInfo(ctls, u, m.list[u])[u]]
        /\ V!Left(DOMAIN ctls \ DOMAIN m.list)
    BY <1>5 DEF V!OnActionReply, V!OnActionList
  <2>4. ASSUME NEW u \in DOMAIN m.list
        PROVE  /\ ctls'[u] \in Ctl /\ ctls'[u].target = m.list[u]
               /\ u \in DOMAIN ctls => /\ ctls'[u].window = ctls[u].window
                                       /\ ctls'[u].selecting = ctls[u].selecting
               /\ u \notin DOMAIN ctls => ~ctls'[u].selecting
    <3>. DEFINE g == V!OnActionInfo(ctls, u, m.list[u])
    <3>1. Informed(g, ctls, u, m.list[u])
      BY <1>1, <2>2, <2>4, InfoCtls
    <3>2. ctls'[u] = g[u]
      BY <2>3, <2>4
    <3>. HIDE DEF g
    <3>. QED  BY <3>1, <3>2 DEF Informed, IsCtls
  <2>5. DOMAIN ctls' = DOMAIN m.list
    BY <2>3
  <2>6. ctls' = [u \in DOMAIN ctls' |-> ctls'[u]]
    BY <2>3
  <2>7. IsCtls(ctls') /\ Survive
    BY <2>2, <2>4, <2>5, <2>6 DEF IsCtls, Survive
  <2>8. Leave(DOMAIN ctls \ DOMAIN m.list)
    BY <2>3, <2>5, LeftLeaves
  <2>9. /\ TellsOrder(m) /\ \A u : Tells(m, u)
        /\ \A u : Told(m, u) = Data(m.list, u)
    BY <1>5 DEF Tells, Told, TellsOrder
  <2>10. Shows(m)
    BY <2>3, <2>4, <2>5, <2>9 DEF Shows, Data
  <2>. QED  BY <1>1, <2>1, <2>3, <2>5, <2>7, <2>8, <2>10 DEF CtlsKept
<1>. QED  BY <1>2, <1>3, <1>4, <1>5 DEF V!OnActionReply


-----------------------------------------------------------------------------
(* The steps that are not the user's *)

LEMMA UserTypesKept ==
    ASSUME MirrorTypes, UNCHANGED <<sel, dnd, clipboard>>
    PROVE  /\ sel' \in [initiator : Targets, prev : Targets]
           /\ dnd' = V!NoDnd \/ \E from, to \in V!Acts : dnd' = <<from, to>>
           /\ clipboard' = <<>>
                \/ \E c \in [uuid : V!Acts, target : Targets] : clipboard' = <<c>>
<1>1. /\ sel \in [initiator : Targets, prev : Targets]
      /\ dnd = V!NoDnd \/ \E from, to \in V!Acts : dnd = <<from, to>>
      /\ clipboard = <<>> \/ \E c \in [uuid : V!Acts, target : Targets] : clipboard = <<c>>
  BY DEF MirrorTypes
<1>. QED  BY <1>1

LEMMA InterfaceKept ==
    ASSUME ViewInv, UNCHANGED <<opas, ctls, shownOrder, row, widget, sel, dnd, clipboard, interrupted, hidden>>
    PROVE  MirrorTypes' /\ EditorInv' /\ ChoiceInv'
<1>1. MirrorTypes'
  <2>1. /\ opas' \in Lists /\ IsCtls(ctls') /\ DOMAIN opas' = DOMAIN ctls'
        /\ shownOrder' \in Seq(V!Acts) /\ Distinct(shownOrder')
        /\ row' \in V!Shown(shownOrder', opas') \cup {V!None}
        /\ widget' \in [uuid : Targets, live : BOOLEAN]
        /\ hidden' \subseteq V!Acts /\ interrupted' \subseteq V!Acts
    BY DEF ViewInv, MirrorTypes
  <2>. QED  BY <2>1, UserTypesKept DEF ViewInv, MirrorTypes
<1>2. EditorInv'
  BY DEF ViewInv, EditorInv, EditorsLive, V!EditorIsShown
<1>3. ChoiceInv'
  BY DEF ViewInv, ChoiceInv, InitiatorsLive, V!OneIsChoosing
<1>. QED  BY <1>1, <1>2, <1>3

LEMMA ServerSteps ==
    ASSUME ViewInv, NEW c \in V!Command, c.op = "Reorder" => c.pos > 0, V!Process(c),
           commands' \in Seq(V!Command),
           \A k \in 1..Len(commands') : commands'[k].op = "Reorder" => commands'[k].pos > 0,
           \A u : Updating(u) => Updating(u)' \/ (c.op = "UpdateParams" /\ c.uuid = u),
           made' \in 0..MaxActs, ops' \in Nat,
           UNCHANGED <<V!mirrorVars, V!userVars, hidden>>
    PROVE  ViewInv'
<1>. USE DEF V!mirrorVars, V!userVars
<1>1. ListTypes /\ MirrorTypes /\ MirrorInv
  BY DEF ViewInv
<1>2. ServerKept
  BY <1>1, ProcessTells
<1>3. PICK N \in SUBSET ViewReplies :
          News(N) /\ (c.op = "UpdateParams" => c.uuid \notin DOMAIN list \/ \E m \in N : Tells(m, c.uuid))
  BY <1>1, ProcessTells
<1>4. MirrorInv'
  <2>1. opas \in Lists /\ DOMAIN opas = DOMAIN ctls
    BY <1>1 DEF MirrorTypes
  <2>2. \A u \in DOMAIN ctls : Updating(u) =>
            Updating(u)' \/ u \notin DOMAIN list \/ \E m \in N : Tells(m, u)
    BY <1>3
  <2>. QED  BY <1>1, <1>2, <1>3, <2>1, <2>2, NewsKeeps
<1>5. ListTypes'
  <2>1. /\ newest' \in Nat /\ missed' \in BOOLEAN /\ handled \in Nat
    BY <1>1 DEF ListTypes
  <2>2. handled' \in Nat
    BY <1>2, <2>1 DEF ServerKept
  <2>3. replies' \in Seq(ViewReplies)
    BY <1>3 DEF News
  <2>. QED  BY <1>2, <2>1, <2>2, <2>3 DEF ListTypes, ServerKept
<1>. QED  BY <1>4, <1>5, InterfaceKept DEF ViewInv

LEMMA HandleCommandSteps ==
    ASSUME ViewInv, V!HandleCommand
    PROVE  ViewInv'
<1>. DEFINE c == Head(commands)
<1>1. /\ commands \in Seq(V!Command) /\ made \in 0..MaxActs /\ ops \in Nat
      /\ \A k \in 1..Len(commands) : commands[k].op = "Reorder" => commands[k].pos > 0
  BY DEF ViewInv, ListTypes
<1>2. /\ commands # <<>> /\ commands' = Tail(commands) /\ V!Process(c)
      /\ UNCHANGED <<made, V!mirrorVars, V!userVars, hidden, ops>>
  BY DEF V!HandleCommand
<1>3. /\ commands' \in Seq(V!Command) /\ c \in V!Command /\ c = commands[1] /\ 1 \in 1..Len(commands)
      /\ \A k \in 1..Len(commands') : commands'[k] = commands[k + 1] /\ k + 1 \in 1..Len(commands)
      /\ \A k \in 1..Len(commands) : k = 1 \/ (k - 1 \in 1..Len(commands') /\ k - 1 + 1 = k)
  BY <1>1, <1>2, TakenFrom
<1>. HIDE DEF c
<1>4. ASSUME NEW u, Updating(u) PROVE Updating(u)' \/ (c.op = "UpdateParams" /\ c.uuid = u)
  <2>1. PICK k \in 1..Len(commands) : commands[k].op = "UpdateParams" /\ commands[k].uuid = u
    BY <1>4 DEF Updating
  <2>2. CASE k = 1
    BY <1>3, <2>1, <2>2
  <2>3. CASE k # 1
    <3>1. PICK j \in 1..Len(commands') : commands'[j] = commands[k]
      BY <1>3, <2>3
    <3>. QED  BY <2>1, <3>1 DEF Updating
  <2>. QED  BY <2>2, <2>3
<1>5. c.op = "Reorder" => c.pos > 0
  BY <1>1, <1>3
<1>6. \A k \in 1..Len(commands') : commands'[k].op = "Reorder" => commands'[k].pos > 0
  BY <1>1, <1>3
<1>7. made' \in 0..MaxActs /\ ops' \in Nat
  BY <1>1, <1>2
<1>. QED  BY <1>2, <1>3, <1>4, <1>5, <1>6, <1>7, ServerSteps

LEMMA OthersCommandSteps ==
    ASSUME ViewInv, V!OthersCommand
    PROVE  ViewInv'
<1>1. /\ commands \in Seq(V!Command) /\ made \in 0..MaxActs /\ ops \in Nat /\ MaxActs \in Nat
      /\ \A k \in 1..Len(commands) : commands[k].op = "Reorder" => commands[k].pos > 0
  BY ViewConstants DEF ViewInv, ListTypes, V!ActionViewAssumption
<1>2. ops' = ops + 1 /\ UNCHANGED <<commands, V!mirrorVars, V!userVars, hidden>>
  BY DEF V!OthersCommand, V!Op
<1>3. PICK c \in V!Command : V!Process(c) /\ (c.op = "Reorder" => c.pos > 0) /\ made' \in 0..MaxActs
  <2>1. CASE /\ made < MaxActs /\ made' = made + 1
             /\ V!Process([op |-> "Create", uuid |-> made'])
    <3>1. made' \in V!Acts /\ made' \in 0..MaxActs
      BY <1>1, <2>1 DEF V!Acts
    <3>2. [op |-> "Create", uuid |-> made'] \in V!Command
      BY <3>1 DEF V!Command
    <3>3. [op |-> "Create", uuid |-> made'].op # "Reorder"
      OBVIOUS
    <3>. QED  BY <2>1, <3>1, <3>2, <3>3
  <2>2. CASE \E c \in [op : {"Delete"}, uuid : 1..made]
                 \cup [op : {"Revive"}, uuid : 1..made, target : {V!None}]
                 \cup [op : {"Reorder"}, uuid : 1..made, pos : {1}] :
               V!Process(c) /\ UNCHANGED made
    <3>1. PICK c \in [op : {"Delete"}, uuid : 1..made]
                 \cup [op : {"Revive"}, uuid : 1..made, target : {V!None}]
                 \cup [op : {"Reorder"}, uuid : 1..made, pos : {1}] :
               V!Process(c) /\ UNCHANGED made
      BY <2>2
    <3>2. 1..made \subseteq V!Acts
      BY <1>1 DEF V!Acts
    <3>3. c \in V!Command
      BY <3>2 DEF V!Command
    <3>4. c.op = "Reorder" => c.pos > 0
      OBVIOUS
    <3>. QED  BY <1>1, <3>1, <3>3, <3>4
  <2>. QED  BY <2>1, <2>2 DEF V!OthersCommand
<1>4. \A u : Updating(u) => Updating(u)'
  BY <1>2 DEF Updating
<1>5. commands' \in Seq(V!Command) /\ ops' \in Nat
      /\ \A k \in 1..Len(commands') : commands'[k].op = "Reorder" => commands'[k].pos > 0
  BY <1>1, <1>2
<1>. QED  BY <1>2, <1>3, <1>4, <1>5, ServerSteps

LEMMA HandleReplySteps ==
    ASSUME ViewInv, V!HandleReply
    PROVE  ViewInv'
<1>1. PICK i \in DOMAIN replies :
          /\ replies' = V!RemoveAt(replies, i) /\ V!OnActionReply(replies[i]) /\ V!UpdateStore
          /\ newest' = V!Newer(replies[i].n)
          /\ missed' = IF replies[i].n < newest THEN TRUE
                       ELSE missed /\ replies[i].kind # "ReplyActionList"
          /\ UNCHANGED <<V!serverVars, commands, sel, dnd, clipboard, ops, handled>>
  BY DEF V!HandleReply
<1>. DEFINE m == replies[i]
<1>2. ListTypes /\ MirrorTypes /\ MirrorInv /\ EditorInv /\ ChoiceInv
  BY DEF ViewInv
<1>3. replies \in Seq(ViewReplies)
  BY <1>2 DEF ListTypes
<1>4. /\ replies' \in Seq(ViewReplies) /\ m \in Sent /\ m \in ViewReplies
      /\ Sent' \subseteq Sent /\ Sent \subseteq Sent' \cup {m}
  BY <1>1, <1>3, SetRemoved DEF Sent
<1>. HIDE DEF m
<1>5. Gets(m)
  BY <1>1, <1>4 DEF Gets, m, V!serverVars
<1>6. CtlsKept /\ Shows(m)
  BY <1>1, <1>2, <1>4, ReplyShows DEF m
<1>7. MirrorInv'
  <2>1. DOMAIN ctls' \subseteq V!Acts
    BY <1>6 DEF CtlsKept, IsCtls
  <2>. QED  BY <1>1, <1>2, <1>4, <1>5, <1>6, <2>1, ShowsKeeps DEF m
<1>8. ListTypes'
  <2>1. newest' \in Nat
    BY <1>2, <1>4, <1>5, GetsKeeps
  <2>2. missed' \in BOOLEAN
    BY <1>1, <1>2 DEF ListTypes
  <2>. QED  BY <1>1, <1>2, <1>4, <2>1, <2>2 DEF ListTypes, V!serverVars
<1>9. PICK gone \in SUBSET V!Acts : Leave(gone)
  BY <1>6 DEF CtlsKept
<1>10. /\ row \in V!Shown(shownOrder, opas) \cup {V!None}
       /\ hidden \subseteq V!Acts /\ interrupted \subseteq V!Acts
       /\ shownOrder \in Seq(V!Acts) /\ Distinct(shownOrder)
       /\ DOMAIN opas = DOMAIN ctls /\ DOMAIN ctls \subseteq V!Acts
       /\ widget \in [uuid : Targets, live : BOOLEAN]
       /\ sel \in [initiator : Targets, prev : Targets]
  BY <1>2 DEF MirrorTypes, IsCtls
<1>11. /\ row' \in V!Shown(shownOrder', opas') \cup {V!None} /\ (row' # V!None => row' = row)
  BY <1>1 DEF V!UpdateStore
<1>12. MirrorTypes'
  <2>1. shownOrder' \in Seq(V!Acts) /\ Distinct(shownOrder')
    <3>1. TellsOrder(m) => m.order \in Seq(V!Acts)
      BY <1>4 DEF TellsOrder, ViewReplies
    <3>2. TellsOrder(m) => Distinct(m.order)
      BY <1>2, <1>4 DEF MirrorInv, OrdersDistinct
    <3>. QED  BY <1>6, <1>10, <3>1, <3>2 DEF Shows
  <2>2. hidden' \subseteq V!Acts /\ interrupted' \subseteq V!Acts
    BY <1>9, <1>10 DEF Leave
  <2>3. widget' \in [uuid : Targets, live : BOOLEAN]
    BY <1>9 DEF Leave
  <2>4. opas' \in Lists /\ IsCtls(ctls') /\ DOMAIN opas' = DOMAIN ctls'
    BY <1>6 DEF CtlsKept
  <2>. QED  BY <1>1, <1>2, <1>11, <2>1, <2>2, <2>3, <2>4, UserTypesKept DEF MirrorTypes
<1>13. EditorInv'
  <2>1. EditorsLive'
    BY <1>2, <1>9 DEF EditorInv, EditorsLive, Leave
  <2>2. ASSUME row' # V!None
        PROVE  widget' = [uuid |-> row', live |-> TRUE] \/ ctls'[row'].window \/ row' \in hidden'
    <3>1. /\ row' = row /\ row \in DOMAIN ctls /\ row \in DOMAIN ctls' /\ row \notin gone
      BY <1>6, <1>9, <1>10, <1>11, <2>2 DEF V!Shown, CtlsKept, Leave
    <3>2. widget = [uuid |-> row, live |-> TRUE] \/ ctls[row].window \/ row \in hidden
      BY <1>2, <2>2, <3>1 DEF EditorInv, V!EditorIsShown
    <3>3. ctls'[row].window = ctls[row].window
      BY <1>6, <3>1 DEF CtlsKept, Survive
    <3>4. widget = [uuid |-> row, live |-> TRUE] => widget' = [uuid |-> row, live |-> TRUE]
      BY <1>9, <3>1 DEF Leave
    <3>. QED  BY <1>9, <3>1, <3>2, <3>3, <3>4 DEF Leave
  <2>. QED  BY <2>1, <2>2 DEF EditorInv, V!EditorIsShown
<1>14. ChoiceInv'
  <2>1. sel' = sel
    BY <1>1
  <2>2. InitiatorsLive'
    BY <1>2, <1>9, <2>1 DEF ChoiceInv, InitiatorsLive, Leave
  <2>3. ASSUME NEW u \in DOMAIN ctls' \ interrupted'
        PROVE  ctls'[u].selecting <=> sel'.initiator = u
    <3>1. u \in V!Acts /\ u # V!None /\ u \notin interrupted
      BY <1>6, <1>9 DEF CtlsKept, IsCtls, V!Acts, V!None, Leave
    <3>2. CASE u \in DOMAIN ctls
      BY <1>2, <1>6, <2>1, <3>1, <3>2 DEF ChoiceInv, V!OneIsChoosing, CtlsKept, Survive
    <3>3. CASE u \notin DOMAIN ctls
      <4>1. sel.initiator # u
        BY <1>2, <3>1, <3>3 DEF ChoiceInv, InitiatorsLive, V!NoSel
      <4>. QED  BY <1>6, <2>1, <3>3, <4>1 DEF CtlsKept, Survive
    <3>. QED  BY <3>2, <3>3
  <2>. QED  BY <2>2, <2>3 DEF ChoiceInv, V!OneIsChoosing
<1>. QED  BY <1>7, <1>8, <1>12, <1>13, <1>14 DEF ViewInv

LEMMA LoseDatagramSteps ==
    ASSUME ViewInv, V!LoseDatagram
    PROVE  ViewInv'
<1>1. PICK i \in DOMAIN replies :
          replies' = V!RemoveAt(replies, i) /\ newest' = V!Newer(replies[i].n)
  BY DEF V!LoseDatagram
<1>2. /\ missed' = TRUE /\ ops' = ops + 1
      /\ UNCHANGED <<V!serverVars, commands, opas, ctls, shownOrder, row, widget,
                     V!userVars, hidden, handled>>
  BY DEF V!LoseDatagram, V!Op
<1>. DEFINE m == replies[i]
<1>3. ListTypes /\ MirrorInv
  BY DEF ViewInv
<1>4. replies \in Seq(ViewReplies) /\ ops \in Nat
  BY <1>3 DEF ListTypes
<1>5. /\ replies' \in Seq(ViewReplies) /\ m \in Sent
      /\ Sent' \subseteq Sent /\ Sent \subseteq Sent' \cup {m}
  BY <1>1, <1>4, SetRemoved DEF Sent
<1>. HIDE DEF m
<1>6. Gets(m)
  BY <1>1, <1>2, <1>5 DEF Gets, m, V!serverVars
<1>7. MirrorInv' /\ newest' \in Nat
  BY <1>2, <1>3, <1>5, <1>6, GetsKeeps DEF MirrorInv, Comes
<1>8. ListTypes'
  <2>1. ops' \in Nat
    BY <1>2, <1>4
  <2>. QED  BY <1>2, <1>3, <1>5, <1>7, <2>1 DEF ListTypes, V!serverVars
<1>. QED  BY <1>2, <1>7, <1>8, InterfaceKept DEF ViewInv, V!userVars


-----------------------------------------------------------------------------
(* The steps of the user *)

Sending ==
    /\ commands' \in Seq(V!Command)
    /\ \A k \in 1..Len(commands') : commands'[k].op = "Reorder" => commands'[k].pos > 0
    /\ \A u : Updating(u) => Updating(u)'

LEMMA Sends ==
    ASSUME ListTypes, NEW c \in V!Command, c.op = "Reorder" => c.pos > 0, V!Send(c)
    PROVE  Sending /\ (c.op = "UpdateParams" => Updating(c.uuid)')
<1>1. /\ commands \in Seq(V!Command) /\ commands' = Append(commands, c)
      /\ \A k \in 1..Len(commands) : commands[k].op = "Reorder" => commands[k].pos > 0
  BY DEF ListTypes, V!Send
<1>2. /\ commands' \in Seq(V!Command) /\ Len(commands) \in Nat /\ Len(commands') = Len(commands) + 1
      /\ \A k \in 1..Len(commands) : commands'[k] = commands[k]
      /\ commands'[Len(commands) + 1] = c
      /\ \A k \in 1..(Len(commands) + 1) : k \in 1..Len(commands) \/ k = Len(commands) + 1
  BY <1>1, AppendedTo
<1>3. \A k \in 1..Len(commands') : commands'[k].op = "Reorder" => commands'[k].pos > 0
  BY <1>1, <1>2
<1>4. \A k \in 1..Len(commands) : k \in 1..Len(commands')
  BY <1>2
<1>5. Len(commands) + 1 \in 1..Len(commands')
  BY <1>2
<1>6. \A u : Updating(u) => Updating(u)'
  BY <1>2, <1>4 DEF Updating
<1>7. c.op = "UpdateParams" => Updating(c.uuid)'
  BY <1>2, <1>5 DEF Updating
<1>. QED  BY <1>2, <1>3, <1>6, <1>7 DEF Sending

LEMMA SendsNone ==
    ASSUME ListTypes, UNCHANGED commands
    PROVE  Sending
BY DEF ListTypes, Sending, Updating

LEMMA UserSteps ==
    ASSUME ViewInv, V!Rest, Sending, made' \in 0..MaxActs, ops' \in Nat,
           IsCtls(ctls'), DOMAIN ctls' = DOMAIN ctls,
           \A u \in DOMAIN ctls : ctls'[u].target = ctls[u].target \/ Updating(u)',
           row' \in V!Shown(shownOrder, opas) \cup {V!None},
           widget' \in [uuid : Targets, live : BOOLEAN],
           sel' \in [initiator : Targets, prev : Targets],
           dnd' = V!NoDnd \/ \E from, to \in V!Acts : dnd' = <<from, to>>,
           clipboard' = <<>>
             \/ \E c \in [uuid : V!Acts, target : Targets] : clipboard' = <<c>>,
           hidden' \subseteq V!Acts, interrupted' \subseteq V!Acts,
           EditorInv', ChoiceInv'
    PROVE  ViewInv'
<1>1. ListTypes /\ MirrorTypes /\ MirrorInv
  BY DEF ViewInv
<1>2. UNCHANGED <<list, order, replies, opas, shownOrder, newest, missed, handled>>
  BY DEF V!Rest
<1>3. ListTypes'
  BY <1>1, <1>2 DEF ListTypes, Sending
<1>4. MirrorTypes'
  BY <1>1, <1>2 DEF MirrorTypes
<1>5. MirrorInv'
  <2>1. Stamped' /\ LastTellsData' /\ LastTellsOrder' /\ OrdersDistinct'
    BY <1>1, <1>2 DEF MirrorInv, Sent, Stamped, LastTellsData, LastTellsOrder, OrdersDistinct
  <2>2. (OrderComes => OrderComes') /\ \A u : DataComes(u) => DataComes(u)'
    BY <1>2 DEF OrderComes, DataComes, Sent
  <2>3. ASSUME ~missed, NEW u \in DOMAIN ctls
        PROVE  ctls'[u].target = Data(list, u) \/ DataComes(u)' \/ Updating(u)'
    <3>1. ctls[u].target = Data(list, u) \/ DataComes(u) \/ Updating(u)
      BY <1>1, <2>3 DEF MirrorInv, Comes
    <3>. QED  BY <2>2, <2>3, <3>1 DEF Sending
  <2>4. Comes'
    BY <1>1, <1>2, <2>2, <2>3 DEF MirrorInv, Comes
  <2>. QED  BY <2>1, <2>4 DEF MirrorInv
<1>. QED  BY <1>3, <1>4, <1>5 DEF ViewInv

LEMMA UserFacts ==
    ASSUME ViewInv
    PROVE  /\ ListTypes /\ MirrorTypes /\ EditorInv /\ ChoiceInv
           /\ made \in 0..MaxActs /\ ops \in Nat /\ MaxActs \in Nat
           /\ opas \in Lists /\ IsCtls(ctls) /\ DOMAIN opas = DOMAIN ctls
           /\ DOMAIN ctls \subseteq V!Acts /\ \A u \in DOMAIN ctls : ctls[u] \in Ctl
           /\ shownOrder \in Seq(V!Acts)
           /\ V!Shown(shownOrder, opas) \subseteq DOMAIN ctls
           /\ row \in V!Shown(shownOrder, opas) \cup {V!None}
           /\ widget \in [uuid : Targets, live : BOOLEAN]
           /\ sel \in [initiator : Targets, prev : Targets]
           /\ hidden \subseteq V!Acts /\ interrupted \subseteq V!Acts
           /\ V!None \in Targets /\ V!Acts \subseteq Targets /\ V!None \notin V!Acts
<1>1. ListTypes /\ MirrorTypes /\ EditorInv /\ ChoiceInv
  BY DEF ViewInv
<1>2. /\ opas \in Lists /\ IsCtls(ctls) /\ DOMAIN opas = DOMAIN ctls
      /\ DOMAIN ctls \subseteq V!Acts /\ \A u \in DOMAIN ctls : ctls[u] \in Ctl
  BY <1>1 DEF MirrorTypes, IsCtls
<1>3. /\ shownOrder \in Seq(V!Acts)
      /\ row \in V!Shown(shownOrder, opas) \cup {V!None}
      /\ widget \in [uuid : Targets, live : BOOLEAN]
      /\ sel \in [initiator : Targets, prev : Targets]
      /\ hidden \subseteq V!Acts /\ interrupted \subseteq V!Acts
  BY <1>1 DEF MirrorTypes
<1>4. V!Shown(shownOrder, opas) \subseteq DOMAIN ctls
  BY <1>2 DEF V!Shown
<1>5. made \in 0..MaxActs /\ ops \in Nat /\ MaxActs \in Nat
  BY <1>1, ViewConstants DEF ListTypes, V!ActionViewAssumption
<1>6. V!None \in Targets /\ V!Acts \subseteq Targets /\ V!None \notin V!Acts
  BY DEF Targets, V!Acts, V!None
<1>. QED  BY <1>1, <1>2, <1>3, <1>4, <1>5, <1>6

LEMMA CommandsSteps ==
    ASSUME ViewInv, V!Commands
    PROVE  ViewInv'
<1>. USE UserFacts
<1>1. ops' = ops + 1 /\ V!Rest /\ UNCHANGED V!Gui
  BY DEF V!Commands, V!CreateAction, V!Rebuild, V!DeleteAction, V!CopyOrCut, V!Paste, V!Op
<1>2. UNCHANGED <<ctls, row, widget, sel, dnd, interrupted, hidden, opas, shownOrder>>
  BY <1>1 DEF V!Gui, V!Rest
<1>3. made' \in 0..MaxActs /\ (made' = made \/ (made' = made + 1 /\ made' \in V!Acts))
  <2>1. made' = made \/ (made < MaxActs /\ made' = made + 1)
    BY DEF V!Commands, V!CreateAction, V!Rebuild, V!DeleteAction, V!CopyOrCut, V!Paste
  <2>. QED  BY <2>1 DEF V!Acts
<1>4. clipboard = <<>> \/ \E x \in [uuid : V!Acts, target : Targets] : clipboard = <<x>>
  BY DEF MirrorTypes
<1>5. row # V!None => row \in V!Acts /\ opas[row] \in Targets
  BY ListsAre DEF IsList
<1>6. clipboard' = <<>> \/ \E x \in [uuid : V!Acts, target : Targets] : clipboard' = <<x>>
  <2>1. CASE UNCHANGED clipboard
    BY <1>4, <2>1
  <2>2. CASE row # V!None /\ clipboard' = V!Copied
    <3>1. [uuid |-> row, target |-> opas[row]] \in [uuid : V!Acts, target : Targets]
      BY <1>5, <2>2
    <3>. QED  BY <2>2, <3>1 DEF V!Copied
  <2>. QED  BY <2>1, <2>2 DEF V!Commands, V!CreateAction, V!Rebuild, V!DeleteAction, V!CopyOrCut, V!Paste
<1>7. Sending
  <2>1. SUFFICES ASSUME NEW c, V!Send(c), c \in V!Command, c.op # "Reorder" PROVE Sending
    <3>1. CASE V!CreateAction
      <4>1. made' \in V!Acts /\ V!Send([op |-> "Create", uuid |-> made'])
        BY <1>3, <3>1 DEF V!CreateAction, V!Acts
      <4>2. [op |-> "Create", uuid |-> made'] \in V!Command
        BY <4>1 DEF V!Command
      <4>. QED  BY <2>1, <4>1, <4>2
    <3>2. CASE V!Rebuild
      <4>1. V!Send([op |-> "ActionList"]) /\ [op |-> "ActionList"] \in V!Command
        BY <3>2 DEF V!Rebuild, V!Command
      <4>. QED  BY <2>1, <4>1
    <3>3. CASE V!DeleteAction \/ V!CopyOrCut
      <4>1. row \in V!Acts
        BY <1>5, <3>3 DEF V!DeleteAction, V!CopyOrCut
      <4>2. [op |-> "Delete", uuid |-> row] \in V!Command
        BY <4>1 DEF V!Command
      <4>3. V!Send([op |-> "Delete", uuid |-> row]) \/ UNCHANGED commands
        BY <3>3 DEF V!DeleteAction, V!CopyOrCut
      <4>. QED  BY <2>1, <4>2, <4>3, SendsNone
    <3>4. CASE V!Paste
      <4>1. PICK x \in [uuid : V!Acts, target : Targets] : clipboard = <<x>>
        BY <1>4, <3>4 DEF V!Paste
      <4>2. clipboard[1] = x
        BY <4>1
      <4>3. \/ made' \in V!Acts /\ V!Send([op |-> "Revive", uuid |-> made', target |-> x.target])
            \/ V!Send([op |-> "Revive", uuid |-> x.uuid, target |-> x.target])
        BY <3>4, <4>2 DEF V!Paste, V!Acts
      <4>4. \A u \in V!Acts : [op |-> "Revive", uuid |-> u, target |-> x.target] \in V!Command
        BY DEF V!Command, Targets
      <4>. QED  BY <2>1, <4>3, <4>4
    <3>. QED  BY <3>1, <3>2, <3>3, <3>4 DEF V!Commands
  <2>. QED  BY <2>1, Sends
<1>8. EditorInv' /\ ChoiceInv'
  BY <1>2 DEF EditorInv, EditorsLive, V!EditorIsShown, ChoiceInv, InitiatorsLive, V!OneIsChoosing
<1>9. dnd' = V!NoDnd \/ \E from, to \in V!Acts : dnd' = <<from, to>>
  BY <1>2 DEF MirrorTypes
<1>10. /\ IsCtls(ctls') /\ DOMAIN ctls' = DOMAIN ctls
       /\ \A u \in DOMAIN ctls : ctls'[u].target = ctls[u].target
       /\ row' \in V!Shown(shownOrder, opas) \cup {V!None}
       /\ widget' \in [uuid : Targets, live : BOOLEAN]
       /\ sel' \in [initiator : Targets, prev : Targets]
       /\ hidden' \subseteq V!Acts /\ interrupted' \subseteq V!Acts /\ ops' \in Nat
  BY <1>1, <1>2
<1>. QED  BY <1>1, <1>3, <1>6, <1>7, <1>8, <1>9, <1>10, UserSteps


-----------------------------------------------------------------------------
(* Rows, editors and the choice of a target *)

(* Controllers with the targets and choices of ctls. *)
SameChoices(cs) ==
    /\ IsCtls(cs) /\ DOMAIN cs = DOMAIN ctls
    /\ \A u \in DOMAIN ctls :
          cs[u].target = ctls[u].target /\ cs[u].selecting = ctls[u].selecting

LEMMA EditorShown ==
    ASSUME ViewInv, NEW r \in V!Acts \cup {V!None}, NEW cs, V!ShowEditor(r, cs)
    PROVE  /\ widget' \in [uuid : Targets, live : BOOLEAN] /\ hidden' \subseteq V!Acts
           /\ EditorsLive'
           /\ r # V!None => widget' = [uuid |-> r, live |-> TRUE] \/ cs[r].window \/ r \in hidden'
<1>. USE UserFacts
<1>1. CASE r # V!None /\ widget.uuid = r
  <2>1. widget' = widget /\ hidden' = hidden
    BY <1>1 DEF V!ShowEditor
  <2>2. EditorsLive'
    BY <2>1 DEF EditorInv, EditorsLive
  <2>3. widget = [uuid |-> r, live |-> TRUE] \/ r \in hidden
    <3>1. CASE widget.live
      BY <1>1, <3>1
    <3>2. CASE ~widget.live
      BY <1>1, <3>2 DEF EditorInv, EditorsLive
    <3>. QED  BY <3>1, <3>2
  <2>. QED  BY <2>1, <2>2, <2>3
<1>2. CASE ~(r # V!None /\ widget.uuid = r)
  <2>1. /\ hidden' = hidden \ {r}
        /\ widget' = IF r = V!None \/ cs[r].window THEN V!NoWidget ELSE [uuid |-> r, live |-> TRUE]
    BY <1>2 DEF V!ShowEditor
  <2>2. V!NoWidget \in [uuid : Targets, live : BOOLEAN] /\ V!NoWidget.uuid = V!None
    BY DEF V!NoWidget
  <2>3. r \in Targets => [uuid |-> r, live |-> TRUE] \in [uuid : Targets, live : BOOLEAN]
    OBVIOUS
  <2>4. widget'.uuid = V!None \/ widget'.live
    BY <2>1, <2>2
  <2>. QED  BY <2>1, <2>2, <2>3, <2>4 DEF EditorsLive
<1>. QED  BY <1>1, <1>2

LEMMA BackIs ==
    ASSUME ViewInv, NEW r \in V!Shown(shownOrder, opas) \cup {V!None}, NEW prev
    PROVE  V!Back(prev, r) \in V!Shown(shownOrder, opas) \cup {V!None}
BY DEF V!Back

(* Updates(u) is sent, and the button of u does not say that it is choosing. *)
Finished(u, cs) ==
    /\ Sending /\ IsCtls(ctls') /\ DOMAIN ctls' = DOMAIN cs
    /\ \A v \in DOMAIN cs : ctls'[v].window = cs[v].window
    /\ \A v \in DOMAIN cs : v # u => ctls'[v] = cs[v]
    /\ u \in DOMAIN cs => ~ctls'[u].selecting /\ Updating(u)'

LEMMA FinishesSelection ==
    ASSUME ViewInv, NEW u, NEW target \in V!Acts, NEW cs, SameChoices(cs),
           V!FinishSelection(u, target, cs)
    PROVE  Finished(u, cs)
<1>. USE UserFacts
<1>1. /\ DOMAIN cs \subseteq V!Acts /\ \A v \in DOMAIN cs : cs[v] \in Ctl
      /\ cs = [v \in DOMAIN cs |-> cs[v]]
  BY DEF SameChoices, IsCtls
<1>2. CASE u \in DOMAIN cs
  <2>. DEFINE c == [op |-> "UpdateParams", uuid |-> u, target |-> target]
  <2>1. /\ ctls' = [cs EXCEPT ![u].target = target, ![u].selecting = FALSE]
        /\ V!Send(c)
    BY <1>2 DEF V!FinishSelection
  <2>2. c \in V!Command /\ c.op = "UpdateParams" /\ c.uuid = u
    BY <1>1, <1>2 DEF V!Command
  <2>. HIDE DEF c
  <2>3. Sending /\ Updating(u)'
    BY <2>1, <2>2, Sends
  <2>4. /\ ctls' = [v \in DOMAIN cs |-> ctls'[v]] /\ DOMAIN ctls' = DOMAIN cs
        /\ \A v \in DOMAIN cs : v # u => ctls'[v] = cs[v]
        /\ ctls'[u] = [cs[u] EXCEPT !.target = target, !.selecting = FALSE]
    BY <1>1, <1>2, <2>1
  <2>5. ctls'[u] \in Ctl /\ ~ctls'[u].selecting /\ ctls'[u].window = cs[u].window
    BY <1>1, <1>2, <2>4 DEF Ctl
  <2>6. \A v \in DOMAIN cs : ctls'[v] \in Ctl /\ ctls'[v].window = cs[v].window
    BY <1>1, <2>4, <2>5
  <2>7. IsCtls(ctls')
    BY <1>1, <2>4, <2>6 DEF IsCtls
  <2>. QED  BY <2>3, <2>4, <2>5, <2>6, <2>7 DEF Finished
<1>3. CASE u \notin DOMAIN cs
  <2>1. ctls' = cs /\ UNCHANGED commands
    BY <1>3 DEF V!FinishSelection
  <2>2. Sending
    BY <2>1, SendsNone
  <2>. QED  BY <1>3, <2>1, <2>2 DEF Finished, SameChoices
<1>. QED  BY <1>2, <1>3

LEMMA SelectionSteps ==
    ASSUME ViewInv, V!Rest, ops' = ops + 1,
           NEW r \in V!Shown(shownOrder, opas) \cup {V!None}, NEW cs, SameChoices(cs),
           V!SelectionChanged(r, cs), UNCHANGED <<made, dnd, clipboard, interrupted>>
    PROVE  ViewInv'
<1>. USE UserFacts
<1>1. /\ IsCtls(cs) /\ DOMAIN cs = DOMAIN ctls
      /\ \A u \in DOMAIN ctls : cs[u].target = ctls[u].target /\ cs[u].selecting = ctls[u].selecting
  BY DEF SameChoices
<1>2. /\ dnd' = V!NoDnd \/ \E from, to \in V!Acts : dnd' = <<from, to>>
      /\ clipboard' = <<>>
           \/ \E x \in [uuid : V!Acts, target : Targets] : clipboard' = <<x>>
      /\ made' \in 0..MaxActs /\ ops' \in Nat /\ interrupted' \subseteq V!Acts
      /\ interrupted' = interrupted
  BY DEF MirrorTypes
<1>3. \A u \in DOMAIN ctls \ interrupted : ctls[u].selecting <=> sel.initiator = u
  BY DEF ChoiceInv, V!OneIsChoosing
<1>4. CASE r # V!None /\ sel # V!NoSel
  <2>1. /\ sel' = V!NoSel /\ row' = V!Back(sel.prev, r)
        /\ V!FinishSelection(sel.initiator, r, cs) /\ V!ShowEditor(row', cs)
    BY <1>4 DEF V!SelectionChanged
  <2>2. row' \in V!Shown(shownOrder, opas) \cup {V!None}
    BY <2>1, BackIs
  <2>3. PICK i : i = sel.initiator /\ Finished(i, cs)
    <3>1. PICK i : i = sel.initiator
      OBVIOUS
    <3>2. V!FinishSelection(i, r, cs)
      BY <2>1, <3>1
    <3>3. r \in V!Acts
      BY <1>4
    <3>4. Finished(i, cs)
      BY <3>2, <3>3, FinishesSelection
    <3>. QED  BY <3>1, <3>4
  <2>4. sel' \in [initiator : Targets, prev : Targets] /\ sel' = V!NoSel /\ sel'.initiator = V!None
    BY <2>1 DEF V!NoSel
  <2>5. /\ widget' \in [uuid : Targets, live : BOOLEAN] /\ hidden' \subseteq V!Acts
        /\ EditorsLive'
        /\ row' # V!None =>
              widget' = [uuid |-> row', live |-> TRUE] \/ cs[row'].window \/ row' \in hidden'
    <3>1. row' \in V!Acts \cup {V!None}
      BY <2>2
    <3>. QED  BY <2>1, <3>1, EditorShown
  <2>6. /\ DOMAIN ctls' = DOMAIN ctls /\ IsCtls(ctls') /\ Sending
        /\ \A v \in DOMAIN ctls : ctls'[v].window = cs[v].window
        /\ \A v \in DOMAIN ctls : v # i => ctls'[v] = cs[v]
        /\ i \in DOMAIN ctls => ~ctls'[i].selecting /\ Updating(i)'
    BY <1>1, <2>3 DEF Finished
  <2>7. \A u \in DOMAIN ctls : ctls'[u].target = ctls[u].target \/ Updating(u)'
    BY <1>1, <2>6
  <2>8. EditorInv'
    <3>1. row' # V!None => row' \in DOMAIN ctls /\ (cs[row'].window => ctls'[row'].window)
      BY <2>2, <2>6
    <3>. QED  BY <2>5, <3>1 DEF EditorInv, V!EditorIsShown
  <2>9. ChoiceInv'
    <3>1. \A u \in DOMAIN ctls \ interrupted : ~ctls'[u].selecting /\ u # V!None
      BY <1>1, <1>3, <2>3, <2>6
    <3>. QED  BY <1>2, <2>4, <2>6, <3>1 DEF ChoiceInv, InitiatorsLive, V!OneIsChoosing
  <2>. QED  BY <1>2, <2>2, <2>4, <2>5, <2>6, <2>7, <2>8, <2>9, UserSteps
<1>5. CASE ~(r # V!None /\ sel # V!NoSel)
  <2>1. /\ row' = r /\ ctls' = cs /\ V!ShowEditor(r, cs) /\ UNCHANGED <<sel, commands>>
    BY <1>5 DEF V!SelectionChanged
  <2>2. Sending
    BY <2>1, SendsNone
  <2>3. /\ widget' \in [uuid : Targets, live : BOOLEAN] /\ hidden' \subseteq V!Acts
        /\ EditorsLive'
        /\ r # V!None => widget' = [uuid |-> r, live |-> TRUE] \/ cs[r].window \/ r \in hidden'
    <3>1. r \in V!Acts \cup {V!None}
      OBVIOUS
    <3>. QED  BY <2>1, <3>1, EditorShown
  <2>4. EditorInv'
    BY <2>1, <2>3 DEF EditorInv, V!EditorIsShown
  <2>5. ChoiceInv'
    BY <1>1, <1>2, <1>3, <2>1 DEF ChoiceInv, InitiatorsLive, V!OneIsChoosing
  <2>6. /\ IsCtls(ctls') /\ DOMAIN ctls' = DOMAIN ctls
        /\ \A u \in DOMAIN ctls : ctls'[u].target = ctls[u].target
        /\ row' \in V!Shown(shownOrder, opas) \cup {V!None}
        /\ sel' \in [initiator : Targets, prev : Targets]
    BY <1>1, <2>1
  <2>. QED  BY <1>2, <2>2, <2>3, <2>4, <2>5, <2>6, UserSteps
<1>. QED  BY <1>4, <1>5

LEMMA SelectRowSteps ==
    ASSUME ViewInv, V!SelectRow
    PROVE  ViewInv'
<1>1. PICK r \in V!Shown(shownOrder, opas) \ {row} : V!SelectionChanged(r, ctls)
  BY DEF V!SelectRow
<1>2. V!Rest /\ ops' = ops + 1 /\ UNCHANGED <<made, dnd, clipboard, interrupted>>
  BY DEF V!SelectRow, V!Op
<1>3. SameChoices(ctls)
  BY UserFacts DEF SameChoices
<1>. QED  BY <1>1, <1>2, <1>3, SelectionSteps

(* A field of a controller that is set. *)
LEMMA SetWindow ==
    ASSUME ViewInv, NEW u \in DOMAIN ctls, NEW b \in BOOLEAN, NEW cs,
           cs = [ctls EXCEPT ![u].window = b]
    PROVE  SameChoices(cs) /\ cs[u].window = b /\ \A v \in DOMAIN ctls : v # u => cs[v] = ctls[v]
<1>. USE UserFacts
<1>1. /\ cs = [v \in DOMAIN ctls |-> cs[v]] /\ DOMAIN cs = DOMAIN ctls
      /\ \A v \in DOMAIN ctls : v # u => cs[v] = ctls[v]
  BY DEF IsCtls
<1>2. ctls[u] \in Ctl /\ cs[u] = [ctls[u] EXCEPT !.window = b]
  OBVIOUS
<1>3. /\ cs[u] \in Ctl /\ cs[u].target = ctls[u].target
      /\ cs[u].selecting = ctls[u].selecting /\ cs[u].window = b
  BY <1>2 DEF Ctl
<1>4. IsCtls(cs)
  BY <1>1, <1>3 DEF IsCtls
<1>. QED  BY <1>1, <1>3, <1>4 DEF SameChoices

Selects(cs, u, b) ==
    /\ IsCtls(cs) /\ DOMAIN cs = DOMAIN ctls /\ cs[u].selecting = b
    /\ \A v \in DOMAIN ctls : v # u => cs[v] = ctls[v]
    /\ \A v \in DOMAIN ctls : cs[v].target = ctls[v].target /\ cs[v].window = ctls[v].window

LEMMA SetSelecting ==
    ASSUME ViewInv, NEW u \in DOMAIN ctls, NEW b \in BOOLEAN, NEW cs,
           cs = [ctls EXCEPT ![u].selecting = b]
    PROVE  Selects(cs, u, b)
<1>. USE UserFacts
<1>1. /\ cs = [v \in DOMAIN ctls |-> cs[v]] /\ DOMAIN cs = DOMAIN ctls
      /\ \A v \in DOMAIN ctls : v # u => cs[v] = ctls[v]
  BY DEF IsCtls
<1>2. ctls[u] \in Ctl /\ cs[u] = [ctls[u] EXCEPT !.selecting = b]
  OBVIOUS
<1>3. /\ cs[u] \in Ctl /\ cs[u].target = ctls[u].target
      /\ cs[u].window = ctls[u].window /\ cs[u].selecting = b
  BY <1>2 DEF Ctl
<1>4. IsCtls(cs)
  BY <1>1, <1>3 DEF IsCtls
<1>. QED  BY <1>1, <1>3, <1>4 DEF Selects

(* What the user's steps leave as it is. *)
LEMMA Untouched ==
    ASSUME ViewInv, V!Rest, ops' = ops + 1, UNCHANGED <<made, commands, dnd, clipboard>>
    PROVE  /\ Sending /\ made' \in 0..MaxActs /\ ops' \in Nat
           /\ dnd' = V!NoDnd \/ \E from, to \in V!Acts : dnd' = <<from, to>>
           /\ clipboard' = <<>>
                \/ \E x \in [uuid : V!Acts, target : Targets] : clipboard' = <<x>>
<1>1. Sending /\ made' \in 0..MaxActs /\ ops' \in Nat
  BY UserFacts, SendsNone
<1>. QED  BY <1>1, UserFacts DEF MirrorTypes

LEMMA BeginSelectionSteps ==
    ASSUME ViewInv, V!Rest, ops' = ops + 1, UNCHANGED <<made, commands, dnd, clipboard>>,
           NEW u \in DOMAIN ctls, V!BeginSelection(u)
    PROVE  ViewInv'
<1>. USE UserFacts
<1>1. PICK cs : cs = [ctls EXCEPT ![u].selecting = TRUE]
  OBVIOUS
<1>2. /\ ctls' = cs /\ sel' = [initiator |-> u, prev |-> row]
      /\ interrupted' = (interrupted \cup V!Interrupted) \ {u}
      /\ UNCHANGED <<row, widget, hidden>>
  BY <1>1 DEF V!BeginSelection
<1>3. /\ IsCtls(cs) /\ DOMAIN cs = DOMAIN ctls /\ cs[u].selecting
      /\ \A v \in DOMAIN ctls : v # u => cs[v] = ctls[v]
      /\ \A v \in DOMAIN ctls : cs[v].target = ctls[v].target /\ cs[v].window = ctls[v].window
  <2>1. Selects(cs, u, TRUE)
    BY <1>1, SetSelecting
  <2>. QED  BY <2>1 DEF Selects
<1>4. V!Interrupted \subseteq V!Acts
  BY DEF V!Interrupted, ChoiceInv, InitiatorsLive
<1>5. \A v \in DOMAIN ctls \ interrupted : ctls[v].selecting <=> sel.initiator = v
  BY DEF ChoiceInv, V!OneIsChoosing
<1>6. ASSUME NEW v \in DOMAIN ctls, v \notin interrupted', v # u
      PROVE  ~ctls'[v].selecting
  <2>1. v \notin interrupted /\ v \notin V!Interrupted /\ v # V!None
    BY <1>2, <1>6
  <2>2. sel.initiator # v
    BY <2>1 DEF V!Interrupted, V!NoSel
  <2>. QED  BY <1>2, <1>3, <1>5, <1>6, <2>1, <2>2
<1>7. ChoiceInv'
  <2>1. sel'.initiator = u
    BY <1>2
  <2>2. InitiatorsLive'
    BY <1>2, <1>3, <2>1 DEF InitiatorsLive
  <2>3. \A v \in DOMAIN ctls' \ interrupted' : ctls'[v].selecting <=> sel'.initiator = v
    BY <1>2, <1>3, <1>6, <2>1
  <2>. QED  BY <2>2, <2>3 DEF ChoiceInv, V!OneIsChoosing
<1>8. EditorInv'
  <2>1. row # V!None => ctls'[row].window = ctls[row].window
    BY <1>2, <1>3
  <2>. QED  BY <1>2, <2>1 DEF EditorInv, EditorsLive, V!EditorIsShown
<1>9. /\ IsCtls(ctls') /\ DOMAIN ctls' = DOMAIN ctls
      /\ \A v \in DOMAIN ctls : ctls'[v].target = ctls[v].target
      /\ row' \in V!Shown(shownOrder, opas) \cup {V!None}
      /\ widget' \in [uuid : Targets, live : BOOLEAN]
      /\ sel' \in [initiator : Targets, prev : Targets]
      /\ hidden' \subseteq V!Acts /\ interrupted' \subseteq V!Acts
  BY <1>2, <1>3, <1>4
<1>. QED  BY <1>7, <1>8, <1>9, Untouched, UserSteps

LEMMA CancelSelectionSteps ==
    ASSUME ViewInv, V!Rest, ops' = ops + 1, UNCHANGED <<made, commands, dnd, clipboard>>,
           V!CancelSelection
    PROVE  ViewInv'
<1>. USE UserFacts
<1>1. sel' = V!NoSel /\ interrupted' = interrupted
  BY DEF V!CancelSelection
<1>2. V!NoSel \in [initiator : Targets, prev : Targets] /\ V!NoSel.initiator = V!None
  BY DEF V!NoSel
<1>3. \A v \in DOMAIN ctls \ interrupted : ctls[v].selecting <=> sel.initiator = v
  BY DEF ChoiceInv, V!OneIsChoosing
<1>4. CASE sel = V!NoSel
  <2>1. UNCHANGED <<ctls, row, widget, hidden, sel>>
    BY <1>1, <1>4 DEF V!CancelSelection
  <2>2. EditorInv' /\ ChoiceInv'
    BY <1>1, <2>1 DEF EditorInv, EditorsLive, V!EditorIsShown, ChoiceInv, InitiatorsLive, V!OneIsChoosing
  <2>. QED  BY <1>1, <2>1, <2>2, Untouched, UserSteps
<1>5. CASE sel # V!NoSel
  <2>1. PICK i : i = sel.initiator
    OBVIOUS
  <2>2. /\ row' = V!Back(sel.prev, row) /\ V!ShowEditor(row', ctls)
        /\ ctls' = IF i \in DOMAIN ctls THEN [ctls EXCEPT ![i].selecting = FALSE] ELSE ctls
    BY <1>5, <2>1 DEF V!CancelSelection
  <2>3. row' \in V!Shown(shownOrder, opas) \cup {V!None}
    BY <2>2, BackIs
  <2>4. /\ widget' \in [uuid : Targets, live : BOOLEAN] /\ hidden' \subseteq V!Acts
        /\ EditorsLive'
        /\ row' # V!None =>
              widget' = [uuid |-> row', live |-> TRUE] \/ ctls[row'].window \/ row' \in hidden'
    <3>1. row' \in V!Acts \cup {V!None}
      BY <2>3
    <3>. QED  BY <2>2, <3>1, EditorShown
  <2>5. /\ IsCtls(ctls') /\ DOMAIN ctls' = DOMAIN ctls
        /\ \A v \in DOMAIN ctls : ctls'[v].target = ctls[v].target /\ ctls'[v].window = ctls[v].window
        /\ \A v \in DOMAIN ctls : v # i => ctls'[v] = ctls[v]
        /\ i \in DOMAIN ctls => ~ctls'[i].selecting
    <3>1. CASE i \in DOMAIN ctls
      <4>1. PICK cs : cs = [ctls EXCEPT ![i].selecting = FALSE]
        OBVIOUS
      <4>2. Selects(cs, i, FALSE)
        BY <3>1, <4>1, SetSelecting
      <4>. QED  BY <2>2, <3>1, <4>1, <4>2 DEF Selects
    <3>2. CASE i \notin DOMAIN ctls
      BY <2>2, <3>2
    <3>. QED  BY <3>1, <3>2
  <2>6. EditorInv'
    <3>1. row' # V!None => row' \in DOMAIN ctls /\ ctls'[row'].window = ctls[row'].window
      BY <2>3, <2>5
    <3>. QED  BY <2>4, <3>1 DEF EditorInv, V!EditorIsShown
  <2>7. ChoiceInv'
    <3>1. \A v \in DOMAIN ctls \ interrupted : ~ctls'[v].selecting /\ v # V!None
      BY <1>3, <2>1, <2>5
    <3>. QED  BY <1>1, <1>2, <2>5, <3>1 DEF ChoiceInv, InitiatorsLive, V!OneIsChoosing
  <2>. QED  BY <1>1, <1>2, <2>3, <2>4, <2>5, <2>6, <2>7, Untouched, UserSteps
<1>. QED  BY <1>4, <1>5

LEMMA ChooseTargetSteps ==
    ASSUME ViewInv, V!ChooseTarget
    PROVE  ViewInv'
<1>1. V!Rest /\ ops' = ops + 1 /\ UNCHANGED <<made, commands, dnd, clipboard>>
  BY DEF V!ChooseTarget, V!Op
<1>2. PICK u \in DOMAIN ctls : IF ctls[u].selecting THEN V!CancelSelection ELSE V!BeginSelection(u)
  BY DEF V!ChooseTarget
<1>. QED  BY <1>1, <1>2, BeginSelectionSteps, CancelSelectionSteps

LEMMA EditActionSteps ==
    ASSUME ViewInv, V!EditAction
    PROVE  ViewInv'
<1>. USE UserFacts
<1>1. /\ V!Rest /\ ops' = ops + 1 /\ UNCHANGED <<made, commands, dnd, clipboard>>
      /\ row # V!None /\ UNCHANGED <<row, sel, interrupted, hidden>>
      /\ widget' = IF widget.uuid = row THEN V!NoWidget ELSE widget
  BY DEF V!EditAction, V!Op, V!userVars
<1>2. PICK r, cs : r = row /\ cs = [ctls EXCEPT ![r].window = TRUE]
  OBVIOUS
<1>3. ctls' = cs /\ r \in DOMAIN ctls
  BY <1>1, <1>2 DEF V!EditAction
<1>4. /\ IsCtls(cs) /\ DOMAIN cs = DOMAIN ctls /\ cs[r].window
      /\ \A v \in DOMAIN ctls :
            cs[v].target = ctls[v].target /\ cs[v].selecting = ctls[v].selecting
  <2>1. SameChoices(cs) /\ cs[r].window
    BY <1>2, <1>3, SetWindow
  <2>. QED  BY <2>1 DEF SameChoices
<1>5. V!NoWidget \in [uuid : Targets, live : BOOLEAN] /\ V!NoWidget.uuid = V!None
  BY DEF V!NoWidget
<1>6. EditorInv'
  BY <1>1, <1>2, <1>3, <1>4, <1>5 DEF EditorInv, EditorsLive, V!EditorIsShown
<1>7. ChoiceInv'
  BY <1>1, <1>3, <1>4 DEF ChoiceInv, InitiatorsLive, V!OneIsChoosing
<1>. QED  BY <1>1, <1>3, <1>4, <1>5, <1>6, <1>7, Untouched, UserSteps

LEMMA CloseWindowSteps ==
    ASSUME ViewInv, V!CloseWindow
    PROVE  ViewInv'
<1>. USE UserFacts
<1>1. V!Rest /\ ops' = ops + 1 /\ UNCHANGED <<made, dnd, clipboard, interrupted>>
  BY DEF V!CloseWindow, V!Op
<1>2. PICK u \in DOMAIN ctls : \E cs, r :
          /\ cs = [ctls EXCEPT ![u].window = FALSE] /\ r = row
          /\ \/ /\ ctls' = cs /\ hidden' = hidden \cup {u}
                /\ UNCHANGED <<commands, row, widget, sel>>
             \/ V!SelectionChanged(r, cs)
  BY DEF V!CloseWindow
<1>3. PICK cs, r :
          /\ cs = [ctls EXCEPT ![u].window = FALSE] /\ r = row
          /\ \/ /\ ctls' = cs /\ hidden' = hidden \cup {u}
                /\ UNCHANGED <<commands, row, widget, sel>>
             \/ V!SelectionChanged(r, cs)
  BY <1>2
<1>4. /\ IsCtls(cs) /\ DOMAIN cs = DOMAIN ctls
      /\ \A v \in DOMAIN ctls : v # u => cs[v] = ctls[v]
      /\ \A v \in DOMAIN ctls :
            cs[v].target = ctls[v].target /\ cs[v].selecting = ctls[v].selecting
  <2>1. SameChoices(cs) /\ \A v \in DOMAIN ctls : v # u => cs[v] = ctls[v]
    BY <1>3, SetWindow
  <2>. QED  BY <2>1 DEF SameChoices
<1>5. CASE /\ ctls' = cs /\ hidden' = hidden \cup {u}
           /\ UNCHANGED <<commands, row, widget, sel>>
  <2>1. EditorInv'
    <3>1. row # V!None /\ row # u => ctls'[row].window = ctls[row].window
      BY <1>4, <1>5
    <3>2. EditorsLive'
      BY <1>5 DEF EditorInv, EditorsLive
    <3>. QED  BY <1>5, <3>1, <3>2 DEF EditorInv, V!EditorIsShown
  <2>2. ChoiceInv'
    BY <1>1, <1>4, <1>5 DEF ChoiceInv, InitiatorsLive, V!OneIsChoosing
  <2>. QED  BY <1>1, <1>4, <1>5, <2>1, <2>2, Untouched, UserSteps
<1>6. CASE V!SelectionChanged(r, cs)
  <2>1. SameChoices(cs) /\ r \in V!Shown(shownOrder, opas) \cup {V!None}
    BY <1>3, <1>4 DEF SameChoices
  <2>. QED  BY <1>1, <1>6, <2>1, SelectionSteps
<1>. QED  BY <1>3, <1>5, <1>6

-----------------------------------------------------------------------------
(* Dragging *)

LEMMA DragSteps ==
    ASSUME ViewInv, V!Rest, Sending, ops' \in Nat,
           dnd' = V!NoDnd \/ \E from, to \in V!Acts : dnd' = <<from, to>>,
           UNCHANGED <<made, ctls, row, widget, sel, clipboard, interrupted, hidden>>
    PROVE  ViewInv'
<1>. USE UserFacts
<1>1. EditorInv' /\ ChoiceInv'
  BY DEF EditorInv, EditorsLive, V!EditorIsShown, ChoiceInv, InitiatorsLive, V!OneIsChoosing
<1>2. clipboard' = <<>> \/ \E x \in [uuid : V!Acts, target : Targets] : clipboard' = <<x>>
  BY DEF MirrorTypes
<1>3. /\ made' \in 0..MaxActs /\ IsCtls(ctls') /\ DOMAIN ctls' = DOMAIN ctls
      /\ \A u \in DOMAIN ctls : ctls'[u].target = ctls[u].target
      /\ row' \in V!Shown(shownOrder, opas) \cup {V!None}
      /\ widget' \in [uuid : Targets, live : BOOLEAN]
      /\ sel' \in [initiator : Targets, prev : Targets]
      /\ hidden' \subseteq V!Acts /\ interrupted' \subseteq V!Acts
  OBVIOUS
<1>. QED  BY <1>1, <1>2, <1>3, UserSteps

LEMMA DndReorderSteps ==
    ASSUME ViewInv, V!DndReorderBefore \/ V!DndReorderAfter
    PROVE  ViewInv'
<1>. USE UserFacts
<1>1. /\ dnd # V!NoDnd /\ dnd' = V!NoDnd /\ V!Rest
      /\ UNCHANGED <<made, ctls, row, widget, sel, clipboard, interrupted, hidden, ops>>
  BY DEF V!DndReorderBefore, V!DndReorderAfter, V!Reorder
<1>2. PICK from \in V!Acts, to \in V!Acts : dnd = <<from, to>>
  BY <1>1 DEF MirrorTypes
<1>3. Sending
  <2>1. CASE V!ToSet(dnd) \subseteq V!ToSet(shownOrder)
    <3>1. PICK pos \in {V!BeforePos(shownOrder, to), V!AfterPos(shownOrder, to)} :
              V!Send([op |-> "Reorder", uuid |-> from, pos |-> pos])
      BY <1>2, <2>1 DEF V!DndReorderBefore, V!DndReorderAfter, V!Reorder
    <3>2. to \in V!ToSet(shownOrder)
      <4>1. DOMAIN dnd = 1..2 /\ dnd[2] = to
        BY <1>2
      <4>2. to \in V!ToSet(dnd)
        BY <4>1 DEF V!ToSet
      <4>. QED  BY <2>1, <4>2
    <3>3. V!Index(shownOrder, to) \in 1..Len(shownOrder) /\ Len(shownOrder) \in Nat
      BY <3>2, IndexIn, LenProperties
    <3>4. pos \in Nat /\ pos > 0
      BY <3>1, <3>3 DEF V!BeforePos, V!AfterPos
    <3>5. [op |-> "Reorder", uuid |-> from, pos |-> pos] \in V!Command
      BY <3>4 DEF V!Command
    <3>. QED  BY <3>1, <3>4, <3>5, Sends
  <2>2. CASE ~(V!ToSet(dnd) \subseteq V!ToSet(shownOrder))
    BY <2>2, SendsNone DEF V!DndReorderBefore, V!DndReorderAfter, V!Reorder
  <2>. QED  BY <2>1, <2>2
<1>. QED  BY <1>1, <1>3, DragSteps

LEMMA DndRetargetSteps ==
    ASSUME ViewInv, V!DndRetarget
    PROVE  ViewInv'
<1>. USE UserFacts
<1>1. /\ dnd # V!NoDnd /\ dnd' = V!NoDnd /\ V!Rest
      /\ UNCHANGED <<made, row, widget, sel, clipboard, hidden, ops>>
  BY DEF V!DndRetarget
<1>2. PICK from \in V!Acts, to \in V!Acts : dnd = <<from, to>>
  BY <1>1 DEF MirrorTypes
<1>3. dnd[1] = from /\ dnd[2] = to
  BY <1>2
<1>4. PICK cs : cs = ctls
  OBVIOUS
<1>5. V!FinishSelection(to, from, cs) /\ interrupted' = interrupted \cup ({sel.initiator} \cap {to})
  BY <1>3, <1>4 DEF V!DndRetarget
<1>6. Finished(to, cs)
  <2>1. SameChoices(cs)
    BY <1>4 DEF SameChoices
  <2>. QED  BY <1>5, <2>1, FinishesSelection
<1>7. /\ Sending /\ IsCtls(ctls') /\ DOMAIN ctls' = DOMAIN ctls
      /\ \A v \in DOMAIN ctls : ctls'[v].window = ctls[v].window
      /\ \A v \in DOMAIN ctls : v # to => ctls'[v] = ctls[v]
      /\ to \in DOMAIN ctls => ~ctls'[to].selecting /\ Updating(to)'
  BY <1>4, <1>6 DEF Finished
<1>8. \A u \in DOMAIN ctls : ctls'[u].target = ctls[u].target \/ Updating(u)'
  BY <1>7
<1>9. EditorInv'
  <2>1. row # V!None => ctls'[row].window = ctls[row].window
    BY <1>7
  <2>. QED  BY <1>1, <2>1 DEF EditorInv, EditorsLive, V!EditorIsShown
<1>10. ChoiceInv'
  <2>1. InitiatorsLive'
    BY <1>1, <1>5, <1>7 DEF ChoiceInv, InitiatorsLive
  <2>2. \A v \in DOMAIN ctls' \ interrupted' : ctls'[v].selecting <=> sel.initiator = v
    BY <1>5, <1>7 DEF ChoiceInv, V!OneIsChoosing
  <2>. QED  BY <1>1, <2>1, <2>2 DEF ChoiceInv, V!OneIsChoosing
<1>11. clipboard' = <<>> \/ \E x \in [uuid : V!Acts, target : Targets] : clipboard' = <<x>>
  BY <1>1 DEF MirrorTypes
<1>12. made' \in 0..MaxActs /\ ops' \in Nat /\ interrupted' \subseteq V!Acts
  BY <1>1, <1>5
<1>. QED  BY <1>1, <1>7, <1>8, <1>9, <1>10, <1>11, <1>12, UserSteps

LEMMA DraggingSteps ==
    ASSUME ViewInv, V!Dragging
    PROVE  ViewInv'
<1>. USE UserFacts
<1>1. CASE V!OpenDndMenu
  <2>1. PICK from, to \in V!Shown(shownOrder, opas) : dnd' = <<from, to>>
    BY <1>1 DEF V!OpenDndMenu
  <2>2. /\ V!Rest /\ ops' = ops + 1
        /\ UNCHANGED <<made, commands, ctls, row, widget, sel, clipboard, interrupted, hidden>>
    BY <1>1 DEF V!OpenDndMenu, V!Op
  <2>. QED  BY <2>1, <2>2, SendsNone, DragSteps
<1>2. CASE V!CloseDndMenu
  <2>1. /\ V!Rest /\ dnd' = V!NoDnd
        /\ UNCHANGED <<made, commands, ctls, row, widget, sel, clipboard, interrupted, hidden, ops>>
    BY <1>2 DEF V!CloseDndMenu
  <2>. QED  BY <2>1, SendsNone, DragSteps
<1>. QED  BY <1>1, <1>2, DndReorderSteps, DndRetargetSteps DEF V!Dragging

-----------------------------------------------------------------------------

LEMMA ViewInitially ==
    ASSUME V!Init
    PROVE  ViewInv
<1>. USE DEF V!Init
<1>1. MaxActs \in Nat /\ Listed \in 0..MaxActs
  BY ViewConstants DEF V!ActionViewAssumption
<1>2. 1..Listed \subseteq V!Acts /\ V!None \in Targets /\ Sent = {}
  BY <1>1 DEF V!Acts, Targets, Sent, V!ToSet
<1>3. list \in Lists /\ opas = list
  <2>1. IsList(list)
    BY <1>2 DEF IsList
  <2>. QED  BY <2>1, ListsAre
<1>4. order \in Seq(V!Acts) /\ shownOrder = order /\ Lines(order, DOMAIN list)
  <2>1. Len(order) = Listed /\ DOMAIN order = 1..Listed /\ order \in Seq(V!Acts)
    BY <1>1, <1>2
  <2>. QED  BY <2>1 DEF Lines, Distinct, V!ToSet
<1>5. IsCtls(ctls) /\ DOMAIN ctls = 1..Listed
      /\ \A u \in 1..Listed : ctls[u].target = V!None /\ ~ctls[u].selecting
  <2>1. V!NewCtl(V!None) \in Ctl /\ V!NewCtl(V!None).target = V!None /\ ~V!NewCtl(V!None).selecting
    BY <1>2 DEF V!NewCtl, Ctl
  <2>. QED  BY <1>2, <2>1 DEF IsCtls
<1>6. ListTypes
  <2>1. commands = <<>> /\ Len(commands) = 0 /\ commands \in Seq(V!Command) /\ replies \in Seq(ViewReplies)
    OBVIOUS
  <2>2. \A k \in 1..Len(commands) : commands[k].op = "Reorder" => commands[k].pos > 0
    BY <2>1
  <2>. QED  BY <1>1, <1>3, <1>4, <2>1, <2>2 DEF ListTypes
<1>7. MirrorTypes
  <2>1. /\ V!NoWidget \in [uuid : Targets, live : BOOLEAN]
        /\ V!NoSel \in [initiator : Targets, prev : Targets]
    BY <1>2 DEF V!NoWidget, V!NoSel
  <2>2. Distinct(shownOrder)
    BY <1>4 DEF Lines
  <2>. QED  BY <1>3, <1>4, <1>5, <2>1, <2>2 DEF MirrorTypes
<1>8. MirrorInv
  <2>1. \A u \in DOMAIN ctls : ctls[u].target = Data(list, u)
    BY <1>5 DEF Data
  <2>2. Comes
    BY <1>3, <1>4, <2>1 DEF Comes
  <2>. QED  BY <1>2, <2>2 DEF MirrorInv, Stamped, LastTellsData, LastTellsOrder, OrdersDistinct
<1>9. EditorInv /\ ChoiceInv
  <2>1. V!NoWidget.uuid = V!None /\ V!NoSel.initiator = V!None /\ V!None \notin 1..Listed
    BY <1>1 DEF V!NoWidget, V!NoSel, V!None
  <2>. QED  BY <1>5, <2>1 DEF EditorInv, EditorsLive, V!EditorIsShown, ChoiceInv, InitiatorsLive, V!OneIsChoosing
<1>. QED  BY <1>6, <1>7, <1>8, <1>9 DEF ViewInv

LEMMA ViewSteps ==
    ASSUME ViewInv, V!Next
    PROVE  ViewInv'
<1>1. V!Selecting => ViewInv'
  BY SelectRowSteps, ChooseTargetSteps, EditActionSteps, CloseWindowSteps DEF V!Selecting
<1>. QED  BY <1>1, CommandsSteps, DraggingSteps, HandleCommandSteps, OthersCommandSteps,
             HandleReplySteps, LoseDatagramSteps DEF V!Next

LEMMA ViewUnchanged ==
    ASSUME ViewInv, UNCHANGED viewVars
    PROVE  ViewInv'
<1>. USE UserFacts
<1>1. /\ V!Rest /\ ops' \in Nat
      /\ UNCHANGED <<commands, dnd, made, ctls, row, widget, sel, clipboard, interrupted, hidden>>
  BY DEF viewVars, V!Rest
<1>2. dnd' = V!NoDnd \/ \E from, to \in V!Acts : dnd' = <<from, to>>
  BY <1>1 DEF MirrorTypes
<1>. QED  BY <1>1, <1>2, SendsNone, DragSteps

(* What is the case once nothing is under way. *)
LEMMA ViewIsSound ==
    ASSUME ViewInv
    PROVE  ViewSound
<1>1. ListTypes /\ MirrorTypes /\ MirrorInv
  BY DEF ViewInv
<1>2. V!MirrorExact
  <2>1. SUFFICES ASSUME commands = <<>>, replies = <<>>, ~missed
                 PROVE  /\ opas = list /\ shownOrder = order
                        /\ \A u \in DOMAIN ctls : ctls[u].target = list[u]
    BY DEF V!MirrorExact, V!Quiet
  <2>2. Sent = {} /\ Len(commands) = 0
    BY <2>1 DEF Sent, V!ToSet
  <2>3. ~OrderComes /\ \A u : ~DataComes(u) /\ ~Updating(u)
    BY <2>2 DEF OrderComes, DataComes, Updating
  <2>4. /\ \A u \in V!Acts : Data(opas, u) = Data(list, u)
        /\ \A u \in DOMAIN ctls : ctls[u].target = Data(list, u)
        /\ shownOrder = order
    BY <1>1, <2>1, <2>3 DEF MirrorInv, Comes
  <2>5. opas = list
    BY <1>1, <2>4, SameData DEF ListTypes, MirrorTypes
  <2>6. DOMAIN ctls = DOMAIN list
    BY <1>1, <2>5 DEF MirrorTypes
  <2>. QED  BY <2>4, <2>5, <2>6 DEF Data
<1>. QED  BY <1>2 DEF ViewSound, ViewInv, EditorInv, ChoiceInv

(* Whatever other clients create, move and delete and the user selects,     *)
(* drags, chooses and pastes: the interface's list is the server's once     *)
(* nothing is under way, unless a message was lost or overtaken since the   *)
(* last full list; one fade at a time is choosing its target, unless its    *)
(* choice was interrupted; and the row selected has its editor, unless that *)
(* was closed.                                                              *)
THEOREM ViewAlwaysSound == MCSpec => []ViewSound
<1>1. MCInit => ViewInv
  BY ViewInitially DEF MCInit
<1>2. ViewInv /\ [MCNext]_allVars => ViewInv'
  <2>1. ASSUME ViewInv, MCNext PROVE ViewInv'
    BY <2>1, ViewSteps, ViewUnchanged
       DEF MCNext, ConnectionsStep, MixerStep, WaveformsStep, ViewStep
  <2>2. ASSUME ViewInv, UNCHANGED allVars PROVE ViewInv'
    BY <2>2, ViewUnchanged DEF allVars
  <2>. QED  BY <2>1, <2>2
<1>3. ViewInv => ViewSound
  BY ViewIsSound
<1>. QED  BY <1>1, <1>2, <1>3, PTL DEF MCSpec

-----------------------------------------------------------------------------
(* Induction without an operator as a parameter. *)
LEMMA AllNaturals ==
    ASSUME NEW T, 0 \in T, \A n \in Nat : n \in T => n + 1 \in T
    PROVE  Nat \subseteq T
<1>. DEFINE N == Nat \ T
<1>1. SUFFICES ASSUME N # {} PROVE FALSE
  OBVIOUS
<1>2. PICK m \in N : \A k \in N : <<k, m>> \notin OpToRel(<, Nat)
  BY <1>1, WFMin, NatLessThanWellFounded, Zenon
<1>3. \A k \in N : ~(k < m)
  BY <1>2, Zenon DEF OpToRel
<1>4. m \in Nat /\ m # 0 /\ m - 1 \in Nat /\ m - 1 < m /\ m - 1 + 1 = m
  OBVIOUS
<1>5. m - 1 \in T
  BY <1>3, <1>4
<1>. QED  BY <1>4, <1>5

(* The last of some numbers up to n. *)
LEMMA LastOf ==
    ASSUME NEW k \in Nat, NEW t \in SUBSET (1..(k + 1)), t \notin SUBSET (1..k)
    PROVE  k + 1 \in t /\ M!Max(t) = k + 1 /\ t \ {k + 1} \in SUBSET (1..k)
<1>1. \A j \in 1..(k + 1) : j = k + 1 \/ j \in 1..k
  OBVIOUS
<1>2. k + 1 \in t /\ t \ {k + 1} \in SUBSET (1..k)
  BY <1>1
<1>3. \A x \in t : (\A y \in t : x >= y) <=> x = k + 1
  BY <1>2
<1>. QED  BY <1>2, <1>3 DEF M!Max

LEMMA LastOfAll ==
    ASSUME NEW k \in Nat, k > 0
    PROVE  M!Max(1..k) = k /\ (1..k) \ {k} = 1..(k - 1) /\ 1..k # {}
<1>1. PICK j \in Nat : j = k - 1 /\ j + 1 = k
  OBVIOUS
<1>2. k \in 1..k /\ k \notin 1..j
  BY <1>1
<1>3. M!Max(1..k) = k
  BY <1>1, <1>2, LastOf
<1>4. (1..k) \ {k} = 1..j
  BY <1>1
<1>. QED  BY <1>1, <1>2, <1>3, <1>4

-----------------------------------------------------------------------------
(* The passes of process_config, step by step *)

(* A run is the mixers that a pass goes through, the last of which is what *)
(* the pass makes.                                                         *)
ClashesRun(run, st, u, s, n, conf) ==
    /\ run[0] = st
    /\ \A k \in 1..n : run[k] = M!RemoveClash(run[k - 1], u, s[k])
    /\ M!RemoveClashes(st, u, conf) = run[n]
FirstRun(run, st, s, n, conf) ==
    /\ run[0] = st
    /\ \A k \in 1..n : run[k] = M!RemoveClashes(run[k - 1], s[k], conf)
    /\ M!FirstPass(st, s, conf) = run[n]
SecondRun(run, st, s, n, conf) ==
    /\ run[0] = st
    /\ \A k \in 1..n : run[k] = M!UpdateOrAdd(run[k - 1], s[k])
    /\ M!SecondPass(st, conf) = run[n]
RestRun(run, st, s, n) ==
    /\ run[0] = st
    /\ \A k \in 1..n : run[k] = M!RemoveUntouched(run[k - 1], s[k])
    /\ M!RemoveRest(st, s) = run[n]

LEMMA ClashesOneByOne ==
    ASSUME NEW u, NEW conf, NEW st, NEW n \in Nat, NEW s, DOMAIN s = 1..n, conf.channels = s
    PROVE  \E run : ClashesRun(run, st, u, s, n, conf)
<1>. DEFINE Body(f, t) == IF t = {} THEN st ELSE M!RemoveClash(f[t \ {M!Max(t)}], u, s[M!Max(t)])
            Upto(f, k) == f = [t \in SUBSET (1..k) |-> Body(f, t)]
            T == {k \in Nat : \E f : Upto(f, k)}
            iter == CHOOSE f : Upto(f, n)
<1>1. 0 \in T
  <2>. DEFINE f == [t \in SUBSET (1..0) |-> st]
  <2>1. f = [t \in SUBSET (1..0) |-> Body(f, t)]
    OBVIOUS
  <2>. QED  BY <2>1
<1>2. ASSUME NEW k \in Nat, k \in T PROVE k + 1 \in T
  <2>1. PICK f : Upto(f, k)
    BY <1>2
  <2>. DEFINE g == [t \in SUBSET (1..(k + 1)) |->
                        IF t \in SUBSET (1..k) THEN f[t] ELSE M!RemoveClash(f[t \ {k + 1}], u, s[k + 1])]
  <2>2. ASSUME NEW t \in SUBSET (1..(k + 1)) PROVE g[t] = Body(g, t)
    <3>1. CASE t \in SUBSET (1..k)
      <4>1. t \ {M!Max(t)} \in SUBSET (1..k) /\ t \ {M!Max(t)} \in SUBSET (1..(k + 1))
        BY <3>1
      <4>2. f[t] = Body(f, t) /\ g[t] = f[t] /\ g[t \ {M!Max(t)}] = f[t \ {M!Max(t)}]
        BY <2>1, <3>1, <4>1
      <4>. QED  BY <4>2
    <3>2. CASE t \notin SUBSET (1..k)
      <4>1. k + 1 \in t /\ M!Max(t) = k + 1 /\ t \ {k + 1} \in SUBSET (1..k)
        BY <3>2, LastOf
      <4>2. g[t \ {k + 1}] = f[t \ {k + 1}]
        BY <4>1
      <4>. QED  BY <3>2, <4>1, <4>2
    <3>. QED  BY <3>1, <3>2
  <2>3. Upto(g, k + 1)
    BY <2>2
  <2>. HIDE DEF g, Upto
  <2>. QED  BY <2>3
<1>3. \E f : Upto(f, n)
  <2>. HIDE DEF Upto
  <2>1. Nat \subseteq T
    BY <1>1, <1>2, AllNaturals
  <2>. QED  BY <2>1
<1>4. Upto(iter, n)
  BY <1>3
<1>5. M!RemoveClashes(st, u, conf) = iter[1..n]
  BY DEF M!RemoveClashes, M!FoldLeft, M!MapThenFoldSet
<1>. DEFINE run == [k \in 0..n |-> iter[1..k]]
<1>. HIDE DEF iter
<1>6. run[0] = st
  BY <1>4
<1>7. ASSUME NEW k \in 1..n PROVE run[k] = M!RemoveClash(run[k - 1], u, s[k])
  <2>1. k - 1 \in 0..n /\ k \in 0..n /\ k \in Nat /\ k > 0 /\ 1..k \in SUBSET (1..n)
    OBVIOUS
  <2>2. M!Max(1..k) = k /\ (1..k) \ {k} = 1..(k - 1) /\ 1..k # {}
    BY <2>1, LastOfAll
  <2>3. iter[1..k] = Body(iter, 1..k)
    BY <1>4, <2>1
  <2>. QED  BY <2>1, <2>2, <2>3
<1>8. run[n] = iter[1..n]
  OBVIOUS
<1>. HIDE DEF run
<1>9. ClashesRun(run, st, u, s, n, conf)
  BY <1>5, <1>6, <1>7, <1>8 DEF ClashesRun
<1>. QED  BY <1>9

LEMMA FirstOneByOne ==
    ASSUME NEW conf, NEW st, NEW n \in Nat, NEW s, DOMAIN s = 1..n
    PROVE  \E run : FirstRun(run, st, s, n, conf)
<1>. DEFINE Body(f, t) == IF t = {} THEN st ELSE M!RemoveClashes(f[t \ {M!Max(t)}], s[M!Max(t)], conf)
            Upto(f, k) == f = [t \in SUBSET (1..k) |-> Body(f, t)]
            T == {k \in Nat : \E f : Upto(f, k)}
            iter == CHOOSE f : Upto(f, n)
<1>1. 0 \in T
  <2>. DEFINE f == [t \in SUBSET (1..0) |-> st]
  <2>1. f = [t \in SUBSET (1..0) |-> Body(f, t)]
    OBVIOUS
  <2>. QED  BY <2>1
<1>2. ASSUME NEW k \in Nat, k \in T PROVE k + 1 \in T
  <2>1. PICK f : Upto(f, k)
    BY <1>2
  <2>. DEFINE g == [t \in SUBSET (1..(k + 1)) |->
                        IF t \in SUBSET (1..k) THEN f[t] ELSE M!RemoveClashes(f[t \ {k + 1}], s[k + 1], conf)]
  <2>2. ASSUME NEW t \in SUBSET (1..(k + 1)) PROVE g[t] = Body(g, t)
    <3>1. CASE t \in SUBSET (1..k)
      <4>1. t \ {M!Max(t)} \in SUBSET (1..k) /\ t \ {M!Max(t)} \in SUBSET (1..(k + 1))
        BY <3>1
      <4>2. f[t] = Body(f, t) /\ g[t] = f[t] /\ g[t \ {M!Max(t)}] = f[t \ {M!Max(t)}]
        BY <2>1, <3>1, <4>1
      <4>. QED  BY <4>2
    <3>2. CASE t \notin SUBSET (1..k)
      <4>1. k + 1 \in t /\ M!Max(t) = k + 1 /\ t \ {k + 1} \in SUBSET (1..k)
        BY <3>2, LastOf
      <4>2. g[t \ {k + 1}] = f[t \ {k + 1}]
        BY <4>1
      <4>. QED  BY <3>2, <4>1, <4>2
    <3>. QED  BY <3>1, <3>2
  <2>3. Upto(g, k + 1)
    BY <2>2
  <2>. HIDE DEF g, Upto
  <2>. QED  BY <2>3
<1>3. \E f : Upto(f, n)
  <2>. HIDE DEF Upto
  <2>1. Nat \subseteq T
    BY <1>1, <1>2, AllNaturals
  <2>. QED  BY <2>1
<1>4. Upto(iter, n)
  BY <1>3
<1>5. M!FirstPass(st, s, conf) = iter[1..n]
  BY DEF M!FirstPass, M!FoldLeft, M!MapThenFoldSet
<1>. DEFINE run == [k \in 0..n |-> iter[1..k]]
<1>. HIDE DEF iter
<1>6. run[0] = st
  BY <1>4
<1>7. ASSUME NEW k \in 1..n PROVE run[k] = M!RemoveClashes(run[k - 1], s[k], conf)
  <2>1. k - 1 \in 0..n /\ k \in 0..n /\ k \in Nat /\ k > 0 /\ 1..k \in SUBSET (1..n)
    OBVIOUS
  <2>2. M!Max(1..k) = k /\ (1..k) \ {k} = 1..(k - 1) /\ 1..k # {}
    BY <2>1, LastOfAll
  <2>3. iter[1..k] = Body(iter, 1..k)
    BY <1>4, <2>1
  <2>. QED  BY <2>1, <2>2, <2>3
<1>8. run[n] = iter[1..n]
  OBVIOUS
<1>. HIDE DEF run
<1>9. FirstRun(run, st, s, n, conf)
  BY <1>5, <1>6, <1>7, <1>8 DEF FirstRun
<1>. QED  BY <1>9

LEMMA SecondOneByOne ==
    ASSUME NEW conf, NEW st, NEW n \in Nat, NEW s, DOMAIN s = 1..n, conf.channels = s
    PROVE  \E run : SecondRun(run, st, s, n, conf)
<1>. DEFINE Body(f, t) == IF t = {} THEN st ELSE M!UpdateOrAdd(f[t \ {M!Max(t)}], s[M!Max(t)])
            Upto(f, k) == f = [t \in SUBSET (1..k) |-> Body(f, t)]
            T == {k \in Nat : \E f : Upto(f, k)}
            iter == CHOOSE f : Upto(f, n)
<1>1. 0 \in T
  <2>. DEFINE f == [t \in SUBSET (1..0) |-> st]
  <2>1. f = [t \in SUBSET (1..0) |-> Body(f, t)]
    OBVIOUS
  <2>. QED  BY <2>1
<1>2. ASSUME NEW k \in Nat, k \in T PROVE k + 1 \in T
  <2>1. PICK f : Upto(f, k)
    BY <1>2
  <2>. DEFINE g == [t \in SUBSET (1..(k + 1)) |->
                        IF t \in SUBSET (1..k) THEN f[t] ELSE M!UpdateOrAdd(f[t \ {k + 1}], s[k + 1])]
  <2>2. ASSUME NEW t \in SUBSET (1..(k + 1)) PROVE g[t] = Body(g, t)
    <3>1. CASE t \in SUBSET (1..k)
      <4>1. t \ {M!Max(t)} \in SUBSET (1..k) /\ t \ {M!Max(t)} \in SUBSET (1..(k + 1))
        BY <3>1
      <4>2. f[t] = Body(f, t) /\ g[t] = f[t] /\ g[t \ {M!Max(t)}] = f[t \ {M!Max(t)}]
        BY <2>1, <3>1, <4>1
      <4>. QED  BY <4>2
    <3>2. CASE t \notin SUBSET (1..k)
      <4>1. k + 1 \in t /\ M!Max(t) = k + 1 /\ t \ {k + 1} \in SUBSET (1..k)
        BY <3>2, LastOf
      <4>2. g[t \ {k + 1}] = f[t \ {k + 1}]
        BY <4>1
      <4>. QED  BY <3>2, <4>1, <4>2
    <3>. QED  BY <3>1, <3>2
  <2>3. Upto(g, k + 1)
    BY <2>2
  <2>. HIDE DEF g, Upto
  <2>. QED  BY <2>3
<1>3. \E f : Upto(f, n)
  <2>. HIDE DEF Upto
  <2>1. Nat \subseteq T
    BY <1>1, <1>2, AllNaturals
  <2>. QED  BY <2>1
<1>4. Upto(iter, n)
  BY <1>3
<1>5. M!SecondPass(st, conf) = iter[1..n]
  BY DEF M!SecondPass, M!FoldLeft, M!MapThenFoldSet
<1>. DEFINE run == [k \in 0..n |-> iter[1..k]]
<1>. HIDE DEF iter
<1>6. run[0] = st
  BY <1>4
<1>7. ASSUME NEW k \in 1..n PROVE run[k] = M!UpdateOrAdd(run[k - 1], s[k])
  <2>1. k - 1 \in 0..n /\ k \in 0..n /\ k \in Nat /\ k > 0 /\ 1..k \in SUBSET (1..n)
    OBVIOUS
  <2>2. M!Max(1..k) = k /\ (1..k) \ {k} = 1..(k - 1) /\ 1..k # {}
    BY <2>1, LastOfAll
  <2>3. iter[1..k] = Body(iter, 1..k)
    BY <1>4, <2>1
  <2>. QED  BY <2>1, <2>2, <2>3
<1>8. run[n] = iter[1..n]
  OBVIOUS
<1>. HIDE DEF run
<1>9. SecondRun(run, st, s, n, conf)
  BY <1>5, <1>6, <1>7, <1>8 DEF SecondRun
<1>. QED  BY <1>9

LEMMA RestOneByOne ==
    ASSUME NEW st, NEW n \in Nat, NEW s, DOMAIN s = 1..n
    PROVE  \E run : RestRun(run, st, s, n)
<1>. DEFINE Body(f, t) == IF t = {} THEN st ELSE M!RemoveUntouched(f[t \ {M!Max(t)}], s[M!Max(t)])
            Upto(f, k) == f = [t \in SUBSET (1..k) |-> Body(f, t)]
            T == {k \in Nat : \E f : Upto(f, k)}
            iter == CHOOSE f : Upto(f, n)
<1>1. 0 \in T
  <2>. DEFINE f == [t \in SUBSET (1..0) |-> st]
  <2>1. f = [t \in SUBSET (1..0) |-> Body(f, t)]
    OBVIOUS
  <2>. QED  BY <2>1
<1>2. ASSUME NEW k \in Nat, k \in T PROVE k + 1 \in T
  <2>1. PICK f : Upto(f, k)
    BY <1>2
  <2>. DEFINE g == [t \in SUBSET (1..(k + 1)) |->
                        IF t \in SUBSET (1..k) THEN f[t] ELSE M!RemoveUntouched(f[t \ {k + 1}], s[k + 1])]
  <2>2. ASSUME NEW t \in SUBSET (1..(k + 1)) PROVE g[t] = Body(g, t)
    <3>1. CASE t \in SUBSET (1..k)
      <4>1. t \ {M!Max(t)} \in SUBSET (1..k) /\ t \ {M!Max(t)} \in SUBSET (1..(k + 1))
        BY <3>1
      <4>2. f[t] = Body(f, t) /\ g[t] = f[t] /\ g[t \ {M!Max(t)}] = f[t \ {M!Max(t)}]
        BY <2>1, <3>1, <4>1
      <4>. QED  BY <4>2
    <3>2. CASE t \notin SUBSET (1..k)
      <4>1. k + 1 \in t /\ M!Max(t) = k + 1 /\ t \ {k + 1} \in SUBSET (1..k)
        BY <3>2, LastOf
      <4>2. g[t \ {k + 1}] = f[t \ {k + 1}]
        BY <4>1
      <4>. QED  BY <3>2, <4>1, <4>2
    <3>. QED  BY <3>1, <3>2
  <2>3. Upto(g, k + 1)
    BY <2>2
  <2>. HIDE DEF g, Upto
  <2>. QED  BY <2>3
<1>3. \E f : Upto(f, n)
  <2>. HIDE DEF Upto
  <2>1. Nat \subseteq T
    BY <1>1, <1>2, AllNaturals
  <2>. QED  BY <2>1
<1>4. Upto(iter, n)
  BY <1>3
<1>5. M!RemoveRest(st, s) = iter[1..n]
  BY DEF M!RemoveRest, M!FoldLeft, M!MapThenFoldSet
<1>. DEFINE run == [k \in 0..n |-> iter[1..k]]
<1>. HIDE DEF iter
<1>6. run[0] = st
  BY <1>4
<1>7. ASSUME NEW k \in 1..n PROVE run[k] = M!RemoveUntouched(run[k - 1], s[k])
  <2>1. k - 1 \in 0..n /\ k \in 0..n /\ k \in Nat /\ k > 0 /\ 1..k \in SUBSET (1..n)
    OBVIOUS
  <2>2. M!Max(1..k) = k /\ (1..k) \ {k} = 1..(k - 1) /\ 1..k # {}
    BY <2>1, LastOfAll
  <2>3. iter[1..k] = Body(iter, 1..k)
    BY <1>4, <2>1
  <2>. QED  BY <2>1, <2>2, <2>3
<1>8. run[n] = iter[1..n]
  OBVIOUS
<1>. HIDE DEF run
<1>9. RestRun(run, st, s, n)
  BY <1>5, <1>6, <1>7, <1>8 DEF RestRun
<1>. QED  BY <1>9


-----------------------------------------------------------------------------
(* The mixer: the state that process_config works on *)

Entry == [uuid : MixerUuids, name : Names, patch : M!Patches, eid : Nat]
IsMap(f) ==
    /\ f = [u \in DOMAIN f |-> f[u]] /\ DOMAIN f \subseteq MixerUuids
    /\ \A u \in DOMAIN f : f[u] \in Entry
Maps == UNION {[S -> Entry] : S \in SUBSET MixerUuids}

Ports == M!Port \cup {NoPort}
MixState ==
    [chans : Seq(Ports), holes : Seq(Nat), leaked : SUBSET Names, channels : Maps,
     defs : SUBSET MixerUuids, touched : SUBSET MixerUuids, hist : SUBSET M!Happenings, ok : BOOLEAN]

(* The holes are the indices without a port. *)
Free(cs) == {i \in 1..Len(cs) : cs[i] = NoPort}
EngineOK(st) == Len(st.chans) < MaxChans /\ Lines(st.holes, Free(st.chans))
EntriesOK(st) ==
    \A u \in DOMAIN st.channels :
        st.channels[u].uuid = u /\ st.channels[u].eid \in 1..Len(st.chans)
Sound(st) ==
    /\ st \in MixState /\ EngineOK(st) /\ EntriesOK(st)
    /\ st.touched \subseteq DOMAIN st.channels /\ IsFiniteSet(DOMAIN st.channels)

(* The channels of D have a port each, with their name and, as long as no  *)
(* patch was changed, their patch; and no port is without one of them.     *)
OfChannel(st, c) ==
    /\ st.chans[c.eid] # NoPort /\ st.chans[c.eid].name = c.name
    /\ st.hist = {} => st.chans[c.eid].to = {c.patch} \cap Sinks
Exact(st, D) ==
    /\ st.leaked = {}
    /\ \A u \in D : OfChannel(st, st.channels[u])
    /\ \A i \in 1..Len(st.chans) : st.chans[i] # NoPort => \E u \in D : st.channels[u].eid = i
    /\ \A u, v \in D : st.channels[u].eid = st.channels[v].eid => u = v

LEMMA MapsAre ==
    ASSUME NEW f
    PROVE  f \in Maps <=> IsMap(f)
<1>1. ASSUME f \in Maps PROVE IsMap(f)
  <2>1. PICK S \in SUBSET MixerUuids : f \in [S -> Entry]
    BY <1>1 DEF Maps
  <2>. QED  BY <2>1 DEF IsMap
<1>2. ASSUME IsMap(f) PROVE f \in Maps
  <2>1. DOMAIN f \in SUBSET MixerUuids /\ f \in [DOMAIN f -> Entry]
    BY <1>2 DEF IsMap
  <2>. QED  BY <2>1 DEF Maps
<1>. QED  BY <1>1, <1>2

LEMMA FieldsAre ==
    ASSUME NEW st \in MixState
    PROVE  /\ st.chans \in Seq(Ports) /\ st.holes \in Seq(Nat) /\ st.leaked \subseteq Names
           /\ st.channels \in Maps /\ IsMap(st.channels)
           /\ st.defs \subseteq MixerUuids /\ st.touched \subseteq MixerUuids
           /\ st.hist \subseteq M!Happenings /\ st.ok \in BOOLEAN
           /\ Len(st.chans) \in Nat /\ DOMAIN st.chans = 1..Len(st.chans)
           /\ \A i \in 1..Len(st.chans) : st.chans[i] \in Ports
<1>1. /\ st.chans \in Seq(Ports) /\ st.holes \in Seq(Nat) /\ st.leaked \subseteq Names
      /\ st.channels \in Maps
      /\ st.defs \subseteq MixerUuids /\ st.touched \subseteq MixerUuids
      /\ st.hist \subseteq M!Happenings /\ st.ok \in BOOLEAN
  BY DEF MixState
<1>2. IsMap(st.channels)
  BY <1>1, MapsAre
<1>3. /\ Len(st.chans) \in Nat /\ DOMAIN st.chans = 1..Len(st.chans)
      /\ \A i \in 1..Len(st.chans) : st.chans[i] \in Ports
  BY <1>1, LenProperties, ElementOfSeq
<1>. QED  BY <1>1, <1>2, <1>3

-----------------------------------------------------------------------------
(* What the engine does, and what it leaves as it is *)

(* Nothing but the engine's part, and that soundly. *)
Engine(st, r) ==
    /\ r \in MixState /\ EngineOK(r) /\ Len(st.chans) <= Len(r.chans)
    /\ r.channels = st.channels /\ r.defs = st.defs /\ r.touched = st.touched
    /\ r.hist = st.hist /\ (r.ok => st.ok)
(* Nothing but the port at index i, which stays. *)
PortOnly(st, r, i) ==
    /\ Engine(st, r) /\ Len(r.chans) = Len(st.chans) /\ r.leaked = st.leaked
    /\ r.chans[i] # NoPort
    /\ \A j \in 1..Len(st.chans) : j # i => r.chans[j] = st.chans[j]
(* A new port at index i, which was free. *)
PortAt(st, r, i, name) ==
    /\ i \in 1..Len(r.chans) /\ r.leaked = st.leaked
    /\ i \in 1..Len(st.chans) => st.chans[i] = NoPort
    /\ r.chans[i] = [name |-> name, to |-> {}]
    /\ \A j \in 1..Len(r.chans) : j # i => j \in 1..Len(st.chans) /\ r.chans[j] = st.chans[j]
(* The port at index i is no longer there. *)
PortGone(st, r, i) ==
    /\ st.ok /\ i \in 1..Len(st.chans) /\ st.chans[i] # NoPort
    /\ Len(r.chans) = Len(st.chans) /\ r.leaked = st.leaked /\ r.chans[i] = NoPort
    /\ \A j \in 1..Len(st.chans) : j # i => r.chans[j] = st.chans[j]

LEMMA EngineComposes ==
    ASSUME NEW st \in MixState, NEW r, NEW q, Engine(st, r), Engine(r, q)
    PROVE  Engine(st, q)
<1>1. r \in MixState /\ q \in MixState
  BY DEF Engine
<1>2. Len(st.chans) \in Nat /\ Len(r.chans) \in Nat /\ Len(q.chans) \in Nat
  BY <1>1, FieldsAre
<1>. QED  BY <1>2 DEF Engine

LEMMA PortOnlyComposes ==
    ASSUME NEW st \in MixState, NEW r, NEW q, NEW i, PortOnly(st, r, i), PortOnly(r, q, i)
    PROVE  PortOnly(st, q, i)
BY EngineComposes DEF PortOnly

LEMMA FailIs ==
    ASSUME NEW st \in MixState, EngineOK(st)
    PROVE  /\ Engine(st, M!Fail(st)) /\ ~M!Fail(st).ok
           /\ M!Fail(st).chans = st.chans /\ M!Fail(st).leaked = st.leaked
<1>. DEFINE r == M!Fail(st)
<1>1. /\ r \in MixState /\ r.ok = FALSE /\ r.chans = st.chans /\ r.holes = st.holes
      /\ r.leaked = st.leaked /\ r.channels = st.channels /\ r.defs = st.defs
      /\ r.touched = st.touched /\ r.hist = st.hist
  BY DEF M!Fail, MixState
<1>2. Len(st.chans) \in Nat
  BY FieldsAre
<1>. HIDE DEF r
<1>3. Engine(st, r)
  BY <1>1, <1>2 DEF Engine, EngineOK
<1>. QED  BY <1>1, <1>3 DEF r

LEMMA PortsApart ==
    NoPort \notin M!Port /\ NoPort \in Ports /\ M!Port \subseteq Ports
BY MixerConstants DEF M!MixerAssumption, Ports

LEMMA MaxChansIs == MaxChans \in Nat \ {0}
BY MixerConstants DEF M!MixerAssumption

(* A port that is put in the place of another. *)
LEMMA PortPut ==
    ASSUME NEW st \in MixState, EngineOK(st), NEW i \in 1..Len(st.chans), st.chans[i] # NoPort,
           NEW p \in M!Port, NEW r, r = [st EXCEPT !.chans = [@ EXCEPT ![i] = p]]
    PROVE  PortOnly(st, r, i) /\ r.chans[i] = p /\ r.ok = st.ok
<1>. USE FieldsAre
<1>1. /\ r.chans = [st.chans EXCEPT ![i] = p] /\ r.holes = st.holes
      /\ r.leaked = st.leaked /\ r.channels = st.channels /\ r.defs = st.defs
      /\ r.touched = st.touched /\ r.hist = st.hist /\ r.ok = st.ok
  BY DEF MixState
<1>2. /\ r.chans \in Seq(Ports) /\ Len(r.chans) = Len(st.chans) /\ r.chans[i] = p
      /\ \A j \in 1..Len(st.chans) : j # i => r.chans[j] = st.chans[j]
  BY <1>1, PortsApart, ExceptSeq
<1>3. r \in MixState
  BY <1>2 DEF MixState
<1>4. Free(r.chans) = Free(st.chans)
  BY <1>2, PortsApart DEF Free
<1>5. EngineOK(r)
  BY <1>1, <1>2, <1>4 DEF EngineOK
<1>. QED  BY <1>1, <1>2, <1>3, <1>5, PortsApart DEF PortOnly, Engine

-----------------------------------------------------------------------------
(* The calls of process_config *)

LEMMA TailLines ==
    ASSUME NEW S, NEW s \in Seq(S), s # <<>>, NEW P \in SUBSET S, Lines(s, P)
    PROVE  /\ Head(s) \in P /\ Tail(s) \in Seq(S) /\ Len(Tail(s)) = Len(s) - 1
           /\ Lines(Tail(s), P \ {Head(s)})
<1>. DEFINE t == Tail(s)
<1>1. /\ t \in Seq(S) /\ Head(s) = s[1] /\ Len(t) = Len(s) - 1 /\ Len(s) \in Nat /\ Len(s) > 0
      /\ \A k \in 1..(Len(s) - 1) : t[k] = s[k + 1]
  <2>1. Len(s) \in Nat /\ Len(s) # 0
    BY LenProperties, EmptySeq
  <2>. QED  BY <2>1, HeadTailProperties
<1>2. /\ \A k \in 1..Len(s) : s[k] \in P
      /\ \A v \in P : \E k \in 1..Len(s) : s[k] = v
      /\ \A j, k \in 1..Len(s) : s[j] = s[k] => j = k
  BY LinesByIndex
<1>. HIDE DEF t
<1>3. \A k \in 1..Len(t) : k + 1 \in 1..Len(s) /\ k + 1 # 1 /\ t[k] = s[k + 1]
  BY <1>1
<1>4. 1 \in 1..Len(s)
  BY <1>1
<1>5. \A k \in 1..Len(t) : t[k] \in P \ {s[1]}
  BY <1>2, <1>3, <1>4
<1>6. ASSUME NEW v \in P \ {s[1]} PROVE \E k \in 1..Len(t) : t[k] = v
  <2>1. PICK k \in 1..Len(s) : s[k] = v
    BY <1>2
  <2>2. k - 1 \in 1..Len(t) /\ k - 1 + 1 = k
    BY <1>1, <2>1
  <2>. QED  BY <1>3, <2>1, <2>2
<1>7. ASSUME NEW j \in 1..Len(t), NEW k \in 1..Len(t), t[j] = t[k] PROVE j = k
  <2>1. j + 1 = k + 1
    BY <1>2, <1>3, <1>7
  <2>. QED  BY <2>1
<1>8. Lines(t, P \ {s[1]})
  <2>. DEFINE Q == P \ {s[1]}
  <2>1. Q \in SUBSET S
    OBVIOUS
  <2>2. /\ \A k \in 1..Len(t) : t[k] \in Q
        /\ \A v \in Q : \E k \in 1..Len(t) : t[k] = v
        /\ \A j, k \in 1..Len(t) : t[j] = t[k] => j = k
    BY <1>5, <1>6, <1>7
  <2>. HIDE DEF Q
  <2>3. Lines(t, Q)
    BY <1>1, <2>1, <2>2, LinesByIndex
  <2>. QED  BY <2>3 DEF Q
<1>. QED  BY <1>1, <1>2, <1>4, <1>8 DEF t

LEMMA FreeAre ==
    ASSUME NEW cs, Len(cs) \in Nat
    PROVE  Free(cs) \in SUBSET Nat
BY DEF Free

LEMMA NewChannelIs ==
    ASSUME NEW st \in MixState, EngineOK(st), st.ok, NEW name \in Names
    PROVE  /\ Engine(st, M!NewChannel(st, name))
           /\ M!NewChannel(st, name).ok => PortAt(st, M!NewChannel(st, name), M!NewIndex(st), name)
<1>. DEFINE r == M!NewChannel(st, name)
            port == [name |-> name, to |-> {}]
<1>1. Len(st.chans) \in Nat /\ st.holes \in Seq(Nat) /\ st.chans \in Seq(Ports)
  BY FieldsAre
<1>2. port \in M!Port /\ port \in Ports /\ port # NoPort
  BY PortsApart DEF M!Port
<1>3. CASE M!Taken(st, name)
  <2>1. r = M!Fail(st)
    BY <1>3 DEF M!NewChannel
  <2>. QED  BY <2>1, FailIs
<1>4. CASE ~M!Taken(st, name) /\ Len(st.chans) - Len(st.holes) = MaxChans - 1
  <2>. DEFINE q == [st EXCEPT !.leaked = @ \cup {name}]
  <2>1. r = M!Fail(q)
    BY <1>4 DEF M!NewChannel
  <2>2. /\ q \in MixState /\ q.chans = st.chans /\ q.holes = st.holes
        /\ q.channels = st.channels /\ q.defs = st.defs
        /\ q.touched = st.touched /\ q.hist = st.hist /\ q.ok = st.ok
    BY DEF MixState
  <2>. HIDE DEF q
  <2>3. Engine(st, q)
    BY <1>1, <2>2 DEF Engine, EngineOK
  <2>. QED  BY <2>1, <2>2, <2>3, FailIs, EngineComposes DEF Engine
<1>5. CASE ~M!Taken(st, name) /\ Len(st.chans) - Len(st.holes) # MaxChans - 1 /\ st.holes # <<>>
  <2>. DEFINE i == Head(st.holes)
  <2>1. r = [st EXCEPT !.chans = [@ EXCEPT ![i] = port], !.holes = Tail(@)] /\ M!NewIndex(st) = i
    BY <1>5 DEF M!NewChannel, M!NewIndex
  <2>2. /\ i \in Free(st.chans) /\ Tail(st.holes) \in Seq(Nat)
        /\ Lines(Tail(st.holes), Free(st.chans) \ {i})
    BY <1>1, <1>5, TailLines, FreeAre DEF EngineOK
  <2>. HIDE DEF i, port
  <2>3. /\ r.chans = [st.chans EXCEPT ![i] = port] /\ r.holes = Tail(st.holes)
        /\ r.leaked = st.leaked /\ r.channels = st.channels /\ r.defs = st.defs
        /\ r.touched = st.touched /\ r.hist = st.hist /\ r.ok = st.ok
    BY <2>1 DEF MixState
  <2>4. i \in 1..Len(st.chans) /\ st.chans[i] = NoPort
    BY <2>2 DEF Free
  <2>5. /\ r.chans \in Seq(Ports) /\ Len(r.chans) = Len(st.chans) /\ r.chans[i] = port
        /\ \A j \in 1..Len(st.chans) : j # i => r.chans[j] = st.chans[j]
    BY <1>1, <1>2, <2>3, <2>4, ExceptSeq
  <2>6. r \in MixState
    BY <2>1, <2>2, <2>3, <2>5 DEF MixState
  <2>. HIDE DEF r
  <2>7. Free(r.chans) = Free(st.chans) \ {i}
    BY <1>2, <2>5 DEF Free
  <2>8. Engine(st, r)
    <3>1. EngineOK(r)
      BY <2>2, <2>3, <2>5, <2>7 DEF EngineOK
    <3>. QED  BY <1>1, <2>3, <2>5, <2>6, <3>1 DEF Engine
  <2>9. PortAt(st, r, i, name)
    BY <1>1, <2>3, <2>4, <2>5 DEF PortAt, port
  <2>. QED  BY <2>1, <2>8, <2>9 DEF r
<1>6. CASE ~M!Taken(st, name) /\ Len(st.chans) - Len(st.holes) # MaxChans - 1 /\ st.holes = <<>>
  <2>. DEFINE i == Len(st.chans) + 1
  <2>1. r = [st EXCEPT !.chans = Append(@, port)] /\ M!NewIndex(st) = i
    BY <1>6 DEF M!NewChannel, M!NewIndex
  <2>. HIDE DEF port
  <2>2. /\ r.chans = Append(st.chans, port) /\ r.holes = st.holes
        /\ r.leaked = st.leaked /\ r.channels = st.channels /\ r.defs = st.defs
        /\ r.touched = st.touched /\ r.hist = st.hist /\ r.ok = st.ok
    BY <2>1 DEF MixState
  <2>3. /\ r.chans \in Seq(Ports) /\ Len(r.chans) = i /\ r.chans[i] = port
        /\ \A j \in 1..Len(st.chans) : r.chans[j] = st.chans[j]
    BY <1>1, <1>2, <2>2, AppendProperties
  <2>4. r \in MixState
    BY <2>1, <2>2, <2>3 DEF MixState
  <2>. HIDE DEF r
  <2>5. \A j \in 1..Len(r.chans) : j = i \/ j \in 1..Len(st.chans)
    BY <1>1, <2>3
  <2>6. Free(r.chans) = Free(st.chans)
    BY <1>1, <1>2, <2>3, <2>5 DEF Free
  <2>7. Len(r.chans) < MaxChans
    BY <1>1, <1>6, <2>3, MaxChansIs DEF EngineOK
  <2>8. Engine(st, r)
    BY <1>1, <2>2, <2>3, <2>4, <2>6, <2>7 DEF Engine, EngineOK
  <2>9. PortAt(st, r, i, name)
    BY <1>1, <2>2, <2>3, <2>5 DEF PortAt, port
  <2>. QED  BY <2>1, <2>8, <2>9 DEF r
<1>. QED  BY <1>3, <1>4, <1>5, <1>6

LEMMA RemoveIs ==
    ASSUME NEW st \in MixState, EngineOK(st), st.ok, NEW i
    PROVE  /\ Engine(st, M!RemoveChannel(st, i))
           /\ M!RemoveChannel(st, i).ok => PortGone(st, M!RemoveChannel(st, i), i)
<1>. DEFINE r == M!RemoveChannel(st, i)
<1>1. /\ Len(st.chans) \in Nat /\ st.holes \in Seq(Nat) /\ st.chans \in Seq(Ports)
      /\ DOMAIN st.chans = 1..Len(st.chans)
  BY FieldsAre
<1>2. CASE ~M!Live(st, i)
  <2>1. r = M!Fail(st)
    BY <1>2 DEF M!RemoveChannel
  <2>. QED  BY <2>1, FailIs
<1>3. CASE M!Live(st, i)
  <2>1. r = [st EXCEPT !.chans = [@ EXCEPT ![i] = NoPort], !.holes = Append(@, i)]
    BY <1>3 DEF M!RemoveChannel
  <2>2. i \in 1..Len(st.chans) /\ i \in Nat /\ st.chans[i] # NoPort
    BY <1>1, <1>3 DEF M!Live
  <2>3. /\ r.chans = [st.chans EXCEPT ![i] = NoPort] /\ r.holes = Append(st.holes, i)
        /\ r.leaked = st.leaked /\ r.channels = st.channels /\ r.defs = st.defs
        /\ r.touched = st.touched /\ r.hist = st.hist /\ r.ok = st.ok
    BY <2>1 DEF MixState
  <2>4. /\ r.chans \in Seq(Ports) /\ Len(r.chans) = Len(st.chans) /\ r.chans[i] = NoPort
        /\ \A j \in 1..Len(st.chans) : j # i => r.chans[j] = st.chans[j]
    BY <1>1, <2>2, <2>3, PortsApart, ExceptSeq
  <2>5. r.holes \in Seq(Nat) /\ Lines(r.holes, Free(st.chans) \cup {i})
    <3>1. i \in Nat \ Free(st.chans)
      BY <2>2 DEF Free
    <3>2. Free(st.chans) \in SUBSET Nat /\ Lines(st.holes, Free(st.chans))
      BY <1>1, FreeAre DEF EngineOK
    <3>3. /\ Append(st.holes, i) \in Seq(Nat)
          /\ Lines(Append(st.holes, i), Free(st.chans) \cup {i})
      BY <1>1, <3>1, <3>2, AppendLines
    <3>. QED  BY <2>3, <3>3
  <2>6. r \in MixState
    BY <2>1, <2>3, <2>4, <2>5 DEF MixState
  <2>. HIDE DEF r
  <2>7. Free(r.chans) = Free(st.chans) \cup {i}
    BY <2>2, <2>4 DEF Free
  <2>8. Engine(st, r)
    <3>1. EngineOK(r)
      BY <2>3, <2>4, <2>5, <2>7 DEF EngineOK
    <3>. QED  BY <1>1, <2>3, <2>4, <2>6, <3>1 DEF Engine
  <2>9. PortGone(st, r, i)
    BY <2>2, <2>3, <2>4 DEF PortGone
  <2>. QED  BY <2>8, <2>9 DEF r
<1>. QED  BY <1>2, <1>3

LEMMA LivePort ==
    ASSUME NEW st \in MixState, NEW i \in 1..Len(st.chans), st.chans[i] # NoPort
    PROVE  st.chans[i] \in M!Port /\ st.chans[i].name \in Names /\ st.chans[i].to \in SUBSET Sinks
           /\ i \in DOMAIN st.chans
<1>1. st.chans[i] \in M!Port /\ i \in DOMAIN st.chans
  BY FieldsAre DEF Ports
<1>. QED  BY <1>1 DEF M!Port

LEMMA SetShortNameIs ==
    ASSUME NEW st \in MixState, EngineOK(st), NEW i \in 1..Len(st.chans), st.chans[i] # NoPort,
           NEW name \in Names
    PROVE  LET r == M!SetShortName(st, i, name)
           IN  /\ PortOnly(st, r, i) /\ r.chans[i].to = st.chans[i].to
               /\ r.ok => r.chans[i].name = name
<1>. DEFINE r == M!SetShortName(st, i, name)
            p == [st.chans[i] EXCEPT !.name = name]
<1>. USE LivePort
<1>1. CASE st.chans[i].name # name /\ M!Taken(st, name)
  <2>1. r = M!Fail(st)
    BY <1>1 DEF M!SetShortName
  <2>. QED  BY <2>1, FailIs DEF PortOnly
<1>2. CASE ~(st.chans[i].name # name /\ M!Taken(st, name))
  <2>1. r = [st EXCEPT !.chans = [@ EXCEPT ![i] = p]]
    BY <1>2 DEF M!SetShortName
  <2>2. p \in M!Port /\ p.name = name /\ p.to = st.chans[i].to
    BY DEF M!Port
  <2>. HIDE DEF p, r
  <2>3. PortOnly(st, r, i) /\ r.chans[i] = p
    BY <2>1, <2>2, PortPut
  <2>. QED  BY <2>2, <2>3 DEF r
<1>. QED  BY <1>1, <1>2

LEMMA ConnectIs ==
    ASSUME NEW st \in MixState, EngineOK(st), NEW i \in 1..Len(st.chans), st.chans[i] # NoPort,
           NEW patch \in M!Patches
    PROVE  LET r == M!Connect(st, i, patch)
           IN  /\ PortOnly(st, r, i) /\ r.chans[i].name = st.chans[i].name
               /\ r.ok => r.chans[i].to = st.chans[i].to \cup ({patch} \cap Sinks)
<1>. DEFINE r == M!Connect(st, i, patch)
            p == [st.chans[i] EXCEPT !.to = @ \cup {patch}]
<1>. USE LivePort
<1>1. Engine(st, st) /\ PortOnly(st, st, i)
  <2>1. Len(st.chans) \in Nat
    BY FieldsAre
  <2>. QED  BY <2>1 DEF Engine, PortOnly
<1>2. CASE ~st.ok \/ patch = NoPatch
  <2>1. r = st
    BY <1>2 DEF M!Connect
  <2>2. NoPatch \notin Sinks
    BY MixerConstants DEF M!MixerAssumption
  <2>. QED  BY <1>1, <1>2, <2>1, <2>2
<1>3. CASE st.ok /\ patch # NoPatch /\ patch \in Sinks
  <2>1. r = [st EXCEPT !.chans = [@ EXCEPT ![i] = p]]
    BY <1>3 DEF M!Connect
  <2>2. p \in M!Port /\ p.name = st.chans[i].name /\ p.to = st.chans[i].to \cup {patch}
    BY <1>3 DEF M!Port
  <2>. HIDE DEF p, r
  <2>3. PortOnly(st, r, i) /\ r.chans[i] = p
    BY <2>1, <2>2, PortPut
  <2>4. {patch} \cap Sinks = {patch}
    BY <1>3
  <2>. QED  BY <2>2, <2>3, <2>4 DEF r
<1>4. CASE st.ok /\ patch # NoPatch /\ patch \notin Sinks
  <2>1. r = M!Fail(st)
    BY <1>4 DEF M!Connect
  <2>. QED  BY <2>1, FailIs DEF PortOnly
<1>. QED  BY <1>2, <1>3, <1>4

LEMMA DisconnectIs ==
    ASSUME NEW st \in MixState, EngineOK(st), NEW i \in 1..Len(st.chans), st.chans[i] # NoPort,
           NEW patch
    PROVE  LET r == M!Disconnect(st, i, patch)
           IN  /\ PortOnly(st, r, i) /\ r.chans[i].name = st.chans[i].name
               /\ r.chans[i].to = st.chans[i].to \ {patch} /\ r.ok = st.ok
<1>. DEFINE r == M!Disconnect(st, i, patch)
            p == [st.chans[i] EXCEPT !.to = @ \ {patch}]
<1>. USE LivePort
<1>1. r = [st EXCEPT !.chans = [@ EXCEPT ![i] = p]]
  BY DEF M!Disconnect
<1>2. p \in M!Port /\ p.name = st.chans[i].name /\ p.to = st.chans[i].to \ {patch}
  BY DEF M!Port
<1>. HIDE DEF p, r
<1>3. PortOnly(st, r, i) /\ r.chans[i] = p /\ r.ok = st.ok
  BY <1>1, <1>2, PortPut
<1>. QED  BY <1>2, <1>3 DEF r

-----------------------------------------------------------------------------
(* The first pass *)

(* Only ports were taken away, and if none was nothing has changed. *)
Shrinks(st, r) ==
    /\ Sound(r) /\ r.channels = st.channels /\ r.defs = st.defs /\ (r.ok => st.ok)
    /\ st.hist \subseteq r.hist /\ r.hist \subseteq st.hist \cup {"replaced"}
    /\ "replaced" \notin r.hist => r = st

LEMMA EngineSound ==
    ASSUME NEW st, Sound(st), NEW r, Engine(st, r)
    PROVE  Sound(r)
<1>1. st \in MixState /\ r \in MixState
  BY DEF Sound, Engine
<1>2. Len(st.chans) \in Nat /\ Len(r.chans) \in Nat
  BY <1>1, FieldsAre
<1>3. EntriesOK(r)
  BY <1>2 DEF Sound, Engine, EntriesOK
<1>. QED  BY <1>1, <1>3 DEF Sound, Engine

LEMMA ShrinksComposes ==
    ASSUME NEW st, NEW r, NEW q, Shrinks(st, r), Shrinks(r, q)
    PROVE  Shrinks(st, q)
<1>1. "replaced" \notin q.hist => q = st
  BY DEF Shrinks
<1>. QED  BY <1>1 DEF Shrinks

LEMMA ClashShrinks ==
    ASSUME NEW st, Sound(st), NEW u \in DOMAIN st.channels, NEW new
    PROVE  Shrinks(st, M!RemoveClash(st, u, new))
<1>. DEFINE clash == st.ok /\ st.channels[u].name = new.name /\ u # new.uuid
            q == M!RemoveChannel(st, st.channels[u].eid)
            r == [q EXCEPT !.touched = @ \cup {u}, !.hist = @ \cup {"replaced"}]
<1>1. CASE ~clash
  <2>1. M!RemoveClash(st, u, new) = st
    BY <1>1 DEF M!RemoveClash
  <2>. QED  BY <2>1 DEF Shrinks
<1>2. CASE clash
  <2>1. M!RemoveClash(st, u, new) = r
    BY <1>2 DEF M!RemoveClash
  <2>2. st \in MixState /\ EngineOK(st) /\ st.ok
    BY <1>2 DEF Sound
  <2>. HIDE DEF q
  <2>3. Engine(st, q)
    BY <2>2, RemoveIs DEF q
  <2>4. Sound(q)
    BY <2>3, EngineSound
  <2>5. q \in MixState
    BY <2>3 DEF Engine
  <2>6. u \in MixerUuids /\ u \in DOMAIN q.channels
    BY <2>2, <2>3, FieldsAre DEF IsMap, Engine
  <2>7. /\ r \in MixState /\ r.chans = q.chans /\ r.holes = q.holes /\ r.leaked = q.leaked
        /\ r.channels = q.channels /\ r.defs = q.defs /\ r.touched = q.touched \cup {u}
        /\ r.hist = q.hist \cup {"replaced"} /\ r.ok = q.ok
    BY <2>5, <2>6 DEF MixState, M!Happenings
  <2>. HIDE DEF r
  <2>8. Sound(r)
    BY <2>4, <2>6, <2>7 DEF Sound, EngineOK, EntriesOK
  <2>. QED  BY <2>1, <2>3, <2>7, <2>8 DEF Shrinks, Engine
<1>. QED  BY <1>1, <1>2

LEMMA ClashesShrink ==
    ASSUME NEW st, Sound(st), NEW u \in DOMAIN st.channels, NEW conf \in M!Conf
    PROVE  Shrinks(st, M!RemoveClashes(st, u, conf))
<1>. DEFINE s == conf.channels
            n == Len(s)
<1>1. n \in Nat /\ DOMAIN s = 1..n
  <2>1. s \in Seq(M!Channel)
    BY DEF M!Conf
  <2>. QED  BY <2>1, LenProperties
<1>. HIDE DEF n
<1>0. PICK run : ClashesRun(run, st, u, s, n, conf)
  BY <1>1, ClashesOneByOne
<1>2. /\ run[0] = st
      /\ \A k \in 1..n : run[k] = M!RemoveClash(run[k - 1], u, s[k])
      /\ M!RemoveClashes(st, u, conf) = run[n]
  BY <1>0 DEF ClashesRun
<1>. DEFINE T == {k \in Nat : k <= n => Shrinks(st, run[k])}
<1>3. 0 \in T
  BY <1>2 DEF Shrinks
<1>4. ASSUME NEW k \in Nat, k \in T PROVE k + 1 \in T
  <2>1. SUFFICES ASSUME k + 1 <= n PROVE Shrinks(st, run[k + 1])
    OBVIOUS
  <2>2. Shrinks(st, run[k])
    BY <1>1, <1>4, <2>1
  <2>3. k + 1 \in 1..n /\ k + 1 - 1 = k
    BY <1>1, <2>1
  <2>4. run[k + 1] = M!RemoveClash(run[k], u, s[k + 1])
    BY <1>2, <2>3
  <2>5. Shrinks(run[k], run[k + 1])
    BY <2>2, <2>4, ClashShrinks DEF Shrinks
  <2>. QED  BY <2>2, <2>5, ShrinksComposes
<1>5. Nat \subseteq T
  <2>. HIDE DEF T
  <2>. QED  BY <1>3, <1>4, AllNaturals
<1>. QED  BY <1>1, <1>2, <1>5

LEMMA FirstShrinks ==
    ASSUME NEW st, Sound(st), NEW n \in Nat, NEW s, DOMAIN s = 1..n,
           \A k \in 1..n : s[k] \in DOMAIN st.channels, NEW conf \in M!Conf
    PROVE  Shrinks(st, M!FirstPass(st, s, conf))
<1>0. PICK run : FirstRun(run, st, s, n, conf)
  BY FirstOneByOne
<1>1. /\ run[0] = st
      /\ \A k \in 1..n : run[k] = M!RemoveClashes(run[k - 1], s[k], conf)
      /\ M!FirstPass(st, s, conf) = run[n]
  BY <1>0 DEF FirstRun
<1>. DEFINE T == {k \in Nat : k <= n => Shrinks(st, run[k])}
<1>2. 0 \in T
  BY <1>1 DEF Shrinks
<1>3. ASSUME NEW k \in Nat, k \in T PROVE k + 1 \in T
  <2>1. SUFFICES ASSUME k + 1 <= n PROVE Shrinks(st, run[k + 1])
    OBVIOUS
  <2>2. Shrinks(st, run[k])
    BY <1>3, <2>1
  <2>3. k + 1 \in 1..n /\ k + 1 - 1 = k
    BY <2>1
  <2>4. run[k + 1] = M!RemoveClashes(run[k], s[k + 1], conf) /\ s[k + 1] \in DOMAIN st.channels
    BY <1>1, <2>3
  <2>5. Shrinks(run[k], run[k + 1])
    BY <2>2, <2>4, ClashesShrink DEF Shrinks
  <2>. QED  BY <2>2, <2>5, ShrinksComposes
<1>4. Nat \subseteq T
  <2>. HIDE DEF T
  <2>. QED  BY <1>2, <1>3, AllNaturals
<1>. QED  BY <1>1, <1>4

-----------------------------------------------------------------------------
(* The second pass *)

(* The channels named uuids were updated or added, soundly; where each had *)
(* its port, each has it afterwards.                                       *)
Grows(st, r, uuids) ==
    /\ Sound(r) /\ r.defs = st.defs /\ (r.ok => st.ok)
    /\ DOMAIN st.channels \subseteq DOMAIN r.channels
    /\ DOMAIN r.channels \subseteq DOMAIN st.channels \cup r.touched
    /\ st.touched \subseteq r.touched
    /\ st.hist \subseteq r.hist /\ r.hist \subseteq st.hist \cup {"repatched"}
    /\ r.ok => r.touched = st.touched \cup uuids
    /\ r.ok /\ Exact(st, DOMAIN st.channels) => Exact(r, DOMAIN r.channels)

LEMMA GrowsNone ==
    ASSUME NEW st, Sound(st)
    PROVE  Grows(st, st, {})
BY DEF Grows

LEMMA GrowsComposes ==
    ASSUME NEW st, NEW r, NEW q, NEW A, NEW B, Grows(st, r, A), Grows(r, q, B)
    PROVE  Grows(st, q, A \cup B)
<1>1. DOMAIN q.channels \subseteq DOMAIN st.channels \cup q.touched
  BY DEF Grows
<1>2. q.ok => q.touched = st.touched \cup (A \cup B)
  BY DEF Grows
<1>3. q.ok /\ Exact(st, DOMAIN st.channels) => Exact(q, DOMAIN q.channels)
  BY DEF Grows
<1>4. q.hist \subseteq st.hist \cup {"repatched"}
  BY DEF Grows
<1>. QED  BY <1>1, <1>2, <1>3, <1>4 DEF Grows

LEMMA EntryIs ==
    ASSUME NEW st, Sound(st), NEW u \in DOMAIN st.channels
    PROVE  /\ u \in MixerUuids /\ st.channels[u] \in Entry
           /\ st.channels[u].uuid = u /\ st.channels[u].eid \in 1..Len(st.chans)
           /\ st.channels[u].name \in Names /\ st.channels[u].patch \in M!Patches
<1>1. u \in MixerUuids /\ st.channels[u] \in Entry
  BY FieldsAre DEF Sound, IsMap
<1>. QED  BY <1>1 DEF Sound, EntriesOK, Entry

LEMMA RepatchIs ==
    ASSUME NEW st \in MixState, EngineOK(st), NEW c, c.eid \in 1..Len(st.chans),
           st.chans[c.eid] # NoPort, NEW new \in M!Channel
    PROVE  LET r == M!Repatch(st, c, new)
           IN  \E q \in MixState :
                 /\ q.chans = st.chans /\ q.leaked = st.leaked /\ q.channels = st.channels
                 /\ q.defs = st.defs /\ q.touched = st.touched /\ q.ok = st.ok /\ EngineOK(q)
                 /\ st.hist \subseteq q.hist /\ q.hist \subseteq st.hist \cup {"repatched"}
                 /\ PortOnly(q, r, c.eid) /\ r.chans[c.eid].name = st.chans[c.eid].name
                 /\ r.ok /\ r.hist = {} => r.chans[c.eid].to = st.chans[c.eid].to
<1>. DEFINE r == M!Repatch(st, c, new)
            i == c.eid
            d == M!Disconnect(st, i, c.patch)
            e == [d EXCEPT !.hist = @ \cup {"repatched"}]
<1>1. Len(st.chans) \in Nat
  BY FieldsAre
<1>2. CASE ~st.ok \/ new.patch = c.patch
  <2>1. r = st
    BY <1>2 DEF M!Repatch
  <2>2. PortOnly(st, st, i)
    BY <1>1 DEF Engine, PortOnly
  <2>. QED  BY <2>1, <2>2
<1>3. CASE ~(~st.ok \/ new.patch = c.patch)
  <2>1. r = M!Connect(e, i, new.patch) /\ new.patch \in M!Patches
    BY <1>3 DEF M!Repatch, M!Channel
  <2>. DEFINE q == [st EXCEPT !.hist = @ \cup {"repatched"}]
  <2>. HIDE DEF d
  <2>2. PortOnly(st, d, i) /\ d.chans[i].name = st.chans[i].name /\ d.ok = st.ok
    BY DisconnectIs DEF d
  <2>3. d \in MixState /\ EngineOK(d) /\ d.hist = st.hist
    BY <2>2 DEF PortOnly, Engine
  <2>4. /\ q \in MixState /\ q.chans = st.chans /\ q.holes = st.holes /\ q.leaked = st.leaked
        /\ q.channels = st.channels /\ q.defs = st.defs /\ q.touched = st.touched
        /\ q.hist = st.hist \cup {"repatched"} /\ q.ok = st.ok
    BY DEF MixState, M!Happenings
  <2>5. /\ e \in MixState /\ e.chans = d.chans /\ e.holes = d.holes /\ e.leaked = d.leaked
        /\ e.channels = d.channels /\ e.defs = d.defs /\ e.touched = d.touched
        /\ e.hist = d.hist \cup {"repatched"} /\ e.ok = d.ok
    BY <2>3 DEF MixState, M!Happenings
  <2>. HIDE DEF q, e
  <2>6. EngineOK(q) /\ EngineOK(e)
    BY <2>3, <2>4, <2>5 DEF EngineOK
  <2>7. PortOnly(q, e, i)
    BY <2>2, <2>3, <2>4, <2>5, <2>6 DEF PortOnly, Engine
  <2>8. i \in 1..Len(e.chans) /\ e.chans[i] # NoPort
    BY <2>2, <2>5 DEF PortOnly
  <2>9. PortOnly(e, r, i) /\ r.chans[i].name = e.chans[i].name
    BY <2>1, <2>5, <2>6, <2>8, ConnectIs
  <2>10. PortOnly(q, r, i)
    BY <2>4, <2>7, <2>9, PortOnlyComposes
  <2>11. r.hist # {}
    BY <2>5, <2>9 DEF PortOnly, Engine
  <2>. QED  BY <2>2, <2>4, <2>5, <2>6, <2>9, <2>10, <2>11
<1>. QED  BY <1>2, <1>3


LEMMA FailGrows ==
    ASSUME NEW st, Sound(st), NEW r, Engine(st, r), ~r.ok, NEW U
    PROVE  Grows(st, r, U)
BY EngineSound DEF Grows, Engine

(* An entry that has another name. *)
LEMMA EntryRenamed ==
    ASSUME NEW st, Sound(st), NEW u \in DOMAIN st.channels, NEW name \in Names,
           NEW C, C = [st.channels EXCEPT ![u].name = name]
    PROVE  /\ C \in Maps /\ DOMAIN C = DOMAIN st.channels
           /\ \A v \in DOMAIN C : v # u => C[v] = st.channels[v]
           /\ C[u].name = name /\ C[u].uuid = u
           /\ C[u].eid = st.channels[u].eid /\ C[u].patch = st.channels[u].patch
<1>. DEFINE f == st.channels
            e == [f[u] EXCEPT !.name = name]
<1>1. IsMap(f)
  BY FieldsAre DEF Sound
<1>2. f[u] \in Entry /\ f[u].uuid = u
  BY EntryIs
<1>3. /\ e \in Entry /\ e.name = name /\ e.uuid = u /\ e.eid = f[u].eid /\ e.patch = f[u].patch
  BY <1>2 DEF Entry
<1>. HIDE DEF e
<1>4. C = [f EXCEPT ![u] = e]
  BY DEF e
<1>5. /\ DOMAIN C = DOMAIN f /\ C = [v \in DOMAIN f |-> IF v = u THEN e ELSE f[v]]
  BY <1>1, <1>4 DEF IsMap
<1>6. C[u] = e /\ \A v \in DOMAIN C : v # u => C[v] = f[v]
  BY <1>5
<1>7. IsMap(C)
  BY <1>1, <1>3, <1>5, <1>6 DEF IsMap
<1>. QED  BY <1>3, <1>5, <1>6, <1>7, MapsAre

LEMMA UpdateGrows ==
    ASSUME NEW st, Sound(st), st.ok, NEW new \in M!Channel, new.uuid \in DOMAIN st.channels
    PROVE  Grows(st, M!Update(st, new), {new.uuid})
<1>. DEFINE u == new.uuid
            c == st.channels[u]
            i == c.eid
            renamed == IF new.name = c.name THEN st ELSE M!SetShortName(st, i, new.name)
            known == IF renamed.ok THEN [renamed EXCEPT !.channels[u].name = new.name] ELSE renamed
            rep == M!Repatch(known, c, new)
            r == [rep EXCEPT !.touched = @ \cup {u}]
<1>1. st \in MixState /\ EngineOK(st) /\ Len(st.chans) \in Nat /\ DOMAIN st.chans = 1..Len(st.chans)
  BY FieldsAre DEF Sound
<1>2. u \in MixerUuids /\ i \in 1..Len(st.chans) /\ c.uuid = u /\ new.name \in Names
  BY EntryIs DEF M!Channel
<1>3. CASE ~M!Live(st, i)
  <2>1. M!Update(st, new) = M!Fail(st)
    BY <1>3 DEF M!Update
  <2>. QED  BY <1>1, <2>1, FailIs, FailGrows
<1>4. CASE M!Live(st, i)
  <2>1. M!Update(st, new) = r
    BY <1>4 DEF M!Update
  <2>2. st.chans[i] # NoPort
    BY <1>4 DEF M!Live
  <2>. HIDE DEF i
  <2>3. /\ PortOnly(st, renamed, i) /\ renamed.chans[i].to = st.chans[i].to
        /\ renamed.ok /\ st.chans[i].name = c.name => renamed.chans[i].name = new.name
    <3>1. CASE new.name = c.name
      <4>1. PortOnly(st, st, i)
        BY <1>1, <2>2 DEF PortOnly, Engine
      <4>. QED  BY <3>1, <4>1
    <3>2. CASE new.name # c.name
      BY <1>1, <1>2, <2>2, <3>2, SetShortNameIs
    <3>. QED  BY <3>1, <3>2
  <2>. DEFINE C == IF renamed.ok THEN [st.channels EXCEPT ![u].name = new.name] ELSE st.channels
  <2>4. /\ C \in Maps /\ DOMAIN C = DOMAIN st.channels
        /\ \A v \in DOMAIN C : v # u => C[v] = st.channels[v]
        /\ C[u].uuid = u /\ C[u].eid = i /\ C[u].patch = c.patch
        /\ renamed.ok => C[u].name = new.name
    <3>1. CASE renamed.ok
      BY <1>2, <3>1, EntryRenamed DEF i
    <3>2. CASE ~renamed.ok
      BY <1>1, <1>2, <3>2, FieldsAre DEF i
    <3>. QED  BY <3>1, <3>2
  <2>. HIDE DEF renamed
  <2>5. renamed \in MixState /\ renamed.channels = st.channels /\ Len(renamed.chans) = Len(st.chans)
        /\ EngineOK(renamed)
    BY <2>3 DEF PortOnly, Engine
  <2>6. /\ known \in MixState /\ known.chans = renamed.chans /\ known.holes = renamed.holes
        /\ known.leaked = renamed.leaked /\ known.channels = C
        /\ known.defs = renamed.defs /\ known.touched = renamed.touched
        /\ known.hist = renamed.hist /\ known.ok = renamed.ok
    <3>1. CASE renamed.ok
      <4>1. C = [st.channels EXCEPT ![u].name = new.name]
        BY <3>1
      <4>2. known = [renamed EXCEPT !.channels = C]
        BY <2>5, <3>1, <4>1
      <4>. HIDE DEF C, known
      <4>. QED  BY <2>4, <2>5, <4>2 DEF MixState
    <3>2. CASE ~renamed.ok
      BY <2>5, <3>2
    <3>. QED  BY <3>1, <3>2
  <2>. HIDE DEF C, known
  <2>7. /\ EngineOK(known) /\ i \in 1..Len(known.chans) /\ known.chans[i] # NoPort
    BY <1>2, <2>3, <2>5, <2>6 DEF EngineOK, PortOnly, i
  <2>8. PICK q \in MixState :
          /\ q.chans = known.chans /\ q.leaked = known.leaked /\ q.channels = known.channels
          /\ q.defs = known.defs /\ q.touched = known.touched /\ q.ok = known.ok /\ EngineOK(q)
          /\ known.hist \subseteq q.hist /\ q.hist \subseteq known.hist \cup {"repatched"}
          /\ PortOnly(q, rep, i) /\ rep.chans[i].name = known.chans[i].name
          /\ rep.ok /\ rep.hist = {} => rep.chans[i].to = known.chans[i].to
    <3>1. known \in MixState /\ EngineOK(known) /\ c.eid \in 1..Len(known.chans)
      BY <2>6, <2>7 DEF i
    <3>2. known.chans[c.eid] # NoPort
      BY <2>7 DEF i
    <3>. QED  BY <3>1, <3>2, RepatchIs, Zenon DEF i
  <2>. HIDE DEF rep
  <2>9. /\ rep \in MixState /\ EngineOK(rep) /\ Len(rep.chans) = Len(st.chans)
        /\ rep.leaked = st.leaked /\ rep.channels = C /\ rep.defs = st.defs
        /\ rep.touched = st.touched
        /\ rep.ok => renamed.ok
        /\ st.hist \subseteq rep.hist /\ rep.hist \subseteq st.hist \cup {"repatched"}
    BY <2>3, <2>5, <2>6, <2>8 DEF PortOnly, Engine
  <2>10. /\ rep.chans[i] # NoPort
         /\ \A j \in 1..Len(st.chans) : j # i => rep.chans[j] = st.chans[j]
         /\ rep.ok /\ st.chans[i].name = c.name => rep.chans[i].name = new.name
         /\ rep.ok /\ rep.hist = {} => rep.chans[i].to = st.chans[i].to
    BY <2>3, <2>5, <2>6, <2>8, <2>9 DEF PortOnly
  <2>11. /\ r \in MixState /\ r.chans = rep.chans /\ r.holes = rep.holes /\ r.leaked = rep.leaked
         /\ r.channels = rep.channels /\ r.defs = rep.defs /\ r.touched = rep.touched \cup {u}
         /\ r.hist = rep.hist /\ r.ok = rep.ok
    BY <1>2, <2>9 DEF MixState
  <2>. HIDE DEF r
  <2>12. Sound(r)
    <3>1. EngineOK(r)
      BY <2>9, <2>11 DEF EngineOK
    <3>2. EntriesOK(r)
      BY <1>2, <2>4, <2>9, <2>11 DEF EntriesOK, Sound, i
    <3>3. r.touched \subseteq DOMAIN r.channels /\ IsFiniteSet(DOMAIN r.channels)
      BY <2>4, <2>9, <2>11 DEF Sound
    <3>. QED  BY <2>11, <3>1, <3>2, <3>3 DEF Sound
  <2>13. ASSUME r.ok, Exact(st, DOMAIN st.channels) PROVE Exact(r, DOMAIN r.channels)
    <3>. DEFINE D == DOMAIN st.channels
    <3>1. DOMAIN r.channels = D /\ r.channels = C /\ r.leaked = {} /\ renamed.ok /\ rep.ok
      BY <2>4, <2>9, <2>11, <2>13 DEF Exact
    <3>2. \A v \in D : C[v].eid = st.channels[v].eid
      BY <2>4 DEF i
    <3>3. ASSUME NEW v \in D PROVE OfChannel(r, C[v])
      <4>1. OfChannel(st, st.channels[v]) /\ (r.hist = {} => st.hist = {})
        BY <2>9, <2>11, <2>13 DEF Exact
      <4>2. CASE v = u
        <5>1. c.name = st.chans[i].name /\ (st.hist = {} => st.chans[i].to = {c.patch} \cap Sinks)
          <6>1. OfChannel(st, c)
            BY <4>1, <4>2
          <6>. HIDE DEF c
          <6>. QED  BY <6>1 DEF OfChannel, i
        <5>2. /\ r.chans[i] # NoPort /\ r.chans[i].name = new.name
              /\ r.hist = {} => r.chans[i].to = {c.patch} \cap Sinks
          BY <2>10, <2>11, <3>1, <4>1, <5>1
        <5>3. C[v].eid = i /\ C[v].name = new.name /\ C[v].patch = c.patch
          BY <2>4, <3>1, <4>2
        <5>. QED  BY <5>2, <5>3 DEF OfChannel
      <4>3. CASE v # u
        <5>1. C[v] = st.channels[v] /\ st.channels[v].eid \in 1..Len(st.chans)
          BY <2>4, <4>3, EntryIs
        <5>2. st.channels[v].eid # i
          BY <2>13, <4>3 DEF Exact, i
        <5>3. r.chans[C[v].eid] = st.chans[C[v].eid]
          BY <2>10, <2>11, <5>1, <5>2
        <5>. QED  BY <4>1, <5>1, <5>3 DEF OfChannel
      <4>. QED  BY <4>2, <4>3
    <3>4. ASSUME NEW j \in 1..Len(r.chans), r.chans[j] # NoPort
          PROVE  \E v \in D : C[v].eid = j
      <4>1. j \in 1..Len(st.chans)
        BY <2>9, <2>11
      <4>2. CASE j = i
        BY <2>4, <4>2
      <4>3. CASE j # i
        <5>1. st.chans[j] # NoPort
          BY <2>10, <2>11, <3>4, <4>1, <4>3
        <5>. QED  BY <2>13, <3>2, <4>1, <5>1 DEF Exact
      <4>. QED  BY <4>2, <4>3
    <3>5. \A v, w \in D : C[v].eid = C[w].eid => v = w
      BY <2>13, <3>2 DEF Exact
    <3>. QED  BY <3>1, <3>3, <3>4, <3>5 DEF Exact
  <2>. QED  BY <2>1, <2>4, <2>9, <2>11, <2>12, <2>13 DEF Grows
<1>. QED  BY <1>3, <1>4


LEMMA AddGrows ==
    ASSUME NEW st, Sound(st), st.ok, NEW new \in M!Channel, new.uuid \notin DOMAIN st.channels
    PROVE  Grows(st, M!Add(st, new), {new.uuid})
<1>. DEFINE u == new.uuid
            i == M!NewIndex(st)
            fresh == M!NewChannel(st, new.name)
            con == IF fresh.ok THEN M!Connect(fresh, i, new.patch) ELSE fresh
            entry == [uuid |-> u, name |-> new.name, patch |-> new.patch, eid |-> i]
            f == st.channels
            C == [v \in DOMAIN f \cup {u} |-> IF v = u THEN entry ELSE f[v]]
            r == [con EXCEPT !.channels = [v \in DOMAIN @ \cup {u} |-> IF v = u THEN entry ELSE @[v]],
                             !.touched = @ \cup {u}]
<1>1. /\ st \in MixState /\ EngineOK(st) /\ Len(st.chans) \in Nat
      /\ u \in MixerUuids /\ new.name \in Names /\ new.patch \in M!Patches
  BY FieldsAre DEF Sound, M!Channel
<1>2. M!Add(st, new) = IF con.ok THEN r ELSE con
  BY DEF M!Add, M!IndexOf
<1>3. Engine(st, fresh) /\ (fresh.ok => PortAt(st, fresh, i, new.name))
  BY <1>1, NewChannelIs
<1>. HIDE DEF fresh
<1>4. fresh.ok =>
        /\ fresh \in MixState /\ EngineOK(fresh) /\ i \in 1..Len(fresh.chans)
        /\ fresh.chans[i] # NoPort /\ fresh.chans[i].name = new.name /\ fresh.chans[i].to = {}
  <2>. DEFINE port == [name |-> new.name, to |-> {}]
  <2>1. port \in M!Port /\ port.name = new.name /\ port.to = {}
    BY <1>1 DEF M!Port
  <2>. HIDE DEF port
  <2>2. fresh \in MixState /\ EngineOK(fresh)
    BY <1>3 DEF Engine
  <2>3. fresh.ok => i \in 1..Len(fresh.chans) /\ fresh.chans[i] = port
    BY <1>3 DEF PortAt, port
  <2>. HIDE DEF i
  <2>. QED  BY <2>1, <2>2, <2>3, PortsApart
<1>5. CASE ~con.ok
  <2>1. Engine(st, con)
    <3>1. CASE ~fresh.ok
      BY <1>3, <3>1
    <3>2. CASE fresh.ok
      <4>1. PortOnly(fresh, con, i)
        BY <1>1, <1>4, <3>2, ConnectIs
      <4>. QED  BY <1>1, <1>3, <4>1, EngineComposes DEF PortOnly
    <3>. QED  BY <3>1, <3>2
  <2>. QED  BY <1>2, <1>5, <2>1, FailGrows
<1>6. CASE con.ok
  <2>1. fresh.ok /\ PortAt(st, fresh, i, new.name)
    BY <1>3, <1>6
  <2>2. /\ fresh \in MixState /\ EngineOK(fresh) /\ i \in 1..Len(fresh.chans)
        /\ fresh.chans[i] # NoPort /\ fresh.chans[i].name = new.name /\ fresh.chans[i].to = {}
    BY <1>4, <2>1
  <2>3. /\ PortOnly(fresh, con, i) /\ con.chans[i].name = new.name
        /\ con.chans[i].to = {new.patch} \cap Sinks
    <3>1. con = M!Connect(fresh, i, new.patch)
      BY <2>1
    <3>. HIDE DEF con
    <3>. QED  BY <1>1, <1>6, <2>2, <3>1, ConnectIs
  <2>. HIDE DEF con
  <2>4. Engine(st, con)
    BY <1>1, <1>3, <2>3, EngineComposes DEF PortOnly
  <2>5. /\ con \in MixState /\ con.channels = f /\ con.defs = st.defs /\ con.touched = st.touched
        /\ con.hist = st.hist /\ con.leaked = st.leaked /\ EngineOK(con)
        /\ Len(con.chans) = Len(fresh.chans) /\ Len(con.chans) \in Nat
        /\ Len(st.chans) <= Len(con.chans)
    BY <2>1, <2>3, <2>4, FieldsAre DEF Engine, PortOnly, PortAt
  <2>6. i \in Nat /\ i \in 1..Len(con.chans)
    BY <2>2, <2>5
  <2>7. entry \in Entry
    BY <1>1, <2>6 DEF Entry
  <2>8. C \in Maps
    <3>1. IsMap(f)
      BY <1>1, FieldsAre
    <3>. HIDE DEF entry, f
    <3>2. IsMap(C)
      BY <1>1, <2>7, <3>1 DEF IsMap
    <3>. QED  BY <3>2, MapsAre
  <2>9. r = [con EXCEPT !.channels = C, !.touched = @ \cup {u}]
    BY <2>5
  <2>. HIDE DEF r, C
  <2>10. /\ r \in MixState /\ r.chans = con.chans /\ r.holes = con.holes /\ r.leaked = con.leaked
         /\ r.channels = C /\ r.defs = con.defs /\ r.touched = con.touched \cup {u}
         /\ r.hist = con.hist /\ r.ok = con.ok
    BY <1>1, <2>5, <2>8, <2>9 DEF MixState
  <2>11. /\ DOMAIN C = DOMAIN f \cup {u} /\ C[u] = entry
         /\ \A v \in DOMAIN f : v # u /\ C[v] = f[v]
    BY DEF C
  <2>12. Sound(r)
    <3>1. EngineOK(r)
      BY <2>5, <2>10 DEF EngineOK
    <3>2. ASSUME NEW v \in DOMAIN C PROVE C[v].uuid = v /\ C[v].eid \in 1..Len(r.chans)
      <4>1. CASE v = u
        BY <2>6, <2>10, <2>11, <4>1
      <4>2. CASE v # u
        <5>1. v \in DOMAIN f /\ C[v] = f[v] /\ f[v].uuid = v /\ f[v].eid \in 1..Len(st.chans)
          BY <2>11, <4>2, EntryIs
        <5>. QED  BY <1>1, <2>5, <2>10, <5>1
      <4>. QED  BY <4>1, <4>2
    <3>3. r.touched \subseteq DOMAIN r.channels
      BY <2>5, <2>10, <2>11 DEF Sound
    <3>4. IsFiniteSet(DOMAIN r.channels)
      <4>1. IsFiniteSet(DOMAIN f)
        BY DEF Sound
      <4>. HIDE DEF f
      <4>. QED  BY <2>10, <2>11, <4>1, FS_AddElement
    <3>. QED  BY <2>10, <3>1, <3>2, <3>3, <3>4 DEF Sound, EntriesOK
  <2>13. ASSUME Exact(st, DOMAIN f) PROVE Exact(r, DOMAIN C)
    <3>1. ASSUME NEW v \in DOMAIN f
          PROVE  /\ f[v].eid \in 1..Len(st.chans) /\ f[v].eid # i
                 /\ r.chans[f[v].eid] = st.chans[f[v].eid] /\ OfChannel(st, f[v])
      <4>1. f[v].eid \in 1..Len(st.chans) /\ OfChannel(st, f[v])
        BY <2>13, EntryIs DEF Exact
      <4>2. f[v].eid # i
        BY <2>1, <4>1 DEF PortAt, OfChannel
      <4>3. f[v].eid \in 1..Len(fresh.chans)
        BY <1>1, <2>5, <4>1
      <4>4. fresh.chans[f[v].eid] = st.chans[f[v].eid]
        BY <2>1, <4>2, <4>3 DEF PortAt
      <4>5. con.chans[f[v].eid] = fresh.chans[f[v].eid]
        BY <2>3, <4>2, <4>3 DEF PortOnly
      <4>. QED  BY <2>10, <4>1, <4>2, <4>4, <4>5
    <3>2. ASSUME NEW v \in DOMAIN C PROVE OfChannel(r, C[v])
      <4>1. CASE v = u
        BY <2>3, <2>10, <2>11, <4>1 DEF OfChannel, PortOnly
      <4>2. CASE v # u
        BY <2>5, <2>10, <2>11, <3>1, <4>2 DEF OfChannel
      <4>. QED  BY <4>1, <4>2
    <3>3. ASSUME NEW j \in 1..Len(r.chans), r.chans[j] # NoPort
          PROVE  \E v \in DOMAIN C : C[v].eid = j
      <4>1. CASE j = i
        BY <2>11, <4>1
      <4>2. CASE j # i
        <5>1. j \in 1..Len(fresh.chans) /\ r.chans[j] = fresh.chans[j]
          BY <2>3, <2>5, <2>10, <4>2 DEF PortOnly
        <5>2. j \in 1..Len(st.chans) /\ fresh.chans[j] = st.chans[j]
          BY <2>1, <4>2, <5>1 DEF PortAt
        <5>3. PICK v \in DOMAIN f : f[v].eid = j
          BY <2>13, <3>3, <5>1, <5>2 DEF Exact
        <5>. QED  BY <2>11, <5>3
      <4>. QED  BY <4>1, <4>2
    <3>4. ASSUME NEW v \in DOMAIN C, NEW w \in DOMAIN C, C[v].eid = C[w].eid PROVE v = w
      <4>1. \A x \in DOMAIN C : x = u \/ x \in DOMAIN f
        BY <2>11
      <4>2. C[u].eid = i
        BY <2>11
      <4>3. \A x \in DOMAIN f : C[x].eid = f[x].eid /\ f[x].eid # i
        BY <2>11, <3>1
      <4>4. \A x, y \in DOMAIN f : f[x].eid = f[y].eid => x = y
        BY <2>13 DEF Exact
      <4>. QED  BY <3>4, <4>1, <4>2, <4>3, <4>4
    <3>5. r.leaked = {}
      BY <2>5, <2>10, <2>13 DEF Exact
    <3>. QED  BY <2>10, <3>2, <3>3, <3>4, <3>5 DEF Exact
  <2>. QED  BY <1>2, <1>6, <2>4, <2>5, <2>10, <2>11, <2>12, <2>13 DEF Grows
<1>. QED  BY <1>5, <1>6


LEMMA SecondGrows ==
    ASSUME NEW st, Sound(st), NEW conf \in M!Conf
    PROVE  Grows(st, M!SecondPass(st, conf), M!UuidsOf(conf))
<1>. DEFINE s == conf.channels
            n == Len(s)
            Upto(k) == {s[j].uuid : j \in 1..k}
<1>1. n \in Nat /\ DOMAIN s = 1..n /\ \A k \in 1..n : s[k] \in M!Channel
  <2>1. s \in Seq(M!Channel)
    BY DEF M!Conf
  <2>. QED  BY <2>1, LenProperties, ElementOfSeq
<1>2. M!UuidsOf(conf) = Upto(n)
  BY <1>1 DEF M!UuidsOf
<1>. HIDE DEF n
<1>0. PICK run : SecondRun(run, st, s, n, conf)
  BY <1>1, SecondOneByOne
<1>3. /\ run[0] = st
      /\ \A k \in 1..n : run[k] = M!UpdateOrAdd(run[k - 1], s[k])
      /\ M!SecondPass(st, conf) = run[n]
  BY <1>0 DEF SecondRun
<1>. DEFINE T == {k \in Nat : k <= n => Grows(st, run[k], Upto(k))}
<1>4. 0 \in T
  <2>1. Upto(0) = {}
    OBVIOUS
  <2>2. Grows(st, run[0], {})
    BY <1>3, GrowsNone
  <2>. QED  BY <2>1, <2>2
<1>5. ASSUME NEW k \in Nat, k \in T PROVE k + 1 \in T
  <2>1. SUFFICES ASSUME k + 1 <= n PROVE Grows(st, run[k + 1], Upto(k + 1))
    OBVIOUS
  <2>2. Grows(st, run[k], Upto(k))
    BY <1>1, <1>5, <2>1
  <2>3. k + 1 \in 1..n /\ k + 1 - 1 = k
    BY <1>1, <2>1
  <2>. DEFINE new == s[k + 1]
  <2>4. run[k + 1] = M!UpdateOrAdd(run[k], new) /\ new \in M!Channel
    BY <1>1, <1>3, <2>3
  <2>5. Upto(k + 1) = Upto(k) \cup {new.uuid}
    <3>1. \A j \in 1..(k + 1) : j = k + 1 \/ j \in 1..k
      OBVIOUS
    <3>2. \A j \in 1..k : j \in 1..(k + 1)
      OBVIOUS
    <3>3. k + 1 \in 1..(k + 1)
      OBVIOUS
    <3>. QED  BY <3>1, <3>2, <3>3
  <2>. HIDE DEF new, Upto
  <2>6. Sound(run[k])
    BY <2>2 DEF Grows
  <2>7. CASE ~run[k].ok
    <3>1. run[k + 1] = run[k]
      BY <2>4, <2>7 DEF M!UpdateOrAdd
    <3>. QED  BY <2>2, <2>7, <3>1 DEF Grows
  <2>8. CASE run[k].ok
    <3>1. Grows(run[k], run[k + 1], {new.uuid})
      <4>1. CASE new.uuid \in DOMAIN run[k].channels
        BY <2>4, <2>6, <2>8, <4>1, UpdateGrows DEF M!UpdateOrAdd
      <4>2. CASE new.uuid \notin DOMAIN run[k].channels
        BY <2>4, <2>6, <2>8, <4>2, AddGrows DEF M!UpdateOrAdd
      <4>. QED  BY <4>1, <4>2
    <3>. QED  BY <2>2, <2>5, <3>1, GrowsComposes
  <2>. QED  BY <2>7, <2>8
<1>6. Nat \subseteq T
  <2>. HIDE DEF T
  <2>. QED  BY <1>4, <1>5, AllNaturals
<1>7. Grows(st, run[n], Upto(n))
  <2>. HIDE DEF Upto
  <2>. QED  BY <1>1, <1>6
<1>. QED  BY <1>2, <1>3, <1>7

-----------------------------------------------------------------------------
(* The third pass *)

(* Each index holds one channel of the map in the order of iteration. *)
IsOrder(s, n, S) ==
    /\ DOMAIN s = 1..n /\ \A k \in 1..n : s[k] \in S
    /\ \A u \in S : \E k \in 1..n : s[k] = u
    /\ \A j, k \in 1..n : s[j] = s[k] => j = k

LEMMA OrdersAre ==
    ASSUME NEW S, IsFiniteSet(S), NEW s \in M!SetToSeqs(S)
    PROVE  \E n \in Nat : IsOrder(s, n, S)
<1>. DEFINE n == Cardinality(S)
<1>1. M!Cardinality(S) = n
  BY DEF M!Cardinality, Cardinality
<1>2. n \in Nat
  BY FS_CardinalityType
<1>3. s \in [1..n -> S] /\ \A i, j \in 1..n : i # j => s[i] # s[j]
  BY <1>1 DEF M!SetToSeqs
<1>. HIDE DEF n
<1>4. s \in Injection(1..n, S)
  BY <1>3 DEF Injection, IsInjective
<1>5. Cardinality(1..n) = n
  <2>1. 1 \in Int /\ n \in Int
    BY <1>2
  <2>2. Cardinality(1..n) = IF 1 > n THEN 0 ELSE n - 1 + 1
    BY <2>1, FS_Interval
  <2>. QED  BY <1>2, <2>2
<1>6. s \in Surjection(1..n, S)
  BY <1>4, <1>5, FS_Injection DEF n
<1>. QED  BY <1>2, <1>3, <1>6 DEF IsOrder, Surjection

(* The first k of the order are gone, but for those that were touched. *)
Remaining(st, s, k) == DOMAIN st.channels \ {u \in {s[j] : j \in 1..k} : u \notin st.touched}
Removes(st, r, D) ==
    /\ Sound(r) /\ r.channels = st.channels /\ r.defs = st.defs /\ r.touched = st.touched
    /\ r.hist = st.hist /\ (r.ok => st.ok)
    /\ r.ok /\ Exact(st, DOMAIN st.channels) => Exact(r, D)

LEMMA RemoveUntouchedIs ==
    ASSUME NEW st, Sound(st), NEW D \in SUBSET DOMAIN st.channels, NEW u \in D,
           NEW E, E = IF u \in st.touched THEN D ELSE D \ {u}
    PROVE  LET r == M!RemoveUntouched(st, u)
           IN  /\ Engine(st, r) /\ (r.ok /\ Exact(st, D) => Exact(r, E))
<1>. DEFINE r == M!RemoveUntouched(st, u)
            i == st.channels[u].eid
<1>1. st \in MixState /\ EngineOK(st) /\ Len(st.chans) \in Nat
  BY FieldsAre DEF Sound
<1>2. CASE ~(st.ok /\ u \notin st.touched)
  <2>1. r = st
    BY <1>2 DEF M!RemoveUntouched
  <2>. QED  BY <1>1, <1>2, <2>1 DEF Engine
<1>3. CASE st.ok /\ u \notin st.touched
  <2>1. r = M!RemoveChannel(st, i) /\ E = D \ {u}
    BY <1>3 DEF M!RemoveUntouched
  <2>2. Engine(st, r) /\ (r.ok => PortGone(st, r, i))
    BY <1>1, <1>3, <2>1, RemoveIs
  <2>. HIDE DEF r
  <2>3. ASSUME r.ok, Exact(st, D) PROVE Exact(r, E)
    <3>1. /\ Len(r.chans) = Len(st.chans) /\ r.leaked = {} /\ r.chans[i] = NoPort
          /\ \A j \in 1..Len(st.chans) : j # i => r.chans[j] = st.chans[j]
          /\ r.channels = st.channels /\ r.hist = st.hist
      BY <2>2, <2>3 DEF PortGone, Engine, Exact
    <3>2. ASSUME NEW v \in E PROVE OfChannel(r, r.channels[v])
      <4>1. v \in D /\ v # u
        BY <2>1
      <4>2. st.channels[v].eid # i /\ OfChannel(st, st.channels[v])
        BY <2>3, <4>1 DEF Exact
      <4>3. st.channels[v].eid \in 1..Len(st.chans)
        BY <4>1, EntryIs
      <4>. QED  BY <3>1, <4>2, <4>3 DEF OfChannel
    <3>3. ASSUME NEW j \in 1..Len(r.chans), r.chans[j] # NoPort
          PROVE  \E v \in E : r.channels[v].eid = j
      <4>1. j # i /\ st.chans[j] # NoPort /\ j \in 1..Len(st.chans)
        BY <3>1, <3>3
      <4>2. PICK v \in D : st.channels[v].eid = j
        BY <2>3, <4>1 DEF Exact
      <4>3. v # u
        BY <4>1, <4>2
      <4>. QED  BY <2>1, <3>1, <4>2, <4>3
    <3>4. \A v, w \in E : r.channels[v].eid = r.channels[w].eid => v = w
      BY <2>1, <2>3, <3>1 DEF Exact
    <3>. QED  BY <3>1, <3>2, <3>3, <3>4 DEF Exact
  <2>. QED  BY <2>2, <2>3 DEF r
<1>. QED  BY <1>2, <1>3

LEMMA RestRemoves ==
    ASSUME NEW st, Sound(st), NEW S \in SUBSET DOMAIN st.channels, NEW n \in Nat, NEW s,
           IsOrder(s, n, S)
    PROVE  Removes(st, M!RemoveRest(st, s), Remaining(st, s, n))
<1>0. PICK run : RestRun(run, st, s, n)
  BY RestOneByOne DEF IsOrder
<1>1. /\ run[0] = st
      /\ \A k \in 1..n : run[k] = M!RemoveUntouched(run[k - 1], s[k])
      /\ M!RemoveRest(st, s) = run[n]
  BY <1>0 DEF RestRun
<1>. DEFINE T == {k \in Nat : k <= n => Removes(st, run[k], Remaining(st, s, k))}
<1>2. 0 \in T
  <2>1. Remaining(st, s, 0) = DOMAIN st.channels
    BY DEF Remaining
  <2>. QED  BY <1>1, <2>1 DEF Removes
<1>3. ASSUME NEW k \in Nat, k \in T PROVE k + 1 \in T
  <2>1. SUFFICES ASSUME k + 1 <= n PROVE Removes(st, run[k + 1], Remaining(st, s, k + 1))
    OBVIOUS
  <2>2. Removes(st, run[k], Remaining(st, s, k))
    BY <1>3, <2>1
  <2>3. k + 1 \in 1..n /\ k + 1 - 1 = k
    BY <2>1
  <2>. DEFINE u == s[k + 1]
              D == Remaining(st, s, k)
              E == Remaining(st, s, k + 1)
  <2>4. run[k + 1] = M!RemoveUntouched(run[k], u) /\ u \in DOMAIN st.channels
    BY <1>1, <2>3 DEF IsOrder
  <2>5. \A j \in 1..k : s[j] # u
    <3>1. \A j \in 1..k : j \in 1..n /\ j # k + 1
      BY <2>1
    <3>. QED  BY <2>3, <3>1 DEF IsOrder
  <2>6. u \in D /\ D \in SUBSET DOMAIN st.channels
    BY <2>4, <2>5 DEF Remaining
  <2>7. E = IF u \in st.touched THEN D ELSE D \ {u}
    <3>1. {s[j] : j \in 1..(k + 1)} = {s[j] : j \in 1..k} \cup {u}
      <4>1. \A j \in 1..(k + 1) : j = k + 1 \/ j \in 1..k
        OBVIOUS
      <4>2. \A j \in 1..k : j \in 1..(k + 1)
        OBVIOUS
      <4>3. k + 1 \in 1..(k + 1)
        OBVIOUS
      <4>. QED  BY <4>1, <4>2, <4>3
    <3>. HIDE DEF u
    <3>. QED  BY <3>1 DEF Remaining
  <2>. HIDE DEF u, D, E
  <2>8. Sound(run[k]) /\ run[k].channels = st.channels /\ run[k].touched = st.touched
    BY <2>2 DEF Removes
  <2>9. Engine(run[k], run[k + 1]) /\ (run[k + 1].ok /\ Exact(run[k], D) => Exact(run[k + 1], E))
    BY <2>4, <2>6, <2>7, <2>8, RemoveUntouchedIs
  <2>10. Sound(run[k + 1])
    BY <2>8, <2>9, EngineSound
  <2>. QED  BY <2>2, <2>9, <2>10 DEF Removes, Engine, D, E
<1>4. Nat \subseteq T
  <2>. HIDE DEF T
  <2>. QED  BY <1>2, <1>3, AllNaturals
<1>. QED  BY <1>1, <1>4

-----------------------------------------------------------------------------
(* The mixer: the inductive invariant *)

MixTypes ==
    /\ session \in DOMAIN Defaults /\ (saved = NoConf \/ saved \in M!Conf)
    /\ asked \subseteq MixerUuids /\ answer \in {"Ok", "Err"} /\ applied \in 0..MaxApplied
MixExact == hist \subseteq {"repatched"} => Exact(M!Context, DOMAIN channels)
MixInv == MixTypes /\ Sound(M!Context) /\ MixExact /\ M!DefsExist /\ M!AppliedIsAsked

(* What is sound stays so when the next configuration is taken up. *)
LEMMA TakenUp ==
    ASSUME NEW st, Sound(st), NEW h, h \subseteq M!Happenings, NEW r,
           r = [chans |-> st.chans, holes |-> st.holes, leaked |-> st.leaked,
                channels |-> st.channels, defs |-> st.defs, touched |-> {}, hist |-> h, ok |-> TRUE]
    PROVE  /\ Sound(r)
           /\ h = st.hist => \A D : Exact(st, D) => Exact(r, D)
<1>1. /\ r.chans = st.chans /\ r.holes = st.holes /\ r.leaked = st.leaked
      /\ r.channels = st.channels /\ r.defs = st.defs /\ r.touched = {} /\ r.hist = h /\ r.ok
  OBVIOUS
<1>2. r \in MixState
  BY DEF Sound, MixState
<1>3. Sound(r)
  BY <1>1, <1>2 DEF Sound, EngineOK, EntriesOK
<1>4. ASSUME h = st.hist, NEW D, Exact(st, D) PROVE Exact(r, D)
  BY <1>1, <1>4 DEF Exact, OfChannel
<1>. QED  BY <1>3, <1>4

(* What process_config makes of a mixer, in whatever order it goes         *)
(* through the map and wherever it stops.                                  *)
LEMMA OutcomeIs ==
    ASSUME NEW c, c = M!Context, Sound(c), c.touched = {}, c.ok, c.defs \subseteq DOMAIN c.channels,
           NEW conf \in M!Conf, NEW st \in M!Outcomes(conf)
    PROVE  /\ Sound(st) /\ st.defs \subseteq DOMAIN st.channels /\ c.hist \subseteq st.hist
           /\ st.ok /\ st.hist \subseteq {"repatched"} /\ Exact(c, DOMAIN c.channels)
                => Exact(st, DOMAIN st.channels)
           /\ st.ok /\ "replaced" \notin st.hist => DOMAIN st.channels = M!UuidsOf(conf)
<1>. DEFINE S == DOMAIN c.channels
<1>1. c.channels = channels
  BY DEF M!Context
<1>2. PICK seq \in M!SetToSeqs(S) :
        st = LET second == M!SecondPass(M!FirstPass(c, seq, conf), conf)
                 third == M!RemoveRest([second EXCEPT !.defs = M!DefsKept(second, conf)], seq)
             IN IF second.ok THEN [third EXCEPT !.channels = M!Retained(third)] ELSE second
  BY <1>1, Zenon DEF M!Outcomes
<1>. DEFINE first == M!FirstPass(c, seq, conf)
            second == M!SecondPass(first, conf)
            kept == [second EXCEPT !.defs = M!DefsKept(second, conf)]
            third == M!RemoveRest(kept, seq)
            last == [third EXCEPT !.channels = M!Retained(third)]
<1>3. st = IF second.ok THEN last ELSE second
  BY <1>2
<1>4. IsFiniteSet(S)
  BY DEF Sound
<1>5. PICK n \in Nat : IsOrder(seq, n, S)
  BY <1>4, OrdersAre
<1>6. Shrinks(c, first)
  BY <1>5, FirstShrinks DEF IsOrder
<1>. HIDE DEF first
<1>7. Sound(first) /\ Grows(first, second, M!UuidsOf(conf))
  BY <1>6, SecondGrows DEF Shrinks
<1>. HIDE DEF second
<1>8. /\ Sound(second) /\ second \in MixState /\ second.defs = c.defs
      /\ S \subseteq DOMAIN second.channels /\ DOMAIN second.channels \subseteq S \cup second.touched
      /\ c.hist \subseteq second.hist
  BY <1>6, <1>7 DEF Shrinks, Grows, Sound
<1>9. second.hist \subseteq {"repatched"} => first = c
  BY <1>6, <1>7 DEF Shrinks, Grows
<1>10. "replaced" \notin second.hist => first = c
  BY <1>6, <1>7 DEF Shrinks, Grows
<1>11. CASE ~second.ok
  BY <1>3, <1>8, <1>11
<1>12. CASE second.ok
  <2>1. /\ kept \in MixState /\ kept.chans = second.chans /\ kept.holes = second.holes
        /\ kept.leaked = second.leaked /\ kept.channels = second.channels
        /\ kept.defs = conf.defs \cap second.touched /\ kept.touched = second.touched
        /\ kept.hist = second.hist /\ kept.ok = second.ok
    BY <1>8 DEF MixState, M!DefsKept
  <2>. HIDE DEF kept
  <2>2. Sound(kept) /\ (Exact(second, DOMAIN second.channels) => Exact(kept, DOMAIN kept.channels))
    BY <1>8, <2>1 DEF Sound, EngineOK, EntriesOK, Exact, OfChannel
  <2>3. Removes(kept, third, Remaining(kept, seq, n))
    BY <1>5, <1>8, <2>1, <2>2, RestRemoves
  <2>. HIDE DEF third
  <2>. DEFINE D == DOMAIN third.channels \cap third.touched
              C == [u \in D |-> third.channels[u]]
  <2>4. /\ third \in MixState /\ Sound(third) /\ third.channels = second.channels
        /\ third.touched = second.touched
        /\ third.defs = conf.defs \cap second.touched /\ third.hist = second.hist
        /\ D \subseteq DOMAIN third.channels /\ second.touched \subseteq DOMAIN third.channels
        /\ D = second.touched
    BY <1>8, <2>1, <2>3 DEF Removes, Sound
  <2>5. Remaining(kept, seq, n) = D
    <3>1. {seq[j] : j \in 1..n} = S
      BY <1>5 DEF IsOrder
    <3>. QED  BY <1>8, <2>1, <2>4, <3>1 DEF Remaining
  <2>6. last = IF third.ok THEN [third EXCEPT !.channels = C] ELSE third
    BY <2>4 DEF M!Retained, MixState
  <2>7. CASE ~third.ok
    <3>1. st = third
      BY <1>3, <1>12, <2>6, <2>7
    <3>. QED  BY <1>8, <2>4, <2>7, <3>1
  <2>8. CASE third.ok
    <3>1. C \in Maps /\ DOMAIN C = D /\ \A u \in D : C[u] = third.channels[u]
      <4>1. IsMap(third.channels)
        BY <2>4, FieldsAre
      <4>2. IsMap(C)
        BY <2>4, <4>1 DEF IsMap
      <4>. QED  BY <4>2, MapsAre
    <3>2. st = [third EXCEPT !.channels = C]
      BY <1>3, <1>12, <2>6, <2>8
    <3>. HIDE DEF C
    <3>3. /\ st \in MixState /\ st.chans = third.chans /\ st.holes = third.holes
          /\ st.leaked = third.leaked /\ st.channels = C /\ st.defs = third.defs
          /\ st.touched = third.touched /\ st.hist = third.hist /\ st.ok = third.ok
      BY <2>4, <3>1, <3>2 DEF MixState
    <3>4. Sound(st)
      <4>1. IsFiniteSet(D)
        BY <2>4, FS_Subset DEF Sound
      <4>. QED  BY <2>4, <3>1, <3>3, <4>1 DEF Sound, EngineOK, EntriesOK
    <3>5. ASSUME st.hist \subseteq {"repatched"}, Exact(c, S) PROVE Exact(st, D)
      <4>1. Exact(second, DOMAIN second.channels)
        BY <1>7, <1>9, <1>12, <2>4, <3>3, <3>5 DEF Grows
      <4>2. Exact(third, D)
        BY <2>1, <2>2, <2>3, <2>5, <2>8, <4>1 DEF Removes
      <4>. QED  BY <3>1, <3>3, <4>2 DEF Exact, OfChannel
    <3>6. ASSUME "replaced" \notin st.hist PROVE D = M!UuidsOf(conf)
      BY <1>7, <1>10, <1>12, <2>4, <3>3, <3>6 DEF Grows
    <3>. QED  BY <1>8, <2>4, <3>1, <3>3, <3>4, <3>5, <3>6
  <2>. QED  BY <2>7, <2>8
<1>. QED  BY <1>11, <1>12


LEMMA ProcessKeeps ==
    ASSUME MixInv, NEW conf \in M!Conf, M!ProcessConfig(conf), UNCHANGED <<session, saved>>
    PROVE  MixInv'
<1>. DEFINE c == M!Context
<1>1. PICK st \in M!Outcomes(conf) :
        /\ chans' = st.chans /\ holes' = st.holes /\ leaked' = st.leaked
        /\ channels' = st.channels /\ defs' = st.defs
        /\ answer' = IF st.ok THEN "Ok" ELSE "Err"
        /\ hist' = st.hist \cup (IF st.ok THEN {} ELSE {"failed"})
  BY DEF M!ProcessConfig
<1>2. PICK d : d = c
  OBVIOUS
<1>3. /\ Sound(d) /\ d.touched = {} /\ d.ok /\ d.hist = hist /\ d.defs \subseteq DOMAIN d.channels
      /\ DOMAIN d.channels = DOMAIN channels
      /\ hist \subseteq {"repatched"} => Exact(d, DOMAIN d.channels)
  BY <1>2 DEF MixInv, MixExact, M!DefsExist, M!Context
<1>4. /\ Sound(st) /\ st.defs \subseteq DOMAIN st.channels /\ hist \subseteq st.hist
      /\ st.ok /\ st.hist \subseteq {"repatched"} /\ Exact(d, DOMAIN d.channels)
           => Exact(st, DOMAIN st.channels)
      /\ st.ok /\ "replaced" \notin st.hist => DOMAIN st.channels = M!UuidsOf(conf)
  BY <1>2, <1>3, OutcomeIs
<1>. DEFINE h == st.hist \cup (IF st.ok THEN {} ELSE {"failed"})
            r == [chans |-> st.chans, holes |-> st.holes, leaked |-> st.leaked,
                  channels |-> st.channels, defs |-> st.defs, touched |-> {}, hist |-> h, ok |-> TRUE]
<1>5. M!Context' = r
  BY <1>1 DEF M!Context
<1>6. h \subseteq M!Happenings
  <2>1. st.hist \subseteq M!Happenings
    BY <1>4, FieldsAre DEF Sound
  <2>. QED  BY <2>1 DEF M!Happenings
<1>. HIDE DEF h
<1>7. Sound(r) /\ (h = st.hist => \A D : Exact(st, D) => Exact(r, D))
  BY <1>4, <1>6, TakenUp
<1>. HIDE DEF r
<1>8. ASSUME hist' \subseteq {"repatched"} PROVE Exact(M!Context', DOMAIN channels')
  <2>1. st.ok /\ h = st.hist /\ st.hist \subseteq {"repatched"}
    BY <1>1, <1>8 DEF h
  <2>2. Exact(st, DOMAIN st.channels)
    BY <1>3, <1>4, <2>1
  <2>. QED  BY <1>1, <1>5, <1>7, <2>1, <2>2
<1>9. M!DefsExist'
  BY <1>1, <1>4 DEF M!DefsExist
<1>10. M!AppliedIsAsked'
  <2>1. asked' = M!UuidsOf(conf)
    BY DEF M!ProcessConfig
  <2>. QED  BY <1>1, <1>4, <2>1 DEF M!AppliedIsAsked
<1>11. MixTypes'
  <2>1. asked' \subseteq MixerUuids
    <3>1. asked' = M!UuidsOf(conf) /\ conf.channels \in Seq(M!Channel)
      BY DEF M!ProcessConfig, M!Conf
    <3>2. DOMAIN conf.channels = 1..Len(conf.channels)
      BY <3>1, LenProperties
    <3>3. \A i \in DOMAIN conf.channels : conf.channels[i] \in M!Channel
      BY <3>1, <3>2, ElementOfSeq
    <3>. QED  BY <3>1, <3>3 DEF M!UuidsOf, M!Channel
  <2>2. applied' \in 0..MaxApplied
    <3>1. applied < MaxApplied /\ applied' = applied + 1 /\ applied \in 0..MaxApplied /\ MaxApplied \in Nat
      BY MixerConstants DEF M!ProcessConfig, MixInv, MixTypes, M!MixerAssumption
    <3>. QED  BY <3>1
  <2>. QED  BY <1>1, <2>1, <2>2 DEF MixInv, MixTypes
<1>. QED  BY <1>5, <1>7, <1>8, <1>9, <1>10, <1>11 DEF MixInv, MixExact

(* A session that starts: a channel for each port. *)
LEMMA SessionStarts ==
    ASSUME NEW s \in DOMAIN Defaults, NEW r,
           r = [chans |-> M!Started(s).chans, holes |-> <<>>, leaked |-> {},
                channels |-> M!Started(s).channels, defs |-> M!Started(s).defs,
                touched |-> {}, hist |-> {}, ok |-> TRUE]
    PROVE  /\ Sound(r) /\ Exact(r, DOMAIN r.channels)
           /\ r.defs = DOMAIN r.channels /\ r.defs \subseteq MixerUuids
<1>. DEFINE d == Defaults[s]
            n == Len(d)
            U == {d[i].uuid : i \in DOMAIN d}
            At(u) == CHOOSE i \in DOMAIN d : d[i].uuid = u
            cs == [i \in DOMAIN d |-> [name |-> d[i].name, to |-> {d[i].patch}]]
            f == [u \in U |-> [uuid |-> u, name |-> d[At(u)].name, patch |-> d[At(u)].patch, eid |-> At(u)]]
            Given == [uuid : MixerUuids, name : Names, patch : Sinks]
<1>1. /\ d \in Seq(Given) /\ n < MaxChans
      /\ \A i, j \in DOMAIN d : d[i].uuid = d[j].uuid \/ d[i].name = d[j].name => i = j
  BY MixerConstants DEF M!MixerAssumption, M!IsDefault
<1>2. n \in Nat /\ DOMAIN d = 1..n /\ \A i \in 1..n : d[i] \in Given
  BY <1>1, LenProperties, ElementOfSeq
<1>3. /\ r.chans = cs /\ r.holes = <<>> /\ r.leaked = {} /\ r.channels = f /\ r.defs = U
      /\ r.touched = {} /\ r.hist = {} /\ r.ok
  BY DEF M!Started
<1>. HIDE DEF d, n, Given, At
<1>4. \A i \in 1..n : d[i].uuid \in MixerUuids /\ d[i].name \in Names /\ d[i].patch \in Sinks
  BY <1>2 DEF Given
<1>5. /\ \A u \in U : At(u) \in 1..n /\ d[At(u)].uuid = u
      /\ \A i \in 1..n : d[i].uuid \in U /\ At(d[i].uuid) = i
  <2>1. \A u \in U : At(u) \in 1..n /\ d[At(u)].uuid = u
    BY <1>2 DEF At
  <2>2. \A i \in 1..n : d[i].uuid \in U
    BY <1>2
  <2>. QED  BY <1>1, <1>2, <2>1, <2>2
<1>6. \A i \in 1..n : cs[i] \in M!Port /\ cs[i].name = d[i].name /\ cs[i].to = {d[i].patch}
  BY <1>2, <1>4 DEF M!Port
<1>7. cs \in Seq(Ports) /\ Len(cs) = n /\ \A i \in 1..n : cs[i] \in Ports /\ cs[i] # NoPort
  <2>1. \A i \in 1..n : cs[i] \in Ports /\ cs[i] # NoPort
    BY <1>6, PortsApart
  <2>2. DOMAIN cs = 1..n /\ cs = [i \in 1..n |-> cs[i]]
    BY <1>2
  <2>. HIDE DEF cs
  <2>3. cs \in [1..n -> Ports]
    BY <2>1, <2>2
  <2>. QED  BY <1>2, <2>1, <2>3, SeqDef, LenProperties
<1>8. \A u \in U : /\ f[u] \in Entry /\ f[u].uuid = u /\ f[u].eid = At(u)
                   /\ f[u].name = d[At(u)].name /\ f[u].patch = d[At(u)].patch
  <2>1. \A u \in U : /\ u \in MixerUuids /\ d[At(u)].name \in Names
                     /\ d[At(u)].patch \in M!Patches /\ At(u) \in Nat
    BY <1>2, <1>4, <1>5 DEF M!Patches
  <2>. QED  BY <2>1 DEF Entry
<1>9. f \in Maps /\ DOMAIN f = U /\ U \subseteq MixerUuids
  <2>1. DOMAIN f = U /\ U \subseteq MixerUuids
    BY <1>2, <1>4
  <2>2. IsMap(f)
    BY <1>8, <2>1 DEF IsMap
  <2>. QED  BY <2>1, <2>2, MapsAre
<1>10. IsFiniteSet(U)
  <2>. DEFINE g == [i \in 1..n |-> d[i].uuid]
  <2>1. g \in Surjection(1..n, U)
    BY <1>2 DEF Surjection
  <2>2. IsFiniteSet(1..n)
    BY <1>2, FS_Interval
  <2>. HIDE DEF g, U
  <2>. QED  BY <2>1, <2>2, FS_Surjection
<1>. HIDE DEF cs, f, U
<1>11. r \in MixState
  <2>1. <<>> \in Seq(Nat)
    OBVIOUS
  <2>. QED  BY <1>7, <1>9, <2>1 DEF MixState, cs, f, U, M!Started, d, At
<1>12. EngineOK(r)
  <2>1. Free(cs) = {}
    BY <1>7 DEF Free
  <2>2. Lines(<<>>, {})
    BY DEF Lines, Distinct, V!ToSet
  <2>. QED  BY <1>1, <1>3, <1>7, <2>1, <2>2 DEF EngineOK
<1>13. Sound(r)
  BY <1>3, <1>5, <1>7, <1>8, <1>9, <1>10, <1>11, <1>12 DEF Sound, EntriesOK
<1>14. Exact(r, U)
  <2>1. ASSUME NEW u \in U PROVE OfChannel(r, f[u])
    <3>1. d[At(u)].patch \in Sinks /\ cs[At(u)] # NoPort
          /\ cs[At(u)].name = d[At(u)].name /\ cs[At(u)].to = {d[At(u)].patch}
      BY <1>4, <1>5, <1>6, <1>7
    <3>2. {d[At(u)].patch} \cap Sinks = {d[At(u)].patch}
      BY <3>1
    <3>. QED  BY <1>3, <1>8, <3>1, <3>2 DEF OfChannel
  <2>2. \A i \in 1..n : \E u \in U : f[u].eid = i
    BY <1>5, <1>8
  <2>3. \A u, v \in U : f[u].eid = f[v].eid => u = v
    BY <1>5, <1>8
  <2>4. /\ r.leaked = {} /\ r.channels = f /\ Len(r.chans) = n
    BY <1>3, <1>7
  <2>. QED  BY <1>7, <2>1, <2>2, <2>3, <2>4 DEF Exact
<1>. QED  BY <1>3, <1>9, <1>13, <1>14


(* A session that has just begun. *)
LEMMA Begins ==
    ASSUME NEW s \in DOMAIN Defaults
    PROVE  /\ MixTypes /\ session = s /\ chans = M!Started(s).chans /\ holes = <<>> /\ leaked = {}
              /\ channels = M!Started(s).channels /\ defs = M!Started(s).defs
              /\ asked = M!Started(s).defs /\ hist = {} => MixInv
<1>. SUFFICES ASSUME /\ MixTypes /\ session = s /\ chans = M!Started(s).chans /\ holes = <<>>
                     /\ leaked = {} /\ channels = M!Started(s).channels
                     /\ defs = M!Started(s).defs /\ asked = M!Started(s).defs /\ hist = {}
              PROVE  MixInv
  OBVIOUS
<1>. DEFINE r == [chans |-> M!Started(s).chans, holes |-> <<>>, leaked |-> {},
                  channels |-> M!Started(s).channels, defs |-> M!Started(s).defs,
                  touched |-> {}, hist |-> {}, ok |-> TRUE]
<1>1. M!Context = r
  BY DEF M!Context
<1>2. /\ Sound(r) /\ Exact(r, DOMAIN r.channels)
      /\ r.defs = DOMAIN r.channels /\ r.channels = channels /\ r.defs = defs
  BY SessionStarts
<1>. QED  BY <1>1, <1>2 DEF MixInv, MixExact, M!DefsExist, M!AppliedIsAsked

LEMMA DefaultsAre ==
    ASSUME NEW s \in DOMAIN Defaults
    PROVE  M!Started(s).defs \subseteq MixerUuids
<1>. DEFINE r == [chans |-> M!Started(s).chans, holes |-> <<>>, leaked |-> {},
                  channels |-> M!Started(s).channels, defs |-> M!Started(s).defs,
                  touched |-> {}, hist |-> {}, ok |-> TRUE]
<1>1. r.defs \subseteq MixerUuids
  BY SessionStarts
<1>. QED  BY <1>1

LEMMA MixInitially ==
    ASSUME M!Init
    PROVE  MixInv
<1>1. 1 \in DOMAIN Defaults /\ MaxApplied \in Nat
  BY MixerConstants DEF M!MixerAssumption
<1>2. M!Started(1).defs \subseteq MixerUuids
  BY <1>1, DefaultsAre
<1>3. MixTypes
  BY <1>1, <1>2 DEF M!Init, MixTypes
<1>. QED  BY <1>1, <1>3, Begins DEF M!Init

LEMMA RestartKeeps ==
    ASSUME MixInv, M!Restart
    PROVE  MixInv'
<1>1. PICK s \in DOMAIN Defaults : session' = s
  BY DEF M!Restart
<1>2. M!Started(s).defs \subseteq MixerUuids
  BY DefaultsAre
<1>3. MixTypes'
  BY <1>1, <1>2 DEF M!Restart, MixInv, MixTypes
<1>. DEFINE r == [chans |-> M!Started(s).chans, holes |-> <<>>, leaked |-> {},
                  channels |-> M!Started(s).channels, defs |-> M!Started(s).defs,
                  touched |-> {}, hist |-> {}, ok |-> TRUE]
<1>4. M!Context' = r
  BY <1>1 DEF M!Context, M!Restart
<1>5. /\ Sound(r) /\ Exact(r, DOMAIN r.channels)
      /\ r.defs = DOMAIN r.channels /\ r.channels = channels' /\ r.defs = defs' /\ asked' = defs'
  BY <1>1, SessionStarts DEF M!Restart
<1>6. M!DefsExist' /\ M!AppliedIsAsked'
  BY <1>5 DEF M!DefsExist, M!AppliedIsAsked
<1>. HIDE DEF r
<1>. QED  BY <1>3, <1>4, <1>5, <1>6 DEF MixInv, MixExact

LEMMA SeqOfSet ==
    ASSUME NEW R, IsFiniteSet(R)
    PROVE  M!SetToSeq(R) \in Seq(R)
<1>. DEFINE n == Cardinality(R)
<1>1. M!Cardinality(R) = n
  BY DEF M!Cardinality, Cardinality
<1>2. n \in Nat /\ ExistsBijection(1..n, R)
  BY FS_CardinalityType
<1>3. \E f \in [1..n -> R] : M!IsInjective(f)
  BY <1>2 DEF ExistsBijection, Bijection, Injection, IsInjective, M!IsInjective
<1>. HIDE DEF n
<1>4. M!SetToSeq(R) \in [1..n -> R]
  BY <1>1, <1>3 DEF M!SetToSeq
<1>. QED  BY <1>2, <1>4, SeqDef

LEMMA SaveKeeps ==
    ASSUME MixInv, M!Save
    PROVE  MixInv'
<1>1. UNCHANGED <<session, chans, holes, leaked, channels, defs, asked, answer, applied, hist>>
  BY DEF M!Save, M!engineVars, M!mixerVars
<1>2. M!Context' = M!Context
  BY <1>1 DEF M!Context
<1>3. PICK c : c = M!Context
  OBVIOUS
<1>4. Sound(c) /\ c.channels = channels /\ c.defs = defs
  BY <1>3 DEF MixInv, M!Context
<1>. DEFINE Saved(u) == [uuid |-> u, name |-> channels[u].name, patch |-> channels[u].patch]
            R == {Saved(u) : u \in DOMAIN channels}
<1>5. \A u \in DOMAIN channels : Saved(u) \in M!Channel
  <2>1. \A u \in DOMAIN channels :
          u \in MixerUuids /\ channels[u].name \in Names /\ channels[u].patch \in M!Patches
    BY <1>4, EntryIs
  <2>. QED  BY <2>1 DEF M!Channel
<1>6. IsFiniteSet(R)
  <2>. DEFINE g == [u \in DOMAIN channels |-> Saved(u)]
  <2>1. g \in Surjection(DOMAIN channels, R)
    BY DEF Surjection
  <2>2. IsFiniteSet(DOMAIN channels)
    BY <1>4 DEF Sound
  <2>. HIDE DEF g, R
  <2>. QED  BY <2>1, <2>2, FS_Surjection
<1>7. R \subseteq M!Channel
  BY <1>5
<1>. HIDE DEF Saved
<1>8. saved' \in M!Conf
  <2>. DEFINE cs == M!SetToSeq(R)
  <2>1. saved' = [channels |-> cs, defs |-> defs]
    BY DEF M!Save, M!ObtainConfig, Saved
  <2>2. cs \in Seq(R)
    <3>. HIDE DEF R
    <3>. QED  BY <1>6, SeqOfSet
  <2>. HIDE DEF R, cs
  <2>3. cs \in Seq(M!Channel)
    BY <1>7, <2>2, SeqMonotonic
  <2>4. defs \subseteq MixerUuids
    BY <1>4, FieldsAre DEF Sound
  <2>. QED  BY <2>1, <2>3, <2>4 DEF M!Conf
<1>9. MixTypes'
  BY <1>1, <1>8 DEF MixInv, MixTypes
<1>10. MixExact'
  BY <1>1, <1>2 DEF MixInv, MixExact
<1>. QED  BY <1>1, <1>2, <1>9, <1>10 DEF MixInv, M!DefsExist, M!AppliedIsAsked

LEMMA MixSteps ==
    ASSUME MixInv, M!Next
    PROVE  MixInv'
<1>1. ASSUME NEW conf \in Requests, M!SetMixerConf(conf) PROVE MixInv'
  <2>1. conf \in M!Conf
    BY MixerConstants DEF M!MixerAssumption
  <2>. QED  BY <1>1, <2>1, ProcessKeeps DEF M!SetMixerConf
<1>2. ASSUME M!Load PROVE MixInv'
  BY <1>2, ProcessKeeps DEF M!Load, MixInv, MixTypes
<1>. QED  BY <1>1, <1>2, SaveKeeps, RestartKeeps DEF M!Next

LEMMA MixUnchanged ==
    ASSUME MixInv, UNCHANGED mixerVars
    PROVE  MixInv'
<1>1. UNCHANGED <<session, chans, holes, leaked, channels, defs, saved, asked, answer, applied, hist>>
  BY DEF mixerVars
<1>2. M!Context' = M!Context
  BY <1>1 DEF M!Context
<1>3. MixExact'
  BY <1>1, <1>2 DEF MixInv, MixExact
<1>. QED  BY <1>1, <1>2, <1>3 DEF MixInv, MixTypes, M!DefsExist, M!AppliedIsAsked

LEMMA MixStep ==
    ASSUME MixInv, [MCNext]_allVars
    PROVE  MixInv'
<1>1. ASSUME MCNext PROVE MixInv'
  BY <1>1, MixSteps, MixUnchanged DEF MCNext, ConnectionsStep, MixerStep, WaveformsStep, ViewStep
<1>2. ASSUME UNCHANGED allVars PROVE MixInv'
  BY <1>2, MixUnchanged DEF allVars
<1>. QED  BY <1>1, <1>2

LEMMA MixIsSound ==
    ASSUME MixInv
    PROVE  MixerSound
<1>1. PICK c : c = M!Context
  OBVIOUS
<1>2. /\ Sound(c) /\ c.chans = chans /\ c.leaked = leaked /\ c.channels = channels /\ c.hist = hist
      /\ hist \subseteq {"repatched"} => Exact(c, DOMAIN channels)
  BY <1>1 DEF MixInv, MixExact, M!Context
<1>3. ASSUME hist \subseteq {"repatched"}
      PROVE  /\ leaked = {}
             /\ \A u \in DOMAIN channels :
                   LET e == channels[u]
                   IN /\ e.eid \in DOMAIN chans /\ chans[e.eid] # NoPort /\ chans[e.eid].name = e.name
                      /\ hist = {} => chans[e.eid].to = {e.patch} \cap Sinks
             /\ \A i \in DOMAIN chans : chans[i] # NoPort =>
                   M!Cardinality({u \in DOMAIN channels : channels[u].eid = i}) = 1
  <2>1. Exact(c, DOMAIN channels) /\ DOMAIN chans = 1..Len(chans)
    BY <1>2, <1>3, FieldsAre DEF Sound
  <2>2. ASSUME NEW u \in DOMAIN channels
        PROVE  channels[u].eid \in DOMAIN chans /\ OfChannel(c, channels[u])
    BY <1>2, <2>1, EntryIs DEF Exact
  <2>3. ASSUME NEW i \in DOMAIN chans, chans[i] # NoPort
        PROVE  M!Cardinality({u \in DOMAIN channels : channels[u].eid = i}) = 1
    <3>. DEFINE R == {u \in DOMAIN channels : channels[u].eid = i}
    <3>1. PICK u \in DOMAIN channels : channels[u].eid = i
      BY <1>2, <2>1, <2>3 DEF Exact
    <3>2. R = {u}
      BY <1>2, <2>1, <3>1 DEF Exact
    <3>. HIDE DEF R
    <3>3. Cardinality(R) = 1
      BY <3>2, FS_Singleton
    <3>4. M!Cardinality(R) = Cardinality(R)
      BY DEF M!Cardinality, Cardinality
    <3>. QED  BY <3>3, <3>4 DEF R
  <2>. QED  BY <1>2, <2>1, <2>2, <2>3 DEF Exact, OfChannel
<1>4. M!PortsAreChannels
  BY <1>3 DEF M!PortsAreChannels
<1>. QED  BY <1>4 DEF MixerSound, MixInv

(* Whatever clients ask for, in whatever order the map is gone through and  *)
(* wherever a configuration fails, the default channels exist; the mixer    *)
(* has the channels of a configuration that was applied, unless it gave a   *)
(* name to another channel; and until one fails or does so each channel has *)
(* a port to itself and each port a channel.                               *)
THEOREM MixerAlwaysSound == MCSpec => []MixerSound
<1>1. MCInit => MixInv
  BY MixInitially DEF MCInit
<1>2. MixInv /\ [MCNext]_allVars => MixInv'
  BY MixStep
<1>3. MixInv => MixerSound
  BY MixIsSound
<1>. QED  BY <1>1, <1>2, <1>3, PTL DEF MCSpec


-----------------------------------------------------------------------------
(* The types of each part *)

LEMMA ConnectionTypes == IInv => TypeOK
BY TypesApart DEF IInv, Client_, Server_

LEMMA MixerTypes ==
    ASSUME MixInv
    PROVE  M!TypeOK
<1>1. PICK c : c = M!Context
  OBVIOUS
<1>2. /\ Sound(c) /\ c.chans = chans /\ c.holes = holes /\ c.leaked = leaked
      /\ c.channels = channels /\ c.hist = hist
  BY <1>1 DEF MixInv, M!Context
<1>3. /\ chans \in Seq(Ports) /\ DOMAIN chans = 1..Len(chans) /\ Len(chans) \in Nat
      /\ holes \in Seq(Nat) /\ leaked \subseteq Names /\ hist \subseteq M!Happenings
  BY <1>2, FieldsAre DEF Sound
<1>4. Len(chans) <= MaxChans
  BY <1>2, <1>3, MaxChansIs DEF Sound, EngineOK
<1>5. M!IsInjective(holes) /\ M!ToSet(holes) = {i \in DOMAIN chans : chans[i] = NoPort}
  <2>1. Lines(holes, Free(chans)) /\ DOMAIN holes = 1..Len(holes)
    BY <1>2, <1>3, LenProperties DEF Sound, EngineOK
  <2>2. Distinct(holes) /\ V!ToSet(holes) = Free(chans)
    BY <2>1 DEF Lines
  <2>. QED  BY <1>3, <2>1, <2>2 DEF Distinct, V!ToSet, M!ToSet, M!IsInjective, Free
<1>6. DOMAIN channels \subseteq MixerUuids
  BY <1>2, EntryIs
<1>7. ASSUME NEW u \in DOMAIN channels
      PROVE  channels[u] \in [uuid : {u}, name : Names, patch : M!Patches, eid : DOMAIN chans]
  <2>1. /\ channels[u] \in Entry /\ channels[u].uuid = u /\ channels[u].eid \in DOMAIN chans
    BY <1>2, <1>3, EntryIs
  <2>. QED  BY <2>1 DEF Entry
<1>. QED  BY <1>3, <1>4, <1>5, <1>6, <1>7 DEF M!TypeOK, MixInv, MixTypes, Ports

LEMMA ViewTypes ==
    ASSUME ViewInv
    PROVE  V!TypeOK
<1>1. ListTypes /\ MirrorTypes
  BY DEF ViewInv
<1>2. V!Range(list) \subseteq V!Acts \cup {V!None}
  <2>1. IsList(list)
    BY <1>1, ListsAre DEF ListTypes
  <2>. QED  BY <2>1 DEF IsList, V!Range, Targets
<1>3. \A u \in DOMAIN ctls :
        ctls[u] \in [target : V!Acts \cup {V!None}, selecting : BOOLEAN, window : BOOLEAN]
  BY <1>1 DEF MirrorTypes, IsCtls, Ctl, Targets
<1>. QED  BY <1>1, <1>2, <1>3 DEF V!TypeOK, ListTypes, MirrorTypes, Lines, Targets

Parts == {"connections", "mixer", "waveforms", "view"}
PartIsOne == part \in Parts

(* Connections, mixer, waveforms and list keep their types. *)
THEOREM AllTypesCorrect == MCSpec => []AllTypeOK
<1>1. MCInit => IInv /\ MixInv /\ WaveInv /\ ViewInv /\ PartIsOne
  BY InitIInv, MixInitially, WaveInitially, ViewInitially DEF MCInit, PartIsOne, Parts
<1>2. IInv /\ MixInv /\ WaveInv /\ ViewInv /\ PartIsOne /\ [MCNext]_allVars
        => IInv' /\ MixInv' /\ WaveInv' /\ ViewInv' /\ PartIsOne'
  <2>1. IInv /\ [MCNext]_allVars => IInv'
    <3>1. [MCNext]_allVars => [Next]_vars
      BY DEF MCNext, ConnectionsStep, MixerStep, WaveformsStep, ViewStep, allVars
    <3>. QED  BY <3>1, StepIInv
  <2>2. WaveInv /\ [MCNext]_allVars => WaveInv'
    BY WaveStep, WaveUnchanged
       DEF MCNext, ConnectionsStep, MixerStep, WaveformsStep, ViewStep, allVars
  <2>3. ViewInv /\ [MCNext]_allVars => ViewInv'
    BY ViewSteps, ViewUnchanged
       DEF MCNext, ConnectionsStep, MixerStep, WaveformsStep, ViewStep, allVars
  <2>4. PartIsOne /\ [MCNext]_allVars => PartIsOne'
    BY DEF PartIsOne, MCNext, ConnectionsStep, MixerStep, WaveformsStep, ViewStep, allVars
  <2>. QED  BY <2>1, <2>2, <2>3, <2>4, MixStep
<1>3. IInv /\ MixInv /\ WaveInv /\ ViewInv /\ PartIsOne => AllTypeOK
  <2>1. IInv /\ MixInv /\ WaveInv /\ ViewInv => TypeOK /\ M!TypeOK /\ W!TypeOK /\ V!TypeOK
    BY ConnectionTypes, MixerTypes, ViewTypes DEF WaveInv, WaveTypes
  <2>. QED  BY <2>1, Zenon DEF AllTypeOK, PartIsOne, Parts
<1>. QED  BY <1>1, <1>2, <1>3, PTL DEF MCSpec

=============================================================================
