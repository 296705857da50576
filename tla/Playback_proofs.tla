--------------------------- MODULE Playback_proofs ---------------------------
(***************************************************************************)
(* Proofs about Playback, for any number of loads and channels, files of   *)
(* any length, and buffers and queues of any size.                         *)
(*                                                                         *)
(* A step changes one stream at most, and never makes one that was removed *)
(* from the audio thread come back.  So a message that told of its removal *)
(* stays true for as long as it is under way; and as no command is taken   *)
(* while the event loop has messages, one that puts the action to rest is  *)
(* about the load it has.                                                  *)
(***************************************************************************)
EXTENDS Playback, SequenceTheorems, TLAPS

(* A load that was not made yet has no Players. *)
Unused(s) == s.spool = "none" => \A c \in Chans : s.players[c].place = "none"

(* What a step may make of a stream *)
Follows(t, s) ==
    /\ t \in Stream /\ Unused(t)
    /\ t.spool = "none" => s.spool = "none"
    /\ \A c \in Chans : s.players[c].place = "removed" => t.players[c].place = "removed"
NotStarted(t, s) == t.vol = "fading" => s.vol = "fading"

StreamsSound == streams \in [Loads -> Stream] /\ \A l \in Loads : Unused(streams[l])

Kinds == {"BufHalf", "BufEmpty", "Removed"} \cup Noted

(* Messages that are true, and stay true *)
TrueMessages ==
    {m \in Messages : m.kind = "Removed" => streams[m.load].players[m.chan].place = "removed"}
TrueChanges ==
    {m \in Changes : m = Change("audio", "Inactive") =>
        rd = NoLoad \/ streams[rd].players[1].place = "removed"}
MessagesSound == events \in Seq(TrueMessages) /\ internal \in Seq(TrueMessages \cup TrueChanges)

ActionTypes ==
    /\ bounds \in Scenarios
    /\ state \in [Acts -> States] /\ timer \in [Acts -> Timers] /\ async \subseteq Acts
    /\ exists \in BOOLEAN /\ valid \in BOOLEAN /\ rd \in Loads \cup {NoLoad}
    /\ target \in BOOLEAN /\ frd \in BOOLEAN /\ ftimer \in Timers
    /\ panicked \in BOOLEAN /\ disturbed \in BOOLEAN

(* The load an action has was made; an action that is not there has none,  *)
(* and is at rest; a fade that is active has run.                          *)
LoadSound == rd # NoLoad => streams[rd].spool # "none"
DeletedSound == ~exists => rd = NoLoad /\ state["audio"] = "Inactive"
FadeSound == state["fade"] = "Active" => frd

IInv ==
    /\ ActionTypes /\ StreamsSound /\ MessagesSound
    /\ LoadSound /\ DeletedSound /\ FadeSound
    /\ StreamMatchesState /\ PolledWhileActive /\ NoOrphanFade

-----------------------------------------------------------------------------
(* What is done to streams *)

LEMMA PlayersFollow ==
    ASSUME NEW s \in Stream, s.spool # "none", NEW ps \in [Chans -> Player],
           \A c \in Chans : s.players[c].place = "removed" => ps[c].place = "removed"
    PROVE  Follows([s EXCEPT !.players = ps], s) /\ NotStarted([s EXCEPT !.players = ps], s)
           /\ [s EXCEPT !.players = ps].vol = s.vol /\ [s EXCEPT !.players = ps].spool = s.spool
           /\ [s EXCEPT !.players = ps].left = s.left
BY DEF Follows, NotStarted, Stream, Unused

(* Changing flags of all players leaves them where they are. *)
LEMMA FlagsFollow ==
    ASSUME NEW s \in Stream, s.spool # "none"
    PROVE  /\ Follows(Activated(s), s) /\ NotStarted(Activated(s), s)
           /\ Follows(Deactivated(s), s) /\ NotStarted(Deactivated(s), s)
<1>. DEFINE on == [c \in Chans |-> [s.players[c] EXCEPT !.active = TRUE]]
            off == [c \in Chans |-> [s.players[c] EXCEPT !.active = FALSE]]
<1>1. on \in [Chans -> Player] /\ off \in [Chans -> Player]
  <2>. SUFFICES ASSUME NEW c \in Chans PROVE on[c] \in Player /\ off[c] \in Player
    OBVIOUS
  <2>1. s.players[c] \in Player
    BY DEF Stream
  <2>. QED  BY <2>1 DEF Player
<1>2. \A c \in Chans : on[c].place = s.players[c].place /\ off[c].place = s.players[c].place
  BY DEF Stream, Player
<1>3. Activated(s) = [[s EXCEPT !.players = on] EXCEPT !.started = TRUE, !.vol = IF s.started THEN @ ELSE "raw"]
  BY DEF Activated, OnPlayers
<1>4. Deactivated(s) = [s EXCEPT !.players = off]
  BY DEF Deactivated, OnPlayers
<1>. HIDE DEF on, off
<1>5. Follows([s EXCEPT !.players = on], s) /\ NotStarted([s EXCEPT !.players = on], s)
  BY <1>1, <1>2, PlayersFollow
<1>6. Follows(Activated(s), s) /\ NotStarted(Activated(s), s)
  <2>. DEFINE v == IF s.started THEN s.vol ELSE "raw"
  <2>1. v \in {"raw", "fading", "faded"} /\ (v = "fading" => s.vol = "fading")
    BY DEF Stream
  <2>2. [s EXCEPT !.players = on].vol = s.vol
    OBVIOUS
  <2>3. Activated(s) = [[s EXCEPT !.players = on] EXCEPT !.started = TRUE, !.vol = v]
    BY <1>3, <2>2
  <2>. HIDE DEF v
  <2>4. ASSUME NEW u, u \in Stream, u.players = on, u.spool = s.spool
        PROVE  Follows([u EXCEPT !.started = TRUE, !.vol = v], s)
               /\ [u EXCEPT !.started = TRUE, !.vol = v].vol = v
    <3>1. [u EXCEPT !.started = TRUE, !.vol = v] \in Stream
      BY <2>1, <2>4 DEF Stream
    <3>2. /\ [u EXCEPT !.started = TRUE, !.vol = v].players = on
          /\ [u EXCEPT !.started = TRUE, !.vol = v].spool = s.spool
          /\ [u EXCEPT !.started = TRUE, !.vol = v].vol = v
      BY <2>4 DEF Stream
    <3>. QED  BY <3>1, <3>2, <1>2 DEF Follows, Unused
  <2>5. /\ [s EXCEPT !.players = on] \in Stream /\ [s EXCEPT !.players = on].players = on
        /\ [s EXCEPT !.players = on].spool = s.spool
    BY <1>1 DEF Stream
  <2>6. Follows(Activated(s), s) /\ Activated(s).vol = v
    BY <2>3, <2>4, <2>5
  <2>. QED  BY <2>1, <2>6 DEF NotStarted
<1>. QED  BY <1>1, <1>2, <1>4, <1>6, PlayersFollow

LEMMA ControlFollows ==
    ASSUME NEW s \in Stream, s.spool # "none", Unused(s)
    PROVE  /\ Follows(QuitSent(s), s) /\ NotStarted(QuitSent(s), s)
           /\ Follows([s EXCEPT !.ctl = "dropped"], s) /\ NotStarted([s EXCEPT !.ctl = "dropped"], s)
           /\ Follows([s EXCEPT !.vol = "raw"], s) /\ [s EXCEPT !.vol = "raw"].vol = "raw"
           /\ Follows(Frozen(s), s) /\ Frozen(s).vol = "raw"
           /\ Follows(Fading(s), s)
           /\ Follows(Faded(s), s) /\ Faded(s).vol = "faded"
           /\ Follows([s EXCEPT !.inbox = @ + 1], s) /\ NotStarted([s EXCEPT !.inbox = @ + 1], s)
BY DEF QuitSent, Frozen, Fading, Faded, Follows, NotStarted, Stream, Unused

(* What the spooler thread itself is at does not matter, once it is there, *)
(* nor how much of the file is left.                                       *)
LEMMA SpoolerFollows ==
    ASSUME NEW s \in Stream, s.spool # "none", NEW u, Follows(u, s), NotStarted(u, s),
           NEW x \in {"read", "wait", "end", "gone"}
    PROVE  Follows([u EXCEPT !.spool = x], s) /\ NotStarted([u EXCEPT !.spool = x], s)
<1>1. u \in Stream /\ u.spool # "none"
  BY DEF Follows
<1>2. [u EXCEPT !.spool = x] \in Stream
  BY <1>1 DEF Stream
<1>3. /\ [u EXCEPT !.spool = x].spool = x /\ [u EXCEPT !.spool = x].players = u.players
      /\ [u EXCEPT !.spool = x].vol = u.vol
  BY <1>1 DEF Stream
<1>. QED  BY <1>1, <1>2, <1>3 DEF Follows, NotStarted, Unused

LEMMA FileFollows ==
    ASSUME NEW s \in Stream, s.spool # "none", NEW u, Follows(u, s), NotStarted(u, s), NEW n \in Nat
    PROVE  Follows([u EXCEPT !.left = n], s) /\ NotStarted([u EXCEPT !.left = n], s)
<1>1. u \in Stream /\ u.spool # "none"
  BY DEF Follows
<1>2. [u EXCEPT !.left = n] \in Stream
  BY <1>1 DEF Stream
<1>3. /\ [u EXCEPT !.left = n].spool = u.spool /\ [u EXCEPT !.left = n].players = u.players
      /\ [u EXCEPT !.left = n].vol = u.vol
  BY <1>1 DEF Stream
<1>. QED  BY <1>1, <1>2, <1>3 DEF Follows, NotStarted, Unused

(* The spooler fills buffers, tells the streams that no more is to come,   *)
(* drops its Senders.                                                      *)
LEMMA SpoolFollows ==
    ASSUME NEW s \in Stream, s.spool # "none", Unused(s)
    PROVE  /\ Follows([s EXCEPT !.spool = "wait"], s) /\ NotStarted([s EXCEPT !.spool = "wait"], s)
           /\ s.left > 0 => Follows(Sent(s), s) /\ NotStarted(Sent(s), s)
           /\ Follows(Finished(s), s) /\ NotStarted(Finished(s), s)
           /\ Follows(SpoolerGone(s), s) /\ NotStarted(SpoolerGone(s), s)
           /\ s.inbox > 0 =>
                /\ Follows([s EXCEPT !.spool = "read", !.inbox = @ - 1], s)
                /\ NotStarted([s EXCEPT !.spool = "read", !.inbox = @ - 1], s)
                /\ Follows([s EXCEPT !.inbox = @ - 1], s)
                /\ NotStarted([s EXCEPT !.inbox = @ - 1], s)
<1>. DEFINE filled == [c \in Chans |-> IF s.players[c].place = "none" \/ s.players[c].buf = BufferSize
                                        THEN s.players[c] ELSE [s.players[c] EXCEPT !.buf = @ + 1]]
            killed == [c \in Chans |-> [s.players[c] EXCEPT !.killed = TRUE]]
            dropped == [c \in Chans |-> [s.players[c] EXCEPT !.alive = FALSE, !.active = FALSE,
                                                             !.missed = s.players[c].place = "queue"]]
<1>1. /\ filled \in [Chans -> Player]
      /\ \A c \in Chans : filled[c].place = s.players[c].place
  <2>. SUFFICES ASSUME NEW c \in Chans
                PROVE  filled[c] \in Player /\ filled[c].place = s.players[c].place
    OBVIOUS
  <2>1. s.players[c] \in Player
    BY DEF Stream
  <2>2. s.players[c].buf # BufferSize => s.players[c].buf + 1 \in 0..BufferSize
    BY <2>1, PlaybackAssumption DEF Player
  <2>. QED  BY <2>1, <2>2 DEF Player
<1>2. /\ killed \in [Chans -> Player]
      /\ \A c \in Chans : killed[c].place = s.players[c].place
  <2>. SUFFICES ASSUME NEW c \in Chans
                PROVE  killed[c] \in Player /\ killed[c].place = s.players[c].place
    OBVIOUS
  <2>1. s.players[c] \in Player
    BY DEF Stream
  <2>. QED  BY <2>1 DEF Player
<1>3. /\ dropped \in [Chans -> Player]
      /\ \A c \in Chans : dropped[c].place = s.players[c].place
  <2>. SUFFICES ASSUME NEW c \in Chans
                PROVE  dropped[c] \in Player /\ dropped[c].place = s.players[c].place
    OBVIOUS
  <2>1. s.players[c] \in Player
    BY DEF Stream
  <2>2. PICK b \in BOOLEAN : b = (s.players[c].place = "queue")
    OBVIOUS
  <2>3. dropped[c] = [s.players[c] EXCEPT !.alive = FALSE, !.active = FALSE, !.missed = b]
    BY <2>2
  <2>. QED  BY <2>1, <2>3 DEF Player
<1>4. Sent(s) = [[s EXCEPT !.players = filled] EXCEPT !.left = @ - 1]
  BY DEF Sent, OnPlayers
<1>5. Finished(s) = [[s EXCEPT !.players = killed] EXCEPT !.spool = "end"]
  BY DEF Finished, OnPlayers
<1>6. SpoolerGone(s) = [[s EXCEPT !.players = dropped] EXCEPT !.spool = "gone"]
  BY DEF SpoolerGone, OnPlayers
<1>. HIDE DEF filled, killed, dropped
<1>7. /\ Follows([s EXCEPT !.players = filled], s) /\ NotStarted([s EXCEPT !.players = filled], s)
      /\ [s EXCEPT !.players = filled].left = s.left
  BY <1>1, PlayersFollow
<1>8. /\ Follows([s EXCEPT !.players = killed], s) /\ NotStarted([s EXCEPT !.players = killed], s)
      /\ Follows([s EXCEPT !.players = dropped], s) /\ NotStarted([s EXCEPT !.players = dropped], s)
  BY <1>2, <1>3, PlayersFollow
<1>9. s.left > 0 => Follows(Sent(s), s) /\ NotStarted(Sent(s), s)
  <2>. SUFFICES ASSUME s.left > 0 PROVE Follows(Sent(s), s) /\ NotStarted(Sent(s), s)
    OBVIOUS
  <2>. DEFINE u == [s EXCEPT !.players = filled]
              n == s.left - 1
  <2>1. n \in Nat
    BY DEF Stream
  <2>2. Sent(s) = [u EXCEPT !.left = n]
    BY <1>4, <1>7
  <2>3. Follows(u, s) /\ NotStarted(u, s)
    BY <1>7
  <2>. HIDE DEF u, n
  <2>. QED  BY <2>1, <2>2, <2>3, FileFollows
<1>10. Follows(Finished(s), s) /\ NotStarted(Finished(s), s)
  <2>. DEFINE u == [s EXCEPT !.players = killed]
  <2>1. Follows(u, s) /\ NotStarted(u, s)
    BY <1>8
  <2>2. Finished(s) = [u EXCEPT !.spool = "end"]
    BY <1>5
  <2>. HIDE DEF u
  <2>. QED  BY <2>1, <2>2, SpoolerFollows
<1>11. Follows(SpoolerGone(s), s) /\ NotStarted(SpoolerGone(s), s)
  <2>. DEFINE u == [s EXCEPT !.players = dropped]
  <2>1. Follows(u, s) /\ NotStarted(u, s)
    BY <1>8
  <2>2. SpoolerGone(s) = [u EXCEPT !.spool = "gone"]
    BY <1>6
  <2>. HIDE DEF u
  <2>. QED  BY <2>1, <2>2, SpoolerFollows
<1>12. Follows([s EXCEPT !.spool = "wait"], s) /\ NotStarted([s EXCEPT !.spool = "wait"], s)
  BY DEF Follows, NotStarted, Stream, Unused
<1>13. s.inbox > 0 =>
         /\ Follows([s EXCEPT !.spool = "read", !.inbox = @ - 1], s)
         /\ NotStarted([s EXCEPT !.spool = "read", !.inbox = @ - 1], s)
         /\ Follows([s EXCEPT !.inbox = @ - 1], s)
         /\ NotStarted([s EXCEPT !.inbox = @ - 1], s)
  <2>1. s.inbox > 0 => s.inbox - 1 \in Nat
    BY DEF Stream
  <2>. QED  BY <2>1 DEF Follows, NotStarted, Stream, Unused
<1>. QED  BY <1>9, <1>10, <1>11, <1>12, <1>13

(* A load makes streams that the audio thread does not have yet. *)
LEMMA LoadFollows ==
    ASSUME NEW s \in Stream, Unused(s), s.spool = "none", bounds \in Scenarios,
           NEW patched, NEW bad \in BOOLEAN
    PROVE  LET t == Spooled(patched, bad)
           IN /\ t \in Stream /\ t.spool # "none" /\ Unused(t)
              /\ Follows(t, s) /\ t.vol = "raw"
              /\ Follows(Activated(t), s) /\ Activated(t).vol = "raw"
<1>. DEFINE t == Spooled(patched, bad)
<1>1. bounds.frames \in Nat
  BY PlaybackAssumption DEF Scenario
<1>2. NoPlayer \in Player
  BY PlaybackAssumption DEF NoPlayer, Player
<1>3. NewSenders(patched) \in [Chans -> Player]
  <2>1. [NoPlayer EXCEPT !.place = "queue", !.patched = TRUE] \in Player
        /\ [NoPlayer EXCEPT !.place = "queue", !.patched = FALSE] \in Player
    BY <1>2 DEF Player
  <2>2. \A c \in Chans : (c \in patched) \in BOOLEAN
    OBVIOUS
  <2>. QED  BY <1>2, <2>1, <2>2 DEF NewSenders
<1>4. NoStream \in Stream /\ NoStream.vol = "raw"
  BY <1>2 DEF NoStream, Stream
<1>5. t \in Stream /\ t.spool = "read" /\ t.vol = "raw"
  BY <1>1, <1>3, <1>4 DEF Spooled, Stream
<1>. HIDE DEF t
<1>6. Unused(t) /\ \A c \in Chans : s.players[c].place # "removed"
  BY <1>5 DEF Unused
<1>7. Follows(t, s)
  BY <1>5, <1>6 DEF Follows
<1>8. Follows(Activated(t), t) /\ NotStarted(Activated(t), t)
  BY <1>5, FlagsFollow
<1>9. Follows(Activated(t), s)
  BY <1>5, <1>6, <1>8 DEF Follows
<1>10. Activated(t).vol = "raw"
  <2>. DEFINE on == [t EXCEPT !.players = [c \in Chans |-> [t.players[c] EXCEPT !.active = TRUE]]]
  <2>1. Activated(t) = [on EXCEPT !.started = TRUE, !.vol = IF t.started THEN @ ELSE "raw"]
    BY DEF Activated, OnPlayers
  <2>3. on.vol = t.vol /\ DOMAIN on = DOMAIN t /\ "vol" \in DOMAIN t
    BY <1>5 DEF Stream
  <2>. HIDE DEF on
  <2>. QED  BY <2>1, <2>3, <1>5
<1>. QED  BY <1>5, <1>6, <1>7, <1>9, <1>10 DEF t

-----------------------------------------------------------------------------
(* Messages stay true *)

Carried == events \in Seq(TrueMessages') /\ internal \in Seq(TrueMessages' \cup TrueChanges')

LEMMA OneFollows ==
    ASSUME StreamsSound, NEW l \in Loads, NEW t, Follows(t, streams[l]),
           streams' = [streams EXCEPT ![l] = t]
    PROVE  /\ StreamsSound'
           /\ TrueMessages \subseteq TrueMessages'
           /\ \A k \in Loads : streams'[k].spool = "none" => streams[k].spool = "none"
           /\ \A k \in Loads, c \in Chans :
                streams[k].players[c].place = "removed" => streams'[k].players[c].place = "removed"
<1>1. \A k \in Loads : streams'[k] = IF k = l THEN t ELSE streams[k]
  BY DEF StreamsSound
<1>2. StreamsSound'
  BY <1>1 DEF StreamsSound, Follows
<1>3. \A k \in Loads, c \in Chans :
        streams[k].players[c].place = "removed" => streams'[k].players[c].place = "removed"
  BY <1>1 DEF Follows
<1>4. TrueMessages \subseteq TrueMessages'
  BY <1>3 DEF TrueMessages, Messages
<1>5. \A k \in Loads : streams'[k].spool = "none" => streams[k].spool = "none"
  BY <1>1 DEF Follows
<1>. QED  BY <1>2, <1>3, <1>4, <1>5

(* One stream changes at most, and the load is kept or put away. *)
OneStep == streams' = streams \/ \E l \in Loads, t \in Stream :
             Follows(t, streams[l]) /\ streams' = [streams EXCEPT ![l] = t]
SameLoad == rd' = rd \/ rd' = NoLoad

LEMMA Carry ==
    ASSUME ActionTypes, StreamsSound, MessagesSound, LoadSound, OneStep, SameLoad
    PROVE  StreamsSound' /\ Carried /\ LoadSound'
<1>1. /\ StreamsSound'
      /\ TrueMessages \subseteq TrueMessages'
      /\ \A k \in Loads : streams'[k].spool = "none" => streams[k].spool = "none"
      /\ \A k \in Loads, c \in Chans :
           streams[k].players[c].place = "removed" => streams'[k].players[c].place = "removed"
  <2>1. CASE streams' = streams
    BY <2>1 DEF StreamsSound, Unused, TrueMessages
  <2>2. CASE \E l \in Loads, t \in Stream :
             Follows(t, streams[l]) /\ streams' = [streams EXCEPT ![l] = t]
    <3>1. PICK l \in Loads, t \in Stream :
            Follows(t, streams[l]) /\ streams' = [streams EXCEPT ![l] = t]
      BY <2>2
    <3>. QED  BY <3>1, OneFollows
  <2>. QED  BY <2>1, <2>2 DEF OneStep
<1>2. TrueChanges \subseteq TrueChanges'
  BY <1>1, PlaybackAssumption DEF TrueChanges, SameLoad, ActionTypes
<1>3. Carried
  <2>1. TrueMessages \cup TrueChanges \subseteq TrueMessages' \cup TrueChanges'
    BY <1>1, <1>2
  <2>. QED  BY <1>1, <2>1, SeqMonotonic DEF MessagesSound, Carried
<1>4. LoadSound'
  BY <1>1 DEF LoadSound, SameLoad, ActionTypes
<1>. QED  BY <1>1, <1>3, <1>4

(* A load that is made with nothing under way in the event loop *)
LEMMA CarryLoad ==
    ASSUME StreamsSound, MessagesSound, internal = <<>>,
           NEW l \in Loads, NEW t \in Stream, Follows(t, streams[l]), t.spool # "none",
           streams' = [streams EXCEPT ![l] = t], rd' = l
    PROVE  StreamsSound' /\ Carried /\ LoadSound'
<1>1. StreamsSound' /\ TrueMessages \subseteq TrueMessages'
  BY OneFollows
<1>2. Carried
  BY <1>1, SeqMonotonic DEF MessagesSound, Carried
<1>3. LoadSound'
  BY DEF LoadSound, StreamsSound
<1>. QED  BY <1>1, <1>2, <1>3

(* What is done to the streams of the load an action has, if it has one *)
LEMMA RunningFollows ==
    ASSUME ActionTypes, StreamsSound, LoadSound
    PROVE  /\ streams' = OnRunning(Activated) => OneStep
           /\ streams' = OnRunning(Deactivated) => OneStep
           /\ streams' = OnRunning(QuitSent) => OneStep
           /\ streams' = OnRunning(Frozen) => OneStep
           /\ streams' = OnRunning(Fading) => OneStep
           /\ streams' = OnRunning(Faded) => OneStep
<1>1. CASE rd = NoLoad
  BY <1>1 DEF OnRunning, OneStep
<1>2. CASE rd # NoLoad
  <2>1. rd \in Loads /\ streams[rd] \in Stream /\ streams[rd].spool # "none" /\ Unused(streams[rd])
    BY <1>2 DEF ActionTypes, StreamsSound, LoadSound
  <2>2. /\ Follows(Activated(streams[rd]), streams[rd])
        /\ Follows(Deactivated(streams[rd]), streams[rd])
        /\ Follows(QuitSent(streams[rd]), streams[rd])
        /\ Follows(Frozen(streams[rd]), streams[rd])
        /\ Follows(Fading(streams[rd]), streams[rd])
        /\ Follows(Faded(streams[rd]), streams[rd])
    BY <2>1, FlagsFollow, ControlFollows
  <2>3. /\ Activated(streams[rd]) \in Stream /\ Deactivated(streams[rd]) \in Stream
        /\ QuitSent(streams[rd]) \in Stream /\ Frozen(streams[rd]) \in Stream
        /\ Fading(streams[rd]) \in Stream /\ Faded(streams[rd]) \in Stream
    BY <2>2 DEF Follows
  <2>4. \A t \in Stream : Follows(t, streams[rd]) /\ streams' = [streams EXCEPT ![rd] = t] => OneStep
    BY <2>1 DEF OneStep
  <2>. QED  BY <1>2, <2>2, <2>3, <2>4 DEF OnRunning
<1>. QED  BY <1>1, <1>2

(* What that does to the volume *)
LEMMA RunningVolume ==
    ASSUME ActionTypes, StreamsSound, LoadSound, rd # NoLoad
    PROVE  /\ streams' = OnRunning(Activated) => NotStarted(streams'[rd], streams[rd])
           /\ streams' = OnRunning(Deactivated) => NotStarted(streams'[rd], streams[rd])
           /\ streams' = OnRunning(Frozen) => streams'[rd].vol = "raw"
           /\ streams' = OnRunning(Faded) => streams'[rd].vol = "faded"
<1>1. rd \in Loads /\ streams[rd] \in Stream /\ streams[rd].spool # "none" /\ Unused(streams[rd])
  BY DEF ActionTypes, StreamsSound, LoadSound
<1>2. /\ streams' = OnRunning(Activated) => streams'[rd] = Activated(streams[rd])
      /\ streams' = OnRunning(Deactivated) => streams'[rd] = Deactivated(streams[rd])
      /\ streams' = OnRunning(Frozen) => streams'[rd] = Frozen(streams[rd])
      /\ streams' = OnRunning(Faded) => streams'[rd] = Faded(streams[rd])
  BY <1>1 DEF OnRunning, StreamsSound
<1>. QED  BY <1>1, <1>2, FlagsFollow, ControlFollows

-----------------------------------------------------------------------------
(* Commands *)

Control ==
    ActionTypes /\ DeletedSound /\ FadeSound /\ StreamMatchesState /\ PolledWhileActive

(* A state set by SetState is the one asked for, or idle like it. *)
LEMMA VerifiedState ==
    ASSUME NEW s \in States, NEW ok
    PROVE  /\ Verified(s, ok) \in States
           /\ s \in Idle <=> Verified(s, ok) \in Idle
           /\ s \notin Idle => Verified(s, ok) = s
BY DEF Verified, Idle, States, Running

LEMMA RefusedKeeps ==
    ASSUME IInv, NEW a \in Acts, Present(a), Refused(a), UNCHANGED <<bounds, events, disturbed>>
    PROVE  IInv'
<1>. USE DEF Refused, SetState
<1>1. /\ state[a] \in States /\ state' = [state EXCEPT ![a] = Verified(state[a], IsValid(a))]
      /\ state \in [Acts -> States]
  BY DEF IInv, ActionTypes
<1>2. /\ state' \in [Acts -> States]
      /\ \A b \in Acts : (state[b] \in Idle <=> state'[b] \in Idle)
                         /\ (state[b] \notin Idle => state'[b] = state[b])
  BY <1>1, VerifiedState
<1>3. Control'
  BY <1>2 DEF IInv, Control, ActionTypes, DeletedSound, FadeSound, StreamMatchesState, PolledWhileActive,
         Acts, States, Idle, Running, Present
<1>4. StreamsSound' /\ Carried /\ LoadSound'
  BY Carry DEF OneStep, SameLoad, IInv
<1>5. MessagesSound'
  BY <1>4 DEF Carried, MessagesSound
<1>6. NoOrphanFade'
  BY <1>2 DEF IInv, NoOrphanFade, Acts, Idle
<1>. QED  BY <1>3, <1>4, <1>5, <1>6 DEF IInv, Control

LEMMA StreamsLoaded ==
    ASSUME IInv, internal = <<>>, NEW start \in BOOLEAN, LoadStreams(start)
    PROVE  /\ StreamsSound' /\ Carried /\ LoadSound'
           /\ rd' \in Loads /\ valid' \in BOOLEAN /\ streams'[rd'].vol = "raw"
<1>1. PICK patched \in SUBSET bounds.chans, bad \in BOOLEAN :
        streams' = [streams EXCEPT ![NextLoad] =
            IF start THEN Activated(Spooled(patched, bad)) ELSE Spooled(patched, bad)]
  BY DEF LoadStreams
<1>2. NextLoad \in Loads /\ streams[NextLoad].spool = "none"
  <2>1. bounds.loads \subseteq Loads
    BY PlaybackAssumption DEF IInv, ActionTypes, Scenario
  <2>2. \E l \in bounds.loads : streams[l].spool = "none"
    BY DEF LoadStreams, CanLoad
  <2>. QED  BY <2>1, <2>2 DEF NextLoad
<1>. DEFINE t == IF start THEN Activated(Spooled(patched, bad)) ELSE Spooled(patched, bad)
<1>3. streams[NextLoad] \in Stream /\ Unused(streams[NextLoad]) /\ bounds \in Scenarios
  BY <1>2 DEF IInv, StreamsSound, ActionTypes
<1>4. Follows(t, streams[NextLoad]) /\ t.vol = "raw" /\ t.spool # "none"
  <2>1. /\ Spooled(patched, bad) \in Stream /\ Spooled(patched, bad).spool # "none"
        /\ Follows(Spooled(patched, bad), streams[NextLoad]) /\ Spooled(patched, bad).vol = "raw"
        /\ Follows(Activated(Spooled(patched, bad)), streams[NextLoad])
        /\ Activated(Spooled(patched, bad)).vol = "raw"
    BY <1>2, <1>3, LoadFollows
  <2>2. Follows(Activated(Spooled(patched, bad)), Spooled(patched, bad))
    BY <2>1, FlagsFollow
  <2>. QED  BY <2>1, <2>2 DEF Follows
<1>5. t \in Stream /\ streams' = [streams EXCEPT ![NextLoad] = t] /\ rd' = NextLoad
  BY <1>1, <1>4 DEF Follows, LoadStreams
<1>. HIDE DEF t
<1>6. StreamsSound' /\ Carried /\ LoadSound'
  BY <1>2, <1>4, <1>5, CarryLoad DEF IInv
<1>7. streams'[rd'].vol = "raw"
  BY <1>2, <1>4, <1>5 DEF IInv, StreamsSound
<1>8. valid' \in BOOLEAN
  BY DEF LoadStreams, Reopened, IInv, ActionTypes
<1>. QED  BY <1>2, <1>5, <1>6, <1>7, <1>8

LEMMA LoadKeeps ==
    ASSUME IInv, LoadAction("audio") \/ LoadAction("fade") PROVE IInv'
<1>1. ASSUME NEW a \in Acts, LoadAction(a), ~(state[a] \in Idle /\ IsValid(a)) PROVE IInv'
  BY <1>1, RefusedKeeps DEF LoadAction, Command
<1>2. CASE LoadAction("fade") /\ state["fade"] \in Idle /\ IsValid("fade")
  <2>1. /\ state' = [state EXCEPT !["fade"] = "Loaded"]
        /\ UNCHANGED <<bounds, timer, async, exists, valid, rd, target, frd, ftimer, internal,
                       panicked, streams, events, disturbed>>
    BY <1>2 DEF LoadAction, SetState, Verified, Idle
  <2>2. Control'
    BY <2>1 DEF IInv, Control, ActionTypes, DeletedSound, FadeSound, StreamMatchesState,
       PolledWhileActive, Acts, States, Idle, Running
  <2>3. StreamsSound' /\ MessagesSound' /\ LoadSound'
    BY <2>1, Carry DEF OneStep, SameLoad, IInv, Carried, MessagesSound
  <2>4. NoOrphanFade'
    BY <1>2, <2>1 DEF IInv, NoOrphanFade, Idle
  <2>. QED  BY <2>2, <2>3, <2>4 DEF IInv, Control
<1>3. CASE LoadAction("audio") /\ state["audio"] \in Idle /\ IsValid("audio")
  <2>1. /\ state' = [state EXCEPT !["audio"] = "Loaded"]
        /\ UNCHANGED <<bounds, timer, async, exists, target, frd, ftimer, internal,
                       panicked, events, disturbed>>
        /\ internal = <<>> /\ exists
        /\ LoadStreams(FALSE)
    BY <1>3 DEF LoadAction, SetState, Verified, Idle, Command, Quiet, Present
  <2>2. StreamsSound' /\ MessagesSound' /\ LoadSound' /\ rd' \in Loads /\ valid' \in BOOLEAN
        /\ streams'[rd'].vol = "raw"
    BY <2>1, StreamsLoaded DEF IInv, Carried, MessagesSound
  <2>3. Control'
    BY <2>1, <2>2, PlaybackAssumption DEF IInv, Control, ActionTypes, DeletedSound, FadeSound, StreamMatchesState,
       PolledWhileActive, Acts, States, Idle, Running
  <2>4. NoOrphanFade'
    BY <2>2 DEF NoOrphanFade
  <2>. QED  BY <2>2, <2>3, <2>4 DEF IInv, Control
<1>. QED  BY <1>1, <1>2, <1>3 DEF Acts

LEMMA ExecuteKeeps ==
    ASSUME IInv, ExecuteAction("audio") \/ ExecuteAction("fade") PROVE IInv'
<1>1. ASSUME NEW a \in Acts, ExecuteAction(a), ~Executable(a) PROVE IInv'
  BY <1>1, RefusedKeeps DEF ExecuteAction, Command
<1>2. CASE ExecuteAction("audio") /\ Executable("audio")
  <2>1. /\ state' = [state EXCEPT !["audio"] = "Active"]
        /\ timer' = [timer EXCEPT !["audio"] = "Waiting"] /\ async' = async \cup {"audio"}
        /\ UNCHANGED <<bounds, exists, target, frd, ftimer, internal, panicked, events, disturbed>>
        /\ internal = <<>> /\ exists
    BY <1>2 DEF ExecuteAction, ExecuteAudio, Activate, Interest, SetState, Verified, Idle, Command, Quiet,
       Present
  <2>2. CASE state["audio"] \in {"Loaded", "Paused"} /\ streams' = OnRunning(Activated)
             /\ UNCHANGED <<valid, rd>>
    <3>1. rd # NoLoad
      BY <2>2 DEF IInv, StreamMatchesState, Running
    <3>2. StreamsSound' /\ MessagesSound' /\ LoadSound'
      BY <2>1, <2>2, Carry, RunningFollows DEF SameLoad, IInv, Carried, MessagesSound
    <3>3. Control'
      BY <2>1, <2>2, <3>1 DEF IInv, Control, ActionTypes, DeletedSound, FadeSound, StreamMatchesState,
         PolledWhileActive, Acts, States, Idle, Running, Timers
    <3>4. NoOrphanFade'
      BY <2>1, <2>2, <3>1, RunningVolume DEF IInv, NoOrphanFade, NotStarted
    <3>. QED  BY <3>2, <3>3, <3>4 DEF IInv, Control
  <2>3. CASE state["audio"] = "Inactive" /\ LoadStreams(TRUE)
    <3>1. StreamsSound' /\ MessagesSound' /\ LoadSound' /\ rd' \in Loads /\ valid' \in BOOLEAN
          /\ streams'[rd'].vol = "raw"
      BY <2>1, <2>3, StreamsLoaded DEF IInv, Carried, MessagesSound
    <3>2. Control'
      BY <2>1, <3>1, PlaybackAssumption DEF IInv, Control, ActionTypes, DeletedSound, FadeSound,
         StreamMatchesState, PolledWhileActive, Acts, States, Idle, Running, Timers
    <3>3. NoOrphanFade'
      BY <3>1 DEF NoOrphanFade
    <3>. QED  BY <3>1, <3>2, <3>3 DEF IInv, Control
  <2>. QED  BY <1>2, <2>2, <2>3 DEF ExecuteAction, ExecuteAudio
<1>3. CASE ExecuteAction("fade") /\ Executable("fade")
  <2>1. /\ UNCHANGED <<bounds, exists, valid, rd, target, internal, events, disturbed>>
        /\ ~panicked /\ state["fade"] # "Active"
    BY <1>3 DEF ExecuteAction, ExecuteFade, Command, Quiet, Executable
  <2>2. CASE panicked' = TRUE /\ UNCHANGED <<state, timer, async, frd, ftimer, streams>>
    <3>1. StreamsSound' /\ MessagesSound' /\ LoadSound'
      BY <2>1, <2>2, Carry DEF OneStep, SameLoad, IInv, Carried, MessagesSound
    <3>2. Control' /\ NoOrphanFade'
      BY <2>1, <2>2 DEF IInv, Control, ActionTypes, DeletedSound, FadeSound, StreamMatchesState,
         PolledWhileActive, NoOrphanFade
    <3>. QED  BY <3>1, <3>2 DEF IInv, Control
  <2>3. CASE SetState("fade", "Errored") /\ UNCHANGED <<timer, async, frd, ftimer, streams, panicked>>
    <3>1. state' = [state EXCEPT !["fade"] = "Errored"]
      BY <2>3 DEF SetState, Verified, Idle
    <3>2. StreamsSound' /\ MessagesSound' /\ LoadSound'
      BY <2>1, <2>3, Carry DEF OneStep, SameLoad, IInv, Carried, MessagesSound
    <3>3. Control' /\ NoOrphanFade'
      BY <2>1, <2>3, <3>1 DEF IInv, Control, ActionTypes, DeletedSound, FadeSound, StreamMatchesState,
         PolledWhileActive, NoOrphanFade, Acts, States, Idle, Running
    <3>. QED  BY <3>2, <3>3 DEF IInv, Control
  <2>4. CASE /\ TargetRuns /\ frd' = TRUE /\ UNCHANGED panicked
             /\ streams' = OnRunning(Fading) /\ ftimer' = "Waiting" /\ Activate("fade")
    <3>1. /\ state' = [state EXCEPT !["fade"] = "Active"]
          /\ timer' = [timer EXCEPT !["fade"] = "Waiting"] /\ async' = async \cup {"fade"}
      BY <2>4 DEF Activate, Interest, SetState, Verified, Idle
    <3>2. StreamsSound' /\ MessagesSound' /\ LoadSound'
      BY <2>1, <2>4, Carry, RunningFollows DEF SameLoad, IInv, Carried, MessagesSound
    <3>3. Control' /\ NoOrphanFade'
      BY <2>1, <2>4, <3>1 DEF IInv, Control, ActionTypes, DeletedSound, FadeSound, StreamMatchesState,
         PolledWhileActive, NoOrphanFade, Acts, States, Idle, Running, Timers
    <3>. QED  BY <3>2, <3>3 DEF IInv, Control
  <2>5. CASE /\ TargetRuns /\ frd' = TRUE /\ UNCHANGED panicked
             /\ streams' = OnRunning(Faded) /\ SetState("fade", "Inactive")
             /\ UNCHANGED <<timer, async, ftimer>>
    <3>1. state' = [state EXCEPT !["fade"] = Verified("Inactive", IsValid("fade"))]
          /\ Verified("Inactive", IsValid("fade")) \in Idle
      BY <2>5 DEF SetState, Verified, Idle
    <3>2. StreamsSound' /\ MessagesSound' /\ LoadSound'
      BY <2>1, <2>5, Carry, RunningFollows DEF SameLoad, IInv, Carried, MessagesSound
    <3>3. Control'
      BY <2>1, <2>5, <3>1 DEF IInv, Control, ActionTypes, DeletedSound, FadeSound, StreamMatchesState,
         PolledWhileActive, Acts, States, Idle, Running
    <3>4. NoOrphanFade'
      BY <2>1, <2>5, RunningVolume DEF IInv, NoOrphanFade, TargetRuns
    <3>. QED  BY <3>2, <3>3, <3>4 DEF IInv, Control
  <2>. QED  BY <1>3, <2>2, <2>3, <2>4, <2>5 DEF ExecuteAction, ExecuteFade
<1>. QED  BY <1>1, <1>2, <1>3 DEF Acts

(* Freezing what the fade moved, before it becomes anything but active *)
LEMMA FreezeFollows ==
    ASSUME IInv, Freeze, UNCHANGED <<rd, panicked>>
    PROVE  /\ StreamsSound' /\ LoadSound' /\ Carried
           /\ NoOrphanFade'
<1>1. OneStep
  <2>1. CASE frd /\ exists
    BY <2>1, RunningFollows DEF Freeze, IInv
  <2>2. CASE ~(frd /\ exists)
    BY <2>2 DEF Freeze, OneStep
  <2>. QED  BY <2>1, <2>2
<1>2. StreamsSound' /\ LoadSound' /\ Carried
  BY <1>1, Carry DEF SameLoad, IInv
<1>3. NoOrphanFade'
  <2>. SUFFICES ASSUME rd # NoLoad, ~panicked PROVE streams'[rd].vol # "fading"
    BY DEF NoOrphanFade
  <2>1. exists
    BY DEF IInv, DeletedSound
  <2>2. CASE frd
    BY <2>1, <2>2, RunningVolume DEF Freeze, IInv
  <2>3. CASE ~frd
    BY <2>1, <2>3 DEF Freeze, IInv, FadeSound, NoOrphanFade
  <2>. QED  BY <2>2, <2>3
<1>. QED  BY <1>2, <1>3

LEMMA PauseKeeps ==
    ASSUME IInv, PauseAction("audio") \/ PauseAction("fade") PROVE IInv'
<1>1. ASSUME NEW a \in Acts, PauseAction(a), ~CanPause(a) PROVE IInv'
  BY <1>1, RefusedKeeps DEF PauseAction, Command
<1>2. CASE PauseAction("audio") /\ CanPause("audio")
  <2>1. /\ state' = [state EXCEPT !["audio"] = "Paused"] /\ streams' = OnRunning(Deactivated)
        /\ rd # NoLoad /\ exists
        /\ UNCHANGED <<bounds, timer, async, exists, valid, rd, target, frd, ftimer, internal,
                       panicked, events, disturbed>>
    BY <1>2 DEF PauseAction, CanPause, SetState, Verified, Idle, Command, Present
  <2>2. StreamsSound' /\ MessagesSound' /\ LoadSound'
    BY <2>1, Carry, RunningFollows DEF SameLoad, IInv, Carried, MessagesSound
  <2>3. Control'
    BY <2>1 DEF IInv, Control, ActionTypes, DeletedSound, FadeSound, StreamMatchesState,
       PolledWhileActive, Acts, States, Idle, Running
  <2>4. NoOrphanFade'
    BY <2>1, RunningVolume DEF IInv, NoOrphanFade, NotStarted
  <2>. QED  BY <2>2, <2>3, <2>4 DEF IInv, Control
<1>3. CASE PauseAction("fade") /\ CanPause("fade")
  <2>1. /\ state' = [state EXCEPT !["fade"] = "Paused"] /\ Freeze /\ ftimer' = "Empty"
        /\ UNCHANGED <<bounds, timer, async, exists, valid, rd, target, frd, internal,
                       panicked, events, disturbed>>
    BY <1>3 DEF PauseAction, SetState, Verified, Idle
  <2>2. StreamsSound' /\ MessagesSound' /\ LoadSound' /\ NoOrphanFade'
    BY <2>1, FreezeFollows DEF Carried, MessagesSound
  <2>3. Control'
    BY <2>1 DEF IInv, Control, ActionTypes, DeletedSound, FadeSound, StreamMatchesState,
       PolledWhileActive, Acts, States, Idle, Running, Timers
  <2>. QED  BY <2>2, <2>3 DEF IInv, Control
<1>. QED  BY <1>1, <1>2, <1>3 DEF Acts

(* Resetting an action, by a command or a message *)
LEMMA ResetFollows ==
    ASSUME IInv, NEW a \in Acts, Present(a), Reset(a), UNCHANGED <<bounds, disturbed>>
    PROVE  Control' /\ StreamsSound' /\ LoadSound' /\ Carried /\ NoOrphanFade'
<1>1. /\ state' = [state EXCEPT ![a] = Verified("Inactive", IsValid(a))]
      /\ Verified("Inactive", IsValid(a)) \in Idle
      /\ UNCHANGED <<timer, async, exists, valid, target, panicked>>
  BY DEF Reset, SetState, Verified, Idle
<1>2. CASE a = "audio"
  <2>1. rd' = NoLoad /\ streams' = OnRunning(QuitSent) /\ UNCHANGED <<frd, ftimer>> /\ exists
    BY <1>2 DEF Reset, ResetAudio, Present
  <2>2. StreamsSound' /\ LoadSound' /\ Carried
    BY <2>1, Carry, RunningFollows DEF SameLoad, IInv
  <2>3. Control'
    BY <1>1, <1>2, <2>1 DEF IInv, Control, ActionTypes, DeletedSound, FadeSound, StreamMatchesState,
       PolledWhileActive, Acts, States, Idle, Running
  <2>4. NoOrphanFade'
    BY <2>1 DEF NoOrphanFade
  <2>. QED  BY <2>2, <2>3, <2>4
<1>3. CASE a = "fade"
  <2>1. ftimer' = "Empty" /\ Freeze /\ frd' = FALSE /\ UNCHANGED rd
    BY <1>3 DEF Reset, ResetFade
  <2>2. StreamsSound' /\ LoadSound' /\ Carried /\ NoOrphanFade'
    BY <1>1, <2>1, FreezeFollows
  <2>3. Control'
    BY <1>1, <1>3, <2>1 DEF IInv, Control, ActionTypes, DeletedSound, FadeSound, StreamMatchesState,
       PolledWhileActive, Acts, States, Idle, Running, Timers
  <2>. QED  BY <2>2, <2>3
<1>. QED  BY <1>2, <1>3 DEF Acts

LEMMA ResetKeeps ==
    ASSUME IInv, NEW a \in Acts, ResetAction(a) PROVE IInv'
<1>1. Control' /\ StreamsSound' /\ LoadSound' /\ Carried /\ NoOrphanFade'
  BY ResetFollows DEF ResetAction, Command
<1>. QED  BY <1>1 DEF IInv, Control, Carried, MessagesSound, ResetAction

LEMMA EditsKeep ==
    ASSUME IInv, UpdateAudioParams \/ UpdateFadeParams \/ DeleteAction \/ ReviveAction
    PROVE  IInv'
<1>1. CASE UpdateAudioParams
  <2>1. /\ UNCHANGED <<bounds, timer, async, exists, rd, target, frd, ftimer, events, internal,
                       panicked, disturbed>>
        /\ valid' \in BOOLEAN /\ exists
        /\ streams' = IF rd = NoLoad THEN streams
                      ELSE [streams EXCEPT ![rd] = [streams[rd] EXCEPT !.vol = "raw"]]
        /\ state' = [state EXCEPT !["audio"] = Verified(state["audio"], valid')]
    BY <1>1 DEF UpdateAudioParams, OnRunning, Command, Present
  <2>2. OneStep /\ (rd # NoLoad => streams'[rd].vol = "raw")
    <3>1. CASE rd = NoLoad
      BY <2>1, <3>1 DEF OneStep
    <3>2. CASE rd # NoLoad
      <4>1. rd \in Loads /\ streams[rd] \in Stream /\ streams[rd].spool # "none" /\ Unused(streams[rd])
        BY <3>2 DEF IInv, ActionTypes, StreamsSound, LoadSound
      <4>. DEFINE t == [streams[rd] EXCEPT !.vol = "raw"]
      <4>2. Follows(t, streams[rd]) /\ t.vol = "raw" /\ t \in Stream
        BY <4>1, ControlFollows DEF Follows
      <4>3. streams' = [streams EXCEPT ![rd] = t]
        BY <2>1, <3>2
      <4>. HIDE DEF t
      <4>. QED  BY <4>1, <4>2, <4>3 DEF OneStep, IInv, StreamsSound
    <3>. QED  BY <3>1, <3>2
  <2>3. StreamsSound' /\ MessagesSound' /\ LoadSound'
    BY <2>1, <2>2, Carry DEF SameLoad, IInv, Carried, MessagesSound
  <2>4. Verified(state["audio"], valid') \in States
        /\ (state["audio"] \in Idle <=> Verified(state["audio"], valid') \in Idle)
        /\ (state["audio"] \notin Idle => Verified(state["audio"], valid') = state["audio"])
    BY VerifiedState DEF IInv, ActionTypes, Acts
  <2>5. Control' /\ NoOrphanFade'
    BY <2>1, <2>2, <2>4 DEF IInv, Control, ActionTypes, DeletedSound, FadeSound, StreamMatchesState,
       PolledWhileActive, NoOrphanFade, Acts, Idle, Running
  <2>. QED  BY <2>3, <2>5 DEF IInv, Control
<1>2. CASE UpdateFadeParams
  <2>1. /\ UNCHANGED <<bounds, timer, async, exists, valid, rd, frd, ftimer, streams, events,
                       internal, panicked, disturbed>>
        /\ target' \in BOOLEAN
        /\ state' = [state EXCEPT !["fade"] = Verified(state["fade"], target' /\ exists)]
    BY <1>2 DEF UpdateFadeParams
  <2>2. StreamsSound' /\ MessagesSound' /\ LoadSound'
    BY <2>1, Carry DEF OneStep, SameLoad, IInv, Carried, MessagesSound
  <2>3. Verified(state["fade"], target' /\ exists) \in States
        /\ (state["fade"] \in Idle <=> Verified(state["fade"], target' /\ exists) \in Idle)
        /\ (state["fade"] \notin Idle => Verified(state["fade"], target' /\ exists) = state["fade"])
    BY VerifiedState DEF IInv, ActionTypes, Acts
  <2>4. Control' /\ NoOrphanFade'
    BY <2>1, <2>3 DEF IInv, Control, ActionTypes, DeletedSound, FadeSound, StreamMatchesState,
       PolledWhileActive, NoOrphanFade, Acts, Idle, Running
  <2>. QED  BY <2>2, <2>4 DEF IInv, Control
<1>3. CASE DeleteAction
  <2>1. /\ exists' = FALSE /\ rd' = NoLoad /\ state' = [state EXCEPT !["audio"] = "Inactive"]
        /\ timer' = [timer EXCEPT !["audio"] = "Empty"]
        /\ UNCHANGED <<bounds, async, valid, target, frd, ftimer, events, internal, panicked, disturbed>>
        /\ streams' = IF rd = NoLoad THEN streams
                      ELSE [streams EXCEPT ![rd] = [streams[rd] EXCEPT !.ctl = "dropped"]]
    BY <1>3 DEF DeleteAction, OnRunning
  <2>2. OneStep
    <3>1. CASE rd = NoLoad
      BY <2>1, <3>1 DEF OneStep
    <3>2. CASE rd # NoLoad
      <4>1. rd \in Loads /\ streams[rd] \in Stream /\ streams[rd].spool # "none" /\ Unused(streams[rd])
        BY <3>2 DEF IInv, ActionTypes, StreamsSound, LoadSound
      <4>. DEFINE t == [streams[rd] EXCEPT !.ctl = "dropped"]
      <4>2. Follows(t, streams[rd]) /\ t \in Stream
        BY <4>1, ControlFollows DEF Follows
      <4>3. streams' = [streams EXCEPT ![rd] = t]
        BY <2>1, <3>2
      <4>. HIDE DEF t
      <4>. QED  BY <4>1, <4>2, <4>3 DEF OneStep
    <3>. QED  BY <3>1, <3>2
  <2>3. StreamsSound' /\ MessagesSound' /\ LoadSound'
    BY <2>1, <2>2, Carry DEF SameLoad, IInv, Carried, MessagesSound
  <2>4. Control' /\ NoOrphanFade'
    BY <2>1 DEF IInv, Control, ActionTypes, DeletedSound, FadeSound, StreamMatchesState,
       PolledWhileActive, NoOrphanFade, Acts, States, Idle, Running, Timers
  <2>. QED  BY <2>3, <2>4 DEF IInv, Control
<1>4. CASE ReviveAction
  <2>1. /\ exists' = TRUE /\ ~exists
        /\ state' = [state EXCEPT !["audio"] = Verified("Inactive", valid)]
        /\ Verified("Inactive", valid) \in Idle
        /\ UNCHANGED <<bounds, timer, async, valid, rd, target, frd, ftimer, streams, events, internal,
                       panicked, disturbed>>
    BY <1>4 DEF ReviveAction, SetState, IsValid, Verified, Idle
  <2>2. StreamsSound' /\ MessagesSound' /\ LoadSound'
    BY <2>1, Carry DEF OneStep, SameLoad, IInv, Carried, MessagesSound
  <2>3. Control' /\ NoOrphanFade'
    BY <2>1 DEF IInv, Control, ActionTypes, DeletedSound, FadeSound, StreamMatchesState,
       PolledWhileActive, NoOrphanFade, Acts, States, Idle, Running
  <2>. QED  BY <2>2, <2>3 DEF IInv, Control
<1>. QED  BY <1>1, <1>2, <1>3, <1>4

-----------------------------------------------------------------------------
(* The event loop *)

LEMMA AudioKeeps ==
    ASSUME IInv, Internal, Audio PROVE IInv'
<1>. DEFINE m == Head(internal)
<1>1. /\ internal # <<>> /\ UNCHANGED <<bounds, mainVars, events, disturbed>>
  BY DEF Internal, Audio
<1>2. internal \in Seq(TrueMessages \cup TrueChanges) /\ m \in TrueMessages \cup TrueChanges
  BY <1>1 DEF IInv, MessagesSound
<1>3. m \in TrueMessages /\ m.load \in Loads /\ m.chan \in Chans
  BY <1>2 DEF Audio, Change, Changes, TrueChanges, TrueMessages, Messages, Noted
<1>4. OneStep /\ (rd # NoLoad => NotStarted(streams'[rd], streams[rd]))
  <2>1. CASE UNCHANGED streams
    BY <2>1 DEF OneStep, NotStarted
  <2>2. CASE rd = m.load /\ streams' = [streams EXCEPT ![rd].inbox = @ + 1]
             /\ streams[rd].spool # "gone" /\ exists
    <3>1. rd \in Loads /\ streams[rd] \in Stream /\ streams[rd].spool # "none" /\ Unused(streams[rd])
      BY <1>3, <2>2, PlaybackAssumption DEF IInv, ActionTypes, StreamsSound, LoadSound
    <3>. DEFINE t == [streams[rd] EXCEPT !.inbox = @ + 1]
    <3>2. Follows(t, streams[rd]) /\ NotStarted(t, streams[rd]) /\ t \in Stream
      BY <3>1, ControlFollows DEF Follows
    <3>3. streams' = [streams EXCEPT ![rd] = t]
      BY <2>2
    <3>. HIDE DEF t
    <3>. QED  BY <3>1, <3>2, <3>3 DEF OneStep, IInv, StreamsSound
  <2>. QED  BY <2>1, <2>2 DEF Audio, Wanted
<1>5. StreamsSound' /\ Carried /\ LoadSound'
  BY <1>1, <1>4, Carry DEF SameLoad, IInv, mainVars
<1>6. Tail(internal) \in Seq(TrueMessages' \cup TrueChanges')
  BY <1>1, <1>5, HeadTailProperties DEF Carried
<1>7. internal' \in Seq(TrueMessages' \cup TrueChanges')
  <2>1. CASE internal' = Tail(internal)
    BY <1>6, <2>1
  <2>2. CASE internal' = Append(Tail(internal), Change("audio", "Errored"))
    <3>1. Change("audio", "Errored") \in TrueChanges'
      BY DEF TrueChanges, Changes, Change
    <3>. QED  BY <1>6, <2>2, <3>1, AppendProperties
  <2>3. CASE /\ internal' = Tail(internal) \o <<Change("audio", "Inactive")>>
             /\ m.kind = "Removed" /\ rd = m.load /\ m.chan = 1 /\ UNCHANGED streams
    <3>1. streams[rd].players[1].place = "removed"
      BY <1>3, <2>3 DEF TrueMessages
    <3>2. Change("audio", "Inactive") \in TrueChanges'
      BY <1>1, <2>3, <3>1 DEF TrueChanges, Changes, mainVars
    <3>3. <<Change("audio", "Inactive")>> \in Seq(TrueMessages' \cup TrueChanges')
      BY <3>2
    <3>. QED  BY <1>6, <2>3, <3>3, ConcatProperties
  <2>4. CASE internal' = Tail(internal) \o <<>>
    BY <1>6, <2>4, ConcatEmptySeq
  <2>. QED  BY <2>1, <2>2, <2>3, <2>4 DEF Audio, Wanted, Ended
<1>8. MessagesSound'
  BY <1>1, <1>5, <1>7 DEF MessagesSound, Carried
<1>9. Control'
  BY <1>1 DEF mainVars, IInv, Control, ActionTypes, DeletedSound, FadeSound, StreamMatchesState,
     PolledWhileActive
<1>10. NoOrphanFade'
  BY <1>1, <1>4 DEF mainVars, IInv, NoOrphanFade, NotStarted
<1>. QED  BY <1>5, <1>8, <1>9, <1>10 DEF IInv, Control

LEMMA StateChangeKeeps ==
    ASSUME IInv, Internal, StateChange PROVE IInv'
<1>. DEFINE m == Head(internal)
<1>1. /\ internal # <<>> /\ internal' = Tail(internal) /\ UNCHANGED <<bounds, events, disturbed>>
  BY DEF Internal, StateChange
<1>2. internal \in Seq(TrueMessages \cup TrueChanges) /\ m \in TrueMessages \cup TrueChanges
  BY <1>1 DEF IInv, MessagesSound
<1>3. m \in TrueChanges /\ m.act \in Acts
  BY <1>2 DEF StateChange, Change, Changes, TrueChanges, TrueMessages, Messages, Noted, Acts
<1>4. Control' /\ StreamsSound' /\ LoadSound' /\ Carried /\ NoOrphanFade'
  <2>1. CASE Present(m.act) /\ Reset(m.act)
    BY <1>1, <1>3, <2>1, ResetFollows
  <2>2. CASE /\ Present(m.act)
             /\ SetState(m.act, IF m.to = "Errored" THEN "Errored" ELSE state[m.act])
             /\ UNCHANGED <<timer, async, exists, valid, rd, target, frd, ftimer, streams, panicked>>
    <3>. DEFINE s == IF m.to = "Errored" THEN "Errored" ELSE state[m.act]
    <3>1. s \in States /\ state' = [state EXCEPT ![m.act] = Verified(s, IsValid(m.act))]
      BY <1>3, <2>2 DEF SetState, IInv, ActionTypes, States
    <3>2. /\ Verified(s, IsValid(m.act)) \in States
          /\ (s \in Idle <=> Verified(s, IsValid(m.act)) \in Idle)
          /\ (s \notin Idle => Verified(s, IsValid(m.act)) = s)
      BY <3>1, VerifiedState
    <3>3. m.to = "Errored" => m.act = "audio"
      BY <1>3 DEF TrueChanges, Changes, Change
    <3>4. StreamsSound' /\ LoadSound' /\ Carried
      BY <2>2, Carry DEF OneStep, SameLoad, IInv
    <3>5. Control' /\ NoOrphanFade'
      BY <1>1, <1>3, <2>2, <3>1, <3>2, <3>3 DEF IInv, Control, ActionTypes, DeletedSound, FadeSound,
         StreamMatchesState, PolledWhileActive, NoOrphanFade, Present, Acts, Idle, Running
    <3>. QED  BY <3>4, <3>5
  <2>3. CASE UNCHANGED state
             /\ UNCHANGED <<timer, async, exists, valid, rd, target, frd, ftimer, streams, panicked>>
    <3>1. StreamsSound' /\ LoadSound' /\ Carried
      BY <2>3, Carry DEF OneStep, SameLoad, IInv
    <3>. QED  BY <1>1, <2>3, <3>1 DEF IInv, Control, ActionTypes, DeletedSound, FadeSound,
         StreamMatchesState, PolledWhileActive, NoOrphanFade
  <2>. QED  BY <2>1, <2>2, <2>3 DEF StateChange
<1>5. Tail(internal) \in Seq(TrueMessages' \cup TrueChanges')
  BY <1>1, <1>4, HeadTailProperties DEF Carried
<1>. QED  BY <1>1, <1>4, <1>5 DEF IInv, Control, MessagesSound, Carried

LEMMA WakeupKeeps ==
    ASSUME IInv, Wakeup PROVE IInv'
<1>1. /\ internal = <<>> /\ async' = {a \in Polled : Kept(a)}
      /\ internal' = IF "fade" \in Polled /\ FadeOver THEN <<Change("fade", "Inactive")>> ELSE <<>>
      /\ timer' = [a \in Acts |-> IF a \in Polled /\ timer[a] = "Due"
                                  THEN (IF state[a] = "Active" THEN "Waiting" ELSE "Empty") ELSE timer[a]]
      /\ state' = [a \in Acts |-> IF a \in Polled THEN Verified(state[a], IsValid(a)) ELSE state[a]]
      /\ UNCHANGED <<bounds, exists, valid, rd, target, frd, ftimer, streams, events, panicked, disturbed>>
  BY DEF Wakeup, Quiet
<1>2. /\ state' \in [Acts -> States]
      /\ \A b \in Acts : (state[b] \in Idle <=> state'[b] \in Idle)
                         /\ (state[b] \notin Idle => state'[b] = state[b])
                         /\ (b \notin Polled => state'[b] = state[b])
  BY <1>1, VerifiedState DEF IInv, ActionTypes
<1>3. StreamsSound' /\ LoadSound' /\ Carried
  BY <1>1, Carry DEF OneStep, SameLoad, IInv
<1>4. MessagesSound'
  <2>1. Change("fade", "Inactive") \in TrueChanges'
    BY DEF TrueChanges, Changes, Change
  <2>2. <<Change("fade", "Inactive")>> \in Seq(TrueMessages' \cup TrueChanges')
    BY <2>1
  <2>3. internal' \in Seq(TrueMessages' \cup TrueChanges')
    BY <1>1, <2>2, EmptySeq
  <2>. QED  BY <1>1, <1>3, <2>3 DEF Carried, MessagesSound
<1>5. /\ async' \subseteq Acts /\ Polled \subseteq async /\ timer' \in [Acts -> Timers]
  BY <1>1 DEF IInv, ActionTypes, Polled, Timers
<1>6. PolledWhileActive'
  <2>. SUFFICES ASSUME NEW a \in Acts, state'[a] = "Active"
                PROVE  a \in async' /\ timer'[a] # "Empty"
    BY DEF PolledWhileActive
  <2>1. state[a] = "Active" /\ a \in async /\ timer[a] \in {"Waiting", "Due"}
    BY <1>2 DEF IInv, PolledWhileActive, Idle, ActionTypes, Timers
  <2>2. a \in Polled
    BY <2>1 DEF Polled, Present, IInv, DeletedSound, Acts
  <2>. QED  BY <1>1, <2>1, <2>2 DEF Kept
<1>7. DeletedSound'
  BY <1>1, <1>2 DEF IInv, DeletedSound, Polled, Present, Acts
<1>8. FadeSound' /\ StreamMatchesState' /\ NoOrphanFade'
  BY <1>1, <1>2 DEF IInv, FadeSound, StreamMatchesState, NoOrphanFade, Acts, States, Idle, Running
<1>9. ActionTypes'
  BY <1>1, <1>2, <1>5 DEF IInv, ActionTypes
<1>. QED  BY <1>3, <1>4, <1>6, <1>7, <1>8, <1>9 DEF IInv

LEMMA TimersKeep ==
    ASSUME IInv, Timer PROVE IInv'
<1>1. /\ UNCHANGED <<bounds, state, async, exists, valid, rd, target, frd, streams, events,
                     internal, panicked, disturbed>>
      /\ timer' \in [Acts -> Timers] /\ ftimer' \in Timers
      /\ \A a \in Acts : timer[a] # "Empty" => timer'[a] # "Empty"
  BY DEF Timer, TimerFires, FadeTimerFires, IInv, ActionTypes, Timers, Acts
<1>2. StreamsSound' /\ MessagesSound' /\ LoadSound'
  BY <1>1, Carry DEF OneStep, SameLoad, IInv, Carried, MessagesSound
<1>3. ActionTypes' /\ DeletedSound' /\ FadeSound' /\ StreamMatchesState' /\ NoOrphanFade'
  BY <1>1 DEF IInv, ActionTypes, DeletedSound, FadeSound, StreamMatchesState, NoOrphanFade
<1>4. PolledWhileActive'
  BY <1>1 DEF IInv, PolledWhileActive
<1>. QED  BY <1>2, <1>3, <1>4 DEF IInv

-----------------------------------------------------------------------------
(* The other threads *)

(* They change one stream and what is queued, not the actions. *)
LEMMA ThreadsKeep ==
    ASSUME IInv, UNCHANGED <<bounds, mainVars>>, disturbed' \in BOOLEAN,
           NEW l \in Loads, NEW t, Follows(t, streams[l]), NotStarted(t, streams[l]),
           streams' = [streams EXCEPT ![l] = t]
    PROVE  /\ Control' /\ StreamsSound' /\ LoadSound' /\ NoOrphanFade'
           /\ Carried
<1>1. OneStep
  BY DEF OneStep, Follows
<1>2. StreamsSound' /\ LoadSound' /\ Carried
  BY <1>1, Carry DEF SameLoad, IInv, mainVars
<1>3. Control'
  BY DEF mainVars, IInv, Control, ActionTypes, DeletedSound, FadeSound, StreamMatchesState,
     PolledWhileActive
<1>4. NoOrphanFade'
  BY DEF mainVars, IInv, ActionTypes, StreamsSound, NoOrphanFade, NotStarted
<1>. QED  BY <1>2, <1>3, <1>4

LEMMA SpoolKeeps ==
    ASSUME IInv, NEW l \in Loads, Spool(l) PROVE IInv'
<1>. DEFINE s == streams[l]
<1>1. s \in Stream /\ Unused(s) /\ s.spool # "none"
  BY DEF IInv, StreamsSound, Spool
<1>2. UNCHANGED <<bounds, mainVars, events, disturbed>> /\ disturbed' \in BOOLEAN
  BY DEF Spool, IInv, ActionTypes
<1>3. PICK t : /\ Follows(t, s) /\ NotStarted(t, s) /\ streams' = [streams EXCEPT ![l] = t]
               /\ internal' = internal \/ internal' = Append(internal, Change("audio", "Errored"))
  BY <1>1, SpoolFollows DEF Spool
<1>4. Control' /\ StreamsSound' /\ LoadSound' /\ NoOrphanFade' /\ Carried
  <2>1. Follows(t, streams[l]) /\ NotStarted(t, streams[l]) /\ streams' = [streams EXCEPT ![l] = t]
    BY <1>3
  <2>. HIDE DEF s
  <2>. QED  BY <1>2, <2>1, ThreadsKeep
<1>5. MessagesSound'
  <2>1. Change("audio", "Errored") \in TrueChanges'
    BY DEF TrueChanges, Changes, Change
  <2>. QED  BY <1>2, <1>3, <1>4, <2>1, AppendProperties DEF Carried, MessagesSound
<1>. QED  BY <1>4, <1>5 DEF IInv, Control

(* The audio thread changes a Player that it has been given. *)
LEMMA PlayerKeeps ==
    ASSUME IInv, EngineFrame, disturbed' \in BOOLEAN, NEW l \in Loads, NEW c \in Chans,
           streams[l].players[c].place \in {"queue", "list"},
           NEW p \in Player, SetPlayer(l, c, p)
    PROVE  Control' /\ StreamsSound' /\ LoadSound' /\ NoOrphanFade' /\ Carried
           /\ streams'[l].players[c] = p
<1>. DEFINE s == streams[l]
            ps == [s.players EXCEPT ![c] = p]
            t == [s EXCEPT !.players = ps]
<1>1. s \in Stream /\ Unused(s) /\ s.spool # "none"
  BY DEF IInv, StreamsSound, Unused
<1>2. ps \in [Chans -> Player] /\ \A d \in Chans : s.players[d].place = "removed" => ps[d].place = "removed"
  BY <1>1 DEF Stream
<1>3. Follows(t, s) /\ NotStarted(t, s)
  BY <1>1, <1>2, PlayersFollow
<1>4. streams' = [streams EXCEPT ![l] = t]
  BY DEF SetPlayer
<1>5. streams'[l].players[c] = p
  BY <1>1, <1>4 DEF IInv, StreamsSound, Stream
<1>. HIDE DEF t
<1>. QED  BY <1>3, <1>4, <1>5, ThreadsKeep DEF EngineFrame

(* What is put in the audio thread's queue, if it fits, is true. *)
LEMMA ReportKeeps ==
    ASSUME Carried, NEW l \in Loads, NEW c \in Chans, NEW kind \in Kinds,
           Report(kind, l, c), kind = "Removed" => streams'[l].players[c].place = "removed",
           UNCHANGED internal
    PROVE  MessagesSound'
<1>1. [kind |-> kind, load |-> l, chan |-> c] \in TrueMessages'
  BY DEF TrueMessages, Messages, Kinds
<1>2. /\ events \in Seq(TrueMessages') /\ internal' \in Seq(TrueMessages' \cup TrueChanges')
  BY DEF Carried
<1>3. CASE UNCHANGED events
  BY <1>2, <1>3 DEF MessagesSound
<1>4. CASE events' = Append(events, [kind |-> kind, load |-> l, chan |-> c])
  <2>1. events' \in Seq(TrueMessages')
    BY <1>1, <1>2, <1>4, AppendProperties
  <2>. QED  BY <1>2, <2>1 DEF MessagesSound
<1>. QED  BY <1>3, <1>4 DEF Report

LEMMA EngineKeeps ==
    ASSUME IInv, NEW l \in Loads, NEW c \in Chans, Engine(l, c) PROVE IInv'
<1>. DEFINE p == streams[l].players[c]
<1>1. p \in Player /\ p.buf \in 0..BufferSize
  BY DEF IInv, StreamsSound, Stream, Player
<1>2. /\ UNCHANGED <<bounds, mainVars, internal>> /\ EngineFrame
      /\ p.place \in {"queue", "list"}
  BY DEF Engine, AddPlayer, Play, Remove, EngineFrame
<1>3. disturbed' \in BOOLEAN
  BY DEF Engine, AddPlayer, Play, Starve, Skip, Deliver, Remove, Report, IInv, ActionTypes
<1>4. CASE \E q \in Player : SetPlayer(l, c, q) /\ UNCHANGED events
  <2>1. Control' /\ StreamsSound' /\ LoadSound' /\ NoOrphanFade' /\ Carried
    BY <1>2, <1>3, <1>4, PlayerKeeps
  <2>. QED  BY <1>2, <1>4, <2>1 DEF IInv, Control, Carried, MessagesSound
<1>5. CASE \E q \in Player, kind \in Kinds :
              SetPlayer(l, c, q) /\ Report(kind, l, c) /\ (kind = "Removed" => q.place = "removed")
  <2>1. PICK q \in Player, kind \in Kinds :
              SetPlayer(l, c, q) /\ Report(kind, l, c) /\ (kind = "Removed" => q.place = "removed")
    BY <1>5
  <2>2. Control' /\ StreamsSound' /\ LoadSound' /\ NoOrphanFade' /\ Carried
        /\ streams'[l].players[c] = q
    BY <1>2, <1>3, <2>1, PlayerKeeps
  <2>3. MessagesSound'
    BY <1>2, <2>1, <2>2, ReportKeeps
  <2>. QED  BY <2>2, <2>3 DEF IInv, Control
<1>6. CASE AddPlayer(l, c)
  <2>1. [p EXCEPT !.place = "list", !.alive = TRUE] \in Player
        /\ [p EXCEPT !.place = "rejected"] \in Player
    BY <1>1 DEF Player
  <2>2. {"Added", "Rejected"} \subseteq Kinds /\ "Removed" \notin {"Added", "Rejected"}
    BY DEF Kinds, Noted
  <2>. QED  BY <1>5, <1>6, <2>1, <2>2 DEF AddPlayer
<1>7. CASE Play(l, c)
  <2>1. CASE Starve(l, c)
    <3>1. [p EXCEPT !.alive = FALSE] \in Player /\ [p EXCEPT !.emptySent = TRUE] \in Player
      BY <1>1 DEF Player
    <3>. QED  BY <1>4, <1>5, <2>1, <3>1 DEF Starve, Kinds
  <2>2. CASE Skip(l, c)
    <3>1. [p EXCEPT !.buf = 0] \in Player
      BY <1>1, PlaybackAssumption DEF Player
    <3>. QED  BY <1>4, <2>2, <3>1 DEF Skip
  <2>3. CASE Deliver(l, c)
    <3>1. PICK low \in BOOLEAN : low = (p.buf * 2 < BufferSize)
      <4>1. CASE p.buf * 2 < BufferSize
        <5>1. TRUE = (p.buf * 2 < BufferSize)
          BY <4>1, Zenon
        <5>. QED  BY <5>1, Zenon
      <4>2. CASE ~(p.buf * 2 < BufferSize)
        <5>1. FALSE = (p.buf * 2 < BufferSize)
          BY <4>2, <1>1, PlaybackAssumption, SMT
        <5>. QED  BY <5>1, Zenon
      <4>. QED  BY <4>1, <4>2, Zenon
    <3>. DEFINE told == [p EXCEPT !.halfSent = low]
                played == [told EXCEPT !.buf = @ - 1]
                halted == [told EXCEPT !.active = FALSE]
    <3>2. told \in Player /\ told.buf = p.buf
      BY <1>1 DEF Player
    <3>3. p.buf > 0 /\ p.buf - 1 \in 0..BufferSize
      BY <1>1, <2>3, PlaybackAssumption DEF Deliver
    <3>. HIDE DEF told
    <3>4. played \in Player /\ halted \in Player
      BY <3>2, <3>3 DEF Player
    <3>5. \/ SetPlayer(l, c, played) /\ (Report("BufHalf", l, c) \/ UNCHANGED events)
          \/ SetPlayer(l, c, told) /\ Report("BufHalf", l, c)
          \/ SetPlayer(l, c, halted) /\ Report("InvalidOutpatch", l, c)
      BY <2>3, <3>1 DEF Deliver, Half, told
    <3>6. {"BufHalf", "InvalidOutpatch"} \subseteq Kinds
      BY DEF Kinds, Noted
    <3>. HIDE DEF played, halted
    <3>. QED  BY <1>4, <1>5, <3>2, <3>4, <3>5, <3>6
  <2>. QED  BY <1>7, <2>1, <2>2, <2>3 DEF Play
<1>8. CASE Remove(l, c)
  <2>1. [p EXCEPT !.place = "removed"] \in Player /\ [p EXCEPT !.place = "removed"].place = "removed"
    BY <1>1 DEF Player
  <2>. QED  BY <1>5, <1>8, <2>1 DEF Remove, Kinds
<1>. QED  BY <1>6, <1>7, <1>8 DEF Engine

LEMMA ForwardKeeps ==
    ASSUME IInv, Forward PROVE IInv'
<1>1. UNCHANGED <<bounds, mainVars, streams, disturbed>> /\ events # <<>>
      /\ internal' = Append(internal, Head(events)) /\ events' = Tail(events)
  BY DEF Forward
<1>2. StreamsSound' /\ LoadSound' /\ Carried
  BY <1>1, Carry DEF OneStep, SameLoad, IInv, mainVars
<1>3. MessagesSound'
  <2>1. Tail(events) \in Seq(TrueMessages') /\ Head(events) \in TrueMessages'
    BY <1>1, <1>2, HeadTailProperties DEF Carried
  <2>. QED  BY <1>1, <1>2, <2>1, AppendProperties DEF Carried, MessagesSound
<1>4. Control' /\ NoOrphanFade'
  BY <1>1 DEF mainVars, IInv, Control, ActionTypes, DeletedSound, FadeSound, StreamMatchesState,
     PolledWhileActive, NoOrphanFade
<1>. QED  BY <1>2, <1>3, <1>4 DEF IInv, Control

-----------------------------------------------------------------------------

LEMMA InitIInv == Init => IInv
<1>. SUFFICES ASSUME Init PROVE IInv
  OBVIOUS
<1>1. NoPlayer \in Player
  BY PlaybackAssumption DEF NoPlayer, Player
<1>2. NoStream \in Stream /\ Unused(NoStream) /\ NoStream.vol = "raw"
  BY <1>1 DEF NoStream, Stream, Unused, NoPlayer
<1>3. StreamsSound
  BY <1>2 DEF Init, StreamsSound
<1>4. MessagesSound
  BY DEF Init, MessagesSound
<1>5. Control
  BY DEF Init, Control, ActionTypes, DeletedSound, FadeSound, StreamMatchesState, PolledWhileActive,
     Acts, States, Idle, Running, Timers
<1>6. LoadSound /\ NoOrphanFade
  BY DEF Init, LoadSound, NoOrphanFade
<1>. QED  BY <1>3, <1>4, <1>5, <1>6 DEF IInv, Control

LEMMA StepIInv == IInv /\ [Next]_vars => IInv'
<1>. SUFFICES ASSUME IInv, [Next]_vars PROVE IInv'
  OBVIOUS
<1>1. CASE UNCHANGED vars
  <2>1. StreamsSound' /\ LoadSound' /\ Carried
    BY <1>1, Carry DEF OneStep, SameLoad, IInv, vars, mainVars
  <2>. QED  BY <1>1, <2>1 DEF vars, mainVars, IInv, Carried, MessagesSound, ActionTypes, DeletedSound,
       FadeSound, StreamMatchesState, PolledWhileActive, NoOrphanFade
<1>2. CASE Commands
  BY <1>2, LoadKeeps, ExecuteKeeps, PauseKeeps, ResetKeeps, EditsKeep DEF Commands, Acts
<1>3. CASE Internal
  BY <1>3, AudioKeeps, StateChangeKeeps DEF Internal
<1>4. CASE Next /\ ~Commands /\ ~Internal
  BY <1>4, WakeupKeeps, TimersKeep, ForwardKeeps, SpoolKeeps, EngineKeeps DEF Next
<1>. QED  BY <1>1, <1>2, <1>3, <1>4

-----------------------------------------------------------------------------
(* Whoever waits for room in a buffer is asked for more.  While the        *)
(* spooler of the running load waits, a request for data is under way, or  *)
(* its first stream is still going to make one: it has not told that it is *)
(* empty, or has something left and will tell when it is half empty.       *)

Asks(m, l) == m.kind \in {"BufHalf", "BufEmpty"} /\ m.load = l
Queued(q, l) == \E i \in DOMAIN q : Asks(q[i], l)
UnderWay(l) == Queued(events, l) \/ Queued(internal, l)
WillAsk(p) == ~p.emptySent \/ (p.buf > 0 /\ (p.buf * 2 >= BufferSize \/ ~p.halfSent))

RefillSound ==
    rd # NoLoad /\ streams[rd].spool = "wait" /\ ~disturbed
      => streams[rd].inbox > 0 \/ UnderWay(rd) \/ WillAsk(streams[rd].players[1])

(* Nothing is done to the spooler and the buffer of the first stream. *)
Steady(t, s) ==
    t.spool = "wait" =>
        /\ s.spool = "wait" /\ t.inbox = s.inbox
        /\ t.players[1].buf = s.players[1].buf
        /\ t.players[1].halfSent = s.players[1].halfSent
        /\ t.players[1].emptySent = s.players[1].emptySent
RunningSteady == rd # NoLoad => Steady(streams'[rd], streams[rd])
StillUnderWay == \A l \in Loads : UnderWay(l) => UnderWay(l)'

LEMMA RefillKept ==
    ASSUME IInv, RefillSound, SameLoad, RunningSteady, StillUnderWay, disturbed => disturbed'
    PROVE  RefillSound'
<1>. SUFFICES ASSUME rd' # NoLoad, streams'[rd'].spool = "wait", ~disturbed'
              PROVE  streams'[rd'].inbox > 0 \/ UnderWay(rd)' \/ WillAsk(streams'[rd'].players[1])
  BY DEF RefillSound, WillAsk
<1>1. rd' = rd /\ rd # NoLoad /\ rd \in Loads
  BY DEF SameLoad, IInv, ActionTypes
<1>2. /\ streams[rd].spool = "wait" /\ streams'[rd].inbox = streams[rd].inbox
      /\ WillAsk(streams[rd].players[1]) => WillAsk(streams'[rd].players[1])
  BY <1>1 DEF RunningSteady, Steady, WillAsk
<1>3. streams[rd].inbox > 0 \/ UnderWay(rd) \/ WillAsk(streams[rd].players[1])
  BY <1>1, <1>2 DEF RefillSound
<1>4. CASE UnderWay(rd)
  <2>1. PICK l \in Loads : l = rd
    BY <1>1
  <2>2. UnderWay(l)'
    BY <1>4, <2>1 DEF StillUnderWay
  <2>. QED  BY <1>1, <2>1, <2>2 DEF UnderWay
<1>. QED  BY <1>1, <1>2, <1>3, <1>4

LEMMA FlagsSteady ==
    ASSUME NEW s \in Stream
    PROVE  /\ Steady(Activated(s), s) /\ Steady(Deactivated(s), s) /\ Steady(QuitSent(s), s)
           /\ Steady(Frozen(s), s) /\ Steady(Fading(s), s) /\ Steady(Faded(s), s)
           /\ Steady([s EXCEPT !.vol = "raw"], s)
<1>. DEFINE on == [c \in Chans |-> [s.players[c] EXCEPT !.active = TRUE]]
            off == [c \in Chans |-> [s.players[c] EXCEPT !.active = FALSE]]
<1>1. s.players[1] \in Player /\ 1 \in Chans
  BY PlaybackAssumption DEF Stream
<1>2. /\ on[1].buf = s.players[1].buf /\ on[1].halfSent = s.players[1].halfSent
      /\ on[1].emptySent = s.players[1].emptySent
      /\ off[1].buf = s.players[1].buf /\ off[1].halfSent = s.players[1].halfSent
      /\ off[1].emptySent = s.players[1].emptySent
  BY <1>1 DEF Player
<1>3. Activated(s) = [[s EXCEPT !.players = on] EXCEPT !.started = TRUE, !.vol = IF s.started THEN @ ELSE "raw"]
  BY DEF Activated, OnPlayers
<1>4. Deactivated(s) = [s EXCEPT !.players = off]
  BY DEF Deactivated, OnPlayers
<1>. HIDE DEF on, off
<1>5. /\ Activated(s).spool = s.spool /\ Activated(s).inbox = s.inbox /\ Activated(s).players = on
      /\ Deactivated(s).spool = s.spool /\ Deactivated(s).inbox = s.inbox
      /\ Deactivated(s).players = off
  BY <1>3, <1>4 DEF Stream
<1>6. Steady(Activated(s), s) /\ Steady(Deactivated(s), s)
  BY <1>2, <1>5 DEF Steady
<1>7. /\ Steady(QuitSent(s), s) /\ Steady(Frozen(s), s) /\ Steady(Fading(s), s)
      /\ Steady(Faded(s), s) /\ Steady([s EXCEPT !.vol = "raw"], s)
  BY DEF QuitSent, Frozen, Fading, Faded, Steady, Stream
<1>. QED  BY <1>6, <1>7

LEMMA OnRunningSteady ==
    ASSUME IInv
    PROVE  /\ streams' = streams => RunningSteady
           /\ streams' = OnRunning(Activated) => RunningSteady
           /\ streams' = OnRunning(Deactivated) => RunningSteady
           /\ streams' = OnRunning(QuitSent) => RunningSteady
           /\ streams' = OnRunning(Frozen) => RunningSteady
           /\ streams' = OnRunning(Fading) => RunningSteady
           /\ streams' = OnRunning(Faded) => RunningSteady
<1>. SUFFICES ASSUME rd # NoLoad
              PROVE  /\ streams' = streams => RunningSteady
                     /\ streams' = OnRunning(Activated) => RunningSteady
                     /\ streams' = OnRunning(Deactivated) => RunningSteady
                     /\ streams' = OnRunning(QuitSent) => RunningSteady
                     /\ streams' = OnRunning(Frozen) => RunningSteady
                     /\ streams' = OnRunning(Fading) => RunningSteady
                     /\ streams' = OnRunning(Faded) => RunningSteady
  BY DEF RunningSteady
<1>1. rd \in Loads /\ streams[rd] \in Stream /\ DOMAIN streams = Loads
  BY DEF IInv, ActionTypes, StreamsSound
<1>2. /\ streams' = OnRunning(Activated) => streams'[rd] = Activated(streams[rd])
      /\ streams' = OnRunning(Deactivated) => streams'[rd] = Deactivated(streams[rd])
      /\ streams' = OnRunning(QuitSent) => streams'[rd] = QuitSent(streams[rd])
      /\ streams' = OnRunning(Frozen) => streams'[rd] = Frozen(streams[rd])
      /\ streams' = OnRunning(Fading) => streams'[rd] = Fading(streams[rd])
      /\ streams' = OnRunning(Faded) => streams'[rd] = Faded(streams[rd])
  BY <1>1 DEF OnRunning
<1>3. streams' = streams => RunningSteady
  BY DEF RunningSteady, Steady
<1>. QED  BY <1>1, <1>2, <1>3, FlagsSteady DEF RunningSteady

(* A spooler begins by reading. *)
LEMMA LoadedReads ==
    ASSUME IInv, internal = <<>>, NEW start \in BOOLEAN, LoadStreams(start)
    PROVE  RefillSound'
<1>1. PICK patched \in SUBSET bounds.chans, bad \in BOOLEAN :
        streams' = [streams EXCEPT ![NextLoad] =
            IF start THEN Activated(Spooled(patched, bad)) ELSE Spooled(patched, bad)]
  BY DEF LoadStreams
<1>. DEFINE t == Spooled(patched, bad)
            u == IF start THEN Activated(t) ELSE t
<1>2. NextLoad \in Loads /\ streams[NextLoad].spool = "none" /\ rd' = NextLoad
  <2>1. bounds.loads \subseteq Loads
    BY PlaybackAssumption DEF IInv, ActionTypes, Scenario
  <2>2. \E l \in bounds.loads : streams[l].spool = "none"
    BY DEF LoadStreams, CanLoad
  <2>. QED  BY <2>1, <2>2 DEF NextLoad, LoadStreams
<1>3. t \in Stream
  BY <1>2, LoadFollows DEF IInv, StreamsSound, ActionTypes
<1>4. t.spool = "read"
  BY DEF Spooled, NoStream
<1>. HIDE DEF t
<1>5. Steady(Activated(t), t)
  BY <1>3, FlagsSteady
<1>6. u.spool # "wait"
  BY <1>4, <1>5 DEF Steady
<1>7. streams'[rd'] = u
  BY <1>1, <1>2 DEF IInv, StreamsSound, t
<1>. HIDE DEF u
<1>. QED  BY <1>6, <1>7 DEF RefillSound

LEMMA CommandsRefill ==
    ASSUME IInv, RefillSound, Commands PROVE RefillSound'
<1>1. internal = <<>> /\ UNCHANGED <<events, internal, disturbed>>
  BY DEF Commands, LoadAction, ExecuteAction, ExecuteAudio, ExecuteFade, PauseAction, ResetAction, Refused,
     UpdateAudioParams, UpdateFadeParams, DeleteAction, ReviveAction, Command, Quiet, Acts
<1>2. StillUnderWay
  BY <1>1 DEF StillUnderWay, UnderWay
<1>3. CASE SameLoad /\ RunningSteady
  BY <1>1, <1>2, <1>3, RefillKept
<1>4. CASE rd' = NoLoad
  BY <1>4 DEF RefillSound
<1>5. CASE LoadStreams(TRUE) \/ LoadStreams(FALSE)
  BY <1>1, <1>5, LoadedReads
<1>6. Freeze => RunningSteady
  BY OnRunningSteady DEF Freeze
<1>7. ASSUME NEW a \in Acts, LoadAction(a) \/ ExecuteAction(a) \/ PauseAction(a) \/ ResetAction(a)
      PROVE  RefillSound'
  <2>1. CASE Refused(a)
    BY <1>3, <2>1, OnRunningSteady DEF Refused, SameLoad
  <2>2. CASE LoadAction(a) /\ ~Refused(a)
    BY <1>3, <1>5, <2>2, OnRunningSteady DEF LoadAction, SameLoad
  <2>3. CASE ExecuteAction(a) /\ ~Refused(a)
    BY <1>3, <1>5, <2>3, OnRunningSteady DEF ExecuteAction, ExecuteAudio, ExecuteFade, SameLoad
  <2>4. CASE PauseAction(a) /\ ~Refused(a)
    BY <1>3, <1>6, <2>4, OnRunningSteady DEF PauseAction, SameLoad
  <2>5. CASE ResetAction(a)
    BY <1>3, <1>4, <1>6, <2>5 DEF ResetAction, Reset, ResetAudio, ResetFade, SameLoad
  <2>. QED  BY <1>7, <2>1, <2>2, <2>3, <2>4, <2>5
<1>8. CASE UpdateAudioParams
  <2>1. CASE rd = NoLoad
    BY <1>3, <1>8, <2>1 DEF UpdateAudioParams, RunningSteady, SameLoad
  <2>2. CASE rd # NoLoad
    <3>1. rd \in Loads /\ streams[rd] \in Stream /\ DOMAIN streams = Loads /\ rd' = rd
      BY <1>8, <2>2 DEF IInv, ActionTypes, StreamsSound, UpdateAudioParams
    <3>2. streams'[rd] = [streams[rd] EXCEPT !.vol = "raw"]
      BY <1>8, <2>2, <3>1 DEF UpdateAudioParams, OnRunning
    <3>. QED  BY <1>3, <3>1, <3>2, FlagsSteady DEF RunningSteady, SameLoad
  <2>. QED  BY <2>1, <2>2
<1>9. CASE UpdateFadeParams \/ ReviveAction
  BY <1>3, <1>9, OnRunningSteady DEF UpdateFadeParams, ReviveAction, SameLoad
<1>10. CASE DeleteAction
  BY <1>4, <1>10 DEF DeleteAction
<1>. QED  BY <1>7, <1>8, <1>9, <1>10 DEF Commands

(* What is in a queue stays there when something is added at its end, and  *)
(* what is not at its head when that is taken.                             *)
LEMMA QueueGrows ==
    ASSUME NEW S, NEW q \in Seq(S), NEW m \in S
    PROVE  /\ \A l \in Loads : Queued(q, l) => Queued(Append(q, m), l)
           /\ \A l \in Loads : Asks(m, l) => Queued(Append(q, m), l)
<1>1. /\ Len(Append(q, m)) = Len(q) + 1 /\ Len(q) \in Nat
      /\ \A i \in 1..Len(q) : Append(q, m)[i] = q[i]
      /\ Append(q, m)[Len(q) + 1] = m
      /\ DOMAIN q = 1..Len(q) /\ DOMAIN Append(q, m) = 1..(Len(q) + 1)
  BY AppendProperties
<1>2. Len(q) + 1 \in DOMAIN Append(q, m) /\ DOMAIN q \subseteq DOMAIN Append(q, m)
  BY <1>1
<1>. QED  BY <1>1, <1>2 DEF Queued

LEMMA QueueShrinks ==
    ASSUME NEW S, NEW q \in Seq(S), q # <<>>
    PROVE  \A l \in Loads : Queued(q, l) => Asks(Head(q), l) \/ Queued(Tail(q), l)
<1>. SUFFICES ASSUME NEW l \in Loads, NEW i \in DOMAIN q, Asks(q[i], l)
              PROVE  Asks(Head(q), l) \/ Queued(Tail(q), l)
  BY DEF Queued
<1>1. /\ Len(q) \in Nat /\ Len(q) > 0 /\ i \in 1..Len(q)
      /\ Tail(q) \in Seq(S) /\ Len(Tail(q)) = Len(q) - 1 /\ Head(q) = q[1]
  BY EmptySeq, HeadTailProperties
<1>2. CASE i = 1
  BY <1>1, <1>2
<1>3. CASE i # 1
  <2>1. i - 1 \in 1..Len(Tail(q)) /\ DOMAIN Tail(q) = 1..Len(Tail(q))
    BY <1>1, <1>3
  <2>2. Tail(q)[i - 1] = q[i]
    <3>1. Tail(q)[i - 1] = q[(i - 1) + 1]
      BY <1>1, <2>1, HeadTailProperties
    <3>2. (i - 1) + 1 = i
      BY <1>1
    <3>. QED  BY <3>1, <3>2
  <2>. QED  BY <2>1, <2>2 DEF Queued
<1>. QED  BY <1>2, <1>3

LEMMA MessagesTyped ==
    ASSUME IInv
    PROVE  /\ events \in Seq(Messages \cup Changes) /\ internal \in Seq(Messages \cup Changes)
           /\ events \in Seq(Messages)
<1>1. TrueMessages \subseteq Messages /\ TrueMessages \cup TrueChanges \subseteq Messages \cup Changes
      /\ TrueMessages \subseteq Messages \cup Changes
  BY DEF TrueMessages, TrueChanges
<1>. QED  BY <1>1, SeqMonotonic DEF IInv, MessagesSound

(* A request of the running load wakes its spooler up. *)
LEMMA AudioRefills ==
    ASSUME IInv, RefillSound, Internal, Audio PROVE RefillSound'
<1>. DEFINE m == Head(internal)
            q == Tail(internal)
<1>1. /\ internal # <<>> /\ UNCHANGED <<bounds, mainVars, events, disturbed>>
      /\ internal \in Seq(Messages \cup Changes)
  BY MessagesTyped DEF Internal, Audio
<1>2. q \in Seq(Messages \cup Changes) /\ m \in Messages \cup Changes
  BY <1>1, EmptySeq, HeadTailProperties
<1>3. \A l \in Loads : Queued(internal, l) => Asks(m, l) \/ Queued(q, l)
  BY <1>1, QueueShrinks
<1>. HIDE DEF m, q
<1>4. \A l \in Loads : Queued(q, l) => Queued(internal', l)
  <2>1. CASE internal' = q
    BY <2>1
  <2>2. CASE \E x \in Changes : internal' = Append(q, x)
    BY <1>2, <2>2, QueueGrows
  <2>3. q \o <<>> = q /\ \A x \in Changes : q \o <<x>> = Append(q, x)
    BY <1>2, ConcatEmptySeq, AppendIsConcat
  <2>4. Change("audio", "Errored") \in Changes /\ Change("audio", "Inactive") \in Changes
    BY DEF Changes
  <2>. QED  BY <2>1, <2>2, <2>3, <2>4 DEF Audio, Wanted, Ended, m, q
<1>5. SameLoad
  BY <1>1 DEF mainVars, SameLoad
<1>6. CASE rd = NoLoad
  BY <1>1, <1>6 DEF mainVars, RefillSound
<1>7. CASE rd # NoLoad /\ Asks(m, rd)
  <2>1. rd \in Loads /\ streams[rd] \in Stream /\ DOMAIN streams = Loads /\ exists
    BY <1>7 DEF IInv, ActionTypes, StreamsSound, DeletedSound
  <2>2. Wanted(m) /\ rd = m.load
    BY <1>7 DEF Audio, Asks, Noted, m
  <2>3. CASE streams[rd].spool = "gone" /\ UNCHANGED streams
    BY <1>1, <2>3 DEF mainVars, RefillSound
  <2>4. CASE streams' = [streams EXCEPT ![rd].inbox = @ + 1]
    <3>1. streams'[rd].inbox = streams[rd].inbox + 1 /\ streams[rd].inbox \in Nat
      BY <2>1, <2>4 DEF Stream
    <3>2. streams'[rd].inbox > 0
      BY <3>1
    <3>. QED  BY <1>1, <3>2 DEF mainVars, RefillSound
  <2>. QED  BY <2>1, <2>2, <2>3, <2>4 DEF Wanted
<1>8. CASE rd # NoLoad /\ ~Asks(m, rd)
  <2>1. rd \in Loads /\ rd' = rd
    BY <1>1, <1>8 DEF IInv, ActionTypes, mainVars
  <2>2. UNCHANGED streams
    BY <1>8 DEF Audio, Wanted, Asks, m
  <2>3. UnderWay(rd) => Queued(events', rd) \/ Queued(internal', rd)
    BY <1>1, <1>3, <1>4, <1>8, <2>1 DEF UnderWay
  <2>. QED  BY <1>1, <2>1, <2>2, <2>3 DEF RefillSound, UnderWay, WillAsk
<1>. QED  BY <1>6, <1>7, <1>8

LEMMA StateChangeRefills ==
    ASSUME IInv, RefillSound, Internal, StateChange PROVE RefillSound'
<1>. DEFINE m == Head(internal)
<1>1. /\ internal # <<>> /\ internal' = Tail(internal) /\ UNCHANGED <<bounds, events, disturbed>>
      /\ m.kind = "StateChange" /\ internal \in Seq(Messages \cup Changes)
  BY MessagesTyped DEF Internal, StateChange
<1>2. \A l \in Loads : Queued(internal, l) => Queued(internal', l)
  BY <1>1, QueueShrinks DEF Asks
<1>3. StillUnderWay
  BY <1>1, <1>2 DEF StillUnderWay, UnderWay
<1>4. Freeze => RunningSteady
  BY OnRunningSteady DEF Freeze
<1>5. CASE Reset(m.act)
  <2>1. CASE rd' = NoLoad
    BY <2>1 DEF RefillSound
  <2>2. CASE rd' = rd /\ RunningSteady
    BY <1>1, <1>3, <2>2, RefillKept DEF SameLoad
  <2>. QED  BY <1>4, <1>5, <2>1, <2>2 DEF Reset, ResetAudio, ResetFade
<1>6. CASE UNCHANGED <<rd, streams>>
  BY <1>1, <1>3, <1>6, OnRunningSteady, RefillKept DEF SameLoad
<1>. QED  BY <1>5, <1>6 DEF StateChange

LEMMA OthersRefill ==
    ASSUME IInv, RefillSound, Wakeup \/ Timer \/ Forward PROVE RefillSound'
<1>1. UNCHANGED <<rd, streams, disturbed>>
  BY DEF Wakeup, Timer, TimerFires, FadeTimerFires, Forward, mainVars
<1>2. StillUnderWay
  <2>1. CASE Wakeup
    <3>1. internal = <<>> /\ events' = events
      BY <2>1 DEF Wakeup, Quiet
    <3>. QED  BY <3>1 DEF StillUnderWay, UnderWay, Queued
  <2>2. CASE Timer
    BY <2>2 DEF Timer, TimerFires, FadeTimerFires, StillUnderWay, UnderWay
  <2>3. CASE Forward
    <3>1. /\ events # <<>> /\ events \in Seq(Messages \cup Changes)
          /\ internal \in Seq(Messages \cup Changes)
          /\ internal' = Append(internal, Head(events)) /\ events' = Tail(events)
      BY <2>3, MessagesTyped DEF Forward
    <3>2. Head(events) \in Messages \cup Changes
      BY <3>1, EmptySeq, HeadTailProperties
    <3>3. /\ \A l \in Loads : Queued(internal, l) => Queued(internal', l)
          /\ \A l \in Loads : Asks(Head(events), l) => Queued(internal', l)
      BY <3>1, <3>2, QueueGrows
    <3>4. \A l \in Loads : Queued(events, l) => Asks(Head(events), l) \/ Queued(events', l)
      BY <3>1, QueueShrinks
    <3>. QED  BY <3>3, <3>4 DEF StillUnderWay, UnderWay
  <2>. QED  BY <2>1, <2>2, <2>3
<1>. QED  BY <1>1, <1>2, OnRunningSteady, RefillKept DEF SameLoad

(* A spooler waits when the buffer is full, and no longer than it is       *)
(* asked.                                                                  *)
LEMMA SpoolRefills ==
    ASSUME IInv, RefillSound, NEW l \in Loads, Spool(l) PROVE RefillSound'
<1>. DEFINE s == streams[l]
<1>1. /\ UNCHANGED <<bounds, mainVars, events, disturbed>> /\ rd' = rd
      /\ DOMAIN streams = Loads /\ s \in Stream
  BY DEF Spool, mainVars, IInv, StreamsSound
<1>2. \A k \in Loads : k # l => streams'[k] = streams[k]
  BY <1>1 DEF Spool
<1>3. StillUnderWay
  <2>1. CASE UNCHANGED internal
    BY <1>1, <2>1 DEF StillUnderWay, UnderWay
  <2>2. CASE internal' = Append(internal, Change("audio", "Errored"))
    <3>1. Change("audio", "Errored") \in Messages \cup Changes
      BY DEF Changes
    <3>2. \A k \in Loads : Queued(internal, k) => Queued(internal', k)
      BY <2>2, <3>1, MessagesTyped, QueueGrows
    <3>. QED  BY <1>1, <3>2 DEF StillUnderWay, UnderWay
  <2>. QED  BY <2>1, <2>2 DEF Spool
<1>4. CASE rd # l
  <2>1. RunningSteady
    BY <1>2, <1>4 DEF RunningSteady, Steady, IInv, ActionTypes
  <2>. QED  BY <1>1, <1>3, <2>1, RefillKept DEF SameLoad
<1>5. CASE rd = l /\ streams'[l].spool # "wait"
  BY <1>1, <1>5 DEF RefillSound
<1>6. CASE rd = l /\ s.spool = "read" /\ s.players[1].buf = BufferSize
           /\ streams' = [streams EXCEPT ![l] = [s EXCEPT !.spool = "wait"]]
  <2>1. streams'[l].players = s.players
    BY <1>1, <1>6
  <2>2. WillAsk(s.players[1])
    <3>1. BufferSize > 0 /\ BufferSize * 2 >= BufferSize
      BY PlaybackAssumption
    <3>. QED  BY <1>6, <3>1 DEF WillAsk
  <2>3. WillAsk(streams'[l].players[1])
    BY <2>1, <2>2
  <2>. QED  BY <1>1, <1>6, <2>3 DEF RefillSound, WillAsk
<1>7. \/ s.spool = "read" /\ s.players[1].buf = BufferSize
         /\ streams' = [streams EXCEPT ![l] = [s EXCEPT !.spool = "wait"]]
      \/ streams'[l].spool # "wait"
  <2>1. /\ s.spool = "read" => Sent(s).spool = "read"
        /\ Finished(s).spool = "end" /\ SpoolerGone(s).spool = "gone"
        /\ [s EXCEPT !.spool = "read", !.inbox = @ - 1].spool = "read"
        /\ s.spool = "end" => [s EXCEPT !.inbox = @ - 1].spool = "end"
    BY <1>1 DEF Sent, Finished, SpoolerGone, OnPlayers, Stream
  <2>2. \A t : streams' = [streams EXCEPT ![l] = t] => streams'[l] = t
    BY <1>1
  <2>. QED  BY <2>1, <2>2 DEF Spool
<1>. QED  BY <1>4, <1>5, <1>6, <1>7

LEMMA ReportRefills ==
    ASSUME IInv, NEW l \in Loads, NEW c \in Chans, NEW kind \in Kinds,
           Report(kind, l, c), UNCHANGED internal
    PROVE  /\ StillUnderWay /\ (disturbed => disturbed')
           /\ kind \in {"BufHalf", "BufEmpty"} => disturbed' \/ Queued(events', l)
<1>. DEFINE m == [kind |-> kind, load |-> l, chan |-> c]
<1>1. m \in Messages /\ (kind \in {"BufHalf", "BufEmpty"} => Asks(m, l))
  BY DEF Messages, Asks, Kinds
<1>2. CASE events' = Append(events, m) /\ UNCHANGED disturbed
  <2>1. \A k \in Loads : Queued(events, k) => Queued(events', k)
    BY <1>1, <1>2, MessagesTyped, QueueGrows
  <2>2. Asks(m, l) => Queued(events', l)
    BY <1>1, <1>2, MessagesTyped, QueueGrows
  <2>. QED  BY <1>1, <1>2, <2>1, <2>2 DEF StillUnderWay, UnderWay
<1>3. CASE disturbed' = (disturbed \/ kind \notin Noted) /\ UNCHANGED events
  <2>1. kind \in {"BufHalf", "BufEmpty"} => kind \notin Noted
    BY DEF Noted
  <2>. QED  BY <1>3, <2>1 DEF StillUnderWay, UnderWay
<1>. QED  BY <1>2, <1>3 DEF Report

(* The audio thread asks before it has nothing left, or when it has not.   *)
LEMMA EngineRefills ==
    ASSUME IInv, RefillSound, NEW l \in Loads, NEW c \in Chans, Engine(l, c) PROVE RefillSound'
<1>. DEFINE p == streams[l].players[c]
<1>1. /\ rd' = rd /\ UNCHANGED internal /\ SameLoad
      /\ DOMAIN streams = Loads /\ streams[l] \in Stream /\ p \in Player /\ p.buf \in Nat
      /\ 1 \in Chans
  BY PlaybackAssumption DEF Engine, AddPlayer, Play, Remove, EngineFrame, mainVars, SameLoad, IInv,
     StreamsSound, Stream, Player
<1>2. PICK q \in {streams'[l].players[c]} : SetPlayer(l, c, q)
  <2>1. \A q : SetPlayer(l, c, q) => q = streams'[l].players[c]
    BY <1>1 DEF SetPlayer, Stream
  <2>2. \E q : SetPlayer(l, c, q)
    <3>1. CASE AddPlayer(l, c) \/ Remove(l, c)
      BY <3>1 DEF AddPlayer, Remove
    <3>2. CASE Starve(l, c) \/ Skip(l, c)
      BY <3>2 DEF Starve, Skip
    <3>3. CASE Deliver(l, c)
      BY <3>3 DEF Deliver
    <3>. QED  BY <3>1, <3>2, <3>3 DEF Engine, Play
  <2>. QED  BY <2>1, <2>2
<1>3. /\ \A k \in Loads : k # l => streams'[k] = streams[k]
      /\ streams'[l].spool = streams[l].spool /\ streams'[l].inbox = streams[l].inbox
      /\ streams'[l].players = [streams[l].players EXCEPT ![c] = q]
  BY <1>1, <1>2 DEF SetPlayer, Stream
<1>4. /\ streams'[l].players[c] = q
      /\ \A d \in Chans : d # c => streams'[l].players[d] = streams[l].players[d]
  BY <1>1, <1>3 DEF Stream
<1>5. StillUnderWay /\ (disturbed => disturbed')
  <2>1. CASE UNCHANGED events
    BY <1>1, <2>1 DEF StillUnderWay, UnderWay, Engine, AddPlayer, Play, Starve, Skip, Deliver, Remove,
       Report
  <2>2. CASE \E kind \in Kinds : Report(kind, l, c)
    BY <1>1, <2>2, ReportRefills
  <2>. QED  BY <2>1, <2>2 DEF Engine, AddPlayer, Play, Starve, Skip, Deliver, Remove, Kinds, Noted
<1>6. CASE rd # l
  <2>1. RunningSteady
    BY <1>3, <1>6 DEF RunningSteady, Steady, IInv, ActionTypes
  <2>. QED  BY <1>1, <1>5, <2>1, RefillKept
<1>7. CASE c # 1
  <2>1. streams'[l].players[1] = streams[l].players[1]
    BY <1>1, <1>4, <1>7
  <2>2. RunningSteady
    BY <1>3, <2>1 DEF RunningSteady, Steady, IInv, ActionTypes
  <2>. QED  BY <1>1, <1>5, <2>2, RefillKept
<1>8. ASSUME rd = l, c = 1, disturbed' \/ Queued(events', l) \/ WillAsk(q)
      PROVE  RefillSound'
  BY <1>1, <1>4, <1>8 DEF RefillSound, UnderWay, WillAsk
<1>9. ASSUME rd = l, c = 1,
             q.buf = p.buf, q.halfSent = p.halfSent, q.emptySent = p.emptySent
      PROVE  RefillSound'
  <2>1. RunningSteady
    BY <1>3, <1>4, <1>9 DEF RunningSteady, Steady
  <2>. QED  BY <1>1, <1>5, <2>1, RefillKept
<1>10. CASE rd = l /\ c = 1 /\ (AddPlayer(l, c) \/ Remove(l, c))
  <2>1. /\ AddPlayer(l, c) => q = [p EXCEPT !.place = "list", !.alive = TRUE]
                              \/ q = [p EXCEPT !.place = "rejected"]
        /\ Remove(l, c) => q = [p EXCEPT !.place = "removed"]
    BY <1>1, <1>4 DEF AddPlayer, Remove, SetPlayer, Stream
  <2>. QED  BY <1>1, <1>9, <1>10, <2>1 DEF Player
<1>11. CASE rd = l /\ c = 1 /\ Starve(l, c)
  <2>1. CASE p.killed
    <3>1. q = [p EXCEPT !.alive = FALSE]
      BY <1>1, <1>4, <1>11, <2>1 DEF Starve, SetPlayer, Stream
    <3>. QED  BY <1>1, <1>9, <1>11, <3>1 DEF Player
  <2>2. CASE ~p.killed
    <3>1. Report("BufEmpty", l, c)
      BY <1>11, <2>2 DEF Starve
    <3>. QED  BY <1>1, <1>8, <1>11, <3>1, ReportRefills DEF Kinds
  <2>. QED  BY <2>1, <2>2
<1>12. CASE rd = l /\ c = 1 /\ Skip(l, c)
  BY <1>8, <1>12 DEF Skip
<1>13. CASE rd = l /\ c = 1 /\ Deliver(l, c)
  <2>. DEFINE Told(low) == [p EXCEPT !.halfSent = low]
              Becomes(low) == q \in {Told(low), [Told(low) EXCEPT !.buf = @ - 1],
                                     [Told(low) EXCEPT !.active = FALSE]}
  <2>4. Becomes(p.buf * 2 < BufferSize)
    <3>1. \A r : SetPlayer(l, c, r) => r = q
      BY <1>1, <1>4 DEF SetPlayer, Stream
    <3>. QED  BY <1>13, <3>1 DEF Deliver, Half
  <2>5. \A low \in BOOLEAN : Becomes(low) =>
          /\ q.emptySent = p.emptySent /\ q.halfSent = low
          /\ q.buf = p.buf \/ q.buf = p.buf - 1
    BY <1>1 DEF Player
  <2>. HIDE DEF Becomes
  <2>1. CASE p.buf * 2 < BufferSize /\ ~p.halfSent
    <3>1. Report("BufHalf", l, c)
      BY <1>13, <2>1 DEF Deliver
    <3>. QED  BY <1>1, <1>8, <1>13, <3>1, ReportRefills DEF Kinds
  <2>2. CASE p.buf * 2 < BufferSize /\ p.halfSent
    <3>1. q.emptySent = p.emptySent
      <4>1. TRUE = (p.buf * 2 < BufferSize)
        BY <2>2, Zenon
      <4>2. Becomes(TRUE)
        BY <2>4, <4>1, Zenon
      <4>. QED  BY <2>5, <4>2
    <3>2. WillAsk(p) => WillAsk(q)
      BY <2>2, <3>1, PlaybackAssumption, <1>1 DEF WillAsk
    <3>. QED  BY <1>1, <1>3, <1>4, <1>5, <1>8, <1>13, <3>2 DEF RefillSound, StillUnderWay, UnderWay
  <2>3. CASE ~(p.buf * 2 < BufferSize)
    <3>1. FALSE = (p.buf * 2 < BufferSize)
      BY <2>3, <1>1, PlaybackAssumption, SMT
    <3>2. q.halfSent = FALSE /\ (q.buf = p.buf \/ q.buf = p.buf - 1)
      <4>1. Becomes(FALSE)
        BY <2>4, <3>1, Zenon
      <4>. QED  BY <2>5, <4>1
    <3>3. q.buf > 0
      BY <1>1, <2>3, <3>2, PlaybackAssumption, BufferAssumption
    <3>. QED  BY <1>8, <1>13, <3>2, <3>3 DEF WillAsk
  <2>. QED  BY <2>1, <2>2, <2>3
<1>. QED  BY <1>6, <1>7, <1>10, <1>11, <1>12, <1>13 DEF Engine, Play

LEMMA StepRefills == IInv /\ RefillSound /\ [Next]_vars => RefillSound'
<1>. SUFFICES ASSUME IInv, RefillSound, [Next]_vars PROVE RefillSound'
  OBVIOUS
<1>1. CASE UNCHANGED vars
  BY <1>1 DEF vars, mainVars, RefillSound, UnderWay, Queued, WillAsk
<1>2. CASE Commands
  BY <1>2, CommandsRefill
<1>3. CASE Internal
  BY <1>3, AudioRefills, StateChangeRefills DEF Internal
<1>4. CASE Next /\ ~Commands /\ ~Internal
  BY <1>4, OthersRefill, SpoolRefills, EngineRefills DEF Next
<1>. QED  BY <1>1, <1>2, <1>3, <1>4

-----------------------------------------------------------------------------

(* Every variable keeps its type, the queues hold messages only. *)
THEOREM TypeCorrect == Spec => []TypeOK
<1>1. IInv => TypeOK
  <2>1. Seq(TrueMessages) \subseteq Seq(Messages)
    BY SeqMonotonic DEF TrueMessages
  <2>2. Seq(TrueMessages \cup TrueChanges) \subseteq Seq(Messages \cup Changes)
    <3>1. TrueMessages \cup TrueChanges \subseteq Messages \cup Changes
      BY DEF TrueMessages, TrueChanges
    <3>. QED  BY <3>1, SeqMonotonic
  <2>. QED  BY <2>1, <2>2 DEF IInv, ActionTypes, StreamsSound, MessagesSound, TypeOK
<1>. QED  BY <1>1, InitIInv, StepIInv, PTL DEF Spec

(* An action that is loaded, paused or playing has streams, and an idle    *)
(* one keeps none that nobody could stop.                                  *)
THEOREM StreamsMatchStates == Spec => []StreamMatchesState
<1>1. IInv => StreamMatchesState
  BY DEF IInv
<1>. QED  BY <1>1, InitIInv, StepIInv, PTL DEF Spec

(* What plays is polled, with its timer set, whatever was paused, edited,  *)
(* deleted or brought back in between.                                     *)
THEOREM AlwaysPolled == Spec => []PolledWhileActive
<1>1. IInv => PolledWhileActive
  BY DEF IInv
<1>. QED  BY <1>1, InitIInv, StepIInv, PTL DEF Spec

(* No volume moves without its fade. *)
THEOREM FadesAccountedFor == Spec => []NoOrphanFade
<1>1. IInv => NoOrphanFade
  BY DEF IInv
<1>. QED  BY <1>1, InitIInv, StepIInv, PTL DEF Spec

(* While nothing comes late and no message is lost, a spooler that waits   *)
(* for room is asked for more, so the file is read to its end.             *)
THEOREM WaitsOnlyWhenAsked == Spec => []StarvesOnlyWhenDisturbed
<1>1. Init => RefillSound
  BY DEF Init, RefillSound
<1>2. IInv /\ RefillSound => StarvesOnlyWhenDisturbed
  <2>. SUFFICES ASSUME IInv, RefillSound, rd # NoLoad, Starved(rd), ~disturbed PROVE FALSE
    BY DEF StarvesOnlyWhenDisturbed
  <2>1. ~Queued(events, rd) /\ ~Queued(internal, rd)
    BY DEF Starved, Queued, Asks
  <2>2. /\ streams[rd].spool = "wait" /\ streams[rd].inbox = 0
        /\ streams[rd].players[1].buf = 0 /\ streams[rd].players[1].emptySent
    BY DEF Starved
  <2>3. ~WillAsk(streams[rd].players[1])
    BY <2>2 DEF WillAsk
  <2>. QED  BY <2>1, <2>2, <2>3 DEF RefillSound, UnderWay
<1>. QED  BY <1>1, <1>2, InitIInv, StepIInv, StepRefills, PTL DEF Spec

(* The end of an earlier load never ends the one that plays: a message     *)
(* that puts the action to rest tells of the load it has.                  *)
THEOREM OnlyOwnEnd == Spec => EndsOnlyOwn
<1>. DEFINE Ends == state["audio"] \in Running /\ state'["audio"] \in Idle /\ internal' # internal
                    => streams[rd].players[1].place = "removed"
<1>1. IInv /\ [Next]_vars => [Ends]_vars
  <2>. SUFFICES ASSUME IInv, Next, state["audio"] \in Running, state'["audio"] \in Idle,
                       internal' # internal
                PROVE  streams[rd].players[1].place = "removed"
    OBVIOUS
  <2>1. CASE Internal
    <3>. DEFINE m == Head(internal)
    <3>1. m \in TrueMessages \cup TrueChanges
      BY <2>1 DEF Internal, IInv, MessagesSound
    <3>2. StateChange
      BY <2>1 DEF Internal, Audio, mainVars, Running, Idle
    <3>3. m \in TrueChanges /\ m.act \in Acts
      BY <3>1, <3>2 DEF StateChange, Change, Changes, TrueChanges, TrueMessages, Messages, Noted, Acts
    <3>4. m.act = "audio" /\ m.to = "Inactive"
      BY <3>2, <3>3 DEF StateChange, Reset, SetState, Verified, IInv, ActionTypes, Acts, Running, Idle
    <3>5. m = Change("audio", "Inactive")
      BY <3>3, <3>4 DEF TrueChanges, Changes, Change
    <3>. QED  BY <3>3, <3>5 DEF TrueChanges, IInv, StreamMatchesState
  <2>2. CASE Wakeup
    BY <2>2, VerifiedState DEF Wakeup, IInv, ActionTypes, Acts, Running, Idle
  <2>3. CASE Next /\ ~Internal /\ ~Wakeup
    <3>1. UNCHANGED internal \/ UNCHANGED state
      BY <2>3 DEF Next, Commands, LoadAction, ExecuteAction, ExecuteAudio, ExecuteFade, PauseAction,
         ResetAction, Refused, UpdateAudioParams, UpdateFadeParams, DeleteAction, ReviveAction,
         Timer, TimerFires, FadeTimerFires, Forward, Spool, Engine, AddPlayer, Play, Remove,
         EngineFrame, mainVars
    <3>. QED  BY <3>1 DEF Running, Idle
  <2>. QED  BY <2>1, <2>2, <2>3
<1>. QED  BY <1>1, InitIInv, StepIInv, PTL DEF Spec, EndsOnlyOwn
=============================================================================
