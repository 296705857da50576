------------------------------ MODULE Playback ------------------------------
(***************************************************************************)
(* Playing an audio action and a fade that targets it: Action              *)
(* (sqa-backend/src/actions/mod.rs) with the controllers of audio.rs and   *)
(* fade.rs, the spooler thread of each load, the audio thread as far as it *)
(* drains buffers and reports on them, and the event loop (handlers.rs)    *)
(* that takes the internal messages of all of these before any command.    *)
(* The audio thread's list has other actions' streams too, and may be full *)
(* when a stream comes: it is rejected, and the action is not told.        *)
(*                                                                         *)
(* A file is a number of frames, each as long as what one callback plays,  *)
(* and a buffer holds BufferSize of them.  Left out are times, volumes     *)
(* other than whose fade they carry, and the state Loading, which no       *)
(* controller asks for.                                                    *)
(***************************************************************************)
EXTENDS Integers, Sequences, FiniteSets

CONSTANTS
    Loads,        \* 1 .. n: the loads of the audio action
    Chans,        \* 1 .. n: the channels of a file, the first one is senders[0]
    Scenarios,    \* bounds of the instances, one of which is taken
    BufferSize,   \* STREAM_BUFFER_SIZE
    QueueSize     \* places in the audio thread's message queue

VARIABLES
    bounds,
    state, timer, async,      \* Action.state and .timeout, async_actions
    exists, valid, rd,        \* the audio action: its parameters, its load
    target, frd, ftimer,      \* the fade: its target, whether it has run, its timeout
    streams,                  \* by load: spooler, control channel, Players
    events, internal,         \* AudioThreadSender's queue, the event loop's
    panicked,
    disturbed                 \* history: a callback came late, or a message the action
                              \* waits for was lost

mainVars == <<state, timer, async, exists, valid, rd, target, frd, ftimer, panicked>>
vars == <<bounds, mainVars, streams, events, internal, disturbed>>

-----------------------------------------------------------------------------

Acts == {"audio", "fade"}
Idle == {"Inactive", "Unverified"}
Running == {"Loaded", "Paused", "Active"}
States == Idle \cup Running \cup {"Errored"}
Timers == {"Empty", "Waiting", "Due"}
NoLoad == 0

(* AudioThreadMessages; Noted ones are logged, and no action minds them. *)
Noted == {"Added", "Rejected", "InvalidOutpatch"}
Messages == [kind : {"BufHalf", "BufEmpty", "Removed"} \cup Noted, load : Loads, chan : Chans]
Change(a, s) == [kind |-> "StateChange", act |-> a, to |-> s]
Changes == {Change("audio", "Inactive"), Change("audio", "Errored"), Change("fade", "Inactive")}

Player == [place : {"none", "queue", "list", "rejected", "removed"}, alive : BOOLEAN, active : BOOLEAN,
           patched : BOOLEAN, buf : 0..BufferSize, killed : BOOLEAN,
           halfSent : BOOLEAN, emptySent : BOOLEAN,
           missed : BOOLEAN]   \* history: its Sender was dropped while it was queued
NoPlayer == [place |-> "none", alive |-> FALSE, active |-> FALSE, patched |-> FALSE, buf |-> 0,
             killed |-> FALSE, halfSent |-> FALSE, emptySent |-> FALSE, missed |-> FALSE]

(* spool: reading, in recv() for space, in recv() after the last frame, or *)
(* returned.  started: durinfo.start_time is not 0.                        *)
Stream == [spool : {"none", "read", "wait", "end", "gone"}, left : Nat, bad : BOOLEAN,
           inbox : Nat, ctl : {"open", "quit", "dropped"}, started : BOOLEAN,
           vol : {"raw", "fading", "faded"}, players : [Chans -> Player]]
NoStream == [spool |-> "none", left |-> 0, bad |-> FALSE, inbox |-> 0, ctl |-> "open",
             started |-> FALSE, vol |-> "raw", players |-> [c \in Chans |-> NoPlayer]]

(* Bounds of one instance: what there is of loads, channels and frames,    *)
(* the length of the event loop's queue, and what happens in it: commands  *)
(* for the fade, changes to the audio action's parameters, its deletion,   *)
(* timers that fire, faults (files that break off, channels without a      *)
(* patch, callbacks that come late), a list of Players that is full.       *)
Happenings == {"fades", "edits", "deletes", "timers", "faults", "full"}
Scenario == [loads : SUBSET Loads, chans : SUBSET Chans, frames : Nat, internal : Nat,
             with : SUBSET Happenings]
With(h) == h \in bounds.with

ASSUME PlaybackAssumption ==
    /\ NoLoad \notin Loads /\ Loads \subseteq Nat
    /\ 1 \in Chans
    /\ BufferSize \in Nat \ {0} /\ QueueSize \in Nat
    /\ Scenarios \subseteq Scenario

(* More than two callbacks play from a full buffer: it has 100_000 samples *)
(* (lib.rs:53), a callback some hundreds or thousands.                     *)
ASSUME BufferAssumption == BufferSize > 2

Init ==
    /\ bounds \in Scenarios
    /\ state = [a \in Acts |-> IF a = "audio" THEN "Inactive" ELSE "Unverified"]
    /\ timer = [a \in Acts |-> "Empty"] /\ async = {}
    /\ exists = TRUE /\ valid = TRUE /\ rd = NoLoad
    /\ target = FALSE /\ frd = FALSE /\ ftimer = "Empty"
    /\ streams = [l \in Loads |-> NoStream]
    /\ events = <<>> /\ internal = <<>>
    /\ panicked = FALSE /\ disturbed = FALSE

-----------------------------------------------------------------------------
(* Action: what every handler does *)

Present(a) == a = "fade" \/ exists
FadeValid == target /\ exists
IsValid(a) == IF a = "audio" THEN valid ELSE FadeValid

(* verify_params, which get_data calls for every action that was touched:  *)
(* only an idle one is looked at again.                                    *)
Verified(s, ok) == IF s \in Idle THEN (IF ok THEN "Inactive" ELSE "Unverified") ELSE s

(* The state a handler leaves an action in, and what clients are then sent *)
SetState(a, s) == state' = [state EXCEPT ![a] = Verified(s, IsValid(a))]

(* Connection::poll takes internal messages first: a command or a wakeup   *)
(* is handled when there is none.                                          *)
(* Mutant: commands are taken in between.                                  *)
QuietAlways == ~panicked
Quiet == ~panicked /\ internal = <<>>

-----------------------------------------------------------------------------
(* What the audio controller does to its streams *)

NextLoad == CHOOSE l \in bounds.loads : streams[l].spool = "none"
CanLoad == \E l \in bounds.loads : streams[l].spool = "none"
OnPlayers(s, F(_)) == [s EXCEPT !.players = [c \in Chans |-> F(@[c])]]
OnRunning(F(_)) == IF rd = NoLoad THEN streams ELSE [streams EXCEPT ![rd] = F(@)]

(* load: new senders, the spooler thread; frames and bad are the file's. *)
NewSenders(patched) ==
    [c \in Chans |-> IF c \in bounds.chans
                     THEN [NoPlayer EXCEPT !.place = "queue", !.patched = c \in patched]
                     ELSE NoPlayer]
Spooled(patched, bad) ==
    [NoStream EXCEPT !.spool = "read", !.left = bounds.frames, !.bad = bad,
                     !.players = NewSenders(patched)]

(* execute, the first time also with the volumes of the parameters *)
Activated(s) ==
    LET activate(p) == [p EXCEPT !.active = TRUE]
    IN [OnPlayers(s, activate) EXCEPT !.started = TRUE, !.vol = IF s.started THEN @ ELSE "raw"]
Deactivated(s) ==
    LET deactivate(p) == [p EXCEPT !.active = FALSE] IN OnPlayers(s, deactivate)

(* reset: the control channel is dropped after Quit. *)
QuitSent(s) == [s EXCEPT !.ctl = "quit"]

(* The senders of a spooler are dropped with it: their streams die. *)
(* Mutant: only senders that are not the originals are dropped.            *)
SpoolerGoneQuietly(s) == [s EXCEPT !.spool = "gone"]
SpoolerGone(s) ==
    LET drop(p) == [p EXCEPT !.alive = FALSE, !.active = FALSE, !.missed = p.place = "queue"]
    IN [OnPlayers(s, drop) EXCEPT !.spool = "gone"]

(* freeze_sdrs: only what carries this fade is changed. *)
(* Mutant: the target keeps fading.                                        *)
FrozenNot(s) == s
Frozen(s) == [s EXCEPT !.vol = "raw"]
TargetRuns == exists /\ rd # NoLoad
Freeze == streams' = IF frd /\ exists THEN OnRunning(Frozen) ELSE streams

-----------------------------------------------------------------------------
(* Commands *)

Command(a) == Quiet /\ Present(a) /\ (a = "fade" => With("fades"))
Refused(a) == SetState(a, state[a]) /\ UNCHANGED <<timer, async, exists, valid, rd, target,
                                                    frd, ftimer, streams, internal, panicked>>

(* load(), which a verified action cannot fail: its file and channels were *)
(* looked at a moment ago.  The file is opened again for the next load.    *)
Reopened == valid' \in IF With("edits") THEN BOOLEAN ELSE {valid}
LoadStreams(start) ==
    /\ CanLoad
    /\ \E patched \in SUBSET bounds.chans, bad \in BOOLEAN :
         /\ With("faults") \/ (patched = bounds.chans /\ ~bad)
         /\ streams' = [streams EXCEPT ![NextLoad] =
                          IF start THEN Activated(Spooled(patched, bad)) ELSE Spooled(patched, bad)]
    /\ rd' = NextLoad
    /\ Reopened

LoadAction(a) ==
    /\ Command(a)
    /\ IF state[a] \in Idle /\ IsValid(a)
       THEN /\ IF a = "audio" THEN LoadStreams(FALSE) ELSE UNCHANGED <<valid, rd, streams>>
            /\ SetState(a, "Loaded")
            /\ UNCHANGED <<timer, async, exists, target, frd, ftimer, internal, panicked>>
       ELSE Refused(a)
    /\ UNCHANGED <<bounds, events, disturbed>>

(* _execute of a controller that goes on: the action is polled from now on. *)
(* Mutant: no interest is registered.                                      *)
InterestIn(a) == {}
Interest(a) == {a}
Activate(a) ==
    /\ SetState(a, "Active")
    /\ timer' = [timer EXCEPT ![a] = "Waiting"]
    /\ async' = async \cup Interest(a)

ExecuteAudio ==
    /\ \/ /\ state["audio"] \in {"Loaded", "Paused"}
          /\ streams' = OnRunning(Activated)
          /\ UNCHANGED <<valid, rd>>
       \/ state["audio"] = "Inactive" /\ valid /\ LoadStreams(TRUE)
    /\ Activate("audio")
    /\ UNCHANGED <<exists, target, frd, ftimer, internal, panicked>>

(* A fade may have no time left, and then ends at once, keeping its data. *)
(* A target that was unset since the fade was verified is unwrapped.       *)
Fading(s) == [s EXCEPT !.vol = "fading"]
Faded(s) == [s EXCEPT !.vol = "faded"]
ExecuteFade ==
    /\ UNCHANGED <<exists, valid, rd, target, internal>>
    /\ \/ /\ ~target
          /\ panicked' = TRUE
          /\ UNCHANGED <<state, timer, async, frd, ftimer, streams>>
       \/ /\ target /\ ~TargetRuns
          /\ SetState("fade", "Errored")
          /\ UNCHANGED <<timer, async, frd, ftimer, streams, panicked>>
       \/ /\ target /\ TargetRuns
          /\ frd' = TRUE
          /\ \/ /\ streams' = OnRunning(Fading)
                /\ ftimer' = "Waiting"
                /\ Activate("fade")
             \/ /\ streams' = OnRunning(Faded)
                /\ SetState("fade", "Inactive")
                /\ UNCHANGED <<timer, async, ftimer>>
          /\ UNCHANGED panicked

Executable(a) == state[a] \in {"Loaded", "Paused"} \/ (state[a] = "Inactive" /\ IsValid(a))
ExecuteAction(a) ==
    /\ Command(a)
    /\ IF Executable(a) THEN (IF a = "audio" THEN ExecuteAudio ELSE ExecuteFade) ELSE Refused(a)
    /\ UNCHANGED <<bounds, events, disturbed>>

(* pause() asks for no state, only whether the controller has something to *)
(* stop: a fade that never ran has nothing that it could fail to freeze.   *)
(* Mutant: an audio action that is not loaded can be paused too.           *)
CanPauseFade == frd => TargetRuns
CanPauseUnloaded(a) == a = "audio" \/ CanPauseFade
CanPause(a) == IF a = "audio" THEN rd # NoLoad ELSE CanPauseFade
PauseAction(a) ==
    /\ Command(a)
    /\ IF CanPause(a)
       THEN /\ SetState(a, "Paused")
            /\ IF a = "audio" THEN streams' = OnRunning(Deactivated) /\ UNCHANGED ftimer
               ELSE Freeze /\ ftimer' = "Empty"
            /\ UNCHANGED <<timer, async, exists, valid, rd, target, frd, internal, panicked>>
       ELSE Refused(a)
    /\ UNCHANGED <<bounds, events, disturbed>>

ResetAudio == rd' = NoLoad /\ streams' = OnRunning(QuitSent) /\ UNCHANGED <<frd, ftimer>>
ResetFade == ftimer' = "Empty" /\ Freeze /\ frd' = FALSE /\ UNCHANGED rd
Reset(a) ==
    /\ SetState(a, "Inactive")
    /\ IF a = "audio" THEN ResetAudio ELSE ResetFade
    /\ UNCHANGED <<timer, async, exists, valid, target, panicked>>
ResetAction(a) ==
    /\ Command(a)
    /\ Reset(a)
    /\ UNCHANGED <<bounds, events, internal, disturbed>>

(* Parameters of an action that is loaded set its volumes at once. *)
UpdateAudioParams ==
    /\ Command("audio") /\ With("edits")
    /\ valid' \in BOOLEAN
    /\ LET raw(s) == [s EXCEPT !.vol = "raw"] IN streams' = OnRunning(raw)
    /\ state' = [state EXCEPT !["audio"] = Verified(@, valid')]
    /\ UNCHANGED <<bounds, timer, async, exists, rd, target, frd, ftimer, events, internal,
                   panicked, disturbed>>
UpdateFadeParams ==
    /\ Command("fade")
    /\ target' \in BOOLEAN
    /\ state' = [state EXCEPT !["fade"] = Verified(@, target' /\ exists)]
    /\ UNCHANGED <<bounds, timer, async, exists, valid, rd, frd, ftimer, streams, events,
                   internal, panicked, disturbed>>

(* A deleted action is dropped, and its control channel with it, without   *)
(* Quit.  It comes back, if its deletion is undone, as a new one.          *)
DeleteAction ==
    /\ Command("audio") /\ With("deletes")
    /\ exists' = FALSE /\ rd' = NoLoad
    /\ LET dropped(s) == [s EXCEPT !.ctl = "dropped"] IN streams' = OnRunning(dropped)
    /\ state' = [state EXCEPT !["audio"] = "Inactive"]
    /\ timer' = [timer EXCEPT !["audio"] = "Empty"]
    /\ UNCHANGED <<bounds, async, valid, target, frd, ftimer, events, internal, panicked, disturbed>>
ReviveAction ==
    /\ Quiet /\ ~exists
    /\ exists' = TRUE
    /\ SetState("audio", "Inactive")
    /\ UNCHANGED <<bounds, timer, async, valid, rd, target, frd, ftimer, streams, events, internal,
                   panicked, disturbed>>

-----------------------------------------------------------------------------
(* The event loop: internal messages, and polling *)

(* A stream of the running load wants data, or is gone.  When its spooler  *)
(* has returned, waking it up fails.                                       *)
Wanted(m) ==
    IF exists /\ rd = m.load
    THEN IF streams[rd].spool = "gone"
         THEN internal' = Append(Tail(internal), Change("audio", "Errored")) /\ UNCHANGED streams
         ELSE internal' = Tail(internal) /\ streams' = [streams EXCEPT ![rd].inbox = @ + 1]
    ELSE internal' = Tail(internal) /\ UNCHANGED streams
Ended(m) == internal' = Tail(internal) \o (IF exists /\ rd = m.load /\ m.chan = 1
                                           THEN <<Change("audio", "Inactive")>> ELSE <<>>)

Audio ==
    LET m == Head(internal)
    IN /\ \/ m.kind \in {"BufHalf", "BufEmpty"} /\ Wanted(m)
          \/ m.kind = "Removed" /\ Ended(m) /\ UNCHANGED streams
          \/ m.kind \in Noted /\ internal' = Tail(internal) /\ UNCHANGED streams
       /\ UNCHANGED mainVars

(* state_change: an error always counts, an end only while running. *)
StateChange ==
    LET m == Head(internal)
    IN /\ m.kind = "StateChange"
       /\ internal' = Tail(internal)
       /\ IF Present(m.act) /\ m.to = "Inactive" /\ state[m.act] \in Running
          THEN Reset(m.act)
          ELSE /\ IF Present(m.act)
                  THEN SetState(m.act, IF m.to = "Errored" THEN "Errored" ELSE state[m.act])
                  ELSE UNCHANGED state
               /\ UNCHANGED <<timer, async, exists, valid, rd, target, frd, ftimer, streams, panicked>>

Internal ==
    /\ ~panicked /\ internal # <<>>
    /\ Audio \/ StateChange
    /\ UNCHANGED <<bounds, events, disturbed>>

(* The timer of an action is set again while it is Active; a fade whose    *)
(* time is over says so, and any other is polled on, whatever its state.   *)
Polled == {a \in async : Present(a)}
FadeOver == ftimer = "Due"
Kept(a) == \/ timer[a] = "Waiting" \/ (timer[a] = "Due" /\ state[a] = "Active")
           \/ a = "fade" /\ ~FadeOver
Wakeup ==
    /\ Quiet /\ async # {}
    /\ timer' = [a \in Acts |-> IF a \in Polled /\ timer[a] = "Due"
                               THEN (IF state[a] = "Active" THEN "Waiting" ELSE "Empty") ELSE timer[a]]
    /\ internal' = IF "fade" \in Polled /\ FadeOver THEN <<Change("fade", "Inactive")>> ELSE <<>>
    /\ async' = {a \in Polled : Kept(a)}
    /\ state' = [a \in Acts |-> IF a \in Polled THEN Verified(state[a], IsValid(a)) ELSE state[a]]
    /\ UNCHANGED <<bounds, exists, valid, rd, target, frd, ftimer, streams, events, panicked, disturbed>>

TimerFires(a) ==
    /\ timer[a] = "Waiting" /\ With("timers")
    /\ timer' = [timer EXCEPT ![a] = "Due"]
    /\ UNCHANGED <<bounds, state, async, exists, valid, rd, target, frd, ftimer, streams, events,
                   internal, panicked, disturbed>>
FadeTimerFires ==
    /\ ftimer = "Waiting"
    /\ ftimer' = "Due"
    /\ UNCHANGED <<bounds, state, timer, async, exists, valid, rd, target, frd, streams, events,
                   internal, panicked, disturbed>>

-----------------------------------------------------------------------------
(* The spooler thread of a load *)

(* send_frame: the space is that of the first channel; what does not fit   *)
(* into another one is lost.                                               *)
(* Mutant: a frame that was left half sent is thrown away. *)
SentAndDropped(s) == [s EXCEPT !.left = @ - 2]
Sent(s) ==
    LET fill(p) == IF p.place = "none" \/ p.buf = BufferSize THEN p ELSE [p EXCEPT !.buf = @ + 1]
    IN [OnPlayers(s, fill) EXCEPT !.left = @ - 1]

(* Mutant: the streams are not told that there is no more to come. *)
FinishedQuietly(s) == [s EXCEPT !.spool = "end"]
Finished(s) ==
    LET kill(p) == [p EXCEPT !.killed = TRUE] IN [OnPlayers(s, kill) EXCEPT !.spool = "end"]

Spool(l) ==
    LET s == streams[l]
        full == s.players[1].buf = BufferSize
        stop == s.inbox = 0 /\ s.ctl # "open"
        becomes(t) == streams' = [streams EXCEPT ![l] = t] /\ UNCHANGED internal
    IN /\ \/ s.spool = "read" /\ s.left > 0 /\ full /\ becomes([s EXCEPT !.spool = "wait"])
          \/ s.spool = "read" /\ s.left > 0 /\ ~full /\ becomes(Sent(s))
          \/ s.spool = "read" /\ s.left = 0 /\ ~s.bad /\ becomes(Finished(s))
          \/ /\ s.spool = "read" /\ s.left = 0 /\ s.bad
             /\ Len(internal) < bounds.internal
             /\ internal' = Append(internal, Change("audio", "Errored"))
             /\ streams' = [streams EXCEPT ![l] = SpoolerGone(s)]
          \/ s.spool = "wait" /\ s.inbox > 0 /\ becomes([s EXCEPT !.spool = "read", !.inbox = @ - 1])
          \/ s.spool = "end" /\ s.inbox > 0 /\ becomes([s EXCEPT !.inbox = @ - 1])
          \/ s.spool \in {"wait", "end"} /\ stop /\ becomes(SpoolerGone(s))
       /\ UNCHANGED <<bounds, mainVars, events, disturbed>>

-----------------------------------------------------------------------------
(* The audio thread: process(), for one player at a time *)

EngineFrame == UNCHANGED <<bounds, mainVars, internal>>
SetPlayer(l, c, p) == streams' = [streams EXCEPT ![l].players[c] = p]

(* AudioThreadSender::send: what does not fit in the queue is forgotten. *)
Report(kind, l, c) ==
    IF Len(events) < QueueSize
    THEN events' = Append(events, [kind |-> kind, load |-> l, chan |-> c]) /\ UNCHANGED disturbed
    ELSE disturbed' = (disturbed \/ kind \notin Noted) /\ UNCHANGED events

(* handle(AddPlayer), where the list has room or is full *)
AddPlayer(l, c) ==
    LET p == streams[l].players[c]
    IN /\ p.place = "queue"
       /\ \/ /\ SetPlayer(l, c, [p EXCEPT !.place = "list", !.alive = TRUE])
             /\ Report("Added", l, c)
          \/ /\ With("full")
             /\ SetPlayer(l, c, [p EXCEPT !.place = "rejected"])
             /\ Report("Rejected", l, c)
       /\ EngineFrame

(* The buffer is empty: there is no more to come, or its Sender is told,   *)
(* once.                                                                   *)
Starve(l, c) ==
    LET p == streams[l].players[c]
    IN /\ p.buf = 0
       /\ IF p.killed
          THEN SetPlayer(l, c, [p EXCEPT !.alive = FALSE]) /\ UNCHANGED <<events, disturbed>>
          ELSE /\ ~p.emptySent
               /\ SetPlayer(l, c, [p EXCEPT !.emptySent = TRUE])
               /\ Report("BufEmpty", l, c)

(* The stream is behind its time, and what is in the buffer is too old. *)
Skip(l, c) ==
    /\ With("faults") /\ streams[l].players[c].buf > 0
    /\ SetPlayer(l, c, [streams[l].players[c] EXCEPT !.buf = 0])
    /\ disturbed' = TRUE /\ UNCHANGED events

(* The rest of a callback: half of the buffer, the output, the samples.  A *)
(* stream without a channel that has something to tell about its buffer is *)
(* halted in a step of its own.                                            *)
(* Mutant: that the half was told is not forgotten when it is filled again. *)
HalfKept(p, low) == p.halfSent \/ low
Half(p, low) == low
Deliver(l, c) ==
    LET p == streams[l].players[c]
        low == p.buf * 2 < BufferSize
        tells == low /\ ~p.halfSent
        told == [p EXCEPT !.halfSent = Half(p, low)]
    IN /\ p.buf > 0
       /\ \/ /\ p.patched
             /\ SetPlayer(l, c, [told EXCEPT !.buf = @ - 1])
             /\ IF tells THEN Report("BufHalf", l, c) ELSE UNCHANGED <<events, disturbed>>
          \/ /\ ~p.patched /\ tells
             /\ SetPlayer(l, c, told) /\ Report("BufHalf", l, c)
          \/ /\ ~p.patched /\ ~tells
             /\ SetPlayer(l, c, [told EXCEPT !.active = FALSE])
             /\ Report("InvalidOutpatch", l, c)

Play(l, c) ==
    /\ streams[l].players[c].place = "list"
    /\ streams[l].players[c].alive /\ streams[l].players[c].active
    /\ Starve(l, c) \/ Skip(l, c) \/ Deliver(l, c)
    /\ EngineFrame

Remove(l, c) ==
    /\ streams[l].players[c].place = "list" /\ ~streams[l].players[c].alive
    /\ SetPlayer(l, c, [streams[l].players[c] EXCEPT !.place = "removed"])
    /\ Report("Removed", l, c)
    /\ EngineFrame

(* The thread of start_messaging *)
Forward ==
    /\ events # <<>> /\ Len(internal) < bounds.internal
    /\ internal' = Append(internal, Head(events)) /\ events' = Tail(events)
    /\ UNCHANGED <<bounds, mainVars, streams, disturbed>>

-----------------------------------------------------------------------------

Commands ==
    \/ \E a \in Acts : LoadAction(a) \/ ExecuteAction(a) \/ PauseAction(a) \/ ResetAction(a)
    \/ UpdateAudioParams \/ UpdateFadeParams \/ DeleteAction \/ ReviveAction
Engine(l, c) == AddPlayer(l, c) \/ Play(l, c) \/ Remove(l, c)
Timer == FadeTimerFires \/ \E a \in Acts : TimerFires(a)

Next ==
    \/ Commands \/ Internal \/ Wakeup \/ Timer \/ Forward
    \/ \E l \in Loads : Spool(l)
    \/ \E l \in Loads, c \in Chans : Engine(l, c)

Spec == Init /\ [][Next]_vars

(* The event loop, the timers and the threads go on; a client does nothing *)
(* it need not.  Strong fairness is for the bound on internal, which the   *)
(* code's queue does not have: what waits for room there gets it.          *)
Fairness ==
    /\ WF_vars(Internal) /\ WF_vars(Wakeup) /\ WF_vars(FadeTimerFires) /\ SF_vars(Forward)
    /\ \A l \in Loads : SF_vars(Spool(l))
    /\ \A l \in Loads, c \in Chans : WF_vars(Engine(l, c))
FairSpec == Spec /\ Fairness

-----------------------------------------------------------------------------
(* Properties *)

(* The type invariant. *)
TypeOK ==
    /\ bounds \in Scenarios
    /\ state \in [Acts -> States] /\ timer \in [Acts -> Timers] /\ async \subseteq Acts
    /\ exists \in BOOLEAN /\ valid \in BOOLEAN /\ rd \in Loads \cup {NoLoad}
    /\ target \in BOOLEAN /\ frd \in BOOLEAN /\ ftimer \in Timers
    /\ streams \in [Loads -> Stream]
    /\ events \in Seq(Messages) /\ internal \in Seq(Messages \cup Changes)
    /\ panicked \in BOOLEAN /\ disturbed \in BOOLEAN

(* What the state of the audio action says of its streams is so: while it  *)
(* is loaded, paused or playing it has some, and an idle one keeps none    *)
(* that nobody could stop any more (audio.rs, load, pause, reset).         *)
StreamMatchesState ==
    /\ state["audio"] \in Running => rd # NoLoad
    /\ state["audio"] \in Idle => rd = NoLoad

(* An action that plays is polled, and its timer is set: the time clients  *)
(* see goes on (action_manager.rs, on_wakeup; mod.rs, poll and _execute).  *)
PolledWhileActive == \A a \in Acts : state[a] = "Active" => a \in async /\ timer[a] # "Empty"

(* A volume is on its way only while the fade that moves it is active:     *)
(* pause, reset and the end of its time freeze it (fade.rs, freeze_sdrs).  *)
NoOrphanFade == rd # NoLoad /\ streams[rd].vol = "fading" => state["fade"] = "Active" \/ panicked

(* The last stream of a load that is over does not end the next one: a     *)
(* message puts the action to rest only if its own first stream is gone    *)
(* (handlers.rs, poll: internal messages come before commands).  It is not *)
(* so of an error: the Errored of a spooler whose load was put away counts *)
(* for the load there is when it comes (audio.rs:87, mod.rs:385).          *)
EndsOnlyOwn ==
    [][state["audio"] \in Running /\ state'["audio"] \in Idle /\ internal' # internal
        => streams[rd].players[1].place = "removed"]_vars

(* A file is read to its end, unless the stream fell behind: then it may   *)
(* have used up its only BufEmpty and have nobody left to ask for more     *)
(* (thread.rs, empty_sent).  A spooler whose stream was rejected waits with *)
(* its buffer full, and is not starved.                                    *)
Starved(l) ==
    /\ streams[l].spool = "wait" /\ streams[l].inbox = 0
    /\ streams[l].players[1].buf = 0 /\ streams[l].players[1].emptySent
    /\ \A i \in DOMAIN events : events[i].load # l
    /\ \A i \in DOMAIN internal : internal[i].kind = "StateChange" \/ internal[i].load # l
StarvesOnlyWhenDisturbed == rd # NoLoad /\ Starved(rd) => disturbed

(* An action that plays, with its first channel patched to one of the      *)
(* mixer's and its first stream not rejected, comes to its end without a   *)
(* command: the spooler refills what the audio thread drains, and the      *)
(* stream tells when it is removed.  One that was rejected (thread.rs:73)  *)
(* tells nothing any more, and its action stays active until it is reset.  *)
Plays ==
    /\ state["audio"] = "Active"
    /\ streams[rd].players[1].patched /\ streams[rd].players[1].place # "rejected"
    /\ streams[rd].spool # "gone"
    /\ ~disturbed /\ ~panicked
PlaysToEnd == Plays ~> ~Plays

(* The streams of a load that was put away leave the audio thread, except  *)
(* one whose Sender was dropped before the thread had handled AddPlayer.   *)
Left(p) == p.place \in {"none", "rejected", "removed"} \/ (p.place = "list" /\ p.missed)
PutAway(l) == streams[l].spool # "none" /\ rd # l
StreamsEnd == \A l \in Loads : PutAway(l) ~> (\A c \in Chans : Left(streams[l].players[c])) \/ panicked

(* A fade ends once its time is over (fade.rs, poll). *)
FadeEnds == state["fade"] = "Active" ~> state["fade"] # "Active" \/ panicked

(* What runs by itself ends by itself, a file or a fade. *)
RunsEnd == PlaysToEnd /\ FadeEnds
=============================================================================
