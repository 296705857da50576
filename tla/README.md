# TLA+ specifications of SQA

SQA is a program for playing the sound cues of a show. This directory holds
TLA+ models of it, the TLC configurations that check them on small instances,
and TLAPS proofs for instances of any size. Paths below are relative to the
repository; `lib.rs`, `thread.rs` and `sync.rs` without a directory are those
of `sqa-engine/src`.

## The system

| component | state | operations | who it interacts with |
|---|---|---|---|
| engine channels (`lib.rs`, `thread.rs`) | a channel table and a list of free indices ("holes"), once in `EngineContext` and once in `DeviceContext`; JACK's registered ports | `new_channel`, `remove_channel`; `handle(AddChannel / RemoveChannel)` in the callback | bounded command queue to the audio thread; JACK |
| engine streams (`lib.rs`, `thread.rs`) | a `Sender` and a `Player` per stream sharing atomics (active, alive, output patch, position, start time, volume pointer) and a sample buffer; the audio thread's list of Players; `num_senders` | `new_sender`, setters, `Drop`; `process()`: handle one command, go through the Players, remove one dead Player | command queue in, message queue out, any thread that holds a Sender |
| engine notifications (`sync.rs`) | bounded message queue, condition variable, the two times `cur_t` and `written_t` | `init`, `send`, `notify` of a callback; `recv`, `wait_for`, `wait_until`, `try_recv` | audio thread to one receiving thread |
| volume parameters (`param.rs`) | a value or a fade between two, behind an `AtomicPtr` | `set_volume`, `get` in the callback | Senders and callback |
| undo history (`sqa-backend/src/undo.rs`) | a vector of changes and an optional index | `register_change`, `undo`, `redo`, `indexes`, `state` | every undoable command (`state.rs`), `Undo` and `Redo` (`commands.rs`) |
| action list and commands (`sqa-backend/src/{action_manager,commands,state}.rs`) | actions in order, those taken out for editing, the undo history, subscribers | create, edit, reorder, delete, play, pause, ...; each builds its inverse | UDP handlers, actions, mixer, broadcasts |
| save files (`sqa-backend/src/save.rs`) | the file | save, load | action list, mixer |
| actions (`sqa-backend/src/actions/`) | a playback state per action; for audio its load (Senders, spooler thread, durations), for a fade its target and whether it has run | load, execute, pause, reset, poll, new parameters, messages of the audio thread, state changes | engine, spoolers, event loop |
| mixer (`sqa-backend/src/mixer.rs`) | channels by UUID, patches, default channels | apply a configuration, make streams, the thread that receives engine messages | engine, JACK, actions |
| waveforms (`sqa-backend/src/waveform.rs`) | worker threads and results by UUID | request, wakeup | editors of clients, audio parameters |
| connections (`sqa-backend/src/handlers.rs`, `codec.rs`) | parties with the age of their subscription and their TCP association | poll: internal messages, datagrams, TCP, accept, wakeup; expire, broadcast | clients over UDP and TCP |
| client connection (`sqa-ui/src/connection.rs`, `sync.rs`) | a state machine with its sockets, timer and ping | connect, handshake, ping, disconnect; what is sent to the window | server, window |
| client action list (`sqa-ui/src/actions/`, `copy.rs`) | a mirror of the server's list, rows, editors, the selection in progress, what is dragged or copied | replies and updates, select, choose a target, drag and drop, copy and paste, windows | server, GTK |
| bindings (`sqa-jack`, `sqa-ffmpeg`), OSC derive macro, test client | | | |

Threads. `process()` and the xrun callback run on threads of JACK and must not
block. Senders are used by the backend's main thread, by spooler threads and by
PlainSenders made from them. One thread of the mixer receives the engine's
messages and forwards them to the event loop, on which all else of the backend
runs: `Connection::poll` takes internal messages first, then one datagram, what
the TCP connections bring, one connection to accept, and only then wakes its
handler up. Each load of an audio action has a spooler thread, each request for
a waveform a worker thread. The client has a thread for its connection and one
for GTK.

What is hard here: two threads that must compute the same table from a queue of
commands; objects handed back and forth between threads so that the audio
thread neither allocates nor frees; atomics read at one point of a callback and
used at another; a condition variable whose mutex one side may not take;
bounded queues that drop what does not fit; histories of undo, redo and new
changes that meet a capacity; results that arrive late; an operation of several
steps that fails in the middle; messages that are lost, or change places
between UDP and TCP; a server that stops. `PROJECT.json` lists each hazard at
its line with the properties that would catch it.

What makes each component correct:

- channels: both tables equal once the queue is empty, indices never move, a
  hole is handed out once, no unwrap panics, a blocked push gets through;
- streams: a Player is in one place, used only while it is owned, counted
  exactly, and given back once it is dead and no more are added; flags mean
  what their docs say;
- notifications: a receiver wakes when there is something to receive;
- undo: the commands given back are those that a stack of done and a stack of
  undone changes would give, whatever was registered in between;
- action list: an undo restores the list; order and membership agree; a failed
  command changes nothing, and neither does its undo;
- actions: a late removal of an earlier playback's stream ends nothing else (a
  late error of its spooler does, as the code has it); an idle action has no
  streams; what plays is polled, comes to its end unless its stream was
  rejected, and leaves the audio thread when it is put away;
- mixer: each channel has a port to itself; default channels exist; a
  configuration that was applied is the one that was asked for;
- waveforms: a request ends; what an editor shows is what the server keeps for
  the action, and of the action's file unless that was sent in haste;
- connections: who takes itself to be connected is subscribed; no party that
  speaks is forgotten; a server that stopped is noticed;
- client list: it comes to be the server's; a drop lands where the menu says it
  does (it does not); an editor belongs to the row that is selected.

## Modules

| module | models | proofs |
|---|---|---|
| `Channels` | `EngineContext::{new_channel, remove_channel}` and the channel half of `DeviceContext::handle` | `Channels_proofs` |
| `Players` | `new_sender`, `Sender` setters and `Drop`, `Drop for Player`, the stream half of `handle` and the loop of `process()` | `Players_proofs` |
| `AudioEvents` | `AudioThreadHandle` and `AudioThreadSender` | `AudioEvents_proofs` |
| `UndoStacks` | what undo and redo promise (abstract) | |
| `Undo` | `UndoContext`, shown to implement `UndoStacks` | `Undo_proofs` |
| `Backend` | `ActionManager`, the commands that change it, `cmd_as_undoable`, broadcasts, `Savefile`; composed with `Undo` | `Backend_proofs` |
| `Playback` | an audio action and a fade on it (`actions/{mod,audio,fade}.rs`), their spooler threads, the audio thread that drains them, polling (`action_manager.rs`, `async.rs`) | `Playback_proofs` |
| `Connections` | `handlers.rs` of the server and `connection.rs` of one client, with what its window shows | `Connections_proofs` |
| `Mixer` | `mixer.rs` over the engine's channels and JACK's ports | `MCServices_proofs` |
| `Waveforms` | `waveform.rs` and the editor that asks for waveforms (`sqa-ui/src/actions/audio.rs`) | `MCServices_proofs` |
| `ActionView` | the list of actions in the client (`sqa-ui/src/actions/mod.rs`), with the server it mirrors | `MCServices_proofs` |
| `MC...` | the instances that TLC checks; `MCServices` puts the last four together | |

A sequence position i stands for index i - 1 of a Rust vector throughout.
Operators marked "Mutant" are wrong variants of the definition after them, kept
to show that the properties notice: none is used by a specification.

### Channels

`chans`, `holes` are the main thread's table, `devChans`, `devHoles` the audio
thread's, `control` the command queue. `NewChannel` is a call up to
`control.push()` (a port is registered before the limit is checked, and stays
registered on `LimitExceeded`); `RemoveChannel` likewise, with `None` pushed on
the table and the index on the holes; `PushCommand` is the spin's exit with the
rest of the call. `Process` is a callback with a command. `trail` is history:
the tables that the queued commands lead the audio thread through; no guard
reads it, and the inductive invariant needs it. Left out: `AddPlayer` commands,
which share the queue but leave the channels alone (they only fill it earlier),
and callbacks that find no command.

### Players

`control`, `players` and `events` hold the Players' travels; `freed` and
`leaked` where they end. `audio` is the position inside a callback: a visit of
a Player is one step to load its flags (`Visit`), one for its buffer
(`Underrun` or `Filled`, with the message each may send), and one for the
output patch loaded before (`Write`, or `InvalidOutpatch` and `Halt`, the
message and the store, between which other threads run). `Finish` is the end of
`process()`. Choices, because the data that decides them is left out: whether
the stream is due, whether the buffer can fill the callback, whether
`kill_when_empty` was set, and whether `half_sent` or `empty_sent` suppress a
message. Each outcome can occur in the code for some data, so safety properties
lose nothing. Volumes and positions are left out. The channels do not change
here: a patch is in `Channels` or not. Atomics are sequentially consistent, as
the code uses one object at a time and `SeqCst` or release/acquire on it; the
two stores of `Drop` are one step, since no load sees a difference it could not
also see from a slower or faster drop.

### AudioEvents

Messages are counted. A callback is `Process` or `Xrun`, then `Send`s, then
`Notify`, which signals if the stamp of its last send is its own time. A
receiver's call is `Start` (the first `try_pop`), `Wait`, `Timeout` or a
signal, `Wake`. `left` is history.

### Undo

`changes` and `idx` as in the code (`NoIdx` is `None`); `given` is the command
that the last call handed back; `panicked` the underflow at `undo.rs:62`.
Changes are values; what their commands do is not modelled here. `Stacks` is
the refinement mapping: done is what lies up to the index without the gutter,
undone what lies beyond.

### Backend

`list` is `ActionManager` (actions by UUID and their order), `changes`, `idx`,
`given`, `panicked` are those of an instance of `Undo` whose changes are pairs
of commands, `files` the save files, `client` what a client has that receives
every broadcast. The backend runs on one event loop, so each handler is one
action: `External` registers the change, carries out the command (`Effect`) and
broadcasts what it marked; `Undo` and `Redo` carry out the command that the
history gives, without registering it; `CreateAction` is the one command that
adds an action no undo removes. `\E replied` is the early return of a handler
whose reply cannot be sent, which skips the full list. `Save` truncates first
and may fail; `Load` and `LoadStopped` apply a file, the latter up to a mixer
error; `Crash` ends the process and starts another. `timeline` is history: the
actions at each position of `changes`. It becomes empty, and promises nothing
more, after the two steps by which the code itself leaves its history wrong:
creating a UUID that exists (refused, but registered) and a stopped load. A
revived action goes to the end of the order, so the order is not part of what
an undo restores. Left out: playback (`Playback`), the mixer's configuration in
a file (`Mixer`), what `set_params` adds to parameters by itself (padding of
channels and fades; the waveform's UUID is in `Waveforms`), and derived data
(descriptions and errors that depend on other actions).

### Playback

`state`, `timer` and `async` are `Action.state`, `Action.timeout` and the set
`async_actions`; `exists`, `valid`, `rd` are the audio action (is it in the
list, can it be loaded, which load it has), `target`, `frd`, `ftimer` the fade.
`streams[l]` is what load l made: its spooler thread with the frames left, its
inbox and control channel, and a `Player` per channel of the file. `events` is
the audio thread's bounded queue, `internal` the event loop's. A command is one
action, with everything it calls: `LoadAction`, `ExecuteAction`, `PauseAction`,
`ResetAction`, `UpdateAudioParams`, `UpdateFadeParams`, `DeleteAction`,
`ReviveAction`. Its guard is `Quiet`: the event loop takes internal messages
first (`Internal`, which is `Audio` or `StateChange`), and wakes its handler
(`Wakeup`, all that is polled) when there is nothing else. The spooler's loop
is `Spool`, with one step per frame, per wait and per message; the audio
thread's visit of a Player is `Play` (`Starve`, `Skip` or `Deliver`),
`AddPlayer` and `Remove` its other parts; `Forward` is the thread of
`start_messaging`. Its list holds the streams of other actions too: `AddPlayer`
finds it full or not (`thread.rs:73`). A Player that is rejected stays dead and
reports nothing more, and the event loop only logs the message (`state.rs:55`,
`Noted`): the action is not told, plays its other channels if there are any,
and stays active until it is reset. The visit is one step here and several in
`Players`, which has the threads that hold the Sender; here nobody changes a
flag between them to a different effect.

A file is a number of frames, each as long as a callback, and `bad` if it
breaks off with an error; a buffer holds `BufferSize` of them. A volume is raw,
on its way or where a fade left it. `disturbed` is history: a stream fell
behind its time, or a message did not fit. It marks the case in which the code
does lose a stream: `empty_sent` is never reset (`thread.rs:143`), so that a
spooler that was told once is not told again. `panicked` is the `unwrap` of a
fade whose target has never been executed.

### Connections

`fsm`, `conn`, `pinged`, `timer` are the client's `Context`: its state, the TCP
connection it holds, whether a ping is unanswered and the timer. `messages`,
`shows`, `shown` go between window and connection. `up` and `down` are the
datagrams under way, `link` the server's end of each TCP connection, `party`
the client's entry in `udp_clients`, `pending` the datagram that its framed
sink holds until it is flushed. The sink is not flushed by `send`, so an answer
leaves with the next one or when the server has nothing to do (`PollComplete`),
and that is what makes a connection accepted before the answer to `Version` is
out. Another client is present as `OthersDatagram`: it wakes the server,
refreshes every party (`handlers.rs:275` compares an address with itself) and
flushes the sink. `Broadcast` can come at any time, as internal messages are
taken before datagrams and connections (`handlers.rs:304`); sent to another
client it flushes the sink as well, while our connection still waits to be
accepted. `since` is history: what disturbed the connection since its attempt
began, `crowded` being either of these. Datagrams are lost, the server stops
and starts again knowing nobody, the user connects and disconnects at any time,
binding the local port may fail. Time goes by in steps of ten seconds (`Tick`),
within which what was sent arrives or is lost; an age is a number of steps, up
to 4, which is more than any limit of the code.

### Mixer

`chans`, `holes`, `leaked` are the engine's channels and JACK's ports,
`channels`, `defs` the mixer. `ProcessConfig` is `process_config` in its order
of steps: the engine loses channels whose name goes to another, those that are
asked for are renamed and patched or made one by one, those that are not asked
for go, and each step can fail for the reasons the code has (a name that is
registered, a physical port that is gone, no index). What was done before the
failure stays. The order of a `HashMap` is any. A session ends at any time and
the next has default channels of the same names and new UUIDs; a configuration
is saved and loaded. `hist` is history: it says which of the shortcomings
listed below has struck.

### Waveforms

`params`, `done`, `undone` are the action on the server with what can be undone
of its changes, `active` and `completed` the threads and results of
`WaveformContext`; `ui`, `shown`, `redraw` the editor. An editor that is drawn
without a waveform asks for one (`Draw`), with a UUID it makes itself if its
parameters have none, and sends its parameters as a whole. A thread reads the
file, fails or dies. `made` tells for which file each UUID was made. `crossed`
and `hasty` are history. Updates have crossed when one was sent with another
under way, in either direction: each may put back what the other took away,
without end, so the editor then makes UUIDs only up to `MaxCrossed`. An update
was hasty if it has the UUID of another file than its own, and its own file is
in an update under way: the server, which takes the UUID out of an update with
a file it does not know, leaves it in (`audio.rs:188`).

### ActionView

`list`, `order` are the server's, `opas`, `ctls`, `shownOrder` the mirror,
`row` and `widget` the selected row with the editor beside the list, `sel` the
choice of a target in progress, `dnd` and `clipboard` what is dragged or
copied. `up` is in order; `down` has the messages of commands, those in `Long`
over TCP, so that one of each path can come first. Rows that are rebuilt lose
their selection without a message from GTK, as in the code, and deleted actions
leave their editor. Actions are fades, since only these choose a target. The
messages an interface sends itself are handled before anything else.

### MCServices

`Connections`, `Mixer`, `Waveforms` and `ActionView` have no state in common: a
waveform or a list that changes is, to a connection, a datagram like a ping,
and a client that is gone asks for nothing. So `MCServices` is their sum: one
is chosen in the initial state and the others stay put. The properties of each
are stated in its module, and joined in `MCServices` under one name per part.

## Runs

| run | shows | instance | distinct states |
|---|---|---|---|
| `channels` | tables sound and mirrored, indices stable, no panic, a push returns | 4 ports, `MAX_CHANS` 4, queue 2 | 45,865 |
| `players` | one place per Player, exact count, silence after return, a dead Player returns once no more are added | 3 streams, setters used on one, `MAX_PLAYERS` 2, queues of 2 | 535,464 |
| `audio_events` | no message sent during a wait is missed; blocked and timed calls return | queue 3, 3 times | 3,270 |
| `undo` | the vector implements the stacks; indices in range | 3 changes, `MAX_UNDOS` 4 | 1,090 |
| `backend` | undo and redo restore actions, order and actions agree, a client shows what there is; `FilesSound`: all of this with saves, failed saves, crashes, loads, stopped loads | 2 actions, 10 requests, `MAX_UNDOS` 3; or 1 action, 3 requests, 1 file, `MAX_UNDOS` 2 | 818,434 |
| `playback` | states match streams, what plays is polled, no fade outlives itself, no end of another load counts, a stream starves only if it fell behind; a file whose stream was not rejected and a fade end, streams put away leave | 5 scenarios, see below; buffers of 3 frames, queue 2 | 334,757 |
| `services` | the four modules of `MCServices`, each on its own | see below | 250,069 |
| `players_drop` | violation: a Sender dropped too early leaves a live stream | 1 stream | |
| `players_resume` | violation: a resumed stream is halted | 1 stream | |
| `recv_lost_wakeup` | violation: `recv()` sleeps with a message in the queue | queue 3 | |
| `undo_offered` | violation: an offered undo underflows | 2 changes, `MAX_UNDOS` 3 | |
| `drop_lands` | violation: a dropped row lands elsewhere than the menu says | 3 actions | |

Why the bounds are enough. Channels: three usable indices let two holes be
freed and reused in either order while a third channel stays; the limit, the
full queue and a port handed out again all occur. Players: three streams with
two places give a rejection, a `swap_remove` that moves a Player, two dead in
one callback; queues of two fill, so messages are forgotten and `new_sender`
spins. Setters on one stream only, `Played`, bound the state space; the other
streams still get killed, dropped and run dry. Each stream is made once, so
that in the end no more Players are added, which is what `DeadReturned`
supposes: `process()` removes one dead Player per callback, the one with the
lowest index, and streams that keep coming and dying below another one keep it
in the list (`thread.rs:113-121`, `194`). AudioEvents: `cur_t` and `written_t`
hold two times, a third is one of neither. Undo: four places are a gutter and
three changes, so the gutter is dropped with any number undone. Backend: two
actions give every order, and a command of one between a change and an undo of
the other; the requests include creating what exists or is of no type,
parameters of the wrong type and a position out of bounds; three places are
enough for the gutter to be dropped. With files, in a second instance that
`MCBackend` puts beside the first (only one of them takes steps), one action
and two places suffice: what is saved is any point of any history, and the file
multiplies the states; a second request that edits makes 1,207,506 of them,
which were checked too. Playback: each scenario is the smallest in which its
case happens, and TLC takes one of them from the initial state. Two loads, so
that the streams of the first are leaving while the second plays; a file of
five frames, that fills a buffer of three more than once, with callbacks that
come late and files that break off; two channels, of which the spooler looks at
the first, and either of which may be rejected; an action that is edited,
deleted and brought back with its timer firing; a fade on a file whose load may
go. `bounds.internal` is 1: the event loop's queue has no bound in the code,
and a longer one only delays what is in it. Connections: two attempts to
connect are enough for an answer to one to reach the other (three refute
`ConnectedIsSubscribed` without `OneBefore`, which its comment explains), two
datagrams each way for an answer that waits in the sink. Mixer: two channels
requested over two, with a name exchanged, a port gone and a UUID new; the
index that stays free is met with four. Waveforms: two files, alike but for
which one there is at first; two changes, which is what a file sent in haste or
an update and an undo that pass each other need; and a UUID for every time the
editor may need a new one, but once updates have crossed only the first
(`MaxCrossed` 1). ActionView: two actions and one more that is made, three
things done by anyone. Connections makes up 190,819 of the states. The other
three have been checked alone in larger instances as well: Mixer with three
configurations 106,974, Waveforms with `MaxCrossed` 2, 385,310, and with three
changes besides, 8,047,534, ActionView with four things done 368,722.

Bounds in the guards. `MaxConns`, `MaxDatagrams`, `MaxApplied`, `MaxUuids`,
`MaxCrossed`, `MaxChanges`, `MaxActs`, `MaxOps` and `bounds` of Playback are
each named where they are declared. In Waveforms updates that have crossed can
chase each other for ever, each time with a new UUID: that is what `MaxCrossed`
bounds, and everything else goes on. In Connections nothing is sent when
`MaxDatagrams` are under way, and the sender waits.

The proofs remove these bounds for the safety of every module: each invariant
and each safety property of a step in the table above is a theorem for any
value of the constants. (`FilesSound` names three of `Backend` for the instance
with files, and the theorems about these hold with any files.)

Deadlock. `channels` may stop: with all ports registered and no channel a
caller has nothing to do. `undo` may stop: a panic ends the program. `playback`
may stop: an action that was deleted, or played as often as there are loads,
has nothing left to do, and a panic of the event loop ends it. `services` may
stop where its bounds are used up: the last configuration was applied, the last
change made, the last thing done. These have `CHECK_DEADLOCK FALSE`; the others
check deadlock.

Fairness. JACK calls `process()` again and again while the client is active,
and a callback returns: weak fairness of the callback's steps. A thread that
spins in `control.push()` runs: weak fairness of `PushCommand`. The doc of
`get_handle` (`lib.rs:279`) demands that messages be received: weak fairness of
`Receive`. A thread that is not blocked runs and a timeout expires: weak
fairness of `Wait`, `Wake`, `Timeout`. Nobody is obliged to call anything, and
callbacks are not obliged to send: `ReturnsIfSendsGoOn` states sending as a
premise. In Playback the event loop takes its messages and wakes its handler
(weak fairness of `Internal`, `Wakeup`), a fade's time runs out, the audio
thread goes through its Players (weak, for each), and the spooler and the
forwarding thread run: strong fairness, because the bound on `internal` blocks
them now and then, which the code's queue does not. No command is fair. In
Connections both event loops run and the kernel delivers a datagram or drops it
(weak), and time goes by: strong fairness of `Tick`, which waits while
datagrams are under way, and they may be so for ever in the model only because
nothing there takes time. Neither the user, nor another client, nor a loss, nor
the server's return is fair. In Waveforms the editor is drawn when GTK was told
to, messages arrive, and a thread ends (weak).

Mutants. Each module has operators marked as mutants, at least one per
property. `PROJECT.json` names, for each property of a run, one with which that
property is violated; for the joined properties of `services` it names one of
several.

## Where the code and its docs disagree

1. `players_drop`. `lib.rs:227` says that dropping the original Sender sets
   `alive` to false. If `AddPlayer` is still queued, `thread.rs:78` sets it to
   true afterwards, for good.
2. `players_resume`. `sync.rs:26` says how to resume after
   `PlayerInvalidOutpatch`. The callback stores `active = false` after the
   message (`thread.rs:157-158`), so a quick resume is undone.
3. `recv_lost_wakeup`. `sync.rs:69` says that `recv()` waits until a message is
   available. A message pushed between its `try_pop` and its wait does not wake
   it; `audio_events` shows what is guaranteed instead.
4. `undo_offered`. The client offers what `indexes()` reports; once the gutter
   was dropped (`undo.rs:43`) undoing everything underflows at `undo.rs:62`.
5. `drop_lands`. The menu of a dropped row offers to reorder it "_before this
   one" or "_after this one" (`sqa-ui/src/ui.glade:45`, `53`). The position is
   computed in the list with the row still in it (`actions/mod.rs:611`, `629`),
   and the server inserts into the list without it: a row dragged up to before
   another, or down to after another, lands one further, and the last one
   dropped after the last but one lands before it.

Other disagreements met while modelling. The properties are stated so as to
hold beside them, and say so in their comments:

- No timer watches over a handshake (`connection.rs:294`): one lost datagram
  and the client waits until the user gives up (`HandshakeEnds`).
- A bind that fails ends the attempt without a notification
  (`connection.rs:311`): the window goes on showing that it connects
  (`ShownIsState`).
- `handlers.rs:133` documents that a client is unsubscribed if sending to it
  over TCP fails; `send_raw` returns the error and leaves the client
  subscribed.
- A mixer configuration that gives the name of one channel to another removes
  the engine's channel and keeps the mixer's (`mixer.rs:101`); one that fails
  after a port was registered leaves a port without a channel (`mixer.rs:132`);
  and a patch that is changed is not remembered (`mixer.rs:113`):
  `PortsAreChannels`.
- A UUID whose request failed can be used for another file (`waveform.rs:60`),
  and its waveform is then kept for both (`ShownIsOfFile`).
- A new file that is sent twice before the server's answer keeps the UUID of
  the file before it, and with it that file's waveform: the second update has
  the file that the server knows by then, so that the UUID is left in
  (`sqa-backend/src/actions/audio.rs:188`), and a request for it is answered
  with what is kept (`waveform.rs:57`, `ShownIsOfFile`).
- A Player that the audio thread rejects is only logged (`state.rs:55`): an
  action whose first stream it was stays active until it is reset (`Plays`).
- The error of a spooler counts for whatever its action is doing when it is
  taken, also for a new load (`audio.rs:87`, `actions/mod.rs:385`):
  `EndsOnlyOwn` is about ends only.
- A broadcast to another client, or its datagram, has the answer to a version
  query leave before the client's TCP connection is accepted; its subscription
  may then be refused (`handlers.rs:304`, `FirstHandshakeAssociates`).
- `connection.rs:190` drops `ActionMaybePaused`, which the window is prepared
  to report the failure of (`actions/mod.rs:449`); it learns of a pause only
  from the broadcast.
- `empty_sent` is never reset (`thread.rs:143`): a stream that fell behind may
  play silence for ever (`StarvesOnlyWhenDisturbed`).

## Proofs

Every invariant that a passing run checks is proved, and so are the properties
of steps and the refinement. All are for arbitrary constants under the
assumptions the modules state, which TLC evaluates in the runs of each:
capacities are positive naturals and `MAX_UNDOS` is at least 2; the values that
stand for something absent are not members of the sets; there is a clock time
that neither field holds; loads are numbers and a file has a first channel;
more than two callbacks play from a buffer; bounds are natural numbers; the
first session of a mixer has a default configuration, and each one fits the
engine and has UUIDs and names of its own, as a server whose default channels
cannot be made does not start (`mixer.rs:45`).

- `Channels_proofs`: `TypeOK`, `TablesSound`, `Mirrored`, `NeverPanics`,
  `PortsDistinct`, `IndicesStable`. None is inductive alone: what the audio
  thread does is decided by commands queued long before. `IInv` says that the
  first table of `trail` is the audio thread's, that each table is sound, that
  each command can be handled by the table it will meet and leads to the next,
  and that the last is the main thread's, or will be when the pending command
  is pushed. A pigeonhole argument (`HolesFit`) shows that holes never outgrow
  their capacity. Then the lemmas of one table (`AddSound`, `RemoveSound`)
  carry over to the whole trail.
- `Players_proofs`: `TypeOK`, `OnePlace`, `LengthExact`, `AliveInDevice`,
  `NoMessageAfterReturn`. `IInv` adds the callback's position: the Player being
  visited and the one to be removed are in the list, and the latter is dead,
  because only `AddPlayer` raises a flag and never in the middle of a callback.
  `OnePlace` becomes the disjointness of five sets (`Apart`), and the message
  queue is described by the Players it owns and those it speaks of.
- `AudioEvents_proofs`: `TypeOK`, `WakesWhileWaiting`. The invariant says what
  the queue holds beyond `left` in the middle of a callback, when the stamp
  tells that the callback will signal.
- `Undo_proofs`: `TypeOK`, `IndexInRange`, and `Spec => RefinesStacks`: each
  step maps to a step of the stacks, by lemmas about where `SubSeq` is cut.
- `Backend_proofs`: `TypeOK`, `OrderIsActions`, `TimelineExact`,
  `ShownIsCurrent`. The timeline tells only where the history is now; to tell
  where an undo goes, `IInv` says of every change that its command leads from
  one entry of the timeline to the next and its inverse back (`TimelineSound`).
  It says so of the memory and of each file that can be read, since a load
  replaces the one by the other. An inverse is carried out in a list whose
  order may be another than when it was built; the lemmas speak of what a
  command does to the actions alone (`After`). `ClientOK` is about the client:
  what it was told last is what there is.
- `Playback_proofs`: `TypeOK`, `StreamMatchesState`, `PolledWhileActive`,
  `NoOrphanFade`, `EndsOnlyOwn`. The last is what needs an argument: a message
  says that a stream was removed from the audio thread, and puts the action to
  rest two hops later. `IInv` says that a removal in `events` or `internal` is
  true of the stream it names, and that a message that ends playback is about
  the load the action has now. The first survives every step because a step
  changes one stream at most (`OneStep`) and never makes one that was removed
  come back (`Follows`); the second because commands are taken only when
  `internal` is empty. The rest of `IInv` is that a load was made
  (`LoadSound`), a deleted action has none (`DeletedSound`) and an active fade
  has run (`FadeSound`). The lemmas about streams (`PlayersFollow`,
  `ControlFollows`, `SpoolFollows`) come first, then one lemma per command,
  message and thread. `StarvesOnlyWhenDisturbed` has an invariant of its own
  (`RefillSound`): the spooler that waits for room in its buffer has a request
  in its inbox, or one is under way, or the audio thread is still going to make
  one, because it has not told yet that the buffer is empty, or will yet find
  it half empty and say so. This holds if more than two callbacks play from a
  full buffer (100,000 samples in the code).
- `Connections_proofs`: `TypeOK`, `ShownIsState`, `ExpiresWhenSilent`. `IInv`
  says that what the window shows, or will show once it has taken what was
  sent, follows the state machine, and that a party's age never exceeds the
  time for which it has been silent, as whoever is heard makes every party
  younger. `ConnectedIsSubscribed`, `AssociatedIsMine` and
  `FirstHandshakeAssociates` rest on `Way`, which follows the handshake through
  the datagrams under way: connections are made in order and the client holds
  the last (`Links`); each state of the machine leaves only certain questions
  and answers between client and server (`Pipeline`); an answer that has not
  arrived is from a party heard of just now (`Recent`); from the answer to its
  subscription on, the client's association is with the connection it holds
  (`Associated`), and the first such connection was accepted before the answer
  to `Version` left (`Accepted`), unless another client was heard or sent
  something: a broadcast to the client itself would do it too, but before its
  first subscription it is sent none (`Unheard`). The bounds on ages and
  datagrams are constants there.
- `MCServices_proofs`: `ConnectionSound`, `WaveformSound`, `ViewSound`,
  `MixerSound` and `AllTypeOK`. A part steps only when it is the one in use, so
  that an invariant of a part is one of the sum.
  - Connections: what `Connections_proofs` shows of its steps.
  - Waveforms (`WaveInv`): the last update the server sent has its parameters
    (`LastIsCurrent`), each change of the history starts at the file where the
    one before it ended (`Chained`), and what is shown is what is kept for its
    UUID (`ShownIsKept`): all this however updates cross. While no request has
    failed, a thread or a result is of the file for which its UUID was made,
    and so is the first request for any UUID that the server has not seen
    (`RequestsRight`). While none was hasty, an update or a change of the
    history either has a UUID of its own file or comes as a new file to the
    server, which takes the UUID out (`Fitting`).
  - The client's list (`ViewInv`): what the mirror has of an action is what the
    server has, or a message that tells is under way, unless one was missed;
    and a message that tells something else is older than one that is right, or
    than one that was received (`MirrorInv`). The row selected has its editor
    beside the list or in a window unless that was put out of sight, and what
    is out of sight includes each editor that no controller has any more
    (`EditorInv`). Who chooses a target has a controller unless it was
    interrupted, and is the only one (`ChoiceInv`).
  - The mixer (`MixInv`): an entry of the mixer has an index of the engine's
    table, and free indices are empty (`Sound`); while nothing has gone wrong,
    the channels of the engine and those of the mixer are the same, one for
    one, with their ports (`Exact`). In the middle of `process_config` this
    holds of those channels only that the next pass keeps, and so each pass has
    an invariant with the set of entries for which it is exact. A pass is a
    fold; a lemma for each turns it into a run, a sequence of mixers each made
    from the one before, and what every step keeps holds of the last by
    `AllNaturals`, an induction over a set of numbers taken from the theorem
    that each non-empty set has a least member.

Only model-checked: the liveness properties `PushReturns`, `DeadReturned`,
`ReturnsIfSendsGoOn`, `TimedReturns`, `RunsEnd`, `StreamsEnd`, `StopNoticed`,
`HandshakeEnds`, `ComesToBeShown`, `RequestsEnd`. Liveness under fairness and
`ENABLED` are out of the prover's reach, and so are `RECURSIVE` operators; no
module here declares one.

## Plan

Done: the engine (`Channels`, `Players`, `AudioEvents`), the undo history, the
action list with its files (`Backend`), playback, the connection of a client,
the mixer, waveforms and the client's list, with the safety of each proved.
Next, in this order:

1. The safety steps towards liveness: that a Player which is dead, a message
   that waits or a request that was made moves closer to its end with each
   step that concerns it, and never back.
2. An abstract list of actions that undo and redo take back and forth, with
   `Backend` shown to implement it: the invariant behind `TimelineExact` has
   what the refinement needs.
3. The parts of `sqa-ui` and `sqa-jack` that hold state of a protocol and are
   modelled only as far as their neighbours need them.

## Not modelled

- Volume parameters (`param.rs`): a floating-point interpolation, and a pointer
  that is freed while it may be read, which has no outcome to model. That a
  volume moves only while its fade is active is in `Playback`. Positions and
  start times in `thread.rs` are left to choices: whether a stream is due and
  behind.
- Action durations, pre-wait and the descriptions and errors derived from
  parameters: they change no state that another component reads.
- GTK layout, the mixer's and settings' dialogs, sliders and entries
  (`sqa-ui/src/widgets/`, `main.rs`, `save.rs`, `config.rs`, the rest of
  `actions/`): they display values and send what is entered.
- The bindings to JACK and libav: thin wrappers. What the engine and the mixer
  need of JACK (names of ports that are taken or gone, callbacks) is in their
  modules.
- What a waveform looks like and what is heard: signal data.
- Parsing of messages (`rosc`, the derive macro), generated code, and the test
  client, an interactive program.
- `VerifyAction`, which no code carries out.
