----------------------------- MODULE MCServices -----------------------------
(***************************************************************************)
(* What stands between the server's actions and a user who looks at them:  *)
(* the connection, the mixer, the waveforms of the actions and their list. *)
(* None of them reads the state of another, and so one run checks them all,*)
(* each on its own: the part that is in use is chosen at the start, and    *)
(* the others stay as they are.                                            *)
(*                                                                         *)
(* Connections: one interface, its attempts to connect, two datagrams      *)
(* under way in each direction, and everything that may come in between.   *)
(* Mixer: two sessions of two default channels each, with the same names;  *)
(* clients ask for up to two channels, some of them patched to a port that *)
(* is gone.  Waveforms: two files, and UUIDs enough for each time the      *)
(* editor may need one.  ActionView: two actions at first, the data of one *)
(* of them too long for a datagram.                                        *)
(***************************************************************************)
EXTENDS Connections

CONSTANTS
    MixerUuids, Names, Sinks, NoSink, NoPatch, NoPort, NoConf,
    MaxChans, Defaults, Requests, MaxApplied,
    Files, NoFile, MaxUuids, MaxCrossed, MaxChanges,
    MaxActs, Listed, Long, MaxOps

VARIABLES
    part,
    session, chans, holes, leaked, channels, defs, saved, asked, answer, applied, hist,
    params, done, undone, active, completed, ui, wave, redraw, waveMade, waveUp, waveDown,
    changes, failed, crossed, hasty,
    list, order, made, commands, replies, opas, ctls, shownOrder, row, widget,
    sel, dnd, clipboard, ops, handled, newest, missed, interrupted, hidden

mixerVars ==
    <<session, chans, holes, leaked, channels, defs, saved, asked, answer, applied, hist>>
waveformVars ==
    <<params, done, undone, active, completed, ui, wave, redraw, waveMade, waveUp, waveDown,
      changes, failed, crossed, hasty>>
viewVars ==
    <<list, order, made, commands, replies, opas, ctls, shownOrder, row, widget,
      sel, dnd, clipboard, ops, handled, newest, missed, interrupted, hidden>>
allVars == <<part, vars, mixerVars, waveformVars, viewVars>>

M == INSTANCE Mixer WITH Uuids <- MixerUuids
W == INSTANCE Waveforms
        WITH shown <- wave, made <- waveMade, up <- waveUp, down <- waveDown
V == INSTANCE ActionView WITH up <- commands, down <- replies

ASSUME MixerConstants == M!MixerAssumption
ASSUME WaveformsConstants == W!WaveformsAssumption
ASSUME ViewConstants == V!ActionViewAssumption

MCWith == Circumstances
MCDefaults ==
    <<<<[uuid |-> "u1", name |-> "a", patch |-> "s1"], [uuid |-> "u2", name |-> "b", patch |-> "s2"]>>,
      <<[uuid |-> "v1", name |-> "a", patch |-> "s1"], [uuid |-> "v2", name |-> "b", patch |-> "s2"]>>>>
MCFirst == [uuid : {"u1", "w"}, name : Names, patch : {"s1", NoSink}]
MCSecond == {[uuid |-> "u2", name |-> "a", patch |-> "s2"], [uuid |-> "w", name |-> "c", patch |-> "s2"]}
MCRequests ==
    {[channels |-> cs, defs |-> {"u1", "w"}] :
        cs \in {<<>>} \cup {<<c>> : c \in MCFirst} \cup {<<c, d>> : c \in MCFirst, d \in MCSecond}}

-----------------------------------------------------------------------------

MCInit ==
    /\ part \in {"connections", "mixer", "waveforms", "view"}
    /\ Init /\ M!Init /\ W!Init /\ V!Init
    /\ IF part = "waveforms" THEN params.url \in {"f", NoFile} \* the files are alike
       ELSE params.url = NoFile \* no waveform to wait for

ConnectionsStep == part = "connections" /\ Next /\ UNCHANGED <<part, mixerVars, waveformVars, viewVars>>
MixerStep == part = "mixer" /\ M!Next /\ UNCHANGED <<part, vars, waveformVars, viewVars>>
WaveformsStep == part = "waveforms" /\ W!Next /\ UNCHANGED <<part, vars, mixerVars, viewVars>>
ViewStep == part = "view" /\ V!Next /\ UNCHANGED <<part, vars, mixerVars, waveformVars>>
MCNext == ConnectionsStep \/ MixerStep \/ WaveformsStep \/ ViewStep

InConnections(A) == part = "connections" /\ A
InWaveforms(A) == part = "waveforms" /\ A

(* Fairness of Connections and Fairness of Waveforms, in the sum. *)
MCFairness ==
    /\ WF_vars(InConnections(OnStateChange)) /\ WF_vars(InConnections(HandleInternal))
    /\ WF_vars(InConnections(TcpReady \/ TcpError)) /\ WF_vars(InConnections(HandleExternal))
    /\ WF_vars(InConnections(PingTimeout)) /\ WF_vars(InConnections(OnExternal))
    /\ WF_vars(InConnections(Accept)) /\ WF_vars(InConnections(PollComplete))
    /\ WF_vars(InConnections(Unreachable)) /\ SF_vars(InConnections(Tick))
    /\ WF_waveformVars(InWaveforms(W!Draw)) /\ WF_waveformVars(InWaveforms(W!HandleReply))
    /\ WF_waveformVars(InWaveforms(W!HandleCommand)) /\ WF_waveformVars(InWaveforms(W!Finish))
    /\ WF_waveformVars(InWaveforms(W!OnWakeup))
MCSpec == MCInit /\ [][MCNext]_allVars /\ MCFairness

-----------------------------------------------------------------------------

(* Each part has its types. *)
AllTypeOK ==
    CASE part = "connections" -> TypeOK
      [] part = "mixer" -> M!TypeOK
      [] part = "waveforms" -> W!TypeOK
      [] part = "view" -> V!TypeOK

(* Interface and server agree on who is subscribed, over which TCP          *)
(* connection, and the window on what the connection is, while datagrams   *)
(* are lost, the server stops and attempts are cut short (handlers.rs:190, *)
(* connection.rs:165): the parts of it, and their exceptions, are          *)
(* explained in Connections.                                               *)
ConnectionSound ==
    part = "connections" =>
        ConnectedIsSubscribed /\ AssociatedIsMine /\ FirstHandshakeAssociates /\ ShownIsState

(* A server that stopped is noticed and a handshake ends, if nothing is     *)
(* lost; and no client that speaks is forgotten (connection.rs:165, 294,   *)
(* handlers.rs:234).                                                       *)
ConnectionProgress == StopNoticed /\ HandshakeEnds /\ ExpiresWhenSilent

(* The mixer has the channels it was asked for, on ports of their own, and  *)
(* its default channels, wherever a configuration failed (mixer.rs:94).    *)
MixerSound == part = "mixer" => M!DefsExist /\ M!PortsAreChannels /\ M!AppliedIsAsked

(* Once nothing is under way the waveform shown is what the server keeps    *)
(* for the action's parameters, and it is that of the action's file, unless *)
(* a request failed or a new file was sent twice before the server had      *)
(* answered (backend audio.rs:188, waveform.rs:57, ui audio.rs:155).        *)
WaveformSound == part = "waveforms" => W!ShownIsOfFile

(* Each request for a waveform ends, and the waveform comes to be shown,    *)
(* unless a request failed or an update was sent with another under way    *)
(* (waveform.rs:140, ui audio.rs:136).                                     *)
WaveformProgress == W!ComesToBeShown /\ W!RequestsEnd

(* The interface's list is the server's once nothing is under way, unless   *)
(* a message was lost or overtaken since the last full list; one fade at a *)
(* time is choosing its target, unless its choice was interrupted; and the *)
(* row selected has its editor, unless that was closed (ui                 *)
(* actions/mod.rs:425, 545, 511).                                          *)
ViewSound == part = "view" => V!MirrorExact /\ V!OneIsChoosing /\ V!EditorIsShown
=============================================================================
