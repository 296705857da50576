------------------------------- MODULE Waveforms -------------------------------
(***************************************************************************)
(* The waveform of an audio action: the editor of a client                 *)
(* (sqa-ui/src/actions/audio.rs), which asks for one whenever it draws     *)
(* itself without, and the server (sqa-backend/src/waveform.rs), where a   *)
(* worker thread per request reads the file and what it found is kept for  *)
(* good.  A request has a UUID that is part of the action's parameters, so *)
(* that it can be asked for again: by other clients, after an undo.        *)
(*                                                                         *)
(* A waveform is the file it was made of.  UUIDs are numbers in the order  *)
(* in which the editor makes them.  Both directions are in order: the      *)
(* messages are small and on one path, but for the waveform itself, which  *)
(* is no later than what is sent after it.                                 *)
(***************************************************************************)
EXTENDS Integers, Sequences, FiniteSets, SequencesExt, Functions

CONSTANTS
    Files, NoFile,
    MaxUuids,     \* bound: UUIDs the editor makes
    MaxCrossed,   \* bound: UUIDs after which it makes none once updates have crossed
    MaxChanges    \* bound: files chosen, invalidations, undos and redos

VARIABLES
    params,            \* the action's parameters on the server
    done, undone,      \* what can be undone and redone, of the changes to them
    active, completed, \* WaveformContext: threads by UUID, results by UUID
    ui, shown, redraw, \* the editor's parameters, waveform, whether GTK will draw
    made,              \* the file for which each UUID so far was made
    up, down,
    changes,
    failed,            \* history: a request was not carried out
    crossed, hasty     \* history: an update was sent with another under way; a file
                       \* was sent twice with the UUID of the file before it

serverVars == <<params, done, undone, active, completed>>
uiVars == <<ui, shown, redraw, made>>
vars == <<serverVars, uiVars, up, down, changes, failed, crossed, hasty>>

NoWave == 0
Uuids == 1..MaxUuids
Params == [url : Files \cup {NoFile}, wave : Uuids \cup {NoWave}]
Threads == {"running", "Ok", "Err", "died"}

(* What a module that instantiates this one assumes of the constants. *)
WaveformsAssumption ==
    /\ NoFile \notin Files /\ "Err" \notin Files
    /\ MaxUuids \in Nat /\ MaxCrossed \in Nat /\ MaxChanges \in Nat

Update(p) == [kind |-> "UpdateActionParams", params |-> p]
Generate(u, f) == [kind |-> "GenerateWaveform", uuid |-> u, file |-> f]
Info(p) == [kind |-> "UpdateActionInfo", params |-> p]
Generated(u, f) == [kind |-> "WaveformGenerated", uuid |-> u, res |-> f]

(* A file was dropped, which made an action of it, or an action was made   *)
(* without one; its editor is about to be drawn.                           *)
NewParams == [url : Files \cup {NoFile}, wave : {NoWave}]
Init ==
    /\ params \in NewParams /\ done = <<>> /\ undone = <<>>
    /\ active = <<>> /\ completed = <<>>
    /\ ui = params /\ shown = NoFile /\ redraw = TRUE /\ made = <<>>
    /\ up = <<>> /\ down = <<>>
    /\ changes = 0 /\ failed = FALSE /\ crossed = FALSE /\ hasty = FALSE

-----------------------------------------------------------------------------
(* The editor *)

(* The parameters are always sent as a whole, so that an update that knows *)
(* nothing of another puts back a file, or the UUID the server had removed. *)
Carries(msg) == msg.kind \in {"UpdateActionParams", "UpdateActionInfo"}
Crosses == \E msg \in ToSet(up \o down) : Carries(msg)

(* An update with a new file has the UUID of the file before, which the     *)
(* server takes out, as the file is not the one it knows.  So it does not   *)
(* if it has heard of the file already: the same update was sent before,    *)
(* with nothing or another edit in between, or an undo came to the file.    *)
Fits(p) == p.wave = NoWave \/ made[p.wave] = p.url
Sent(msgs) == {msg.params : msg \in {m \in ToSet(msgs) : Carries(m)}}
ApplyChanges(p) ==
    /\ up' = Append(up, Update(p))
    /\ crossed' = (crossed \/ Crosses)
    /\ hasty' = (hasty \/ (~Fits(p) /\ \E q \in Sent(up \o down) : q.url = p.url))

Change == changes < MaxChanges /\ changes' = changes + 1

(* Mutant: what is drawn already stays. *)
UpdateWaveformQuietly(wave) == shown' = wave /\ UNCHANGED redraw
UpdateWaveform(wave) == shown' = wave /\ redraw' = TRUE

(* Any other edit sends the file there is. *)
FileChanged(f) ==
    /\ Change
    /\ ui' = [ui EXCEPT !.url = f]
    /\ ApplyChanges(ui')
    /\ UNCHANGED <<serverVars, shown, redraw, made, down, failed>>

(* The button is there only for a waveform that is shown. *)
InvalidateWaveform ==
    /\ Change
    /\ shown # NoFile /\ ui.wave # NoWave
    /\ ui' = [ui EXCEPT !.wave = NoWave]
    /\ UpdateWaveform(NoFile)
    /\ ApplyChanges(ui')
    /\ UNCHANGED <<serverVars, made, down, failed>>

GenerateWaveform ==
    /\ ui.wave # NoWave \/ (Len(made) < MaxUuids /\ (crossed => Len(made) < MaxCrossed))
    /\ IF ui.wave = NoWave
       THEN /\ made' = Append(made, ui.url) /\ ui' = [ui EXCEPT !.wave = Len(made')]
            /\ up' = up \o <<Update(ui'), Generate(ui'.wave, ui.url)>>
            /\ crossed' = (crossed \/ Crosses)
       ELSE /\ up' = Append(up, Generate(ui.wave, ui.url))
            /\ UNCHANGED <<made, ui, crossed>>

Draw ==
    /\ redraw /\ redraw' = FALSE
    /\ IF shown = NoFile /\ ui.url # NoFile
       THEN GenerateWaveform
       ELSE UNCHANGED <<ui, made, up, crossed>>
    /\ UNCHANGED <<serverVars, shown, down, changes, failed, hasty>>

(* GTK may draw the editor at any time, for reasons of its own. *)
Expose ==
    /\ ~redraw /\ shown = NoFile /\ up = <<>> /\ redraw' = TRUE
    /\ Change
    /\ UNCHANGED <<serverVars, ui, shown, made, up, down, failed, crossed, hasty>>

(* Mutant: a waveform goes with any parameters. *)
OnNewParametersKeeping(p) == ui' = p /\ UNCHANGED <<shown, redraw>>
OnNewParameters(p) ==
    /\ ui' = p
    /\ IF p.wave # ui.wave THEN UpdateWaveform(NoFile) ELSE UNCHANGED <<shown, redraw>>

OnWaveformReply(u, res) ==
    /\ IF ui.wave = u /\ res # "Err" THEN UpdateWaveform(res) ELSE UNCHANGED <<shown, redraw>>
    /\ UNCHANGED ui

HandleReply ==
    /\ down # <<>> /\ down' = Tail(down)
    /\ LET msg == Head(down)
       IN \/ msg.kind = "UpdateActionInfo" /\ OnNewParameters(msg.params)
          \/ msg.kind = "WaveformGenerated" /\ OnWaveformReply(msg.uuid, msg.res)
    /\ UNCHANGED <<serverVars, made, up, changes, failed, crossed, hasty>>

-----------------------------------------------------------------------------
(* The server *)

(* Mutant: the parameters are taken as they are. *)
TakenAsIs(p) == p
Taken(p) == IF p.url # params.url THEN [p EXCEPT !.wave = NoWave] ELSE p
SetParams(p) ==
    /\ params' = Taken(p)
    /\ down' = Append(down, Info(params'))

(* execute_request: the thread that may run already is not disturbed, and   *)
(* what is known is sent again; a file that cannot be opened is an error    *)
(* that no reply tells of.                                                  *)
ExecuteRequest(u, f) ==
    \/ /\ u \in DOMAIN active
       /\ UNCHANGED <<active, down, failed>>
    \/ /\ u \notin DOMAIN active /\ u \in DOMAIN completed
       /\ down' = Append(down, Generated(u, completed[u]))
       /\ UNCHANGED <<active, failed>>
    \/ /\ u \notin DOMAIN active \cup DOMAIN completed
       /\ failed' = TRUE
       /\ UNCHANGED <<active, down>>
    \/ /\ u \notin DOMAIN active \cup DOMAIN completed
       /\ active' = [v \in DOMAIN active \cup {u} |->
                        IF v = u THEN [file |-> f, thread |-> "running"] ELSE active[v]]
       /\ UNCHANGED <<down, failed>>

HandleCommand ==
    /\ up # <<>> /\ up' = Tail(up)
    /\ LET cmd == Head(up)
       IN \/ /\ cmd.kind = "UpdateActionParams" /\ SetParams(cmd.params)
             /\ done' = Append(done, [undo |-> params, redo |-> cmd.params]) /\ undone' = <<>>
             /\ UNCHANGED <<active, failed>>
          \/ /\ cmd.kind = "GenerateWaveform" /\ ExecuteRequest(cmd.uuid, cmd.file)
             /\ UNCHANGED <<params, done, undone>>
    /\ UNCHANGED <<completed, uiVars, changes, crossed, hasty>>

(* Any client undoes or redoes: an update with the parameters of before,    *)
(* not with what the server made of them.                                  *)
UndoOrRedo ==
    /\ Change
    /\ \/ /\ done # <<>>
          /\ SetParams(Last(done).undo)
          /\ done' = Front(done) /\ undone' = Append(undone, Last(done))
       \/ /\ undone # <<>>
          /\ SetParams(Last(undone).redo)
          /\ undone' = Front(undone) /\ done' = Append(done, Last(undone))
    /\ crossed' = (crossed \/ Crosses)
    /\ hasty' = (hasty \/ \E p \in Sent(up) : ~Fits(p) /\ p.url = params'.url)
    /\ UNCHANGED <<active, completed, uiVars, up, failed>>

(* A worker reads its file to the end, cannot read it, or panics. *)
Finish ==
    /\ \E u \in DOMAIN active, end \in Threads \ {"running"} :
          /\ active[u].thread = "running"
          /\ active' = [active EXCEPT ![u].thread = end]
          /\ failed' = (failed \/ end # "Ok")
    /\ UNCHANGED <<params, done, undone, completed, uiVars, up, down, changes, crossed, hasty>>

(* Mutant: a thread that has died is waited for. *)
ResolvedNotDied(u) == active[u].thread \in {"Ok", "Err"}
Resolved(u) == active[u].thread # "running"
Result(u) == IF active[u].thread = "Ok" THEN active[u].file ELSE "Err"

OnWakeup ==
    LET ended == {u \in DOMAIN active : Resolved(u)}
        found == {u \in ended : Result(u) # "Err"}
    IN /\ ended # {}
       /\ active' = Restrict(active, DOMAIN active \ ended)
       /\ completed' = [u \in DOMAIN completed \cup found |->
                            IF u \in found THEN Result(u) ELSE completed[u]]
       /\ \E order \in SetToSeqs(ended) :
             down' = down \o [i \in DOMAIN order |-> Generated(order[i], Result(order[i]))]
       /\ UNCHANGED <<params, done, undone, uiVars, up, changes, failed, crossed, hasty>>

-----------------------------------------------------------------------------

User == (\E f \in Files : FileChanged(f)) \/ InvalidateWaveform \/ Expose
Next ==
    \/ User \/ Draw \/ HandleReply
    \/ HandleCommand \/ UndoOrRedo \/ Finish \/ OnWakeup

Spec == Init /\ [][Next]_vars

(* Both programs run, and a thread that reads a file comes to its end. *)
Fairness ==
    /\ WF_vars(Draw) /\ WF_vars(HandleReply)
    /\ WF_vars(HandleCommand) /\ WF_vars(Finish) /\ WF_vars(OnWakeup)
FairSpec == Spec /\ Fairness

-----------------------------------------------------------------------------
(* Properties *)

TypeOK ==
    /\ params \in Params /\ ui \in Params
    /\ done \in Seq([undo : Params, redo : Params]) /\ undone \in Seq([undo : Params, redo : Params])
    /\ DOMAIN active \subseteq Uuids /\ DOMAIN completed \subseteq Uuids
    /\ \A u \in DOMAIN active : active[u] \in [file : Files, thread : Threads]
    /\ \A u \in DOMAIN completed : completed[u] \in Files
    /\ shown \in Files \cup {NoFile} /\ redraw \in BOOLEAN
    /\ made \in Seq(Files) /\ Len(made) <= MaxUuids
    /\ changes \in 0..MaxChanges
    /\ failed \in BOOLEAN /\ crossed \in BOOLEAN /\ hasty \in BOOLEAN
    /\ DOMAIN active \cap DOMAIN completed = {}

Quiet == up = <<>> /\ down = <<>>

(* Once nothing is under way, the editor has the server's parameters, and  *)
(* shows what the server keeps for their UUID, whatever was chosen,        *)
(* invalidated, undone and requested meanwhile, in whatever order.  It is  *)
(* the waveform of the action's file, with two exceptions: after a request *)
(* failed its UUID can be used for another file (waveform.rs:60), and a    *)
(* new file that was sent twice before the server had answered keeps the   *)
(* UUID of the file before it, and with it the waveform (backend           *)
(* audio.rs:188, waveform.rs:57).                                          *)
ShownIsOfFile ==
    Quiet =>
        /\ ui = params
        /\ shown # NoFile => params.wave \in DOMAIN completed /\ shown = completed[params.wave]
        /\ shown # NoFile /\ ~failed /\ ~hasty => shown = params.url

(* An editor that is drawn, of an action with a file, comes to show its    *)
(* waveform, unless something failed or an update was sent with another     *)
(* under way: two can pass each other again and again (ui audio.rs:136).   *)
ComesToBeShown ==
    redraw /\ ui.url # NoFile ~> (shown # NoFile \/ ui.url = NoFile \/ failed \/ crossed)

(* A request that was taken up is answered, also when its thread dies       *)
(* (waveform.rs:140).                                                      *)
RequestsEnd == \A u \in Uuids : u \in DOMAIN active ~> u \notin DOMAIN active
=============================================================================
