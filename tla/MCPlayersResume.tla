-------------------------- MODULE MCPlayersResume ---------------------------
(* Players with a history variable: the stream that the last call of a     *)
(* thread with a Sender resumed, on a valid output patch.                  *)
EXTENDS Players

VARIABLE resumed

ResumeInit == Init /\ resumed = {}

ResumeNext ==
    \/ \E p \in Played :
          /\ SetActive(p, TRUE)
          /\ resumed' = {q \in {p} : outputPatch[q] \in Channels}
    \/ Callback /\ UNCHANGED resumed
    \/ /\ \/ \E p \in Streams : NewSender(p) \/ DropSender(p) \/ SetActive(p, FALSE)
          \/ \E p \in Played, c \in Channels \cup {NoPatch} : SetOutputPatch(p, c)
          \/ Receive
       /\ resumed' = {}

ResumeSpec == ResumeInit /\ [][ResumeNext]_<<vars, resumed>>

(* The docs of PlayerInvalidOutpatch (sync.rs:24) and set_output_patch     *)
(* (lib.rs:188): only an invalid patch halts a stream, and playback        *)
(* resumes with a valid patch and set_active(true).  So a stream resumed   *)
(* this way, with no call since, is active.                                *)
ResumedIsActive == \A p \in resumed : active[p]
=============================================================================
