----------------------------- MODULE MCPlayback -----------------------------
(* Instances of Playback for TLC. *)
EXTENDS Playback

MCLoads == 1..2
MCChans == 1..2
MCScenarios ==
    { \* played again while the streams of the first time still leave
     [loads |-> 1..2, chans |-> {1}, frames |-> 0, internal |-> 1, with |-> {}],
      \* a file that fills the buffer more than once, and all that can go wrong
     [loads |-> {1}, chans |-> {1}, frames |-> 5, internal |-> 1, with |-> {"faults"}],
      \* two channels, the spooler looking at the first, and either may be rejected
     [loads |-> {1}, chans |-> {1, 2}, frames |-> 1, internal |-> 1, with |-> {"full"}],
      \* an action that is changed, deleted and brought back
     [loads |-> {1}, chans |-> {1}, frames |-> 0, internal |-> 1, with |-> {"edits", "deletes", "timers"}],
      \* a fade on the file
     [loads |-> {1}, chans |-> {1}, frames |-> 0, internal |-> 1, with |-> {"fades", "deletes"}]}
=============================================================================
