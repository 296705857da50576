--------------------------- MODULE MCAudioEvents ----------------------------
(* AudioEvents with a queue of three, and enough times for a callback to   *)
(* have one of its own: cur_t and written_t hold two.                      *)
EXTENDS AudioEvents

MCTimes == {1, 2, 3}
MCCalls == {"recv", "wait_for", "try_recv"}
MCRecv == {"recv"}
=============================================================================
