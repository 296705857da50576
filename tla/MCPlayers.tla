----------------------------- MODULE MCPlayers ------------------------------
(* Players with more streams than the audio thread takes, and queues that  *)
(* fill up: rejections, forgotten messages and a spinning new_sender occur. *)
EXTENDS Players
=============================================================================
