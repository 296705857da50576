----------------------------- MODULE MCChannels -----------------------------
(* Channels with three usable indices, four ports and a command queue of   *)
(* two, so that holes are reused in every order, the limit is reached and  *)
(* the main thread spins on a full queue.                                  *)
EXTENDS Channels
=============================================================================
