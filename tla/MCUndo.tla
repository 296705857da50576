------------------------------- MODULE MCUndo -------------------------------
(* Undo with a vector of four: the gutter is dropped after four changes,   *)
(* with any number of them undone or redone in between.                    *)
EXTENDS Undo
=============================================================================
