--------------------------- MODULE MCFrameStorage ---------------------------
(***************************************************************************)
(* A circle of six timestamps: ticks 1 and 7 share one; 5 is near 7, past  *)
(* the wraparound, and more than half a turn from 1.                       *)
(***************************************************************************)
EXTENDS FrameStorage, TLC

MCTicks    == {1, 5, 7}
SettersSym == Permutations(Setters)
=============================================================================
