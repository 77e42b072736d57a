------------------------ MODULE MCContinuousDecoder ------------------------
(***************************************************************************)
(* ContinuousDecoder for TLC: the constants are given in the cfg files.    *)
(***************************************************************************)
EXTENDS ContinuousDecoder
=============================================================================
