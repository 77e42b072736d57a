--------------------------- MODULE MCJitterBuffer ---------------------------
(***************************************************************************)
(* JitterBuffer for TLC: the constants are given in the cfg files.         *)
(***************************************************************************)
EXTENDS JitterBuffer
=============================================================================
