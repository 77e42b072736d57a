------------------------ MODULE MCControlConnection ------------------------
(***************************************************************************)
(* ControlConnection for TLC: the constants are given in the cfg files.    *)
(***************************************************************************)
EXTENDS ControlConnection
=============================================================================
