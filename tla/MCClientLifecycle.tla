------------------------- MODULE MCClientLifecycle -------------------------
(***************************************************************************)
(* ClientLifecycle for TLC: the constants are given in the cfg files.      *)
(***************************************************************************)
EXTENDS ClientLifecycle
=============================================================================
