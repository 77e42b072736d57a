--------------------------- MODULE MCSessionClock ---------------------------
(***************************************************************************)
(* The keep-alive against the session timeout in units of two seconds:     *)
(* timeouts on both sides of every bound of the interval.                  *)
(***************************************************************************)
EXTENDS SessionClock

MCTimeouts == {0, 2, 5, 6, 10, 20, 30, 32}
=============================================================================
