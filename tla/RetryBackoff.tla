---------------------------- MODULE RetryBackoff ----------------------------
(***************************************************************************)
(* The retry loop of pkg/rtsp/recovery.go: how long it sleeps between the  *)
(* attempts.  Durations are signed integers of the width of int64; Word is *)
(* half their number, 2^63 in the code.                                    *)
(***************************************************************************)
EXTENDS Integers, Sequences

CONSTANTS Word,             \* 2^63 in the code
          DefaultRetries,   \* 3
          DefaultInitial,   \* 100 ms
          DefaultMaxDelay   \* 30 s

ASSUME BackoffAssumption ==
  /\ Word \in Nat \ {0}
  /\ DefaultRetries \in Nat \ {0}
  /\ DefaultInitial \in 1 .. Word - 1 /\ DefaultMaxDelay \in 1 .. Word - 1

\* An integer as int64 holds it.
Wrapped(n) == ((n + Word) % (2 * Word)) - Word

NewRetryConfig(maxRetries, initialDelay, maxDelay) ==
  [retries |-> IF maxRetries   <= 0 THEN DefaultRetries  ELSE maxRetries,
   initial |-> IF initialDelay <= 0 THEN DefaultInitial  ELSE initialDelay,
   max     |-> IF maxDelay     <= 0 THEN DefaultMaxDelay ELSE maxDelay]

\* 1 << n, before int64 wraps it.
Power2[n \in Nat] == IF n = 0 THEN 1 ELSE 2 * Power2[n - 1]

\* Mutant: the cap is applied before the multiplication.
calculateBackoffCappedFirst(attempt, initialDelay, maxDelay) ==
  LET capped == IF initialDelay > maxDelay THEN maxDelay ELSE initialDelay
  IN  Wrapped(capped * Wrapped(Power2[attempt]))

calculateBackoff(attempt, initialDelay, maxDelay) ==
  LET delay == Wrapped(initialDelay * Wrapped(Power2[attempt]))
  IN  IF delay > maxDelay THEN maxDelay ELSE delay

\* The sleeps of retryWithBackoff when the first `failures' attempts fail:
\* one after each, but none after the last attempt.
retryWithBackoff(config, failures) ==
  [k \in 1 .. (IF failures < config.retries THEN failures ELSE config.retries - 1)
     |-> calculateBackoff(k - 1, config.initial, config.max)]
=============================================================================
