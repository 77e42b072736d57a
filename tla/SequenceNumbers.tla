-------------------------- MODULE SequenceNumbers --------------------------
(***************************************************************************)
(* The circular sequence-number arithmetic of pkg/rtp/jitter.go and        *)
(* pkg/decoder/h264.go.  The code computes in uint16 and int32; M is the   *)
(* size of the sequence space, 65536 in the code, so that TLC can run the  *)
(* same formulas on a small circle.  Operators keep the code's names.      *)
(***************************************************************************)
EXTENDS Integers

CONSTANT M          \* size of the sequence space (2^16 in the code)

ASSUME MAssumption == M \in Nat /\ M > 0 /\ M % 2 = 0

Seqno == 0 .. M - 1
Half  == M \div 2

\* seq + n in the code's unsigned arithmetic, for n no larger than the circle.
Advance(seq, n) == IF seq + n >= M THEN seq + n - M ELSE seq + n

\* Mutant: the wraparound is counted one short.
sequenceDiffOneShort(seq1, seq2) ==
  IF seq2 >= seq1 THEN seq2 - seq1 ELSE ((M - 1) - seq1) + seq2

\* Steps forward from seq1 to seq2 (both packages spell it the same way).
sequenceDiff(seq1, seq2) ==
  IF seq2 >= seq1 THEN seq2 - seq1 ELSE ((M - 1) - seq1) + seq2 + 1

\* Mutant: the plain order, without the wraparound.
sequenceComparePlain(seq1, seq2) ==
  IF seq1 = seq2 THEN 0 ELSE IF seq1 < seq2 THEN -1 ELSE 1

\* -1, 0, 1 as seq1 comes before, equals, comes after seq2: the sign of the
\* plain difference, flipped when the distance exceeds half the circle.
sequenceCompare(seq1, seq2) ==
  LET diff == seq1 - seq2
  IN  IF diff = 0 THEN 0
      ELSE IF diff > Half THEN -1
      ELSE IF diff < -Half THEN 1
      ELSE IF diff < 0 THEN -1 ELSE 1

isSequenceNewer(seq, expected) == sequenceCompare(seq, expected) > 0

\* Mutant: the plain order, without the wraparound.
sequenceBeforePlain(seq1, seq2) == seq1 <= seq2

\* The decoder's own order.  Unlike sequenceCompare it is reflexive.
sequenceBefore(seq1, seq2) == sequenceDiff(seq1, seq2) < Half
sequenceAfter(seq1, seq2)  == sequenceBefore(seq2, seq1)
=============================================================================
