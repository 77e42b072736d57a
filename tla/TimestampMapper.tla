-------------------------- MODULE TimestampMapper --------------------------
(***************************************************************************)
(* type TimestampMapper of pkg/rtp/rtcp.go: from the 32-bit RTP timestamps *)
(* of a stream to the sender's wall clock, by way of the last RTCP Sender  *)
(* Report.  T is the number of RTP timestamps, 2^32 in the code, so that   *)
(* TLC can run the same formulas on a small circle.  The wall clock counts *)
(* in ticks of the RTP clock (clockRate): the 32 fraction bits of an NTP   *)
(* timestamp are abstracted, the bits that overflow are not.               *)
(***************************************************************************)
EXTENDS Integers

CONSTANT T          \* number of RTP timestamps (2^32 in the code)

ASSUME TimestampAssumption == T \in Nat /\ T > 0 /\ T % 2 = 0

RtpTime  == 0 .. T - 1
HalfTurn == T \div 2

NewTimestampMapper == [initialized |-> FALSE, rtp |-> 0, ntp |-> 0]

\* Whatever report comes replaces the mapping: its SSRC is not looked at.
UpdateFromSR(sr) == [initialized |-> TRUE, rtp |-> sr.rtp, ntp |-> sr.ntp]

\* `rtpDiff << 32' in int64 keeps the low 32 bits of the difference, and they
\* are signed: what is left is the difference along the shorter way round.
Shifted(rtpDiff) ==
  LET low == IF rtpDiff < 0 THEN rtpDiff + T ELSE rtpDiff
  IN  IF low < HalfTurn THEN low ELSE low - T

\* Mutant: a wider product that does not overflow.
RTPToNTPWide(mapper, rtpTime) ==
  IF mapper.initialized THEN mapper.ntp + (rtpTime - mapper.rtp) ELSE 0

\* 0 stands for "no mapping yet".
RTPToNTP(mapper, rtpTime) ==
  IF mapper.initialized THEN mapper.ntp + Shifted(rtpTime - mapper.rtp) ELSE 0
=============================================================================
