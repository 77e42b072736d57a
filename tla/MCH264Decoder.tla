---------------------------- MODULE MCH264Decoder ----------------------------
(***************************************************************************)
(* H264Decoder for TLC: three short streams of M = 16 sequence numbers.    *)
(***************************************************************************)
EXTENDS H264Decoder

Pkt(seq, ts, ssrc, part, nals, marker) ==
  [seq |-> seq, ts |-> ts, ssrc |-> ssrc, marker |-> marker, part |-> part,
   nals |-> nals]

\* Across the wraparound: a fragmented key frame with its parameter sets, and
\* one without.
OneSender ==
  << Pkt(14, 1, 1, "stap",  {"sps", "pps"}, FALSE),
     Pkt(15, 1, 1, "start", {"idr"}, FALSE),
     Pkt( 0, 1, 1, "end",   {"idr"}, TRUE),
     Pkt( 1, 2, 1, "whole", {"slice"}, FALSE),
     Pkt( 2, 2, 1, "whole", {"idr"}, TRUE) >>

\* A frame long enough to miss LossLimit packets in a row, and the next one.
ManySlices ==
  << Pkt(13, 1, 1, "whole", {"slice"}, FALSE),
     Pkt(14, 1, 1, "whole", {"slice"}, FALSE),
     Pkt(15, 1, 1, "whole", {"slice"}, FALSE),
     Pkt( 0, 1, 1, "whole", {"slice"}, TRUE),
     Pkt( 1, 2, 1, "whole", {"slice"}, TRUE) >>

\* A camera that restarts in the middle of a frame; the new sender's numbers
\* and timestamps fall on the old one's.
TwoSenders ==
  << Pkt(14, 1, 1, "stap",  {"sps", "pps"}, TRUE),
     Pkt(15, 2, 1, "start", {"idr"}, FALSE),
     Pkt(14, 2, 2, "start", {"idr"}, FALSE),
     Pkt(15, 2, 2, "end",   {"idr"}, TRUE),
     Pkt( 0, 3, 2, "whole", {"idr"}, TRUE) >>

MCStreams == {OneSender, ManySlices, TwoSenders}

\* The streams are what the theorems about undisturbed streams ask for.
ASSUME MCStreamsAreWellSent == \A s \in MCStreams : WellSent(s)
=============================================================================
