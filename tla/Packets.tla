------------------------------ MODULE Packets ------------------------------
(***************************************************************************)
(* The parsers of pkg/rtp: ParsePacket of packet.go and ParseRTCPPacket of *)
(* rtcp.go, over sequences of octets.  Offsets count from 0 as in the      *)
(* code.  Every failure is the one value Malformed.                        *)
(***************************************************************************)
EXTENDS Integers, SequencesExt

Octet(data, offset)  == data[offset + 1]
Uint16(data, offset) == 256 * Octet(data, offset) + Octet(data, offset + 1)
Uint32(data, offset) == SubSeq(data, offset + 1, offset + 4)
Octets(data, offset, n) == SubSeq(data, offset + 1, offset + n)

Version(data) == Octet(data, 0) \div 64
Count(data)   == Octet(data, 0) % 32        \* report or source count
Malformed     == "malformed"
-----------------------------------------------------------------------------
(* RTP.                                                                    *)

Extended(data) == (Octet(data, 0) \div 16) % 2 = 1
Padded(data)   == (Octet(data, 0) \div 32) % 2 = 1
CsrcEnd(data)  == 12 + 4 * (Octet(data, 0) % 16)

HeaderSize(data) ==
  IF Extended(data)
  THEN CsrcEnd(data) + 4 + ((Uint16(data, CsrcEnd(data) + 2) * 4) % 65536)
  ELSE CsrcEnd(data)

\* Padding that would be longer than the payload is left in.
Unpadded(data, payload) ==
  IF Padded(data) /\ payload # << >> /\ Last(payload) <= Len(payload)
  THEN SubSeq(payload, 1, Len(payload) - Last(payload))
  ELSE payload

ParsePacket(data) ==
  IF \/ Len(data) < 12
     \/ Version(data) # 2
     \/ Len(data) < CsrcEnd(data)
     \/ Extended(data) /\ Len(data) < CsrcEnd(data) + 4
     \/ Len(data) < HeaderSize(data)
  THEN Malformed
  ELSE [marker  |-> Octet(data, 1) \div 128,
        type    |-> Octet(data, 1) % 128,
        seq     |-> Uint16(data, 2),
        time    |-> Uint32(data, 4),
        ssrc    |-> Uint32(data, 8),
        payload |-> Unpadded(data, SubSeq(data, HeaderSize(data) + 1, Len(data)))]
-----------------------------------------------------------------------------
(* RTCP.                                                                   *)

RTCP_SR   == 200
RTCP_RR   == 201
RTCP_SDES == 202
RTCP_BYE  == 203
SDES_END  == 0

\* How many numbers fit into three octets.
Uint24s == 2 ^ 24

\* The cumulative loss is a signed number of 24 bits.
parseReportBlock(data) ==
  LET packetsLost == 65536 * Octet(data, 5) + Uint16(data, 6)
  IN  [ssrc         |-> Uint32(data, 0),
       fractionLost |-> Octet(data, 4),
       packetsLost  |-> IF Octet(data, 5) >= 128 THEN packetsLost - Uint24s
                        ELSE packetsLost,
       others       |-> [k \in 1 .. 4 |-> Uint32(data, 4 + 4 * k)]]

\* As many report blocks as are announced and fit.
ReportBlocks(data, offset) ==
  LET fit == (Len(data) - offset) \div 24
  IN  [k \in 1 .. (IF Count(data) < fit THEN Count(data) ELSE fit) |->
         parseReportBlock(Octets(data, offset + 24 * (k - 1), 24))]

parseSenderReport(data) ==
  IF Len(data) < 28 THEN Malformed
  ELSE [type   |-> Octet(data, 1), ssrc |-> Uint32(data, 4),
        ntp    |-> Uint32(data, 8) \o Uint32(data, 12),
        rtp    |-> Uint32(data, 16),
        counts |-> Uint32(data, 20) \o Uint32(data, 24),
        blocks |-> ReportBlocks(data, 28)]

\* Of the blocks of a receiver report the first one only is kept.
parseReceiverReport(data) ==
  IF Len(data) < 8 THEN Malformed
  ELSE [type  |-> Octet(data, 1), ssrc |-> Uint32(data, 4),
        block |-> IF Count(data) > 0 /\ Len(data) >= 32
                  THEN <<parseReportBlock(Octets(data, 8, 24))>> ELSE << >>]

\* Mutant: the octet of the length is not stepped over.
ItemEndShort(data, offset) == offset + 1 + Octet(data, offset + 1)

\* Where an item of type, length and text ends.
ItemEnd(data, offset) == offset + 2 + Octet(data, offset + 1)

\* The items of a chunk from the offset on, and where they end: behind one
\* SDES_END, or at an item that does not fit.
SdesItems(data, offset) ==
  LET from[o \in 0 .. Len(data)] ==
        IF o = Len(data) THEN [items |-> << >>, next |-> o]
        ELSE IF Octet(data, o) = SDES_END THEN [items |-> << >>, next |-> o + 1]
        ELSE IF \/ o + 1 = Len(data)
                \/ ItemEnd(data, o) > Len(data)
        THEN [items |-> << >>, next |-> o]
        ELSE LET rest == from[ItemEnd(data, o)]
                 item == [type |-> Octet(data, o),
                          text |-> Octets(data, o + 2, Octet(data, o + 1))]
             IN  [rest EXCEPT !.items = <<item>> \o @]
  IN  from[offset]

\* The next chunk begins where the items end: the zeros that fill the last
\* word of a chunk are not stepped over.
parseSDES(data) ==
  LET from[i \in 0 .. Count(data)] ==
        [o \in 0 .. Len(data) |->
           IF i = Count(data) \/ o + 4 > Len(data) THEN << >>
           ELSE LET found == SdesItems(data, o + 4)
                IN  <<[ssrc |-> Uint32(data, o), items |-> found.items]>>
                      \o from[i + 1][found.next]]
  IN  IF Len(data) < 8 THEN Malformed
      ELSE [type |-> Octet(data, 1), chunks |-> from[0][4]]

parseBYE(data) ==
  LET fit   == (Len(data) - 4) \div 4
      ssrcs == IF Count(data) < fit THEN Count(data) ELSE fit
      end   == 4 + 4 * ssrcs
      given == /\ end < Len(data)
               /\ end + 1 + Octet(data, end) <= Len(data)
  IN  [type   |-> Octet(data, 1),
       ssrcs  |-> [k \in 1 .. ssrcs |-> Uint32(data, 4 * k)],
       reason |-> IF given THEN Octets(data, end + 1, Octet(data, end))
                  ELSE << >>]

\* The packet at the beginning of the data; what follows it in a compound
\* packet is not looked at.
ParseRTCPPacket(data) ==
  IF Len(data) < 4 \/ Version(data) # 2 THEN Malformed
  ELSE CASE Octet(data, 1) = RTCP_SR   -> parseSenderReport(data)
         [] Octet(data, 1) = RTCP_RR   -> parseReceiverReport(data)
         [] Octet(data, 1) = RTCP_SDES -> parseSDES(data)
         [] Octet(data, 1) = RTCP_BYE  -> parseBYE(data)
         [] OTHER -> Malformed
=============================================================================
