----------------------------- MODULE MCNumbers -----------------------------
(***************************************************************************)
(* The pure algorithms of the client against reference definitions.  A     *)
(* state is one question; a question about two sequence numbers walks      *)
(* round the circle, so that it is asked on both sides of the wraparound.  *)
(* The references are written from what the formats promise (RFC 3550 for  *)
(* the octets, sections for SDP), not from the parsers.                    *)
(***************************************************************************)
EXTENDS SequenceNumbers, TimestampMapper, RetryBackoff, Packets, Config, Sdp

VARIABLE question

Seqs(S, n) == UNION {[1 .. k -> S] : k \in 0 .. n}
-----------------------------------------------------------------------------
(* Octets.                                                                 *)

Zeros(n)  == [k \in 1 .. n |-> 0]
Two(n)    == <<n \div 256, n % 256>>
Four(n)   == <<9, 8, 7, n>>
Words(k)  == [i \in 1 .. 4 * k |-> 255]
Signed(n) == LET u == IF n < 0 THEN n + Uint24s ELSE n IN <<u \div 65536>> \o Two(u % 65536)
Flag(b)   == IF b THEN 1 ELSE 0

RtpQuestions ==
  [csrcs : {0, 1, 15}, extension : {<< >>, <<0>>, <<2>>}, padding : {0, 1, 4},
   marker : {0, 1}, type : {96, 127}, seq : {0, 255, 256, 65535},
   payload : {<< >>, <<7>>, <<1, 2, 255>>}, kept : {11, 12, 15, 19, 1000}]

RtpHeader(p) ==
  <<128 + 32 * Flag(p.padding > 0) + 16 * Flag(p.extension # << >>) + p.csrcs,
    128 * p.marker + p.type>> \o Two(p.seq) \o Four(1) \o Four(2)
    \o Words(p.csrcs)
    \o (IF p.extension = << >> THEN << >>
        ELSE <<190, 222>> \o Two(p.extension[1]) \o Words(p.extension[1]))

BuildRtp(p) ==
  LET all == RtpHeader(p) \o p.payload
               \o (IF p.padding = 0 THEN << >> ELSE Append(Zeros(p.padding - 1), p.padding))
  IN  IF p.kept < Len(all) /\ p.padding = 0 THEN SubSeq(all, 1, p.kept) ELSE all

\* Whole packets come back whole, cut ones within their header not at all.
RtpRead(p) ==
  LET data == BuildRtp(p)
  IN  ParsePacket(data) =
        IF Len(data) < Len(RtpHeader(p)) THEN Malformed
        ELSE [marker |-> p.marker, type |-> p.type, seq |-> p.seq,
              time |-> Four(1), ssrc |-> Four(2),
              payload |-> SubSeq(p.payload, 1, Len(data) - p.padding - Len(RtpHeader(p)))]

Blocks == Seqs([fraction : {0, 255}, lost : {5, -1, 2 ^ 23 - 1, -(2 ^ 23)}], 2)
Items  == Seqs([type : {1, 2}, text : {<< >>, <<3>>, <<3, 4, 5>>}], 2)

BuildBlock(b) ==
  Four(3) \o <<b.fraction>> \o Signed(b.lost) \o Four(4) \o Four(5) \o Four(6) \o Four(7)
ReadBlock(b) ==
  [ssrc |-> Four(3), fractionLost |-> b.fraction, packetsLost |-> b.lost,
   others |-> <<Four(4), Four(5), Four(6), Four(7)>>]

BuildItem(i)    == <<i.type, Len(i.text)>> \o i.text
ItemsLength(is) == Len(FlattenSeq([k \in DOMAIN is |-> BuildItem(is[k])]))
Fill(is)        == 4 - (ItemsLength(is) % 4)     \* one zero at least
BuildChunk(is)  == Four(1) \o FlattenSeq([k \in DOMAIN is |-> BuildItem(is[k])]) \o Zeros(Fill(is))

RtcpHeader(count, type) == <<128 + count, type, 0, 0>>
BuildRtcp(p) ==
  CASE p.type = RTCP_SR ->
         RtcpHeader(Len(p.list), RTCP_SR) \o Four(1) \o Four(2) \o Four(3) \o Four(4) \o Four(5)
           \o Four(6) \o FlattenSeq([k \in DOMAIN p.list |-> BuildBlock(p.list[k])])
    [] p.type = RTCP_RR ->
         RtcpHeader(Len(p.list), RTCP_RR) \o Four(1)
           \o FlattenSeq([k \in DOMAIN p.list |-> BuildBlock(p.list[k])])
    [] p.type = RTCP_SDES ->
         RtcpHeader(Len(p.list), RTCP_SDES)
           \o FlattenSeq([k \in DOMAIN p.list |-> BuildChunk(p.list[k])])
    [] p.type = RTCP_BYE ->
         RtcpHeader(Len(p.list), RTCP_BYE)
           \o FlattenSeq([k \in DOMAIN p.list |-> Four(p.list[k])])
           \o (IF p.reason = << >> THEN << >> ELSE <<Len(p.reason)>> \o p.reason)

\* How many chunks of a description are read: those up to the first that is
\* filled up with more than one zero.
ChunksRead(list) ==
  LET far == {k \in DOMAIN list : Fill(list[k]) > 1}
  IN  IF far = {} THEN Len(list) ELSE CHOOSE k \in far : \A j \in far : k <= j

RtcpRead(p) ==
  LET read == ParseRTCPPacket(BuildRtcp(p) \o p.behind)
  IN  CASE p.type = RTCP_SR ->
             /\ read.ntp = Four(2) \o Four(3) /\ read.rtp = Four(4)
             /\ read.ssrc = Four(1) /\ read.counts = Four(5) \o Four(6)
             /\ read.blocks = [k \in DOMAIN p.list |-> ReadBlock(p.list[k])]
        [] p.type = RTCP_RR ->
             /\ read.ssrc = Four(1)
             /\ read.block = IF p.list = << >> THEN << >> ELSE <<ReadBlock(p.list[1])>>
        [] p.type = RTCP_SDES ->
             LET right == ChunksRead(p.list)
             IN  /\ Len(read.chunks) >= right
                 /\ \A k \in 1 .. right : read.chunks[k] = [ssrc |-> Four(1), items |-> p.list[k]]
                 /\ right = Len(p.list) => Len(read.chunks) = right
        [] p.type = RTCP_BYE ->
             read = [type |-> RTCP_BYE, ssrcs |-> [k \in DOMAIN p.list |-> Four(p.list[k])],
                     reason |-> p.reason]
-----------------------------------------------------------------------------
(* Configuration: what the user means, item by item, and its arguments.    *)

ConfigItems ==
  {[key |-> "yaml", value |-> YamlFile, split |-> FALSE],
   [key |-> "url", value |-> "rtsp", split |-> TRUE],
   [key |-> "url", value |-> "rtsp", split |-> FALSE],
   [key |-> "timeout", value |-> "negative", split |-> FALSE],
   [key |-> "level", value |-> "warn", split |-> TRUE],
   [key |-> "level", value |-> "loud", split |-> FALSE],
   [key |-> "verbose", value |-> "true", split |-> TRUE],
   [key |-> "verbose", value |-> "false", split |-> FALSE],
   [key |-> "jpeg", value |-> "false", split |-> FALSE]}

File(url, timeout, level, on) ==
  [text |-> [url |-> url, output |-> "pictures", timeout |-> timeout, level |-> level], on |-> on]
ConfigFiles ==
  {File("rtsp", "", "", << >>), File("rtsp", "5s", "error", [jpeg |-> FALSE]),
   File("rtsp", "", "", [verbose |-> TRUE, continuous |-> FALSE]),
   File("", "5s", "", [verbose |-> FALSE]), File("rtsp", "unparsable", "", << >>)}

ItemArguments(i) ==
  IF i.key = "yaml" THEN <<[flag |-> Empty, value |-> i.value]>>
  ELSE IF ~i.split THEN <<[flag |-> i.key, value |-> i.value]>>
  ELSE IF i.key \in Switches THEN <<[flag |-> i.key, value |-> Empty]>>
  ELSE <<[flag |-> i.key, value |-> Empty], [flag |-> Empty, value |-> i.value]>>

Arguments(items) == FlattenSeq([k \in DOMAIN items |-> ItemArguments(items[k])])

\* A file right behind an argument that begins with a dash is not recognised,
\* and neither are the flags behind it.
Heeded(items) ==
  LET missed == {k \in DOMAIN items : /\ items[k].key = "yaml" /\ k > 1
                                      /\ Len(ItemArguments(items[k - 1])) = 1
                                      /\ items[k - 1].key # "yaml"}
  IN  IF missed = {} THEN items
      ELSE SubSeq(items, 1, (CHOOSE k \in missed : \A j \in missed : k <= j) - 1)

\* Flags over file over defaults; the two switches that are on by default
\* cannot be turned off, and `verbose' in the file does not raise the level,
\* which has its default by then.
Meant(items, file) ==
  LET given     == {items[k].key : k \in DOMAIN items}
      flag(key) == (CHOOSE i \in ToSet(items) : i.key = key).value
      yaml      == "yaml" \in given
      text(key) == IF key \in given THEN flag(key)
                   ELSE IF key = "level" /\ "verbose" \in given /\ flag("verbose") = "true"
                   THEN "debug"
                   ELSE IF yaml /\ file.text[key] # Empty THEN file.text[key]
                   ELSE DefaultText[key]
  IN  IF \/ yaml /\ file.text["timeout"] = "unparsable"
         \/ text("url") = Empty
         \/ text("level") = "loud"
      THEN Invalid
      ELSE [text |-> [k \in Valued |-> IF text(k) = "negative" THEN "10s" ELSE text(k)],
            on   |-> [jpeg |-> TRUE, continuous |-> TRUE,
                      verbose |-> IF "level" \in given THEN FALSE
                                  ELSE IF "verbose" \in given THEN flag("verbose") = "true"
                                  ELSE yaml /\ "verbose" \in DOMAIN file.on /\ file.on.verbose]]
-----------------------------------------------------------------------------
(* SDP, section by section.                                                *)

Server == [absolute |-> TRUE, path |-> <<"stream">>]
Base   == [absolute |-> TRUE, path |-> <<"base">>]
Track  == [absolute |-> FALSE, path |-> <<"track">>]
Other  == [absolute |-> TRUE, path |-> <<"other">>]

SdpLines ==
  [kind : {"control"}, url : {Star, Track, Other, NoURL}]
    \cup [kind : {"media"}, media : {"video"}, fields : {3, 4}, payload : {96}]
    \cup [kind : {"media"}, media : {"audio"}, fields : {4}, payload : {NoPayload}]
    \cup [kind : {"rtpmap"}, payload : {96, 97}, codec : {"H264"}]
    \cup [kind : {"fmtp"}, payload : {96}, parameters : {[sprop |-> "sets"]}]
    \cup [kind : {"other"}]

Latest(K) == CHOOSE k \in K : \A j \in K : j <= k
Ranked(K, i) == {k \in K : Cardinality({j \in K : j < k}) = i - 1}
InOrder(K)   == [i \in 1 .. Cardinality(K) |-> CHOOSE k \in Ranked(K, i) : TRUE]

\* Where the section of line k begins; 0 is the session's own.
SectionOf(lines, k) ==
  LET heads == {j \in 1 .. k : lines[j].kind = "media"}
  IN  IF heads = {} THEN 0 ELSE Latest(heads)

\* The last line of a section that answers to the test.
LastIn(lines, section, test(_)) ==
  LET found == {k \in DOMAIN lines : SectionOf(lines, k) = section /\ test(lines[k])}
  IN  IF found = {} THEN << >> ELSE <<lines[Latest(found)]>>

OwnControl(line) == line.kind = "control" /\ line.url \notin {NoURL, Star}
Located(url, base) == IF url.absolute THEN url ELSE [base EXCEPT !.path = Append(@, url.path[1])]

TrackOf(lines, section, base) ==
  LET head        == lines[section]
      applies(l)  == head.payload = NoPayload \/ l.payload = head.payload
      rtpmap(l)   == l.kind = "rtpmap" /\ applies(l)
      fmtp(l)     == l.kind = "fmtp" /\ applies(l)
      codec       == LastIn(lines, section, rtpmap)
      parameters  == LastIn(lines, section, fmtp)
  IN  [media |-> head.media, payload |-> head.payload,
       control |-> Located(LastIn(lines, section, OwnControl)[1].url, base),
       codec |-> IF codec = << >> THEN "" ELSE codec[1].codec,
       fmtp  |-> IF parameters = << >> THEN << >> ELSE parameters[1].parameters]

\* A section whose m= line is malformed counts as the session's.
Whole(lines, section) == section > 0 /\ lines[section].fields >= 4

TrackSections(lines) ==
  {k \in DOMAIN lines : /\ lines[k].kind = "media" /\ Whole(lines, k)
                        /\ LastIn(lines, k, OwnControl) # << >>}

\* The aggregate control is the last `*', or the last control of the session.
SessionControls(lines) ==
  {k \in DOMAIN lines : /\ lines[k].kind = "control" /\ lines[k].url # NoURL
                        /\ lines[k].url = Star \/ ~Whole(lines, SectionOf(lines, k))}

SdpMeans(lines, base) ==
  LET sections  == InOrder(TrackSections(lines))
      session   == SessionControls(lines)
      last      == lines[Latest(session)].url
      aggregate == IF session = {} THEN NoURL
                   ELSE IF last = Star THEN base ELSE Located(last, base)
  IN  IF sections = << >> /\ aggregate = NoURL THEN << >>
      ELSE <<[tracks |-> [k \in DOMAIN sections |-> TrackOf(lines, sections[k], base)],
              aggregate |-> aggregate]>>
-----------------------------------------------------------------------------
Init ==
  \/ \E a, b \in Seqno : question = [about |-> "sequence", a |-> a, b |-> b]
  \/ \E p, q \in 0 .. 3 * T : question = [about |-> "mapping", report |-> p, packet |-> q]
  \/ \E retries \in {0, 1, 3, 8}, initial \in {-1, 1, 3, 200}, max \in {0, 7, 300, 1000},
        failures \in {0, 2, 9} :
       question = [about |-> "backoff", config |-> NewRetryConfig(retries, initial, max),
                   failures |-> failures]
  \/ \E p \in RtpQuestions : question = [about |-> "rtp", rtp |-> p]
  \/ \E type \in {RTCP_SR, RTCP_RR}, list \in Blocks, behind \in {<< >>, <<129, 202, 0, 1>>} :
       question = [about |-> "rtcp", type |-> type, list |-> list, behind |-> behind]
  \/ \E list \in Seqs(Items, 2) :
       question = [about |-> "rtcp", type |-> RTCP_SDES, list |-> list, behind |-> <<1, 1, 1, 1>>]
  \/ \E list \in Seqs({1, 2}, 3), reason \in {<< >>, <<1>>, <<1, 2, 3, 4, 5>>} :
       question = [about |-> "rtcp", type |-> RTCP_BYE, list |-> list, reason |-> reason,
                   behind |-> << >>]
  \/ \E items \in Seqs(ConfigItems, 3), file \in ConfigFiles :
       /\ \A j, k \in DOMAIN items : items[j].key = items[k].key => j = k
       /\ question = [about |-> "config", items |-> items, file |-> file]
  \/ \E lines \in Seqs(SdpLines, 4), base \in {NoURL, Base} :
       question = [about |-> "sdp", lines |-> lines, base |-> base]

\* Both numbers advance by one, as when a stream moves on by one packet.
Shift ==
  /\ question.about = "sequence"
  /\ question' = [question EXCEPT !.a = Advance(@, 1), !.b = Advance(@, 1)]

Spec == Init /\ [][Shift]_question
-----------------------------------------------------------------------------
\* The distance is the one the circle defines: walking it forward from a
\* arrives at b, and the two ways round add up to a full turn (jitter.go
\* sequenceDiff, h264.go sequenceDifference).
DiffWalksTheCircle(a, b) ==
  /\ Advance(a, sequenceDiff(a, b)) = b
  /\ a # b => sequenceDiff(a, b) + sequenceDiff(b, a) = M

\* sequenceCompare agrees with the distance: a number less than half a turn
\* ahead is newer, one more than half a turn ahead is older, on either side of
\* the wraparound (jitter.go:304 "with wraparound handling").
CompareFollowsDistance(a, b) ==
  /\ a # b /\ sequenceDiff(a, b) < Half => sequenceCompare(a, b) = -1
  /\ sequenceDiff(a, b) > Half => sequenceCompare(a, b) = 1
  /\ sequenceCompare(a, b) = -sequenceCompare(b, a)

\* The jitter buffer and the decoder, which order packets by different code,
\* agree on the order of two different packets less than half a turn apart.
PackagesAgree(a, b) ==
  (a # b /\ sequenceDiff(a, b) # Half) =>
     (sequenceBefore(a, b) <=> isSequenceNewer(b, a))

\* The numbers of both packages lie on one circle: distance, the jitter
\* buffer's order and the decoder's order fit together (jitter.go:302-339,
\* h264.go:566-584).
OneCircle ==
  question.about = "sequence" =>
    /\ DiffWalksTheCircle(question.a, question.b)
    /\ CompareFollowsDistance(question.a, question.b)
    /\ PackagesAgree(question.a, question.b)

\* The time t found for a packet of true time q, after a report at time p.
MappedTime(p, q) == RTPToNTP(UpdateFromSR([rtp |-> p % T, ntp |-> p]), q % T)

\* A packet of the reporting sender gets its true time whenever it lies less
\* than half a turn of the timestamps from the report, on either side and
\* across the wraparound; beyond that the time is wrong by full turns
\* (rtcp.go:418, 432-436).
MapsExactly ==
  question.about = "mapping" =>
    LET p == question.report
        q == question.packet
        t == MappedTime(p, q)
    IN  /\ t - p \in -HalfTurn .. HalfTurn - 1
        /\ (t - q) % T = 0
        /\ q - p \in -HalfTurn .. HalfTurn - 1 => t = q

SleepsBounded(c, failures) ==
  LET sleeps == retryWithBackoff(c, failures)
  IN  /\ Len(sleeps) < c.retries
      /\ c.initial * Power2[c.retries] < Word =>
           \A k \in DOMAIN sleeps :
             /\ sleeps[k] \in 1 .. c.max
             /\ k > 1 => sleeps[k - 1] <= sleeps[k]
             /\ k > 1 => sleeps[k] \in {c.max, 2 * sleeps[k - 1]}

\* Between two attempts the client waits, never longer than the maximum and
\* never shorter than before, as long as the doubled delay fits an int64
\* (recovery.go:171-182); it waits one time less than it tries.
BackoffBounded ==
  question.about = "backoff" => SleepsBounded(question.config, question.failures)

\* What a sender writes by RFC 3550 is what the parsers read: header fields at
\* both ends of their ranges, contributing sources, header extensions,
\* padding, cut packets, signed loss counts, and what follows in a compound
\* packet ignored.  Excepted are the second block of a receiver report and the
\* chunks behind one that is filled up with more than one zero (packet.go:30,
\* rtcp.go:169, rtcp.go:307).
WireRoundTrip ==
  /\ question.about = "rtp"  => RtpRead(question.rtp)
  /\ question.about = "rtcp" => RtcpRead(question)

\* The configuration is what flags, file and defaults say, in this order of
\* priority (config.go:153), with three exceptions spelled out in Meant and
\* Heeded.
ConfigPriority ==
  question.about = "config" =>
    ParseFlags(Arguments(question.items), question.file)
      = Meant(Heeded(question.items), question.file)

\* Tracks and aggregate control are those of the sections of the description,
\* whatever the order of the lines in a section (client.go:774).
SdpSections ==
  question.about = "sdp" =>
    parseSDPInfo(question.lines, question.base, Server)
      = SdpMeans(question.lines, IF question.base = NoURL THEN Server ELSE question.base)
=============================================================================
