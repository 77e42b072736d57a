----------------------------- MODULE H264Decoder -----------------------------
(***************************************************************************)
(* pkg/decoder/h264.go: RTP packets are gathered by timestamp and turned   *)
(* into frames.  A frame is finalized when its marker packet has come or   *)
(* when it is older than the reordering window; the map of frames under    *)
(* way is walked in random order, and one call returns one frame at most.  *)
(*                                                                         *)
(* The stream is a sequence of packets, and a packet is referred to by its *)
(* place in it.  Of a payload the model keeps which NAL units it holds and *)
(* which part of a fragmented one it is; frame data is the set of packets  *)
(* whose payload went into it, in the order of their sequence numbers.     *)
(* ProcessPacket is one call and no other call runs inside it; the walk    *)
(* over the map is a step for each frame it finalizes.  The statistics,    *)
(* which decide nothing, are left out; packets without a payload, which    *)
(* ProcessPacket ignores, are not sent.                                    *)
(***************************************************************************)
EXTENDS SequenceNumbers, Sequences, FiniteSets

CONSTANTS Streams,      \* what senders may send: a set of sequences of packets
          LossLimit,    \* a gap this long is not taken for loss (100)
          MaxCopies     \* bound: packets delivered once more

Part == {"whole", "stap", "start", "middle", "end"}    \* single NAL, STAP-A, FU-A
Nal  == {"sps", "pps", "idr", "slice"}

\* A payload of one of these parts puts a NAL header behind a start code.
Headed == {"whole", "stap", "start"}

\* Parameter sets are not fragmented; one frame's packets and one sender's
\* packets have consecutive numbers, fewer than half the circle.
StreamOK(s) ==
  /\ s \in Seq([seq : Seqno, ts : Nat \ {0}, ssrc : Nat \ {0}, marker : BOOLEAN,
                part : Part, nals : SUBSET Nal])
  /\ Len(s) < Half
  /\ \A i, j \in DOMAIN s :
       i < j /\ s[i].ssrc = s[j].ssrc => s[j].seq = Advance(s[i].seq, j - i)
  /\ \A i \in DOMAIN s :
       s[i].part = "start" => {"sps", "pps"} \cap s[i].nals = {}

ASSUME DecoderAssumption ==
  /\ \A s \in Streams : StreamOK(s)
  /\ LossLimit \in 1 .. Half /\ MaxCopies \in Nat

VARIABLES
  stream, delivered, copies, orderly,     \* the sender and the network
  assemblies,                             \* d.frameMap
  currentSSRC, sequenceInit, expectedSequence,
  sps, pps,                               \* the packet each was cached from
  lossDetected,                           \* detectPacketLoss's last answer
  dropCorruptedFrames,
  current, todo,                          \* the call under way
  ripe,                                   \* the clock
  wiped, frames                           \* history: Reset was called; results

network  == <<stream, delivered, copies, orderly>>
tracking == <<currentSSRC, sequenceInit, expectedSequence>>
cache    == <<sps, pps>>
call     == <<current, todo>>
vars == <<network, assemblies, tracking, cache, lossDetected,
          dropCorruptedFrames, call, ripe, wiped, frames>>

None == 0

\* Packets received so far.
arrivals == Cardinality(delivered) + copies
Idle == current = None

NoAssemblies  == [t \in {} |-> None]
With(f, k, v) == [x \in DOMAIN f \cup {k} |-> IF x = k THEN v ELSE f[x]]
Without(f, k) == [x \in DOMAIN f \ {k} |-> f[x]]

Init ==
  /\ stream \in Streams /\ delivered = {} /\ copies = 0 /\ orderly = TRUE
  /\ assemblies = NoAssemblies
  /\ currentSSRC = None /\ sequenceInit = FALSE /\ expectedSequence = 0
  /\ sps = None /\ pps = None
  /\ lossDetected = FALSE /\ dropCorruptedFrames = FALSE
  /\ current = None /\ todo = {}
  /\ ripe = 0
  /\ wiped = FALSE /\ frames = << >>
-----------------------------------------------------------------------------
(* One frame's packets: a function from sequence numbers to packets.       *)

Before(s, t)     == s # t /\ sequenceBefore(s, t)
Between(S, s, t) == {u \in S : Before(s, u) /\ Before(u, t)}

PartOf(packets, s) == stream[packets[s]].part
Holds(packets, s, nal) ==
  PartOf(packets, s) \in Headed /\ nal \in stream[packets[s]].nals

\* detectPacketLoss and checkFramePacketLoss: a gap counts if it is short.
IsLoss(expected, seq) ==
  LET gap == sequenceDiff(expected, seq) IN gap > 0 /\ gap < LossLimit

\* Mutant: neighbours are found by their plain numbers, without the wraparound.
HasLossPlain(packets) ==
  \E s, t \in DOMAIN packets :
    /\ s < t /\ ~\E u \in DOMAIN packets : s < u /\ u < t
    /\ IsLoss(Advance(s, 1), t)

\* Mutant: the number expected after s is taken to be s.
HasLossOffByOne(packets) ==
  \E s, t \in DOMAIN packets :
    /\ Before(s, t) /\ Between(DOMAIN packets, s, t) = {}
    /\ IsLoss(s, t)

\* Some neighbours in the order of the numbers are not consecutive.
HasLoss(packets) ==
  \E s, t \in DOMAIN packets :
    /\ Before(s, t) /\ Between(DOMAIN packets, s, t) = {}
    /\ IsLoss(Advance(s, 1), t)

\* A fragmented NAL unit has been begun and not ended before packet s.
Open(packets, s) ==
  \E b \in DOMAIN packets :
    /\ Before(b, s) /\ PartOf(packets, b) = "start"
    /\ \A u \in Between(DOMAIN packets, b, s) :
         PartOf(packets, u) \in {"middle", "stap"}

\* The packets whose payload goes into the frame.
Kept(packets) ==
  {s \in DOMAIN packets : PartOf(packets, s) \in Headed \/ Open(packets, s)}

\* Fragments without a beginning, or a fragmented NAL unit without its end.
Torn(packets) ==
  \/ Kept(packets) # DOMAIN packets
  \/ \E s \in DOMAIN packets :
       PartOf(packets, s) \in {"whole", "start"} /\ Open(packets, s)
  \/ \E b \in DOMAIN packets :
       /\ PartOf(packets, b) = "start"
       /\ \A u \in DOMAIN packets :
            Before(b, u) => PartOf(packets, u) \in {"middle", "stap"}

\* The last packet of the frame that holds such a NAL unit, or what is cached.
\* (The sort puts some packet last even when the order has none.)
Latest(packets, nal, cached) ==
  LET holding == {s \in DOMAIN packets : Holds(packets, s, nal)}
      last(s) == ~\E t \in holding : Before(s, t)
  IN  IF holding = {} THEN cached
      ELSE packets[CHOOSE s \in holding : (\E u \in holding : last(u)) => last(s)]

\* Marker received, or the reordering window is over.
shouldFinalizeFrame(fa) == fa.marker \/ fa.born < ripe
-----------------------------------------------------------------------------
(* ProcessPacket.                                                          *)

\* The network delivers any packet, early, late or never, and some twice.
Delivers(i) ==
  /\ \/ i \notin delivered /\ UNCHANGED copies
     \/ i \in delivered /\ copies < MaxCopies /\ copies' = copies + 1
  /\ delivered' = delivered \cup {i}
  /\ orderly' = (orderly /\ \A j \in delivered : j < i)
  /\ UNCHANGED stream

\* An SSRC change forgets the frames under way, the sequence and SPS and PPS.
Changed(p) == currentSSRC # None /\ p.ssrc # currentSSRC

\* Mutant: the parameter sets of the old sender stay.
ForgetsFramesOnly(p) ==
  /\ currentSSRC' = p.ssrc
  /\ UNCHANGED cache

Forgets(p) ==
  /\ currentSSRC' = p.ssrc
  /\ IF Changed(p) THEN sps' = None /\ pps' = None ELSE UNCHANGED cache

\* Mutant: the sequence of the old sender goes on.
TracksSequenceOfBoth(p) ==
  /\ sequenceInit' = TRUE
  /\ expectedSequence' = Advance(p.seq, 1)
  /\ lossDetected' = (sequenceInit /\ IsLoss(expectedSequence, p.seq))

TracksSequence(p) ==
  /\ sequenceInit' = TRUE
  /\ expectedSequence' = Advance(p.seq, 1)
  /\ lossDetected' = (sequenceInit /\ ~Changed(p) /\ IsLoss(expectedSequence, p.seq))

\* getOrCreateFrameAssembly, with the packet put in.  The window begins with
\* the first packet, and anew with every repetition of it while it is alone.
Joined(held, i) ==
  LET p  == stream[i]
      fa == IF p.ts \in DOMAIN held THEN held[p.ts]
            ELSE [packets |-> NoAssemblies, marker |-> FALSE, loss |-> FALSE,
                  born |-> arrivals]
      packets == With(fa.packets, p.seq, i)
  IN  [packets |-> packets,
       marker  |-> fa.marker \/ p.marker,
       loss    |-> fa.loss \/ HasLoss(packets),
       born    |-> IF Cardinality(DOMAIN packets) = 1 THEN arrivals ELSE fa.born]

ProcessPacket(i) ==
  LET p    == stream[i]
      held == IF Changed(p) THEN NoAssemblies ELSE assemblies
  IN  /\ Idle
      /\ Delivers(i)
      /\ Forgets(p)
      /\ TracksSequence(p)
      /\ assemblies' = With(held, p.ts, Joined(held, i))
      /\ current' = p.ts
      /\ todo' = {t \in DOMAIN held \ {p.ts} : shouldFinalizeFrame(held[t])}
      /\ UNCHANGED <<dropCorruptedFrames, ripe, wiped, frames>>

\* The frame finalizeFrame would make of these packets.
FrameOf(t) ==
  LET fa      == assemblies[t]
      packets == fa.packets
      kept    == Kept(packets)
      has(nal) == \E s \in kept : Holds(packets, s, nal)
      spsNow  == Latest(packets, "sps", sps)
      ppsNow  == Latest(packets, "pps", pps)
      prepend == /\ has("idr") /\ spsNow # None /\ ppsNow # None
                 /\ ~(has("sps") /\ has("pps"))
  IN  [ts        |-> t,
       data      |-> {packets[s] : s \in kept},
       prepended |-> IF prepend THEN {spsNow, ppsNow} ELSE {},
       key       |-> has("idr"),
       corrupted |-> fa.loss \/ Torn(packets)]

IsFrame(frame) ==
  frame.data # {} /\ ~(frame.corrupted /\ dropCorruptedFrames)

\* Mutant: a finalized frame is not deleted.
FinalizesKeeps(t) ==
  /\ UNCHANGED assemblies
  /\ sps' = Latest(assemblies[t].packets, "sps", sps)
  /\ pps' = Latest(assemblies[t].packets, "pps", pps)
  /\ frames' = IF IsFrame(FrameOf(t)) THEN Append(frames, FrameOf(t)) ELSE frames

\* Mutant: the PPS is not cached.
FinalizesNoPps(t) ==
  /\ assemblies' = Without(assemblies, t)
  /\ sps' = Latest(assemblies[t].packets, "sps", sps)
  /\ UNCHANGED pps
  /\ frames' = IF IsFrame(FrameOf(t)) THEN Append(frames, FrameOf(t)) ELSE frames

\* finalizeFrame, and the delete that follows it.
Finalizes(t) ==
  /\ assemblies' = Without(assemblies, t)
  /\ sps' = Latest(assemblies[t].packets, "sps", sps)
  /\ pps' = Latest(assemblies[t].packets, "pps", pps)
  /\ frames' = IF IsFrame(FrameOf(t)) THEN Append(frames, FrameOf(t)) ELSE frames

Returns == current' = None /\ todo' = {}

\* The loop over the other frames: the first frame made ends the call.
FinalizesOld(t) ==
  /\ ~Idle /\ t \in todo
  /\ Finalizes(t)
  /\ IF IsFrame(FrameOf(t)) THEN Returns
     ELSE todo' = todo \ {t} /\ UNCHANGED current
  /\ UNCHANGED <<network, tracking, lossDetected, dropCorruptedFrames, ripe,
                 wiped>>

FinalizesCurrent ==
  /\ ~Idle /\ todo = {}
  /\ IF shouldFinalizeFrame(assemblies[current]) THEN Finalizes(current)
     ELSE UNCHANGED <<assemblies, cache, frames>>
  /\ Returns
  /\ UNCHANGED <<network, tracking, lossDetected, dropCorruptedFrames, ripe,
                 wiped>>
-----------------------------------------------------------------------------
(* The other methods, and time.                                            *)

SetDropCorruptedFrames(drop) ==
  /\ Idle
  /\ dropCorruptedFrames' = drop
  /\ UNCHANGED <<network, assemblies, tracking, cache, lossDetected, call, ripe,
                 wiped, frames>>

Reset ==
  /\ Idle
  /\ assemblies' = NoAssemblies
  /\ wiped' = TRUE
  /\ UNCHANGED <<network, tracking, cache, lossDetected, dropCorruptedFrames,
                 call, ripe, frames>>

\* The reordering window of some frame under way, and of the older ones, ends.
Elapse(t) ==
  /\ Idle
  /\ assemblies[t].born >= ripe
  /\ ripe' = assemblies[t].born + 1
  /\ UNCHANGED <<network, assemblies, tracking, cache, lossDetected,
                 dropCorruptedFrames, call, wiped, frames>>

Next ==
  \/ \E i \in DOMAIN stream : ProcessPacket(i)
  \/ \E t \in todo : FinalizesOld(t)
  \/ FinalizesCurrent
  \/ \E drop \in BOOLEAN : SetDropCorruptedFrames(drop)
  \/ Reset
  \/ \E t \in DOMAIN assemblies : Elapse(t)

Spec == Init /\ [][Next]_vars
-----------------------------------------------------------------------------
(* Properties.                                                             *)

Packet == DOMAIN stream
Timestamp == {stream[i].ts : i \in Packet}

\* A sender that has made way for another one does not come back.
InTurn(s) ==
  \A i, k, j \in DOMAIN s :
    i < k /\ k < j /\ s[i].ssrc = s[j].ssrc => s[k].ssrc = s[i].ssrc

SameFrame(s, i, j) == s[i].ssrc = s[j].ssrc /\ s[i].ts = s[j].ts

\* What a camera sends: a frame's packets follow each other and a marker is on
\* the last; fragments follow a start, and in a frame with its marker a start
\* has its end.
WellSent(s) ==
  /\ InTurn(s)
  /\ \A i, k, j \in DOMAIN s :
       SameFrame(s, i, j) /\ i <= k /\ k < j => SameFrame(s, i, k) /\ ~s[k].marker
  /\ \A i \in DOMAIN s :
       s[i].part \in {"middle", "end"} =>
         \E b \in DOMAIN s : /\ b < i /\ SameFrame(s, b, i) /\ s[b].part = "start"
                            /\ \A u \in b + 1 .. i - 1 : s[u].part = "middle"
  /\ \A b, e \in DOMAIN s :
       SameFrame(s, b, e) /\ s[b].part = "start" /\ s[e].marker =>
         \E u \in b + 1 .. e : /\ s[u].part = "end"
                              /\ \A w \in b + 1 .. u - 1 : s[w].part = "middle"

\* The types; what the decoder keeps was delivered, under its own number.
TypeOK ==
  /\ stream \in Streams /\ delivered \subseteq Packet /\ copies \in 0 .. MaxCopies
  /\ orderly \in BOOLEAN /\ sequenceInit \in BOOLEAN /\ wiped \in BOOLEAN
  /\ dropCorruptedFrames \in BOOLEAN
  /\ expectedSequence \in Seqno /\ currentSSRC \in Nat
  /\ {sps, pps} \subseteq delivered \cup {None}
  /\ lossDetected \in BOOLEAN /\ ripe \in 0 .. arrivals
  /\ current \in Timestamp \cup {None}
  /\ todo \subseteq DOMAIN assemblies \ {current}
  /\ IF current = None THEN todo = {} ELSE current \in DOMAIN assemblies
  /\ \A t \in DOMAIN assemblies :
       LET fa == assemblies[t]
       IN  /\ fa.marker \in BOOLEAN /\ fa.loss \in BOOLEAN /\ fa.born \in Nat
           /\ \A s \in DOMAIN fa.packets :
                /\ fa.packets[s] \in delivered
                /\ stream[fa.packets[s]].seq = s /\ stream[fa.packets[s]].ts = t
  /\ \A k \in DOMAIN frames : frames[k].data \subseteq delivered

\* A frame, the SPS and PPS in front of it included, is made of one sender's
\* packets, also when the SSRC changes in the middle of a frame, when both
\* senders use the same timestamps, and when packets of the old sender come
\* late (h264.go:113, ERROR_HANDLING_AND_RECOVERY.md:92).
OneStream ==
  \A k \in DOMAIN frames :
    Cardinality({stream[i].ssrc : i \in frames[k].data \cup frames[k].prepended}) = 1

\* A packet delivered once is in one frame at most, whatever the order of
\* arrival and of the walk over the map.
UsedOnce ==
  copies = 0 =>
    \A k, l \in DOMAIN frames : k # l => frames[k].data \cap frames[l].data = {}

\* A frame not marked corrupted has no hole of fewer than LossLimit packets
\* and no fragment without its beginning and its end.
CorruptionIsMarked ==
  \A k \in DOMAIN frames :
    LET data == frames[k].data
        part(i) == stream[i].part
    IN  ~frames[k].corrupted =>
          /\ \A i, j \in data :
               i < j /\ (\A h \in data : h <= i \/ h >= j) =>
                 j = i + 1 \/ j - i > LossLimit
          /\ \A i \in data :
               /\ part(i) \in {"middle", "end"} =>
                    \E b \in data : b < i /\ part(b) = "start"
               /\ part(i) \in {"middle", "start"} =>
                    \E e \in data : e > i /\ part(e) = "end"

\* Packets of the stream's first n places came in order, in time, and nothing
\* else happened.
Undisturbed ==
  /\ orderly /\ ripe = 0 /\ ~wiped
  /\ delivered = 1 .. Cardinality(delivered)

\* On an undisturbed stream every frame comes out with its marker packet, in
\* order, complete and not marked corrupted, across the wraparound and after a
\* sender that stopped in the middle of a frame.
FramesIntact ==
  Undisturbed /\ Idle =>
    LET ends == {i \in delivered : stream[i].marker}
        whole(e) == {i \in delivered : /\ stream[i].ts = stream[e].ts
                                       /\ stream[i].ssrc = stream[e].ssrc}
    IN  /\ Len(frames) = Cardinality(ends)
        /\ \A k \in DOMAIN frames :
             /\ ~frames[k].corrupted
             /\ \E e \in ends : /\ Cardinality({f \in ends : f <= e}) = k
                               /\ frames[k].data = whole(e)

\* Once a frame with both parameter sets came out, every key frame of the
\* stream carries both, its own or the cached ones.
KeyFramesCarryParameters ==
  LET has(i, nal) == stream[i].part \in Headed /\ nal \in stream[i].nals
      carries(k) ==
        \A nal \in {"sps", "pps"} :
          \E i \in frames[k].data \cup frames[k].prepended : has(i, nal)
  IN  Cardinality({stream[i].ssrc : i \in delivered}) = 1 =>
        \A k, l \in DOMAIN frames :
          k < l /\ carries(k) /\ frames[l].key => carries(l)

\* While packets come in order, a loss event is counted exactly when 1 to
\* LossLimit - 1 packets of this sender are missing in front of one: 99 missing
\* packets are a loss event and 100 are not (h264.go:558), although the comment
\* above that line and .docs/PACKET_LOSS_AND_CORRUPTED_FRAMES.md:189 count a
\* gap of 100 as loss.
LossEventsAreGaps ==
  [][ \A i \in Packet :
        (ProcessPacket(i) /\ orderly') =>
          LET earlier == {j \in delivered : stream[j].ssrc = stream[i].ssrc}
          IN  lossDetected' <=> /\ earlier # {} /\ i - 1 \notin earlier
                                /\ \E j \in earlier : i - j <= LossLimit ]_vars
=============================================================================
