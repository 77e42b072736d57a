-------------------------- MODULE H264DecoderProofs --------------------------
(***************************************************************************)
(* The decoder for every set of streams, every loss, reordering and        *)
(* repetition: types; no frame mixes two senders; no payload is used       *)
(* twice; a frame that is not whole is marked; key frames keep their       *)
(* parameter sets.  For senders that take turns, loss events are gaps;     *)
(* for streams that are well sent, each frame comes out complete.          *)
(***************************************************************************)
EXTENDS H264Decoder, FiniteSetTheorems, SequenceTheorems, WellFoundedInduction,
        TLAPS

FrameRecord == [ts : Nat, data : SUBSET Packet, prepended : SUBSET Packet,
                key : BOOLEAN, corrupted : BOOLEAN]

\* Every frame under way was born before the packets received so far were
\* counted, so the clock cannot overtake the count.
Clocked ==
  /\ IsFiniteSet(delivered)
  /\ \A t \in DOMAIN assemblies : t \in Nat \ {None} /\ assemblies[t].born < arrivals

Types == TypeOK /\ Clocked /\ frames \in Seq(FrameRecord)

\* The packets of the sender the decoder listens to.
Own == {i \in Packet : stream[i].ssrc = currentSSRC}

\* All that is under way, and the cache, comes from that sender; the frames
\* made each come from one.
OwnStream ==
  /\ \A t \in DOMAIN assemblies :
       \A s \in DOMAIN assemblies[t].packets : assemblies[t].packets[s] \in Own
  /\ {sps, pps} \subseteq Own \cup {None}
  /\ \A k \in DOMAIN frames :
       /\ frames[k].data # {}
       /\ \E c : \A i \in frames[k].data \cup frames[k].prepended : stream[i].ssrc = c

\* What the assumption says of the stream at hand.
LEMMA StreamFacts ==
  ASSUME stream \in Streams
  PROVE  /\ Packet = 1 .. Len(stream) /\ Len(stream) \in Nat
         /\ \A i \in Packet : /\ stream[i].seq \in Seqno
                              /\ stream[i].ts \in Nat \ {0}
                              /\ stream[i].ssrc \in Nat \ {0}
                              /\ stream[i].marker \in BOOLEAN
<1> DEFINE R == [seq : Seqno, ts : Nat \ {0}, ssrc : Nat \ {0}, marker : BOOLEAN,
                 part : Part, nals : SUBSET Nal]
<1>1. stream \in Seq(R)
  BY DecoderAssumption DEF StreamOK
<1>2. Packet = 1 .. Len(stream) /\ Len(stream) \in Nat
  BY <1>1 DEF Packet
<1>3. \A i \in Packet : stream[i] \in R
  <2> HIDE DEF R
  <2> QED BY <1>1, <1>2, ElementOfSeq
<1> QED BY <1>2, <1>3

\* The next number stays on the circle.
LEMMA AdvanceType ==
  ASSUME NEW s \in Seqno PROVE Advance(s, 1) \in Seqno
BY MAssumption DEF Advance, Seqno

\* Latest yields a packet of the frame or what was cached.
LEMMA LatestFrom ==
  ASSUME NEW packets, NEW nal, NEW cached
  PROVE  Latest(packets, nal, cached)
           \in {packets[s] : s \in DOMAIN packets} \cup {cached}
<1> DEFINE holding == {s \in DOMAIN packets : Holds(packets, s, nal)}
           last(s) == ~\E t \in holding : Before(s, t)
           good(s) == (\E u \in holding : last(u)) => last(s)
<1>1. CASE holding = {}
  BY <1>1 DEF Latest
<1>2. CASE holding # {}
  <2>1. \E s \in holding : good(s)
    BY <1>2, Zenon
  <2>2. (CHOOSE s \in holding : good(s)) \in holding
    <3> HIDE DEF holding, good
    <3> QED BY <2>1, Zenon
  <2>3. Latest(packets, nal, cached) = packets[CHOOSE s \in holding : good(s)]
    BY <1>2, Zenon DEF Latest
  <2>4. (CHOOSE s \in holding : good(s)) \in DOMAIN packets
    BY <2>2
  <2> HIDE DEF holding, good
  <2> QED BY <2>3, <2>4
<1> QED BY <1>1, <1>2

\* A frame under way that a packet joined: its packets are the old ones and the
\* new one.
LEMMA JoinedFacts ==
  ASSUME stream \in Streams, NEW i \in Packet, NEW held, arrivals \in Nat,
         stream[i].ts \in DOMAIN held =>
           /\ held[stream[i].ts].marker \in BOOLEAN
           /\ held[stream[i].ts].loss \in BOOLEAN
           /\ held[stream[i].ts].born \in Nat /\ held[stream[i].ts].born < arrivals
  PROVE  LET fa == Joined(held, i)
             t  == stream[i].ts
         IN  /\ fa.marker \in BOOLEAN /\ fa.loss \in BOOLEAN
             /\ fa.born \in Nat /\ fa.born <= arrivals
             /\ \A s \in DOMAIN fa.packets :
                  \/ s = stream[i].seq /\ fa.packets[s] = i
                  \/ /\ t \in DOMAIN held /\ s \in DOMAIN held[t].packets
                     /\ fa.packets[s] = held[t].packets[s]
<1> DEFINE p  == stream[i]
           fa == IF p.ts \in DOMAIN held THEN held[p.ts]
                 ELSE [packets |-> NoAssemblies, marker |-> FALSE, loss |-> FALSE,
                       born |-> arrivals]
           packets == With(fa.packets, p.seq, i)
           new == Joined(held, i)
<1>1. /\ new.packets = packets
      /\ new.marker = (fa.marker \/ p.marker)
      /\ new.loss = (fa.loss \/ HasLoss(packets))
      /\ new.born = IF Cardinality(DOMAIN packets) = 1 THEN arrivals ELSE fa.born
  BY Zenon DEF Joined
<1>2. fa.born \in Nat /\ fa.born <= arrivals
  <2>1. CASE p.ts \in DOMAIN held
    BY <2>1
  <2>2. CASE p.ts \notin DOMAIN held
    BY <2>2
  <2> QED BY <2>1, <2>2
<1>3. new.born \in Nat /\ new.born <= arrivals
  <2> HIDE DEF fa, packets, new
  <2> QED BY <1>1, <1>2
<1>4. fa.marker \in BOOLEAN /\ fa.loss \in BOOLEAN
  BY Zenon
<1>5. HasLoss(packets) \in BOOLEAN
  BY Zenon DEF HasLoss
<1>6. p.marker \in BOOLEAN
  BY StreamFacts
<1>7. new.marker \in BOOLEAN /\ new.loss \in BOOLEAN
  <2> HIDE DEF fa, packets, new, p
  <2> QED BY <1>1, <1>4, <1>5, <1>6, Zenon
<1>8. ASSUME NEW s \in DOMAIN new.packets
      PROVE  \/ s = p.seq /\ new.packets[s] = i
             \/ /\ p.ts \in DOMAIN held /\ s \in DOMAIN held[p.ts].packets
                /\ new.packets[s] = held[p.ts].packets[s]
  <2>1. /\ s \in DOMAIN fa.packets \cup {p.seq}
        /\ new.packets[s] = IF s = p.seq THEN i ELSE fa.packets[s]
    <3> HIDE DEF fa, p, new
    <3> QED BY <1>1, <1>8 DEF With
  <2>2. CASE s = p.seq
    BY <2>1, <2>2
  <2>3. CASE s # p.seq
    <3>1. s \in DOMAIN fa.packets
      BY <2>1, <2>3
    <3>2. p.ts \in DOMAIN held
      BY <3>1 DEF NoAssemblies
    <3> QED BY <2>1, <2>3, <3>1, <3>2
  <2> QED BY <2>2, <2>3
<1> QED BY <1>3, <1>7, <1>8, Zenon

\* The initial state.
LEMMA InitInv == Init => Types /\ OwnStream
<1> SUFFICES ASSUME Init PROVE Types /\ OwnStream
  OBVIOUS
<1> USE DEF Init
<1>1. stream \in Streams
  OBVIOUS
<1>2. Cardinality(delivered) = 0 /\ IsFiniteSet(delivered)
  BY FS_EmptySet
<1>3. DOMAIN assemblies = {} /\ DOMAIN frames = {}
  BY DEF NoAssemblies
<1>4. TypeOK
  <2>1. /\ orderly \in BOOLEAN /\ sequenceInit \in BOOLEAN /\ wiped \in BOOLEAN
        /\ dropCorruptedFrames \in BOOLEAN /\ lossDetected \in BOOLEAN
    BY Zenon
  <2>2. expectedSequence \in Seqno /\ copies \in 0 .. MaxCopies /\ currentSSRC \in Nat
        /\ ripe \in 0 .. arrivals
    BY <1>2, MAssumption, DecoderAssumption DEF arrivals, None, Seqno
  <2> QED BY <1>3, <2>1, <2>2 DEF TypeOK
<1> QED BY <1>2, <1>3, <1>4 DEF Types, Clocked, OwnStream

\* A record with fields of these types is a frame record.
LEMMA RecordType ==
  ASSUME NEW a \in Nat, NEW b \in SUBSET Packet, NEW c \in SUBSET Packet,
         NEW d \in BOOLEAN, NEW e \in BOOLEAN
  PROVE  LET r == [ts |-> a, data |-> b, prepended |-> c, key |-> d, corrupted |-> e]
         IN  r \in FrameRecord /\ r.data = b /\ r.prepended = c
BY DEF FrameRecord

\* The frame made of packets t is a record of them and of the cache.
LEMMA FrameFacts ==
  ASSUME TypeOK, NEW t \in DOMAIN assemblies, t \in Nat
  PROVE  LET packets == assemblies[t].packets
             own     == {packets[s] : s \in DOMAIN packets}
         IN  /\ FrameOf(t) \in FrameRecord
             /\ FrameOf(t).data \subseteq own
             /\ FrameOf(t).prepended \subseteq own \cup ({sps, pps} \ {None})
             /\ own \subseteq delivered
             /\ Latest(packets, "sps", sps) \in own \cup {sps}
             /\ Latest(packets, "pps", pps) \in own \cup {pps}
<1> DEFINE packets == assemblies[t].packets
           own  == {packets[s] : s \in DOMAIN packets}
           kept == Kept(packets)
           has(nal) == \E s \in kept : Holds(packets, s, nal)
           spsNow == Latest(packets, "sps", sps)
           ppsNow == Latest(packets, "pps", pps)
           prepend == /\ has("idr") /\ spsNow # None /\ ppsNow # None
                      /\ ~(has("sps") /\ has("pps"))
           data == {packets[s] : s \in kept}
           front == IF prepend THEN {spsNow, ppsNow} ELSE {}
           spoilt == assemblies[t].loss \/ Torn(packets)
<1>1. FrameOf(t) = [ts |-> t, data |-> data, prepended |-> front,
                    key |-> has("idr"), corrupted |-> spoilt]
  BY Zenon DEF FrameOf
<1>2. kept \subseteq DOMAIN packets
  BY DEF Kept
<1>3. data \subseteq own
  <2> HIDE DEF packets, kept
  <2> QED BY <1>2
<1>4. spsNow \in own \cup {sps} /\ ppsNow \in own \cup {pps}
  <2> HIDE DEF packets
  <2> QED BY LatestFrom
<1>5. front \subseteq own \cup ({sps, pps} \ {None})
  <2>1. CASE prepend
    <3>1. spsNow # None /\ ppsNow # None /\ front = {spsNow, ppsNow}
      BY <2>1, Zenon
    <3> HIDE DEF spsNow, ppsNow, front, prepend, own
    <3> QED BY <3>1, <1>4
  <2>2. CASE ~prepend
    <3>1. front = {}
      BY <2>2, Zenon
    <3> QED BY <3>1
  <2> QED BY <2>1, <2>2
<1>6. own \subseteq delivered
  BY DEF TypeOK
<1>7. delivered \subseteq Packet /\ ({sps, pps} \ {None}) \subseteq Packet
  <2>1. delivered \subseteq Packet /\ {sps, pps} \subseteq delivered \cup {None}
    BY DEF TypeOK
  <2> QED BY <2>1
<1>8. has("idr") \in BOOLEAN
  <2>1. CASE has("idr")
    <3>1. has("idr") = TRUE
      BY <2>1, Zenon
    <3> QED BY <3>1, Zenon
  <2>2. CASE ~has("idr")
    <3>1. has("idr") = FALSE
      BY <2>2, Zenon
    <3> QED BY <3>1, Zenon
  <2> QED BY <2>1, <2>2
<1>9. spoilt \in BOOLEAN
  BY Zenon DEF Torn
<1>10. /\ FrameOf(t) \in FrameRecord
       /\ FrameOf(t).data = data /\ FrameOf(t).prepended = front
  <2>1. data \in SUBSET Packet
    <3> HIDE DEF data, own
    <3> QED BY <1>3, <1>6, <1>7
  <2>2. front \in SUBSET Packet
    <3> HIDE DEF front, own
    <3> QED BY <1>5, <1>6, <1>7
  <2> HIDE DEF has, spoilt, data, front, own, packets
  <2> QED BY <1>1, <1>8, <1>9, <2>1, <2>2, RecordType
<1> QED BY <1>3, <1>4, <1>5, <1>6, <1>10

\* Finalizing a frame adds a record to the results or nothing.
LEMMA FinalizesFacts ==
  ASSUME Types, NEW t \in DOMAIN assemblies, Finalizes(t),
         UNCHANGED <<stream, delivered, copies, ripe>>
  PROVE  /\ DOMAIN assemblies' = DOMAIN assemblies \ {t}
         /\ \A u \in DOMAIN assemblies' : assemblies'[u] = assemblies[u]
         /\ {sps', pps'} \subseteq delivered \cup {None}
         /\ frames' \in Seq(FrameRecord)
         /\ \/ frames' = frames
            \/ frames' = Append(frames, FrameOf(t)) /\ FrameOf(t).data # {}
<1>1. t \in Nat /\ TypeOK /\ frames \in Seq(FrameRecord)
  BY DEF Types, Clocked
<1>2. /\ DOMAIN assemblies' = DOMAIN assemblies \ {t}
      /\ \A u \in DOMAIN assemblies' : assemblies'[u] = assemblies[u]
  BY DEF Finalizes, Without
<1>3. {sps', pps'} \subseteq delivered \cup {None}
  BY <1>1, FrameFacts DEF Finalizes, TypeOK
<1>4. frames' \in Seq(FrameRecord)
  <2>1. FrameOf(t) \in FrameRecord
    BY <1>1, FrameFacts
  <2>2. Append(frames, FrameOf(t)) \in Seq(FrameRecord)
    BY <1>1, <2>1, AppendProperties
  <2> QED BY <1>1, <2>2, Zenon DEF Finalizes
<1>5. \/ frames' = frames
      \/ frames' = Append(frames, FrameOf(t)) /\ FrameOf(t).data # {}
  BY Zenon DEF Finalizes, IsFrame
<1> QED BY <1>2, <1>3, <1>4, <1>5

\* A delivery counts one packet more.
LEMMA DeliversFacts ==
  ASSUME Types, NEW i \in Packet, Delivers(i)
  PROVE  /\ stream' = stream /\ delivered' = delivered \cup {i}
         /\ IsFiniteSet(delivered') /\ delivered' \subseteq Packet
         /\ copies' \in 0 .. MaxCopies /\ orderly' \in BOOLEAN
         /\ arrivals \in Nat /\ arrivals' = arrivals + 1
<1>1. IsFiniteSet(delivered) /\ copies \in 0 .. MaxCopies /\ delivered \subseteq Packet
  BY DEF Types, TypeOK, Clocked
<1>2. Cardinality(delivered) \in Nat
  BY <1>1, FS_CardinalityType
<1>3. stream' = stream /\ delivered' = delivered \cup {i}
  BY DEF Delivers
<1>4. /\ IsFiniteSet(delivered')
      /\ Cardinality(delivered') =
           IF i \in delivered THEN Cardinality(delivered) ELSE Cardinality(delivered) + 1
  BY <1>1, <1>3, FS_AddElement
<1>5. orderly' \in BOOLEAN
  BY Zenon DEF Delivers
<1>6. CASE i \notin delivered
  <2>1. copies' = copies
    BY <1>6 DEF Delivers
  <2> QED BY <1>1, <1>2, <1>3, <1>4, <1>5, <1>6, <2>1 DEF arrivals
<1>7. CASE i \in delivered
  <2>1. copies' = copies + 1 /\ copies < MaxCopies
    BY <1>7 DEF Delivers
  <2> QED BY <1>1, <1>2, <1>3, <1>4, <1>5, <1>7, <2>1, DecoderAssumption DEF arrivals
<1> QED BY <1>6, <1>7

\* ProcessPacket puts the packet among those of its timestamp.
LEMMA ProcessFacts ==
  ASSUME Types, NEW i \in Packet, ProcessPacket(i)
  PROVE  LET t == stream[i].ts
         IN  /\ DOMAIN assemblies' \subseteq DOMAIN assemblies \cup {t}
             /\ t \in DOMAIN assemblies'
             /\ \A u \in DOMAIN assemblies' \ {t} :
                  /\ ~Changed(stream[i]) /\ u \in DOMAIN assemblies
                  /\ assemblies'[u] = assemblies[u]
             /\ assemblies'[t].marker \in BOOLEAN /\ assemblies'[t].loss \in BOOLEAN
             /\ assemblies'[t].born \in Nat /\ assemblies'[t].born <= arrivals
             /\ \A s \in DOMAIN assemblies'[t].packets :
                  \/ s = stream[i].seq /\ assemblies'[t].packets[s] = i
                  \/ /\ ~Changed(stream[i]) /\ t \in DOMAIN assemblies
                     /\ s \in DOMAIN assemblies[t].packets
                     /\ assemblies'[t].packets[s] = assemblies[t].packets[s]
             /\ todo' \subseteq DOMAIN assemblies' \ {t}
<1> DEFINE t == stream[i].ts
           held == IF Changed(stream[i]) THEN NoAssemblies ELSE assemblies
<1>1. /\ assemblies' = With(held, t, Joined(held, i))
      /\ todo' \subseteq DOMAIN held \ {t}
  BY DEF ProcessPacket
<1>2. \A u \in DOMAIN held :
        ~Changed(stream[i]) /\ u \in DOMAIN assemblies /\ held[u] = assemblies[u]
  BY DEF NoAssemblies
<1>3. /\ DOMAIN assemblies' = DOMAIN held \cup {t}
      /\ assemblies'[t] = Joined(held, i)
      /\ \A u \in DOMAIN held \ {t} : assemblies'[u] = held[u]
  <2> HIDE DEF held, t
  <2> QED BY <1>1 DEF With
<1>4. stream \in Streams /\ arrivals \in Nat
  BY DeliversFacts DEF ProcessPacket, Types, TypeOK
<1>5. t \in DOMAIN held => /\ held[t].marker \in BOOLEAN /\ held[t].loss \in BOOLEAN
                           /\ held[t].born \in Nat /\ held[t].born < arrivals
  <2> SUFFICES ASSUME t \in DOMAIN held
               PROVE  /\ assemblies[t].marker \in BOOLEAN
                      /\ assemblies[t].loss \in BOOLEAN
                      /\ assemblies[t].born \in Nat /\ assemblies[t].born < arrivals
    BY <1>2, Zenon
  <2>1. t \in DOMAIN assemblies
    BY <1>2
  <2> QED BY <2>1, Zenon DEF Types, TypeOK, Clocked
<1> DEFINE fa == Joined(held, i)
<1>6. /\ fa.marker \in BOOLEAN /\ fa.loss \in BOOLEAN
      /\ fa.born \in Nat /\ fa.born <= arrivals
      /\ \A s \in DOMAIN fa.packets :
           \/ s = stream[i].seq /\ fa.packets[s] = i
           \/ /\ t \in DOMAIN held /\ s \in DOMAIN held[t].packets
              /\ fa.packets[s] = held[t].packets[s]
  <2> HIDE DEF held
  <2> QED BY <1>4, <1>5, JoinedFacts
<1>7. \A s \in DOMAIN fa.packets :
        \/ s = stream[i].seq /\ fa.packets[s] = i
        \/ /\ ~Changed(stream[i]) /\ t \in DOMAIN assemblies
           /\ s \in DOMAIN assemblies[t].packets
           /\ fa.packets[s] = assemblies[t].packets[s]
  <2> HIDE DEF held, fa
  <2> QED BY <1>2, <1>6, Zenon
<1>8. /\ DOMAIN assemblies' \subseteq DOMAIN assemblies \cup {t}
      /\ t \in DOMAIN assemblies'
      /\ todo' \subseteq DOMAIN assemblies' \ {t}
  <2> HIDE DEF held
  <2> QED BY <1>1, <1>2, <1>3
<1>9. \A u \in DOMAIN assemblies' \ {t} :
        /\ ~Changed(stream[i]) /\ u \in DOMAIN assemblies
        /\ assemblies'[u] = assemblies[u]
  <2> HIDE DEF held, t
  <2> QED BY <1>2, <1>3
<1> HIDE DEF held, fa
<1> QED BY <1>3, <1>6, <1>7, <1>8, <1>9, Zenon DEF fa

\* What TypeOK and Clocked say of one frame under way.
UnderWay(t) ==
  /\ t \in Nat \ {None}
  /\ assemblies[t].marker \in BOOLEAN /\ assemblies[t].loss \in BOOLEAN
  /\ assemblies[t].born \in Nat /\ assemblies[t].born < arrivals
  /\ \A s \in DOMAIN assemblies[t].packets :
       /\ assemblies[t].packets[s] \in delivered
       /\ stream[assemblies[t].packets[s]].seq = s
       /\ stream[assemblies[t].packets[s]].ts = t

\* The types, in the parts that steps change.
LEMMA TypesParts ==
  Types <=> /\ stream \in Streams /\ delivered \subseteq Packet
            /\ copies \in 0 .. MaxCopies /\ IsFiniteSet(delivered)
            /\ orderly \in BOOLEAN /\ sequenceInit \in BOOLEAN /\ wiped \in BOOLEAN
            /\ dropCorruptedFrames \in BOOLEAN /\ lossDetected \in BOOLEAN
            /\ expectedSequence \in Seqno /\ currentSSRC \in Nat
            /\ {sps, pps} \subseteq delivered \cup {None}
            /\ ripe \in 0 .. arrivals
            /\ current \in Timestamp \cup {None}
            /\ todo \subseteq DOMAIN assemblies \ {current}
            /\ (current = None => todo = {})
            /\ (current # None => current \in DOMAIN assemblies)
            /\ (\A t \in DOMAIN assemblies : UnderWay(t))
            /\ (\A k \in DOMAIN frames : frames[k].data \subseteq delivered)
            /\ frames \in Seq(FrameRecord)
BY Zenon DEF Types, TypeOK, Clocked, UnderWay

\* A packet is processed.
LEMMA ProcessTypes ==
  ASSUME Types, NEW i \in Packet, ProcessPacket(i)
  PROVE  Types'
<1> DEFINE p == stream[i]
<1>1. /\ stream \in Streams /\ delivered \subseteq Packet
      /\ {sps, pps} \subseteq delivered \cup {None} /\ ripe \in 0 .. arrivals
      /\ (\A t \in DOMAIN assemblies : UnderWay(t))
      /\ (\A k \in DOMAIN frames : frames[k].data \subseteq delivered)
      /\ frames \in Seq(FrameRecord) /\ wiped \in BOOLEAN
      /\ dropCorruptedFrames \in BOOLEAN
  BY TypesParts, Zenon
<1>2. /\ p.ts \in Nat \ {0} /\ p.ssrc \in Nat /\ p.seq \in Seqno
  BY <1>1, StreamFacts
<1>3. /\ stream' = stream /\ delivered' = delivered \cup {i}
      /\ IsFiniteSet(delivered') /\ delivered' \subseteq Packet
      /\ copies' \in 0 .. MaxCopies /\ orderly' \in BOOLEAN
      /\ arrivals \in Nat /\ arrivals' = arrivals + 1
  BY DeliversFacts DEF ProcessPacket
<1>4. Packet' = Packet /\ Timestamp' = Timestamp
  BY <1>3 DEF Packet, Timestamp
<1>5. /\ UNCHANGED <<dropCorruptedFrames, ripe, wiped, frames>>
      /\ current' = p.ts /\ currentSSRC' = p.ssrc
      /\ sequenceInit' = TRUE /\ expectedSequence' = Advance(p.seq, 1)
  BY DEF ProcessPacket, Forgets, TracksSequence
<1>6. lossDetected' \in BOOLEAN
  BY Zenon DEF ProcessPacket, TracksSequence
<1>7. {sps', pps'} \subseteq delivered' \cup {None}
  <2>1. (sps' = None /\ pps' = None) \/ (sps' = sps /\ pps' = pps)
    BY DEF ProcessPacket, Forgets, cache
  <2> QED BY <1>1, <1>3, <2>1
<1>8. expectedSequence' \in Seqno
  BY <1>2, <1>5, AdvanceType
<1>9. ripe' \in 0 .. arrivals'
  BY <1>1, <1>3, <1>5
<1>10. current' \in Timestamp \cup {None}
  BY <1>5 DEF Timestamp
<1>11. /\ todo' \subseteq DOMAIN assemblies' \ {current'}
       /\ current' \in DOMAIN assemblies' /\ current' # None
  BY <1>2, <1>5, ProcessFacts DEF None
<1>12. ASSUME NEW t \in DOMAIN assemblies' PROVE UnderWay(t)'
  <2>1. CASE t = p.ts
    <3>1. /\ assemblies'[t].marker \in BOOLEAN /\ assemblies'[t].loss \in BOOLEAN
          /\ assemblies'[t].born \in Nat /\ assemblies'[t].born <= arrivals
      BY <2>1, ProcessFacts
    <3>2. ASSUME NEW s \in DOMAIN assemblies'[t].packets
          PROVE  /\ assemblies'[t].packets[s] \in delivered'
                 /\ stream'[assemblies'[t].packets[s]].seq = s
                 /\ stream'[assemblies'[t].packets[s]].ts = t
      <4>1. \/ s = p.seq /\ assemblies'[t].packets[s] = i
            \/ /\ t \in DOMAIN assemblies /\ s \in DOMAIN assemblies[t].packets
               /\ assemblies'[t].packets[s] = assemblies[t].packets[s]
        BY <2>1, ProcessFacts
      <4>2. CASE s = p.seq /\ assemblies'[t].packets[s] = i
        BY <1>3, <2>1, <4>2
      <4>3. CASE /\ t \in DOMAIN assemblies /\ s \in DOMAIN assemblies[t].packets
                 /\ assemblies'[t].packets[s] = assemblies[t].packets[s]
        <5>1. /\ assemblies[t].packets[s] \in delivered
              /\ stream[assemblies[t].packets[s]].seq = s
              /\ stream[assemblies[t].packets[s]].ts = t
          BY <1>1, <4>3 DEF UnderWay
        <5> QED BY <1>3, <4>3, <5>1
      <4> QED BY <4>1, <4>2, <4>3
    <3>3. t \in Nat \ {None} /\ assemblies'[t].born < arrivals'
      BY <1>2, <1>3, <2>1, <3>1 DEF None
    <3> QED BY <3>1, <3>2, <3>3, Zenon DEF UnderWay
  <2>2. CASE t # p.ts
    <3>1. t \in DOMAIN assemblies /\ assemblies'[t] = assemblies[t]
      BY <2>2, ProcessFacts
    <3>2. UnderWay(t)
      BY <1>1, <3>1
    <3>3. assemblies'[t].born < arrivals'
      BY <1>3, <3>1, <3>2 DEF UnderWay
    <3>4. \A s \in DOMAIN assemblies[t].packets : assemblies[t].packets[s] \in delivered'
      BY <1>3, <3>2 DEF UnderWay
    <3> QED BY <1>3, <3>1, <3>2, <3>3, <3>4, Zenon DEF UnderWay
  <2> QED BY <2>1, <2>2
<1>13. /\ \A k \in DOMAIN frames' : frames'[k].data \subseteq delivered'
       /\ frames' \in Seq(FrameRecord)'
  <2>1. \A k \in DOMAIN frames' : frames'[k].data \subseteq delivered'
    BY <1>1, <1>3, <1>5
  <2>2. FrameRecord' = FrameRecord
    BY <1>4, Zenon DEF FrameRecord
  <2> QED BY <1>1, <1>5, <2>1, <2>2
<1>14. stream' \in Streams /\ delivered' \subseteq Packet' /\ wiped' \in BOOLEAN
       /\ dropCorruptedFrames' \in BOOLEAN /\ sequenceInit' \in BOOLEAN
       /\ currentSSRC' \in Nat /\ current' \in Timestamp' \cup {None}
  BY <1>1, <1>2, <1>3, <1>4, <1>5, <1>10, Zenon
<1>15. Clocked' /\ (frames \in Seq(FrameRecord))'
  BY <1>3, <1>12, <1>13, Zenon DEF Clocked, UnderWay
<1>16. TypeOK'
  BY <1>3, <1>6, <1>7, <1>8, <1>9, <1>11, <1>12, <1>13, <1>14, Zenon
     DEF TypeOK, UnderWay
<1> QED BY <1>15, <1>16, Zenon DEF Types

\* A frame is finalized: nothing it leaves is new but the result.
LEMMA FinalizeTypes ==
  ASSUME Types, NEW t \in DOMAIN assemblies, Finalizes(t),
         UNCHANGED <<network, tracking, lossDetected, dropCorruptedFrames, ripe, wiped>>,
         current' \in {current, None}, todo' \subseteq todo \ {t},
         current' # t, current' = None => todo' = {}
  PROVE  Types'
<1>1. /\ stream \in Streams /\ delivered \subseteq Packet
      /\ copies \in 0 .. MaxCopies /\ IsFiniteSet(delivered)
      /\ orderly \in BOOLEAN /\ sequenceInit \in BOOLEAN /\ wiped \in BOOLEAN
      /\ dropCorruptedFrames \in BOOLEAN /\ lossDetected \in BOOLEAN
      /\ expectedSequence \in Seqno /\ currentSSRC \in Nat
      /\ ripe \in 0 .. arrivals
      /\ current \in Timestamp \cup {None}
      /\ todo \subseteq DOMAIN assemblies \ {current}
      /\ (current # None => current \in DOMAIN assemblies)
      /\ (\A u \in DOMAIN assemblies : UnderWay(u))
      /\ (\A k \in DOMAIN frames : frames[k].data \subseteq delivered)
      /\ frames \in Seq(FrameRecord)
  BY TypesParts, Zenon
<1>2. UNCHANGED <<stream, delivered, copies, orderly, currentSSRC, sequenceInit,
                  expectedSequence, lossDetected, dropCorruptedFrames, ripe, wiped>>
  BY DEF network, tracking
<1>3. Packet' = Packet /\ Timestamp' = Timestamp /\ arrivals' = arrivals
  BY <1>2 DEF Packet, Timestamp, arrivals
<1>4. /\ DOMAIN assemblies' = DOMAIN assemblies \ {t}
      /\ \A u \in DOMAIN assemblies' : assemblies'[u] = assemblies[u]
      /\ {sps', pps'} \subseteq delivered \cup {None}
      /\ frames' \in Seq(FrameRecord)
      /\ frames' = frames \/ frames' = Append(frames, FrameOf(t))
  BY <1>2, FinalizesFacts
<1>5. \A u \in DOMAIN assemblies' : UnderWay(u)'
  <2>1. TAKE u \in DOMAIN assemblies'
  <2>2. UnderWay(u) /\ assemblies'[u] = assemblies[u]
    BY <1>1, <1>4
  <2> QED BY <1>2, <1>3, <2>2, Zenon DEF UnderWay
<1>6. FrameOf(t).data \subseteq delivered
  BY <1>1, FrameFacts DEF Types, UnderWay
<1>7. \A k \in DOMAIN frames' : frames'[k].data \subseteq delivered'
  <2>1. CASE frames' = frames
    BY <1>1, <1>2, <2>1
  <2>2. CASE frames' = Append(frames, FrameOf(t))
    <3>1. TAKE k \in DOMAIN frames'
    <3>2. /\ DOMAIN frames' = 1 .. Len(frames) + 1 /\ DOMAIN frames = 1 .. Len(frames)
          /\ Len(frames) \in Nat
      BY <1>1, <1>4, <2>2
    <3>3. frames'[k] = FrameOf(t) \/ (k \in DOMAIN frames /\ frames'[k] = frames[k])
      BY <1>1, <2>2, <3>2
    <3> QED BY <1>1, <1>2, <1>6, <3>3, Zenon
  <2> QED BY <1>4, <2>1, <2>2
<1>8. frames' \in Seq(FrameRecord)'
  <2>1. FrameRecord' = FrameRecord
    BY <1>3, Zenon DEF FrameRecord
  <2> QED BY <1>4, <2>1
<1>9. /\ todo' \subseteq DOMAIN assemblies' \ {current'}
      /\ (current' # None => current' \in DOMAIN assemblies')
      /\ current' \in Timestamp \cup {None}
  <2>1. None \notin DOMAIN assemblies
    BY <1>1 DEF UnderWay, None
  <2> QED BY <1>1, <1>4, <2>1
<1>10. Clocked' /\ (frames \in Seq(FrameRecord))'
  BY <1>1, <1>2, <1>3, <1>5, <1>8, Zenon DEF Clocked, UnderWay
<1>11. TypeOK'
  BY <1>1, <1>2, <1>3, <1>4, <1>5, <1>7, <1>9, Zenon DEF TypeOK, UnderWay
<1> QED BY <1>10, <1>11, Zenon DEF Types

\* A packet is processed: what is kept is its sender's.
LEMMA ProcessOwn ==
  ASSUME Types, OwnStream, NEW i \in Packet, ProcessPacket(i)
  PROVE  OwnStream'
<1> DEFINE p == stream[i]
<1>1. /\ stream' = stream /\ Packet' = Packet /\ currentSSRC' = p.ssrc
      /\ frames' = frames
  BY DEF ProcessPacket, Delivers, Forgets, Packet
<1>2. i \in Own'
  BY <1>1 DEF Own
<1>3. stream \in Streams /\ \A j \in Packet : stream[j].ssrc # None
  BY StreamFacts DEF Types, TypeOK, None
<1>4. ~Changed(p) => Own \subseteq Own'
  BY <1>1, <1>3 DEF Changed, Own
<1>5. \A t \in DOMAIN assemblies' :
        \A s \in DOMAIN assemblies'[t].packets : assemblies'[t].packets[s] \in Own'
  <2>1. TAKE t \in DOMAIN assemblies'
  <2>2. TAKE s \in DOMAIN assemblies'[t].packets
  <2>3. CASE t = p.ts
    <3>1. \/ assemblies'[t].packets[s] = i
          \/ /\ ~Changed(p) /\ t \in DOMAIN assemblies
             /\ s \in DOMAIN assemblies[t].packets
             /\ assemblies'[t].packets[s] = assemblies[t].packets[s]
      BY <2>3, ProcessFacts
    <3> QED BY <1>2, <1>4, <3>1 DEF OwnStream
  <2>4. CASE t # p.ts
    <3>1. ~Changed(p) /\ t \in DOMAIN assemblies /\ assemblies'[t] = assemblies[t]
      BY <2>4, ProcessFacts
    <3> QED BY <1>4, <3>1 DEF OwnStream
  <2> QED BY <2>3, <2>4
<1>6. {sps', pps'} \subseteq Own' \cup {None}
  <2>1. CASE Changed(p)
    <3>1. sps' = None /\ pps' = None
      BY <2>1 DEF ProcessPacket, Forgets
    <3> QED BY <3>1
  <2>2. CASE ~Changed(p)
    <3>1. sps' = sps /\ pps' = pps
      BY <2>2 DEF ProcessPacket, Forgets, cache
    <3> QED BY <1>4, <2>2, <3>1 DEF OwnStream
  <2> QED BY <2>1, <2>2
<1> QED BY <1>1, <1>5, <1>6, Zenon DEF OwnStream

\* A frame is finalized: it is made of the sender's packets.
LEMMA FinalizeOwn ==
  ASSUME Types, OwnStream, NEW t \in DOMAIN assemblies, Finalizes(t),
         UNCHANGED <<network, tracking, ripe>>
  PROVE  OwnStream'
<1>1. UNCHANGED <<stream, delivered, copies, currentSSRC>>
  BY DEF network, tracking
<1>2. Own' = Own
  BY <1>1 DEF Own, Packet
<1>3. /\ DOMAIN assemblies' = DOMAIN assemblies \ {t}
      /\ \A u \in DOMAIN assemblies' : assemblies'[u] = assemblies[u]
      /\ \/ frames' = frames
         \/ frames' = Append(frames, FrameOf(t)) /\ FrameOf(t).data # {}
  BY <1>1, FinalizesFacts
<1> DEFINE own == {assemblies[t].packets[s] : s \in DOMAIN assemblies[t].packets}
<1>4. own \subseteq Own
  BY DEF OwnStream
<1>5. TypeOK /\ t \in Nat /\ frames \in Seq(FrameRecord)
  BY DEF Types, Clocked
<1>6. /\ FrameOf(t).data \subseteq own
      /\ FrameOf(t).prepended \subseteq own \cup ({sps, pps} \ {None})
      /\ sps' \in own \cup {sps} /\ pps' \in own \cup {pps}
  BY <1>5, FrameFacts DEF Finalizes
<1>7. {sps, pps} \subseteq Own \cup {None}
  BY DEF OwnStream
<1>8. {sps', pps'} \subseteq Own' \cup {None}
  <2> HIDE DEF own
  <2> QED BY <1>2, <1>4, <1>6, <1>7
<1>9. \A j \in FrameOf(t).data \cup FrameOf(t).prepended : stream[j].ssrc = currentSSRC
  <2>1. FrameOf(t).data \cup FrameOf(t).prepended \subseteq Own
    <3> HIDE DEF own
    <3> QED BY <1>4, <1>6, <1>7
  <2> QED BY <2>1 DEF Own
<1>10. ASSUME NEW k \in DOMAIN frames'
       PROVE  /\ frames'[k].data # {}
              /\ \E c : \A j \in frames'[k].data \cup frames'[k].prepended :
                          stream'[j].ssrc = c
  <2>1. (k \in DOMAIN frames /\ frames'[k] = frames[k])
          \/ (frames'[k] = FrameOf(t) /\ FrameOf(t).data # {})
    BY <1>3, <1>5
  <2>2. CASE k \in DOMAIN frames /\ frames'[k] = frames[k]
    BY <1>1, <2>2, Zenon DEF OwnStream
  <2>3. CASE frames'[k] = FrameOf(t) /\ FrameOf(t).data # {}
    BY <1>1, <1>9, <2>3, Zenon
  <2> QED BY <2>1, <2>2, <2>3
<1>11. \A u \in DOMAIN assemblies' :
         \A s \in DOMAIN assemblies'[u].packets : assemblies'[u].packets[s] \in Own'
  BY <1>2, <1>3 DEF OwnStream
<1> QED BY <1>8, <1>10, <1>11, Zenon DEF OwnStream

\* The steps that touch neither frames under way nor what is kept of them, or
\* throw all of them away.
LEMMA OtherSteps ==
  ASSUME Types, OwnStream,
         \/ \E drop \in BOOLEAN : SetDropCorruptedFrames(drop)
         \/ Reset
         \/ \E t \in DOMAIN assemblies : Elapse(t)
         \/ UNCHANGED vars
  PROVE  Types' /\ OwnStream'
<1>1. /\ UNCHANGED <<stream, delivered, copies, orderly, currentSSRC, sequenceInit,
                     expectedSequence, sps, pps, lossDetected, frames>>
      /\ assemblies' = assemblies \/ assemblies' = NoAssemblies
  BY DEF SetDropCorruptedFrames, Reset, Elapse, vars, network, tracking, cache
<1>2. Packet' = Packet /\ Timestamp' = Timestamp /\ arrivals' = arrivals /\ Own' = Own
  BY <1>1 DEF Packet, Timestamp, arrivals, Own
<1>3. dropCorruptedFrames' \in BOOLEAN /\ wiped' \in BOOLEAN
  <2>1. dropCorruptedFrames \in BOOLEAN /\ wiped \in BOOLEAN
    BY Zenon DEF Types, TypeOK
  <2> QED BY <2>1, Zenon DEF SetDropCorruptedFrames, Reset, Elapse, vars
<1>4. /\ current' = current /\ todo' = todo
      /\ current # None => assemblies' = assemblies
  BY DEF SetDropCorruptedFrames, Reset, Elapse, vars, call, Idle
<1>5. ripe' \in 0 .. arrivals
  <2>1. ripe \in 0 .. arrivals
    BY DEF Types, TypeOK
  <2>2. arrivals \in Nat
    BY FS_CardinalityType, DecoderAssumption DEF Types, TypeOK, Clocked, arrivals
  <2>3. CASE ripe' = ripe
    BY <2>1, <2>3
  <2>4. CASE \E t \in DOMAIN assemblies : Elapse(t)
    <3>1. PICK t \in DOMAIN assemblies : Elapse(t)
      BY <2>4
    <3>2. assemblies[t].born \in Nat /\ assemblies[t].born < arrivals
      BY DEF Types, TypeOK, Clocked
    <3> QED BY <2>2, <3>1, <3>2 DEF Elapse
  <2> QED BY <2>3, <2>4 DEF SetDropCorruptedFrames, Reset, Elapse, vars
<1>6. todo' \subseteq DOMAIN assemblies' \ {current'}
  <2>1. CASE current # None
    BY <1>4, <2>1 DEF Types, TypeOK
  <2>2. CASE current = None
    BY <1>1, <1>4, <2>2 DEF Types, TypeOK
  <2> QED BY <2>1, <2>2
<1>7. \A t \in DOMAIN assemblies' : t \in DOMAIN assemblies /\ assemblies'[t] = assemblies[t]
  BY <1>1 DEF NoAssemblies
<1>8. FrameRecord' = FrameRecord
  BY <1>2, Zenon DEF FrameRecord
<1>9. Clocked' /\ (frames \in Seq(FrameRecord))'
  BY <1>1, <1>2, <1>7, <1>8, Zenon DEF Types, Clocked
<1>10. /\ {sps', pps'} \subseteq delivered' \cup {None}
       /\ {sps', pps'} \subseteq Own' \cup {None}
  BY <1>1, <1>2 DEF Types, TypeOK, OwnStream
<1>11. IF current' = None THEN todo' = {} ELSE current' \in DOMAIN assemblies'
  BY <1>4 DEF Types, TypeOK
<1>12. \A t \in DOMAIN assemblies' : UnderWay(t)'
  <2>1. TAKE t \in DOMAIN assemblies'
  <2>2. UnderWay(t) /\ assemblies'[t] = assemblies[t]
    BY <1>7, TypesParts
  <2> QED BY <1>1, <1>2, <2>2, Zenon DEF UnderWay
<1>13. TypeOK'
  BY <1>1, <1>2, <1>3, <1>4, <1>5, <1>6, <1>10, <1>11, <1>12, Zenon
     DEF Types, TypeOK, UnderWay
<1>14. OwnStream'
  <2>1. \A t \in DOMAIN assemblies' :
          \A s \in DOMAIN assemblies'[t].packets : assemblies'[t].packets[s] \in Own'
    BY <1>2, <1>7 DEF OwnStream
  <2> QED BY <1>1, <1>10, <2>1, Zenon DEF OwnStream
<1> QED BY <1>9, <1>13, <1>14, Zenon DEF Types

\* Every step preserves the invariant.
LEMMA Step == Types /\ OwnStream /\ [Next]_vars => (Types /\ OwnStream)'
<1> SUFFICES ASSUME Types, OwnStream, [Next]_vars PROVE Types' /\ OwnStream'
  OBVIOUS
<1>1. ASSUME NEW i \in DOMAIN stream, ProcessPacket(i) PROVE Types' /\ OwnStream'
  BY <1>1, ProcessTypes, ProcessOwn DEF Packet
<1>2. todo \subseteq DOMAIN assemblies \ {current}
      /\ (current # None => current \in DOMAIN assemblies)
  BY TypesParts
<1>3. ASSUME NEW t \in todo, FinalizesOld(t) PROVE Types' /\ OwnStream'
  <2>1. /\ t \in DOMAIN assemblies /\ Finalizes(t) /\ t # current /\ current # None
        /\ UNCHANGED <<network, tracking, lossDetected, dropCorruptedFrames, ripe, wiped>>
    BY <1>2, <1>3 DEF FinalizesOld, Idle
  <2>2. \/ current' = None /\ todo' = {}
        \/ current' = current /\ todo' = todo \ {t}
    BY <1>3, Zenon DEF FinalizesOld, Returns
  <2>3. t # None
    BY <2>1 DEF Types, Clocked
  <2>4. Types'
    BY <2>1, <2>2, <2>3, FinalizeTypes
  <2> QED BY <2>1, <2>4, FinalizeOwn
<1>4. CASE FinalizesCurrent
  <2>1. /\ current # None /\ current \in DOMAIN assemblies
        /\ current' = None /\ todo' = {} /\ todo = {}
        /\ UNCHANGED <<network, tracking, lossDetected, dropCorruptedFrames, ripe, wiped>>
    BY <1>2, <1>4 DEF FinalizesCurrent, Idle, Returns
  <2>2. CASE Finalizes(current)
    <3>1. Types'
      BY <2>1, <2>2, FinalizeTypes
    <3> QED BY <2>1, <2>2, <3>1, FinalizeOwn
  <2>3. CASE UNCHANGED <<assemblies, cache, frames>>
    <3>1. UNCHANGED <<stream, delivered, copies, orderly, currentSSRC, sequenceInit,
                      expectedSequence, sps, pps, lossDetected, dropCorruptedFrames,
                      ripe, wiped, assemblies, frames>>
      BY <2>1, <2>3 DEF network, tracking, cache
    <3>2. /\ Packet' = Packet /\ Timestamp' = Timestamp /\ arrivals' = arrivals
          /\ Own' = Own
      BY <3>1 DEF Packet, Timestamp, arrivals, Own
    <3>3. FrameRecord' = FrameRecord
      BY <3>2, Zenon DEF FrameRecord
    <3>4. TypeOK'
      BY <2>1, <3>1, <3>2, Zenon DEF Types, TypeOK
    <3>5. Clocked' /\ (frames \in Seq(FrameRecord))'
      BY <3>1, <3>2, <3>3, Zenon DEF Types, Clocked
    <3>6. OwnStream'
      BY <3>1, <3>2, Zenon DEF OwnStream
    <3> QED BY <3>4, <3>5, <3>6, Zenon DEF Types
  <2> QED BY <1>4, <2>2, <2>3, Zenon DEF FinalizesCurrent
<1> QED BY <1>1, <1>3, <1>4, OtherSteps, Zenon DEF Next

\* The invariant holds in every reachable state.
LEMMA Invariance == Spec => [](Types /\ OwnStream)
BY InitInv, Step, PTL DEF Spec

\* A frame has at least one packet, and all it holds come from one sender.
LEMMA OwnIsOne == Types /\ OwnStream => OneStream
<1> SUFFICES ASSUME Types, OwnStream, NEW k \in DOMAIN frames
             PROVE  Cardinality({stream[i].ssrc :
                       i \in frames[k].data \cup frames[k].prepended}) = 1
  BY Zenon DEF OneStream
<1> DEFINE all == frames[k].data \cup frames[k].prepended
<1>1. all # {} /\ \E c : \A i \in all : stream[i].ssrc = c
  BY DEF OwnStream
<1>2. PICK c : \A i \in all : stream[i].ssrc = c
  BY <1>1
<1>3. {stream[i].ssrc : i \in all} = {c}
  <2> HIDE DEF all
  <2> QED BY <1>1, <1>2
<1> QED BY <1>3, FS_Singleton

\* Types hold for every stream, loss, reordering and repetition; what the
\* decoder keeps was delivered, under its own number and timestamp.
THEOREM DecoderTypes == Spec => []TypeOK
BY Invariance, PTL DEF Types

\* No frame, its SPS and PPS included, mixes two senders, whenever the SSRC
\* changes and however late packets of the old sender come.
THEOREM DecoderOneStream == Spec => []OneStream
BY Invariance, OwnIsOne, PTL
-----------------------------------------------------------------------------
(* What the remaining proofs need of a step: it processes a packet,        *)
(* finalizes a frame, or leaves all but the frames under way alone.        *)

Rests ==
  /\ UNCHANGED <<stream, delivered, copies, currentSSRC, sps, pps, frames>>
  /\ assemblies' = assemblies \/ assemblies' = NoAssemblies

FinalizesOne ==
  \E t \in DOMAIN assemblies :
    Finalizes(t) /\ UNCHANGED <<stream, delivered, copies, currentSSRC>>

LEMMA StepKinds ==
  ASSUME Types, [Next]_vars
  PROVE  (\E i \in Packet : ProcessPacket(i)) \/ FinalizesOne \/ Rests
<1>1. todo \subseteq DOMAIN assemblies \ {current}
      /\ (current # None => current \in DOMAIN assemblies)
  BY TypesParts
<1>2. CASE \E i \in DOMAIN stream : ProcessPacket(i)
  BY <1>2 DEF Packet
<1>3. CASE \E t \in todo : FinalizesOld(t)
  BY <1>1, <1>3 DEF FinalizesOld, FinalizesOne, network, tracking
<1>4. CASE FinalizesCurrent
  <2>1. current \in DOMAIN assemblies
        /\ UNCHANGED <<stream, delivered, copies, currentSSRC>>
    BY <1>1, <1>4 DEF FinalizesCurrent, Idle, network, tracking
  <2>2. CASE Finalizes(current)
    BY <2>1, <2>2 DEF FinalizesOne
  <2>3. CASE UNCHANGED <<assemblies, cache, frames>>
    BY <2>1, <2>3 DEF Rests, cache
  <2> QED BY <1>4, <2>2, <2>3, Zenon DEF FinalizesCurrent
<1>5. CASE \/ \E drop \in BOOLEAN : SetDropCorruptedFrames(drop)
           \/ Reset
           \/ \E t \in DOMAIN assemblies : Elapse(t)
           \/ UNCHANGED vars
  BY <1>5 DEF SetDropCorruptedFrames, Reset, Elapse, vars, network, tracking,
              cache, Rests
<1> QED BY <1>2, <1>3, <1>4, <1>5, Zenon DEF Next

\* The packets of a frame under way.
InHand(t) == {assemblies[t].packets[s] : s \in DOMAIN assemblies[t].packets}

\* Finalizing adds at most the frame of its packets, and leaves the others.
LEMMA FinalizesOneFacts ==
  ASSUME Types, NEW t \in DOMAIN assemblies, Finalizes(t),
         UNCHANGED <<stream, delivered, copies, currentSSRC>>
  PROVE  /\ DOMAIN assemblies' = DOMAIN assemblies \ {t}
         /\ \A u \in DOMAIN assemblies' : assemblies'[u] = assemblies[u]
         /\ FrameOf(t).data \subseteq InHand(t)
         /\ \A k \in DOMAIN frames' :
              \/ k \in DOMAIN frames /\ frames'[k] = frames[k]
              \/ /\ frames'[k] = FrameOf(t) /\ k = Len(frames) + 1
                 /\ k \notin DOMAIN frames
         /\ DOMAIN frames = 1 .. Len(frames) /\ Len(frames) \in Nat
<1>1. t \in Nat /\ TypeOK /\ frames \in Seq(FrameRecord)
  BY DEF Types, Clocked
<1>2. FrameOf(t).data \subseteq InHand(t)
  BY <1>1, FrameFacts DEF InHand
<1>3. /\ DOMAIN assemblies' = DOMAIN assemblies \ {t}
      /\ \A u \in DOMAIN assemblies' : assemblies'[u] = assemblies[u]
      /\ frames' = frames \/ frames' = Append(frames, FrameOf(t))
  BY FinalizesFacts DEF Finalizes, Without
<1>4. DOMAIN frames = 1 .. Len(frames) /\ Len(frames) \in Nat
  BY <1>1
<1>5. ASSUME NEW k \in DOMAIN frames'
      PROVE  \/ k \in DOMAIN frames /\ frames'[k] = frames[k]
             \/ /\ frames'[k] = FrameOf(t) /\ k = Len(frames) + 1
                /\ k \notin DOMAIN frames
  <2>1. CASE frames' = frames
    BY <2>1
  <2>2. CASE frames' = Append(frames, FrameOf(t))
    <3>1. DOMAIN frames' = 1 .. Len(frames) + 1
      BY <1>1, <2>2
    <3> QED BY <1>1, <1>4, <2>2, <3>1
  <2> QED BY <1>3, <2>1, <2>2
<1> QED BY <1>2, <1>3, <1>4, <1>5
-----------------------------------------------------------------------------
(***************************************************************************)
(* UsedOnce.  Inductive with: a packet of a frame under way is in no frame *)
(* made.  Frames under way at different timestamps have different packets, *)
(* because a packet is kept under its own timestamp.                       *)
(***************************************************************************)
Fresh ==
  copies = 0 =>
    \A t \in DOMAIN assemblies, k \in DOMAIN frames :
      InHand(t) \cap frames[k].data = {}

UsedInv == Fresh /\ UsedOnce

LEMMA UsedOnProcess ==
  ASSUME Types, UsedInv, NEW i \in Packet, ProcessPacket(i)
  PROVE  UsedInv'
<1>1. /\ frames' = frames /\ Delivers(i)
      /\ \A k \in DOMAIN frames : frames[k].data \subseteq delivered
  BY TypesParts DEF ProcessPacket
<1>2. copies' = 0 => copies = 0 /\ i \notin delivered
  <2>1. copies \in 0 .. MaxCopies /\ MaxCopies \in Nat
    BY TypesParts, DecoderAssumption
  <2> QED BY <1>1, <2>1 DEF Delivers
<1>3. UsedOnce'
  BY <1>1, <1>2 DEF UsedInv, UsedOnce
<1>4. ASSUME copies' = 0, NEW t \in DOMAIN assemblies', NEW k \in DOMAIN frames'
      PROVE  InHand(t)' \cap frames'[k].data = {}
  <2> SUFFICES ASSUME NEW s \in DOMAIN assemblies'[t].packets,
                      assemblies'[t].packets[s] \in frames[k].data
               PROVE  FALSE
    BY <1>1 DEF InHand
  <2>1. CASE t = stream[i].ts
    <3>1. \/ assemblies'[t].packets[s] = i
          \/ /\ t \in DOMAIN assemblies /\ s \in DOMAIN assemblies[t].packets
             /\ assemblies'[t].packets[s] = assemblies[t].packets[s]
      BY <2>1, ProcessFacts
    <3> QED BY <1>1, <1>2, <1>4, <3>1 DEF UsedInv, Fresh, InHand
  <2>2. CASE t # stream[i].ts
    <3>1. t \in DOMAIN assemblies /\ assemblies'[t] = assemblies[t]
      BY <2>2, ProcessFacts
    <3> QED BY <1>1, <1>2, <1>4, <3>1 DEF UsedInv, Fresh, InHand
  <2> QED BY <2>1, <2>2
<1> QED BY <1>3, <1>4 DEF UsedInv, Fresh

LEMMA UsedOnFinalize ==
  ASSUME Types, UsedInv, NEW t \in DOMAIN assemblies, Finalizes(t),
         UNCHANGED <<stream, delivered, copies, currentSSRC>>
  PROVE  UsedInv'
<1>1. /\ DOMAIN assemblies' = DOMAIN assemblies \ {t}
      /\ \A u \in DOMAIN assemblies' : assemblies'[u] = assemblies[u]
      /\ FrameOf(t).data \subseteq InHand(t)
      /\ \A k \in DOMAIN frames' :
           \/ k \in DOMAIN frames /\ frames'[k] = frames[k]
           \/ /\ frames'[k] = FrameOf(t) /\ k = Len(frames) + 1
              /\ k \notin DOMAIN frames
  BY FinalizesOneFacts
<1>2. ASSUME NEW u \in DOMAIN assemblies' PROVE InHand(u)' = InHand(u)
  BY <1>1 DEF InHand
<1>3. ASSUME NEW u \in DOMAIN assemblies \ {t} PROVE InHand(u) \cap InHand(t) = {}
  <2>1. UnderWay(u) /\ UnderWay(t)
    BY TypesParts
  <2> QED BY <2>1 DEF UnderWay, InHand
<1>4. SUFFICES ASSUME copies = 0 PROVE UsedInv'
  BY DEF UsedInv, Fresh, UsedOnce
<1>5. /\ \A u \in DOMAIN assemblies, k \in DOMAIN frames :
           InHand(u) \cap frames[k].data = {}
      /\ \A k, l \in DOMAIN frames :
           k # l => frames[k].data \cap frames[l].data = {}
  BY <1>4 DEF UsedInv, Fresh, UsedOnce
<1>6. \A u \in DOMAIN assemblies', k \in DOMAIN frames' :
        InHand(u)' \cap frames'[k].data = {}
  BY <1>1, <1>2, <1>3, <1>5
<1>7. \A k, l \in DOMAIN frames' :
        k # l => frames'[k].data \cap frames'[l].data = {}
  BY <1>1, <1>5
<1> QED BY <1>6, <1>7 DEF UsedInv, Fresh, UsedOnce

\* No packet is put into two frames, whatever the order of arrival, of the
\* walk over the frames and of calls to Reset.
THEOREM DecoderUsesOnce == Spec => []UsedOnce
<1>1. Init => UsedInv
  BY DEF Init, NoAssemblies, UsedInv, Fresh, UsedOnce
<1>2. Types /\ UsedInv /\ [Next]_vars => UsedInv'
  <2> SUFFICES ASSUME Types, UsedInv, [Next]_vars PROVE UsedInv'
    OBVIOUS
  <2>1. CASE \E i \in Packet : ProcessPacket(i)
    BY <2>1, UsedOnProcess
  <2>2. CASE FinalizesOne
    BY <2>2, UsedOnFinalize DEF FinalizesOne
  <2>3. CASE Rests
    <3>1. \A t \in DOMAIN assemblies' :
            t \in DOMAIN assemblies /\ InHand(t)' = InHand(t)
      BY <2>3 DEF Rests, NoAssemblies, InHand
    <3> QED BY <2>3, <3>1 DEF Rests, UsedInv, Fresh, UsedOnce
  <2> QED BY <2>1, <2>2, <2>3, StepKinds
<1>3. UsedInv => UsedOnce
  BY DEF UsedInv
<1> QED BY <1>1, <1>2, <1>3, Invariance, PTL DEF Spec
-----------------------------------------------------------------------------
(***************************************************************************)
(* CorruptionIsMarked.  Of a frame under way the flag `loss' is set when   *)
(* some packet that joined it left a gap; the inductive invariant is that  *)
(* a frame without the flag has no gap now, for checkFramePacketLoss looks *)
(* at all its packets anew with each one that joins.  The rest is about    *)
(* finalizeFrame: on one sender's packets the order of the numbers is the  *)
(* order in the stream, and a scan of fragments that meets neither a       *)
(* fragment without a beginning nor a beginning without an end has met     *)
(* whole NAL units only.                                                   *)
(***************************************************************************)
GapsFlagged ==
  \A t \in DOMAIN assemblies :
    ~assemblies[t].loss => ~HasLoss(assemblies[t].packets)

\* A set of natural numbers that is not empty has a least element.
LEMMA LeastOf ==
  ASSUME NEW T, T \subseteq Nat, T # {}
  PROVE  \E x \in T : \A y \in T : x <= y
<1> DEFINE Upto == {0 .. x : x \in T}
           R    == StrictSubsetOrdering(Nat)
<1>1. Upto \subseteq FiniteSubsetsOf(Nat) /\ Upto # {}
  <2>1. ASSUME NEW x \in T PROVE 0 .. x \in FiniteSubsetsOf(Nat)
    <3>1. x \in Int /\ 0 \in Int
      OBVIOUS
    <3>2. IsFiniteSet(0 .. x)
      BY <3>1, FS_Interval
    <3>3. 0 .. x \in SUBSET Nat
      OBVIOUS
    <3> QED BY <3>2, <3>3 DEF FiniteSubsetsOf
  <2> QED BY <2>1
<1>2. IsWellFoundedOn(R, FiniteSubsetsOf(Nat))
  BY FS_StrictSubsetOrderingWellFounded
<1> HIDE DEF Upto, R
<1>3. PICK I \in Upto : \A J \in Upto : ~(<<J, I>> \in R)
  BY <1>1, <1>2, WFMin
<1>4. PICK x \in T : I = 0 .. x
  BY <1>3 DEF Upto
<1>5. ASSUME NEW y \in T, y < x PROVE FALSE
  <2>1. 0 .. y \in Upto
    BY DEF Upto
  <2>2. /\ 0 .. y \subseteq 0 .. x /\ x \notin 0 .. y /\ x \in 0 .. x
        /\ 0 .. y \in SUBSET Nat /\ 0 .. x \in SUBSET Nat
    BY <1>5
  <2>3. <<0 .. y, 0 .. x>> \in R
    BY <2>2 DEF R, StrictSubsetOrdering
  <2> QED BY <1>3, <1>4, <2>1, <2>3
<1>6. \A y \in T : x <= y
  BY <1>5
<1> QED BY <1>6

\* Less than half a circle on from r: the order and the distance are those of
\* the plain numbers.
LEMMA HalfTurn ==
  ASSUME NEW r \in Seqno, NEW d \in Nat, 0 < d, d < Half
  PROVE  /\ Before(r, Advance(r, d)) /\ ~Before(Advance(r, d), r)
         /\ sequenceDiff(Advance(r, 1), Advance(r, d)) = d - 1
<1>1. Half \in Nat /\ M = Half + Half /\ M \in Nat
  BY MAssumption DEF Half
<1> DEFINE s == Advance(r, d)
<1>2. s = IF r + d >= M THEN r + d - M ELSE r + d
  BY DEF Advance
<1>3. r \in 0 .. M - 1
  BY DEF Seqno
<1> HIDE DEF s
<1>4. sequenceDiff(r, s) = d /\ sequenceDiff(s, r) = M - d /\ r # s
  BY <1>1, <1>2, <1>3 DEF sequenceDiff
<1>5. Before(r, s) /\ ~Before(s, r)
  BY <1>1, <1>4 DEF Before, sequenceBefore
<1>6. sequenceDiff(Advance(r, 1), s) = d - 1
  BY <1>1, <1>2, <1>3 DEF sequenceDiff, Advance
<1> QED BY <1>5, <1>6 DEF s

\* What a frame under way holds of the stream.
LEMMA InFrame ==
  ASSUME Types, OwnStream, NEW t \in DOMAIN assemblies,
         NEW s \in DOMAIN assemblies[t].packets
  PROVE  LET i == assemblies[t].packets[s]
         IN  /\ i \in Packet /\ i \in Nat /\ i \in delivered
             /\ s \in Seqno /\ stream[i].seq = s /\ stream[i].ts = t
             /\ stream[i].ssrc = currentSSRC
<1>1. UnderWay(t) /\ stream \in Streams /\ delivered \subseteq Packet
  BY TypesParts
<1>2. assemblies[t].packets[s] \in delivered
      /\ stream[assemblies[t].packets[s]].seq = s
      /\ stream[assemblies[t].packets[s]].ts = t
  BY <1>1 DEF UnderWay
<1>3. assemblies[t].packets[s] \in Own
  BY DEF OwnStream
<1> QED BY <1>1, <1>2, <1>3, StreamFacts DEF Own

\* The order of the numbers within a frame is the order in the stream.
LEMMA OrderInFrame ==
  ASSUME Types, OwnStream, NEW t \in DOMAIN assemblies,
         NEW r \in DOMAIN assemblies[t].packets,
         NEW s \in DOMAIN assemblies[t].packets
  PROVE  LET i == assemblies[t].packets[r]
             j == assemblies[t].packets[s]
         IN  /\ Before(r, s) <=> i < j
             /\ i < j => sequenceDiff(Advance(r, 1), s) = j - i - 1
             /\ i = j => r = s
<1> DEFINE i == assemblies[t].packets[r]
           j == assemblies[t].packets[s]
<1>1. /\ i \in Packet /\ i \in Nat /\ r \in Seqno /\ stream[i].seq = r
      /\ j \in Packet /\ j \in Nat /\ s \in Seqno /\ stream[j].seq = s
      /\ stream[i].ssrc = stream[j].ssrc
  BY InFrame
<1>2. stream \in Streams /\ Packet = 1 .. Len(stream) /\ Len(stream) \in Nat
  BY TypesParts, StreamFacts
<1>3. /\ Len(stream) < Half
      /\ \A a, b \in Packet : a < b /\ stream[a].ssrc = stream[b].ssrc =>
           stream[b].seq = Advance(stream[a].seq, b - a)
  BY <1>2, DecoderAssumption DEF StreamOK, Packet
<1>4. Half \in Nat
  BY MAssumption DEF Half
<1> HIDE DEF i, j
<1>5. ASSUME i < j
      PROVE  /\ Before(r, s) /\ sequenceDiff(Advance(r, 1), s) = j - i - 1
  <2>1. s = Advance(r, j - i)
    BY <1>1, <1>3, <1>5
  <2>2. j - i \in Nat /\ 0 < j - i /\ j - i < Half
    BY <1>1, <1>2, <1>3, <1>4, <1>5
  <2> QED BY <1>1, <2>1, <2>2, HalfTurn
<1>6. ASSUME j < i PROVE ~Before(r, s)
  <2>1. r = Advance(s, i - j)
    BY <1>1, <1>3, <1>6
  <2>2. i - j \in Nat /\ 0 < i - j /\ i - j < Half
    BY <1>1, <1>2, <1>3, <1>4, <1>6
  <2> QED BY <1>1, <2>1, <2>2, HalfTurn
<1>7. i = j => r = s
  BY <1>1
<1>8. r = s => ~Before(r, s)
  BY DEF Before
<1>9. Before(r, s) <=> i < j
  BY <1>1, <1>5, <1>6, <1>7, <1>8
<1> QED BY <1>5, <1>7, <1>9 DEF i, j

\* The properties of a frame that is not marked, of the data that make it.
Complete(data) ==
  /\ \A i, j \in data :
       i < j /\ (\A h \in data : h <= i \/ h >= j) =>
         j = i + 1 \/ j - i > LossLimit
  /\ \A i \in data :
       /\ stream[i].part \in {"middle", "end"} =>
            \E b \in data : b < i /\ stream[b].part = "start"
       /\ stream[i].part \in {"middle", "start"} =>
            \E e \in data : e > i /\ stream[e].part = "end"

\* The fields of the frame made, as finalizeFrame computes them.
LEMMA FrameFields ==
  ASSUME NEW t
  PROVE  /\ FrameOf(t).data =
              {assemblies[t].packets[s] : s \in Kept(assemblies[t].packets)}
         /\ FrameOf(t).corrupted =
              (assemblies[t].loss \/ Torn(assemblies[t].packets))
         /\ Kept(assemblies[t].packets) \subseteq DOMAIN assemblies[t].packets
<1>1. FrameOf(t).data =
        {assemblies[t].packets[s] : s \in Kept(assemblies[t].packets)}
  BY Zenon DEF FrameOf
<1>2. FrameOf(t).corrupted = (assemblies[t].loss \/ Torn(assemblies[t].packets))
  BY Zenon DEF FrameOf
<1>3. Kept(assemblies[t].packets) \subseteq DOMAIN assemblies[t].packets
  BY Zenon DEF Kept
<1> QED BY <1>1, <1>2, <1>3

LEMMA PartType ==
  ASSUME stream \in Streams, NEW i \in Packet PROVE stream[i].part \in Part
<1> DEFINE R == [seq : Seqno, ts : Nat \ {0}, ssrc : Nat \ {0}, marker : BOOLEAN,
                 part : Part, nals : SUBSET Nal]
<1>1. stream \in Seq(R)
  BY DecoderAssumption DEF StreamOK
<1>2. stream[i] \in R
  <2> HIDE DEF R
  <2> QED BY <1>1, StreamFacts, ElementOfSeq
<1> QED BY <1>2

\* In a frame that is not torn a fragmented NAL unit is ended.
LEMMA EndFollows ==
  ASSUME Types, OwnStream, NEW t \in DOMAIN assemblies,
         ~Torn(assemblies[t].packets),
         NEW b \in DOMAIN assemblies[t].packets,
         PartOf(assemblies[t].packets, b) = "start"
  PROVE  \E u \in DOMAIN assemblies[t].packets :
           /\ Before(b, u) /\ PartOf(assemblies[t].packets, u) = "end"
           /\ \A w \in Between(DOMAIN assemblies[t].packets, b, u) :
                PartOf(assemblies[t].packets, w) \in {"middle", "stap"}
<1> DEFINE P == assemblies[t].packets
           D == DOMAIN P
           Stops == {u \in D : Before(b, u) /\ PartOf(P, u) \notin {"middle", "stap"}}
           Places == {P[u] : u \in Stops}
<1>1. \A r, s \in D : /\ P[r] \in Nat /\ (Before(r, s) <=> P[r] < P[s])
                      /\ P[r] \in Packet
  BY InFrame, OrderInFrame
<1>2. \A s \in D : PartOf(P, s) \in {"whole", "start"} => ~Open(P, s)
  BY Zenon DEF Torn
<1>3. \E u \in D : Before(b, u) /\ PartOf(P, u) \notin {"middle", "stap"}
  BY Zenon DEF Torn
<1>4. \A s \in D : PartOf(P, s) \in Part
  <2>1. stream \in Streams
    BY TypesParts
  <2> QED BY <1>1, <2>1, PartType DEF PartOf
<1>5. Places \subseteq Nat /\ Places # {}
  BY <1>1, <1>3
<1>6. PICK x \in Places : \A y \in Places : x <= y
  <2> HIDE DEF Places
  <2> QED BY <1>5, LeastOf
<1>7. PICK u \in Stops : x = P[u]
  BY <1>6
<1>8. u \in D /\ Before(b, u) /\ PartOf(P, u) \notin {"middle", "stap"}
  BY <1>7
<1>9. ASSUME NEW w \in Between(D, b, u)
      PROVE  PartOf(P, w) \in {"middle", "stap"}
  <2>1. w \in D /\ Before(b, w) /\ Before(w, u)
    BY DEF Between
  <2>2. P[w] < P[u] /\ P[w] \in Nat /\ P[u] \in Nat
    BY <1>1, <1>8, <2>1
  <2>3. SUFFICES ASSUME PartOf(P, w) \notin {"middle", "stap"} PROVE FALSE
    OBVIOUS
  <2>4. P[w] \in Places
    BY <2>1, <2>3
  <2>5. P[u] <= P[w]
    BY <1>6, <1>7, <2>4
  <2> HIDE DEF P, D
  <2> QED BY <2>2, <2>5
<1>10. Open(P, u)
  BY <1>8, <1>9 DEF Open
<1>11. PartOf(P, u) = "end"
  BY <1>2, <1>4, <1>8, <1>10 DEF Part
<1> QED BY <1>8, <1>9, <1>11

\* A frame that finalizeFrame does not mark is complete.
LEMMA UnmarkedIsComplete ==
  ASSUME Types, OwnStream, GapsFlagged, NEW t \in DOMAIN assemblies,
         ~FrameOf(t).corrupted
  PROVE  Complete(FrameOf(t).data)
<1> DEFINE P == assemblies[t].packets
           D == DOMAIN P
<1>1. ~assemblies[t].loss /\ ~Torn(P)
  BY FrameFields, Zenon
<1>2. ~HasLoss(P)
  BY <1>1 DEF GapsFlagged
<1>3. Kept(P) = D
  BY <1>1, Zenon DEF Torn
<1>4. FrameOf(t).data = {P[s] : s \in D}
  BY <1>3, FrameFields
<1>5. \A r, s \in D : /\ P[r] \in Nat /\ P[r] \in Packet
                      /\ (Before(r, s) <=> P[r] < P[s])
                      /\ P[r] < P[s] => sequenceDiff(Advance(r, 1), s) = P[s] - P[r] - 1
                      /\ P[r] = P[s] => r = s
  BY InFrame, OrderInFrame
<1>6. ASSUME NEW i \in FrameOf(t).data, NEW j \in FrameOf(t).data, i < j,
             \A h \in FrameOf(t).data : h <= i \/ h >= j
      PROVE  j = i + 1 \/ j - i > LossLimit
  <2>1. PICK r \in D : i = P[r]
    BY <1>4
  <2>2. PICK s \in D : j = P[s]
    BY <1>4
  <2>3. Before(r, s) /\ sequenceDiff(Advance(r, 1), s) = j - i - 1
        /\ i \in Nat /\ j \in Nat
    BY <1>5, <1>6, <2>1, <2>2
  <2>4. Between(D, r, s) = {}
    <3> SUFFICES ASSUME NEW u \in D, Before(r, u), Before(u, s) PROVE FALSE
      BY DEF Between
    <3>1. P[u] \in FrameOf(t).data /\ P[u] \in Nat /\ i < P[u] /\ P[u] < j
      BY <1>4, <1>5, <2>1, <2>2
    <3> HIDE DEF P, D
    <3> QED BY <1>6, <2>3, <3>1
  <2>5. ~IsLoss(Advance(r, 1), s)
    BY <1>2, <2>3, <2>4 DEF HasLoss
  <2>6. LossLimit \in Nat
    <3>1. LossLimit \in 1 .. Half /\ Half \in Nat
      BY DecoderAssumption, MAssumption DEF Half
    <3> QED BY <3>1
  <2> QED BY <1>6, <2>3, <2>5, <2>6 DEF IsLoss
<1>7. ASSUME NEW s \in D, Open(P, s)
      PROVE  \E b \in D : /\ PartOf(P, b) = "start" /\ Before(b, s)
                          /\ \A w \in Between(D, b, s) :
                               PartOf(P, w) \in {"middle", "stap"}
  BY <1>7 DEF Open
<1>8. ASSUME NEW s \in D, PartOf(P, s) \in {"middle", "end"}
      PROVE  Open(P, s)
  <2>1. s \in Kept(P)
    BY <1>3
  <2> QED BY <1>8, <2>1 DEF Kept, Headed
<1>9. ASSUME NEW i \in FrameOf(t).data, stream[i].part \in {"middle", "end"}
      PROVE  \E b \in FrameOf(t).data : b < i /\ stream[b].part = "start"
  <2>1. PICK s \in D : i = P[s]
    BY <1>4
  <2>2. PartOf(P, s) \in {"middle", "end"}
    BY <1>9, <2>1 DEF PartOf
  <2>3. PICK b \in D : PartOf(P, b) = "start" /\ Before(b, s)
    BY <1>7, <1>8, <2>2
  <2>4. P[b] \in FrameOf(t).data /\ P[b] < i /\ stream[P[b]].part = "start"
    BY <1>4, <1>5, <2>1, <2>3 DEF PartOf
  <2> QED BY <2>4
<1>10. ASSUME NEW i \in FrameOf(t).data, stream[i].part \in {"middle", "start"}
       PROVE  \E e \in FrameOf(t).data : e > i /\ stream[e].part = "end"
  <2>1. PICK s \in D : i = P[s]
    BY <1>4
  <2>2. CASE stream[i].part = "start"
    <3>1. PartOf(P, s) = "start"
      BY <2>1, <2>2 DEF PartOf
    <3>2. PICK u \in D : Before(s, u) /\ PartOf(P, u) = "end"
      BY <1>1, <3>1, EndFollows
    <3>3. P[u] \in FrameOf(t).data /\ P[u] > i /\ stream[P[u]].part = "end"
      BY <1>4, <1>5, <2>1, <3>2 DEF PartOf
    <3> QED BY <3>3
  <2>3. CASE stream[i].part = "middle"
    <3>1. PartOf(P, s) = "middle"
      BY <2>1, <2>3 DEF PartOf
    <3>2. PICK b \in D : /\ PartOf(P, b) = "start" /\ Before(b, s)
                         /\ \A w \in Between(D, b, s) :
                              PartOf(P, w) \in {"middle", "stap"}
      BY <1>7, <1>8, <3>1
    <3>3. PICK u \in D : /\ Before(b, u) /\ PartOf(P, u) = "end"
                         /\ \A w \in Between(D, b, u) :
                              PartOf(P, w) \in {"middle", "stap"}
      BY <1>1, <3>2, EndFollows
    <3>4. P[u] # P[s]
      BY <1>5, <3>1, <3>3
    <3>5. ~(P[u] < P[s])
      <4> SUFFICES ASSUME P[u] < P[s] PROVE FALSE
        OBVIOUS
      <4>1. u \in Between(D, b, s)
        BY <1>5, <3>3 DEF Between
      <4> QED BY <3>2, <3>3, <4>1
    <3>6. P[u] > i /\ P[u] \in FrameOf(t).data /\ stream[P[u]].part = "end"
      BY <1>4, <1>5, <2>1, <3>3, <3>4, <3>5 DEF PartOf
    <3> QED BY <3>6
  <2> QED BY <1>10, <2>2, <2>3
<1> QED BY <1>6, <1>9, <1>10 DEF Complete

\* A packet that joins a frame has the flag set if the frame has a gap then.
LEMMA FlagOnProcess ==
  ASSUME Types, GapsFlagged, NEW i \in Packet, ProcessPacket(i)
  PROVE  GapsFlagged'
<1> DEFINE held == IF Changed(stream[i]) THEN NoAssemblies ELSE assemblies
           new  == Joined(held, i)
<1>1. assemblies' = With(held, stream[i].ts, new)
  BY DEF ProcessPacket
<1>2. HasLoss(new.packets) => new.loss
  BY Zenon DEF Joined
<1>3. assemblies'[stream[i].ts] = new
  <2> HIDE DEF held, new
  <2> QED BY <1>1 DEF With
<1>4. ASSUME NEW t \in DOMAIN assemblies', ~assemblies'[t].loss
      PROVE  ~HasLoss(assemblies'[t].packets)
  <2>1. CASE t = stream[i].ts
    <3> HIDE DEF new
    <3> QED BY <1>2, <1>3, <1>4, <2>1, Zenon
  <2>2. CASE t # stream[i].ts
    <3>1. t \in DOMAIN assemblies /\ assemblies'[t] = assemblies[t]
      BY <2>2, ProcessFacts
    <3> QED BY <1>4, <3>1, Zenon DEF GapsFlagged
  <2> QED BY <2>1, <2>2
<1>5. \A t \in DOMAIN assemblies' :
        ~assemblies'[t].loss => ~HasLoss(assemblies'[t].packets)
  BY <1>4
<1> QED BY <1>5 DEF GapsFlagged, HasLoss, Between, Before, IsLoss, sequenceBefore

\* The frames made that are not marked are complete.
Unmarked == \A k \in DOMAIN frames : ~frames[k].corrupted => Complete(frames[k].data)

\* A frame not marked corrupted has no short gap and no torn NAL unit,
\* whatever was lost, repeated or reordered.
THEOREM DecoderMarksCorruption == Spec => []CorruptionIsMarked
<1>1. Init => GapsFlagged /\ Unmarked
  BY DEF Init, NoAssemblies, GapsFlagged, Unmarked
<1>2. Types /\ OwnStream /\ GapsFlagged /\ Unmarked /\ [Next]_vars
        => GapsFlagged' /\ Unmarked'
  <2> SUFFICES ASSUME Types, OwnStream, GapsFlagged, Unmarked, [Next]_vars
               PROVE  GapsFlagged' /\ Unmarked'
    OBVIOUS
  <2>1. CASE \E i \in Packet : ProcessPacket(i)
    <3>1. UNCHANGED <<stream, frames>>
      BY <2>1 DEF ProcessPacket, Delivers
    <3> QED BY <2>1, <3>1, FlagOnProcess DEF Unmarked, Complete
  <2>2. CASE FinalizesOne
    <3>1. PICK t \in DOMAIN assemblies :
            Finalizes(t) /\ UNCHANGED <<stream, delivered, copies, currentSSRC>>
      BY <2>2 DEF FinalizesOne
    <3>2. /\ \A u \in DOMAIN assemblies' :
               u \in DOMAIN assemblies /\ assemblies'[u] = assemblies[u]
          /\ \A k \in DOMAIN frames' :
               \/ k \in DOMAIN frames /\ frames'[k] = frames[k]
               \/ frames'[k] = FrameOf(t)
      BY <3>1, FinalizesOneFacts
    <3>3. GapsFlagged'
      BY <3>2 DEF GapsFlagged
    <3>4. ASSUME NEW k \in DOMAIN frames', ~frames'[k].corrupted
          PROVE  Complete(frames'[k].data)
      <4>1. CASE k \in DOMAIN frames /\ frames'[k] = frames[k]
        BY <3>4, <4>1, Zenon DEF Unmarked
      <4>2. CASE frames'[k] = FrameOf(t)
        BY <3>4, <4>2, UnmarkedIsComplete
      <4> QED BY <3>2, <4>1, <4>2
    <3>5. Unmarked'
      BY <3>1, <3>4 DEF Unmarked, Complete
    <3> QED BY <3>3, <3>5
  <2>3. CASE Rests
    <3>1. \A t \in DOMAIN assemblies' :
            t \in DOMAIN assemblies /\ assemblies'[t] = assemblies[t]
      BY <2>3 DEF Rests, NoAssemblies
    <3>2. UNCHANGED <<stream, frames>>
      BY <2>3 DEF Rests
    <3> QED BY <3>1, <3>2 DEF GapsFlagged, Unmarked, Complete
  <2> QED BY <2>1, <2>2, <2>3, StepKinds
<1>3. Unmarked => CorruptionIsMarked
  BY Zenon DEF Unmarked, Complete, CorruptionIsMarked
<1> QED BY <1>1, <1>2, <1>3, Invariance, PTL DEF Spec
-----------------------------------------------------------------------------
(***************************************************************************)
(* KeyFramesCarryParameters.  The property relates two frames; what the    *)
(* decoder remembers between them is the cache.  Inductive with: the cache *)
(* holds packets with the parameter sets it is for, and, with one sender,  *)
(* both of them once some frame carried both.                              *)
(***************************************************************************)
HasNal(i, nal) == stream[i].part \in Headed /\ nal \in stream[i].nals

Carries(frame) ==
  \A nal \in {"sps", "pps"} :
    \E i \in frame.data \cup frame.prepended : HasNal(i, nal)

OneSender == \A i, j \in delivered : stream[i].ssrc = stream[j].ssrc

CacheHolds ==
  /\ sps # None => HasNal(sps, "sps")
  /\ pps # None => HasNal(pps, "pps")
  /\ currentSSRC # None => \E i \in delivered : stream[i].ssrc = currentSSRC

Remembered ==
  OneSender /\ (\E k \in DOMAIN frames : Carries(frames[k])) =>
    sps # None /\ pps # None

KeysCarry ==
  OneSender =>
    \A k, l \in DOMAIN frames :
      k < l /\ Carries(frames[k]) /\ frames[l].key => Carries(frames[l])

ParameterInv == CacheHolds /\ Remembered /\ KeysCarry

\* Latest yields a packet of the frame that holds such a NAL unit, if any does.
LEMMA LatestHolds ==
  ASSUME NEW packets, NEW nal, NEW cached
  PROVE  \/ /\ Latest(packets, nal, cached) = cached
            /\ ~\E s \in DOMAIN packets : Holds(packets, s, nal)
         \/ \E s \in DOMAIN packets :
              Holds(packets, s, nal) /\ Latest(packets, nal, cached) = packets[s]
<1> DEFINE holding == {s \in DOMAIN packets : Holds(packets, s, nal)}
           last(s) == ~\E t \in holding : Before(s, t)
           good(s) == (\E u \in holding : last(u)) => last(s)
<1>1. CASE holding = {}
  BY <1>1 DEF Latest
<1>2. CASE holding # {}
  <2>1. \E s \in holding : good(s)
    BY <1>2, Zenon
  <2>2. (CHOOSE s \in holding : good(s)) \in holding
    <3> HIDE DEF holding, good
    <3> QED BY <2>1, Zenon
  <2>3. Latest(packets, nal, cached) = packets[CHOOSE s \in holding : good(s)]
    BY <1>2, Zenon DEF Latest
  <2> DEFINE chosen == CHOOSE s \in holding : good(s)
  <2>4. chosen \in DOMAIN packets /\ Holds(packets, chosen, nal)
    BY <2>2
  <2> HIDE DEF holding, good, chosen
  <2> QED BY <2>3, <2>4 DEF chosen
<1> QED BY <1>1, <1>2

\* The fields of the frame made that concern the parameter sets.
LEMMA KeyFields ==
  ASSUME NEW t
  PROVE  LET P == assemblies[t].packets
             has(nal) == \E s \in Kept(P) : Holds(P, s, nal)
             spsNow == Latest(P, "sps", sps)
             ppsNow == Latest(P, "pps", pps)
         IN  /\ FrameOf(t).key => has("idr")
             /\ (has("idr") /\ spsNow # None /\ ppsNow # None
                   /\ ~(has("sps") /\ has("pps")))
                  => FrameOf(t).prepended = {spsNow, ppsNow}
             /\ FrameOf(t).prepended # {} =>
                  /\ FrameOf(t).prepended = {spsNow, ppsNow}
                  /\ spsNow # None /\ ppsNow # None
BY Zenon DEF FrameOf

LEMMA ParametersOnFinalize ==
  ASSUME Types, OwnStream, ParameterInv, NEW t \in DOMAIN assemblies, Finalizes(t),
         UNCHANGED <<stream, delivered, copies, currentSSRC>>
  PROVE  ParameterInv'
<1> DEFINE P == assemblies[t].packets
           frame == FrameOf(t)
<1>1. sps' = Latest(P, "sps", sps) /\ pps' = Latest(P, "pps", pps)
  BY DEF Finalizes
<1>2. \A s \in DOMAIN P : P[s] \in Packet /\ P[s] # None
  <2>1. stream \in Streams
    BY TypesParts
  <2> QED BY <2>1, InFrame, StreamFacts DEF None
<1>3. \A s, nal : Holds(P, s, nal) <=> HasNal(P[s], nal)
  BY DEF Holds, PartOf, HasNal
<1>4. /\ \/ sps' = sps /\ ~\E s \in DOMAIN P : Holds(P, s, "sps")
         \/ HasNal(sps', "sps") /\ sps' # None
      /\ \/ pps' = pps /\ ~\E s \in DOMAIN P : Holds(P, s, "pps")
         \/ HasNal(pps', "pps") /\ pps' # None
  <2> HIDE DEF P
  <2>1. \/ sps' = sps /\ ~\E s \in DOMAIN P : Holds(P, s, "sps")
        \/ HasNal(sps', "sps") /\ sps' # None
    BY <1>1, <1>2, <1>3, LatestHolds
  <2>2. \/ pps' = pps /\ ~\E s \in DOMAIN P : Holds(P, s, "pps")
        \/ HasNal(pps', "pps") /\ pps' # None
    BY <1>1, <1>2, <1>3, LatestHolds
  <2> QED BY <2>1, <2>2
<1>5. CacheHolds'
  BY <1>4 DEF ParameterInv, CacheHolds, HasNal
<1>6. /\ frame.data = {P[s] : s \in Kept(P)} /\ Kept(P) \subseteq DOMAIN P
      /\ frame.key => \E s \in Kept(P) : Holds(P, s, "idr")
      /\ (\E s \in Kept(P) : Holds(P, s, "idr")) /\ sps' # None /\ pps' # None
           /\ ~((\E s \in Kept(P) : Holds(P, s, "sps"))
                  /\ (\E s \in Kept(P) : Holds(P, s, "pps")))
           => frame.prepended = {sps', pps'}
      /\ frame.prepended # {} =>
           frame.prepended = {sps', pps'} /\ sps' # None /\ pps' # None
  BY <1>1, FrameFields, KeyFields, Zenon
<1> HIDE DEF frame, P
<1>7. Carries(frame) => sps' # None /\ pps' # None
  <2> SUFFICES ASSUME Carries(frame) PROVE sps' # None /\ pps' # None
    OBVIOUS
  <2>1. CASE frame.prepended # {}
    BY <1>6, <2>1
  <2>2. CASE frame.prepended = {}
    <3>1. /\ \E s \in DOMAIN P : HasNal(P[s], "sps")
          /\ \E s \in DOMAIN P : HasNal(P[s], "pps")
      BY <1>6, <2>2 DEF Carries
    <3> QED BY <1>3, <1>4, <3>1
  <2> QED BY <2>1, <2>2
<1>8. frame.key /\ sps' # None /\ pps' # None => Carries(frame)
  <2> SUFFICES ASSUME frame.key, sps' # None, pps' # None PROVE Carries(frame)
    OBVIOUS
  <2>1. HasNal(sps', "sps") /\ HasNal(pps', "pps")
    BY <1>5 DEF CacheHolds, HasNal
  <2>2. CASE (\E s \in Kept(P) : Holds(P, s, "sps"))
               /\ (\E s \in Kept(P) : Holds(P, s, "pps"))
    BY <1>3, <1>6, <2>2 DEF Carries
  <2>3. CASE frame.prepended = {sps', pps'}
    BY <2>1, <2>3 DEF Carries
  <2> QED BY <1>6, <2>2, <2>3
<1>9. sps # None /\ pps # None => sps' # None /\ pps' # None
  BY <1>4
<1>10. /\ \A k \in DOMAIN frames' :
            \/ k \in DOMAIN frames /\ frames'[k] = frames[k]
            \/ frames'[k] = frame /\ k = Len(frames) + 1
       /\ DOMAIN frames = 1 .. Len(frames) /\ Len(frames) \in Nat
  BY FinalizesOneFacts DEF frame
<1>12. OneSender' <=> OneSender
  BY DEF OneSender
<1>13. \A k \in DOMAIN frames' : Carries(frames'[k]) =>
         (\/ k \in DOMAIN frames /\ Carries(frames[k])
          \/ k = Len(frames) + 1 /\ sps' # None /\ pps' # None)
  BY <1>7, <1>10
<1>14. Remembered'
  <2> SUFFICES ASSUME OneSender, NEW k \in DOMAIN frames', Carries(frames'[k])
               PROVE  sps' # None /\ pps' # None
    BY <1>12 DEF Remembered, Carries, HasNal
  <2> QED BY <1>9, <1>13 DEF ParameterInv, Remembered
<1>15. KeysCarry'
  <2> SUFFICES ASSUME OneSender, NEW k \in DOMAIN frames', NEW l \in DOMAIN frames',
                      k < l, Carries(frames'[k]), frames'[l].key
               PROVE  Carries(frames'[l])
    BY <1>12 DEF KeysCarry, Carries, HasNal
  <2>1. CASE l \in DOMAIN frames /\ frames'[l] = frames[l]
    <3>1. k \in DOMAIN frames /\ frames'[k] = frames[k]
      BY <1>10, <2>1
    <3> QED BY <2>1, <3>1 DEF ParameterInv, KeysCarry
  <2>2. CASE frames'[l] = frame /\ l = Len(frames) + 1
    <3>1. k \in DOMAIN frames /\ Carries(frames[k])
      BY <1>10, <1>13, <2>2
    <3>2. sps' # None /\ pps' # None
      BY <1>9, <3>1 DEF ParameterInv, Remembered
    <3> QED BY <1>8, <2>2, <3>2
  <2> QED BY <1>10, <2>1, <2>2
<1> QED BY <1>5, <1>14, <1>15 DEF ParameterInv

LEMMA ParametersOnProcess ==
  ASSUME Types, ParameterInv, NEW i \in Packet, ProcessPacket(i)
  PROVE  ParameterInv'
<1>1. /\ UNCHANGED <<stream, frames>> /\ delivered' = delivered \cup {i}
      /\ currentSSRC' = stream[i].ssrc
      /\ \/ sps' = None /\ pps' = None /\ Changed(stream[i])
         \/ sps' = sps /\ pps' = pps
  BY DEF ProcessPacket, Delivers, Forgets, cache
<1>2. CacheHolds'
  BY <1>1 DEF ParameterInv, CacheHolds, HasNal
<1>3. ASSUME OneSender' PROVE OneSender /\ sps' = sps /\ pps' = pps
  <2>1. OneSender
    BY <1>1, <1>3 DEF OneSender
  <2>2. ~Changed(stream[i])
    BY <1>1, <1>3 DEF OneSender, Changed, ParameterInv, CacheHolds
  <2> QED BY <1>1, <2>1, <2>2
<1>4. Remembered'
  BY <1>1, <1>3 DEF ParameterInv, Remembered, Carries, HasNal
<1>5. KeysCarry'
  BY <1>1, <1>3 DEF ParameterInv, KeysCarry, Carries, HasNal
<1> QED BY <1>2, <1>4, <1>5 DEF ParameterInv

\* With one sender every key frame after the parameter sets have come out once
\* carries both, its own or the cached ones.
THEOREM DecoderKeepsParameters == Spec => []KeyFramesCarryParameters
<1>1. Init => ParameterInv
  BY DEF Init, ParameterInv, CacheHolds, Remembered, KeysCarry, None
<1>2. Types /\ OwnStream /\ ParameterInv /\ [Next]_vars => ParameterInv'
  <2> SUFFICES ASSUME Types, OwnStream, ParameterInv, [Next]_vars
               PROVE  ParameterInv'
    OBVIOUS
  <2>1. CASE \E i \in Packet : ProcessPacket(i)
    BY <2>1, ParametersOnProcess
  <2>2. CASE FinalizesOne
    BY <2>2, ParametersOnFinalize DEF FinalizesOne
  <2>3. CASE Rests
    BY <2>3 DEF Rests, ParameterInv, CacheHolds, Remembered, KeysCarry, OneSender,
                Carries, HasNal
  <2> QED BY <2>1, <2>2, <2>3, StepKinds
<1>3. Types /\ ParameterInv => KeyFramesCarryParameters
  <2> SUFFICES ASSUME Types, ParameterInv,
                      Cardinality({stream[i].ssrc : i \in delivered}) = 1
               PROVE  OneSender
    BY Zenon DEF ParameterInv, KeysCarry, Carries, HasNal, KeyFramesCarryParameters
  <2> DEFINE senders == {stream[i].ssrc : i \in delivered}
  <2>1. IsFiniteSet(senders)
    <3>1. IsFiniteSet(delivered)
      BY TypesParts
    <3> DEFINE sender == [i \in delivered |-> stream[i].ssrc]
    <3>2. sender \in Surjection(delivered, senders)
      BY Zenon DEF Surjection
    <3> HIDE DEF senders, sender
    <3> QED BY <3>1, <3>2, FS_Surjection
  <2>2. \E c : senders = {c}
    <3> HIDE DEF senders
    <3>1. Cardinality(senders) = 1
      BY DEF senders
    <3> QED BY <2>1, <3>1, FS_Singleton
  <2> QED BY <2>2 DEF OneSender
<1> QED BY <1>1, <1>2, <1>3, Invariance, PTL DEF Spec
-----------------------------------------------------------------------------
(***************************************************************************)
(* LossEventsAreGaps, for senders that take turns: a sender that comes     *)
(* back is a change of SSRC for the decoder, which starts its sequence     *)
(* afresh and sees no loss.  While packets come in order, the decoder      *)
(* remembers of them the last.                                             *)
(***************************************************************************)
IsLast(i) ==
  /\ i \in delivered /\ \A j \in delivered : j <= i
  /\ currentSSRC = stream[i].ssrc
  /\ expectedSequence = Advance(stream[i].seq, 1)

Tracked ==
  orderly =>
    IF delivered = {} THEN ~sequenceInit /\ currentSSRC = None
    ELSE sequenceInit /\ \E i \in delivered : IsLast(i)

LEMMA TrackedOnProcess ==
  ASSUME Types, NEW i \in Packet, ProcessPacket(i)
  PROVE  Tracked'
<1>1. /\ stream' = stream /\ delivered' = delivered \cup {i}
      /\ currentSSRC' = stream[i].ssrc
      /\ expectedSequence' = Advance(stream[i].seq, 1)
      /\ orderly' = (orderly /\ \A j \in delivered : j < i)
  BY DEF ProcessPacket, Delivers, Forgets, TracksSequence
<1>2. sequenceInit'
  BY Zenon DEF ProcessPacket, TracksSequence
<1>3. i \in Nat /\ delivered \subseteq Nat
  BY TypesParts, StreamFacts
<1>4. orderly' => \A j \in delivered : j < i
  BY <1>1, Zenon
<1>5. orderly' => IsLast(i)'
  BY <1>1, <1>3, <1>4 DEF IsLast
<1>6. delivered' # {} /\ i \in delivered'
  BY <1>1
<1> QED BY <1>2, <1>5, <1>6, Zenon DEF Tracked

\* In order, and with senders that take turns, a loss is seen where a packet
\* of this sender is missing.
LEMMA LossSeen ==
  ASSUME \A s \in Streams : InTurn(s),
         Types, Tracked, NEW i \in Packet, ProcessPacket(i), orderly'
  PROVE  LET earlier == {j \in delivered : stream[j].ssrc = stream[i].ssrc}
         IN  lossDetected' <=> /\ earlier # {} /\ i - 1 \notin earlier
                               /\ \E j \in earlier : i - j <= LossLimit
<1> DEFINE earlier == {j \in delivered : stream[j].ssrc = stream[i].ssrc}
<1>1. orderly /\ \A j \in delivered : j < i
  BY Zenon DEF ProcessPacket, Delivers
<1>2. lossDetected' <=> /\ sequenceInit /\ ~Changed(stream[i])
                        /\ IsLoss(expectedSequence, stream[i].seq)
  BY Zenon DEF ProcessPacket, TracksSequence
<1>3. /\ stream \in Streams /\ delivered \subseteq Packet /\ Packet = 1 .. Len(stream)
      /\ Len(stream) \in Nat /\ InTurn(stream)
      /\ \A j \in Packet : stream[j].ssrc # None /\ stream[j].seq \in Seqno
  BY TypesParts, StreamFacts DEF None
<1>4. CASE delivered = {}
  <2>1. ~sequenceInit
    BY <1>1, <1>4, Zenon DEF Tracked
  <2> QED BY <1>2, <1>4, <2>1
<1>5. CASE delivered # {}
  <2>1. sequenceInit /\ \E l \in delivered : IsLast(l)
    BY <1>1, <1>5, Zenon DEF Tracked
  <2>2. PICK l \in delivered : IsLast(l)
    BY <2>1
  <2>3. /\ l \in Packet /\ l < i /\ \A j \in delivered : j <= l
        /\ currentSSRC = stream[l].ssrc
        /\ expectedSequence = Advance(stream[l].seq, 1)
    BY <1>1, <1>3, <2>2 DEF IsLast
  <2>4. CASE stream[l].ssrc # stream[i].ssrc
    <3>1. Changed(stream[i])
      BY <1>3, <2>3, <2>4 DEF Changed
    <3>2. earlier = {}
      <4> SUFFICES ASSUME NEW j \in delivered, stream[j].ssrc = stream[i].ssrc
                   PROVE  FALSE
        OBVIOUS
      <4>1. j < l
        BY <1>3, <2>3, <2>4
      <4> QED BY <1>3, <2>3, <2>4, <4>1 DEF InTurn, Packet
    <3> QED BY <1>2, <3>1, <3>2
  <2>5. CASE stream[l].ssrc = stream[i].ssrc
    <3>1. ~Changed(stream[i])
      BY <2>3, <2>5 DEF Changed
    <3>2. /\ Len(stream) < Half
          /\ stream[i].seq = Advance(stream[l].seq, i - l)
      BY <1>3, <2>3, <2>5, DecoderAssumption DEF StreamOK, Packet
    <3>3. Half \in Nat /\ LossLimit \in Nat
      <4>1. Half \in Nat /\ LossLimit \in 1 .. Half
        BY DecoderAssumption, MAssumption DEF Half
      <4> QED BY <4>1
    <3>4. i - l \in Nat /\ 0 < i - l /\ i - l < Half /\ i \in Nat /\ l \in Nat
      BY <1>3, <2>3, <3>2, <3>3
    <3>5. sequenceDiff(expectedSequence, stream[i].seq) = i - l - 1
      BY <1>3, <2>3, <3>2, <3>4, HalfTurn
    <3>6. lossDetected' <=> 0 < i - l - 1 /\ i - l - 1 < LossLimit
      <4>1. IsLoss(expectedSequence, stream[i].seq)
              <=> 0 < i - l - 1 /\ i - l - 1 < LossLimit
        BY <3>4, <3>5 DEF IsLoss
      <4> QED BY <1>2, <2>1, <3>1, <4>1, Zenon
    <3>7. l \in earlier /\ \A j \in earlier : j \in Nat /\ j <= l
      BY <1>3, <2>3, <2>5
    <3> HIDE DEF earlier
    <3>8. i - 1 \in earlier <=> i - l - 1 = 0
      <4>1. i - 1 \in earlier => i - 1 <= l
        BY <3>7
      <4>2. i - l - 1 = 0 => i - 1 = l
        BY <3>4
      <4> QED BY <2>3, <3>4, <3>7, <4>1, <4>2
    <3>9. (\E j \in earlier : i - j <= LossLimit) <=> i - l <= LossLimit
      BY <3>3, <3>4, <3>7
    <3>10. (0 < i - l - 1 /\ i - l - 1 < LossLimit)
             <=> (i - l - 1 # 0 /\ i - l <= LossLimit)
      BY <3>3, <3>4
    <3> QED BY <3>6, <3>7, <3>8, <3>9, <3>10, Zenon DEF earlier
  <2> QED BY <2>4, <2>5
<1> QED BY <1>4, <1>5

\* While packets come in order, a loss is reported exactly when 1 to
\* LossLimit - 1 packets of this sender are missing in front of one; a gap of
\* exactly LossLimit is not reported (h264.go:558).
THEOREM DecoderSeesLoss ==
  ASSUME \A s \in Streams : InTurn(s) PROVE Spec => LossEventsAreGaps
<1>1. Init => Tracked
  BY Zenon DEF Init, Tracked
<1>2. Types /\ Tracked /\ [Next]_vars => Tracked'
  <2> SUFFICES ASSUME Types, Tracked, [Next]_vars PROVE Tracked'
    OBVIOUS
  <2>1. CASE \E i \in Packet : ProcessPacket(i)
    BY <2>1, TrackedOnProcess
  <2>2. CASE UNCHANGED <<network, tracking>>
    BY <2>2 DEF network, tracking, Tracked, IsLast
  <2>3. CASE \E i \in DOMAIN stream : ProcessPacket(i)
    BY <2>1, <2>3 DEF Packet
  <2> QED BY <2>2, <2>3 DEF Next, FinalizesOld, FinalizesCurrent,
             SetDropCorruptedFrames, Reset, Elapse, vars
<1>3. Types /\ Tracked /\ [Next]_vars =>
        [ \A i \in Packet :
            (ProcessPacket(i) /\ orderly') =>
              LET earlier == {j \in delivered : stream[j].ssrc = stream[i].ssrc}
              IN  lossDetected' <=> /\ earlier # {} /\ i - 1 \notin earlier
                                    /\ \E j \in earlier : i - j <= LossLimit ]_vars
  BY LossSeen, Zenon
<1> QED BY <1>1, <1>2, <1>3, Invariance, PTL DEF Spec, LossEventsAreGaps
-----------------------------------------------------------------------------
(***************************************************************************)
(* FramesIntact, for streams that are well sent.  While nothing disturbs   *)
(* the stream its first `newest' packets have come, and:                   *)
(*  - a frame under way holds all the packets of its timestamp that this   *)
(*    sender has sent, so it has no gap, and it is marked only while the   *)
(*    call that completes it is under way;                                 *)
(*  - a packet of this sender in no frame under way belongs to a frame     *)
(*    whose marker has come;                                               *)
(*  - the frames made are those whose markers have come, in that order.    *)
(***************************************************************************)
newest == Cardinality(delivered)

\* The packets delivered of the same frame as e, of timestamp t, with a marker.
WholeFrame(e) == {i \in delivered : SameFrame(stream, i, e)}
SentAt(t)  == {i \in delivered : stream[i].ts = t /\ stream[i].ssrc = currentSSRC}
Ends == {i \in delivered : stream[i].marker}

\* The markers whose frames have been made: not that of the call under way.
Ended == IF Idle THEN Ends ELSE Ends \ {newest}

CallInOrder ==
  /\ todo = {}
  /\ delivered = {} => DOMAIN assemblies = {} /\ currentSSRC = None /\ Idle
  /\ delivered # {} => currentSSRC = stream[newest].ssrc
  /\ ~Idle => delivered # {} /\ current = stream[newest].ts

Gathered ==
  \A t \in DOMAIN assemblies :
    /\ InHand(t) = SentAt(t) /\ ~assemblies[t].loss
    /\ assemblies[t].marker <=> \E i \in SentAt(t) : stream[i].marker
    /\ assemblies[t].marker => ~Idle /\ t = current

Settled ==
  \A i \in delivered :
    stream[i].ssrc = currentSSRC /\ stream[i].ts \notin DOMAIN assemblies =>
      \E e \in delivered : SameFrame(stream, i, e) /\ stream[e].marker

Finished ==
  /\ Len(frames) = Cardinality(Ended)
  /\ \A k \in DOMAIN frames :
       /\ ~frames[k].corrupted
       /\ \E e \in Ended : /\ Cardinality({f \in Ended : f <= e}) = k
                           /\ frames[k].data = WholeFrame(e)

Smooth == CallInOrder /\ Gathered /\ Settled /\ Finished
IntactInv == Undisturbed => Smooth

\* An undisturbed stream has delivered its first packets, `newest' of them.
LEMMA FirstPackets ==
  ASSUME Types, Undisturbed
  PROVE  /\ delivered = 1 .. newest /\ newest \in Nat /\ delivered \subseteq Packet
         /\ Packet = 1 .. Len(stream) /\ Len(stream) \in Nat
         /\ stream \in Streams /\ ripe = 0
         /\ delivered # {} => newest \in delivered
<1>1. IsFiniteSet(delivered) /\ delivered \subseteq Packet /\ stream \in Streams
  BY TypesParts
<1>2. newest \in Nat
  BY <1>1, FS_CardinalityType DEF newest
<1>3. delivered = 1 .. newest /\ ripe = 0
  BY DEF Undisturbed, newest
<1>4. Packet = 1 .. Len(stream) /\ Len(stream) \in Nat
  BY <1>1, StreamFacts
<1>5. delivered # {} => newest \in delivered
  BY <1>2, <1>3
<1> QED BY <1>1, <1>2, <1>3, <1>4, <1>5

\* A frame under way without a hole in the stream has no gap.
Gapless ==
  \A t \in DOMAIN assemblies :
    (\A i, j \in InHand(t), k \in Nat : i < k /\ k < j => k \in InHand(t))
      => ~HasLoss(assemblies[t].packets)

LEMMA GaplessNow == Types /\ OwnStream => Gapless
<1> SUFFICES ASSUME Types, OwnStream, NEW t \in DOMAIN assemblies,
                    \A i, j \in InHand(t), k \in Nat : i < k /\ k < j => k \in InHand(t),
                    NEW r \in DOMAIN assemblies[t].packets,
                    NEW s \in DOMAIN assemblies[t].packets,
                    Before(r, s), Between(DOMAIN assemblies[t].packets, r, s) = {}
             PROVE  ~IsLoss(Advance(r, 1), s)
  BY DEF Gapless, HasLoss
<1> DEFINE P == assemblies[t].packets
           D == DOMAIN P
<1>1. \A a, b \in D : /\ P[a] \in Nat /\ (Before(a, b) <=> P[a] < P[b])
                      /\ P[a] < P[b] => sequenceDiff(Advance(a, 1), b) = P[b] - P[a] - 1
  BY InFrame, OrderInFrame
<1>2. /\ P[r] < P[s] /\ P[r] \in Nat /\ P[s] \in Nat
      /\ sequenceDiff(Advance(r, 1), s) = P[s] - P[r] - 1
  BY <1>1
<1>3. P[s] = P[r] + 1
  <2> SUFFICES ASSUME P[s] # P[r] + 1 PROVE FALSE
    OBVIOUS
  <2>1. P[r] + 1 \in Nat /\ P[r] < P[r] + 1 /\ P[r] + 1 < P[s]
    BY <1>2
  <2>2. P[r] \in InHand(t) /\ P[s] \in InHand(t)
    BY DEF InHand
  <2>3. P[r] + 1 \in InHand(t)
    BY <2>1, <2>2
  <2>4. PICK u \in D : P[u] = P[r] + 1
    BY <2>3 DEF InHand
  <2>5. u \in Between(D, r, s)
    BY <1>1, <2>1, <2>4 DEF Between
  <2> QED BY <2>5
<1> QED BY <1>2, <1>3 DEF IsLoss

\* A frame that holds all its packets, the marker too, is not torn.
LEMMA WholeIsNotTorn ==
  ASSUME Types, OwnStream, WellSent(stream), NEW t \in DOMAIN assemblies,
         delivered = 1 .. newest, newest \in InHand(t), stream[newest].marker,
         InHand(t) = SentAt(t)
  PROVE  Kept(assemblies[t].packets) = DOMAIN assemblies[t].packets
         /\ ~Torn(assemblies[t].packets)
<1> DEFINE P == assemblies[t].packets
           D == DOMAIN P
<1>1. \A a, b \in D : /\ P[a] \in Nat /\ (Before(a, b) <=> P[a] < P[b])
                      /\ P[a] \in Packet /\ P[a] \in delivered
                      /\ stream[P[a]].ssrc = currentSSRC /\ stream[P[a]].ts = t
                      /\ PartOf(P, a) \in Part
  <2>1. stream \in Streams
    BY TypesParts
  <2> QED BY <2>1, InFrame, OrderInFrame, PartType DEF PartOf
<1>2. PICK e \in D : P[e] = newest
  BY DEF InHand
<1>3. newest \in Nat /\ newest \in Packet /\ \A a \in D : P[a] <= newest
  BY <1>1, <1>2
<1>4. \A i \in delivered : SameFrame(stream, i, newest) => \E a \in D : P[a] = i
  BY <1>1, <1>2 DEF SentAt, InHand, SameFrame
<1>5. \A a, b \in D : SameFrame(stream, P[a], P[b])
  BY <1>1 DEF SameFrame
<1>6. delivered \subseteq Packet /\ Packet \subseteq Nat /\ Packet = DOMAIN stream
  BY TypesParts, StreamFacts DEF Packet
\* A fragment that is not a start has one before it.
<1>7. ASSUME NEW s \in D, PartOf(P, s) \in {"middle", "end"} PROVE Open(P, s)
  <2>1. stream[P[s]].part \in {"middle", "end"}
    BY <1>7 DEF PartOf
  <2>2. PICK b \in Packet : /\ b < P[s] /\ SameFrame(stream, b, P[s])
                            /\ stream[b].part = "start"
                            /\ \A u \in b + 1 .. P[s] - 1 : stream[u].part = "middle"
    BY <1>1, <1>6, <2>1 DEF WellSent
  <2>3. b \in delivered /\ SameFrame(stream, b, newest)
    <3>1. b \in Nat /\ b >= 1 /\ b < newest
      BY <1>1, <1>3, <1>6, <2>2, StreamFacts, TypesParts
    <3> QED BY <1>2, <1>5, <2>2, <3>1, <1>3 DEF SameFrame
  <2>4. PICK a \in D : P[a] = b
    BY <1>4, <2>3
  <2>5. Before(a, s) /\ PartOf(P, a) = "start"
    BY <1>1, <2>2, <2>4 DEF PartOf
  <2>6. ASSUME NEW u \in Between(D, a, s)
        PROVE  PartOf(P, u) \in {"middle", "stap"}
    <3>1. u \in D /\ P[a] < P[u] /\ P[u] < P[s]
      BY <1>1 DEF Between
    <3>2. P[u] \in b + 1 .. P[s] - 1
      BY <1>1, <2>4, <3>1
    <3> QED BY <2>2, <3>2 DEF PartOf
  <2> QED BY <2>5, <2>6 DEF Open
<1>8. Kept(P) = D
  BY <1>1, <1>7 DEF Kept, Headed, Part
\* A start has its end, with nothing but fragments between.
<1>9. ASSUME NEW b \in D, PartOf(P, b) = "start"
      PROVE  \E u \in D : /\ P[b] < P[u] /\ PartOf(P, u) = "end"
                          /\ \A w \in D : P[b] < P[w] /\ P[w] < P[u] =>
                               PartOf(P, w) = "middle"
  <2>1. stream[P[b]].part = "start" /\ SameFrame(stream, P[b], newest)
    BY <1>2, <1>5, <1>9 DEF PartOf
  <2>2. PICK u \in P[b] + 1 .. newest : /\ stream[u].part = "end"
                        /\ \A w \in P[b] + 1 .. u - 1 : stream[w].part = "middle"
    BY <1>1, <1>3, <1>6, <2>1 DEF WellSent
  <2>3. u \in delivered /\ P[b] < u /\ u \in Nat
    BY <1>1, <1>3, <2>2, <1>6
  <2>4. SameFrame(stream, u, newest)
    <3>1. CASE u = newest
      BY <3>1 DEF SameFrame
    <3>2. CASE u # newest
      <4>1. u < newest
        BY <1>3, <2>2, <3>2
      <4>2. SameFrame(stream, P[b], u)
        BY <1>1, <1>3, <1>6, <2>1, <2>3, <4>1 DEF WellSent
      <4> QED BY <2>1, <4>2 DEF SameFrame
    <3> QED BY <3>1, <3>2
  <2>5. PICK x \in D : P[x] = u
    BY <1>4, <2>3, <2>4
  <2>6. ASSUME NEW w \in D, P[b] < P[w], P[w] < P[x]
        PROVE  PartOf(P, w) = "middle"
    <3>1. P[w] \in P[b] + 1 .. u - 1
      BY <1>1, <2>5, <2>6
    <3> QED BY <2>2, <3>1 DEF PartOf
  <2> QED BY <2>2, <2>3, <2>5, <2>6 DEF PartOf
<1>10. ASSUME NEW s \in D, PartOf(P, s) \in {"whole", "start"}, Open(P, s)
       PROVE  FALSE
  <2>1. PICK b \in D : /\ Before(b, s) /\ PartOf(P, b) = "start"
                       /\ \A u \in Between(D, b, s) :
                            PartOf(P, u) \in {"middle", "stap"}
    BY <1>10 DEF Open
  <2>2. PICK u \in D : /\ P[b] < P[u] /\ PartOf(P, u) = "end"
                       /\ \A w \in D : P[b] < P[w] /\ P[w] < P[u] =>
                            PartOf(P, w) = "middle"
    BY <1>9, <2>1
  <2>3. P[b] < P[s] /\ P[s] \in Nat /\ P[u] \in Nat
    BY <1>1, <2>1
  <2>4. ~(P[s] < P[u])
    BY <1>10, <2>2, <2>3
  <2>5. ~(P[u] < P[s])
    <3> SUFFICES ASSUME P[u] < P[s] PROVE FALSE
      OBVIOUS
    <3>1. u \in Between(D, b, s)
      BY <1>1, <2>2 DEF Between
    <3> QED BY <2>1, <2>2, <3>1
  <2>6. P[s] = P[u]
    BY <2>3, <2>4, <2>5
  <2> QED BY <1>10, <2>2, <2>6 DEF PartOf
<1>11. ASSUME NEW b \in D, PartOf(P, b) = "start",
              \A u \in D : Before(b, u) => PartOf(P, u) \in {"middle", "stap"}
       PROVE  FALSE
  <2>1. PICK u \in D : P[b] < P[u] /\ PartOf(P, u) = "end"
    BY <1>9, <1>11
  <2> QED BY <1>1, <1>11, <2>1
<1>12. ~Torn(P)
  BY <1>8, <1>10, <1>11, Zenon DEF Torn
<1> QED BY <1>8, <1>12

\* What getOrCreateFrameAssembly and the packet put into it make of a frame.
LEMMA JoinedFields ==
  ASSUME NEW held, NEW i
  PROVE  LET t  == stream[i].ts
             fa == Joined(held, i)
         IN  /\ fa.packets = With(IF t \in DOMAIN held THEN held[t].packets
                                  ELSE NoAssemblies, stream[i].seq, i)
             /\ fa.marker <=> (t \in DOMAIN held /\ held[t].marker) \/ stream[i].marker
             /\ fa.loss <=> (t \in DOMAIN held /\ held[t].loss) \/ HasLoss(fa.packets)
<1> DEFINE t  == stream[i].ts
           old == IF t \in DOMAIN held THEN held[t]
                  ELSE [packets |-> NoAssemblies, marker |-> FALSE, loss |-> FALSE,
                        born |-> arrivals]
           packets == With(old.packets, stream[i].seq, i)
           fa == Joined(held, i)
<1>1. /\ fa.packets = packets
      /\ fa.marker <=> (old.marker \/ stream[i].marker)
      /\ fa.loss <=> (old.loss \/ HasLoss(packets))
  BY Zenon DEF Joined
<1>2. old.packets = IF t \in DOMAIN held THEN held[t].packets ELSE NoAssemblies
  BY Zenon
<1>3. old.marker <=> t \in DOMAIN held /\ held[t].marker
  BY Zenon
<1>4. old.loss <=> t \in DOMAIN held /\ held[t].loss
  BY Zenon
<1> HIDE DEF old, fa, t
<1> QED BY <1>1, <1>2, <1>3, <1>4, Zenon DEF fa, t

\* Every undisturbed step comes from an undisturbed state, and a packet that
\* comes is the next of the stream.
LEMMA NextArrival ==
  ASSUME Types, NEW i \in Packet, ProcessPacket(i), Undisturbed'
  PROVE  /\ Undisturbed /\ Idle /\ i = newest + 1 /\ newest' = i
         /\ stream' = stream /\ delivered' = delivered \cup {i}
         /\ i \notin delivered
<1>1. /\ stream' = stream /\ delivered' = delivered \cup {i} /\ Idle
      /\ ripe' = ripe /\ wiped' = wiped
      /\ orderly' = (orderly /\ \A j \in delivered : j < i)
  BY DEF ProcessPacket, Delivers
<1>2. /\ orderly' /\ ripe' = 0 /\ ~wiped' /\ delivered' = 1 .. newest'
  BY DEF Undisturbed, newest
<1>3. orderly /\ \A j \in delivered : j < i
  BY <1>1, <1>2, Zenon
<1>4. /\ delivered \subseteq Packet /\ IsFiniteSet(delivered)
      /\ i \in Nat /\ Packet \subseteq Nat
  BY TypesParts, StreamFacts
<1>5. i \notin delivered
  BY <1>3, <1>4
<1>6. newest' = newest + 1 /\ newest \in Nat
  BY <1>1, <1>4, <1>5, FS_AddElement, FS_CardinalityType DEF newest
<1>7. delivered \cup {i} = 1 .. newest + 1
  BY <1>1, <1>2, <1>6
<1>8. i = newest + 1
  <2>1. newest + 1 \in delivered \cup {i}
    BY <1>6, <1>7
  <2>2. i <= newest + 1
    BY <1>4, <1>6, <1>7
  <2> QED BY <1>3, <1>4, <1>6, <2>1, <2>2
<1>9. delivered = 1 .. newest
  <2>1. ASSUME NEW j \in delivered PROVE j \in 1 .. newest
    <3>1. j \in 1 .. newest + 1 /\ j # newest + 1
      BY <1>5, <1>7, <1>8, <2>1
    <3> QED BY <1>6, <3>1
  <2>2. ASSUME NEW j \in 1 .. newest PROVE j \in delivered
    <3>1. j \in 1 .. newest + 1 /\ j # i
      BY <1>6, <1>8
    <3> QED BY <1>7, <3>1
  <2> QED BY <2>1, <2>2
<1>10. ~wiped /\ ripe = 0
  BY <1>1, <1>2, Zenon
<1> QED BY <1>1, <1>3, <1>5, <1>6, <1>8, <1>9, <1>10, Zenon DEF Undisturbed, newest

\* The frame a packet joins in an undisturbed stream then holds all that has
\* been sent of it.
LEMMA JoinsWhole ==
  ASSUME WellSent(stream), Types, Undisturbed, Smooth, NEW i \in Packet,
         ProcessPacket(i), i = newest + 1, delivered' = delivered \cup {i},
         stream' = stream
  PROVE  LET t == stream[i].ts
         IN  /\ InHand(t)' = SentAt(t)' /\ i \in SentAt(t)'
             /\ \A j \in SentAt(t)' : j \in Packet /\ j <= i /\ SameFrame(stream, j, i)
             /\ assemblies'[t].marker <=> stream[i].marker
             /\ assemblies'[t].loss <=> HasLoss(assemblies'[t].packets)
             /\ currentSSRC' = stream[i].ssrc
             /\ delivered # {} =>
                  \/ Changed(stream[i])
                       /\ \A j \in delivered : stream[j].ssrc # stream[i].ssrc
                  \/ ~Changed(stream[i]) /\ currentSSRC = stream[i].ssrc
             /\ todo' = {}
<1> DEFINE t == stream[i].ts
           c == stream[i].ssrc
           held == IF Changed(stream[i]) THEN NoAssemblies ELSE assemblies
           fa == Joined(held, i)
<1>1. /\ currentSSRC' = c /\ Idle
      /\ assemblies' = With(held, t, fa)
      /\ todo' = {u \in DOMAIN held \ {t} : shouldFinalizeFrame(held[u])}
  BY DEF ProcessPacket, Forgets
<1>2. /\ delivered = 1 .. newest /\ newest \in Nat /\ delivered \subseteq Packet
      /\ Packet = 1 .. Len(stream) /\ Len(stream) \in Nat
      /\ stream \in Streams /\ ripe = 0
      /\ delivered # {} => newest \in delivered
  BY FirstPackets
<1>3. \A j \in Packet : /\ stream[j].ssrc \in Nat \ {0} /\ stream[j].seq \in Seqno
                        /\ j \in Nat
  BY <1>2, StreamFacts
<1>4. /\ delivered = {} => currentSSRC = None /\ DOMAIN assemblies = {}
      /\ delivered # {} => currentSSRC = stream[newest].ssrc
  BY DEF Smooth, CallInOrder
<1>5. i \notin delivered /\ \A j \in delivered : j < i
  BY <1>2
<1>6. delivered # {} =>
        \/ Changed(stream[i]) /\ \A j \in delivered : stream[j].ssrc # c
        \/ ~Changed(stream[i]) /\ currentSSRC = c
  <2> SUFFICES ASSUME delivered # {}, currentSSRC # c
               PROVE  Changed(stream[i]) /\ \A j \in delivered : stream[j].ssrc # c
    BY <1>3, <1>4 DEF Changed
  <2>1. newest \in delivered /\ currentSSRC = stream[newest].ssrc
    BY <1>2, <1>4
  <2>2. Changed(stream[i])
    BY <1>2, <1>3, <2>1 DEF Changed, None
  <2>3. ASSUME NEW j \in delivered, stream[j].ssrc = c PROVE FALSE
    <3>1. j # newest
      BY <2>1, <2>3
    <3>2. j < newest /\ newest < i
      BY <1>2, <3>1
    <3> QED BY <1>2, <2>1, <2>3, <3>2 DEF WellSent, InTurn, Packet
  <2> QED BY <2>2, <2>3
<1>7. ASSUME NEW u \in DOMAIN held
      PROVE  /\ ~Changed(stream[i]) /\ u \in DOMAIN assemblies
             /\ held[u] = assemblies[u] /\ currentSSRC = c /\ delivered # {}
  <2>1. /\ ~Changed(stream[i]) /\ u \in DOMAIN assemblies /\ held[u] = assemblies[u]
    BY DEF NoAssemblies
  <2>2. delivered # {}
    BY <1>4, <2>1
  <2> QED BY <1>6, <2>1, <2>2
<1>8. \A u \in DOMAIN held : ~held[u].marker /\ ~held[u].loss
  <2>1. \A u \in DOMAIN assemblies : ~assemblies[u].marker /\ ~assemblies[u].loss
    BY <1>1 DEF Smooth, Gathered
  <2> QED BY <1>7, <2>1
<1>9. todo' = {}
  <2>1. \A u \in DOMAIN held : held[u].born \in Nat
    BY <1>7, TypesParts DEF UnderWay
  <2> HIDE DEF held
  <2> QED BY <1>1, <1>2, <1>8, <2>1 DEF shouldFinalizeFrame
<1>10. assemblies'[t] = fa
  <2> HIDE DEF held, fa
  <2> QED BY <1>1 DEF With
<1>11. /\ fa.packets = With(IF t \in DOMAIN held THEN held[t].packets
                            ELSE NoAssemblies, stream[i].seq, i)
       /\ fa.marker <=> (t \in DOMAIN held /\ held[t].marker) \/ stream[i].marker
       /\ fa.loss <=> (t \in DOMAIN held /\ held[t].loss) \/ HasLoss(fa.packets)
  <2> HIDE DEF held
  <2> QED BY JoinedFields
<1>12. /\ assemblies'[t].marker <=> stream[i].marker
       /\ assemblies'[t].loss <=> HasLoss(assemblies'[t].packets)
  <2> HIDE DEF held, fa
  <2> QED BY <1>8, <1>10, <1>11, Zenon
<1>13. InHand(t)' = {fa.packets[s] : s \in DOMAIN fa.packets}
  <2> HIDE DEF fa
  <2> QED BY <1>10 DEF InHand
<1>14. /\ i \in SentAt(t)'
       /\ \A j \in SentAt(t)' : j \in Packet /\ j <= i /\ SameFrame(stream, j, i)
  BY <1>1, <1>2, <1>5 DEF SentAt, SameFrame
<1>15. CASE t \in DOMAIN held
  <2>1. /\ ~Changed(stream[i]) /\ t \in DOMAIN assemblies
        /\ held[t] = assemblies[t] /\ currentSSRC = c
    BY <1>7, <1>15
  <2> DEFINE P == assemblies[t].packets
  <2>2. fa.packets = With(P, stream[i].seq, i)
    <3> HIDE DEF held, fa
    <3> QED BY <1>11, <1>15, <2>1
  <2>3. InHand(t) = SentAt(t)
    BY <2>1 DEF Smooth, Gathered
  <2>4. stream[i].seq \notin DOMAIN P
    <3> SUFFICES ASSUME stream[i].seq \in DOMAIN P PROVE FALSE
      OBVIOUS
    <3> DEFINE j == P[stream[i].seq]
    <3>1. j \in delivered /\ stream[j].seq = stream[i].seq
      BY <2>1, TypesParts DEF UnderWay
    <3>2. j \in SentAt(t)
      BY <2>3 DEF InHand
    <3> HIDE DEF j
    <3>3. stream[j].ssrc = c /\ j < i /\ j \in Packet
      BY <1>2, <1>5, <2>1, <3>1, <3>2 DEF SentAt
    <3>4. /\ Len(stream) < Half
          /\ stream[i].seq = Advance(stream[j].seq, i - j)
      BY <1>2, <3>3, DecoderAssumption DEF StreamOK, Packet
    <3>5. Half \in Nat
      BY MAssumption DEF Half
    <3>6. i - j \in Nat /\ 0 < i - j /\ i - j < Half
      BY <1>2, <3>3, <3>4, <3>5
    <3>7. Before(stream[j].seq, stream[i].seq)
      BY <1>3, <3>3, <3>4, <3>6, HalfTurn
    <3> QED BY <3>1, <3>7 DEF Before
  <2>5. {fa.packets[s] : s \in DOMAIN fa.packets} = InHand(t) \cup {i}
    <3> HIDE DEF fa
    <3> QED BY <2>2, <2>4 DEF With, InHand
  <2>6. SentAt(t)' = SentAt(t) \cup {i}
    BY <1>1, <2>1 DEF SentAt
  <2>7. InHand(t)' = SentAt(t)'
    BY <1>13, <2>3, <2>5, <2>6
  <2> QED BY <1>1, <1>6, <1>9, <1>12, <1>14, <2>7
<1>16. CASE t \notin DOMAIN held
  <2>1. fa.packets = With(NoAssemblies, stream[i].seq, i)
    <3> HIDE DEF held, fa
    <3> QED BY <1>11, <1>16
  <2>2. {fa.packets[s] : s \in DOMAIN fa.packets} = {i}
    <3> HIDE DEF fa
    <3> QED BY <2>1 DEF With, NoAssemblies
  <2>3. ASSUME NEW j \in delivered, stream[j].ts = t, stream[j].ssrc = c
        PROVE  FALSE
    <3>1. ~Changed(stream[i]) /\ currentSSRC = c
      BY <1>6, <2>3
    <3>2. t \notin DOMAIN assemblies
      BY <1>16, <3>1
    <3>3. PICK e \in delivered : SameFrame(stream, j, e) /\ stream[e].marker
      BY <2>3, <3>1, <3>2 DEF Smooth, Settled
    <3>4. SameFrame(stream, e, i) /\ e < i /\ e \in Packet /\ e <= e /\ i \in Packet
      BY <1>2, <1>5, <2>3, <3>3 DEF SameFrame
    <3>5. ~stream[e].marker
      BY <3>4 DEF WellSent, Packet
    <3> QED BY <3>3, <3>5
  <2>4. SentAt(t)' = {i}
    BY <1>1, <2>3 DEF SentAt
  <2>5. InHand(t)' = SentAt(t)'
    BY <1>13, <2>2, <2>4
  <2> QED BY <1>1, <1>6, <1>9, <1>12, <1>14, <2>5
<1> QED BY <1>15, <1>16

LEMMA IntactOnProcess ==
  ASSUME WellSent(stream), Types, Gapless', IntactInv, NEW i \in Packet,
         ProcessPacket(i), Undisturbed'
  PROVE  Smooth'
<1>0. PICK t : t = stream[i].ts
  OBVIOUS
<1>1. /\ Undisturbed /\ Idle /\ i = newest + 1 /\ newest' = i
      /\ stream' = stream /\ delivered' = delivered \cup {i} /\ i \notin delivered
  BY NextArrival
<1>2. Smooth
  BY <1>1 DEF IntactInv
<1>3. /\ delivered = 1 .. newest /\ newest \in Nat /\ delivered \subseteq Packet
      /\ Packet = 1 .. Len(stream) /\ Len(stream) \in Nat /\ stream \in Streams
  BY <1>1, FirstPackets
<1>4. /\ InHand(t)' = SentAt(t)' /\ i \in SentAt(t)'
      /\ \A j \in SentAt(t)' : j \in Packet /\ j <= i /\ SameFrame(stream, j, i)
      /\ assemblies'[t].marker <=> stream[i].marker
      /\ assemblies'[t].loss <=> HasLoss(assemblies'[t].packets)
      /\ currentSSRC' = stream[i].ssrc
      /\ delivered # {} =>
           \/ Changed(stream[i])
                /\ \A j \in delivered : stream[j].ssrc # stream[i].ssrc
           \/ ~Changed(stream[i]) /\ currentSSRC = stream[i].ssrc
      /\ todo' = {}
  <2>1. /\ stream[i].ts' = t
        /\ InHand(stream[i].ts)' = InHand(t)' /\ SentAt(stream[i].ts)' = SentAt(t)'
    BY <1>0, <1>1 DEF InHand, SentAt
  <2> QED BY <1>0, <1>1, <1>2, <2>1, JoinsWhole
<1>5. frames' = frames /\ current' = t
  BY <1>0 DEF ProcessPacket
<1>6. t # None
  BY <1>0, <1>3, StreamFacts DEF None
<1>7. ~Idle'
  BY <1>5, <1>6 DEF Idle
<1>8. /\ t \in DOMAIN assemblies'
      /\ DOMAIN assemblies' \subseteq DOMAIN assemblies \cup {t}
      /\ \A u \in DOMAIN assemblies' \ {t} :
           /\ ~Changed(stream[i]) /\ u \in DOMAIN assemblies
           /\ assemblies'[u] = assemblies[u]
  BY <1>0, ProcessFacts
\* A packet of a frame that goes on has no marker.
<1>9. \A j \in Packet : j < i /\ SameFrame(stream, j, i) => ~stream[j].marker
  BY <1>3 DEF WellSent, Packet
<1>10. CallInOrder'
  BY <1>0, <1>1, <1>4, <1>5, <1>7 DEF CallInOrder
<1>11. ASSUME NEW u \in DOMAIN assemblies'
       PROVE  /\ InHand(u)' = SentAt(u)' /\ ~assemblies'[u].loss
              /\ assemblies'[u].marker <=> \E j \in SentAt(u)' : stream[j].marker
              /\ assemblies'[u].marker => u = t
  <2>1. CASE u = t
    <3>1. ASSUME NEW a \in SentAt(t)', NEW b \in SentAt(t)', NEW k \in Nat,
                 a < k, k < b
          PROVE  k \in SentAt(t)'
      <4>1. /\ a \in Packet /\ b \in Packet /\ b <= i
            /\ SameFrame(stream, a, i) /\ SameFrame(stream, b, i)
        BY <1>4
      <4>2. k \in delivered /\ k \in Packet
        BY <1>1, <1>3, <3>1, <4>1
      <4>3. SameFrame(stream, a, b)
        BY <4>1 DEF SameFrame
      <4>4. SameFrame(stream, a, k)
        BY <1>3, <3>1, <4>1, <4>2, <4>3 DEF WellSent, Packet
      <4>5. stream[k].ts = t /\ stream[k].ssrc = stream[i].ssrc
        BY <1>0, <4>1, <4>4 DEF SameFrame
      <4> QED BY <1>1, <1>4, <4>2, <4>5 DEF SentAt
    <3>2. ~HasLoss(assemblies'[t].packets)
      <4>1. Gapless' => ((\A a, b \in InHand(t)', k \in Nat :
                            a < k /\ k < b => k \in InHand(t)')
                         => ~HasLoss(assemblies'[t].packets))
        BY <1>8 DEF Gapless, HasLoss, Before, Between, IsLoss, sequenceBefore
      <4> QED BY <1>4, <3>1, <4>1
    <3>3. ~assemblies'[t].loss
      BY <1>4, <3>2
    <3>4. stream[i].marker <=> \E j \in SentAt(t)' : stream[j].marker
      <4>1. \A j \in SentAt(t)' : j = i \/ ~stream[j].marker
        <5>1. i \in Nat /\ Packet \subseteq Nat
          BY <1>1, <1>3
        <5> QED BY <1>4, <1>9, <5>1
      <4> QED BY <1>4, <4>1
    <3>5. assemblies'[t].marker <=> \E j \in SentAt(t)' : stream[j].marker
      BY <1>4, <3>4, Zenon
    <3> QED BY <1>4, <2>1, <3>3, <3>5
  <2>2. CASE u # t
    <3>1. /\ ~Changed(stream[i]) /\ u \in DOMAIN assemblies
          /\ assemblies'[u] = assemblies[u]
      BY <1>8, <2>2
    <3>2. currentSSRC' = currentSSRC
      BY <1>2, <1>4, <3>1 DEF Smooth, CallInOrder
    <3>3. SentAt(u)' = SentAt(u)
      BY <1>0, <1>1, <2>2, <3>2 DEF SentAt
    <3>4. InHand(u)' = InHand(u)
      BY <3>1 DEF InHand
    <3>5. /\ InHand(u) = SentAt(u) /\ ~assemblies[u].loss
          /\ assemblies[u].marker <=> \E j \in SentAt(u) : stream[j].marker
          /\ ~assemblies[u].marker
      BY <1>1, <1>2, <3>1 DEF Smooth, Gathered
    <3> QED BY <3>1, <3>3, <3>4, <3>5
  <2> QED BY <2>1, <2>2
<1>12. Gathered'
  BY <1>1, <1>5, <1>7, <1>11 DEF Gathered
<1>13. Settled'
  <2> SUFFICES ASSUME NEW j \in delivered',
                      stream[j].ssrc = stream[i].ssrc,
                      stream[j].ts \notin DOMAIN assemblies'
               PROVE  \E e \in delivered' : SameFrame(stream, j, e) /\ stream[e].marker
    BY <1>1, <1>4 DEF Settled, SameFrame
  <2>1. j \in delivered
    BY <1>0, <1>1, <1>8
  <2>2. ~Changed(stream[i]) /\ currentSSRC = stream[i].ssrc
    BY <1>4, <2>1
  <2>3. stream[j].ts \notin DOMAIN assemblies
    <3>1. DOMAIN assemblies \subseteq DOMAIN assemblies'
      BY <2>2 DEF ProcessPacket, With
    <3> QED BY <3>1
  <2> QED BY <1>1, <1>2, <2>1, <2>2, <2>3 DEF Smooth, Settled
<1>14. Finished'
  <2>1. Ended' = Ended
    <3>1. Ends' \ {i} = Ends
      BY <1>1 DEF Ends
    <3> QED BY <1>1, <1>7, <3>1, Zenon DEF Ended
  <2>2. ASSUME NEW e \in Ended PROVE WholeFrame(e)' = WholeFrame(e)
    <3>1. e \in delivered /\ stream[e].marker /\ e \in Packet
      BY <1>1, <1>3 DEF Ended, Ends
    <3>2. e < i
      BY <1>1, <1>3, <3>1
    <3>3. ~SameFrame(stream, i, e)
      BY <1>9, <3>1, <3>2 DEF SameFrame
    <3> QED BY <1>1, <3>3 DEF WholeFrame, SameFrame
  <2>3. Len(frames) = Cardinality(Ended)
        /\ \A k \in DOMAIN frames :
             /\ ~frames[k].corrupted
             /\ \E e \in Ended : /\ Cardinality({f \in Ended : f <= e}) = k
                                 /\ frames[k].data = WholeFrame(e)
    BY <1>2 DEF Smooth, Finished
  <2>4. ASSUME NEW k \in DOMAIN frames
        PROVE  \E e \in Ended' : /\ Cardinality({f \in Ended' : f <= e}) = k
                                 /\ frames[k].data = WholeFrame(e)'
    <3>1. PICK e \in Ended : /\ Cardinality({f \in Ended : f <= e}) = k
                             /\ frames[k].data = WholeFrame(e)
      BY <2>3
    <3> QED BY <2>1, <2>2, <3>1
  <2> QED BY <1>5, <2>1, <2>3, <2>4 DEF Finished
<1> QED BY <1>10, <1>12, <1>13, <1>14 DEF Smooth

\* The call ends: the frame is made if its marker has come.
LEMMA IntactOnFinish ==
  ASSUME WellSent(stream), Types, OwnStream, Undisturbed, Smooth, FinalizesCurrent
  PROVE  Smooth'
<1>1. /\ ~Idle /\ current' = None /\ todo' = {}
      /\ UNCHANGED <<stream, delivered, currentSSRC, ripe>>
  BY DEF FinalizesCurrent, Returns, network, tracking
<1>2. /\ delivered = 1 .. newest /\ newest \in Nat /\ delivered \subseteq Packet
      /\ Packet = 1 .. Len(stream) /\ stream \in Streams /\ ripe = 0
      /\ delivered # {} => newest \in delivered
  BY FirstPackets
<1>3. PICK t : t = current
  OBVIOUS
<1>4. /\ t = stream[newest].ts /\ newest \in delivered /\ newest \in Packet
      /\ currentSSRC = stream[newest].ssrc
  BY <1>1, <1>2, <1>3 DEF Smooth, CallInOrder
<1>5. /\ t \in DOMAIN assemblies /\ todo \subseteq DOMAIN assemblies
      /\ \A u \in DOMAIN assemblies : UnderWay(u)
  BY <1>1, <1>3, TypesParts DEF Idle
<1>6. /\ \A u \in DOMAIN assemblies :
           /\ InHand(u) = SentAt(u) /\ ~assemblies[u].loss
           /\ assemblies[u].marker <=> \E i \in SentAt(u) : stream[i].marker
           /\ assemblies[u].marker => u = t
  BY <1>3 DEF Smooth, Gathered
<1>7. newest \in SentAt(t)
  BY <1>4 DEF SentAt
\* The marker of the frame can only be on its newest packet.
<1>8. assemblies[t].marker <=> stream[newest].marker
  <2>1. ASSUME NEW i \in SentAt(t), stream[i].marker PROVE stream[newest].marker
    <3>1. i \in Packet /\ i <= newest /\ SameFrame(stream, i, newest)
      BY <1>2, <1>4 DEF SentAt, SameFrame
    <3>2. i = newest
      <4> SUFFICES ASSUME i # newest PROVE FALSE
        OBVIOUS
      <4>1. i < newest /\ i <= i
        BY <1>2, <3>1
      <4> QED BY <1>4, <2>1, <3>1, <4>1 DEF WellSent, Packet
    <3> QED BY <2>1, <3>2
  <2> QED BY <1>5, <1>6, <1>7, <2>1
<1>9. shouldFinalizeFrame(assemblies[t]) <=> assemblies[t].marker
  <2>1. assemblies[t].born \in Nat
    BY <1>5 DEF UnderWay
  <2> QED BY <1>2, <2>1 DEF shouldFinalizeFrame
<1>10. /\ newest' = newest /\ Ends' = Ends /\ Idle'
       /\ \A u : SentAt(u)' = SentAt(u) /\ \A e : WholeFrame(e)' = WholeFrame(e)
  BY <1>1 DEF newest, Ends, Idle, SentAt, WholeFrame, SameFrame
<1>11. Ended' = Ends /\ Ended = Ends \ {newest}
  BY <1>1, <1>10, Zenon DEF Ended
<1>12. CallInOrder'
  <2>1. delivered # {}
    BY <1>4
  <2> QED BY <1>1, <1>4, <1>10, <2>1 DEF CallInOrder
<1>13. Len(frames) = Cardinality(Ended)
       /\ \A k \in DOMAIN frames :
            /\ ~frames[k].corrupted
            /\ \E e \in Ended : /\ Cardinality({f \in Ended : f <= e}) = k
                                /\ frames[k].data = WholeFrame(e)
  BY DEF Smooth, Finished
<1>14. CASE ~stream[newest].marker
  <2>1. UNCHANGED <<assemblies, cache, frames>>
    BY <1>3, <1>8, <1>9, <1>14 DEF FinalizesCurrent
  <2>2. Ended' = Ended
    BY <1>11, <1>14 DEF Ends
  <2>3. Finished'
    BY <1>10, <1>13, <2>1, <2>2 DEF Finished
  <2>4. \A u \in DOMAIN assemblies : ~assemblies[u].marker
    BY <1>6, <1>8, <1>14
  <2>5. Gathered'
    BY <1>1, <1>6, <1>10, <2>1, <2>4 DEF Gathered, InHand
  <2>6. Settled'
    BY <1>1, <2>1 DEF Smooth, Settled, SameFrame
  <2> QED BY <1>12, <2>3, <2>5, <2>6 DEF Smooth
<1>15. CASE stream[newest].marker
  <2>1. Finalizes(t)
    BY <1>3, <1>8, <1>9, <1>15 DEF FinalizesCurrent
  <2>2. /\ Kept(assemblies[t].packets) = DOMAIN assemblies[t].packets
        /\ ~Torn(assemblies[t].packets)
    BY <1>2, <1>5, <1>6, <1>7, <1>15, WholeIsNotTorn
  <2>3. FrameOf(t).data = InHand(t) /\ ~FrameOf(t).corrupted
    <3>1. FrameOf(t).data = InHand(t)
      BY <2>2, FrameFields DEF InHand
    <3>2. ~FrameOf(t).corrupted
      BY <1>5, <1>6, <2>2, FrameFields, Zenon
    <3> QED BY <3>1, <3>2
  <2>4. FrameOf(t).data = WholeFrame(newest) /\ FrameOf(t).data # {}
    <3>1. SentAt(t) = WholeFrame(newest)
      BY <1>4 DEF SentAt, WholeFrame, SameFrame
    <3> QED BY <1>5, <1>6, <1>7, <2>3, <3>1
  <2>5. frames' = Append(frames, FrameOf(t))
    BY <2>1, <2>3, <2>4, Zenon DEF Finalizes, IsFrame
  <2>6. /\ DOMAIN assemblies' = DOMAIN assemblies \ {t}
        /\ \A u \in DOMAIN assemblies' : assemblies'[u] = assemblies[u]
    BY <2>1 DEF Finalizes, Without
  <2>7. Gathered'
    BY <1>1, <1>6, <1>10, <2>6 DEF Gathered, InHand
  <2>8. Settled'
    <3> SUFFICES ASSUME NEW j \in delivered, stream[j].ssrc = currentSSRC,
                        stream[j].ts \notin DOMAIN assemblies'
                 PROVE  \E e \in delivered : SameFrame(stream, j, e) /\ stream[e].marker
      BY <1>1 DEF Settled, SameFrame
    <3>1. CASE stream[j].ts = t
      BY <1>4, <1>15, <3>1 DEF SameFrame
    <3>2. CASE stream[j].ts # t
      BY <2>6, <3>2 DEF Smooth, Settled
    <3> QED BY <3>1, <3>2
  <2>9. newest \in Ends /\ newest \notin Ended /\ Ends = Ended \cup {newest}
    BY <1>4, <1>11, <1>15 DEF Ends
  <2>10. IsFiniteSet(Ended) /\ Cardinality(Ended) \in Nat
    <3>1. IsFiniteSet(delivered) /\ Ended \subseteq delivered
      BY <1>11, TypesParts DEF Ends
    <3> QED BY <3>1, FS_Subset, FS_CardinalityType
  <2>11. Cardinality(Ends) = Cardinality(Ended) + 1
    BY <2>9, <2>10, FS_AddElement
  <2>12. /\ frames \in Seq(FrameRecord) /\ FrameOf(t) \in FrameRecord
    BY <1>5, FrameFacts, TypesParts DEF Types, UnderWay
  <2>13. /\ Len(frames') = Len(frames) + 1
         /\ DOMAIN frames' = 1 .. Len(frames) + 1 /\ DOMAIN frames = 1 .. Len(frames)
         /\ frames'[Len(frames) + 1] = FrameOf(t)
         /\ \A k \in DOMAIN frames : frames'[k] = frames[k]
    BY <2>5, <2>12, AppendProperties
  <2>14. \A e \in Ended : e \in Nat /\ e < newest
    <3>1. \A e \in Ended : e \in delivered /\ e # newest
      BY <1>11 DEF Ends
    <3> QED BY <1>2, <3>1
  <2>15. ASSUME NEW k \in DOMAIN frames'
         PROVE  /\ ~frames'[k].corrupted
                /\ \E e \in Ends : /\ Cardinality({f \in Ends : f <= e}) = k
                                   /\ frames'[k].data = WholeFrame(e)
    <3>1. CASE k = Len(frames) + 1
      <4>1. {f \in Ends : f <= newest} = Ends
        <5>1. ASSUME NEW f \in Ends PROVE f <= newest
          <6>1. CASE f = newest
            BY <1>2, <6>1
          <6>2. CASE f # newest
            BY ONLY <1>2, <2>9, <2>14, <6>2, f \in Ends
          <6> QED BY <6>1, <6>2
        <5> QED BY <5>1
      <4>2. Cardinality({f \in Ends : f <= newest}) = k
        BY <1>13, <2>11, <3>1, <4>1
      <4> QED BY <2>3, <2>4, <2>9, <2>13, <3>1, <4>2
    <3>2. CASE k # Len(frames) + 1
      <4>1. k \in DOMAIN frames /\ frames'[k] = frames[k]
        BY <2>13, <3>2
      <4>2. PICK e \in Ended : /\ Cardinality({f \in Ended : f <= e}) = k
                               /\ frames[k].data = WholeFrame(e)
        BY <1>13, <4>1
      <4>3. {f \in Ends : f <= e} = {f \in Ended : f <= e}
        BY <1>2, <2>9, <2>14
      <4> QED BY <1>13, <2>9, <4>1, <4>2, <4>3
    <3> QED BY <3>1, <3>2
  <2>16. Finished'
    BY <1>10, <1>11, <1>13, <2>11, <2>13, <2>15 DEF Finished
  <2> QED BY <1>12, <2>7, <2>8, <2>16 DEF Smooth
<1> QED BY <1>14, <1>15

\* The other steps: what disturbs the stream, or nothing the frames are made of.
LEMMA IntactOnOther ==
  ASSUME Types, IntactInv, Undisturbed',
         \/ \E t \in todo : FinalizesOld(t)
         \/ \E drop \in BOOLEAN : SetDropCorruptedFrames(drop)
         \/ Reset
         \/ \E t \in DOMAIN assemblies : Elapse(t)
         \/ UNCHANGED vars
  PROVE  Smooth'
<1>1. CASE \E t \in todo : FinalizesOld(t)
  <2>1. Undisturbed
    BY <1>1 DEF FinalizesOld, network, Undisturbed
  <2> QED BY <1>1, <2>1 DEF IntactInv, Smooth, CallInOrder
<1>2. CASE Reset
  BY <1>2, Zenon DEF Reset, Undisturbed
<1>3. CASE \E t \in DOMAIN assemblies : Elapse(t)
  <2>1. PICK t \in DOMAIN assemblies : ripe' = assemblies[t].born + 1
    BY <1>3 DEF Elapse
  <2>2. assemblies[t].born \in Nat
    BY TypesParts DEF UnderWay
  <2> QED BY <2>1, <2>2 DEF Undisturbed
<1>4. CASE \/ \E drop \in BOOLEAN : SetDropCorruptedFrames(drop)
           \/ UNCHANGED vars
  <2>1. UNCHANGED <<stream, delivered, orderly, ripe, wiped, assemblies, currentSSRC,
                    current, todo, frames>>
    BY <1>4 DEF SetDropCorruptedFrames, vars, network, tracking, call
  <2>2. Undisturbed /\ Smooth
    BY <2>1, Zenon DEF Undisturbed, IntactInv
  <2>3. /\ Idle' = Idle /\ newest' = newest /\ Ended' = Ended
        /\ \A u : SentAt(u)' = SentAt(u) /\ InHand(u)' = InHand(u)
        /\ \A e : WholeFrame(e)' = WholeFrame(e)
    BY <2>1 DEF Idle, newest, Ended, Ends, SentAt, InHand, WholeFrame, SameFrame
  <2>4. CallInOrder'
    BY <2>1, <2>2, <2>3 DEF Smooth, CallInOrder
  <2>5. Gathered'
    BY <2>1, <2>2, <2>3 DEF Smooth, Gathered
  <2>6. Settled'
    BY <2>1, <2>2 DEF Smooth, Settled, SameFrame
  <2>7. Finished'
    BY <2>1, <2>2, <2>3 DEF Smooth, Finished
  <2> QED BY <2>4, <2>5, <2>6, <2>7 DEF Smooth
<1> QED BY <1>1, <1>2, <1>3, <1>4

\* A step that leaves the stream undisturbed found it so.
LEMMA UndisturbedBefore ==
  ASSUME Types, [Next]_vars, Undisturbed' PROVE Undisturbed
<1>1. CASE \E i \in Packet : ProcessPacket(i)
  BY <1>1, NextArrival
<1>2. CASE UNCHANGED <<network, ripe, wiped>>
  <2>1. UNCHANGED <<orderly, delivered, ripe, wiped>>
    BY <1>2 DEF network
  <2> QED BY <2>1, Zenon DEF Undisturbed
<1>3. CASE Reset
  BY <1>3, Zenon DEF Reset, Undisturbed
<1>4. CASE \E t \in DOMAIN assemblies : Elapse(t)
  <2>1. PICK t \in DOMAIN assemblies : ripe' = assemblies[t].born + 1
    BY <1>4 DEF Elapse
  <2>2. assemblies[t].born \in Nat
    BY TypesParts DEF UnderWay
  <2> QED BY <2>1, <2>2 DEF Undisturbed
<1>5. CASE \E i \in DOMAIN stream : ProcessPacket(i)
  BY <1>1, <1>5 DEF Packet
<1> QED BY <1>2, <1>3, <1>4, <1>5 DEF Next, FinalizesOld, FinalizesCurrent,
           SetDropCorruptedFrames, vars

\* On an undisturbed stream, well sent, each frame comes out with its marker,
\* complete, in order and not marked corrupted.
THEOREM DecoderIsFaithful ==
  ASSUME \A s \in Streams : WellSent(s) PROVE Spec => []FramesIntact
<1>1. Init => IntactInv
  <2> SUFFICES ASSUME Init PROVE Smooth
    BY DEF IntactInv
  <2>1. /\ delivered = {} /\ DOMAIN assemblies = {} /\ frames = << >> /\ todo = {}
        /\ currentSSRC = None /\ Idle
    BY DEF Init, NoAssemblies, Idle
  <2>2. Ended = {}
    BY <2>1 DEF Ended, Ends
  <2> QED BY <2>1, <2>2, FS_EmptySet
          DEF Smooth, CallInOrder, Gathered, Settled, Finished
<1>2. Types /\ OwnStream /\ Gapless' /\ IntactInv /\ [Next]_vars => IntactInv'
  <2> SUFFICES ASSUME Types, OwnStream, Gapless', IntactInv, [Next]_vars, Undisturbed'
               PROVE  Smooth'
    BY DEF IntactInv
  <2>1. WellSent(stream)
    BY TypesParts
  <2>2. Undisturbed /\ Smooth
    BY UndisturbedBefore DEF IntactInv
  <2>3. CASE \E i \in DOMAIN stream : ProcessPacket(i)
    BY <2>1, <2>3, IntactOnProcess DEF Packet
  <2>4. CASE FinalizesCurrent
    BY <2>1, <2>2, <2>4, IntactOnFinish
  <2> QED BY <2>3, <2>4, IntactOnOther DEF Next
<1>3. IntactInv => FramesIntact
  <2> SUFFICES ASSUME Smooth, Idle, Undisturbed
               PROVE  LET ends == {i \in delivered : stream[i].marker}
                          whole(e) == {i \in delivered :
                                         /\ stream[i].ts = stream[e].ts
                                         /\ stream[i].ssrc = stream[e].ssrc}
                      IN  /\ Len(frames) = Cardinality(ends)
                          /\ \A k \in DOMAIN frames :
                               /\ ~frames[k].corrupted
                               /\ \E e \in ends :
                                    /\ Cardinality({f \in ends : f <= e}) = k
                                    /\ frames[k].data = whole(e)
    BY Zenon DEF IntactInv, FramesIntact
  <2>1. Ended = {i \in delivered : stream[i].marker}
    BY Zenon DEF Ended, Ends
  <2>2. \A e : WholeFrame(e) = {i \in delivered : /\ stream[i].ts = stream[e].ts
                                                  /\ stream[i].ssrc = stream[e].ssrc}
    BY DEF WholeFrame, SameFrame
  <2> QED BY <2>1, <2>2 DEF Smooth, Finished
<1> QED BY <1>1, <1>2, <1>3, Invariance, GaplessNow, PTL DEF Spec
=============================================================================
