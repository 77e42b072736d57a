------------------------- MODULE JitterBufferProofs -------------------------
(***************************************************************************)
(* The circular order of sequence numbers, and the jitter buffer for every *)
(* sequence space, capacity and stream: types, the capacity bound, the     *)
(* conservation of packets, order, losses and gaps.  The first invariant is *)
(* one conjunction: the capacity bound and the accounting both count the   *)
(* buffer, so they need it finite, which needs its keys to be sequence     *)
(* numbers, which is TypeOK.                                               *)
(***************************************************************************)
EXTENDS JitterBuffer, FiniteSetTheorems, WellFoundedInduction, TLAPS

(* The circular arithmetic, on a circle of any even size.                  *)

\* Half a turn is half the circle exactly, because the circle is even.
LEMMA HalfIsHalf == Half \in Nat /\ M = Half + Half
BY MAssumption DEF Half

\* One more step keeps a sequence number on the circle.
LEMMA AdvanceType ==
  ASSUME NEW s \in Seqno, NEW n \in 0 .. M
  PROVE  Advance(s, n) \in Seqno
BY MAssumption DEF Seqno, Advance

\* Distances are sequence numbers: the uint16 expression cannot overflow.
LEMMA DiffType ==
  ASSUME NEW s \in Seqno, NEW t \in Seqno
  PROVE  sequenceDiff(s, t) \in Seqno
BY MAssumption DEF Seqno, sequenceDiff

\* The distance from s to t, walked forward from s, arrives at t, and the two
\* ways round make a full turn (jitter.go sequenceDiff, h264.go
\* sequenceDifference).
THEOREM DiffWalks ==
  ASSUME NEW s \in Seqno, NEW t \in Seqno
  PROVE  /\ Advance(s, sequenceDiff(s, t)) = t
         /\ s # t => sequenceDiff(s, t) + sequenceDiff(t, s) = M
BY MAssumption DEF Seqno, Advance, sequenceDiff

\* sequenceCompare orders two numbers by the shorter way round, wraparound or
\* not, and is antisymmetric (jitter.go sequenceCompare).
THEOREM CompareIsCircular ==
  ASSUME NEW s \in Seqno, NEW t \in Seqno
  PROVE  /\ s # t /\ sequenceDiff(s, t) < Half => sequenceCompare(s, t) = -1
         /\ sequenceDiff(s, t) > Half => sequenceCompare(s, t) = 1
         /\ sequenceCompare(s, t) = -sequenceCompare(t, s)
BY MAssumption, HalfIsHalf DEF Seqno, sequenceDiff, sequenceCompare

\* The jitter buffer's order and the decoder's agree on different packets that
\* are not exactly half a turn apart.
THEOREM OrdersAgree ==
  ASSUME NEW s \in Seqno, NEW t \in Seqno,
         s # t, sequenceDiff(s, t) # Half
  PROVE  sequenceBefore(s, t) <=> isSequenceNewer(t, s)
BY MAssumption, HalfIsHalf
   DEF Seqno, sequenceDiff, sequenceCompare, sequenceBefore, isSequenceNewer
-----------------------------------------------------------------------------

IInv == TypeOK /\ CapacityKept /\ Conservation

-----------------------------------------------------------------------------
\* A sequence number of the stream is on the circle.
LEMMA SeqOfType == ASSUME NEW p \in Position PROVE SeqOf(p) \in Seqno
BY AdvanceType, BufferAssumption, MAssumption, HalfIsHalf
   DEF Position, SeqOf, Seqno

\* A buffer of sequence numbers is finite.
LEMMA BufferFinite ==
  ASSUME Buffered \subseteq Seqno
  PROVE  IsFiniteSet(Buffered) /\ Cardinality(Buffered) \in Nat
<1>1. IsFiniteSet(Seqno)
  BY FS_Interval, MAssumption DEF Seqno
<1> QED BY <1>1, FS_Subset, FS_CardinalityType

\* Storing a packet under a new key lengthens the buffer by one.
LEMMA WithLonger ==
  ASSUME NEW f, NEW k, NEW v, IsFiniteSet(DOMAIN f), k \notin DOMAIN f
  PROVE  /\ IsFiniteSet(DOMAIN With(f, k, v))
         /\ Cardinality(DOMAIN With(f, k, v)) = Cardinality(DOMAIN f) + 1
<1>1. DOMAIN With(f, k, v) = DOMAIN f \cup {k}
  BY DEF With
<1> QED BY <1>1, FS_AddElement

\* Deleting a stored packet shortens it by one.
LEMMA WithoutShorter ==
  ASSUME NEW f, NEW k, IsFiniteSet(DOMAIN f), k \in DOMAIN f
  PROVE  /\ IsFiniteSet(DOMAIN Without(f, {k}))
         /\ Cardinality(DOMAIN Without(f, {k})) = Cardinality(DOMAIN f) - 1
<1>1. DOMAIN Without(f, {k}) = DOMAIN f \ {k}
  BY DEF Without
<1> QED BY <1>1, FS_RemoveElement

\* Both keep a map from sequence numbers to entries one.
LEMMA WithType ==
  ASSUME NEW f, DOMAIN f \subseteq Seqno, f \in [DOMAIN f -> Entry],
         NEW k \in Seqno, NEW v \in Entry
  PROVE  /\ DOMAIN With(f, k, v) \subseteq Seqno
         /\ With(f, k, v) \in [DOMAIN With(f, k, v) -> Entry]
BY DEF With

LEMMA WithoutType ==
  ASSUME NEW f, DOMAIN f \subseteq Seqno, f \in [DOMAIN f -> Entry], NEW K
  PROVE  /\ DOMAIN Without(f, K) \subseteq Seqno
         /\ Without(f, K) \in [DOMAIN Without(f, K) -> Entry]
BY DEF Without
-----------------------------------------------------------------------------
LEMMA InitEstablishes == Init => IInv
<1> SUFFICES ASSUME Init PROVE IInv
  OBVIOUS
<1>1. Buffered = {}
  BY DEF Init, NoPackets, Buffered
<1>2. TypeOK
  <2>1. initialized \in BOOLEAN /\ (~initialized => Buffered = {})
    BY <1>1, Zenon DEF Init
  <2>2. packets \in [Buffered -> Entry]
    BY <1>1 DEF Init, NoPackets, Buffered
  <2>3. handed \in Seq(Position)
    BY DEF Init
  <2> QED BY <1>1, <2>1, <2>2, <2>3, MAssumption, BufferAssumption
          DEF Init, TypeOK, Answer, Seqno
<1>3. Cardinality(Buffered) = 0
  BY <1>1, FS_EmptySet
<1>4. Conservation
  <2>1. handed = << >> /\ dropped = 0 /\ packetsReceived = 0
    BY DEF Init
  <2> QED BY <1>3, <2>1 DEF Conservation
<1>5. CapacityKept
  BY <1>3, BufferAssumption DEF CapacityKept
<1> QED BY <1>2, <1>4, <1>5 DEF IInv

\* What the environment does to the buffer: nothing.
LEMMA EnvironmentPreserves ==
  ASSUME IInv, Send \/ (\E p \in flight : Lose(p)) \/ Wait
  PROVE  IInv'
<1>1. SUFFICES TypeOK'
  <2>1. UNCHANGED <<packets, packetsReceived, handed, dropped>>
    BY DEF Send, Lose, Wait, counters, history
  <2> QED BY <2>1 DEF IInv, CapacityKept, Conservation, Buffered
<1>2. UNCHANGED <<packets, expectedSeq, initialized, counters, answer, history>>
  BY DEF Send, Lose, Wait
<1>3. sent' \in 0 .. MaxSent /\ flight' \subseteq 0 .. sent' - 1 /\ copies' \in Nat
  <2>1. TypeOK
    BY DEF IInv
  <2>2. CASE Send
    BY <2>1, <2>2, BufferAssumption DEF Send, TypeOK
  <2>3. CASE \E p \in flight : Lose(p)
    BY <2>1, <2>3 DEF Lose, TypeOK
  <2>4. CASE Wait
    BY <2>1, <2>4 DEF Wait, TypeOK, network
  <2> QED BY <2>2, <2>3, <2>4
<1>4. ripe' \in 0 .. packetsReceived'
  <2>1. ripe \in 0 .. packetsReceived /\ packetsReceived' = packetsReceived
    BY <1>2 DEF IInv, TypeOK, counters
  <2>2. ripe' = ripe \/ ripe' \in (ripe + 1) .. packetsReceived
    BY DEF Send, Lose, Wait
  <2>3. packetsReceived \in Nat
    BY DEF IInv, TypeOK
  <2> QED BY <2>1, <2>2, <2>3
<1> QED BY <1>2, <1>3, <1>4 DEF IInv, TypeOK, Buffered, counters, history

\* Accepting a packet: a duplicate changes only its counter; a new packet
\* takes a free place or the place of the one dropped for it.
LEMMA AddPacketPreserves ==
  ASSUME IInv, NEW p \in flight, AddPacket(p)
  PROVE  IInv'
<1> USE DEF IInv
<1> DEFINE entry == [pos |-> p, rank |-> packetsReceived]
<1>1. p \in Position /\ SeqOf(p) \in Seqno /\ entry \in Entry
  <2>1. p \in Position
    BY BufferAssumption DEF TypeOK, Position
  <2> QED BY <2>1, SeqOfType DEF TypeOK, Entry
<1>2. IsFiniteSet(Buffered) /\ Cardinality(Buffered) \in Nat
  BY BufferFinite DEF TypeOK
<1>3. initialized' \in BOOLEAN /\ (~initialized' => Buffered' = {})
  BY Zenon DEF AddPacket
<1>4. expectedSeq' \in Seqno
  BY <1>1, Zenon DEF AddPacket, TypeOK
<1>5. /\ sent' \in 0 .. MaxSent /\ flight' \subseteq 0 .. sent' - 1
      /\ copies' \in Nat
  <2>1. Arrives(p)
    BY DEF AddPacket
  <2>2. CASE flight' = flight /\ copies' = copies + 1
    BY <2>1, <2>2 DEF Arrives, TypeOK
  <2>3. CASE flight' = flight \ {p} /\ copies' = copies
    BY <2>1, <2>3 DEF Arrives, TypeOK
  <2> QED BY <2>1, <2>2, <2>3 DEF Arrives
<1>6. UNCHANGED <<packetsLost, ripe, handed, lostAtFirst, sentBack>>
  BY DEF AddPacket
<1>7. CASE AddDuplicate(p)
  <2>1. /\ packetsDuplicate' = packetsDuplicate + 1 /\ answer' = "duplicate"
        /\ UNCHANGED <<packets, packetsReceived, dropped>>
    BY <1>7 DEF AddDuplicate
  <2>2. TypeOK'
    BY <1>3, <1>4, <1>5, <1>6, <2>1 DEF TypeOK, Buffered, Answer
  <2> QED BY <1>6, <2>1, <2>2 DEF CapacityKept, Conservation, Buffered
<1>8. CASE AddNew(p)
  <2> DEFINE room == With(packets, SeqOf(p), entry)
  <2>1. /\ packetsReceived' = packetsReceived + 1 /\ answer' = "added"
        /\ UNCHANGED packetsDuplicate
    BY <1>8 DEF AddNew
  <2>2. SUFFICES /\ Buffered' \subseteq Seqno /\ packets' \in [Buffered' -> Entry]
                 /\ dropped' \in Nat
                 /\ Cardinality(Buffered') \in 0 .. maxSize
                 /\ Cardinality(Buffered') + dropped'
                      = Cardinality(Buffered) + dropped + 1
    <3>1. TypeOK'
      <4>1. packetsReceived' \in Nat /\ ripe' \in 0 .. packetsReceived'
        BY <1>6, <2>1 DEF TypeOK
      <4>2. /\ packetsLost' \in Nat /\ packetsDuplicate' \in Nat
            /\ lostAtFirst' \in Nat /\ handed' \in Seq(Position)
            /\ sentBack' \in Nat
        BY <1>6, <2>1 DEF TypeOK
      <4>3. answer' \in Answer
        BY <1>6, <2>1 DEF Answer
      <4> QED BY <1>3, <1>4, <1>5, <2>2, <4>1, <4>2, <4>3 DEF TypeOK
    <3>2. Conservation'
      <4>1. handed' = handed /\ Len(handed) \in Nat /\ dropped \in Nat
        BY <1>6 DEF TypeOK
      <4>2. packetsReceived = Len(handed) + dropped + Cardinality(Buffered)
        BY DEF Conservation
      <4>3. packetsReceived' = Len(handed') + dropped' + Cardinality(Buffered')
        BY <1>2, <2>1, <2>2, <4>1, <4>2 DEF Buffered
      <4> QED BY <4>3 DEF Conservation
    <3> QED BY <2>2, <3>1, <3>2 DEF CapacityKept
  <2>3. CASE Cardinality(Buffered) < maxSize
    <3>1. packets' = room /\ dropped' = dropped
      BY <1>2, <1>8, <2>3, BufferAssumption DEF AddNew
    <3>2. SeqOf(p) \notin DOMAIN packets
      BY <1>8 DEF AddNew, Buffered
    <3>3. Cardinality(DOMAIN packets') = Cardinality(DOMAIN packets) + 1
      BY <1>2, <3>1, <3>2, WithLonger DEF Buffered
    <3>4. DOMAIN packets' \subseteq Seqno /\ packets' \in [DOMAIN packets' -> Entry]
      BY <1>1, <3>1, WithType DEF TypeOK, Buffered
    <3>5. dropped' \in Nat /\ dropped \in Nat
      BY <3>1 DEF TypeOK
    <3> QED BY <1>2, <2>3, <3>1, <3>3, <3>4, <3>5, BufferAssumption DEF Buffered
  <2>4. CASE Cardinality(Buffered) >= maxSize
    <3>0. ~(Cardinality(Buffered) < maxSize)
      BY <1>2, <2>4, BufferAssumption
    <3>1. PICK old \in Oldest :
            packets' = With(Without(packets, {old}), SeqOf(p), entry)
      BY <1>8, <3>0, Zenon DEF AddNew
    <3>2. dropped' = dropped + 1
      BY <1>8, <3>0, Zenon DEF AddNew
    <3> DEFINE kept == Without(packets, {old})
    <3>3. /\ IsFiniteSet(DOMAIN kept)
          /\ Cardinality(DOMAIN kept) = Cardinality(DOMAIN packets) - 1
      BY <1>2, <3>1, WithoutShorter DEF Oldest, Buffered
    <3>4. DOMAIN kept \subseteq Seqno /\ kept \in [DOMAIN kept -> Entry]
      BY WithoutType DEF TypeOK, Buffered
    <3>5. SeqOf(p) \notin DOMAIN kept
      BY <1>8 DEF AddNew, Buffered, Without
    <3> HIDE DEF kept
    <3>6. Cardinality(DOMAIN packets') = Cardinality(DOMAIN kept) + 1
      BY <3>1, <3>3, <3>5, WithLonger DEF kept
    <3>7. DOMAIN packets' \subseteq Seqno /\ packets' \in [DOMAIN packets' -> Entry]
      BY <1>1, <3>1, <3>4, WithType DEF kept
    <3>8. dropped \in Nat /\ Cardinality(Buffered) <= maxSize
      BY DEF TypeOK, CapacityKept
    <3> QED BY <1>2, <2>4, <3>2, <3>3, <3>6, <3>7, <3>8, BufferAssumption
            DEF Buffered
  <2> QED BY <1>2, <2>3, <2>4, BufferAssumption
<1> QED BY <1>7, <1>8 DEF AddPacket

\* Counting the packets skipped before `low' yields a natural number.
LEMMA LostUpToType ==
  ASSUME IInv, NEW low \in Lowest
  PROVE  /\ low \in Seqno /\ Start(low) \in Seqno /\ Target(low) \in Seqno
         /\ CanServe(low) => Target(low) \in Buffered
         /\ LostUpTo(low) \in Nat
         /\ SentBackUpTo(low) \in Nat
<1>1. low \in Buffered /\ low \in Seqno
  BY DEF IInv, TypeOK, Lowest
<1>2. Start(low) \in Seqno
  BY <1>1, Zenon DEF Start, IInv, TypeOK
<1>3. Target(low) \in Buffered /\ Target(low) \in Seqno
  BY <1>1, <1>2, Zenon DEF Target
<1>4. sequenceDiff(Start(low), low) \in Nat
  BY <1>1, <1>2, DiffType, MAssumption DEF Seqno
<1>5. packetsLost \in Nat
  BY DEF IInv, TypeOK
<1>6. SentBackUpTo(low) \in Nat
  BY DEF IInv, TypeOK, SentBackUpTo
<1> QED BY <1>1, <1>2, <1>3, <1>4, <1>5, <1>6 DEF LostUpTo

\* Handing out a packet moves it from the buffer to the history; the calls
\* that return none leave both alone.
LEMMA GetNextPacketPreserves ==
  ASSUME IInv, GetNextPacket
  PROVE  IInv'
<1> USE DEF IInv
<1>1. UNCHANGED <<sent, flight, copies, initialized, packetsReceived,
                  packetsDuplicate, ripe>>
  BY DEF GetNextPacket, network
<1>2. IsFiniteSet(Buffered) /\ Cardinality(Buffered) \in Nat
  BY BufferFinite DEF TypeOK
<1>3. CASE GetEmpty
  BY <1>1, <1>3
     DEF GetEmpty, history, TypeOK, CapacityKept, Conservation, Buffered, Answer
<1>4. ASSUME NEW low \in Lowest, GetStalled(low)
      PROVE  IInv'
  <2>1. Start(low) \in Seqno
    BY LostUpToType
  <2> QED BY <1>1, <1>4, <2>1
          DEF GetStalled, history, TypeOK, CapacityKept, Conservation, Buffered,
              Answer
<1>5. ASSUME NEW low \in Lowest, GetTooEarly(low)
      PROVE  IInv'
  <2>1. Target(low) \in Seqno /\ LostUpTo(low) \in Nat
        /\ SentBackUpTo(low) \in Nat
    BY LostUpToType
  <2> QED BY <1>1, <1>5, <2>1
          DEF GetTooEarly, history, TypeOK, CapacityKept, Conservation, Buffered,
              Answer
<1>6. ASSUME NEW low \in Lowest, GetServed(low)
      PROVE  IInv'
  <2> DEFINE t == Target(low)
  <2>1. t \in Buffered /\ t \in Seqno /\ LostUpTo(low) \in Nat
    BY <1>6, LostUpToType DEF GetServed
  <2>2. expectedSeq' \in Seqno
    BY <1>6, <2>1, AdvanceType, MAssumption DEF GetServed
  <2>3. packets' = Without(packets, {t})
    BY <1>6 DEF GetServed
  <2>4. Buffered' \subseteq Seqno /\ packets' \in [Buffered' -> Entry]
    BY <2>3, WithoutType DEF TypeOK, Buffered
  <2>5. Cardinality(Buffered') = Cardinality(Buffered) - 1
    BY <1>2, <2>1, <2>3, WithoutShorter DEF Buffered
  <2>6. packets[t].pos \in Position
    BY <2>1 DEF TypeOK, Entry
  <2>7. handed' \in Seq(Position) /\ Len(handed') = Len(handed) + 1
    BY <1>6, <2>6 DEF GetServed, TypeOK
  <2>8. lostAtFirst' \in Nat /\ packetsLost' \in Nat /\ sentBack' \in Nat
    BY <1>6, <2>1, LostUpToType DEF GetServed, TypeOK
  <2>9. dropped' = dropped /\ answer' \in Answer
    BY <1>6 DEF GetServed, Answer
  <2>10. initialized' \in BOOLEAN /\ (~initialized' => Buffered' = {})
    BY <1>1, <2>1, Zenon DEF TypeOK
  <2>11. TypeOK'
    BY <1>1, <2>2, <2>4, <2>7, <2>8, <2>9, <2>10 DEF TypeOK
  <2>12. CapacityKept'
    BY <1>2, <2>5, BufferAssumption DEF CapacityKept, Buffered
  <2>13. Conservation'
    <3>1. Len(handed) \in Nat /\ dropped \in Nat
      BY DEF TypeOK
    <3> QED BY <1>1, <1>2, <2>5, <2>7, <2>9, <3>1 DEF Conservation, Buffered
  <2> QED BY <2>11, <2>12, <2>13
<1> QED BY <1>3, <1>4, <1>5, <1>6 DEF GetNextPacket

LEMMA ResetPreserves == ASSUME IInv, Reset PROVE IInv'
<1>1. Buffered' = {}
  BY DEF Reset, NoPackets, Buffered
<1>2. initialized' \in BOOLEAN /\ (~initialized' => Buffered' = {})
  BY <1>1, Zenon DEF Reset
<1>3. packets' \in [Buffered' -> Entry]
  BY <1>1 DEF Reset, NoPackets, Buffered
<1>4. handed' \in Seq(Position) /\ Len(handed') = 0
  BY DEF Reset
<1>5. TypeOK'
  BY <1>1, <1>2, <1>3, <1>4 DEF Reset, network, IInv, TypeOK, Answer
<1>6. Cardinality(Buffered') = 0
  BY <1>1, FS_EmptySet
<1> QED BY <1>4, <1>5, <1>6, BufferAssumption
        DEF IInv, Reset, CapacityKept, Conservation, Buffered

-----------------------------------------------------------------------------
\* The jitter buffer keeps its types, its capacity and every packet it ever
\* accepted accounted for, in every behaviour.
THEOREM BufferInvariant == Spec => []IInv
<1>1. Init => IInv
  BY InitEstablishes
<1>2. IInv /\ [Next]_vars => IInv'
  <2> SUFFICES ASSUME IInv, [Next]_vars PROVE IInv'
    OBVIOUS
  <2>1. CASE Send \/ (\E p \in flight : Lose(p)) \/ Wait
    BY <2>1, EnvironmentPreserves
  <2>2. CASE \E p \in flight : AddPacket(p)
    BY <2>2, AddPacketPreserves
  <2>3. CASE GetNextPacket
    BY <2>3, GetNextPacketPreserves
  <2>4. CASE Reset
    BY <2>4, ResetPreserves
  <2>5. CASE UNCHANGED vars
    BY <2>5 DEF vars, network, counters, history, IInv, TypeOK, CapacityKept,
                Conservation, Buffered
  <2> QED BY <2>1, <2>2, <2>3, <2>4, <2>5 DEF Next
<1> QED BY <1>1, <1>2, PTL DEF Spec

\* Type correctness (jitter.go JitterBuffer).
THEOREM BufferTypes == Spec => []TypeOK
<1>1. IInv => TypeOK
  BY DEF IInv
<1> QED BY <1>1, BufferInvariant, PTL

\* AddPacket never lets the buffer exceed the capacity it was created with.
THEOREM BufferBounded == Spec => []CapacityKept
<1>1. IInv => CapacityKept
  BY DEF IInv
<1> QED BY <1>1, BufferInvariant, PTL

\* Every packet accepted is buffered, handed out or dropped for room.
THEOREM BufferConserves == Spec => []Conservation
<1>1. IInv => Conservation
  BY DEF IInv
<1> QED BY <1>1, BufferInvariant, PTL
-----------------------------------------------------------------------------
(***************************************************************************)
(* SkipsAreCounted.  The inductive form needs three more facts: an entry    *)
(* sits under its own sequence number; once a packet has been handed out    *)
(* the buffer is initialised for good; and the number the reader expects is *)
(* then one of the stream, so that sequenceDiff is a difference of places   *)
(* or that difference and a circle.  That Start never moves backwards again *)
(* is a consequence of Conservation.                                        *)
(***************************************************************************)
Keyed == \A s \in Buffered : SeqOf(packets[s].pos) = s

Begun == handed # << >> => initialized

PlaceKnown == initialized => \E q \in 0 .. MaxSent : expectedSeq = SeqOf(q)

Counted ==
  handed # << >> =>
    packetsLost - lostAtFirst = Place - handed[1] - Len(handed) + sentBack * M

Rising ==
  handed # << >> /\ sentBack = 0 =>
    /\ handed[Len(handed)] < Place
    /\ \A k \in 1 .. Len(handed) - 1 : handed[k] < handed[k + 1]

SkipInv == Keyed /\ Begun /\ PlaceKnown /\ Counted /\ Rising

\* On the numbers of the stream, its end included, sequenceDiff is the
\* difference of the places, and a circle more when the way leads back.
LEMMA DiffOfPlaces ==
  ASSUME NEW p \in 0 .. MaxSent, NEW q \in 0 .. MaxSent
  PROVE  /\ SeqOf(p) \in Seqno /\ PlaceOf(SeqOf(p)) = p
         /\ q >= p => sequenceDiff(SeqOf(p), SeqOf(q)) = q - p
         /\ q < p => sequenceDiff(SeqOf(p), SeqOf(q)) = q - p + M
<1>1. /\ FirstSeq \in 0 .. M - 1 /\ MaxSent \in Nat /\ Half \in Nat
      /\ MaxSent <= Half /\ M = Half + Half /\ M > 0 /\ Half > 0
  BY MAssumption, BufferAssumption, HalfIsHalf DEF Seqno
<1>2. /\ p \in Int /\ q \in Int /\ p >= 0 /\ q >= 0 /\ p <= Half /\ q <= Half
      /\ p < M /\ q < M
  BY <1>1
<1>3. /\ SeqOf(p) = IF FirstSeq + p >= M THEN FirstSeq + p - M ELSE FirstSeq + p
      /\ SeqOf(q) = IF FirstSeq + q >= M THEN FirstSeq + q - M ELSE FirstSeq + q
  BY DEF SeqOf, Advance
<1>4. SeqOf(p) \in Seqno
  BY <1>1, <1>2, <1>3 DEF Seqno
<1>5. PlaceOf(SeqOf(p)) = p
  BY <1>1, <1>2, <1>3 DEF PlaceOf, sequenceDiff
<1>6. q >= p => sequenceDiff(SeqOf(p), SeqOf(q)) = q - p
  BY <1>1, <1>2, <1>3 DEF sequenceDiff
<1>7. q < p => sequenceDiff(SeqOf(p), SeqOf(q)) = q - p + M
  BY <1>1, <1>2, <1>3 DEF sequenceDiff
<1> QED BY <1>4, <1>5, <1>6, <1>7

\* Two places of the stream, the end of it included, have different numbers,
\* and the number after a packet's is the next packet's.
LEMMA SeqOfInjective ==
  ASSUME NEW p \in 0 .. MaxSent, NEW q \in 0 .. MaxSent
  PROVE  /\ SeqOf(p) = SeqOf(q) => p = q
         /\ p < MaxSent => Advance(SeqOf(p), 1) = SeqOf(p + 1)
<1>1. /\ FirstSeq \in 0 .. M - 1 /\ MaxSent \in Nat /\ Half \in Nat
      /\ MaxSent <= Half /\ M = Half + Half /\ M > 0
  BY MAssumption, BufferAssumption, HalfIsHalf DEF Seqno
<1>2. p \in Int /\ q \in Int /\ p <= Half /\ q <= Half /\ p >= 0 /\ q >= 0
  BY <1>1
<1>4. SeqOf(p) = SeqOf(q) => p = q
  BY <1>1, <1>2 DEF SeqOf, Advance
<1>3. ASSUME p < MaxSent PROVE Advance(SeqOf(p), 1) = SeqOf(p + 1)
  <2>1. p + 1 \in 0 .. Half
    BY <1>1, <1>2, <1>3
  <2>2. CASE FirstSeq + p < M
    BY <1>1, <1>2, <2>1, <2>2 DEF SeqOf, Advance
  <2>3. CASE FirstSeq + p >= M
    BY <1>1, <1>2, <2>1, <2>3 DEF SeqOf, Advance
  <2> QED BY <1>1, <1>2, <2>2, <2>3
<1> QED BY <1>3, <1>4

\* A place of the stream is one of the places up to its end.
LEMMA PositionIsPlace ==
  ASSUME NEW p \in Position
  PROVE  p \in 0 .. MaxSent /\ p + 1 \in 0 .. MaxSent
BY BufferAssumption DEF Position

\* What was handed out are places, first and last.
LEMMA HandedEnds ==
  ASSUME IInv, handed # << >>
  PROVE  /\ Len(handed) \in Nat /\ Len(handed) >= 1
         /\ handed[1] \in Int /\ handed[Len(handed)] \in Int
<1>1. handed \in Seq(Position) /\ Position \subseteq Int
  BY BufferAssumption DEF IInv, TypeOK, Position
<1>2. Len(handed) \in Nat /\ Len(handed) >= 1
  BY <1>1
<1>3. 1 \in 1 .. Len(handed) /\ Len(handed) \in 1 .. Len(handed)
  BY <1>2
<1>4. handed[1] \in Position /\ handed[Len(handed)] \in Position
  BY <1>1, <1>3
<1> QED BY <1>1, <1>2, <1>4

\* After a first delivery the reader's place is not adjusted again.
LEMMA StartIsExpected ==
  ASSUME IInv, SkipInv, handed # << >>, NEW low \in Lowest
  PROVE  Start(low) = expectedSeq
<1>1. IsFiniteSet(Buffered) /\ Cardinality(Buffered) \in Nat
  BY BufferFinite DEF IInv, TypeOK
<1>2. Len(handed) > 0 /\ Len(handed) \in Nat /\ dropped \in Nat
  BY DEF IInv, TypeOK
<1>3. packetsReceived # Cardinality(Buffered)
  BY <1>1, <1>2 DEF IInv, Conservation
<1>4. initialized
  BY DEF SkipInv, Begun
<1>5. ~NothingTakenYet
  BY <1>3, <1>4, Zenon DEF NothingTakenYet
<1> QED BY <1>5, Zenon DEF Start

\* The start and the target of a retrieval are numbers of the stream, the
\* target that of the packet stored under it.
LEMMA TargetPlace ==
  ASSUME IInv, SkipInv, NEW low \in Lowest
  PROVE  /\ initialized
         /\ Place \in 0 .. MaxSent /\ expectedSeq = SeqOf(Place)
         /\ \E q \in 0 .. MaxSent : Start(low) = SeqOf(q)
         /\ packets[low].pos \in Position /\ SeqOf(packets[low].pos) = low
         /\ Target(low) \in Buffered
         /\ packets[Target(low)].pos \in Position
         /\ SeqOf(packets[Target(low)].pos) = Target(low)
<1>1. low \in Buffered /\ Target(low) \in Buffered
  BY Zenon DEF Lowest, Target
<1>2. initialized
  BY <1>1, Zenon DEF IInv, TypeOK
<1>3. /\ packets[low].pos \in Position /\ SeqOf(packets[low].pos) = low
      /\ packets[Target(low)].pos \in Position
      /\ SeqOf(packets[Target(low)].pos) = Target(low)
  BY <1>1 DEF IInv, TypeOK, Entry, SkipInv, Keyed
<1>4. PICK q \in 0 .. MaxSent : expectedSeq = SeqOf(q)
  BY <1>2, Zenon DEF SkipInv, PlaceKnown
<1>5. Place = q
  BY <1>4, DiffOfPlaces DEF Place
<1>6. \E r \in 0 .. MaxSent : Start(low) = SeqOf(r)
  <2>1. Start(low) = low \/ Start(low) = expectedSeq
    BY Zenon DEF Start
  <2>2. packets[low].pos \in 0 .. MaxSent
    BY <1>3, PositionIsPlace
  <2> QED BY <1>3, <1>4, <2>1, <2>2
<1> QED BY <1>1, <1>2, <1>3, <1>4, <1>5, <1>6

\* What a skip adds to the loss counter: the places passed, and a circle when
\* the packet skipped to is behind the reader.
LEMMA SkipDistance ==
  ASSUME IInv, SkipInv, handed # << >>, NEW low \in Lowest
  PROVE  LET ahead == packets[Target(low)].pos - Place
         IN  \/ /\ SentBackUpTo(low) = sentBack /\ ahead >= 0
                /\ LostUpTo(low) - packetsLost = ahead
             \/ /\ SentBackUpTo(low) = sentBack + 1
                /\ LostUpTo(low) - packetsLost = ahead + M
<1> DEFINE tp == packets[Target(low)].pos
           lp == packets[low].pos
<1>1. /\ Place \in 0 .. MaxSent /\ expectedSeq = SeqOf(Place)
      /\ lp \in Position /\ SeqOf(lp) = low
      /\ Target(low) \in Buffered
      /\ tp \in Position /\ SeqOf(tp) = Target(low)
  BY TargetPlace
<1>2. Start(low) = expectedSeq
  BY StartIsExpected
<1>3. PlaceOf(Start(low)) = Place
  BY <1>2 DEF Place
<1>4. /\ packetsLost \in Nat /\ sentBack \in Nat /\ M \in Int /\ MaxSent \in Nat
      /\ tp \in Int /\ lp \in Int /\ Place \in Int
  BY <1>1, MAssumption, BufferAssumption DEF IInv, TypeOK, Position
<1>5. CASE expectedSeq \in Buffered
  <2>1. Target(low) = expectedSeq /\ LostUpTo(low) = packetsLost
        /\ SentBackUpTo(low) = sentBack
    BY <1>2, <1>5, Zenon DEF Target, LostUpTo, SentBackUpTo
  <2>2. SeqOf(tp) = SeqOf(Place) /\ tp \in 0 .. MaxSent
    BY <1>1, <2>1, PositionIsPlace
  <2>3. tp = Place
    <3> HIDE DEF tp
    <3>1. PlaceOf(SeqOf(tp)) = tp /\ PlaceOf(SeqOf(Place)) = Place
      BY <1>1, <2>2, DiffOfPlaces
    <3> QED BY <2>2, <3>1
  <2> HIDE DEF tp
  <2>4. tp - Place = 0 /\ LostUpTo(low) - packetsLost = 0
    BY <1>4, <2>1, <2>3
  <2>5. SentBackUpTo(low) = sentBack /\ tp - Place >= 0
        /\ LostUpTo(low) - packetsLost = tp - Place
    BY <2>1, <2>4
  <2> QED BY <2>5 DEF tp
<1>6. CASE expectedSeq \notin Buffered
  <2>1. /\ Target(low) = low
        /\ LostUpTo(low) = packetsLost + sequenceDiff(expectedSeq, low)
        /\ SentBackUpTo(low) = IF lp < Place THEN sentBack + 1 ELSE sentBack
    <3>1. ~(Start(low) \in Buffered)
      BY <1>2, <1>6
    <3>2. Target(low) = low
      BY <3>1, Zenon DEF Target
    <3>3. LostUpTo(low) = packetsLost + sequenceDiff(Start(low), low)
      BY <3>1, Zenon DEF LostUpTo
    <3>4. SentBackUpTo(low) =
            IF packets[low].pos < PlaceOf(Start(low)) THEN sentBack + 1
            ELSE sentBack
      BY <3>1 DEF SentBackUpTo
    <3> QED BY <1>2, <1>3, <3>2, <3>3, <3>4
  <2>2. tp = lp
    BY <2>1
  <2>3. lp \in 0 .. MaxSent
    BY <1>1, PositionIsPlace
  <2> HIDE DEF lp
  <2>4. /\ lp >= Place => sequenceDiff(expectedSeq, low) = lp - Place
        /\ lp < Place => sequenceDiff(expectedSeq, low) = lp - Place + M
    BY <1>1, <2>3, DiffOfPlaces
  <2> HIDE DEF tp
  <2>5. \/ /\ SentBackUpTo(low) = sentBack /\ tp - Place >= 0
           /\ LostUpTo(low) - packetsLost = tp - Place
        \/ /\ SentBackUpTo(low) = sentBack + 1
           /\ LostUpTo(low) - packetsLost = tp - Place + M
    <3>1. CASE lp >= Place
      BY <1>4, <2>1, <2>2, <2>4, <3>1
    <3>2. CASE ~(lp >= Place)
      BY <1>4, <2>1, <2>2, <2>4, <3>2
    <3> QED BY <3>1, <3>2
  <2> QED BY <2>5 DEF tp
<1> QED BY <1>5, <1>6

\* The equation for a reader at `low's target: its place is that packet's.
LEMMA SkipEquation ==
  ASSUME IInv, SkipInv, handed # << >>, NEW low \in Lowest
  PROVE  LostUpTo(low) - lostAtFirst =
           packets[Target(low)].pos - handed[1] - Len(handed)
             + SentBackUpTo(low) * M
<1> DEFINE tp == packets[Target(low)].pos
           lost == LostUpTo(low)
           back == SentBackUpTo(low)
<1>1. packetsLost - lostAtFirst = Place - handed[1] - Len(handed) + sentBack * M
  BY DEF SkipInv, Counted
<1>2. \/ back = sentBack /\ lost - packetsLost = tp - Place
      \/ back = sentBack + 1 /\ lost - packetsLost = tp - Place + M
  BY SkipDistance
<1>3. /\ packetsLost \in Int /\ lostAtFirst \in Int /\ Place \in Int /\ lost \in Int
      /\ handed[1] \in Int /\ Len(handed) \in Int /\ tp \in Int
  BY TargetPlace, LostUpToType, HandedEnds DEF IInv, TypeOK, Position
<1>4. sentBack \in Nat /\ M \in Nat
  BY MAssumption DEF IInv, TypeOK
<1>5. sentBack * M \in Int /\ (sentBack + 1) * M = sentBack * M + M
  BY <1>4
<1> HIDE DEF tp, lost, back
<1> DEFINE turned == sentBack * M
           first  == handed[1]
           len    == Len(handed)
<1>6. CASE back = sentBack /\ lost - packetsLost = tp - Place
  <2>1. back * M = turned
    BY <1>6
  <2> HIDE DEF turned, first, len
  <2>2. lost - lostAtFirst = tp - first - len + turned
    BY <1>1, <1>3, <1>5, <1>6 DEF turned, first, len
  <2>3. lost - lostAtFirst = tp - first - len + back * M
    BY <2>1, <2>2
  <2> QED BY <2>3 DEF first, len, tp, lost, back
<1>7. CASE back = sentBack + 1 /\ lost - packetsLost = tp - Place + M
  <2>1. back * M = turned + M
    BY <1>5, <1>7
  <2> HIDE DEF turned, first, len
  <2>2. lost - lostAtFirst = tp - first - len + (turned + M)
    BY <1>1, <1>3, <1>4, <1>5, <1>7 DEF turned, first, len
  <2>3. lost - lostAtFirst = tp - first - len + back * M
    BY <2>1, <2>2
  <2> QED BY <2>3 DEF first, len, tp, lost, back
<1> QED BY <1>2, <1>6, <1>7

LEMMA SkipsOnAdd ==
  ASSUME IInv, SkipInv, NEW p \in flight, AddPacket(p)
  PROVE  SkipInv'
<1>1. UNCHANGED <<packetsLost, handed, lostAtFirst, sentBack>> /\ initialized'
  BY Zenon DEF AddPacket
<1>2. handed # << >> => expectedSeq' = expectedSeq
  BY Zenon DEF AddPacket, SkipInv, Begun
<1>3. Begun' /\ Counted' /\ Rising'
  <2>1. Begun'
    BY <1>1, Zenon DEF Begun
  <2>2. Counted'
    BY <1>1, <1>2 DEF SkipInv, Counted, Place, PlaceOf
  <2>3. Rising'
    BY <1>1, <1>2 DEF SkipInv, Rising, Place, PlaceOf
  <2> QED BY <2>1, <2>2, <2>3
<1>4. PlaceKnown'
  <2>1. p \in 0 .. MaxSent
    <3>1. p \in Position
      BY BufferAssumption DEF IInv, TypeOK, Position
    <3> QED BY <3>1, PositionIsPlace
  <2>2. expectedSeq' = IF initialized THEN expectedSeq ELSE SeqOf(p)
    BY DEF AddPacket
  <2>3. \E q \in 0 .. MaxSent : expectedSeq' = SeqOf(q)
    BY <2>1, <2>2, Zenon DEF SkipInv, PlaceKnown
  <2> QED BY <2>3 DEF PlaceKnown, SeqOf
<1>5. Keyed'
  <2>1. CASE AddDuplicate(p)
    BY <2>1 DEF AddDuplicate, SkipInv, Keyed, Buffered, SeqOf
  <2>2. CASE AddNew(p)
    <3> DEFINE entry == [pos |-> p, rank |-> packetsReceived]
               SoKeyed(f) == \A s \in DOMAIN f : SeqOf(f[s].pos) = s
    <3>1. SoKeyed(packets)
      BY DEF SkipInv, Keyed, Buffered
    <3>2. \A f, old : SoKeyed(f) => SoKeyed(Without(f, {old}))
      BY DEF Without
    <3>3. \A f : SoKeyed(f) => SoKeyed(With(f, SeqOf(p), entry))
      BY DEF With
    <3>4. \/ packets' = With(packets, SeqOf(p), entry)
          \/ \E old : packets' = With(Without(packets, {old}), SeqOf(p), entry)
      BY <2>2 DEF AddNew
    <3> HIDE DEF SoKeyed, entry
    <3>5. SoKeyed(packets')
      BY <3>1, <3>2, <3>3, <3>4
    <3> QED BY <3>5 DEF Keyed, Buffered, SeqOf, SoKeyed
  <2> QED BY <2>1, <2>2 DEF AddPacket
<1> QED BY <1>3, <1>4, <1>5 DEF SkipInv

\* A retrieval that hands nothing out because the packet has to wait.
LEMMA SkipsOnTooEarly ==
  ASSUME IInv, SkipInv, NEW low \in Lowest, GetTooEarly(low),
         initialized' = initialized
  PROVE  SkipInv'
<1> DEFINE tp == packets[Target(low)].pos
<1>1. /\ expectedSeq' = Target(low) /\ packetsLost' = LostUpTo(low)
      /\ sentBack' = SentBackUpTo(low)
      /\ UNCHANGED <<packets, handed, lostAtFirst>>
  BY DEF GetTooEarly
<1>2. /\ tp \in Position /\ SeqOf(tp) = Target(low) /\ tp \in 0 .. MaxSent
  BY TargetPlace, PositionIsPlace
<1> HIDE DEF tp
<1>3. Place' = tp
  <2>1. PlaceOf(SeqOf(tp)) = tp
    BY <1>2, DiffOfPlaces
  <2> QED BY <1>1, <1>2, <2>1 DEF Place, PlaceOf
<1>4. Keyed' /\ Begun'
  BY <1>1 DEF SkipInv, Keyed, Begun, Buffered, SeqOf
<1>5. PlaceKnown'
  BY <1>1, <1>2 DEF PlaceKnown, SeqOf
<1>6. CASE handed = << >>
  BY <1>1, <1>4, <1>5, <1>6 DEF SkipInv, Counted, Rising
<1>7. CASE handed # << >>
  <2>1. Counted'
    <3>1. LostUpTo(low) - lostAtFirst =
            tp - handed[1] - Len(handed) + SentBackUpTo(low) * M
      BY <1>7, SkipEquation DEF tp
    <3> QED BY <1>1, <1>3, <3>1 DEF Counted
  <2>2. Rising'
    <3>1. SUFFICES ASSUME SentBackUpTo(low) = 0
                   PROVE  /\ handed[Len(handed)] < tp
                          /\ \A k \in 1 .. Len(handed) - 1 : handed[k] < handed[k + 1]
      BY <1>1, <1>3 DEF Rising
    <3>2. sentBack \in Nat
      BY DEF IInv, TypeOK
    <3>3. sentBack = 0 /\ tp >= Place
      <4>1. SentBackUpTo(low) = sentBack /\ tp - Place >= 0
        BY <1>7, <3>1, <3>2, SkipDistance DEF tp
      <4>2. Place \in Int /\ tp \in Int
        BY <1>2, TargetPlace
      <4> QED BY <3>1, <4>1, <4>2
    <3>4. /\ handed[Len(handed)] < Place
          /\ \A k \in 1 .. Len(handed) - 1 : handed[k] < handed[k + 1]
      BY <1>7, <3>3 DEF SkipInv, Rising
    <3>5. handed[Len(handed)] \in Int /\ Place \in Int /\ tp \in Int
      BY <1>2, <1>7, TargetPlace, HandedEnds
    <3> QED BY <3>3, <3>4, <3>5
  <2> QED BY <1>4, <1>5, <2>1, <2>2 DEF SkipInv
<1> QED BY <1>6, <1>7

\* A retrieval that hands out the target's packet.
LEMMA SkipsOnServed ==
  ASSUME IInv, SkipInv, NEW low \in Lowest, GetServed(low),
         initialized' = initialized
  PROVE  SkipInv'
<1> DEFINE tp == packets[Target(low)].pos
<1>1. /\ expectedSeq' = Advance(Target(low), 1) /\ packetsLost' = LostUpTo(low)
      /\ packets' = Without(packets, {Target(low)})
      /\ handed' = Append(handed, tp)
  BY DEF GetServed
<1>2. /\ tp \in Position /\ SeqOf(tp) = Target(low) /\ tp \in 0 .. MaxSent
      /\ tp + 1 \in 0 .. MaxSent /\ initialized
  BY TargetPlace, PositionIsPlace
<1> HIDE DEF tp
<1>3. expectedSeq' = SeqOf(tp + 1)
  <2>1. tp < MaxSent
    BY <1>2, BufferAssumption DEF Position
  <2> QED BY <1>1, <1>2, <2>1, SeqOfInjective
<1>4. Place' = tp + 1
  <2>1. PlaceOf(SeqOf(tp + 1)) = tp + 1
    BY <1>2, DiffOfPlaces
  <2> QED BY <1>3, <2>1 DEF Place, PlaceOf
<1>5. Keyed'
  BY <1>1 DEF Without, SkipInv, Keyed, Buffered, SeqOf
<1>6. Begun' /\ PlaceKnown'
  BY <1>2, <1>3, Zenon DEF Begun, PlaceKnown, SeqOf
<1>7. handed \in Seq(Position) /\ lostAtFirst \in Int /\ tp \in Int
      /\ LostUpTo(low) \in Int
  BY <1>2, LostUpToType DEF IInv, TypeOK, Position
<1>8. /\ Len(handed') = Len(handed) + 1 /\ Len(handed) \in Nat
      /\ handed'[Len(handed')] = tp
      /\ \A k \in 1 .. Len(handed) : handed'[k] = handed[k]
  BY <1>1, <1>2, <1>7
<1>9. CASE handed = << >>
  <2>1. lostAtFirst' = packetsLost' /\ sentBack' = 0
    BY <1>1, <1>9 DEF GetServed
  <2>2. Len(handed') = 1 /\ handed'[1] = tp
    BY <1>8, <1>9
  <2>3. Counted'
    <3>1. sentBack' * M = 0 /\ packetsLost' - lostAtFirst' = 0
      BY <1>1, <1>7, <2>1, MAssumption
    <3>2. Place' - handed'[1] - Len(handed') = 0
      BY <1>4, <1>7, <2>2
    <3> QED BY <3>1, <3>2 DEF Counted
  <2>4. Rising'
    BY <1>4, <1>7, <2>2 DEF Rising
  <2> QED BY <1>5, <1>6, <2>3, <2>4 DEF SkipInv
<1>10. CASE handed # << >>
  <2>1. lostAtFirst' = lostAtFirst /\ sentBack' = SentBackUpTo(low)
    BY <1>10 DEF GetServed
  <2>2. Len(handed) >= 1 /\ handed'[1] = handed[1] /\ handed[1] \in Int
        /\ handed[Len(handed)] \in Int
    <3>1. Len(handed) >= 1 /\ handed[1] \in Int /\ handed[Len(handed)] \in Int
      BY <1>10, HandedEnds
    <3>2. 1 \in 1 .. Len(handed)
      BY <1>8, <3>1
    <3> QED BY <1>8, <3>1, <3>2
  <2>3. Counted'
    <3> DEFINE back == SentBackUpTo(low) * M
    <3>1. LostUpTo(low) - lostAtFirst = tp - handed[1] - Len(handed) + back
      BY <1>10, SkipEquation DEF tp
    <3>2. back \in Int
      <4>1. sentBack \in Nat
        BY DEF IInv, TypeOK
      <4>2. SentBackUpTo(low) \in Nat
        BY <4>1 DEF SentBackUpTo
      <4> QED BY <4>2, MAssumption
    <3>3. packetsLost' - lostAtFirst' = Place' - handed'[1] - Len(handed') + back
      <4> DEFINE lost  == LostUpTo(low)
                 first == handed[1]
                 len   == Len(handed)
      <4>1. /\ packetsLost' = lost /\ lostAtFirst' = lostAtFirst
            /\ Place' = tp + 1 /\ handed'[1] = first /\ Len(handed') = len + 1
        BY <1>1, <1>4, <1>8, <2>1, <2>2
      <4>2. lost \in Int /\ first \in Int /\ len \in Int
        BY <1>7, <1>8, <2>2
      <4>3. lost - lostAtFirst = tp - first - len + back
        BY <3>1
      <4> HIDE DEF back, lost, first, len
      <4>4. lost - lostAtFirst = (tp + 1) - first - (len + 1) + back
        BY <1>7, <3>2, <4>2, <4>3
      <4> QED BY <4>1, <4>4
    <3> QED BY <2>1, <3>3 DEF Counted
  <2>4. Rising'
    <3>1. SUFFICES ASSUME SentBackUpTo(low) = 0
                   PROVE  /\ handed'[Len(handed')] < Place'
                          /\ \A k \in 1 .. Len(handed') - 1 :
                               handed'[k] < handed'[k + 1]
      BY <2>1 DEF Rising
    <3>2. sentBack \in Nat
      BY DEF IInv, TypeOK
    <3>3. sentBack = 0 /\ tp >= Place
      <4>1. SentBackUpTo(low) = sentBack /\ tp - Place >= 0
        BY <1>10, <3>1, <3>2, SkipDistance DEF tp
      <4>2. Place \in Int
        BY TargetPlace
      <4> QED BY <1>7, <3>1, <4>1, <4>2
    <3>4. /\ handed[Len(handed)] < Place
          /\ \A k \in 1 .. Len(handed) - 1 : handed[k] < handed[k + 1]
      BY <1>10, <3>3 DEF SkipInv, Rising
    <3>5. handed[Len(handed)] < tp
      <4>1. Place \in Int
        BY TargetPlace
      <4> QED BY <1>7, <2>2, <3>3, <3>4, <4>1
    <3>6. ASSUME NEW k \in 1 .. Len(handed') - 1
          PROVE  handed'[k] < handed'[k + 1]
      <4>1. CASE k = Len(handed)
        BY <1>8, <2>2, <3>5, <4>1
      <4>2. CASE k # Len(handed)
        <5>1. /\ k \in 1 .. Len(handed) - 1 /\ k + 1 \in 1 .. Len(handed)
              /\ k \in 1 .. Len(handed)
          BY <1>8, <4>2
        <5> QED BY <1>8, <3>4, <5>1
      <4> QED BY <4>1, <4>2
    <3> QED BY <1>4, <1>7, <1>8, <3>6
  <2> QED BY <1>5, <1>6, <2>3, <2>4 DEF SkipInv
<1> QED BY <1>9, <1>10

LEMMA SkipsOnGet ==
  ASSUME IInv, SkipInv, GetNextPacket
  PROVE  SkipInv'
<1>1. initialized' = initialized
  BY DEF GetNextPacket
<1>2. CASE GetEmpty
  BY <1>1, <1>2 DEF GetEmpty, history, SkipInv, Keyed, Begun, PlaceKnown,
                    Counted, Rising, Place, PlaceOf, Buffered, SeqOf
<1>3. ASSUME NEW low \in Lowest, GetStalled(low)
      PROVE  SkipInv'
  <2>1. /\ expectedSeq' = Start(low)
        /\ UNCHANGED <<packets, packetsLost, handed, lostAtFirst, sentBack>>
    BY <1>3 DEF GetStalled, history
  <2>2. handed # << >> => expectedSeq' = expectedSeq
    BY <2>1, StartIsExpected
  <2>3. PlaceKnown'
    <3>1. \E q \in 0 .. MaxSent : Start(low) = SeqOf(q)
      BY TargetPlace
    <3> QED BY <2>1, <3>1 DEF PlaceKnown, SeqOf
  <2>4. Keyed' /\ Begun'
    BY <1>1, <2>1 DEF SkipInv, Keyed, Begun, Buffered, SeqOf
  <2>5. Counted' /\ Rising'
    BY <2>1, <2>2 DEF SkipInv, Counted, Rising, Place, PlaceOf
  <2> QED BY <2>3, <2>4, <2>5 DEF SkipInv
<1>4. ASSUME NEW low \in Lowest, GetTooEarly(low)
      PROVE  SkipInv'
  BY <1>1, <1>4, SkipsOnTooEarly
<1>5. ASSUME NEW low \in Lowest, GetServed(low)
      PROVE  SkipInv'
  BY <1>1, <1>5, SkipsOnServed
<1> QED BY <1>2, <1>3, <1>4, <1>5 DEF GetNextPacket

LEMMA BufferSkipInvariant == Spec => []SkipInv
<1>1. Init => SkipInv
  <2> SUFFICES ASSUME Init PROVE SkipInv
    OBVIOUS
  <2>1. handed = << >> /\ ~initialized /\ Buffered = {}
    BY DEF Init, NoPackets, Buffered
  <2> QED BY <2>1, Zenon DEF SkipInv, Keyed, Begun, PlaceKnown, Counted, Rising
<1>2. IInv /\ SkipInv /\ [Next]_vars => SkipInv'
  <2> SUFFICES ASSUME IInv, SkipInv, [Next]_vars PROVE SkipInv'
    OBVIOUS
  <2>1. CASE Send \/ (\E p \in flight : Lose(p)) \/ Wait \/ UNCHANGED vars
    <3>1. UNCHANGED <<packets, expectedSeq, initialized, packetsLost, handed,
                      lostAtFirst, sentBack>>
      BY <2>1 DEF Send, Lose, Wait, vars, network, counters, history
    <3> QED BY <3>1 DEF SkipInv, Keyed, Begun, PlaceKnown, Counted, Rising,
                        Place, PlaceOf, Buffered, SeqOf
  <2>2. CASE \E p \in flight : AddPacket(p)
    BY <2>2, SkipsOnAdd
  <2>3. CASE GetNextPacket
    BY <2>3, SkipsOnGet
  <2>4. CASE Reset
    <3>1. handed' = << >> /\ ~initialized' /\ Buffered' = {}
      BY <2>4 DEF Reset, NoPackets, Buffered
    <3> QED BY <3>1, Zenon DEF SkipInv, Keyed, Begun, PlaceKnown, Counted, Rising
  <2> QED BY <2>1, <2>2, <2>3, <2>4 DEF Next
<1> QED BY <1>1, <1>2, BufferInvariant, PTL DEF Spec

\* The loss counter accounts exactly for every packet the reader passed
\* without being given it, and is a circle too high for each time the reader
\* was sent back; while it was not, what it was given rises.
THEOREM BufferCountsSkips == Spec => []SkipsAreCounted
<1>1. SkipInv => SkipsAreCounted
  BY DEF SkipInv, Counted, Rising, SkipsAreCounted
<1> QED BY <1>1, BufferSkipInvariant, PTL
-----------------------------------------------------------------------------
(***************************************************************************)
(* InOrderWithoutLoss.  The property speaks of what was handed out, the     *)
(* code of the number it expects, so the inductive form says that without  *)
(* a loss the number expected is the one after the last packet handed out. *)
(* That this number is buffered under one packet only, the next, is        *)
(* because the stream is shorter than the circle.                          *)
(***************************************************************************)
OrderInv ==
  /\ packetsLost >= lostAtFirst
  /\ handed # << >> /\ packetsLost = lostAtFirst =>
       /\ expectedSeq = Advance(SeqOf(handed[Len(handed)]), 1)
       /\ InOrderWithoutLoss

\* A skip that counts nothing skips nothing.
LEMMA NoLossNoSkip ==
  ASSUME IInv, NEW low \in Lowest, Start(low) = expectedSeq
  PROVE  /\ LostUpTo(low) >= packetsLost
         /\ LostUpTo(low) = packetsLost => Target(low) = expectedSeq
<1>1. expectedSeq \in Seqno /\ packetsLost \in Nat /\ low \in Seqno
  BY LostUpToType DEF IInv, TypeOK
<1>2. sequenceDiff(expectedSeq, low) \in Nat
  BY <1>1, DiffType, MAssumption DEF Seqno
<1>3. sequenceDiff(expectedSeq, low) = 0 => expectedSeq = low
  BY <1>1, MAssumption DEF Seqno, sequenceDiff
<1> QED BY <1>1, <1>2, <1>3 DEF LostUpTo, Target

LEMMA OrderOnGet ==
  ASSUME IInv, SkipInv, OrderInv, GetNextPacket
  PROVE  OrderInv'
<1> USE DEF OrderInv, InOrderWithoutLoss
<1>1. /\ packetsLost \in Nat /\ lostAtFirst \in Nat /\ handed \in Seq(Position)
      /\ packetsLost >= lostAtFirst
  BY DEF IInv, TypeOK
<1>2. CASE GetEmpty
  BY <1>2 DEF GetEmpty, history, SeqOf
<1>3. ASSUME NEW low \in Lowest, GetStalled(low)
      PROVE  OrderInv'
  BY <1>3, StartIsExpected DEF GetStalled, history, SeqOf
<1>4. ASSUME NEW low \in Lowest, GetTooEarly(low)
      PROVE  OrderInv'
  <2>1. /\ expectedSeq' = Target(low) /\ packetsLost' = LostUpTo(low)
        /\ UNCHANGED <<handed, lostAtFirst>>
    BY <1>4 DEF GetTooEarly, history
  <2>2. LostUpTo(low) \in Nat
    BY LostUpToType
  <2>3. LostUpTo(low) >= packetsLost
    <3>1. sequenceDiff(Start(low), low) \in Nat
      BY LostUpToType, DiffType, MAssumption DEF Seqno
    <3> QED BY <1>1, <3>1 DEF LostUpTo
  <2>4. CASE handed = << >>
    BY <1>1, <2>1, <2>2, <2>3, <2>4
  <2>5. CASE handed # << >>
    <3>1. LostUpTo(low) = packetsLost => Target(low) = expectedSeq
      BY <2>5, StartIsExpected, NoLossNoSkip
    <3> QED BY <1>1, <2>1, <2>2, <2>3, <2>5, <3>1 DEF SeqOf
  <2> QED BY <2>4, <2>5
<1>5. ASSUME NEW low \in Lowest, GetServed(low)
      PROVE  OrderInv'
  <2> DEFINE t == Target(low)
             p == packets[t].pos
  <2>1. t \in Buffered /\ t \in Seqno /\ LostUpTo(low) \in Nat
    BY <1>5, LostUpToType DEF GetServed
  <2>2. p \in Position /\ SeqOf(p) = t
    BY <2>1 DEF IInv, TypeOK, Entry, SkipInv, Keyed
  <2>3. /\ expectedSeq' = Advance(t, 1)
        /\ packetsLost' = LostUpTo(low) /\ handed' = Append(handed, p)
    BY <1>5 DEF GetServed
  <2>4. handed'[Len(handed')] = p /\ Len(handed') = Len(handed) + 1
        /\ \A k \in 1 .. Len(handed) : handed'[k] = handed[k]
    BY <1>1, <2>2, <2>3
  <2>5. expectedSeq' = Advance(SeqOf(handed[Len(handed)])', 1)
    BY <2>2, <2>3, <2>4 DEF SeqOf
  <2> HIDE DEF t, p
  <2>6. CASE handed = << >>
    <3>1. lostAtFirst' = packetsLost' /\ Len(handed') = 1
      BY <1>5, <2>3, <2>4, <2>6 DEF GetServed
    <3> QED BY <2>1, <2>3, <2>5, <3>1
  <2>7. CASE handed # << >>
    <3>1. /\ LostUpTo(low) >= packetsLost
          /\ LostUpTo(low) = packetsLost => t = expectedSeq
      BY <2>7, StartIsExpected, NoLossNoSkip DEF t
    <3>2. lostAtFirst' = lostAtFirst
      BY <1>5, <2>7 DEF GetServed
    <3>3. SUFFICES ASSUME packetsLost' = lostAtFirst'
                   PROVE  InOrderWithoutLoss'
      BY <1>1, <2>1, <2>3, <2>5, <3>1, <3>2
    <3>4. packetsLost = lostAtFirst /\ t = expectedSeq
      BY <1>1, <2>1, <2>3, <3>1, <3>2, <3>3
    <3> DEFINE last == handed[Len(handed)]
    <3>5. last \in Position /\ Len(handed) \in Nat \ {0}
      BY <1>1, <2>7
    <3>6. SeqOf(p) = Advance(SeqOf(last), 1)
      BY <2>2, <2>7, <3>4
    <3>7. p = last + 1
      <4>1. /\ p \in 0 .. MaxSent /\ last \in 0 .. MaxSent
            /\ last + 1 \in 0 .. MaxSent /\ last < MaxSent
        BY <2>2, <3>5, BufferAssumption DEF Position
      <4> HIDE DEF last
      <4>2. SeqOf(p) = SeqOf(last + 1)
        BY <3>6, <4>1, SeqOfInjective
      <4> QED BY <4>1, <4>2, SeqOfInjective
    <3>8. \A k \in 1 .. Len(handed) - 1 : handed[k + 1] = handed[k] + 1
      BY <2>7, <3>4
    <3>9. ASSUME NEW k \in 1 .. Len(handed') - 1
          PROVE  handed'[k + 1] = handed'[k] + 1
      <4>1. CASE k = Len(handed)
        BY <2>4, <3>5, <3>7, <4>1
      <4>2. CASE k # Len(handed)
        <5>1. k \in 1 .. Len(handed) - 1 /\ k + 1 \in 1 .. Len(handed)
              /\ k \in 1 .. Len(handed)
          BY <2>4, <3>5, <4>2
        <5> QED BY <2>4, <3>8, <5>1
      <4> QED BY <4>1, <4>2
    <3> QED BY <3>9
  <2> QED BY <2>6, <2>7
<1> QED BY <1>2, <1>3, <1>4, <1>5 DEF GetNextPacket

\* Until a loss is counted the reader is given the stream in order, each
\* packet once.
THEOREM BufferKeepsOrder == Spec => []InOrderWithoutLoss
<1>1. Init => OrderInv
  BY DEF Init, OrderInv
<1>2. IInv /\ SkipInv /\ OrderInv /\ [Next]_vars => OrderInv'
  <2> SUFFICES ASSUME IInv, SkipInv, OrderInv, [Next]_vars PROVE OrderInv'
    OBVIOUS
  <2>1. CASE Send \/ (\E p \in flight : Lose(p)) \/ Wait \/ UNCHANGED vars
    BY <2>1 DEF Send, Lose, Wait, vars, network, counters, history, OrderInv,
                InOrderWithoutLoss, SeqOf
  <2>2. CASE \E p \in flight : AddPacket(p)
    <3>1. UNCHANGED <<packetsLost, handed, lostAtFirst>>
      BY <2>2 DEF AddPacket
    <3>2. handed # << >> => expectedSeq' = expectedSeq
      BY <2>2, Zenon DEF AddPacket, SkipInv, Begun
    <3> QED BY <3>1, <3>2 DEF OrderInv, InOrderWithoutLoss, SeqOf
  <2>3. CASE GetNextPacket
    BY <2>3, OrderOnGet
  <2>4. CASE Reset
    BY <2>4 DEF Reset, OrderInv
  <2> QED BY <2>1, <2>2, <2>3, <2>4 DEF Next
<1>3. IInv /\ OrderInv => InOrderWithoutLoss
  BY DEF IInv, TypeOK, OrderInv, InOrderWithoutLoss
<1> QED BY <1>1, <1>2, <1>3, BufferInvariant, BufferSkipInvariant, PTL DEF Spec
-----------------------------------------------------------------------------
(***************************************************************************)
(* GapsAreMissing follows from IInv and Keyed: the circular order of the   *)
(* buffered numbers is the order of their packets in the stream, so the    *)
(* neighbours of the sorted buffer are the ends of the holes in it.        *)
(***************************************************************************)

\* A set of natural numbers has a least, and with a bound a greatest element.
LEMMA LeastOf ==
  ASSUME NEW T, T \subseteq Nat, T # {}
  PROVE  \E x \in T : \A y \in T : x <= y
<1> DEFINE Upto == {0 .. x : x \in T}
           R    == StrictSubsetOrdering(Nat)
<1>1. Upto \subseteq FiniteSubsetsOf(Nat) /\ Upto # {}
  <2>1. ASSUME NEW x \in T PROVE 0 .. x \in FiniteSubsetsOf(Nat)
    <3>1. x \in Int /\ 0 \in Int
      OBVIOUS
    <3>2. IsFiniteSet(0 .. x)
      BY <3>1, FS_Interval
    <3>3. 0 .. x \in SUBSET Nat
      OBVIOUS
    <3> QED BY <3>2, <3>3 DEF FiniteSubsetsOf
  <2> QED BY <2>1
<1>2. IsWellFoundedOn(R, FiniteSubsetsOf(Nat))
  BY FS_StrictSubsetOrderingWellFounded
<1> HIDE DEF Upto, R
<1>3. PICK I \in Upto : \A J \in Upto : ~(<<J, I>> \in R)
  BY <1>1, <1>2, WFMin
<1>4. PICK x \in T : I = 0 .. x
  BY <1>3 DEF Upto
<1>5. ASSUME NEW y \in T, y < x PROVE FALSE
  <2>1. 0 .. y \in Upto
    BY DEF Upto
  <2>2. /\ 0 .. y \subseteq 0 .. x /\ x \notin 0 .. y /\ x \in 0 .. x
        /\ 0 .. y \in SUBSET Nat /\ 0 .. x \in SUBSET Nat
    BY <1>5
  <2>3. <<0 .. y, 0 .. x>> \in R
    BY <2>2 DEF R, StrictSubsetOrdering
  <2> QED BY <1>3, <1>4, <2>1, <2>3
<1>6. \A y \in T : x <= y
  BY <1>5
<1> QED BY <1>6

LEMMA GreatestOf ==
  ASSUME NEW b \in Nat, NEW T, T \subseteq 0 .. b, T # {}
  PROVE  \E x \in T : \A y \in T : y <= x
<1> DEFINE Flip == {b - x : x \in T}
<1>1. Flip \subseteq Nat /\ Flip # {}
  <2>1. \A x \in T : b - x \in Nat
    OBVIOUS
  <2> QED BY <2>1
<1> HIDE DEF Flip
<1>2. PICK z \in Flip : \A y \in Flip : z <= y
  BY <1>1, LeastOf
<1>3. PICK x \in T : z = b - x
  BY <1>2 DEF Flip
<1>4. ASSUME NEW y \in T PROVE y <= x
  <2>1. b - y \in Flip
    BY DEF Flip
  <2>2. z <= b - y
    BY <1>2, <2>1
  <2> QED BY <1>3, <2>2
<1> QED BY <1>4

\* On the numbers of the stream the code's order, distance and walk are those
\* of the places.
LEMMA StreamOrder ==
  ASSUME NEW p \in Position, NEW q \in Position
  PROVE  /\ sequenceCompare(SeqOf(p), SeqOf(q)) < 0 <=> p < q
         /\ p < q => sequenceDiff(SeqOf(p), SeqOf(q)) = q - p
         /\ p < q => Advance(SeqOf(p), q - p) = SeqOf(q)
<1>1. /\ FirstSeq \in 0 .. M - 1 /\ MaxSent \in Nat /\ Half \in Nat
      /\ MaxSent <= Half /\ M = Half + Half /\ M > 0
  BY MAssumption, BufferAssumption, HalfIsHalf DEF Seqno
<1>2. /\ p \in Int /\ q \in Int /\ p >= 0 /\ q >= 0 /\ p < Half /\ q < Half
  BY <1>1 DEF Position
<1>3. /\ SeqOf(p) = IF FirstSeq + p >= M THEN FirstSeq + p - M ELSE FirstSeq + p
      /\ SeqOf(q) = IF FirstSeq + q >= M THEN FirstSeq + q - M ELSE FirstSeq + q
  BY DEF SeqOf, Advance
<1>4. sequenceCompare(SeqOf(p), SeqOf(q)) < 0 <=> p < q
  BY <1>1, <1>2, <1>3 DEF sequenceCompare
<1>5. p < q => sequenceDiff(SeqOf(p), SeqOf(q)) = q - p
  BY <1>1, <1>2, <1>3 DEF sequenceDiff
<1>6. p < q => Advance(SeqOf(p), q - p) = SeqOf(q)
  BY <1>1, <1>2, <1>3 DEF Advance
<1> QED BY <1>4, <1>5, <1>6

\* The neighbours of the sorted buffer, and the packets it holds.
Neighbours ==
  {st \in Buffered \X Buffered :
     /\ sequenceCompare(st[1], st[2]) < 0
     /\ ~\E u \in Buffered :
           sequenceCompare(st[1], u) < 0 /\ sequenceCompare(u, st[2]) < 0}

Held == {packets[s].pos : s \in Buffered}

Missing == {q \in Position \ Held : \E l, h \in Held : l < q /\ q < h}

LEMMA GapsByNeighbours ==
  DetectGaps =
    UNION {{Advance(st[1], j) : j \in 1 .. sequenceDiff(st[1], st[2]) - 1} :
             st \in Neighbours}
BY DEF DetectGaps, Neighbours

\* A buffered number and the packet under it determine each other.
LEMMA HeldIsBuffered ==
  ASSUME IInv, Keyed
  PROVE  /\ Held \subseteq Position
         /\ \A p \in Held : SeqOf(p) \in Buffered /\ packets[SeqOf(p)].pos = p
         /\ \A s \in Buffered : packets[s].pos \in Held /\ SeqOf(packets[s].pos) = s
BY DEF IInv, TypeOK, Entry, Keyed, Held

\* A number reported belongs to a packet missing between two buffered ones.
LEMMA ReportedIsMissing ==
  ASSUME IInv, Keyed, NEW x \in DetectGaps
  PROVE  \E q \in Missing : x = SeqOf(q)
<1>1. PICK st \in Neighbours : \E j \in 1 .. sequenceDiff(st[1], st[2]) - 1 :
        x = Advance(st[1], j)
  BY GapsByNeighbours
<1>2. PICK j \in 1 .. sequenceDiff(st[1], st[2]) - 1 : x = Advance(st[1], j)
  BY <1>1
<1>3. /\ st[1] \in Buffered /\ st[2] \in Buffered
      /\ sequenceCompare(st[1], st[2]) < 0
      /\ \A u \in Buffered :
           ~(sequenceCompare(st[1], u) < 0 /\ sequenceCompare(u, st[2]) < 0)
  BY <1>1 DEF Neighbours
<1>4. PICK l \in Held : st[1] = SeqOf(l)
  BY <1>3, HeldIsBuffered
<1>5. PICK h \in Held : st[2] = SeqOf(h)
  BY <1>3, HeldIsBuffered
<1>6. l \in Position /\ h \in Position /\ MaxSent \in Nat
  BY HeldIsBuffered, BufferAssumption
<1>7. l < h /\ sequenceDiff(st[1], st[2]) = h - l
  BY <1>3, <1>4, <1>5, <1>6, StreamOrder
<1>8. /\ l + j \in Position /\ l < l + j /\ l + j < h /\ (l + j) - l = j
  BY <1>2, <1>6, <1>7 DEF Position
<1>9. x = SeqOf(l + j)
  BY <1>2, <1>4, <1>6, <1>8, StreamOrder
<1>10. l + j \notin Held
  <2> SUFFICES ASSUME l + j \in Held PROVE FALSE
    OBVIOUS
  <2>1. SeqOf(l + j) \in Buffered
    BY HeldIsBuffered
  <2>2. /\ sequenceCompare(SeqOf(l), SeqOf(l + j)) < 0
        /\ sequenceCompare(SeqOf(l + j), SeqOf(h)) < 0
    BY <1>6, <1>8, StreamOrder
  <2> QED BY <1>3, <1>4, <1>5, <2>1, <2>2
<1>11. l + j \in Missing
  BY <1>8, <1>10 DEF Missing
<1> QED BY <1>9, <1>11

\* A packet missing between two buffered ones is reported.
LEMMA MissingIsReported ==
  ASSUME IInv, Keyed, NEW q \in Missing
  PROVE  SeqOf(q) \in DetectGaps
<1> DEFINE Below == {p \in Held : p < q}
           Above == {p \in Held : q < p}
<1>1. /\ q \in Position /\ q \notin Held /\ Below # {} /\ Above # {}
  BY DEF Missing
<1>2. Held \subseteq Position /\ MaxSent \in Nat
  BY HeldIsBuffered, BufferAssumption
<1>3. MaxSent - 1 \in Nat
  BY <1>1, <1>2 DEF Position
<1>4. PICK l \in Below : \A y \in Below : y <= l
  <2>1. Below \subseteq 0 .. MaxSent - 1
    BY <1>2 DEF Position
  <2> HIDE DEF Below
  <2> QED BY <1>1, <1>3, <2>1, GreatestOf
<1>5. PICK h \in Above : \A y \in Above : h <= y
  <2>1. Above \subseteq Nat
    <3>1. Position \subseteq Nat
      BY DEF Position
    <3> QED BY <1>2, <3>1
  <2> HIDE DEF Above
  <2> QED BY <1>1, <2>1, LeastOf
<1>6. l \in Held /\ h \in Held /\ l \in Position /\ h \in Position
      /\ l < q /\ q < h /\ l < h
  BY <1>1, <1>2, <1>4, <1>5 DEF Position
<1> DEFINE st == <<SeqOf(l), SeqOf(h)>>
<1>7. st \in Neighbours
  <2>1. SeqOf(l) \in Buffered /\ SeqOf(h) \in Buffered
    BY <1>6, HeldIsBuffered
  <2>2. sequenceCompare(SeqOf(l), SeqOf(h)) < 0
    BY <1>6, StreamOrder
  <2>3. ASSUME NEW u \in Buffered,
               sequenceCompare(SeqOf(l), u) < 0, sequenceCompare(u, SeqOf(h)) < 0
        PROVE  FALSE
    <3>1. PICK m \in Held : u = SeqOf(m)
      BY HeldIsBuffered
    <3>2. m \in Position /\ l < m /\ m < h
      BY <1>2, <1>6, <2>3, <3>1, StreamOrder
    <3>3. m # q
      BY <1>1, <3>1
    <3> QED BY <1>1, <1>4, <1>5, <1>6, <3>1, <3>2, <3>3 DEF Position
  <2> QED BY <2>1, <2>2, <2>3 DEF Neighbours
<1>8. sequenceDiff(SeqOf(l), SeqOf(h)) = h - l
  BY <1>6, StreamOrder
<1>9. q - l \in 1 .. (h - l) - 1
  BY <1>1, <1>6 DEF Position
<1>10. SeqOf(q) = Advance(SeqOf(l), q - l)
  BY <1>1, <1>6, StreamOrder
<1>11. SeqOf(q) \in {Advance(st[1], j) : j \in 1 .. sequenceDiff(st[1], st[2]) - 1}
  BY <1>8, <1>9, <1>10
<1> HIDE DEF st
<1> QED BY <1>7, <1>11, GapsByNeighbours

\* What DetectGaps reports is what is missing (jitter.go DetectGaps).
THEOREM GapsAreExact == Spec => []GapsAreMissing
<1>1. IInv /\ SkipInv => GapsAreMissing
  <2> SUFFICES ASSUME IInv, Keyed PROVE DetectGaps = {SeqOf(q) : q \in Missing}
    BY DEF SkipInv, GapsAreMissing, Missing, Held
  <2> QED BY ReportedIsMissing, MissingIsReported
<1> QED BY <1>1, BufferInvariant, BufferSkipInvariant, PTL
=============================================================================
