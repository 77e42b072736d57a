---------------------------- MODULE JitterBuffer ----------------------------
(***************************************************************************)
(* pkg/rtp/jitter.go: the buffer that puts RTP packets back in sequence.   *)
(* A network that may lose, delay, reorder and duplicate feeds AddPacket,  *)
(* and a reader polls GetNextPacket.  Every method holds jb.mu throughout, *)
(* so each is one action.                                                  *)
(*                                                                         *)
(* A packet is its position in the sender's stream; what the code sees of  *)
(* it is SeqOf(position).  Arrival times are kept as ranks (the number of  *)
(* packets received before), and `ripe' is the rank of the youngest packet *)
(* that has been buffered for maxDelay/4.  The jitter average (jitterSum,  *)
(* jitterSamples, lastTimestamp) is read by nothing but GetStatistics and  *)
(* is left out.                                                            *)
(***************************************************************************)
EXTENDS SequenceNumbers, Sequences, FiniteSets

CONSTANTS maxSize,     \* capacity given to NewJitterBuffer
          FirstSeq,    \* sequence number of the sender's first packet
          MaxSent,     \* bound: packets the sender sends
          MaxCopies    \* bound: duplicates the network makes

ASSUME BufferAssumption ==
  /\ maxSize \in Nat \ {0}
  /\ FirstSeq \in Seqno
  /\ MaxSent \in Nat /\ MaxSent <= Half
  /\ MaxCopies \in Nat

VARIABLES
  sent, flight, copies,                          \* the sender and the network
  packets, expectedSeq, initialized,             \* type JitterBuffer
  packetsReceived, packetsLost, packetsDuplicate,
  ripe,                                          \* the clock
  answer,                                        \* what the last call returned
  handed, dropped, lostAtFirst, sentBack         \* history since Reset

network  == <<sent, flight, copies>>
counters == <<packetsReceived, packetsLost, packetsDuplicate>>
history  == <<handed, dropped, lostAtFirst, sentBack>>
vars == <<network, packets, expectedSeq, initialized, counters, ripe, answer,
          history>>

Position == 0 .. MaxSent - 1
SeqOf(p) == Advance(FirstSeq, p)
Buffered == DOMAIN packets

NoPackets      == [s \in {} |-> 0]
With(f, k, v)  == [x \in DOMAIN f \cup {k} |-> IF x = k THEN v ELSE f[x]]
Without(f, S)  == [x \in DOMAIN f \ S |-> f[x]]

Init ==
  /\ sent = 0 /\ flight = {} /\ copies = 0
  /\ packets = NoPackets /\ expectedSeq = 0 /\ initialized = FALSE
  /\ packetsReceived = 0 /\ packetsLost = 0 /\ packetsDuplicate = 0
  /\ ripe = 0 /\ answer = "none"
  /\ handed = << >> /\ dropped = 0 /\ lostAtFirst = 0 /\ sentBack = 0
-----------------------------------------------------------------------------
(* The sender and the network, which the code does not control.            *)

Send ==
  /\ sent < MaxSent
  /\ sent' = sent + 1
  /\ flight' = flight \cup {sent}
  /\ UNCHANGED <<copies, packets, expectedSeq, initialized, counters, ripe,
                 answer, history>>

Lose(p) ==
  /\ p \in flight
  /\ flight' = flight \ {p}
  /\ UNCHANGED <<sent, copies, packets, expectedSeq, initialized, counters,
                 ripe, answer, history>>

\* The network hands p to the caller of AddPacket; when it duplicates, one
\* more p is still to come.
Arrives(p) ==
  /\ p \in flight
  /\ \/ flight' = flight \ {p} /\ UNCHANGED copies
     \/ copies < MaxCopies /\ copies' = copies + 1 /\ UNCHANGED flight
  /\ UNCHANGED sent

\* Time passes: some more of the packets received have waited maxDelay/4.
Wait ==
  /\ ripe < packetsReceived
  /\ ripe' \in (ripe + 1) .. packetsReceived
  /\ UNCHANGED <<network, packets, expectedSeq, initialized, counters, answer,
                 history>>
-----------------------------------------------------------------------------
\* Buffered packets that arrived first: what dropOldestPacket may delete.
Oldest == {s \in Buffered : \A t \in Buffered : packets[s].rank <= packets[t].rank}

\* The sequence numbers no other buffered number precedes: the result of
\* findNextAvailableSequence on a buffer that is not empty.
Lowest == {s \in Buffered : \A t \in Buffered : sequenceCompare(t, s) >= 0}

AddDuplicate(p) ==
  /\ SeqOf(p) \in Buffered
  /\ packetsDuplicate' = packetsDuplicate + 1
  /\ answer' = "duplicate"
  /\ UNCHANGED <<packets, packetsReceived, dropped>>

\* Mutant: room is made one packet late.
AddNewLate(p) ==
  /\ SeqOf(p) \notin Buffered
  /\ LET entry == [pos |-> p, rank |-> packetsReceived]
     IN  \/ /\ Cardinality(Buffered) <= maxSize
            /\ packets' = With(packets, SeqOf(p), entry)
            /\ UNCHANGED dropped
         \/ /\ Cardinality(Buffered) > maxSize
            /\ \E old \in Oldest :
                 packets' = With(Without(packets, {old}), SeqOf(p), entry)
            /\ dropped' = dropped + 1
  /\ packetsReceived' = packetsReceived + 1
  /\ answer' = "added"
  /\ UNCHANGED packetsDuplicate

AddNew(p) ==
  /\ SeqOf(p) \notin Buffered
  /\ LET entry == [pos |-> p, rank |-> packetsReceived]
     IN  \/ /\ Cardinality(Buffered) < maxSize
            /\ packets' = With(packets, SeqOf(p), entry)
            /\ UNCHANGED dropped
         \/ /\ Cardinality(Buffered) >= maxSize
            /\ \E old \in Oldest :
                 packets' = With(Without(packets, {old}), SeqOf(p), entry)
            /\ dropped' = dropped + 1
  /\ packetsReceived' = packetsReceived + 1
  /\ answer' = "added"
  /\ UNCHANGED packetsDuplicate

AddPacket(p) ==
  /\ Arrives(p)
  /\ initialized' = TRUE
  /\ expectedSeq' = IF initialized THEN expectedSeq ELSE SeqOf(p)
  /\ AddDuplicate(p) \/ AddNew(p)
  /\ UNCHANGED <<packetsLost, ripe, handed, lostAtFirst, sentBack>>
-----------------------------------------------------------------------------
(* GetNextPacket.  `Start' is the expected number after the adjustment of  *)
(* the first retrieval; 0 doubles as "nothing found" in the code, so a     *)
(* lowest number of 0 neither adjusts the start nor is skipped to.         *)

NothingTakenYet == ~initialized \/ packetsReceived = Cardinality(Buffered)

Start(low) ==
  IF NothingTakenYet /\ low # 0 /\ sequenceCompare(low, expectedSeq) < 0
  THEN low ELSE expectedSeq

GetEmpty ==
  /\ Buffered = {}
  /\ answer' = "empty"
  /\ UNCHANGED <<packets, expectedSeq, packetsLost, history>>

\* The expected number is missing and the lowest is the sentinel.
GetStalled(low) ==
  /\ Start(low) \notin Buffered /\ low = 0
  /\ expectedSeq' = Start(low)
  /\ answer' = "notready"
  /\ UNCHANGED <<packets, packetsLost, history>>

\* The number to be served and the loss counter once the gap before it, if
\* any, is skipped.
Target(low) == IF Start(low) \in Buffered THEN Start(low) ELSE low

\* Mutant: a skip is not counted as loss.
LostUpToUncounted(low) == packetsLost

LostUpTo(low) ==
  IF Start(low) \in Buffered THEN packetsLost
  ELSE packetsLost + sequenceDiff(Start(low), low)

\* The packet the reader looks for next, as a place in the stream.
PlaceOf(seq) == sequenceDiff(FirstSeq, seq)
Place == PlaceOf(expectedSeq)

\* History: times the lowest number was behind the reader's place.  The code
\* takes it for a number ahead, nearly a whole circle away.
SentBackUpTo(low) ==
  IF Start(low) \notin Buffered /\ packets[low].pos < PlaceOf(Start(low))
  THEN sentBack + 1 ELSE sentBack

\* Mutant: a gap is never skipped.
CanServeInTurn(low) == Start(low) \in Buffered

CanServe(low)  == Start(low) \in Buffered \/ low # 0
MustWait(s) == Cardinality(Buffered) > 1 /\ packets[s].rank >= ripe

\* Mutant: the skip is forgotten while the packet waits, its count is not.
GetTooEarlyForgets(low) ==
  /\ CanServe(low) /\ MustWait(Target(low))
  /\ expectedSeq' = Start(low)
  /\ packetsLost' = LostUpTo(low)
  /\ sentBack' = SentBackUpTo(low)
  /\ answer' = "notready"
  /\ UNCHANGED <<packets, handed, dropped, lostAtFirst>>

\* The skip and its loss count stay even when the packet has to wait.
GetTooEarly(low) ==
  /\ CanServe(low) /\ MustWait(Target(low))
  /\ expectedSeq' = Target(low)
  /\ packetsLost' = LostUpTo(low)
  /\ sentBack' = SentBackUpTo(low)
  /\ answer' = "notready"
  /\ UNCHANGED <<packets, handed, dropped, lostAtFirst>>

\* Mutant: the packet handed out stays in the buffer.
GetServedKeeps(low) ==
  /\ CanServe(low) /\ ~MustWait(Target(low))
  /\ expectedSeq' = Advance(Target(low), 1)
  /\ packetsLost' = LostUpTo(low)
  /\ answer' = "packet"
  /\ handed' = Append(handed, packets[Target(low)].pos)
  /\ lostAtFirst' = IF handed = << >> THEN LostUpTo(low) ELSE lostAtFirst
  /\ sentBack' = IF handed = << >> THEN 0 ELSE SentBackUpTo(low)
  /\ UNCHANGED <<packets, dropped>>

GetServed(low) ==
  /\ CanServe(low) /\ ~MustWait(Target(low))
  /\ expectedSeq' = Advance(Target(low), 1)
  /\ packetsLost' = LostUpTo(low)
  /\ packets' = Without(packets, {Target(low)})
  /\ answer' = "packet"
  /\ handed' = Append(handed, packets[Target(low)].pos)
  /\ lostAtFirst' = IF handed = << >> THEN LostUpTo(low) ELSE lostAtFirst
  /\ sentBack' = IF handed = << >> THEN 0 ELSE SentBackUpTo(low)
  /\ UNCHANGED dropped

GetNextPacket ==
  /\ \/ GetEmpty
     \/ \E low \in Lowest : GetStalled(low) \/ GetTooEarly(low) \/ GetServed(low)
  /\ UNCHANGED <<network, initialized, packetsReceived, packetsDuplicate, ripe>>

Reset ==
  /\ packets' = NoPackets /\ initialized' = FALSE
  /\ packetsReceived' = 0 /\ packetsLost' = 0 /\ packetsDuplicate' = 0
  /\ ripe' = 0 /\ answer' = "none"
  /\ handed' = << >> /\ dropped' = 0 /\ lostAtFirst' = 0 /\ sentBack' = 0
  /\ UNCHANGED <<network, expectedSeq>>

\* Mutant: the buffer is sorted by plain number, the wraparound ignored.
DetectGapsPlain ==
  LET neighbours == {st \in Buffered \X Buffered :
                       /\ st[1] < st[2]
                       /\ ~\E u \in Buffered : st[1] < u /\ u < st[2]}
  IN  UNION {{Advance(st[1], j) : j \in 1 .. sequenceDiff(st[1], st[2]) - 1} :
               st \in neighbours}

\* The sequence numbers DetectGaps reports: those strictly between two
\* neighbours of the sorted buffer.
DetectGaps ==
  LET precedes(s, t) == sequenceCompare(s, t) < 0
      neighbours == {st \in Buffered \X Buffered :
                       /\ precedes(st[1], st[2])
                       /\ ~\E u \in Buffered :
                             precedes(st[1], u) /\ precedes(u, st[2])}
  IN  UNION {{Advance(st[1], j) : j \in 1 .. sequenceDiff(st[1], st[2]) - 1} :
               st \in neighbours}

Next ==
  \/ Send
  \/ \E p \in flight : Lose(p) \/ AddPacket(p)
  \/ Wait
  \/ GetNextPacket
  \/ Reset

Spec == Init /\ [][Next]_vars

\* A reader that keeps polling, in a world where time keeps passing.
FairSpec == Spec /\ WF_vars(Wait) /\ WF_vars(GetNextPacket)
-----------------------------------------------------------------------------
(* Properties.                                                             *)

Answer == {"none", "added", "duplicate", "empty", "notready", "packet"}
Entry  == [pos : Position, rank : Nat]

\* The types of the buffer; nothing is buffered before the first packet
\* initialised it.
TypeOK ==
  /\ sent \in 0 .. MaxSent /\ flight \subseteq 0 .. sent - 1 /\ copies \in Nat
  /\ Buffered \subseteq Seqno
  /\ packets \in [Buffered -> Entry]
  /\ expectedSeq \in Seqno /\ initialized \in BOOLEAN
  /\ packetsReceived \in Nat /\ packetsLost \in Nat /\ packetsDuplicate \in Nat
  /\ ripe \in 0 .. packetsReceived
  /\ answer \in Answer
  /\ handed \in Seq(Position) /\ dropped \in Nat /\ lostAtFirst \in Nat
  /\ sentBack \in Nat
  /\ ~initialized => Buffered = {}

\* The buffer never holds more than maxSize packets, whatever arrives
\* (AddPacket makes room first, jitter.go:80).
CapacityKept == Cardinality(Buffered) <= maxSize

\* Every packet accepted is in the buffer, was handed to the reader, or was
\* dropped to make room: none vanishes and none is made up, and the test
\* "packetsReceived == len(packets)" (jitter.go:110) really means that
\* nothing has left the buffer yet.
Conservation == packetsReceived = Len(handed) + dropped + Cardinality(Buffered)

\* Since reading began the loss counter has grown by the packets of the stream
\* that the reader passed without being given them, each counted once, also
\* when a packet skipped to has to wait (jitter.go:131) - as long as the reader
\* is not sent back.  Each time it is, to a packet that comes after its number
\* was passed or to a copy of one handed out, sequenceDiff wraps (jitter.go:130)
\* and the counter is a whole circle too high from then on.
SkipsAreCounted ==
  handed # << >> =>
    /\ packetsLost - lostAtFirst =
         Place - handed[1] - Len(handed) + sentBack * M
    /\ sentBack = 0 =>
         /\ handed[Len(handed)] < Place
         /\ \A k \in 1 .. Len(handed) - 1 : handed[k] < handed[k + 1]

\* As long as no loss has been counted since reading began, the reader has
\* been given consecutive packets of the stream, in order and without repeats,
\* however the network reordered and duplicated them.
InOrderWithoutLoss ==
  packetsLost = lostAtFirst =>
    \A k \in 1 .. Len(handed) - 1 : handed[k + 1] = handed[k] + 1

\* DetectGaps reports exactly the packets of the stream that lie between two
\* buffered ones and are not buffered, on both sides of the wraparound.
GapsAreMissing ==
  LET held == {packets[s].pos : s \in Buffered}
  IN  DetectGaps = {SeqOf(p) : p \in {q \in Position \ held :
                                        \E l, h \in held : l < q /\ q < h}}

\* A reader that keeps polling gets, or loses to overflow, every packet that
\* was buffered: none waits for ever, unless the lowest number buffered is 0,
\* which findNextAvailableSequence cannot tell from "none" (jitter.go:123).
Drains ==
  \A p \in Position :
    (\E s \in Buffered : packets[s].pos = p)
      ~> \/ ~\E s \in Buffered : packets[s].pos = p
         \/ 0 \in Lowest
=============================================================================
