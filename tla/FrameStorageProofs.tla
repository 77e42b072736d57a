-------------------------- MODULE FrameStorageProofs --------------------------
(***************************************************************************)
(* The mapping of timestamps, and which ffmpeg processes, parameter sets   *)
(* and file names FrameStorage can end up with, for any number of setters, *)
(* ticks and calls.  SetSPSPPS takes no lock, so the argument is about     *)
(* which calls can overlap: two setters that are busy at the same time are *)
(* both in a disturbed call, and a call in which nothing else ran saw no   *)
(* change but its own.                                                     *)
(***************************************************************************)
EXTENDS FrameStorage, SequenceTheorems, TLAPS

(* The mapping of timestamps, for any even number of them.                  *)

LEMMA HalfTurnIsHalf == HalfTurn \in Nat \ {0} /\ T = HalfTurn + HalfTurn
BY TimestampAssumption DEF HalfTurn

\* A time and its timestamp differ by full turns.
LEMMA Turns ==
  ASSUME NEW tick \in Int
  PROVE  /\ tick % T \in 0 .. T - 1
         /\ tick \div T \in Int
         /\ tick - (tick \div T) * T = tick % T
<1>1. T \in Nat \ {0}  BY TimestampAssumption
<1>2. tick % T \in 0 .. T - 1  BY <1>1, Z3
<1>3. tick - (tick \div T) * T = tick % T  BY <1>1, Z3
<1> QED  BY <1>1, <1>2, <1>3

\* Two turns are longer than one and a half.
LEMMA TwoTurns ==
  ASSUME NEW k \in Int
  PROVE  /\ k >= 2 => k * T >= T + T
         /\ k <= -2 => k * T <= -(T + T)
<1>1. T \in Nat  BY TimestampAssumption
<1>2. ASSUME k >= 2 PROVE k * T >= T + T
  <2>1. k - 2 \in Nat /\ k * T = (k - 2) * T + (T + T)  BY <1>1, <1>2
  <2>2. (k - 2) * T \in Nat  BY <1>1, <2>1
  <2> QED  BY <1>1, <2>1, <2>2
<1>3. ASSUME k <= -2 PROVE k * T <= -(T + T)
  <2>1. -k - 2 \in Nat /\ k * T = -((-k - 2) * T + (T + T))  BY <1>1, <1>3
  <2>2. (-k - 2) * T \in Nat  BY <1>1, <2>1
  <2> QED  BY <1>1, <2>1, <2>2
<1> QED  BY <1>2, <1>3

\* Two times less than half a turn apart: the difference of their timestamps
\* is theirs, or a full turn away from it.
LEMMA DifferenceOfTimestamps ==
  ASSUME NEW p \in Int, NEW q \in Int, q - p \in -HalfTurn .. HalfTurn - 1
  PROVE  (q % T) - (p % T) \in {q - p, q - p - T, q - p + T}
<1> DEFINE a == q % T
           b == p % T
           i == q \div T
           j == p \div T
<1>1. /\ a \in 0 .. T - 1 /\ i \in Int /\ q - i * T = a
      /\ b \in 0 .. T - 1 /\ j \in Int /\ p - j * T = b
  BY Turns
<1>2. T \in Nat \ {0} /\ HalfTurn \in Nat \ {0} /\ T = HalfTurn + HalfTurn
  BY TimestampAssumption, HalfTurnIsHalf
<1> HIDE DEF a, b, i, j
<1>3. a - b = (q - p) - (i - j) * T  BY <1>1, <1>2
<1>4. i - j \in {-1, 0, 1}
  <2> DEFINE k == i - j
             product == k * T
  <2>1. k \in Int /\ product \in Int  BY <1>1, <1>2
  <2>2. (k >= 2 => product >= T + T) /\ (k <= -2 => product <= -(T + T))
    BY <2>1, TwoTurns
  <2>3. a - b = (q - p) - product  BY <1>3
  <2> HIDE DEF product, k
  <2>4. k \in {-1, 0, 1}  BY <1>1, <1>2, <2>1, <2>2, <2>3
  <2> QED  BY <2>4 DEF k
<1>5. a - b \in {q - p, q - p - T, q - p + T}  BY <1>1, <1>2, <1>3, <1>4
<1> QED  BY <1>5 DEF a, b

\* A timestamp is taken for a time less than half a turn from the report,
\* whatever it is (rtcp.go:434).
THEOREM MappedNear ==
  ASSUME NEW sr \in [rtp : RtpTime, ntp : Int], NEW rtpTime \in RtpTime
  PROVE  RTPToNTP(UpdateFromSR(sr), rtpTime) - sr.ntp \in -HalfTurn .. HalfTurn - 1
BY HalfTurnIsHalf DEF RTPToNTP, UpdateFromSR, Shifted, RtpTime

\* A packet less than half a turn from the report of its sender is mapped to
\* its own time, on either side of the report and of the wraparound
\* (rtcp.go:432).
THEOREM MappedExactly ==
  ASSUME NEW p \in Int, NEW q \in Int, q - p \in -HalfTurn .. HalfTurn - 1
  PROVE  RTPToNTP(UpdateFromSR([rtp |-> p % T, ntp |-> p]), q % T) = q
<1>1. (q % T) - (p % T) \in {q - p, q - p - T, q - p + T}  BY DifferenceOfTimestamps
<1>2. q % T \in 0 .. T - 1 /\ p % T \in 0 .. T - 1  BY Turns
<1>3. Shifted((q % T) - (p % T)) = q - p
  <2> DEFINE a == q % T
             b == p % T
             d == a - b
  <2>1. a \in 0 .. T - 1 /\ b \in 0 .. T - 1 /\ d \in {q - p, q - p - T, q - p + T}
    BY <1>1, <1>2
  <2> HIDE DEF a, b
  <2>2. Shifted(d) = q - p  BY <2>1, HalfTurnIsHalf DEF Shifted
  <2> QED  BY <2>2 DEF d, a, b
<1> QED  BY <1>3 DEF RTPToNTP, UpdateFromSR
-----------------------------------------------------------------------------

CallKind == {"whole", "partial", "disturbed"}
Step     == {"idle", "sps", "pps", "check", "start", "started", "failed"}

\* TypeOK, and the types of what only the history holds.
StorageTypes ==
  /\ TypeOK
  /\ pc \in [Setters -> Step]
  /\ given \in [Setters -> [sps : Parameter, pps : Parameter]]
  /\ calls \in Seq(CallKind)
  /\ usedPairs \subseteq (0 .. Len(calls)) \X (0 .. Len(calls))

\* Setters that are busy together are in different calls, both disturbed.
CallsApart ==
  \A g, h \in Setters :
    g # h /\ call[g] # 0 /\ call[h] # 0 =>
      call[g] # call[h] /\ calls[call[g]] = "disturbed"

\* The decoder belongs to a call that is over, and its start did not fail.
DecoderIsOld ==
  /\ continuousDecoder \notin failedStart
  /\ \A g \in Setters : call[g] # 0 => call[g] # continuousDecoder

\* A process that was started is alive until it is assigned.
StartedIsAlive ==
  \A g \in Setters :
    /\ pc[g] = "started" => call[g] \in alive
    /\ pc[g] \in Step \ {"idle", "failed"} => call[g] \notin failedStart

\* A setter that found no decoder finds one later only if it is disturbed.
CheckedOrDisturbed ==
  \A g \in Setters :
    pc[g] \in {"start", "started", "failed"} /\ continuousDecoder # 0 =>
      calls[continuousDecoder] = "disturbed"

ProcessInv ==
  StorageTypes /\ CallsApart /\ DecoderIsOld /\ StartedIsAlive /\ CheckedOrDisturbed
-----------------------------------------------------------------------------
\* What Disturbed does to the history: calls keep their number, and each its
\* kind unless it becomes "disturbed".
LEMMA DisturbedType ==
  ASSUME StorageTypes
  PROVE  /\ Disturbed \in Seq(CallKind) /\ Len(Disturbed) = Len(calls)
         /\ \A c \in 1 .. Len(calls) : Disturbed[c] \in {calls[c], "disturbed"}
         /\ \A g \in Setters : call[g] # 0 => Disturbed[call[g]] = "disturbed"
<1>1. calls \in Seq(CallKind) /\ DOMAIN calls = 1 .. Len(calls) /\ Len(calls) \in Nat
  BY DEF StorageTypes
<1>2. \A c \in 1 .. Len(calls) : Disturbed[c] \in {calls[c], "disturbed"}
  BY <1>1 DEF Disturbed
<1>3. /\ Disturbed \in [1 .. Len(calls) -> CallKind]
      /\ Disturbed \in Seq(CallKind)
  <2>1. \A c \in 1 .. Len(calls) : calls[c] \in CallKind  BY <1>1
  <2>2. Disturbed \in [1 .. Len(calls) -> CallKind]
    BY <1>1, <2>1 DEF Disturbed, CallKind
  <2> QED  BY <2>2, <1>1
<1>4. Len(Disturbed) = Len(calls)  BY <1>1, <1>3
<1>5. ASSUME NEW g \in Setters, call[g] # 0 PROVE Disturbed[call[g]] = "disturbed"
  <2>1. call[g] \in 1 .. Len(calls)  BY <1>1, <1>5 DEF StorageTypes, TypeOK
  <2> QED  BY <2>1, <1>1, <1>5 DEF Disturbed, Busy
<1> QED  BY <1>2, <1>3, <1>4, <1>5

\* A call that begins is appended behind the ones that are disturbed by it.
LEMMA NewCall ==
  ASSUME StorageTypes, NEW kind \in CallKind
  PROVE  LET after == Append(Disturbed, kind)
         IN  /\ after \in Seq(CallKind) /\ Len(after) = Len(calls) + 1
             /\ after[Len(calls) + 1] = kind
             /\ \A c \in 1 .. Len(calls) : after[c] = Disturbed[c]
BY DisturbedType, AppendProperties

LEMMA InitProcess == Init => ProcessInv
<1> SUFFICES ASSUME Init PROVE ProcessInv
  OBVIOUS
<1>1. StorageTypes
  <2>1. calls = << >> /\ Len(calls) = 0 /\ calls \in Seq(CallKind)  BY DEF Init
  <2>2. useContinuousMode \in BOOLEAN  BY Zenon DEF Init
  <2>3. TypeOK  BY <2>1, <2>2 DEF Init, TypeOK
  <2> QED
    BY <2>1, <2>3 DEF Init, StorageTypes, Step, NoArguments, Parameter
<1> QED
  BY <1>1 DEF Init, ProcessInv, CallsApart, DecoderIsOld, StartedIsAlive,
              CheckedOrDisturbed, Step

\* Every step keeps the calls, or disturbs some, or begins one.
CallsKept ==
  /\ calls' \in Seq(CallKind) /\ Len(calls') \in Nat /\ Len(calls) <= Len(calls')
  /\ \A c \in 1 .. Len(calls) : calls'[c] \in {calls[c], "disturbed"}

LEMMA CallsUnchanged == StorageTypes /\ UNCHANGED calls => CallsKept
BY DEF StorageTypes, CallsKept

LEMMA CallsDisturbed == StorageTypes /\ calls' = Disturbed => CallsKept
<1> SUFFICES ASSUME StorageTypes, calls' = Disturbed PROVE CallsKept
  OBVIOUS
<1>1. Len(calls) \in Nat  BY DEF StorageTypes
<1> QED  BY <1>1, DisturbedType DEF CallsKept

LEMMA BeginsKeeps ==
  ASSUME StorageTypes, NEW g \in Setters, NEW sps \in Parameter, NEW pps \in Parameter,
         SetSPSPPS(g, sps, pps)
  PROVE  /\ CallsKept /\ Len(calls') = Len(calls) + 1
         /\ calls'[Len(calls) + 1] =
              (IF Busy # {} THEN "disturbed"
               ELSE IF sps = "good" /\ pps = "good" THEN "whole" ELSE "partial")
         /\ \A h \in Setters : call[h] # 0 => calls'[call[h]] = "disturbed"
<1> DEFINE kind == IF Busy # {} THEN "disturbed"
                   ELSE IF sps = "good" /\ pps = "good" THEN "whole" ELSE "partial"
<1>1. calls' = Append(Disturbed, kind)  BY DEF SetSPSPPS
<1>2. kind \in CallKind  BY DEF CallKind
<1> HIDE DEF kind
<1>3. /\ calls' \in Seq(CallKind) /\ Len(calls') = Len(calls) + 1
      /\ calls'[Len(calls) + 1] = kind
      /\ \A c \in 1 .. Len(calls) : calls'[c] = Disturbed[c]
  BY <1>1, <1>2, NewCall
<1>4. Len(calls) \in Nat /\ \A h \in Setters : call[h] \in 0 .. Len(calls)
  BY DEF StorageTypes, TypeOK
<1>5. CallsKept  BY <1>3, <1>4, DisturbedType DEF CallsKept
<1>6. \A h \in Setters : call[h] # 0 => calls'[call[h]] = "disturbed"
  BY <1>3, <1>4, DisturbedType
<1> QED  BY <1>3, <1>5, <1>6 DEF kind
-----------------------------------------------------------------------------
\* The setters' steps.

LEMMA BeginsProcess ==
  ASSUME ProcessInv, NEW g \in Setters, NEW sps \in Parameter, NEW pps \in Parameter,
         SetSPSPPS(g, sps, pps)
  PROVE  ProcessInv'
<1>1. /\ CallsKept /\ Len(calls') = Len(calls) + 1 /\ Len(calls) \in Nat
      /\ calls'[Len(calls) + 1] \in CallKind
      /\ Busy # {} => calls'[Len(calls) + 1] = "disturbed"
      /\ \A h \in Setters : call[h] # 0 => calls'[call[h]] = "disturbed"
  BY BeginsKeeps DEF ProcessInv, StorageTypes, CallKind
<1>2. /\ pc[g] = "idle" /\ call[g] = 0
      /\ pc' = [pc EXCEPT ![g] = "sps"]
      /\ call' = [call EXCEPT ![g] = Len(calls) + 1]
      /\ given' = [given EXCEPT ![g] = [sps |-> sps, pps |-> pps]]
      /\ UNCHANGED <<spsNAL, ppsNAL, useContinuousMode, continuousDecoder, alive,
                     failedStart, usedPairs>>
  BY DEF SetSPSPPS, nameVars, ProcessInv, StorageTypes, TypeOK
<1>3. /\ pc \in [Setters -> Step] /\ call \in [Setters -> 0 .. Len(calls)]
      /\ given \in [Setters -> [sps : Parameter, pps : Parameter]]
      /\ spsNAL \in 0 .. Len(calls) /\ ppsNAL \in 0 .. Len(calls)
      /\ alive \subseteq 1 .. Len(calls) /\ failedStart \subseteq alive
      /\ continuousDecoder \in alive \cup {0}
      /\ usedPairs \subseteq (0 .. Len(calls)) \X (0 .. Len(calls))
      /\ \A h \in Setters : pc[h] = "idle" <=> call[h] = 0
  BY DEF ProcessInv, StorageTypes, TypeOK
<1>4. StorageTypes'
  <2>1. useContinuousMode' \in BOOLEAN
    BY <1>2, Zenon DEF ProcessInv, StorageTypes, TypeOK
  <2>2. /\ pc' \in [Setters -> Step] /\ call' \in [Setters -> 0 .. Len(calls')]
        /\ given' \in [Setters -> [sps : Parameter, pps : Parameter]]
        /\ \A h \in Setters : pc'[h] = "idle" <=> call'[h] = 0
    BY <1>1, <1>2, <1>3 DEF Step
  <2>3. usedPairs' \subseteq (0 .. Len(calls')) \X (0 .. Len(calls'))
    BY <1>1, <1>2, <1>3
  <2> QED
    BY <1>1, <1>2, <1>3, <2>1, <2>2, <2>3 DEF StorageTypes, TypeOK, CallsKept
<1>5. CallsApart'
  <2>1. \A h \in Setters \ {g} : call[h] # 0 => calls'[Len(calls) + 1] = "disturbed"
    BY <1>1 DEF Busy
  <2>2. \A h \in Setters \ {g} : call'[h] = call[h] /\ call[h] \in 0 .. Len(calls)
    BY <1>2, <1>3
  <2>3. call'[g] = Len(calls) + 1  BY <1>2, <1>3
  <2> QED  BY <1>1, <2>1, <2>2, <2>3 DEF ProcessInv, CallsApart
<1>6. DecoderIsOld' /\ StartedIsAlive'
  BY <1>1, <1>2, <1>3 DEF ProcessInv, DecoderIsOld, StartedIsAlive, Step
<1>7. CheckedOrDisturbed'
  BY <1>1, <1>2, <1>3 DEF ProcessInv, CheckedOrDisturbed, CallsKept
<1> QED  BY <1>4, <1>5, <1>6, <1>7 DEF ProcessInv

\* What a setter does between two of its own calls.  It goes on to another
\* step, or returns; the processes and the calls stay.
Goes(g, where) ==
  /\ pc' = [pc EXCEPT ![g] = where]
  /\ UNCHANGED <<call, given, calls, continuousDecoder, alive, failedStart>>

LEMMA GoesProcess ==
  ASSUME ProcessInv, NEW g \in Setters, pc[g] # "idle", pc[g] # "started",
         NEW where \in {"pps", "check", "start"},
         Goes(g, where), pc[g] # "failed",
         where = "start" => continuousDecoder = 0
  PROVE  /\ CallsApart' /\ DecoderIsOld' /\ StartedIsAlive' /\ CheckedOrDisturbed'
         /\ pc' \in [Setters -> Step]
         /\ \A h \in Setters : pc'[h] = "idle" <=> call'[h] = 0
BY DEF Goes, ProcessInv, StorageTypes, TypeOK, CallsApart, DecoderIsOld, StartedIsAlive,
       CheckedOrDisturbed, Step

LEMMA ReturnsProcess ==
  ASSUME ProcessInv, NEW g \in Setters, Returns(g), pc[g] # "started", pc[g] # "failed",
         UNCHANGED <<calls, continuousDecoder, alive, failedStart>>
  PROVE  /\ CallsApart' /\ DecoderIsOld' /\ StartedIsAlive' /\ CheckedOrDisturbed'
         /\ pc' \in [Setters -> Step] /\ call' \in [Setters -> 0 .. Len(calls')]
         /\ given' \in [Setters -> [sps : Parameter, pps : Parameter]]
         /\ \A h \in Setters : pc'[h] = "idle" <=> call'[h] = 0
BY DEF Returns, ProcessInv, StorageTypes, TypeOK, CallsApart, DecoderIsOld, StartedIsAlive,
       CheckedOrDisturbed, Step, NoArguments, Parameter

\* StoresSPS, StoresPPS and ChecksDecoder.
StoresOrChecks(g) == StoresSPS(g) \/ StoresPPS(g) \/ ChecksDecoder(g)

LEMMA StoresProcess ==
  ASSUME ProcessInv, NEW g \in Setters, StoresOrChecks(g)
  PROVE  ProcessInv'
<1>1. /\ UNCHANGED <<useContinuousMode, continuousDecoder, calls, alive, failedStart,
                     usedPairs>>
      /\ spsNAL' \in {spsNAL, call[g]} /\ ppsNAL' \in {ppsNAL, call[g]}
      /\ pc[g] \in {"sps", "pps", "check"}
  BY DEF StoresOrChecks, StoresSPS, StoresPPS, ChecksDecoder, nameVars
<1>2. \/ Returns(g)
      \/ \E where \in {"pps", "check", "start"} :
           Goes(g, where) /\ (where = "start" => continuousDecoder = 0)
  BY <1>1 DEF StoresOrChecks, StoresSPS, StoresPPS, ChecksDecoder, Goes
<1>3. /\ CallsApart' /\ DecoderIsOld' /\ StartedIsAlive' /\ CheckedOrDisturbed'
      /\ pc' \in [Setters -> Step] /\ call' \in [Setters -> 0 .. Len(calls')]
      /\ given' \in [Setters -> [sps : Parameter, pps : Parameter]]
      /\ \A h \in Setters : pc'[h] = "idle" <=> call'[h] = 0
  <2>1. CASE Returns(g)  BY <1>1, <2>1, ReturnsProcess
  <2>2. ASSUME NEW where \in {"pps", "check", "start"}, Goes(g, where),
               where = "start" => continuousDecoder = 0
        PROVE  /\ CallsApart' /\ DecoderIsOld' /\ StartedIsAlive' /\ CheckedOrDisturbed'
               /\ pc' \in [Setters -> Step] /\ call' \in [Setters -> 0 .. Len(calls')]
               /\ given' \in [Setters -> [sps : Parameter, pps : Parameter]]
               /\ \A h \in Setters : pc'[h] = "idle" <=> call'[h] = 0
    <3>1. /\ CallsApart' /\ DecoderIsOld' /\ StartedIsAlive' /\ CheckedOrDisturbed'
          /\ pc' \in [Setters -> Step]
          /\ \A h \in Setters : pc'[h] = "idle" <=> call'[h] = 0
      BY <1>1, <2>2, GoesProcess
    <3>2. call' = call /\ given' = given /\ calls' = calls  BY <2>2 DEF Goes
    <3> QED  BY <3>1, <3>2 DEF ProcessInv, StorageTypes, TypeOK
  <2> QED  BY <1>2, <2>1, <2>2
<1>4. StorageTypes'
  <2>1. useContinuousMode' \in BOOLEAN
    BY <1>1, Zenon DEF ProcessInv, StorageTypes, TypeOK
  <2>2. spsNAL' \in 0 .. Len(calls') /\ ppsNAL' \in 0 .. Len(calls')
    BY <1>1 DEF ProcessInv, StorageTypes, TypeOK
  <2> QED  BY <1>1, <1>3, <2>1, <2>2 DEF ProcessInv, StorageTypes, TypeOK
<1> QED  BY <1>3, <1>4 DEF ProcessInv

LEMMA StartsProcess ==
  ASSUME ProcessInv, NEW g \in Setters, StartsDecoder(g)
  PROVE  ProcessInv'
<1>1. /\ UNCHANGED <<spsNAL, ppsNAL, useContinuousMode, continuousDecoder, call, given,
                     calls>>
      /\ pc[g] = "start"
  BY DEF StartsDecoder, nameVars
<1>2. /\ pc \in [Setters -> Step] /\ call \in [Setters -> 0 .. Len(calls)]
      /\ Len(calls) \in Nat /\ call[g] \in 1 .. Len(calls)
      /\ spsNAL \in 0 .. Len(calls) /\ ppsNAL \in 0 .. Len(calls)
      /\ alive \subseteq 1 .. Len(calls) /\ failedStart \subseteq alive
      /\ usedPairs \subseteq (0 .. Len(calls)) \X (0 .. Len(calls))
      /\ \A h \in Setters : pc[h] = "idle" <=> call[h] = 0
  BY <1>1 DEF ProcessInv, StorageTypes, TypeOK
<1>3. /\ alive' \in {alive, alive \cup {call[g]}}
      /\ failedStart' \in {failedStart, failedStart \cup {call[g]}}
      /\ failedStart' # failedStart => alive' = alive \cup {call[g]}
      /\ usedPairs' \in {usedPairs, usedPairs \cup {<<spsNAL, ppsNAL>>}}
      /\ \/ pc' = [pc EXCEPT ![g] = "failed"]
         \/ /\ pc' = [pc EXCEPT ![g] = "started"]
            /\ call[g] \in alive' /\ failedStart' = failedStart
  BY DEF StartsDecoder
<1>4. StorageTypes'
  <2>1. useContinuousMode' \in BOOLEAN
    BY <1>1, Zenon DEF ProcessInv, StorageTypes, TypeOK
  <2>2. /\ pc' \in [Setters -> Step]
        /\ \A h \in Setters : pc'[h] = "idle" <=> call'[h] = 0
    BY <1>1, <1>2, <1>3 DEF Step
  <2>3. alive' \subseteq 1 .. Len(calls) /\ failedStart' \subseteq alive'
    BY <1>2, <1>3
  <2>4. usedPairs' \subseteq (0 .. Len(calls)) \X (0 .. Len(calls))
    BY <1>2, <1>3
  <2>5. continuousDecoder' \in alive' \cup {0}
    BY <1>1, <1>3 DEF ProcessInv, StorageTypes, TypeOK
  <2> QED
    BY <1>1, <2>1, <2>2, <2>3, <2>4, <2>5 DEF ProcessInv, StorageTypes, TypeOK
<1>5. CallsApart'
  BY <1>1 DEF ProcessInv, CallsApart
<1>6. DecoderIsOld'
  BY <1>1, <1>2, <1>3 DEF ProcessInv, DecoderIsOld
<1>7. StartedIsAlive'
  <2>1. \A h \in Setters : h # g /\ pc[h] # "idle" => call[h] # call[g]
    BY <1>2 DEF ProcessInv, CallsApart
  <2> QED  BY <1>1, <1>2, <1>3, <2>1 DEF ProcessInv, StartedIsAlive, Step
<1>8. CheckedOrDisturbed'
  BY <1>1, <1>2, <1>3 DEF ProcessInv, CheckedOrDisturbed
<1> QED  BY <1>4, <1>5, <1>6, <1>7, <1>8 DEF ProcessInv

LEMMA AssignsProcess ==
  ASSUME ProcessInv, NEW g \in Setters, AssignsDecoder(g)
  PROVE  ProcessInv'
<1>1. /\ UNCHANGED <<spsNAL, ppsNAL, calls, alive, failedStart, usedPairs>>
      /\ pc[g] \in {"started", "failed"}
      /\ pc' = [pc EXCEPT ![g] = "idle"] /\ call' = [call EXCEPT ![g] = 0]
      /\ given' = [given EXCEPT ![g] = NoArguments]
      /\ continuousDecoder' = (IF pc[g] = "started" THEN call[g] ELSE 0)
  BY DEF AssignsDecoder, Returns, nameVars
<1>2. /\ pc \in [Setters -> Step] /\ call \in [Setters -> 0 .. Len(calls)]
      /\ given \in [Setters -> [sps : Parameter, pps : Parameter]]
      /\ Len(calls) \in Nat /\ call[g] \in 1 .. Len(calls)
      /\ \A h \in Setters : pc[h] = "idle" <=> call[h] = 0
  BY <1>1 DEF ProcessInv, StorageTypes, TypeOK
<1>3. pc[g] = "started" => call[g] \in alive /\ call[g] \notin failedStart
  BY DEF ProcessInv, StartedIsAlive, Step
<1>4. \A h \in Setters : h # g /\ call[h] # 0 =>
        call[h] # call[g] /\ calls[call[g]] = "disturbed"
  BY <1>2 DEF ProcessInv, CallsApart
<1>5. StorageTypes'
  <2>1. useContinuousMode' \in BOOLEAN
    <3>1. useContinuousMode' = (useContinuousMode /\ pc[g] = "started")
      BY DEF AssignsDecoder
    <3> QED  BY <1>1, <3>1, Zenon DEF ProcessInv, StorageTypes, TypeOK
  <2>2. /\ pc' \in [Setters -> Step] /\ call' \in [Setters -> 0 .. Len(calls')]
        /\ given' \in [Setters -> [sps : Parameter, pps : Parameter]]
        /\ \A h \in Setters : pc'[h] = "idle" <=> call'[h] = 0
    BY <1>1, <1>2 DEF Step, NoArguments, Parameter
  <2>3. continuousDecoder' \in alive' \cup {0}
    BY <1>1, <1>3
  <2> QED
    BY <1>1, <1>2, <2>1, <2>2, <2>3 DEF ProcessInv, StorageTypes, TypeOK
<1>6. CallsApart'
  BY <1>1, <1>2 DEF ProcessInv, CallsApart
<1>7. DecoderIsOld'
  <2>1. \A h \in Setters : call'[h] = IF h = g THEN 0 ELSE call[h]
    BY <1>1, <1>2
  <2>2. 0 \notin failedStart  BY DEF ProcessInv, StorageTypes, TypeOK
  <2> QED  BY <1>1, <1>3, <1>4, <2>1, <2>2 DEF DecoderIsOld
<1>8. StartedIsAlive'
  BY <1>1, <1>2 DEF ProcessInv, StartedIsAlive, Step
<1>9. CheckedOrDisturbed'
  BY <1>1, <1>2, <1>4 DEF CheckedOrDisturbed
<1> QED  BY <1>5, <1>6, <1>7, <1>8, <1>9 DEF ProcessInv

\* What the methods under s.mu and the saver goroutine leave as it is: the
\* setters.  They may stop the decoder, and disturb calls.
Locked ==
  /\ UNCHANGED <<spsNAL, ppsNAL, pc, call, given, failedStart>>
  /\ calls' \in {calls, Disturbed}
  /\ \/ UNCHANGED <<continuousDecoder, alive>>
     \/ StopsDecoder
  /\ useContinuousMode' \in BOOLEAN
  /\ usedPairs' \in {usedPairs, usedPairs \cup {<<spsNAL, ppsNAL>>}}

LEMMA LockedProcess ==
  ASSUME ProcessInv, Locked
  PROVE  ProcessInv' /\ CallsKept /\ Len(calls') = Len(calls)
<1>1. CallsKept
  BY CallsUnchanged, CallsDisturbed DEF Locked, ProcessInv
<1>2. Len(calls') = Len(calls)
  BY DisturbedType DEF Locked, ProcessInv
<1>3. /\ UNCHANGED <<spsNAL, ppsNAL, pc, call, given, failedStart>>
      /\ \/ UNCHANGED <<continuousDecoder, alive>>
         \/ continuousDecoder' = 0 /\ alive' = alive \ {continuousDecoder}
      /\ usedPairs' \in {usedPairs, usedPairs \cup {<<spsNAL, ppsNAL>>}}
  BY DEF Locked, StopsDecoder
<1>4. /\ call \in [Setters -> 0 .. Len(calls)] /\ Len(calls) \in Nat
      /\ spsNAL \in 0 .. Len(calls) /\ ppsNAL \in 0 .. Len(calls)
      /\ alive \subseteq 1 .. Len(calls) /\ failedStart \subseteq alive
      /\ continuousDecoder \in alive \cup {0}
      /\ continuousDecoder \notin failedStart
      /\ usedPairs \subseteq (0 .. Len(calls)) \X (0 .. Len(calls))
  BY DEF ProcessInv, StorageTypes, TypeOK, DecoderIsOld
<1>5. StorageTypes'
  <2>1. useContinuousMode' \in BOOLEAN  BY DEF Locked
  <2>2. /\ alive' \subseteq 1 .. Len(calls) /\ failedStart' \subseteq alive'
        /\ continuousDecoder' \in alive' \cup {0}
        /\ usedPairs' \subseteq (0 .. Len(calls)) \X (0 .. Len(calls))
    <3>1. CASE UNCHANGED <<continuousDecoder, alive>>  BY <1>3, <1>4, <3>1
    <3>2. CASE continuousDecoder' = 0 /\ alive' = alive \ {continuousDecoder}
      <4>1. failedStart' \subseteq alive \ {continuousDecoder}  BY <1>3, <1>4
      <4>2. usedPairs' \subseteq (0 .. Len(calls)) \X (0 .. Len(calls))
        BY <1>3, <1>4
      <4> QED  BY <1>4, <3>2, <4>1, <4>2
    <3> QED  BY <1>3, <3>1, <3>2
  <2>3. /\ pc' \in [Setters -> Step] /\ call' \in [Setters -> 0 .. Len(calls)]
        /\ given' \in [Setters -> [sps : Parameter, pps : Parameter]]
        /\ \A h \in Setters : pc'[h] = "idle" <=> call'[h] = 0
        /\ spsNAL' \in 0 .. Len(calls) /\ ppsNAL' \in 0 .. Len(calls)
    BY <1>3 DEF ProcessInv, StorageTypes, TypeOK
  <2> QED
    BY <1>1, <1>2, <2>1, <2>2, <2>3 DEF StorageTypes, TypeOK, CallsKept
<1>6. CallsApart'
  BY <1>1, <1>3, <1>4 DEF ProcessInv, CallsApart, CallsKept
<1>7. DecoderIsOld'
  BY <1>3, <1>4 DEF ProcessInv, DecoderIsOld
<1>8. StartedIsAlive'
  <2>1. \A h \in Setters : pc[h] = "started" => call[h] # 0
    BY DEF ProcessInv, StorageTypes, TypeOK
  <2> QED  BY <1>3, <2>1 DEF ProcessInv, StartedIsAlive, DecoderIsOld
<1>9. CheckedOrDisturbed'
  BY <1>1, <1>3, <1>4 DEF ProcessInv, CheckedOrDisturbed, CallsKept
<1> QED  BY <1>1, <1>2, <1>5, <1>6, <1>7, <1>8, <1>9 DEF ProcessInv

\* The steps that are not a setter's, in one formula.
Others ==
  \/ \E enable \in BOOLEAN : EnableContinuousDecoder(enable)
  \/ Close
  \/ \E tick \in Ticks : OwnReport(tick) \/ ForeignReport(tick)
  \/ \E tick \in Ticks, key, corrupted \in BOOLEAN : SaveFrame(tick, key, corrupted)
  \/ SaveFrameFails
  \/ \E image \in fed : SavesImage(image)

LEMMA OthersAreLocked == ProcessInv /\ Others => Locked
<1> SUFFICES ASSUME ProcessInv, Others PROVE Locked
  OBVIOUS
<1>1. useContinuousMode \in BOOLEAN
  BY Zenon DEF ProcessInv, StorageTypes, TypeOK
<1>2. ASSUME NEW enable \in BOOLEAN, EnableContinuousDecoder(enable) PROVE Locked
  BY <1>1, <1>2 DEF EnableContinuousDecoder, Locked, nameVars
<1>3. CASE Close
  BY <1>1, <1>3 DEF Close, Locked, nameVars
<1>4. ASSUME NEW tick \in Ticks, OwnReport(tick) \/ ForeignReport(tick) PROVE Locked
  BY <1>1, <1>4 DEF OwnReport, ForeignReport, UpdateTimestampMapping, Locked, setVars
<1>5. ASSUME NEW tick \in Ticks, NEW key \in BOOLEAN, NEW corrupted \in BOOLEAN,
             SaveFrame(tick, key, corrupted)
      PROVE  Locked
  BY <1>1, <1>5 DEF SaveFrame, Locked
<1>6. CASE SaveFrameFails
  BY <1>1, <1>6 DEF SaveFrameFails, Locked, setVars
<1>7. ASSUME NEW image \in fed, SavesImage(image) PROVE Locked
  BY <1>1, <1>7 DEF SavesImage, Locked, setVars
<1> QED  BY <1>2, <1>3, <1>4, <1>5, <1>6, <1>7 DEF Others

\* A step of a setter, in one formula.
SetterStep(g) ==
  \/ \E sps, pps \in Parameter : SetSPSPPS(g, sps, pps)
  \/ StoresOrChecks(g) \/ StartsDecoder(g) \/ AssignsDecoder(g)

LEMMA NextIsAStep == Next => Others \/ \E g \in Setters : SetterStep(g)
BY Zenon DEF Next, Others, SetterStep, StoresOrChecks

LEMMA ProcessStep ==
  ProcessInv /\ [Next]_vars => ProcessInv' /\ CallsKept
<1> SUFFICES ASSUME ProcessInv, [Next]_vars PROVE ProcessInv' /\ CallsKept
  OBVIOUS
<1>1. CASE UNCHANGED vars
  <2>1. StorageTypes' /\ CallsKept
    BY <1>1, CallsUnchanged DEF vars, ProcessInv, StorageTypes, TypeOK, nameVars
  <2> QED
    BY <1>1, <2>1 DEF vars, ProcessInv, CallsApart, DecoderIsOld, StartedIsAlive,
                      CheckedOrDisturbed
<1>2. CASE Others  BY <1>2, OthersAreLocked, LockedProcess
<1>3. ASSUME NEW g \in Setters, SetterStep(g) PROVE ProcessInv' /\ CallsKept
  <2>1. ASSUME NEW sps \in Parameter, NEW pps \in Parameter, SetSPSPPS(g, sps, pps)
        PROVE  ProcessInv' /\ CallsKept
    BY <2>1, BeginsProcess, BeginsKeeps DEF ProcessInv
  <2>2. CASE StoresOrChecks(g)
    <3>1. UNCHANGED calls
      BY <2>2 DEF StoresOrChecks, StoresSPS, StoresPPS, ChecksDecoder
    <3> QED  BY <2>2, <3>1, StoresProcess, CallsUnchanged DEF ProcessInv
  <2>3. CASE StartsDecoder(g)
    <3>1. UNCHANGED calls  BY <2>3 DEF StartsDecoder
    <3> QED  BY <2>3, <3>1, StartsProcess, CallsUnchanged DEF ProcessInv
  <2>4. CASE AssignsDecoder(g)
    <3>1. UNCHANGED calls  BY <2>4 DEF AssignsDecoder
    <3> QED  BY <2>4, <3>1, AssignsProcess, CallsUnchanged DEF ProcessInv
  <2> QED  BY <1>3, <2>1, <2>2, <2>3, <2>4 DEF SetterStep
<1> QED  BY <1>1, <1>2, <1>3, NextIsAStep

LEMMA AlwaysProcess == Spec => []ProcessInv
<1>1. Init => ProcessInv  BY InitProcess
<1>2. ProcessInv /\ [Next]_vars => ProcessInv'  BY ProcessStep
<1> QED  BY <1>1, <1>2, PTL DEF Spec

\* Every variable keeps its type; the decoder, when there is one, is a
\* running process, and so is what a failed start leaves behind.
THEOREM StorageTypeOK == Spec => []TypeOK
<1>1. ProcessInv => TypeOK  BY DEF ProcessInv, StorageTypes
<1> QED  BY <1>1, AlwaysProcess, PTL
-----------------------------------------------------------------------------
\* Processes.

LEMMA OrphansStep ==
  ProcessInv /\ OrphansHaveCause /\ [Next]_vars => OrphansHaveCause'
<1> SUFFICES ASSUME ProcessInv, OrphansHaveCause, [Next]_vars, NEW p \in alive'
             PROVE  \/ p = continuousDecoder'
                    \/ \E g \in Setters : call'[g] = p /\ pc'[g] = "started"
                    \/ p \in failedStart'
                    \/ calls'[p] = "disturbed"
  BY DEF OrphansHaveCause
<1> DEFINE Caused == \/ p = continuousDecoder'
                     \/ \E g \in Setters : call'[g] = p /\ pc'[g] = "started"
                     \/ p \in failedStart'
                     \/ calls'[p] = "disturbed"
<1>1. p \in alive => p \in 1 .. Len(calls)
  BY DEF ProcessInv, StorageTypes, TypeOK
<1>2. p \in alive /\ calls[p] = "disturbed" => calls'[p] = "disturbed"
  BY <1>1, ProcessStep DEF CallsKept
<1>3. p \in alive =>
        \/ p = continuousDecoder
        \/ \E g \in Setters : call[g] = p /\ pc[g] = "started"
        \/ p \in failedStart
        \/ calls[p] = "disturbed"
  BY DEF OrphansHaveCause
<1>4. pc \in [Setters -> Step] /\ call \in [Setters -> 0 .. Len(calls)]
  BY DEF ProcessInv, StorageTypes, TypeOK
<1>5. CASE UNCHANGED vars
  BY <1>2, <1>3, <1>5 DEF vars, nameVars
<1>6. CASE Others
  <2>1. Locked  BY <1>6, OthersAreLocked
  <2>2. UNCHANGED <<pc, call, failedStart>>  BY <2>1 DEF Locked
  <2>3. p \in alive /\ (p = continuousDecoder => p = continuousDecoder')
    BY <2>1 DEF Locked, StopsDecoder
  <2> QED  BY <1>2, <1>3, <2>2, <2>3
<1>7. ASSUME NEW g \in Setters, SetterStep(g) PROVE Caused
  <2>1. ASSUME NEW sps \in Parameter, NEW pps \in Parameter, SetSPSPPS(g, sps, pps)
        PROVE  Caused
    <3>1. /\ pc[g] = "idle" /\ pc' = [pc EXCEPT ![g] = "sps"]
          /\ call' = [call EXCEPT ![g] = Len(calls) + 1]
          /\ UNCHANGED <<continuousDecoder, alive, failedStart>>
      BY <2>1 DEF SetSPSPPS
    <3> QED  BY <1>2, <1>3, <1>4, <3>1
  <2>2. CASE StoresOrChecks(g)
    <3>1. /\ pc[g] \in {"sps", "pps", "check"}
          /\ UNCHANGED <<continuousDecoder, alive, failedStart>>
          /\ \E where \in Step : pc' = [pc EXCEPT ![g] = where]
          /\ call' = call \/ call' = [call EXCEPT ![g] = 0]
      BY <2>2 DEF StoresOrChecks, StoresSPS, StoresPPS, ChecksDecoder, Returns, Step
    <3> QED  BY <1>2, <1>3, <1>4, <3>1
  <2>3. CASE StartsDecoder(g)
    <3>1. /\ pc[g] = "start" /\ UNCHANGED <<continuousDecoder, call>>
          /\ \/ /\ pc' = [pc EXCEPT ![g] = "started"]
                /\ alive' = alive \cup {call[g]} /\ UNCHANGED failedStart
             \/ /\ pc' = [pc EXCEPT ![g] = "failed"]
                /\ UNCHANGED <<alive, failedStart>>
             \/ /\ pc' = [pc EXCEPT ![g] = "failed"]
                /\ alive' = alive \cup {call[g]}
                /\ failedStart' = failedStart \cup {call[g]}
      BY <2>3 DEF StartsDecoder
    <3> QED  BY <1>2, <1>3, <1>4, <3>1
  <2>4. CASE AssignsDecoder(g)
    <3>1. /\ pc[g] \in {"started", "failed"}
          /\ UNCHANGED <<alive, failedStart>>
          /\ pc' = [pc EXCEPT ![g] = "idle"] /\ call' = [call EXCEPT ![g] = 0]
          /\ continuousDecoder' = (IF pc[g] = "started" THEN call[g] ELSE 0)
      BY <2>4 DEF AssignsDecoder, Returns
    <3>2. p = continuousDecoder => calls[p] = "disturbed"
      <4>1. 0 \notin alive  BY DEF ProcessInv, StorageTypes, TypeOK
      <4> QED  BY <3>1, <4>1 DEF ProcessInv, CheckedOrDisturbed
    <3> QED  BY <1>2, <1>3, <1>4, <3>1, <3>2
  <2> QED  BY <1>7, <2>1, <2>2, <2>3, <2>4 DEF SetterStep
<1> QED  BY <1>5, <1>6, <1>7, NextIsAStep

\* No ffmpeg process is left behind except by a start that failed after the
\* process was running (storage.go:189) or by a SetSPSPPS that ran into
\* another call (storage.go:751).
THEOREM ProcessesAccountedFor == Spec => []OrphansHaveCause
<1>1. Init => OrphansHaveCause  BY DEF Init, OrphansHaveCause
<1>2. ProcessInv /\ OrphansHaveCause /\ [Next]_vars => OrphansHaveCause'
  BY OrphansStep
<1> QED  BY <1>1, <1>2, AlwaysProcess, PTL DEF Spec
-----------------------------------------------------------------------------
\* Names.

\* The mapping of the video sender is the report of some tick; a file has the
\* timestamp of its frame, and its time when it was named soundly; a file
\* named since the last report has the time the mapping gives.
NamedBy(f) ==
  /\ f.name.rtp = f.tick % T
  /\ f.sound => f.name.time = f.tick
  /\ f.at \in 0 .. reports
  /\ f.at = reports => f.name.time = RTPToNTP(timestampMapper, f.tick % T)

SameReportSameTime ==
  \A f, g \in files :
    f.at = g.at /\ f.tick = g.tick => f.name.time = g.name.time

NamesInv ==
  /\ reports \in Nat
  /\ ownReport =>
       /\ timestampMapper.ntp \in Ticks
       /\ timestampMapper = UpdateFromSR([rtp |-> timestampMapper.ntp % T,
                                          ntp |-> timestampMapper.ntp])
  /\ \A image \in fed : image.tick \in Ticks
  /\ \A f \in files : NamedBy(f)
  /\ SameReportSameTime

LEMMA FileIsNamed ==
  ASSUME NamesInv, NEW tick \in Ticks, NEW corrupted, NEW kind
  PROVE  NamedBy(File(tick, corrupted, kind)) /\ File(tick, corrupted, kind).at = reports
<1> DEFINE f == File(tick, corrupted, kind)
           n == timestampMapper.ntp
<1>1. /\ f.name.rtp = tick % T /\ f.tick = tick /\ f.at = reports
      /\ f.name.time = RTPToNTP(timestampMapper, tick % T)
      /\ f.sound <=> (ownReport /\ tick - n \in -HalfTurn .. HalfTurn - 1)
  BY DEF File, FileName
<1>2. ASSUME f.sound PROVE f.name.time = tick
  <2>1. /\ tick - n \in -HalfTurn .. HalfTurn - 1
        /\ n \in Ticks
        /\ timestampMapper = UpdateFromSR([rtp |-> n % T, ntp |-> n])
    BY <1>1, <1>2 DEF NamesInv
  <2> HIDE DEF f, n
  <2>2. n \in Int /\ tick \in Int
    <3>1. \A t \in Ticks : t \in Int  BY StorageAssumption
    <3> QED  BY <2>1, <3>1
  <2>3. RTPToNTP(UpdateFromSR([rtp |-> n % T, ntp |-> n]), tick % T) = tick
    BY <2>1, <2>2, MappedExactly
  <2> QED  BY <1>1, <2>1, <2>3
<1> HIDE DEF f, n
<1>3. reports \in Nat  BY DEF NamesInv
<1>4. NamedBy(f)
  BY <1>1, <1>2, <1>3 DEF NamedBy
<1> QED  BY <1>1, <1>4 DEF f

\* Files named now agree among themselves and with the older ones.
LEMMA NewFilesAreNamed ==
  ASSUME NamesInv, UNCHANGED <<timestampMapper, reports, ownReport>>,
         NEW New, \A f \in New : NamedBy(f) /\ f.at = reports,
         files' \subseteq files \cup New,
         \A image \in fed' : image.tick \in Ticks
  PROVE  NamesInv'
<1>1. \A f \in files' : NamedBy(f) /\ (f \in files \/ f.at = reports)
  BY DEF NamesInv
<1>2. \A f : NamedBy(f)' <=> NamedBy(f)
  BY DEF NamedBy, RTPToNTP
<1>3. SameReportSameTime'
  <2> SUFFICES ASSUME NEW f \in files', NEW g \in files', f.at = g.at, f.tick = g.tick
               PROVE  f.name.time = g.name.time
    BY DEF SameReportSameTime
  <2>1. CASE f \in files /\ g \in files
    BY <2>1 DEF NamesInv, SameReportSameTime
  <2>2. CASE f.at = reports
    <3>1. /\ f.name.time = RTPToNTP(timestampMapper, f.tick % T)
          /\ g.name.time = RTPToNTP(timestampMapper, g.tick % T)
      BY <1>1, <2>2 DEF NamedBy
    <3> QED  BY <3>1
  <2> QED  BY <1>1, <2>1, <2>2
<1>4. reports' \in Nat /\ \A f \in files' : NamedBy(f)'
  BY <1>1, <1>2 DEF NamesInv
<1> QED  BY <1>3, <1>4 DEF NamesInv, UpdateFromSR

LEMMA NamesStep == NamesInv /\ [Next]_vars => NamesInv'
<1> SUFFICES ASSUME NamesInv, [Next]_vars PROVE NamesInv'
  OBVIOUS
<1>1. ASSUME UNCHANGED nameVars PROVE NamesInv'
  BY <1>1 DEF NamesInv, NamedBy, SameReportSameTime, RTPToNTP, nameVars
<1>2. CASE UNCHANGED vars
  BY <1>1, <1>2 DEF vars, nameVars
<1>3. ASSUME NEW g \in Setters, SetterStep(g) PROVE NamesInv'
  BY <1>1, <1>3 DEF SetterStep, SetSPSPPS, StoresOrChecks, StoresSPS, StoresPPS,
                    ChecksDecoder, StartsDecoder, AssignsDecoder
<1>4. CASE Others
  <2>1. ASSUME NEW enable \in BOOLEAN, EnableContinuousDecoder(enable) PROVE NamesInv'
    BY <1>1, <2>1 DEF EnableContinuousDecoder
  <2>2. CASE Close  BY <1>1, <2>2 DEF Close
  <2>3. ASSUME NEW tick \in Ticks, OwnReport(tick) \/ ForeignReport(tick) PROVE NamesInv'
    <3>1. /\ fed' = fed /\ files' = files /\ reports' = reports + 1
          /\ \/ /\ timestampMapper' = UpdateFromSR([rtp |-> tick % T, ntp |-> tick])
                /\ ownReport' = TRUE
             \/ ownReport' = FALSE
      BY <2>3 DEF OwnReport, ForeignReport, UpdateTimestampMapping
    <3>2. UpdateFromSR([rtp |-> tick % T, ntp |-> tick]).ntp = tick
      BY DEF UpdateFromSR
    <3>3. reports' \in Nat /\ \A f \in files' : NamedBy(f)'
      <4>1. reports \in Nat /\ reports' = reports + 1  BY <3>1 DEF NamesInv
      <4>2. ASSUME NEW f \in files
            PROVE  /\ f.name.rtp = f.tick % T /\ (f.sound => f.name.time = f.tick)
                   /\ f.at \in 0 .. reports' /\ f.at # reports'
        <5>1. NamedBy(f)  BY DEF NamesInv
        <5> QED  BY <4>1, <5>1 DEF NamedBy
      <4> QED  BY <3>1, <4>1, <4>2 DEF NamedBy
    <3>4. SameReportSameTime'
      BY <3>1 DEF NamesInv, SameReportSameTime
    <3>5. /\ ownReport' =>
               /\ timestampMapper'.ntp \in Ticks
               /\ timestampMapper' = UpdateFromSR([rtp |-> timestampMapper'.ntp % T,
                                                   ntp |-> timestampMapper'.ntp])
          /\ \A image \in fed' : image.tick \in Ticks
      BY <3>1, <3>2 DEF NamesInv
    <3> QED  BY <3>3, <3>4, <3>5 DEF NamesInv, UpdateFromSR
  <2>4. ASSUME NEW tick \in Ticks, NEW key \in BOOLEAN, NEW corrupted \in BOOLEAN,
               SaveFrame(tick, key, corrupted)
        PROVE  NamesInv'
    <3> DEFINE New == {File(tick, corrupted, "h264"), File(tick, FALSE, "jpeg")}
    <3>1. /\ UNCHANGED <<timestampMapper, reports, ownReport>>
          /\ fed' \subseteq fed \cup {[tick |-> tick, corrupted |-> corrupted]}
          /\ files' \subseteq files \cup New
      BY <2>4 DEF SaveFrame
    <3>2. \A f \in New : NamedBy(f) /\ f.at = reports
      <4>1. \A f \in New : f = File(tick, corrupted, "h264") \/ f = File(tick, FALSE, "jpeg")
        OBVIOUS
      <4> HIDE DEF New
      <4> QED  BY <4>1, FileIsNamed
    <3>3. \A image \in fed' : image.tick \in Ticks
      BY <3>1 DEF NamesInv
    <3> HIDE DEF New
    <3> QED  BY <3>1, <3>2, <3>3, NewFilesAreNamed
  <2>5. CASE SaveFrameFails  BY <1>1, <2>5 DEF SaveFrameFails, nameVars
  <2>6. ASSUME NEW image \in fed, SavesImage(image) PROVE NamesInv'
    <3> DEFINE New == {File(image.tick, image.corrupted, "jpeg")}
    <3>1. /\ UNCHANGED <<timestampMapper, reports, ownReport>>
          /\ fed' \subseteq fed
          /\ files' = files \cup New
      BY <2>6 DEF SavesImage
    <3>2. \A i \in fed' : i.tick \in Ticks  BY <3>1 DEF NamesInv
    <3>3. \A f \in New : NamedBy(f) /\ f.at = reports
      <4>1. image.tick \in Ticks  BY DEF NamesInv
      <4>2. \A f \in New : f = File(image.tick, image.corrupted, "jpeg")  OBVIOUS
      <4> HIDE DEF New
      <4> QED  BY <4>1, <4>2, FileIsNamed
    <3> HIDE DEF New
    <3> QED  BY <3>1, <3>2, <3>3, NewFilesAreNamed
  <2> QED  BY <1>4, <2>1, <2>2, <2>3, <2>4, <2>5, <2>6 DEF Others
<1> QED  BY <1>2, <1>3, <1>4, NextIsAStep

\* Two files of a frame, named at any two moments, carry one time unless a
\* report was taken in between and one of them was named without a near report
\* of the frame's sender; and two frames get one name only when one of them
\* was (storage.go:859, rtcp.go:432).
THEOREM FilesAgree == Spec => []FilesOfAFrameAgree
<1>1. Init => NamesInv  BY DEF Init, NamesInv, SameReportSameTime
<1>2. NamesInv /\ [Next]_vars => NamesInv'  BY NamesStep
<1>3. NamesInv => FilesOfAFrameAgree
  <2> SUFFICES ASSUME NamesInv, NEW f \in files, NEW g \in files
               PROVE  IF f.tick = g.tick
                      THEN f.name.time # g.name.time => f.at # g.at /\ ~(f.sound /\ g.sound)
                      ELSE f.name = g.name =>
                             f.tick % T = g.tick % T /\ ~(f.sound /\ g.sound)
    BY DEF FilesOfAFrameAgree
  <2>1. NamedBy(f) /\ NamedBy(g)  BY DEF NamesInv
  <2>2. f.at = g.at /\ f.tick = g.tick => f.name.time = g.name.time
    BY DEF NamesInv, SameReportSameTime
  <2> QED  BY <2>1, <2>2 DEF NamedBy
<1> QED  BY <1>1, <1>2, <1>3, PTL DEF Spec
-----------------------------------------------------------------------------
\* Parameter sets.

\* A call that is still whole is the last one to begin; while it runs it has
\* stored what it has come past, and once it is over its two parameters are
\* only replaced by a later call's.
WholeCalls ==
  \A c \in 1 .. Len(calls) :
    calls[c] = "whole" =>
      /\ \A g \in Setters : call[g] # 0 => c <= call[g]
      /\ \A g \in Setters :
           call[g] = c =>
             /\ given[g].sps = "good" /\ given[g].pps = "good"
             /\ pc[g] # "sps" => spsNAL = c
             /\ pc[g] \notin {"sps", "pps"} => ppsNAL = c
      /\ (\A g \in Setters : call[g] # c) =>
           (spsNAL = c => c <= ppsNAL) /\ (ppsNAL = c => c <= spsNAL)

\* Then the parameters in store are fit for use by a setter that has come to
\* its start, and by any caller while no whole call is running.
LEMMA StoredWhole ==
  ASSUME ProcessInv, WholeCalls, spsNAL # ppsNAL,
         NEW m, m = (IF spsNAL > ppsNAL THEN spsNAL ELSE ppsNAL),
         calls[m] = "whole"
  PROVE  /\ m \in 1 .. Len(calls)
         /\ \E g \in Setters : call[g] = m
<1>1. /\ spsNAL \in 0 .. Len(calls) /\ ppsNAL \in 0 .. Len(calls)
      /\ Len(calls) \in Nat
  BY DEF ProcessInv, StorageTypes, TypeOK
<1>2. m \in 1 .. Len(calls)  BY <1>1
<1> QED  BY <1>1, <1>2 DEF WholeCalls

LEMMA InitWhole == Init => PairsWhole /\ WholeCalls
BY DEF Init, PairsWhole, WholeCalls

\* Steps that leave the setters and the parameters as they are.
LEMMA SameSettersWhole ==
  ASSUME ProcessInv, WholeCalls, CallsKept, Len(calls') = Len(calls),
         UNCHANGED <<spsNAL, ppsNAL, pc, call, given>>
  PROVE  WholeCalls'
<1>1. \A c \in 1 .. Len(calls) : calls'[c] = "whole" => calls[c] = "whole"
  BY DEF CallsKept
<1> QED  BY <1>1 DEF WholeCalls

LEMMA WholeStep == ProcessInv /\ WholeCalls /\ [Next]_vars => WholeCalls'
<1> SUFFICES ASSUME ProcessInv, WholeCalls, [Next]_vars PROVE WholeCalls'
  OBVIOUS
<1>1. /\ pc \in [Setters -> Step] /\ call \in [Setters -> 0 .. Len(calls)]
      /\ given \in [Setters -> [sps : Parameter, pps : Parameter]]
      /\ spsNAL \in 0 .. Len(calls) /\ ppsNAL \in 0 .. Len(calls)
      /\ Len(calls) \in Nat
      /\ \A h \in Setters : pc[h] = "idle" <=> call[h] = 0
  BY DEF ProcessInv, StorageTypes, TypeOK
<1>2. CASE UNCHANGED vars
  <2>1. CallsKept /\ Len(calls') = Len(calls)
    BY <1>2, ProcessStep DEF vars
  <2> QED  BY <1>2, <2>1, SameSettersWhole DEF vars
<1>3. CASE Others
  BY <1>3, OthersAreLocked, LockedProcess, SameSettersWhole DEF Locked
<1>4. ASSUME NEW g \in Setters, SetterStep(g) PROVE WholeCalls'
  <2> DEFINE now == call[g]
  <2>1. ASSUME NEW sps \in Parameter, NEW pps \in Parameter, SetSPSPPS(g, sps, pps)
        PROVE  WholeCalls'
    <3>1. /\ CallsKept /\ Len(calls') = Len(calls) + 1
          /\ calls'[Len(calls) + 1] = "whole" =>
               Busy = {} /\ sps = "good" /\ pps = "good"
          /\ \A h \in Setters : call[h] # 0 => calls'[call[h]] = "disturbed"
      BY <2>1, BeginsKeeps DEF ProcessInv
    <3>2. /\ pc[g] = "idle" /\ call[g] = 0
          /\ pc' = [pc EXCEPT ![g] = "sps"]
          /\ call' = [call EXCEPT ![g] = Len(calls) + 1]
          /\ given' = [given EXCEPT ![g] = [sps |-> sps, pps |-> pps]]
          /\ UNCHANGED <<spsNAL, ppsNAL>>
      BY <1>1, <2>1 DEF SetSPSPPS
    <3>3. ASSUME NEW c \in 1 .. Len(calls), calls'[c] = "whole"
          PROVE  /\ \A h \in Setters : call'[h] # 0 => c <= call'[h]
                 /\ \A h \in Setters : call'[h] # c
                 /\ (spsNAL = c => c <= ppsNAL) /\ (ppsNAL = c => c <= spsNAL)
      <4>1. calls[c] = "whole"  BY <3>1, <3>3 DEF CallsKept
      <4>2. \A h \in Setters : call[h] # c  BY <3>1, <3>3
      <4> QED  BY <1>1, <3>2, <4>1, <4>2 DEF WholeCalls
    <3>4. ASSUME calls'[Len(calls) + 1] = "whole"
          PROVE  /\ \A h \in Setters : call'[h] # 0 => h = g /\ call'[h] = Len(calls) + 1
                 /\ given'[g].sps = "good" /\ given'[g].pps = "good"
                 /\ pc'[g] = "sps"
      BY <1>1, <3>1, <3>2, <3>4 DEF Busy
    <3>5. call'[g] = Len(calls) + 1  BY <1>1, <3>2
    <3>6. \A c \in 1 .. Len(calls') : c \in 1 .. Len(calls) \/ c = Len(calls) + 1
      BY <1>1, <3>1
    <3> QED  BY <1>1, <3>2, <3>3, <3>4, <3>5, <3>6 DEF WholeCalls
  <2>2. ASSUME UNCHANGED calls,
               call'[g] \in {call[g], 0},
               \A h \in Setters \ {g} : pc'[h] = pc[h] /\ call'[h] = call[h]
                                       /\ given'[h] = given[h],
               spsNAL' = spsNAL \/ spsNAL' = now,
               ppsNAL' = ppsNAL \/ ppsNAL' = now,
               now # 0,
               calls[now] = "whole" =>
                 IF call'[g] = 0 THEN spsNAL' = now /\ ppsNAL' = now
                 ELSE /\ given'[g].sps = "good" /\ given'[g].pps = "good"
                      /\ pc'[g] # "sps" => spsNAL' = now
                      /\ pc'[g] \notin {"sps", "pps"} => ppsNAL' = now
        PROVE  WholeCalls'
    <3> SUFFICES ASSUME NEW c \in 1 .. Len(calls), calls[c] = "whole"
                 PROVE  /\ \A h \in Setters : call'[h] # 0 => c <= call'[h]
                        /\ \A h \in Setters :
                             call'[h] = c =>
                               /\ given'[h].sps = "good" /\ given'[h].pps = "good"
                               /\ pc'[h] # "sps" => spsNAL' = c
                               /\ pc'[h] \notin {"sps", "pps"} => ppsNAL' = c
                        /\ (\A h \in Setters : call'[h] # c) =>
                             (spsNAL' = c => c <= ppsNAL') /\ (ppsNAL' = c => c <= spsNAL')
      BY <2>2 DEF WholeCalls
    <3>1. \A h \in Setters \ {g} : call'[h] = call[h]  BY <2>2
    <3>2. \A h \in Setters : call'[h] # 0 => c <= call'[h]
      BY <1>1, <2>2, <3>1 DEF WholeCalls
    <3>3. c <= now /\ now \in 1 .. Len(calls)
      BY <1>1, <2>2 DEF WholeCalls
    <3>4. \A h \in Setters \ {g} : call'[h] # c
      <4>1. ASSUME NEW h \in Setters \ {g}, call[h] = c PROVE FALSE
        BY <2>2, <4>1 DEF ProcessInv, CallsApart
      <4> QED  BY <3>1, <4>1
    <3>5. CASE c = now
      BY <1>1, <2>2, <3>1, <3>2, <3>3, <3>4, <3>5
    <3>6. CASE c # now
      <4>1. \A h \in Setters : call[h] # c /\ call'[h] # c
        BY <2>2, <3>1, <3>4, <3>6
      <4>2. (spsNAL = c => c <= ppsNAL) /\ (ppsNAL = c => c <= spsNAL)
        BY <4>1 DEF WholeCalls
      <4>3. (spsNAL' = c => c <= ppsNAL') /\ (ppsNAL' = c => c <= spsNAL')
        BY <2>2, <3>3, <3>6, <4>2
      <4> QED  BY <3>2, <4>1, <4>3
    <3> QED  BY <3>5, <3>6
  <2>3. CASE StoresOrChecks(g)
    <3>1. pc[g] # "idle" /\ now # 0
      BY <1>1, <2>3 DEF StoresOrChecks, StoresSPS, StoresPPS, ChecksDecoder
    <3>2. now \in 1 .. Len(calls)  BY <1>1, <3>1
    <3>3. calls[now] = "whole" =>
            /\ given[g].sps = "good" /\ given[g].pps = "good"
            /\ pc[g] # "sps" => spsNAL = now
            /\ pc[g] \notin {"sps", "pps"} => ppsNAL = now
      BY <3>2 DEF WholeCalls
    <3>4. CASE StoresSPS(g)
      BY <1>1, <1>4, <2>2, <3>1, <3>3, <3>4 DEF StoresSPS, Returns
    <3>5. CASE StoresPPS(g)
      BY <1>1, <1>4, <2>2, <3>1, <3>3, <3>5 DEF StoresPPS, Returns
    <3>6. CASE ChecksDecoder(g)
      BY <1>1, <1>4, <2>2, <3>1, <3>3, <3>6 DEF ChecksDecoder, Returns
    <3> QED  BY <2>3, <3>4, <3>5, <3>6 DEF StoresOrChecks
  <2>4. CASE StartsDecoder(g) \/ AssignsDecoder(g)
    <3>1. /\ pc[g] \notin {"idle", "sps", "pps"} /\ now # 0
          /\ UNCHANGED <<spsNAL, ppsNAL, calls>>
      BY <1>1, <2>4 DEF StartsDecoder, AssignsDecoder
    <3>2. now \in 1 .. Len(calls)  BY <1>1, <3>1
    <3>3. calls[now] = "whole" =>
            /\ given[g].sps = "good" /\ given[g].pps = "good"
            /\ spsNAL = now /\ ppsNAL = now
      BY <3>1, <3>2 DEF WholeCalls
    <3>4. CASE StartsDecoder(g)
      BY <1>1, <1>4, <2>2, <3>1, <3>3, <3>4 DEF StartsDecoder
    <3>5. CASE AssignsDecoder(g)
      BY <1>1, <1>4, <2>2, <3>1, <3>3, <3>5 DEF AssignsDecoder, Returns
    <3> QED  BY <2>4, <3>4, <3>5
  <2> QED  BY <1>4, <2>1, <2>3, <2>4 DEF SetterStep
<1> QED  BY <1>2, <1>3, <1>4, NextIsAStep

\* What was right of the pairs in use stays right: a call never becomes whole.
LEMMA PairsStay ==
  ASSUME ProcessInv, PairsWhole, CallsKept, NEW pair \in usedPairs, pair[1] # pair[2]
  PROVE  calls'[IF pair[1] > pair[2] THEN pair[1] ELSE pair[2]] # "whole"
<1> DEFINE m == IF pair[1] > pair[2] THEN pair[1] ELSE pair[2]
<1>1. /\ pair[1] \in 0 .. Len(calls) /\ pair[2] \in 0 .. Len(calls)
      /\ Len(calls) \in Nat
  BY DEF ProcessInv, StorageTypes
<1>2. m \in 1 .. Len(calls)  BY <1>1
<1>3. calls[m] # "whole"  BY DEF PairsWhole
<1> HIDE DEF m
<1>4. calls'[m] \in {calls[m], "disturbed"}  BY <1>2 DEF CallsKept
<1>5. calls'[m] # "whole"  BY <1>3, <1>4
<1> QED  BY <1>5 DEF m

LEMMA PairsStep ==
  ProcessInv /\ WholeCalls /\ PairsWhole /\ [Next]_vars => PairsWhole'
<1> SUFFICES ASSUME ProcessInv, WholeCalls, PairsWhole, [Next]_vars,
                    NEW pair \in usedPairs', pair[1] # pair[2]
             PROVE  calls'[IF pair[1] > pair[2] THEN pair[1] ELSE pair[2]] # "whole"
  BY DEF PairsWhole
<1>1. CallsKept  BY ProcessStep
<1>2. CASE pair \in usedPairs  BY <1>1, <1>2, PairsStay
<1> DEFINE m == IF spsNAL > ppsNAL THEN spsNAL ELSE ppsNAL
<1>3. ASSUME pair = <<spsNAL, ppsNAL>>,
             \A c \in 1 .. Len(calls) :
               calls'[c] = "whole" /\ (\E g \in Setters : call[g] = c) =>
                 spsNAL = c /\ ppsNAL = c
      PROVE  calls'[m] # "whole"
  <2>1. /\ spsNAL # ppsNAL
        /\ spsNAL \in 0 .. Len(calls) /\ ppsNAL \in 0 .. Len(calls)
        /\ Len(calls) \in Nat
    BY <1>3 DEF ProcessInv, StorageTypes, TypeOK
  <2> SUFFICES ASSUME calls'[m] = "whole" PROVE FALSE
    OBVIOUS
  <2>2. m \in 1 .. Len(calls)  BY <2>1
  <2>3. calls[m] = "whole"  BY <1>1, <2>2 DEF CallsKept
  <2>4. \E g \in Setters : call[g] = m  BY <2>1, <2>3, StoredWhole
  <2> QED  BY <1>3, <2>1, <2>2, <2>4
<1>4. CASE Others
  <2>1. CASE UNCHANGED usedPairs  BY <1>2, <2>1
  <2>2. CASE usedPairs' # usedPairs
    <3>1. PICK tick \in Ticks, key \in BOOLEAN, corrupted \in BOOLEAN :
            SaveFrame(tick, key, corrupted)
      BY <1>4, <2>2 DEF Others, EnableContinuousDecoder, Close, OwnReport, ForeignReport,
                        UpdateTimestampMapping, SaveFrameFails, SavesImage
    <3>2. /\ calls' = Disturbed
          /\ usedPairs' \subseteq usedPairs \cup {<<spsNAL, ppsNAL>>}
      BY <3>1 DEF SaveFrame
    <3>3. \A g \in Setters : call[g] # 0 => calls'[call[g]] = "disturbed"
      BY <3>2, DisturbedType DEF ProcessInv
    <3>4. pair \in usedPairs \/ pair = <<spsNAL, ppsNAL>>  BY <3>2
    <3>5. \A c \in 1 .. Len(calls) :
            ~(calls'[c] = "whole" /\ \E g \in Setters : call[g] = c)
      BY <3>3
    <3> QED  BY <1>2, <1>3, <3>4, <3>5
  <2> QED  BY <2>1, <2>2
<1>5. ASSUME NEW g \in Setters, SetterStep(g), pair \notin usedPairs
      PROVE  calls'[IF pair[1] > pair[2] THEN pair[1] ELSE pair[2]] # "whole"
  <2>1. StartsDecoder(g)
    BY <1>5 DEF SetterStep, SetSPSPPS, StoresOrChecks, StoresSPS, StoresPPS,
                ChecksDecoder, AssignsDecoder
  <2>2. /\ pc[g] = "start" /\ UNCHANGED calls
        /\ usedPairs' \subseteq usedPairs \cup {<<spsNAL, ppsNAL>>}
    BY <2>1 DEF StartsDecoder
  <2>3. pair = <<spsNAL, ppsNAL>>  BY <1>5, <2>2
  <2>4. call[g] # 0
    BY <2>2 DEF ProcessInv, StorageTypes, TypeOK
  <2>5. ASSUME NEW c \in 1 .. Len(calls), calls[c] = "whole",
               NEW h \in Setters, call[h] = c
        PROVE  spsNAL = c /\ ppsNAL = c
    <3>1. h = g  BY <2>4, <2>5 DEF ProcessInv, CallsApart
    <3> QED  BY <2>2, <2>5, <3>1 DEF WholeCalls
  <2> QED  BY <1>3, <2>2, <2>3, <2>5
<1>6. CASE UNCHANGED vars  BY <1>2, <1>6 DEF vars
<1> QED  BY <1>2, <1>4, <1>5, <1>6, NextIsAStep

\* An ffmpeg is given an SPS and a PPS of one call, unless the later of the
\* two came from a call that had no good partner for it, or in which another
\* call ran (storage.go:735-747).
THEOREM PairsAreWhole == Spec => []PairsWhole
<1>1. Init => PairsWhole /\ WholeCalls  BY InitWhole
<1>2. ProcessInv /\ WholeCalls /\ PairsWhole /\ [Next]_vars => PairsWhole' /\ WholeCalls'
  BY WholeStep, PairsStep
<1> QED  BY <1>1, <1>2, AlwaysProcess, PTL DEF Spec
=============================================================================
