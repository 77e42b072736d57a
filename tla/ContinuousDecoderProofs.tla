----------------------- MODULE ContinuousDecoderProofs -----------------------
(***************************************************************************)
(* The ffmpeg pipeline for any queue and pipe sizes and any number of      *)
(* frames.  The argument is about one sequence, Pipeline: whatever a       *)
(* goroutine or ffmpeg does either moves a frame on, which leaves the      *)
(* sequence as it is, or cuts a piece out of it.                           *)
(***************************************************************************)
EXTENDS ContinuousDecoder, FiniteSetTheorems, SequenceTheorems, TLAPS

Place == {"frameQueue", "shutdown", "corrupted", "write", "ffmpeg",
          "decodedQueue", "disk"}

\* TypeOK, what the history holds, and that a goroutine holds a frame exactly
\* where its code does.
PipelineTypes ==
  /\ TypeOK
  /\ lost \subseteq [frame : Frame, at : Place] /\ IsFiniteSet(lost)
  /\ feeder.frame = None <=> feeder.at \in {"off", "idle", "done"}
  /\ receiver.frame = None <=> receiver.at \in {"off", "check", "read", "done"}
  /\ saver.frame = None <=> saver.at \in {"off", "idle", "done"}
  /\ caller = "new" => feeder.at = "off" /\ receiver.at = "off" /\ saver.at = "off"

Flags == running \in BOOLEAN /\ stdinOpen \in BOOLEAN /\ crashed \in BOOLEAN

LEMMA FlagsKept == Flags /\ [Next]_vars => Flags'
<1> SUFFICES ASSUME Flags, [Next]_vars PROVE Flags'
  OBVIOUS
<1> USE DEF Flags
<1>1. CASE Caller
  BY <1>1, Zenon
     DEF Caller, Start, StartFails, FeedFrame, StopBegins, Stop, StopCloses,
         StopHangsUp, StopReturns, process
<1>2. CASE Feeder
  BY <1>2, Zenon
     DEF Feeder, FeederTakes, FeederEnds, FeederChecks, FeederSendsMetadata,
         FeederWrites, process
<1>3. CASE Receiver
  BY <1>3, Zenon
     DEF Receiver, ReceiverChecks, ReceiverReads, ReceiverSends, process
<1>4. CASE Saver
  BY <1>4, Zenon DEF Saver, SaverTakes, SaverEnds, SaverSaves, process
<1>5. CASE Ffmpeg \/ FfmpegDies
  BY <1>5, Zenon DEF Ffmpeg, FfmpegDecodes, FfmpegComplains, FfmpegEnds, FfmpegDies
<1>6. CASE UNCHANGED vars  BY <1>6, Zenon DEF vars, process
<1> QED  BY <1>1, <1>2, <1>3, <1>4, <1>5, <1>6 DEF Next

LEMMA InitTypes == Init => PipelineTypes
<1> SUFFICES ASSUME Init PROVE PipelineTypes
  OBVIOUS
<1>0. Flags  BY Zenon DEF Init, Flags
<1>1. IsFiniteSet({})  BY FS_EmptySet
<1>2. \A S : << >> \in Seq(S) /\ Len(<< >>) = 0  BY EmptySeq
<1>3. TypeOK
  BY <1>0, <1>2, PipelineAssumption DEF Init, TypeOK, None, Flags
<1> QED  BY <1>1, <1>3 DEF Init, PipelineTypes, None

\* A queue that takes a frame, and one that gives its first one away.
LEMMA QueueTypes ==
  ASSUME NEW q \in Seq(Frame)
  PROVE  /\ \A f \in Frame :
              Append(q, f) \in Seq(Frame) /\ Len(Append(q, f)) = Len(q) + 1
         /\ q # << >> =>
              /\ Head(q) \in Frame /\ Tail(q) \in Seq(Frame)
              /\ Len(Tail(q)) = Len(q) - 1
         /\ Len(q) \in Nat
BY AppendProperties, HeadTailProperties, LenProperties

LEMMA Caps ==
  QueueCap \in Nat /\ MetaCap \in Nat /\ StdinCap \in Nat /\ StdoutCap \in Nat
BY PipelineAssumption

LEMMA RoomForOne ==
  ASSUME NEW q \in Seq(Frame), NEW f \in Frame, NEW cap \in Nat, Len(q) < cap
  PROVE  Append(q, f) \in Seq(Frame) /\ Len(Append(q, f)) <= cap
BY QueueTypes

\* The losses of a piece of the pipeline, such as ffmpeg's input when it dies:
\* as many as it holds frames.
LossesOf(q, where) == {[frame |-> q[i], at |-> where] : i \in DOMAIN q}

LEMMA LossesOfQueue ==
  ASSUME NEW q \in Seq(Frame), NEW where \in Place
  PROVE  /\ LossesOf(q, where) \subseteq [frame : Frame, at : Place] /\ IsFiniteSet(LossesOf(q, where))
         /\ (\A i, j \in 1 .. Len(q) : i # j => q[i] # q[j]) =>
              Cardinality(LossesOf(q, where)) = Len(q)
<1> DEFINE n == Len(q)
           g == [i \in 1 .. n |-> [frame |-> q[i], at |-> where]]
<1>1. DOMAIN q = 1 .. n /\ n \in Nat /\ \A i \in 1 .. n : q[i] \in Frame
  BY LenProperties
<1>2. g \in Surjection(1 .. n, LossesOf(q, where))
  <2>1. g \in [1 .. n -> LossesOf(q, where)]  BY <1>1 DEF LossesOf
  <2>2. ASSUME NEW l \in LossesOf(q, where) PROVE \E i \in 1 .. n : g[i] = l
    BY <1>1, <2>2 DEF LossesOf
  <2> QED  BY <2>1, <2>2 DEF Surjection
<1>3. IsFiniteSet(1 .. n) /\ Cardinality(1 .. n) = n
  <2> HIDE DEF n
  <2>1. n \in Int /\ 1 \in Int /\ (1 > n => n = 0)  BY <1>1
  <2>2. IsFiniteSet(1 .. n) /\ Cardinality(1 .. n) = IF 1 > n THEN 0 ELSE n - 1 + 1
    BY <2>1, FS_Interval
  <2> QED  BY <2>1, <2>2
<1>4. IsFiniteSet(LossesOf(q, where))
      /\ (Cardinality(LossesOf(q, where)) = n <=> g \in Injection(1 .. n, LossesOf(q, where)))
  BY <1>2, <1>3, FS_Surjection
<1>5. LossesOf(q, where) \subseteq [frame : Frame, at : Place]
  BY <1>1 DEF LossesOf, Place
<1>6. ASSUME \A i, j \in 1 .. n : i # j => q[i] # q[j]
      PROVE  Cardinality(LossesOf(q, where)) = n
  <2>1. ASSUME NEW i \in 1 .. n, NEW j \in 1 .. n, g[i] = g[j] PROVE i = j
    <3>1. g[i].frame = q[i] /\ g[j].frame = q[j]  OBVIOUS
    <3> QED  BY <1>6, <2>1, <3>1
  <2>2. g \in Injection(1 .. n, LossesOf(q, where))
    BY <1>2, <2>1 DEF Surjection, Injection, IsInjective
  <2> QED  BY <1>4, <2>2
<1> QED  BY <1>4, <1>5, <1>6

LEMMA LosesType ==
  ASSUME PipelineTypes, NEW f \in Frame, NEW where \in Place, Loses(f, where)
  PROVE  lost' \subseteq [frame : Frame, at : Place] /\ IsFiniteSet(lost')
<1>1. IsFiniteSet(lost \cup {[frame |-> f, at |-> where]})
  BY FS_AddElement DEF PipelineTypes
<1> QED  BY <1>1 DEF Loses, PipelineTypes

LEMMA CallerTypes ==
  ASSUME PipelineTypes, Caller
  PROVE  PipelineTypes'
<1> USE DEF PipelineTypes, Flags
<1>0. Flags'  BY FlagsKept DEF Next, TypeOK
<1>1. CASE Start  BY <1>0, <1>1 DEF Start, TypeOK, queues, process, history, CallerIs, None
<1>2. CASE StartFails  BY <1>0, <1>2 DEF StartFails, TypeOK, queues, process, history, CallerIs
<1>3. ASSUME NEW kind \in Kind, FeedFrame(kind) PROVE PipelineTypes'
  <2> DEFINE f == Len(kinds) + 1
  <2>1. kinds' \in Seq(Kind) /\ Len(kinds') = f /\ f \in Frame
    BY <1>3, AppendProperties, LenProperties, PipelineAssumption DEF FeedFrame, TypeOK, Frame
  <2>2. /\ frameQueue' \in Seq(Frame) /\ Len(frameQueue') <= QueueCap
        /\ lost' \subseteq [frame : Frame, at : Place] /\ IsFiniteSet(lost')
    <3>1. CASE Len(frameQueue) < QueueCap /\ frameQueue' = Append(frameQueue, f) /\ UNCHANGED lost
      BY <3>1, <2>1, QueueTypes, PipelineAssumption DEF TypeOK
    <3>2. CASE Loses(f, "frameQueue") /\ UNCHANGED frameQueue
      BY <3>2, <2>1, LosesType DEF TypeOK, Place
    <3> QED  BY <3>1, <3>2, <1>3 DEF FeedFrame
  <2> HIDE DEF f
  <2>3. UNCHANGED <<caller, running, closed, metadataQueue, decodedQueue, process,
                    feeder, receiver, saver, failedCount, savedCount, crashed,
                    saved, unmatched>>
    BY <1>3 DEF FeedFrame
  <2> QED  BY <2>1, <2>2, <2>3 DEF TypeOK, process, f, Frame
<1>4. CASE StopBegins  BY <1>0, <1>4 DEF StopBegins, TypeOK, queues, process, history, CallerIs
<1>5. CASE Stop
  BY <1>0, <1>5 DEF Stop, StopCloses, StopHangsUp, StopReturns, TypeOK, queues, process, history, CallerIs
<1> QED  BY <1>1, <1>2, <1>3, <1>4, <1>5 DEF Caller

LEMMA FeederTypes ==
  ASSUME PipelineTypes, Feeder
  PROVE  PipelineTypes'
<1> USE DEF PipelineTypes, At, FeederGoes, None, Flags
<1>0. /\ Flags'
      /\ frameQueue \in Seq(Frame) /\ metadataQueue \in Seq(Frame) /\ stdin \in Seq(Frame)
      /\ feeder.at \in {"took", "metadata", "write"} => feeder.frame \in Frame
  BY FlagsKept DEF Next, TypeOK, Flags
<1>1. CASE FeederTakes
  <2>1. /\ Head(frameQueue) \in Frame /\ frameQueue' \in Seq(Frame)
        /\ Len(frameQueue') <= QueueCap
    BY <1>0, <1>1, QueueTypes, PipelineAssumption DEF FeederTakes, TypeOK
  <2>2. Head(frameQueue) # 0  BY <2>1 DEF Frame
  <2> QED  BY <1>1, <2>1, <2>2 DEF FeederTakes, TypeOK, process, history
<1>2. CASE FeederEnds  BY <1>2 DEF FeederEnds, TypeOK, queues, process, history
<1>3. CASE FeederChecks
  <2>1. lost' \subseteq [frame : Frame, at : Place] /\ IsFiniteSet(lost')
    BY <1>0, <1>3, LosesType DEF FeederChecks, Place
  <2> QED  BY <1>0, <1>3, <2>1 DEF FeederChecks, TypeOK, queues, process, history
<1>4. CASE FeederSendsMetadata
  <2>1. metadataQueue' \in Seq(Frame) /\ Len(metadataQueue') <= MetaCap
    <3>1. CASE UNCHANGED metadataQueue  BY <3>1 DEF TypeOK
    <3>2. CASE /\ Len(metadataQueue) < MetaCap
               /\ metadataQueue' = Append(metadataQueue, feeder.frame)
      <4>1. feeder.frame \in Frame  BY <1>0, <1>4 DEF FeederSendsMetadata
      <4> QED  BY <1>0, <3>2, <4>1, RoomForOne, Caps
    <3> QED  BY <1>4, <3>1, <3>2 DEF FeederSendsMetadata
  <2> QED  BY <1>0, <1>4, <2>1 DEF FeederSendsMetadata, TypeOK, process
<1>5. CASE FeederWrites
  <2>1. stdin' \in Seq(Frame) /\ Len(stdin') <= StdinCap
    <3>1. CASE UNCHANGED stdin  BY <3>1 DEF TypeOK
    <3>2. CASE Len(stdin) < StdinCap /\ stdin' = Append(stdin, feeder.frame)
      <4>1. feeder.frame \in Frame  BY <1>0, <1>5 DEF FeederWrites
      <4> QED  BY <1>0, <3>2, <4>1, RoomForOne, Caps
    <3> QED  BY <1>5, <3>1, <3>2 DEF FeederWrites
  <2>2. lost' \subseteq [frame : Frame, at : Place] /\ IsFiniteSet(lost')
    BY <1>0, <1>5, LosesType DEF FeederWrites, Place
  <2>3. failedCount' \in Nat  BY <1>5 DEF FeederWrites, TypeOK
  <2> QED  BY <1>0, <1>5, <2>1, <2>2, <2>3 DEF FeederWrites, TypeOK, queues
<1> QED  BY <1>1, <1>2, <1>3, <1>4, <1>5 DEF Feeder

LEMMA ReceiverTypes ==
  ASSUME PipelineTypes, Receiver
  PROVE  PipelineTypes'
<1> USE DEF PipelineTypes, At, ReceiverGoes, None, Flags
<1>0. /\ Flags'
      /\ stdout \in Seq(Frame) /\ decodedQueue \in Seq(Frame)
      /\ receiver.at = "send" => receiver.frame \in Frame
  BY FlagsKept DEF Next, TypeOK
<1>1. CASE ReceiverChecks
  BY <1>0, <1>1 DEF ReceiverChecks, TypeOK, queues, process, history
<1>2. CASE ReceiverReads
  <2>1. CASE stdout # << >> /\ ReceiverGoes("send", Head(stdout)) /\ stdout' = Tail(stdout)
    <3>1. /\ Head(stdout) \in Frame /\ stdout' \in Seq(Frame) /\ Len(stdout') <= StdoutCap
      BY <1>0, <2>1, QueueTypes, Caps DEF TypeOK
    <3>2. Head(stdout) # 0  BY <3>1 DEF Frame
    <3> QED
      BY <1>0, <1>2, <2>1, <3>1, <3>2 DEF ReceiverReads, TypeOK, queues, history
  <2>2. CASE ReceiverGoes("done", None) /\ UNCHANGED stdout
    BY <1>0, <1>2, <2>2 DEF ReceiverReads, TypeOK, queues, history
  <2> QED  BY <1>2, <2>1, <2>2 DEF ReceiverReads
<1>3. CASE ReceiverSends
  <2>0. receiver.frame \in Frame  BY <1>0, <1>3 DEF ReceiverSends
  <2>1. decodedQueue' \in Seq(Frame) /\ Len(decodedQueue') <= QueueCap
    <3>1. CASE UNCHANGED decodedQueue  BY <3>1 DEF TypeOK
    <3>2. CASE /\ Len(decodedQueue) < QueueCap
               /\ decodedQueue' = Append(decodedQueue, receiver.frame)
      BY <1>0, <2>0, <3>2, RoomForOne, Caps
    <3> QED  BY <1>3, <3>1, <3>2 DEF ReceiverSends
  <2>2. lost' \subseteq [frame : Frame, at : Place] /\ IsFiniteSet(lost')
    BY <1>3, <2>0, LosesType DEF ReceiverSends, Place
  <2> QED  BY <1>0, <1>3, <2>1, <2>2 DEF ReceiverSends, TypeOK, process
<1> QED  BY <1>1, <1>2, <1>3 DEF Receiver

LEMMA NextMetadataType ==
  PipelineTypes => NextMetadata \in Frame \cup {Fallback, ZeroValue}
BY QueueTypes DEF PipelineTypes, TypeOK, NextMetadata

SavedImage == [image : Frame, named : Frame \cup {Fallback, ZeroValue}]

LEMMA SaverTypes ==
  ASSUME PipelineTypes, Saver
  PROVE  PipelineTypes'
<1> USE DEF PipelineTypes, At, None, Flags
<1>0. /\ Flags'
      /\ metadataQueue \in Seq(Frame) /\ decodedQueue \in Seq(Frame)
      /\ saver.at = "match" => saver.frame \in Frame
  BY FlagsKept DEF Next, TypeOK
<1>1. CASE SaverTakes
  <2>1. /\ Head(decodedQueue) \in Frame /\ decodedQueue' \in Seq(Frame)
        /\ Len(decodedQueue') <= QueueCap
    BY <1>0, <1>1, QueueTypes, Caps DEF SaverTakes, TypeOK
  <2>2. Head(decodedQueue) # 0  BY <2>1 DEF Frame
  <2> QED  BY <1>0, <1>1, <2>1, <2>2 DEF SaverTakes, TypeOK, process, history
<1>2. CASE SaverEnds  BY <1>0, <1>2 DEF SaverEnds, TypeOK, queues, process, history
<1>3. CASE SaverSaves
  <2>0. saver.frame \in Frame  BY <1>0, <1>3 DEF SaverSaves
  <2>1. metadataQueue' \in Seq(Frame) /\ Len(metadataQueue') <= MetaCap
    BY <1>0, <1>3, QueueTypes, Caps DEF SaverSaves, TypeOK
  <2>2. NextMetadata \in Frame \cup {Fallback, ZeroValue}
    BY NextMetadataType
  <2>3. saved' \in Seq([image : Frame, named : Frame \cup {Fallback, ZeroValue}])
    <3>1. CASE UNCHANGED saved  BY <3>1 DEF TypeOK
    <3>2. CASE saved' = Append(saved, [image |-> saver.frame, named |-> NextMetadata])
      <4>1. [image |-> saver.frame, named |-> NextMetadata]
              \in [image : Frame, named : Frame \cup {Fallback, ZeroValue}]
        BY <2>0, <2>2
      <4> QED  BY <3>2, <4>1, AppendProperties DEF TypeOK
    <3> QED  BY <1>3, <3>1, <3>2 DEF SaverSaves
  <2>4. lost' \subseteq [frame : Frame, at : Place] /\ IsFiniteSet(lost')
    BY <1>3, <2>0, LosesType DEF SaverSaves, Place
  <2> QED  BY <1>0, <1>3, <2>1, <2>3, <2>4 DEF SaverSaves, TypeOK, process
<1> QED  BY <1>1, <1>2, <1>3 DEF Saver

LEMMA FfmpegTypes ==
  ASSUME PipelineTypes, Ffmpeg \/ FfmpegDies
  PROVE  PipelineTypes'
<1> USE DEF PipelineTypes, FfmpegUp, Flags
<1>0. /\ Flags'
      /\ stdin \in Seq(Frame) /\ stdout \in Seq(Frame)
      /\ stdin # << >> => /\ Head(stdin) \in Frame /\ Tail(stdin) \in Seq(Frame)
                          /\ Len(Tail(stdin)) <= StdinCap
  BY FlagsKept, QueueTypes, Caps DEF Next, TypeOK
<1>1. CASE FfmpegDecodes
  <2>1. stdout' \in Seq(Frame) /\ Len(stdout') <= StdoutCap
    <3>1. Head(stdin) \in Frame /\ Len(stdout) < StdoutCap
      BY <1>0, <1>1 DEF FfmpegDecodes
    <3> QED  BY <1>0, <1>1, <3>1, RoomForOne, Caps DEF FfmpegDecodes
  <2> QED  BY <1>0, <1>1, <2>1 DEF FfmpegDecodes, TypeOK, queues, history
<1>2. CASE FfmpegComplains
  <2>1. lost' \subseteq [frame : Frame, at : Place] /\ IsFiniteSet(lost')
    BY <1>0, <1>2, LosesType DEF FfmpegComplains, Place
  <2>2. stderr' \in 0 .. StderrCap
    BY <1>2, PipelineAssumption DEF FfmpegComplains, TypeOK
  <2> QED  BY <1>0, <1>2, <2>1, <2>2 DEF FfmpegComplains, TypeOK, queues
<1>3. CASE FfmpegEnds  BY <1>0, <1>3 DEF FfmpegEnds, TypeOK, queues, history
<1>4. CASE FfmpegDies
  <2>1. lost' = lost \cup LossesOf(stdin, "ffmpeg")  BY <1>4 DEF FfmpegDies, LossesOf
  <2>2. LossesOf(stdin, "ffmpeg") \subseteq [frame : Frame, at : Place] /\ IsFiniteSet(LossesOf(stdin, "ffmpeg"))
    BY <1>0, LossesOfQueue DEF Place
  <2>3. lost' \subseteq [frame : Frame, at : Place] /\ IsFiniteSet(lost')
    BY <2>1, <2>2, FS_Union
  <2>4. stdin' \in Seq(Frame) /\ Len(stdin') <= StdinCap
    BY <1>4, EmptySeq, Caps DEF FfmpegDies
  <2> QED  BY <1>0, <1>4, <2>3, <2>4 DEF FfmpegDies, TypeOK, queues
<1> QED  BY <1>1, <1>2, <1>3, <1>4 DEF Ffmpeg

LEMMA StutterTypes == PipelineTypes /\ UNCHANGED vars => PipelineTypes'
BY DEF PipelineTypes, TypeOK, vars, queues, process, history

LEMMA TypesKept == PipelineTypes /\ [Next]_vars => PipelineTypes'
BY CallerTypes, FeederTypes, ReceiverTypes, SaverTypes, FfmpegTypes, StutterTypes
   DEF Next

\* The types of ContinuousDecoder hold (storage.go, ContinuousDecoder): the
\* channels and pipes keep their capacities, and a goroutine holds a frame
\* exactly where its code does.
THEOREM PipelineTypeOK == Spec => []PipelineTypes
BY InitTypes, TypesKept, PTL DEF Spec
-----------------------------------------------------------------------------
\* Channels are closed in Stop only, after cd.running was cleared.
ShutdownInv ==
  /\ closed # {} => caller \in {"closing", "hangup", "waiting", "stopped"}
  /\ caller \in {"closing", "hangup", "waiting", "stopped"} => ~running
  /\ crashed => closed # {}

LEMMA ShutdownKept == PipelineTypes /\ ShutdownInv /\ [Next]_vars => ShutdownInv'
<1> SUFFICES ASSUME PipelineTypes, ShutdownInv, [Next]_vars PROVE ShutdownInv'
  OBVIOUS
<1> USE DEF ShutdownInv
<1>1. CASE Start \/ StartFails
  <2>1. UNCHANGED <<closed, crashed>> /\ caller = "new"
    BY <1>1, Zenon DEF Start, StartFails, CallerIs
  <2>2. caller' \in {"feeding", "failed"}  BY <1>1 DEF Start, StartFails
  <2> QED  BY <2>1, <2>2
<1>2. CASE StopBegins
  <2>1. UNCHANGED <<closed, crashed>> /\ ~running' /\ caller = "feeding" /\ caller' = "closing"
    BY <1>2, Zenon DEF StopBegins, CallerIs
  <2> QED  BY <2>1
<1>3. CASE Stop
  <2>1. ASSUME NEW channel \in {"frame", "decoded", "metadata"}, StopCloses(channel)
        PROVE  ShutdownInv'
    <3>1. ~running /\ running' = running
      BY <2>1, Zenon DEF StopCloses, CallerIs
    <3>2. caller' \in {"closing", "hangup"} /\ closed' # {}
      BY <2>1 DEF StopCloses
    <3> QED  BY <3>1, <3>2
  <2>2. CASE StopHangsUp \/ StopReturns
    <3>1. UNCHANGED <<running, closed, crashed>> /\ (caller = "hangup" \/ caller = "waiting")
      BY <2>2, Zenon DEF StopHangsUp, StopReturns, CallerIs
    <3>2. caller' \in {"waiting", "stopped"}
      BY <2>2 DEF StopHangsUp, StopReturns
    <3> QED  BY <3>1, <3>2
  <2> QED  BY <1>3, <2>1, <2>2 DEF Stop
<1>4. ASSUME UNCHANGED <<caller, running, closed>>, crashed' => crashed \/ closed # {}
      PROVE  ShutdownInv'
  BY <1>4
<1>5. CASE Feeder
  <2>1. UNCHANGED <<caller, running, closed>>
    BY <1>5, Zenon DEF Feeder, FeederTakes, FeederEnds, FeederChecks,
                       FeederSendsMetadata, FeederWrites
  <2>2. crashed' => crashed \/ "metadata" \in closed
    BY <1>5, Zenon DEF Feeder, FeederTakes, FeederEnds, FeederChecks,
                       FeederSendsMetadata, FeederWrites
  <2> QED  BY <1>4, <2>1, <2>2
<1>6. CASE Receiver
  <2>1. UNCHANGED <<caller, running, closed>>
    BY <1>6, Zenon DEF Receiver, ReceiverChecks, ReceiverReads, ReceiverSends
  <2>2. crashed' => crashed \/ "decoded" \in closed
    BY <1>6, Zenon DEF Receiver, ReceiverChecks, ReceiverReads, ReceiverSends
  <2> QED  BY <1>4, <2>1, <2>2
<1>7. CASE \/ \E kind \in Kind : FeedFrame(kind)
           \/ Saver \/ Ffmpeg \/ FfmpegDies \/ UNCHANGED vars
  <2>1. UNCHANGED <<caller, running, closed, crashed>>
    BY <1>7, Zenon
       DEF FeedFrame, Saver, SaverTakes, SaverEnds, SaverSaves, Ffmpeg,
           FfmpegDecodes, FfmpegComplains, FfmpegEnds, FfmpegDies, vars
  <2> QED  BY <1>4, <2>1
<1> QED  BY <1>1, <1>2, <1>3, <1>5, <1>6, <1>7 DEF Next, Caller

\* The three goroutines send and receive without asking whether Stop has begun,
\* and yet none panics before: a channel is closed only by a Stop that has
\* cleared cd.running (storage.go, Stop).
THEOREM PanicsOnlyInShutdown == Spec => []PanicOnlyInShutdown
<1>1. Init => ShutdownInv
  BY Zenon DEF Init, ShutdownInv
<1>2. ShutdownInv => PanicOnlyInShutdown
  BY DEF ShutdownInv, PanicOnlyInShutdown
<1> QED  BY <1>1, <1>2, ShutdownKept, PipelineTypeOK, PTL DEF Spec
-----------------------------------------------------------------------------
(* Sequences of frames.                                                    *)

\* q is p without the n frames behind the first a.
Cut(p, q, a, n) ==
  /\ a \in Nat /\ n \in Nat /\ a + n <= Len(p)
  /\ Len(q) = Len(p) - n
  /\ \A i \in 1 .. a : q[i] = p[i]
  /\ \A i \in a + 1 .. Len(q) : q[i] = p[i + n]

\* A cut is one whatever follows.
LEMMA CutBehind ==
  ASSUME NEW p \in Seq(Frame), NEW q \in Seq(Frame), NEW y \in Seq(Frame),
         NEW a \in Nat, NEW n \in Nat, Cut(p, q, a, n)
  PROVE  Cut(p \o y, q \o y, a, n)
<1> DEFINE b == p \o y
           c == q \o y
<1>1. /\ Len(p) \in Nat /\ Len(q) \in Nat /\ Len(y) \in Nat
      /\ Len(b) = Len(p) + Len(y) /\ Len(c) = Len(q) + Len(y)
      /\ \A i \in 1 .. Len(p) + Len(y) : b[i] = IF i <= Len(p) THEN p[i] ELSE y[i - Len(p)]
      /\ \A i \in 1 .. Len(q) + Len(y) : c[i] = IF i <= Len(q) THEN q[i] ELSE y[i - Len(q)]
  BY ConcatProperties, LenProperties
<1> HIDE DEF b, c
<1>2. /\ a + n <= Len(p) /\ Len(q) = Len(p) - n
      /\ \A i \in 1 .. a : q[i] = p[i]
      /\ \A i \in a + 1 .. Len(q) : q[i] = p[i + n]
  BY DEF Cut
<1>3. ASSUME NEW i \in 1 .. a PROVE c[i] = b[i]
  <2>1. /\ i \in 1 .. Len(p) + Len(y) /\ i <= Len(p)
        /\ i \in 1 .. Len(q) + Len(y) /\ i <= Len(q)
    BY <1>1, <1>2
  <2>2. b[i] = p[i] /\ c[i] = q[i]  BY <1>1, <2>1
  <2> QED  BY <1>2, <2>2
<1>4. ASSUME NEW i \in a + 1 .. Len(c) PROVE c[i] = b[i + n]
  <2>1. CASE i <= Len(q)  BY <1>1, <1>2, <2>1
  <2>2. CASE i > Len(q)
    <3>1. /\ i + n \in 1 .. Len(p) + Len(y) /\ ~(i + n <= Len(p))
          /\ i - Len(q) = i + n - Len(p)
      BY <1>1, <1>2, <2>2
    <3>2. c[i] = y[i - Len(q)]  BY <1>1, <1>2, <2>2
    <3>3. b[i + n] = y[i + n - Len(p)]  BY <1>1, <3>1
    <3> QED  BY <3>1, <3>2, <3>3
  <2> QED  BY <1>1, <1>2, <2>1, <2>2
<1>5. Cut(b, c, a, n)  BY <1>1, <1>2, <1>3, <1>4 DEF Cut
<1> QED  BY <1>5 DEF b, c

\* Frames may be cut out at the end, or the first one of the last queue.
LEMMA CutAtEnd ==
  ASSUME NEW x \in Seq(Frame), NEW s \in Seq(Frame)
  PROVE  /\ Cut(x \o s, x \o << >>, Len(x), Len(s))
         /\ s # << >> => Cut(x \o s, x \o Tail(s), Len(x), 1)
<1>1. /\ Len(x) \in Nat /\ Len(s) \in Nat
      /\ x \o << >> = x
      /\ Len(x \o s) = Len(x) + Len(s)
      /\ \A i \in 1 .. Len(x) + Len(s) :
           (x \o s)[i] = IF i <= Len(x) THEN x[i] ELSE s[i - Len(x)]
  BY ConcatProperties, LenProperties, ConcatEmptySeq
<1>2. Cut(x \o s, x \o << >>, Len(x), Len(s))  BY <1>1 DEF Cut
<1>3. ASSUME s # << >> PROVE Cut(x \o s, x \o Tail(s), Len(x), 1)
  <2>1. /\ Tail(s) \in Seq(Frame) /\ Len(Tail(s)) = Len(s) - 1 /\ Len(s) > 0
        /\ \A i \in 1 .. Len(Tail(s)) : Tail(s)[i] = s[i + 1]
    BY <1>1, <1>3, HeadTailProperties, EmptySeq
  <2>2. /\ Len(x \o Tail(s)) = Len(x) + Len(Tail(s))
        /\ \A i \in 1 .. Len(x) + Len(Tail(s)) :
             (x \o Tail(s))[i] = IF i <= Len(x) THEN x[i] ELSE Tail(s)[i - Len(x)]
    BY <2>1, ConcatProperties
  <2>3. ASSUME NEW i \in Len(x) + 1 .. Len(x \o Tail(s))
        PROVE  (x \o Tail(s))[i] = (x \o s)[i + 1]
    <3>1. i - Len(x) \in 1 .. Len(Tail(s)) /\ (i - Len(x)) + 1 = (i + 1) - Len(x)
      BY <1>1, <2>1, <2>2
    <3> QED  BY <1>1, <2>1, <2>2, <3>1
  <2> QED  BY <1>1, <2>1, <2>2, <2>3 DEF Cut
<1> QED  BY <1>2, <1>3

\* The first frame of a queue goes to the end of the one before it: the whole
\* stays what it is.
LEMMA MovesOn ==
  ASSUME NEW x \in Seq(Frame), NEW s \in Seq(Frame), NEW q \in Seq(Frame), q # << >>
  PROVE  (x \o s) \o q = (x \o Append(s, Head(q))) \o Tail(q)
<1> DEFINE h == Head(q)
<1>1. h \in Frame /\ Tail(q) \in Seq(Frame) /\ <<h>> \in Seq(Frame)
  BY HeadTailProperties
<1>2. q = <<h>> \o Tail(q)
  <2>1. Len(Tail(q)) = Len(q) - 1 /\ \A i \in 1 .. Len(Tail(q)) : Tail(q)[i] = q[i + 1]
    BY HeadTailProperties
  <2>2. /\ <<h>> \o Tail(q) \in Seq(Frame)
        /\ Len(<<h>> \o Tail(q)) = 1 + Len(Tail(q))
        /\ \A i \in 1 .. 1 + Len(Tail(q)) :
             (<<h>> \o Tail(q))[i] = IF i <= 1 THEN h ELSE Tail(q)[i - 1]
    BY <1>1, ConcatProperties
  <2>3. Len(q) \in Nat /\ h = q[1]  BY LenProperties
  <2> HIDE DEF h
  <2>4. \A i \in 1 .. Len(q) : q[i] = (<<h>> \o Tail(q))[i]  BY <2>1, <2>2, <2>3
  <2>5. Len(q) = Len(<<h>> \o Tail(q))  BY <2>1, <2>2, <2>3
  <2> QED  BY <2>2, <2>4, <2>5, SeqEqual
<1> HIDE DEF h
<1>3. Append(s, h) = s \o <<h>>  BY <1>1, AppendIsConcat
<1>4. x \o s \in Seq(Frame) /\ s \o <<h>> \in Seq(Frame)  BY <1>1, ConcatProperties
<1>5. (x \o s) \o (<<h>> \o Tail(q)) = ((x \o s) \o <<h>>) \o Tail(q)
  BY <1>1, <1>4, ConcatAssociative
<1>6. (x \o s) \o <<h>> = x \o (s \o <<h>>)  BY <1>1, ConcatAssociative
<1> QED  BY <1>2, <1>3, <1>5, <1>6 DEF h
-----------------------------------------------------------------------------
(* What a step does to the pipeline.                                       *)

\* The part of the pipeline behind the feeder.
Converting == Held(saver) \o decodedQueue \o Held(receiver) \o stdout \o stdin

\* A piece s is cut out of p and lost; the first frame of p is saved.
Dropped(p, q) ==
  \E a \in Nat, s \in Seq(Frame), where \in Place :
    /\ Cut(p, q, a, Len(s)) /\ (\A i \in 1 .. Len(s) : s[i] = p[a + i])
    /\ lost' = lost \cup LossesOf(s, where)
    /\ saved' = saved

Emitted(p, q) ==
  /\ Cut(p, q, 0, 1)
  /\ saved' = Append(saved, [image |-> p[1], named |-> NextMetadata])
  /\ lost' = lost

Kept(p, q) == q = p /\ UNCHANGED <<saved, lost>>

LEMMA StepBehind ==
  ASSUME NEW p \in Seq(Frame), NEW q \in Seq(Frame), NEW y \in Seq(Frame)
  PROVE  /\ Dropped(p, q) => Dropped(p \o y, q \o y)
         /\ Emitted(p, q) => Emitted(p \o y, q \o y)
<1>1. /\ Len(p) \in Nat /\ Len(y) \in Nat
      /\ \A i \in 1 .. Len(p) + Len(y) :
           (p \o y)[i] = IF i <= Len(p) THEN p[i] ELSE y[i - Len(p)]
  BY ConcatProperties, LenProperties
<1>2. ASSUME Dropped(p, q) PROVE Dropped(p \o y, q \o y)
  <2>1. PICK a \in Nat, s \in Seq(Frame), where \in Place :
          /\ Cut(p, q, a, Len(s)) /\ (\A i \in 1 .. Len(s) : s[i] = p[a + i])
          /\ lost' = lost \cup LossesOf(s, where)
          /\ saved' = saved
    BY <1>2 DEF Dropped
  <2>2. Len(s) \in Nat  BY LenProperties
  <2>3. Cut(p \o y, q \o y, a, Len(s))  BY <2>1, <2>2, CutBehind
  <2>4. ASSUME NEW i \in 1 .. Len(s) PROVE s[i] = (p \o y)[a + i]
    <3>1. a + i \in 1 .. Len(p) + Len(y) /\ a + i <= Len(p)
      BY <1>1, <2>1, <2>2 DEF Cut
    <3>2. (p \o y)[a + i] = p[a + i]  BY <1>1, <3>1
    <3> QED  BY <2>1, <3>2
  <2> QED  BY <2>1, <2>3, <2>4 DEF Dropped
<1>3. ASSUME Emitted(p, q) PROVE Emitted(p \o y, q \o y)
  <2>1. Cut(p \o y, q \o y, 0, 1)  BY <1>3, CutBehind DEF Emitted
  <2>2. 1 \in 1 .. Len(p) + Len(y) /\ 1 <= Len(p)  BY <1>1, <1>3 DEF Emitted, Cut
  <2>3. (p \o y)[1] = p[1]  BY <1>1, <2>2
  <2> QED  BY <1>3, <2>1, <2>3 DEF Emitted
<1> QED  BY <1>2, <1>3

\* What is dropped is the last queue, or the first frame of it.
LEMMA DropQueue ==
  ASSUME NEW x \in Seq(Frame), NEW s \in Seq(Frame), NEW where \in Place,
         lost' = lost \cup LossesOf(s, where), saved' = saved
  PROVE  Dropped(x \o s, x \o << >>)
<1> DEFINE a == Len(x)
<1>1. a \in Nat /\ Len(s) \in Nat  BY LenProperties
<1>2. Cut(x \o s, x \o << >>, a, Len(s))  BY CutAtEnd
<1>3. ASSUME NEW i \in 1 .. Len(s) PROVE s[i] = (x \o s)[a + i]
  <2>1. a + i \in 1 .. Len(x) + Len(s) /\ ~(a + i <= Len(x)) /\ a + i - Len(x) = i
    BY <1>1
  <2>2. (x \o s)[a + i] = s[a + i - Len(x)]  BY <2>1, ConcatProperties
  <2> QED  BY <2>1, <2>2
<1> QED  BY <1>1, <1>2, <1>3 DEF Dropped

LEMMA DropFirst ==
  ASSUME NEW x \in Seq(Frame), NEW s \in Seq(Frame), NEW where \in Place, s # << >>,
         Loses(Head(s), where), saved' = saved
  PROVE  Dropped(x \o s, x \o Tail(s))
<1> DEFINE a == Len(x)
           h == Head(s)
           one == <<h>>
<1>1. a \in Nat /\ Len(s) \in Nat /\ Len(s) > 0 /\ h = s[1] /\ h \in Frame
  BY LenProperties, EmptySeq, HeadTailProperties
<1>2. Cut(x \o s, x \o Tail(s), a, 1)  BY CutAtEnd
<1> HIDE DEF h
<1>3. one \in Seq(Frame) /\ Len(one) = 1 /\ DOMAIN one = {1} /\ one[1] = h
  BY <1>1
<1>4. LossesOf(one, where) = {[frame |-> h, at |-> where]}
  <2> HIDE DEF one
  <2> QED  BY <1>3 DEF LossesOf
<1>5. (x \o s)[a + 1] = h
  <2>1. a + 1 \in 1 .. Len(x) + Len(s) /\ ~(a + 1 <= Len(x)) /\ a + 1 - Len(x) = 1
    BY <1>1
  <2>2. (x \o s)[a + 1] = s[a + 1 - Len(x)]  BY <2>1, ConcatProperties
  <2> QED  BY <1>1, <2>1, <2>2
<1> HIDE DEF one
<1>6. lost' = lost \cup LossesOf(one, where)  BY <1>4 DEF Loses, h
<1>7. Cut(x \o s, x \o Tail(s), a, Len(one))
      /\ \A i \in 1 .. Len(one) : one[i] = (x \o s)[a + i]
  BY <1>2, <1>3, <1>5
<1> HIDE DEF a
<1> QED  BY <1>1, <1>3, <1>6, <1>7 DEF Dropped

\* The parts of the pipeline, and what they make up together.
LEMMA Parts ==
  ASSUME PipelineTypes
  PROVE  /\ Held(saver) \in Seq(Frame) /\ Held(receiver) \in Seq(Frame)
         /\ Held(feeder) \in Seq(Frame)
         /\ decodedQueue \in Seq(Frame) /\ stdout \in Seq(Frame)
         /\ stdin \in Seq(Frame) /\ frameQueue \in Seq(Frame)
         /\ Held(saver) \o decodedQueue \in Seq(Frame)
         /\ Held(saver) \o decodedQueue \o Held(receiver) \in Seq(Frame)
         /\ Held(saver) \o decodedQueue \o Held(receiver) \o stdout \in Seq(Frame)
         /\ Converting \in Seq(Frame) /\ Converting \o Held(feeder) \in Seq(Frame)
         /\ Pipeline \in Seq(Frame)
         /\ Pipeline = Converting \o Held(feeder) \o frameQueue
<1>1. /\ Held(saver) \in Seq(Frame) /\ Held(receiver) \in Seq(Frame)
      /\ Held(feeder) \in Seq(Frame)
  BY DEF PipelineTypes, TypeOK, Held
<1>2. /\ decodedQueue \in Seq(Frame) /\ stdout \in Seq(Frame)
      /\ stdin \in Seq(Frame) /\ frameQueue \in Seq(Frame)
  BY DEF PipelineTypes, TypeOK
<1>3. Held(saver) \o decodedQueue \in Seq(Frame)  BY <1>1, <1>2, ConcatProperties
<1>4. Held(saver) \o decodedQueue \o Held(receiver) \in Seq(Frame)
  BY <1>1, <1>3, ConcatProperties
<1>5. Held(saver) \o decodedQueue \o Held(receiver) \o stdout \in Seq(Frame)
  BY <1>2, <1>4, ConcatProperties
<1>6. Converting \in Seq(Frame)  BY <1>2, <1>5, ConcatProperties DEF Converting
<1>7. Converting \o Held(feeder) \in Seq(Frame)  BY <1>1, <1>6, ConcatProperties
<1>8. Pipeline = Converting \o Held(feeder) \o frameQueue
  BY DEF Pipeline, Converting
<1>9. Pipeline \in Seq(Frame)  BY <1>2, <1>7, <1>8, ConcatProperties
<1> QED  BY <1>1, <1>2, <1>3, <1>4, <1>5, <1>6, <1>7, <1>8, <1>9

\* What is dropped here, if anything is, disturbs the matching of metadata.
Disturbs == MatchingDisturbed' \/ Converting' = Converting

LEMMA LossDisturbs ==
  ASSUME NEW f, NEW where \in {"write", "ffmpeg", "decodedQueue"},
         [frame |-> f, at |-> where] \in lost'
  PROVE  MatchingDisturbed'
<1>1. \E l \in lost' : l.at \in {"write", "ffmpeg", "decodedQueue"}
  <2>1. [frame |-> f, at |-> where].at = where  OBVIOUS
  <2> QED  BY <2>1
<1> QED  BY <1>1 DEF MatchingDisturbed

\* ffmpeg takes its first frame and puts its image out, or loses it.
LEMMA FfmpegStep ==
  ASSUME PipelineTypes, PipelineTypes', Ffmpeg \/ FfmpegDies
  PROVE  \/ Kept(Converting, Converting')
         \/ Dropped(Converting, Converting') /\ Disturbs
<1> DEFINE x == Held(saver) \o decodedQueue \o Held(receiver)
<1>1. x \in Seq(Frame) /\ x \o stdout \in Seq(Frame)
      /\ stdout \in Seq(Frame) /\ stdin \in Seq(Frame)
  BY Parts
<1>2. Converting = (x \o stdout) \o stdin  BY DEF Converting
<1>3. x' = x
  BY DEF Ffmpeg, FfmpegDecodes, FfmpegComplains, FfmpegEnds, FfmpegDies, Held, queues
<1>4. Converting' = (x \o stdout') \o stdin'  BY <1>3 DEF Converting
<1> HIDE DEF x
<1>5. CASE FfmpegDecodes
  <2>1. stdin # << >> /\ stdout' = Append(stdout, Head(stdin)) /\ stdin' = Tail(stdin)
    BY <1>5 DEF FfmpegDecodes
  <2>2. Converting' = Converting  BY <1>1, <1>2, <1>4, <2>1, MovesOn
  <2> QED  BY <1>5, <2>2 DEF FfmpegDecodes, Kept, history
<1>6. CASE FfmpegComplains
  <2>1. /\ stdin # << >> /\ stdout' = stdout /\ stdin' = Tail(stdin)
        /\ saved' = saved /\ Loses(Head(stdin), "ffmpeg")
    BY <1>6 DEF FfmpegComplains
  <2>2. Disturbs
    <3>1. MatchingDisturbed'  BY <2>1, LossDisturbs DEF Loses
    <3> QED  BY <3>1, Zenon DEF Disturbs
  <2>3. Dropped(Converting, Converting')
    BY <1>1, <1>2, <1>4, <2>1, DropFirst DEF Place
  <2> QED  BY <2>2, <2>3
<1>7. CASE FfmpegEnds
  BY <1>2, <1>4, <1>7 DEF FfmpegEnds, Kept, history
<1>8. CASE FfmpegDies
  <2>1. /\ stdout' = stdout /\ stdin' = << >> /\ saved' = saved
        /\ lost' = lost \cup LossesOf(stdin, "ffmpeg")
    BY <1>8 DEF FfmpegDies, LossesOf
  <2>2. CASE stdin = << >>
    BY <1>1, <1>2, <1>4, <2>1, <2>2, DropQueue DEF Place, Disturbs
  <2>3. CASE stdin # << >>
    <3>1. 1 \in DOMAIN stdin  BY <1>1, <2>3, LenProperties, EmptySeq
    <3>2. [frame |-> stdin[1], at |-> "ffmpeg"] \in lost'
      BY <2>1, <3>1 DEF LossesOf
    <3>3. MatchingDisturbed'  BY <3>2, LossDisturbs
    <3> QED  BY <1>1, <1>2, <1>4, <2>1, <3>3, DropQueue DEF Place, Disturbs
  <2> QED  BY <2>2, <2>3
<1> QED  BY <1>5, <1>6, <1>7, <1>8 DEF Ffmpeg

\* The receiver takes an image from its pipe, and queues or drops it.
LEMMA ReceiverStep ==
  ASSUME PipelineTypes, PipelineTypes', Receiver
  PROVE  \/ Kept(Converting, Converting')
         \/ Dropped(Converting, Converting') /\ Disturbs
<1> DEFINE s == Held(saver)
           x == s \o decodedQueue
           h == Held(receiver)
<1>1. /\ s \in Seq(Frame) /\ x \in Seq(Frame) /\ h \in Seq(Frame)
      /\ decodedQueue \in Seq(Frame) /\ stdout \in Seq(Frame) /\ stdin \in Seq(Frame)
      /\ x \o h \in Seq(Frame) /\ x \o h \o stdout \in Seq(Frame)
  BY Parts
<1>2. Converting = x \o h \o stdout \o stdin /\ Converting' = x' \o h' \o stdout' \o stdin'
  BY DEF Converting
<1>3. CASE ReceiverChecks
  <2>1. UNCHANGED <<saver, decodedQueue, stdout, stdin, saved, lost>>
    BY <1>3 DEF ReceiverChecks, queues, process, history
  <2>2. h = << >> /\ h' = << >>
    BY <1>3 DEF ReceiverChecks, ReceiverGoes, At, PipelineTypes, Held
  <2> QED  BY <1>2, <2>1, <2>2 DEF Kept, Held
<1>4. CASE ReceiverReads
  <2>1. saver' = saver /\ decodedQueue' = decodedQueue /\ stdin' = stdin /\ UNCHANGED <<saved, lost>>
    BY <1>4 DEF ReceiverReads, queues, history
  <2>2. h = << >>
    BY <1>4 DEF ReceiverReads, At, PipelineTypes, Held
  <2>3. CASE stdout # << >> /\ ReceiverGoes("send", Head(stdout)) /\ stdout' = Tail(stdout)
    <3>1. Head(stdout) \in Frame  BY <1>1, <2>3, HeadTailProperties
    <3>2. h' = <<Head(stdout)>>
      BY <2>3, <3>1 DEF ReceiverGoes, Held, None, Frame
    <3>3. <<Head(stdout)>> = Append(<< >>, Head(stdout))  OBVIOUS
    <3>4. x' = x  BY <2>1 DEF Held
    <3> HIDE DEF x, h
    <3>5. x' \o h' \o stdout' = x \o h \o stdout
      BY <1>1, <2>2, <2>3, <3>2, <3>3, <3>4, MovesOn, EmptySeq
    <3> QED  BY <1>2, <2>1, <3>5 DEF Kept
  <2>4. CASE ReceiverGoes("done", None) /\ stdout' = stdout
    <3>1. h' = << >>  BY <2>4 DEF ReceiverGoes, Held
    <3> QED  BY <1>2, <2>1, <2>2, <2>4, <3>1 DEF Kept, Held
  <2> QED  BY <1>4, <2>3, <2>4 DEF ReceiverReads
<1>5. CASE ReceiverSends
  <2>0. receiver.frame \in Frame /\ h = <<receiver.frame>>
    BY <1>5 DEF ReceiverSends, At, PipelineTypes, TypeOK, Held, None
  <2>1. s' = s /\ stdout' = stdout /\ stdin' = stdin /\ saved' = saved
    BY <1>5 DEF ReceiverSends, process, Held
  <2>2. CASE UNCHANGED <<decodedQueue, receiver, lost>>
    BY <1>2, <2>1, <2>2 DEF Kept, Held
  <2>3. CASE /\ IF Len(decodedQueue) < QueueCap
                THEN decodedQueue' = Append(decodedQueue, receiver.frame) /\ UNCHANGED lost
                ELSE Loses(receiver.frame, "decodedQueue") /\ UNCHANGED decodedQueue
             /\ ReceiverGoes("check", None)
    <3>1. h' = << >>  BY <2>3 DEF ReceiverGoes, Held
    <3>2. Head(h) = receiver.frame /\ Tail(h) = << >> /\ h # << >>  BY <2>0
    <3>3. CASE decodedQueue' = Append(decodedQueue, receiver.frame) /\ lost' = lost
      <4>1. x \o h = (s \o Append(decodedQueue, Head(h))) \o Tail(h)
        <5> HIDE DEF s, h
        <5> QED  BY <1>1, <3>2, MovesOn
      <4>2. x' = s \o Append(decodedQueue, Head(h)) /\ h' = Tail(h)
        <5> HIDE DEF s, h
        <5> QED  BY <2>1, <3>1, <3>2, <3>3
      <4>3. x' \o h' = x \o h
        <5> HIDE DEF x, h
        <5> QED  BY <4>1, <4>2
      <4> QED  BY <1>2, <2>1, <3>3, <4>3 DEF Kept
    <3>4. CASE Loses(receiver.frame, "decodedQueue") /\ decodedQueue' = decodedQueue
      <4>1. Loses(Head(h), "decodedQueue") /\ x' = x  BY <2>1, <3>2, <3>4
      <4> HIDE DEF x, h
      <4>2. Dropped(x \o h, x \o h')
        BY <1>1, <2>1, <3>1, <3>2, <4>1, DropFirst DEF Place
      <4>3. h' \in Seq(Frame) /\ x \o h' \in Seq(Frame) /\ x \o h' \o stdout \in Seq(Frame)
        BY <1>1, <3>1, EmptySeq, ConcatProperties
      <4>4. Dropped(x \o h \o stdout, x \o h' \o stdout)  BY <1>1, <4>2, <4>3, StepBehind
      <4>5. Dropped(x \o h \o stdout \o stdin, x \o h' \o stdout \o stdin)
        BY <1>1, <4>3, <4>4, StepBehind
      <4>6. MatchingDisturbed'  BY <3>4, LossDisturbs DEF Loses
      <4> QED  BY <1>2, <2>1, <4>1, <4>5, <4>6 DEF Disturbs
    <3> QED  BY <2>3, <3>3, <3>4
  <2> QED  BY <1>5, <2>2, <2>3 DEF ReceiverSends
<1> QED  BY <1>3, <1>4, <1>5 DEF Receiver

\* The saver takes an image from its queue, which only moves it on, and saves
\* the first of all, or loses it to the disk.
LEMMA SaverStep ==
  ASSUME PipelineTypes, Saver
  PROVE  \/ Kept(Converting, Converting')
         \/ /\ SaverSaves
            /\ Dropped(Converting, Converting') \/ Emitted(Converting, Converting')
<1> DEFINE h == Held(saver)
           r == Held(receiver)
           x == decodedQueue
<1>1. /\ h \in Seq(Frame) /\ x \in Seq(Frame) /\ r \in Seq(Frame)
      /\ stdout \in Seq(Frame) /\ stdin \in Seq(Frame)
      /\ h \o x \in Seq(Frame) /\ h \o x \o r \in Seq(Frame)
      /\ h \o x \o r \o stdout \in Seq(Frame)
  BY Parts
<1>2. Converting = h \o x \o r \o stdout \o stdin /\ Converting' = h' \o x' \o r' \o stdout' \o stdin'
  BY DEF Converting
<1>3. r' = r /\ stdout' = stdout /\ stdin' = stdin
  BY DEF Saver, SaverTakes, SaverEnds, SaverSaves, process, Held
<1>4. CASE SaverTakes
  <2>1. UNCHANGED <<saved, lost>> /\ x # << >> /\ x' = Tail(x)
    BY <1>4 DEF SaverTakes, history
  <2>2. h = << >>
    BY <1>4 DEF SaverTakes, At, PipelineTypes, Held
  <2>3. Head(x) \in Frame  BY <1>1, <2>1, HeadTailProperties
  <2>4. h' = <<Head(x)>>  BY <1>4, <2>3 DEF SaverTakes, Held, None, Frame
  <2>5. h' = Append(<< >>, Head(x))  BY <2>4
  <2> HIDE DEF h, x, r
  <2>6. (<< >> \o << >>) \o x = (<< >> \o Append(<< >>, Head(x))) \o Tail(x)
    BY <1>1, <2>1, EmptySeq, MovesOn
  <2>7. /\ h' \in Seq(Frame) /\ << >> \o << >> = << >>
        /\ << >> \o Append(<< >>, Head(x)) = Append(<< >>, Head(x))
    BY <2>3, <2>5, EmptySeq, AppendProperties, ConcatEmptySeq
  <2>8. h \o x = h' \o x'  BY <2>1, <2>2, <2>5, <2>6, <2>7
  <2> QED  BY <1>2, <1>3, <2>1, <2>8 DEF Kept
<1>5. CASE SaverEnds
  <2>1. UNCHANGED <<saved, lost>> /\ x' = x  BY <1>5 DEF SaverEnds, queues, history
  <2>2. h = << >> /\ h' = << >>  BY <1>5 DEF SaverEnds, At, PipelineTypes, Held
  <2> QED  BY <1>2, <1>3, <2>1, <2>2 DEF Kept
<1>6. CASE SaverSaves
  <2> SUFFICES Dropped(Converting, Converting') \/ Emitted(Converting, Converting')
    BY <1>6
  <2>1. saver.frame \in Frame /\ h = <<saver.frame>>
    BY <1>6 DEF SaverSaves, At, PipelineTypes, TypeOK, Held, None
  <2>2. h' = << >>  BY <1>6 DEF SaverSaves, Held
  <2>3. x' = x  BY <1>6 DEF SaverSaves
  <2>4. /\ h # << >> /\ Head(h) = saver.frame /\ Tail(h) = << >> /\ h[1] = saver.frame
        /\ Len(h) = 1
    BY <2>1
  <2>5. << >> \o h = h /\ << >> \o << >> = << >> /\ << >> \in Seq(Frame)
    BY <1>1, EmptySeq, ConcatEmptySeq
  <2>6. h' \in Seq(Frame) /\ h' \o x \in Seq(Frame) /\ h' \o x \o r \in Seq(Frame)
        /\ h' \o x \o r \o stdout \in Seq(Frame)
    BY <1>1, <2>2, <2>5, ConcatProperties
  <2> HIDE DEF h, x, r
  <2>7. Dropped(h, h') => Dropped(Converting, Converting')
    BY <1>1, <1>2, <1>3, <2>3, <2>6, StepBehind
  <2>8. Emitted(h, h') => Emitted(Converting, Converting')
    BY <1>1, <1>2, <1>3, <2>3, <2>6, StepBehind
  <2>9. CASE Loses(saver.frame, "disk") /\ saved' = saved
    <3>1. Dropped(<< >> \o h, << >> \o Tail(h))
      BY <1>1, <2>4, <2>5, <2>9, DropFirst DEF Place
    <3> QED  BY <2>2, <2>4, <2>5, <2>7, <3>1
  <2>10. CASE /\ saved' = Append(saved, [image |-> saver.frame, named |-> NextMetadata])
              /\ lost' = lost
    <3>1. Cut(h, h', 0, 1)  BY <2>2, <2>4 DEF Cut
    <3> QED  BY <2>4, <2>8, <2>10, <3>1 DEF Emitted
  <2> QED  BY <1>6, <2>9, <2>10 DEF SaverSaves
<1> QED  BY <1>4, <1>5, <1>6 DEF Saver

\* The feeder takes a frame, drops it or hands it to ffmpeg's input.
LEMMA FeederStep ==
  ASSUME PipelineTypes, Feeder
  PROVE  Kept(Pipeline, Pipeline') \/ Dropped(Pipeline, Pipeline')
<1> DEFINE c == Converting
           h == Held(feeder)
           x == frameQueue
           part == Held(saver) \o decodedQueue \o Held(receiver) \o stdout
<1>1. /\ c \in Seq(Frame) /\ h \in Seq(Frame) /\ x \in Seq(Frame) /\ c \o h \in Seq(Frame)
      /\ part \in Seq(Frame) /\ stdin \in Seq(Frame)
      /\ Pipeline = c \o h \o x
  BY Parts
<1>2. Pipeline' = c' \o h' \o x'  BY DEF Pipeline, Converting
<1>3. c = part \o stdin /\ c' = part \o stdin'
  <2>1. UNCHANGED <<saver, decodedQueue, receiver, stdout>>
    BY DEF Feeder, FeederTakes, FeederEnds, FeederChecks, FeederSendsMetadata,
           FeederWrites, queues, process
  <2> QED  BY <2>1 DEF Converting, Held
<1>4. /\ feeder.frame # None => feeder.frame \in Frame /\ h = <<feeder.frame>>
      /\ feeder.frame = None => h = << >>
  BY DEF PipelineTypes, TypeOK, Held
\* A frame in the feeder's hand may be dropped.
<1>5. ASSUME feeder.frame # None, UNCHANGED <<stdin, frameQueue, saved>>, FeederGoes("idle", None)
             \/ FeederGoes("done", None),
             NEW where \in Place, Loses(feeder.frame, where)
      PROVE  Dropped(Pipeline, Pipeline')
  <2>1. h' = << >>  BY <1>5 DEF FeederGoes, Held
  <2> HIDE DEF c, h, x
  <2>0. h = <<feeder.frame>>  BY <1>4, <1>5
  <2>2. h # << >> /\ Head(h) = feeder.frame /\ Tail(h) = << >>  BY <2>0
  <2> USE DEF c, x
  <2>3. c' = c /\ x' = x  BY <1>3, <1>5
  <2>4. h' \in Seq(Frame) /\ c \o h' \in Seq(Frame)
    BY <1>1, <2>1, EmptySeq, ConcatProperties
  <2> HIDE DEF c, h, x
  <2>5. Dropped(c \o h, c \o h')  BY <1>1, <1>5, <2>1, <2>2, DropFirst
  <2>6. Dropped(c \o h \o x, c \o h' \o x)  BY <1>1, <2>4, <2>5, StepBehind
  <2> QED  BY <1>1, <1>2, <2>3, <2>6
<1>6. CASE FeederTakes
  <2>1. /\ UNCHANGED <<stdin, saved, lost>> /\ x # << >> /\ x' = Tail(x)
        /\ FeederGoes("took", Head(x))
    BY <1>6 DEF FeederTakes, process, history
  <2>2. h = << >>  BY <1>6 DEF FeederTakes, At, PipelineTypes, Held
  <2>3. Head(x) \in Frame  BY <1>1, <2>1, HeadTailProperties
  <2>4. h' = Append(<< >>, Head(x))  BY <2>1, <2>3 DEF FeederGoes, Held, None, Frame
  <2>5. c' = c  BY <1>3, <2>1
  <2> HIDE DEF c, h, x
  <2>6. c \o << >> \o x = c \o Append(<< >>, Head(x)) \o Tail(x)
    <3>1. << >> \in Seq(Frame)  BY EmptySeq
    <3>2. c \in Seq(Frame) /\ x \in Seq(Frame) /\ x # << >>  BY <1>1, <2>1
    <3> QED  BY <3>1, <3>2, MovesOn
  <2>7. c \o h \o x = c \o h' \o x'  BY <2>1, <2>2, <2>4, <2>6
  <2> QED  BY <1>1, <1>2, <2>1, <2>5, <2>7 DEF Kept
<1>7. CASE FeederEnds
  <2>1. UNCHANGED <<stdin, frameQueue, saved, lost>>
    BY <1>7 DEF FeederEnds, queues, process, history
  <2>2. h = << >> /\ h' = << >>
    BY <1>7 DEF FeederEnds, FeederGoes, At, PipelineTypes, Held
  <2> QED  BY <1>1, <1>2, <1>3, <2>1, <2>2 DEF Kept
<1>8. CASE FeederChecks
  <2>1. feeder.frame # None /\ UNCHANGED <<stdin, frameQueue, saved>>
    BY <1>8 DEF FeederChecks, At, PipelineTypes, queues, process
  <2>2. CASE FeederGoes("metadata", feeder.frame) /\ lost' = lost
    <3>1. h' = h  BY <2>2 DEF FeederGoes, Held
    <3> QED  BY <1>1, <1>2, <1>3, <2>1, <2>2, <3>1 DEF Kept
  <2>3. CASE Loses(feeder.frame, "shutdown") /\ FeederGoes("done", None)
    BY <1>5, <2>1, <2>3 DEF Place
  <2>4. CASE Loses(feeder.frame, "corrupted") /\ FeederGoes("idle", None)
    BY <1>5, <2>1, <2>4 DEF Place
  <2> QED  BY <1>8, <2>2, <2>3, <2>4 DEF FeederChecks
<1>9. CASE FeederSendsMetadata
  <2>1. UNCHANGED <<stdin, frameQueue, saved, lost>> /\ h' = h
    BY <1>9 DEF FeederSendsMetadata, FeederGoes, process, Held
  <2> QED  BY <1>1, <1>2, <1>3, <2>1 DEF Kept
<1>10. CASE FeederWrites
  <2>1. /\ feeder.frame # None /\ UNCHANGED <<frameQueue, saved>>
        /\ FeederGoes("idle", None)
    BY <1>10 DEF FeederWrites, At, PipelineTypes, queues
  <2>2. CASE Loses(feeder.frame, "write") /\ stdin' = stdin
    BY <1>5, <2>1, <2>2 DEF Place
  <2>3. CASE stdin' = Append(stdin, feeder.frame) /\ lost' = lost
    <3>1. h' = << >>  BY <2>1 DEF FeederGoes, Held
    <3> HIDE DEF c, h, x, part
    <3>0. h = <<feeder.frame>>  BY <1>4, <2>1
    <3>2. h # << >> /\ Head(h) = feeder.frame /\ Tail(h) = << >>  BY <3>0
    <3>3. (part \o stdin) \o h = (part \o Append(stdin, Head(h))) \o Tail(h)
      BY <1>1, <3>2, MovesOn
    <3>4. c \o h = c' \o h'  BY <1>3, <2>3, <3>1, <3>2, <3>3
    <3> QED  BY <1>1, <1>2, <2>1, <2>3, <3>4 DEF Kept, x
  <2> QED  BY <1>10, <2>2, <2>3 DEF FeederWrites
<1> QED  BY <1>6, <1>7, <1>8, <1>9, <1>10 DEF Feeder

\* A new frame is the last of the pipeline, or is refused.
Entered == Pipeline' = Append(Pipeline, Len(kinds) + 1) /\ UNCHANGED <<saved, lost>>
Refused == /\ Pipeline' = Pipeline /\ UNCHANGED saved
           /\ \E where \in Place : Loses(Len(kinds) + 1, where)

LEMMA FeedStep ==
  ASSUME PipelineTypes, NEW kind \in Kind, FeedFrame(kind)
  PROVE  Entered \/ Refused
<1> DEFINE y == Converting \o Held(feeder)
           f == Len(kinds) + 1
<1>1. y \in Seq(Frame) /\ frameQueue \in Seq(Frame) /\ Pipeline = y \o frameQueue
  BY Parts
<1>2. y' = y
  BY DEF FeedFrame, process, Converting, Held
<1>3. Pipeline' = y \o frameQueue'  BY <1>2 DEF Pipeline, Converting
<1>4. f \in Frame
  BY LenProperties, PipelineAssumption DEF FeedFrame, PipelineTypes, TypeOK, Frame
<1>5. saved' = saved  BY DEF FeedFrame
<1> HIDE DEF y, f
<1>6. CASE frameQueue' = Append(frameQueue, f) /\ lost' = lost
  <2>1. Append(frameQueue, f) = frameQueue \o <<f>> /\ <<f>> \in Seq(Frame)
    BY <1>1, <1>4, AppendIsConcat
  <2>2. y \o (frameQueue \o <<f>>) = (y \o frameQueue) \o <<f>>
    BY <1>1, <2>1, ConcatAssociative
  <2>3. Pipeline \in Seq(Frame)  BY Parts
  <2>4. Append(Pipeline, f) = Pipeline \o <<f>>  BY <1>4, <2>3, AppendIsConcat
  <2> QED  BY <1>1, <1>3, <1>5, <1>6, <2>1, <2>2, <2>4 DEF Entered, f
<1>7. CASE frameQueue' = frameQueue /\ Loses(f, "frameQueue")
  BY <1>1, <1>3, <1>5, <1>7 DEF Refused, Place, f
<1> QED  BY <1>6, <1>7 DEF FeedFrame, f

\* Everything that can happen to the pipeline.
PartsOK == Converting \in Seq(Frame) /\ Pipeline \in Seq(Frame)

LEMMA PartsAfter == PipelineTypes' => PartsOK'
<1>1. PipelineTypes => PartsOK  BY Parts DEF PartsOK
<1> QED  BY <1>1, PTL

LEMMA PipelineStep ==
  ASSUME PipelineTypes, PipelineTypes', [Next]_vars
  PROVE  \/ /\ kinds' = kinds
            /\ \/ Kept(Pipeline, Pipeline') \/ Dropped(Pipeline, Pipeline')
               \/ Emitted(Pipeline, Pipeline')
         \/ /\ \E kind \in Kind : kinds' = Append(kinds, kind)
            /\ Entered \/ Refused
<1> DEFINE c == Converting
           h == Held(feeder)
           x == frameQueue
<1>1. /\ c \in Seq(Frame) /\ h \in Seq(Frame) /\ x \in Seq(Frame) /\ c \o h \in Seq(Frame)
      /\ Pipeline = c \o h \o x /\ c' \in Seq(Frame)
  BY Parts, PartsAfter DEF PartsOK
<1>2. Pipeline' = c' \o h' \o x'  BY DEF Pipeline, Converting
\* Receiver, saver and ffmpeg have nothing to do with what has not been written.
<1>3. ASSUME UNCHANGED <<feeder, frameQueue>>,
             Kept(c, c') \/ Dropped(c, c') \/ Emitted(c, c')
      PROVE  Kept(Pipeline, Pipeline') \/ Dropped(Pipeline, Pipeline')
               \/ Emitted(Pipeline, Pipeline')
  <2>1. h' = h /\ x' = x  BY <1>3 DEF Held
  <2>2. c' \o h \in Seq(Frame)  BY <1>1, ConcatProperties
  <2> HIDE DEF c, h, x
  <2>3. CASE Kept(c, c')  BY <1>1, <1>2, <2>1, <2>3 DEF Kept
  <2>4. CASE Dropped(c, c')
    <3>1. Dropped(c \o h, c' \o h)  BY <1>1, <2>4, StepBehind
    <3>2. Dropped(c \o h \o x, c' \o h \o x)  BY <1>1, <2>2, <3>1, StepBehind
    <3> QED  BY <1>1, <1>2, <2>1, <3>2
  <2>5. CASE Emitted(c, c')
    <3>1. Emitted(c \o h, c' \o h)  BY <1>1, <2>5, StepBehind
    <3>2. Emitted(c \o h \o x, c' \o h \o x)  BY <1>1, <2>2, <3>1, StepBehind
    <3> QED  BY <1>1, <1>2, <2>1, <3>2
  <2> QED  BY <1>3, <2>3, <2>4, <2>5
<1>4. CASE Feeder
  <2>1. kinds' = kinds
    BY <1>4 DEF Feeder, FeederTakes, FeederEnds, FeederChecks, FeederSendsMetadata,
                FeederWrites, history
  <2> QED  BY <1>4, <2>1, FeederStep
<1>5. CASE Receiver
  <2>1. UNCHANGED <<kinds, feeder, frameQueue>>
    BY <1>5 DEF Receiver, ReceiverChecks, ReceiverReads, ReceiverSends, queues, history
  <2> QED  BY <1>3, <1>5, <2>1, ReceiverStep
<1>6. CASE Saver
  <2>1. UNCHANGED <<kinds, feeder, frameQueue>>
    BY <1>6 DEF Saver, SaverTakes, SaverEnds, SaverSaves, queues, history
  <2> QED  BY <1>3, <1>6, <2>1, SaverStep
<1>7. CASE Ffmpeg \/ FfmpegDies
  <2>1. UNCHANGED <<kinds, feeder, frameQueue>>
    BY <1>7 DEF Ffmpeg, FfmpegDecodes, FfmpegComplains, FfmpegEnds, FfmpegDies, queues,
                history
  <2> QED  BY <1>3, <1>7, <2>1, FfmpegStep
<1>8. ASSUME NEW kind \in Kind, FeedFrame(kind)
      PROVE  kinds' = Append(kinds, kind) /\ (Entered \/ Refused)
  BY <1>8, FeedStep DEF FeedFrame
<1>9. CASE UNCHANGED <<queues, feeder, receiver, saver, stdin, stdout, history>>
  BY <1>9 DEF Kept, Pipeline, Held, queues, history
<1>10. CASE Start
  <2>1. UNCHANGED <<queues, stdin, stdout, history>>
    BY <1>10 DEF Start
  <2>2. /\ Held(feeder) = << >> /\ Held(receiver) = << >> /\ Held(saver) = << >>
        /\ Held(feeder)' = << >> /\ Held(receiver)' = << >> /\ Held(saver)' = << >>
    BY <1>10 DEF Start, CallerIs, PipelineTypes, Held
  <2> QED  BY <2>1, <2>2 DEF Kept, Pipeline, queues, history
<1>11. CASE StartFails \/ StopBegins \/ Stop
  BY <1>9, <1>11 DEF StartFails, StopBegins, Stop, StopCloses, StopHangsUp, StopReturns, process
<1>12. CASE UNCHANGED vars  BY <1>9, <1>12 DEF vars, process
<1> QED
  BY <1>4, <1>5, <1>6, <1>7, <1>8, <1>9, <1>10, <1>11, <1>12, Zenon DEF Next, Caller, Kept, history
-----------------------------------------------------------------------------
(* Order.                                                                  *)

LastSaved == IF saved = << >> THEN 0 ELSE saved[Len(saved)].image

Rising(s) == \A i, j \in 1 .. Len(s) : i < j => s[i] < s[j]

\* The pipeline is in feeding order, and all of it behind what was saved.
OrderInv ==
  /\ Rising(Pipeline)
  /\ \A i \in 1 .. Len(Pipeline) : LastSaved < Pipeline[i] /\ Pipeline[i] <= Len(kinds)
  /\ LastSaved <= Len(kinds)

\* Where the i-th frame was before a cut.
Before(i, a, n) == IF i <= a THEN i ELSE i + n

LEMMA CutBefore ==
  ASSUME NEW p \in Seq(Frame), NEW q \in Seq(Frame), NEW a \in Nat, NEW n \in Nat,
         Cut(p, q, a, n), NEW i \in 1 .. Len(q)
  PROVE  Before(i, a, n) \in 1 .. Len(p) /\ q[i] = p[Before(i, a, n)]
<1>1. Len(p) \in Nat /\ Len(q) \in Nat  BY LenProperties
<1>2. CASE i <= a  BY <1>1, <1>2 DEF Cut, Before
<1>3. CASE i > a  BY <1>1, <1>3 DEF Cut, Before
<1> QED  BY <1>2, <1>3

LEMMA CutRises ==
  ASSUME NEW p \in Seq(Frame), NEW q \in Seq(Frame), NEW a \in Nat, NEW n \in Nat,
         Cut(p, q, a, n), Rising(p)
  PROVE  Rising(q)
<1> SUFFICES ASSUME NEW i \in 1 .. Len(q), NEW j \in 1 .. Len(q), i < j
             PROVE  q[i] < q[j]
  BY DEF Rising
<1>1. Before(i, a, n) < Before(j, a, n)  BY DEF Before
<1>2. /\ Before(i, a, n) \in 1 .. Len(p) /\ q[i] = p[Before(i, a, n)]
      /\ Before(j, a, n) \in 1 .. Len(p) /\ q[j] = p[Before(j, a, n)]
  BY CutBefore
<1> QED  BY <1>1, <1>2 DEF Rising

LEMMA LastSavedType ==
  PipelineTypes => LastSaved \in Nat /\ (saved # << >> => LastSaved \in Frame)
<1> SUFFICES ASSUME PipelineTypes PROVE LastSaved \in Nat /\ (saved # << >> => LastSaved \in Frame)
  OBVIOUS
<1>1. ASSUME saved # << >> PROVE LastSaved \in Frame
  <2>1. saved \in Seq([image : Frame, named : Frame \cup {Fallback, ZeroValue}])
    BY DEF PipelineTypes, TypeOK
  <2>2. Len(saved) \in 1 .. Len(saved)  BY <1>1, <2>1, EmptySeq, LenProperties
  <2>3. saved[Len(saved)] \in [image : Frame, named : Frame \cup {Fallback, ZeroValue}]
    BY <2>1, <2>2, ElementOfSeq
  <2> QED  BY <1>1, <2>3 DEF LastSaved
<1> QED  BY <1>1, PipelineAssumption DEF LastSaved, Frame

LEMMA EmittedIsLast ==
  ASSUME PipelineTypes, NEW p \in Seq(Frame), NEW q, Emitted(p, q)
  PROVE  /\ LastSaved' = p[1] /\ p[1] \in Frame /\ 1 \in 1 .. Len(p)
         /\ Len(saved') = Len(saved) + 1
         /\ \A i \in 1 .. Len(saved) : saved'[i] = saved[i]
         /\ saved'[Len(saved) + 1] = [image |-> p[1], named |-> NextMetadata]
<1> DEFINE image == [image |-> p[1], named |-> NextMetadata]
<1>1. saved \in Seq(SavedImage) /\ saved' = Append(saved, image)
  BY DEF Emitted, PipelineTypes, TypeOK, SavedImage
<1>2. 1 \in 1 .. Len(p) /\ p[1] \in Frame
  BY LenProperties DEF Emitted, Cut
<1>3. image \in SavedImage  BY <1>2, NextMetadataType DEF SavedImage
<1> HIDE DEF image
<1>4. /\ saved' # << >> /\ Len(saved') = Len(saved) + 1 /\ saved'[Len(saved) + 1] = image
      /\ \A i \in 1 .. Len(saved) : saved'[i] = saved[i]
  BY <1>1, <1>3, AppendProperties
<1>5. LastSaved' = image.image  BY <1>4 DEF LastSaved
<1> QED  BY <1>2, <1>4, <1>5 DEF image

\* What the steps do to the order.
LEMMA OrderKept ==
  ASSUME PipelineTypes, PipelineTypes', OrderInv, [Next]_vars
  PROVE  OrderInv'
<1> DEFINE p == Pipeline
<1>1. /\ p \in Seq(Frame) /\ p' \in Seq(Frame) /\ Len(p) \in Nat /\ Len(p') \in Nat
      /\ kinds \in Seq(Kind) /\ Len(kinds) \in Nat
      /\ \A i \in 1 .. Len(p) : p[i] \in Frame
      /\ LastSaved \in Nat
  <2>1. p \in Seq(Frame) /\ p' \in Seq(Frame)  BY Parts, PartsAfter DEF PartsOK
  <2>2. kinds \in Seq(Kind)  BY DEF PipelineTypes, TypeOK
  <2> HIDE DEF p
  <2> QED  BY <2>1, <2>2, LenProperties, LastSavedType
<1>2. /\ Rising(p) /\ LastSaved <= Len(kinds)
      /\ \A i \in 1 .. Len(p) : LastSaved < p[i] /\ p[i] <= Len(kinds)
  BY DEF OrderInv
<1>3. saved' = saved => LastSaved' = LastSaved  BY DEF LastSaved
<1> HIDE DEF p
<1>4. ASSUME NEW a \in Nat, NEW n \in Nat, Cut(p, p', a, n), kinds' = kinds, saved' = saved
      PROVE  OrderInv'
  <2>1. Rising(p')  BY <1>1, <1>2, <1>4, CutRises
  <2>2. ASSUME NEW i \in 1 .. Len(p') PROVE LastSaved < p'[i] /\ p'[i] <= Len(kinds)
    <3>1. Before(i, a, n) \in 1 .. Len(p) /\ p'[i] = p[Before(i, a, n)]
      BY <1>1, <1>4, CutBefore
    <3> QED  BY <1>2, <3>1
  <2> QED  BY <1>2, <1>3, <1>4, <2>1, <2>2 DEF OrderInv, p
<1>5. CASE Kept(p, p') /\ kinds' = kinds
  BY <1>2, <1>3, <1>5 DEF Kept, OrderInv, p
<1>6. CASE Dropped(p, p') /\ kinds' = kinds
  <2>1. PICK a \in Nat, s \in Seq(Frame) : Cut(p, p', a, Len(s)) /\ saved' = saved
    BY <1>6 DEF Dropped
  <2> QED  BY <1>4, <1>6, <2>1, LenProperties
<1>7. CASE Emitted(p, p') /\ kinds' = kinds
  <2>1. /\ Cut(p, p', 0, 1) /\ 1 \in 1 .. Len(p) /\ Len(p') = Len(p) - 1
        /\ \A i \in 1 .. Len(p') : p'[i] = p[i + 1]
    BY <1>1, <1>7 DEF Emitted, Cut
  <2>2. LastSaved' = p[1]  BY <1>1, <1>7, EmittedIsLast
  <2>3. Rising(p')  BY <1>1, <1>2, <2>1, CutRises
  <2>4. ASSUME NEW i \in 1 .. Len(p') PROVE p[1] < p'[i] /\ p'[i] <= Len(kinds)
    <3>1. i + 1 \in 1 .. Len(p) /\ 1 < i + 1  BY <1>1, <2>1
    <3> QED  BY <1>2, <2>1, <3>1 DEF Rising
  <2> QED  BY <1>2, <1>7, <2>1, <2>2, <2>3, <2>4 DEF OrderInv, p
<1>8. CASE Entered /\ \E kind \in Kind : kinds' = Append(kinds, kind)
  <2> DEFINE f == Len(kinds) + 1
  <2>1. Len(kinds') = f  BY <1>1, <1>8, AppendProperties
  <2>2. f \in Frame  BY <1>1, <2>1, PipelineAssumption DEF PipelineTypes, TypeOK, Frame
  <2>3. p' = Append(p, f) /\ saved' = saved  BY <1>8 DEF Entered, p
  <2>4. /\ Len(p') = Len(p) + 1 /\ p'[Len(p) + 1] = f
        /\ \A i \in 1 .. Len(p) : p'[i] = p[i]
    BY <1>1, <2>2, <2>3, AppendProperties
  <2>5. LastSaved < f /\ f \in Nat /\ f > Len(kinds)  BY <1>1, <1>2
  <2> HIDE DEF f
  <2>6. ASSUME NEW i \in 1 .. Len(p'), NEW k \in 1 .. Len(p'), i < k PROVE p'[i] < p'[k]
    <3>1. i \in 1 .. Len(p) /\ p'[i] = p[i] /\ p[i] < f
      BY <1>1, <1>2, <2>4, <2>5, <2>6 DEF Frame
    <3>2. CASE k \in 1 .. Len(p)  BY <1>2, <2>4, <2>6, <3>1, <3>2 DEF Rising
    <3>3. CASE k = Len(p) + 1  BY <2>4, <3>1, <3>3
    <3> QED  BY <1>1, <2>4, <3>2, <3>3
  <2>7. ASSUME NEW i \in 1 .. Len(p') PROVE LastSaved < p'[i] /\ p'[i] <= f
    <3>1. CASE i \in 1 .. Len(p)  BY <1>1, <1>2, <2>4, <2>5, <3>1 DEF Frame
    <3>2. CASE i = Len(p) + 1  BY <2>4, <2>5, <3>2
    <3> QED  BY <1>1, <2>4, <3>1, <3>2
  <2> QED  BY <1>1, <1>3, <2>1, <2>3, <2>5, <2>6, <2>7 DEF OrderInv, Rising, p
<1>9. CASE Refused /\ \E kind \in Kind : kinds' = Append(kinds, kind)
  <2>1. Len(kinds') = Len(kinds) + 1  BY <1>1, <1>9, AppendProperties
  <2>2. p' = p /\ saved' = saved  BY <1>9 DEF Refused, p
  <2>3. \A i \in 1 .. Len(p) : p[i] <= Len(kinds')  BY <1>1, <1>2, <2>1 DEF Frame
  <2> QED  BY <1>1, <1>2, <1>3, <2>1, <2>2, <2>3 DEF OrderInv, p
<1> QED  BY <1>5, <1>6, <1>7, <1>8, <1>9, PipelineStep DEF p

LEMMA InitPipeline == Init => Pipeline = << >> /\ Converting = << >>
<1> SUFFICES ASSUME Init PROVE Pipeline = << >> /\ Converting = << >>
  OBVIOUS
<1>1. \A S : << >> \in Seq(S) /\ << >> \o << >> = << >>
  BY EmptySeq, ConcatEmptySeq
<1>2. Held(feeder) = << >> /\ Held(receiver) = << >> /\ Held(saver) = << >>
  BY DEF Init, Held
<1> QED  BY <1>1, <1>2 DEF Init, Pipeline, Converting

LEMMA InitOrder == Init => OrderInv
<1> SUFFICES ASSUME Init PROVE OrderInv
  OBVIOUS
<1>1. \A S : << >> \in Seq(S) /\ Len(<< >>) = 0
  BY EmptySeq
<1>2. Pipeline = << >>  BY InitPipeline
<1>3. LastSaved = 0 /\ Len(kinds) = 0  BY <1>1 DEF Init, LastSaved
<1> QED  BY <1>1, <1>2, <1>3 DEF OrderInv, Rising

LEMMA OrderAlways == Spec => [](PipelineTypes /\ OrderInv)
<1>1. Init => PipelineTypes /\ OrderInv  BY InitTypes, InitOrder
<1>2. PipelineTypes /\ OrderInv /\ [Next]_vars => (PipelineTypes /\ OrderInv)'
  BY TypesKept, OrderKept
<1> QED  BY <1>1, <1>2, PTL DEF Spec
-----------------------------------------------------------------------------
(* The refinement.                                                         *)

Images == [i \in DOMAIN saved |-> saved[i].image]

LEMMA ImagesType ==
  PipelineTypes => /\ Images \in Seq(Frame) /\ Len(Images) = Len(saved)
                   /\ DOMAIN Images = 1 .. Len(saved) /\ Len(saved) \in Nat
                   /\ Delivery!Latest = LastSaved
<1> SUFFICES ASSUME PipelineTypes
             PROVE  /\ Images \in Seq(Frame) /\ Len(Images) = Len(saved)
                    /\ DOMAIN Images = 1 .. Len(saved) /\ Len(saved) \in Nat
                    /\ Delivery!Latest = LastSaved
  OBVIOUS
<1>1. saved \in Seq(SavedImage)  BY DEF PipelineTypes, TypeOK, SavedImage
<1>2. DOMAIN saved = 1 .. Len(saved) /\ Len(saved) \in Nat
      /\ \A i \in 1 .. Len(saved) : saved[i] \in SavedImage
  BY <1>1, LenProperties
<1>3. Images \in [1 .. Len(saved) -> Frame]  BY <1>2 DEF Images, SavedImage
<1>4. Images \in Seq(Frame) /\ Len(Images) = Len(saved)  BY <1>2, <1>3
<1>5. saved = << >> <=> Len(saved) = 0  BY <1>1, EmptySeq
<1>6. Images = << >> <=> Len(Images) = 0  BY <1>4, EmptySeq
<1>7. Delivery!Latest = LastSaved
  BY <1>2, <1>3, <1>4, <1>5, <1>6 DEF Delivery!Latest, LastSaved, Images
<1> QED  BY <1>2, <1>3, <1>4, <1>7

\* A frame fed or refused is a Feed, an image saved is an Emit of a frame behind
\* the latest, and everything else is a stutter.
LEMMA StepIsDelivery ==
  ASSUME PipelineTypes, PipelineTypes', OrderInv, [Next]_vars
  PROVE  [Delivery!Next]_<<Len(kinds), Images>>
<1>1. /\ Len(saved) \in Nat /\ DOMAIN saved = 1 .. Len(saved)
      /\ Images \in Seq(Frame) /\ Len(Images) = Len(saved)
      /\ DOMAIN Images = 1 .. Len(saved)
      /\ Delivery!Latest = LastSaved
      /\ LastSaved \in Nat
      /\ kinds \in Seq(Kind) /\ Len(kinds) \in Nat
      /\ Pipeline \in Seq(Frame)
  <2>1. saved \in Seq(SavedImage) /\ kinds \in Seq(Kind)
    BY DEF PipelineTypes, TypeOK, SavedImage
  <2>2. DOMAIN saved = 1 .. Len(saved) /\ Len(kinds) \in Nat  BY <2>1, LenProperties
  <2>3. Pipeline \in Seq(Frame)  BY Parts
  <2> QED  BY <2>1, <2>2, <2>3, ImagesType, LastSavedType
<1>2. saved' = saved => Images' = Images  BY DEF Images
<1>3. CASE kinds' = kinds /\ saved' = saved
  BY <1>2, <1>3
<1>4. CASE kinds' = kinds /\ Emitted(Pipeline, Pipeline')
  <2> DEFINE f == Pipeline[1]
  <2>1. /\ f \in Frame /\ 1 \in 1 .. Len(Pipeline)
        /\ Len(saved') = Len(saved) + 1
        /\ \A i \in 1 .. Len(saved) : saved'[i] = saved[i]
        /\ saved'[Len(saved) + 1].image = f
    <3> HIDE DEF f
    <3>1. /\ f \in Frame /\ 1 \in 1 .. Len(Pipeline)
          /\ Len(saved') = Len(saved) + 1
          /\ \A i \in 1 .. Len(saved) : saved'[i] = saved[i]
          /\ saved'[Len(saved) + 1] = [image |-> f, named |-> NextMetadata]
      BY <1>1, <1>4, EmittedIsLast DEF f
    <3> QED  BY <3>1
  <2>2. f \in (LastSaved + 1) .. Len(kinds)
    <3>1. LastSaved < f /\ f <= Len(kinds)  BY <2>1 DEF OrderInv
    <3> QED  BY <1>1, <2>1, <3>1 DEF Frame
  <2> HIDE DEF f
  <2>3. /\ Append(Images, f) \in Seq(Frame) /\ Len(Append(Images, f)) = Len(saved) + 1
        /\ \A i \in 1 .. Len(saved) : Append(Images, f)[i] = Images[i]
        /\ Append(Images, f)[Len(saved) + 1] = f
    BY <1>1, <2>1, AppendProperties
  <2>4. Images' = Append(Images, f)
    <3>1. saved' \in Seq(SavedImage)  BY DEF PipelineTypes, TypeOK, SavedImage
    <3>2. DOMAIN saved' = 1 .. Len(saved) + 1 /\ Len(saved') \in Nat
          /\ \A i \in 1 .. Len(saved') : saved'[i] \in SavedImage
      BY <2>1, <3>1, LenProperties
    <3>3. Images' = [i \in 1 .. Len(saved) + 1 |-> saved'[i].image]
      BY <3>2 DEF Images
    <3>4. \A i \in 1 .. Len(saved) : Images[i] = saved[i].image  BY <1>1 DEF Images
    <3>5. Images' \in [1 .. Len(saved) + 1 -> Frame]
      BY <2>1, <3>2, <3>3 DEF SavedImage
    <3>6. Images' \in Seq(Frame) /\ Len(Images') = Len(saved) + 1
      BY <1>1, <3>5
    <3>7. ASSUME NEW i \in 1 .. Len(saved) + 1 PROVE Images'[i] = Append(Images, f)[i]
      <4>1. CASE i \in 1 .. Len(saved)  BY <2>1, <2>3, <3>3, <3>4, <4>1
      <4>2. CASE i = Len(saved) + 1  BY <2>1, <2>3, <3>3, <4>2
      <4> QED  BY <1>1, <4>1, <4>2
    <3> QED  BY <2>3, <3>6, <3>7, SeqEqual
  <2>5. Delivery!Emit
    BY <1>1, <1>4, <2>2, <2>4 DEF Delivery!Emit, Images
  <2> QED  BY <2>5 DEF Delivery!Next
<1>5. CASE saved' = saved /\ \E kind \in Kind : kinds' = Append(kinds, kind)
  <2>1. Len(kinds') = Len(kinds) + 1  BY <1>1, <1>5, AppendProperties
  <2>2. Delivery!Feed  BY <1>2, <1>5, <2>1 DEF Delivery!Feed, Images
  <2> QED  BY <2>2 DEF Delivery!Next
<1> QED  BY <1>3, <1>4, <1>5, PipelineStep DEF Kept, Dropped, Entered, Refused

\* The pipeline implements OrderedDelivery: images come out in feeding order,
\* each frame at most once and after it was fed, for any sizes of queues and
\* pipes, with ffmpeg dying at any time and Stop at any time (storage.go,
\* ContinuousDecoder).
THEOREM ImplementsDelivery == Spec => InOrder
<1>1. Init => Delivery!Init
  <2> SUFFICES ASSUME Init PROVE Delivery!Init
    OBVIOUS
  <2>1. saved = << >> /\ Len(kinds) = 0  BY DEF Init
  <2>2. Images = << >>
    <3>1. PipelineTypes  BY InitTypes
    <3>2. Images \in Seq(Frame) /\ Len(Images) = 0  BY <2>1, <3>1, ImagesType
    <3> QED  BY <3>2, EmptySeq
  <2> QED  BY <2>1, <2>2 DEF Delivery!Init, Images
<1>2. PipelineTypes /\ PipelineTypes' /\ OrderInv /\ [Next]_vars
        => [Delivery!Next]_<<Len(kinds), Images>>
  BY StepIsDelivery
<1>3. PipelineTypes /\ PipelineTypes' /\ OrderInv /\ [Next]_vars
        => [Delivery!Next]_<<Len(kinds), [i \in DOMAIN saved |-> saved[i].image]>>
  BY <1>2 DEF Images
<1> QED  BY <1>1, <1>3, OrderAlways, PTL DEF Spec, InOrder, Delivery!Spec
-----------------------------------------------------------------------------
(* Accounting.                                                             *)

FramesOf(s) == {s[i] : i \in DOMAIN s}
SavedFrames == {saved[i].image : i \in DOMAIN saved}
LostFrames  == {l.frame : l \in lost}

\* EveryFrameAccountedFor, and that what is lost is no longer on its way: a
\* second loss of a frame at the same place would not be counted.
AccountInv ==
  /\ SavedFrames \cup LostFrames \cup FramesOf(Pipeline) = Fed
  /\ Len(saved) + Cardinality(lost) + Len(Pipeline) = Len(kinds)
  /\ LostFrames \cap FramesOf(Pipeline) = {}

\* A cut divides the frames of a rising sequence in two.
LEMMA CutFrames ==
  ASSUME NEW p \in Seq(Frame), NEW q \in Seq(Frame), NEW s \in Seq(Frame), NEW a \in Nat,
         Cut(p, q, a, Len(s)), \A i \in 1 .. Len(s) : s[i] = p[a + i], Rising(p)
  PROVE  /\ FramesOf(p) = FramesOf(q) \cup FramesOf(s)
         /\ FramesOf(q) \cap FramesOf(s) = {}
         /\ \A i, j \in 1 .. Len(s) : i # j => s[i] # s[j]
<1> DEFINE n == Len(s)
<1>1. /\ Len(p) \in Nat /\ Len(q) \in Nat /\ n \in Nat
      /\ DOMAIN p = 1 .. Len(p) /\ DOMAIN q = 1 .. Len(q) /\ DOMAIN s = 1 .. n
      /\ \A i \in 1 .. Len(p) : p[i] \in Frame
  BY LenProperties
<1>2. /\ a + n <= Len(p) /\ Len(q) = Len(p) - n
      /\ \A i \in 1 .. a : q[i] = p[i]
      /\ \A i \in a + 1 .. Len(q) : q[i] = p[i + n]
      /\ \A i \in 1 .. n : s[i] = p[a + i]
  BY DEF Cut
<1>3. ASSUME NEW i \in 1 .. Len(p), NEW j \in 1 .. Len(p), i # j PROVE p[i] # p[j]
  BY <1>1, <1>3 DEF Rising, Frame
<1>4. \A i \in 1 .. Len(q) : Before(i, a, n) \in 1 .. Len(p) /\ q[i] = p[Before(i, a, n)]
  BY <1>1, CutBefore
<1> HIDE DEF n
<1>5. FramesOf(p) \subseteq FramesOf(q) \cup FramesOf(s)
  <2> SUFFICES ASSUME NEW k \in 1 .. Len(p) PROVE p[k] \in FramesOf(q) \cup FramesOf(s)
    BY <1>1 DEF FramesOf
  <2>1. CASE k <= a
    <3>1. k \in DOMAIN q /\ q[k] = p[k]  BY <1>1, <1>2, <2>1
    <3> QED  BY <3>1 DEF FramesOf
  <2>2. CASE a < k /\ k <= a + n
    <3>1. k - a \in DOMAIN s /\ s[k - a] = p[k]
      <4>1. k - a \in 1 .. n /\ a + (k - a) = k  BY <1>1, <2>2
      <4> QED  BY <1>1, <1>2, <4>1
    <3> QED  BY <3>1 DEF FramesOf
  <2>3. CASE a + n < k
    <3>1. k - n \in DOMAIN q /\ q[k - n] = p[k]
      <4>1. k - n \in a + 1 .. Len(q) /\ (k - n) + n = k  BY <1>1, <1>2, <2>3
      <4> QED  BY <1>1, <1>2, <4>1
    <3> QED  BY <3>1 DEF FramesOf
  <2> QED  BY <1>1, <2>1, <2>2, <2>3
<1>6. FramesOf(q) \cup FramesOf(s) \subseteq FramesOf(p)
  <2>1. ASSUME NEW i \in 1 .. Len(q) PROVE q[i] \in FramesOf(p)
    BY <1>1, <1>4 DEF FramesOf
  <2>2. ASSUME NEW i \in 1 .. n PROVE s[i] \in FramesOf(p)
    <3>1. a + i \in DOMAIN p /\ s[i] = p[a + i]  BY <1>1, <1>2
    <3> QED  BY <3>1 DEF FramesOf
  <2> QED  BY <1>1, <2>1, <2>2 DEF FramesOf
<1>7. ASSUME NEW i \in 1 .. Len(q), NEW j \in 1 .. n PROVE q[i] # s[j]
  <2>1. Before(i, a, n) # a + j /\ a + j \in 1 .. Len(p)
    BY <1>1, <1>2 DEF Before
  <2>2. Before(i, a, n) \in 1 .. Len(p) /\ q[i] = p[Before(i, a, n)]  BY <1>4
  <2>3. s[j] = p[a + j]  BY <1>2
  <2>4. p[Before(i, a, n)] # p[a + j]  BY <1>3, <2>1, <2>2
  <2> QED  BY <2>2, <2>3, <2>4
<1>8. ASSUME NEW i \in 1 .. n, NEW j \in 1 .. n, i # j PROVE s[i] # s[j]
  <2>1. a + i # a + j /\ a + i \in 1 .. Len(p) /\ a + j \in 1 .. Len(p)
    BY <1>1, <1>2, <1>8
  <2> QED  BY <1>2, <1>3, <2>1
<1>9. FramesOf(q) \cap FramesOf(s) = {}  BY <1>1, <1>7 DEF FramesOf
<1> QED  BY <1>5, <1>6, <1>8, <1>9 DEF n

\* Losses of frames that were not lost before are counted.
LEMMA LossesCount ==
  ASSUME PipelineTypes, NEW s \in Seq(Frame), NEW where \in Place,
         lost' = lost \cup LossesOf(s, where),
         \A i, j \in 1 .. Len(s) : i # j => s[i] # s[j],
         LostFrames \cap FramesOf(s) = {}
  PROVE  /\ LostFrames' = LostFrames \cup FramesOf(s)
         /\ Cardinality(lost') = Cardinality(lost) + Len(s)
<1>1. /\ IsFiniteSet(LossesOf(s, where)) /\ Cardinality(LossesOf(s, where)) = Len(s)
      /\ IsFiniteSet(lost)
  BY LossesOfQueue DEF PipelineTypes
<1>2. lost \cap LossesOf(s, where) = {}
  BY DEF LostFrames, FramesOf, LossesOf
<1>3. Cardinality(lost \cap LossesOf(s, where)) = 0  BY <1>2, FS_EmptySet
<1>4. Cardinality(lost') = Cardinality(lost) + Len(s) - 0
  BY <1>1, <1>3, FS_Union
<1>5. Cardinality(lost) \in Nat /\ Len(s) \in Nat  BY <1>1, FS_CardinalityType, LenProperties
<1>6. LostFrames' = LostFrames \cup FramesOf(s)
  <2>1. LostFrames' = {l.frame : l \in lost \cup LossesOf(s, where)}  BY DEF LostFrames
  <2>2. {l.frame : l \in LossesOf(s, where)} = FramesOf(s)
    <3>1. ASSUME NEW i \in DOMAIN s PROVE s[i] \in {l.frame : l \in LossesOf(s, where)}
      <4>1. [frame |-> s[i], at |-> where] \in LossesOf(s, where)
            /\ [frame |-> s[i], at |-> where].frame = s[i]
        BY DEF LossesOf
      <4> HIDE DEF LossesOf
      <4> QED  BY <4>1
    <3>2. ASSUME NEW l \in LossesOf(s, where) PROVE l.frame \in FramesOf(s)
      BY <3>2 DEF LossesOf, FramesOf
    <3> QED  BY <3>1, <3>2 DEF FramesOf
  <2> QED  BY <2>1, <2>2 DEF LostFrames
<1> QED  BY <1>4, <1>5, <1>6

LEMMA AccountKept ==
  ASSUME PipelineTypes, PipelineTypes', OrderInv, AccountInv, [Next]_vars
  PROVE  AccountInv'
<1> DEFINE p == Pipeline
<1>1. /\ p \in Seq(Frame) /\ p' \in Seq(Frame) /\ Len(p) \in Nat /\ Len(p') \in Nat
      /\ kinds \in Seq(Kind) /\ Len(kinds) \in Nat
      /\ saved \in Seq(SavedImage) /\ Len(saved) \in Nat /\ DOMAIN saved = 1 .. Len(saved)
      /\ DOMAIN p = 1 .. Len(p) /\ DOMAIN p' = 1 .. Len(p')
      /\ IsFiniteSet(lost) /\ Cardinality(lost) \in Nat
  <2>1. p \in Seq(Frame) /\ p' \in Seq(Frame)  BY Parts, PartsAfter DEF PartsOK
  <2>2. kinds \in Seq(Kind) /\ saved \in Seq(SavedImage) /\ IsFiniteSet(lost)
    BY DEF PipelineTypes, TypeOK, SavedImage
  <2> HIDE DEF p
  <2> QED  BY <2>1, <2>2, LenProperties, FS_CardinalityType
<1>2. /\ Rising(p)
      /\ SavedFrames \cup LostFrames \cup FramesOf(p) = 1 .. Len(kinds)
      /\ Len(saved) + Cardinality(lost) + Len(p) = Len(kinds)
      /\ LostFrames \cap FramesOf(p) = {}
  BY DEF OrderInv, AccountInv, Fed
<1>3. /\ saved' = saved => SavedFrames' = SavedFrames
      /\ lost' = lost => LostFrames' = LostFrames
  BY DEF SavedFrames, LostFrames
<1>4. AccountInv' <=>
        /\ SavedFrames' \cup LostFrames' \cup FramesOf(p') = 1 .. Len(kinds')
        /\ Len(saved') + Cardinality(lost') + Len(p') = Len(kinds')
        /\ LostFrames' \cap FramesOf(p') = {}
  BY DEF AccountInv, Fed, FramesOf
<1> HIDE DEF p
<1>5. CASE Kept(p, p') /\ kinds' = kinds
  BY <1>2, <1>3, <1>4, <1>5 DEF Kept
<1>6. CASE Dropped(p, p') /\ kinds' = kinds
  <2>1. PICK a \in Nat, s \in Seq(Frame), where \in Place :
          /\ Cut(p, p', a, Len(s)) /\ (\A i \in 1 .. Len(s) : s[i] = p[a + i])
          /\ lost' = lost \cup LossesOf(s, where)
          /\ saved' = saved
    BY <1>6 DEF Dropped
  <2>2. /\ FramesOf(p) = FramesOf(p') \cup FramesOf(s)
        /\ FramesOf(p') \cap FramesOf(s) = {}
        /\ \A i, j \in 1 .. Len(s) : i # j => s[i] # s[j]
    <3>1. p \in Seq(Frame) /\ p' \in Seq(Frame) /\ Rising(p)  BY <1>1, <1>2
    <3>2. Cut(p, p', a, Len(s)) /\ \A i \in 1 .. Len(s) : s[i] = p[a + i]  BY <2>1
    <3>3. FramesOf(p) = FramesOf(p') \cup FramesOf(s)  BY <3>1, <3>2, CutFrames, Zenon
    <3>4. FramesOf(p') \cap FramesOf(s) = {}  BY <3>1, <3>2, CutFrames, Zenon
    <3>5. ASSUME NEW i \in 1 .. Len(s), NEW j \in 1 .. Len(s), i # j PROVE s[i] # s[j]
      <4>1. /\ a + i # a + j /\ a + i \in 1 .. Len(p) /\ a + j \in 1 .. Len(p)
            /\ s[i] = p[a + i] /\ s[j] = p[a + j]
        BY <1>1, <3>2, <3>5, LenProperties DEF Cut
      <4>2. p[a + i] \in Frame /\ p[a + j] \in Frame  BY <1>1, <4>1, ElementOfSeq
      <4> QED  BY <3>1, <4>1, <4>2 DEF Rising, Frame
    <3> QED  BY <3>3, <3>4, <3>5
  <2>3. LostFrames \cap FramesOf(s) = {}  BY <1>2, <2>2
  <2>4. /\ LostFrames' = LostFrames \cup FramesOf(s)
        /\ Cardinality(lost') = Cardinality(lost) + Len(s)
    BY <2>1, <2>2, <2>3, LossesCount
  <2>5. Len(p') = Len(p) - Len(s) /\ Len(s) \in Nat  BY <2>1, LenProperties DEF Cut
  <2>6. Len(saved') + Cardinality(lost') + Len(p') = Len(kinds')
    BY <1>1, <1>2, <1>6, <2>1, <2>4, <2>5
  <2>7. SavedFrames' \cup LostFrames' \cup FramesOf(p') = 1 .. Len(kinds')
    BY <1>2, <1>3, <1>6, <2>1, <2>2, <2>4
  <2>8. LostFrames' \cap FramesOf(p') = {}
    BY <1>2, <2>2, <2>4
  <2> QED  BY <1>4, <2>6, <2>7, <2>8
<1>7. CASE Emitted(p, p') /\ kinds' = kinds
  <2> DEFINE f == p[1]
             s == <<f>>
  <2>1. /\ f \in Frame /\ 1 \in 1 .. Len(p)
        /\ Len(saved') = Len(saved) + 1
        /\ \A i \in 1 .. Len(saved) : saved'[i] = saved[i]
        /\ saved'[Len(saved) + 1] = [image |-> f, named |-> NextMetadata]
        /\ Cut(p, p', 0, 1) /\ lost' = lost
    BY <1>1, <1>7, EmittedIsLast DEF Emitted
  <2>2. s \in Seq(Frame) /\ Len(s) = 1 /\ FramesOf(s) = {f} /\ s[1] = p[1]
    <3> HIDE DEF f
    <3>1. s \in Seq(Frame) /\ Len(s) = 1 /\ DOMAIN s = {1} /\ s[1] = f  BY <2>1
    <3> HIDE DEF s
    <3> QED  BY <3>1 DEF FramesOf, f
  <2> HIDE DEF f, s
  <2>3. Cut(p, p', 0, Len(s)) /\ \A i \in 1 .. Len(s) : s[i] = p[0 + i]
    BY <2>1, <2>2
  <2>4. FramesOf(p) = FramesOf(p') \cup {f}
    <3>1. p \in Seq(Frame) /\ p' \in Seq(Frame) /\ Rising(p)  BY <1>1, <1>2
    <3>2. FramesOf(p) = FramesOf(p') \cup FramesOf(s)
      BY <2>2, <2>3, <3>1, CutFrames
    <3> QED  BY <2>2, <3>2
  <2>5. SavedFrames' = SavedFrames \cup {f}
    <3>1. DOMAIN saved' = 1 .. Len(saved) + 1
      <4>1. saved' \in Seq(SavedImage)  BY DEF PipelineTypes, TypeOK, SavedImage
      <4> QED  BY <2>1, <4>1, LenProperties
    <3>2. SavedFrames' = {saved'[i].image : i \in 1 .. Len(saved) + 1}
      BY <3>1 DEF SavedFrames
    <3>3. \A i \in 1 .. Len(saved) + 1 : i \in 1 .. Len(saved) \/ i = Len(saved) + 1
      BY <1>1
    <3>4. 1 .. Len(saved) \subseteq 1 .. Len(saved) + 1 /\ Len(saved) + 1 \in 1 .. Len(saved) + 1
      BY <1>1
    <3>5. saved'[Len(saved) + 1].image = f  BY <2>1
    <3> QED  BY <1>1, <2>1, <3>2, <3>3, <3>4, <3>5 DEF SavedFrames
  <2>6. Len(p') = Len(p) - 1  BY <2>1 DEF Cut
  <2>7. Len(saved') + Cardinality(lost') + Len(p') = Len(kinds')
    BY <1>1, <1>2, <1>7, <2>1, <2>6
  <2>8. SavedFrames' \cup LostFrames' \cup FramesOf(p') = 1 .. Len(kinds')
    BY <1>2, <1>3, <1>7, <2>1, <2>4, <2>5
  <2>9. LostFrames' \cap FramesOf(p') = {}  BY <1>2, <1>3, <2>1, <2>4
  <2> QED  BY <1>4, <2>7, <2>8, <2>9
<1>8. ASSUME \E kind \in Kind : kinds' = Append(kinds, kind)
      PROVE  Len(kinds') = Len(kinds) + 1 /\ Len(kinds) + 1 \in Frame
             /\ 1 .. Len(kinds') = 1 .. Len(kinds) \cup {Len(kinds) + 1}
             /\ Len(kinds) + 1 \notin 1 .. Len(kinds)
  <2>1. Len(kinds') = Len(kinds) + 1  BY <1>1, <1>8, AppendProperties
  <2>2. Len(kinds) + 1 \in Frame
    BY <1>1, <2>1, PipelineAssumption DEF PipelineTypes, TypeOK, Frame
  <2> QED  BY <1>1, <2>1, <2>2
<1>9. CASE Entered /\ \E kind \in Kind : kinds' = Append(kinds, kind)
  <2> DEFINE f == Len(kinds) + 1
  <2>1. Len(kinds') = f /\ f \in Frame /\ 1 .. Len(kinds') = 1 .. Len(kinds) \cup {f}
        /\ f \notin 1 .. Len(kinds)
    BY <1>8, <1>9
  <2>2. p' = Append(p, f) /\ saved' = saved /\ lost' = lost  BY <1>9 DEF Entered, p
  <2> HIDE DEF f
  <2>3. /\ Len(p') = Len(p) + 1 /\ p'[Len(p) + 1] = f
        /\ \A i \in 1 .. Len(p) : p'[i] = p[i]
    BY <1>1, <2>1, <2>2, AppendProperties
  <2>4. FramesOf(p') = FramesOf(p) \cup {f}
    <3>1. DOMAIN p' = DOMAIN p \cup {Len(p) + 1}  BY <1>1, <2>3
    <3>2. FramesOf(p') = {p'[i] : i \in DOMAIN p} \cup {p'[Len(p) + 1]}
      BY <3>1 DEF FramesOf
    <3>3. {p'[i] : i \in DOMAIN p} = FramesOf(p)
      BY <1>1, <2>3 DEF FramesOf
    <3> QED  BY <2>3, <3>2, <3>3
  <2>5. Len(saved') + Cardinality(lost') + Len(p') = Len(kinds')
    BY <1>1, <1>2, <2>1, <2>2, <2>3 DEF f
  <2>6. SavedFrames' \cup LostFrames' \cup FramesOf(p') = 1 .. Len(kinds')
    BY <1>2, <1>3, <2>1, <2>2, <2>4
  <2>7. LostFrames' \cap FramesOf(p') = {}  BY <1>2, <1>3, <2>1, <2>2, <2>4
  <2> QED  BY <1>4, <2>5, <2>6, <2>7
<1>10. CASE Refused /\ \E kind \in Kind : kinds' = Append(kinds, kind)
  <2> DEFINE f == Len(kinds) + 1
             s == <<f>>
  <2>1. Len(kinds') = f /\ f \in Frame /\ 1 .. Len(kinds') = 1 .. Len(kinds) \cup {f}
        /\ f \notin 1 .. Len(kinds)
    BY <1>8, <1>10
  <2>2. PICK where \in Place : p' = p /\ saved' = saved /\ Loses(f, where)
    BY <1>10 DEF Refused, p
  <2>3. s \in Seq(Frame) /\ Len(s) = 1 /\ FramesOf(s) = {f} /\ LossesOf(s, where) = {[frame |-> f, at |-> where]}
    <3> HIDE DEF f
    <3>1. s \in Seq(Frame) /\ Len(s) = 1 /\ DOMAIN s = {1} /\ s[1] = f  BY <2>1
    <3> HIDE DEF s
    <3> QED  BY <3>1 DEF FramesOf, LossesOf
  <2> HIDE DEF f, s
  <2>4. lost' = lost \cup LossesOf(s, where)  BY <2>2, <2>3 DEF Loses
  <2>5. LostFrames \cap FramesOf(s) = {}  BY <1>2, <2>1, <2>3
  <2>6. \A i, j \in 1 .. Len(s) : i # j => s[i] # s[j]  BY <2>3
  <2>7. LostFrames' = LostFrames \cup {f} /\ Cardinality(lost') = Cardinality(lost) + 1
    BY <2>3, <2>4, <2>5, <2>6, LossesCount
  <2>8. Len(saved') + Cardinality(lost') + Len(p') = Len(kinds')
    BY <1>1, <1>2, <2>1, <2>2, <2>7 DEF f
  <2>9. SavedFrames' \cup LostFrames' \cup FramesOf(p') = 1 .. Len(kinds')
    BY <1>2, <1>3, <2>1, <2>2, <2>7
  <2>10. LostFrames' \cap FramesOf(p') = {}  BY <1>2, <2>1, <2>2, <2>7
  <2> QED  BY <1>4, <2>8, <2>9, <2>10
<1> QED  BY <1>5, <1>6, <1>7, <1>9, <1>10, PipelineStep DEF p

\* Every frame fed is in exactly one place, for any sizes of queues and pipes:
\* on its way, saved, or lost at a place the code names (storage.go, the three
\* goroutines).
THEOREM FramesAreAccountedFor == Spec => []EveryFrameAccountedFor
<1>1. Init => AccountInv
  <2> SUFFICES ASSUME Init PROVE AccountInv
    OBVIOUS
  <2>1. Pipeline = << >>  BY InitPipeline
  <2>2. Len(<< >>) = 0 /\ Cardinality({}) = 0 /\ DOMAIN << >> = {}
    BY EmptySeq, FS_EmptySet
  <2> QED
    BY <2>1, <2>2 DEF Init, AccountInv, SavedFrames, LostFrames, FramesOf, Fed
<1>2. PipelineTypes /\ PipelineTypes' /\ OrderInv /\ AccountInv /\ [Next]_vars => AccountInv'
  BY AccountKept
<1>3. AccountInv => EveryFrameAccountedFor
  BY DEF AccountInv, EveryFrameAccountedFor, SavedFrames, LostFrames, FramesOf
<1> QED  BY <1>1, <1>2, <1>3, OrderAlways, PTL DEF Spec
-----------------------------------------------------------------------------
(* The matching of images and metadata.                                    *)

\* The frame whose metadata has been sent and that is not written yet.
Writing == IF feeder.at = "write" THEN <<feeder.frame>> ELSE << >>

\* While nothing has disturbed the matching, the metadata queue is a copy of
\* what is being converted, and all that is saved has its own name.
MetaInv ==
  ~MatchingDisturbed =>
    /\ metadataQueue = Converting \o Writing
    /\ \A i \in DOMAIN saved : saved[i].named = saved[i].image

LEMMA FrontCut ==
  ASSUME NEW p \in Seq(Frame), NEW q \in Seq(Frame), NEW y \in Seq(Frame), Cut(p, q, 0, 1)
  PROVE  Cut(p \o y, q \o y, 0, 1) /\ (p \o y)[1] = p[1]
<1>1. Cut(p \o y, q \o y, 0, 1)  BY CutBehind
<1>2. Len(p) \in Nat /\ Len(y) \in Nat /\ 1 <= Len(p)  BY LenProperties DEF Cut
<1>3. 1 \in 1 .. Len(p) + Len(y)  BY <1>2
<1>4. (p \o y)[1] = p[1]  BY <1>2, <1>3, ConcatProperties
<1> QED  BY <1>1, <1>4

LEMMA CutIsTail ==
  ASSUME NEW p \in Seq(Frame), NEW q \in Seq(Frame), Cut(p, q, 0, 1)
  PROVE  p # << >> /\ Head(p) = p[1] /\ q = Tail(p)
<1>1. /\ Len(p) \in Nat /\ Len(q) \in Nat /\ Len(p) >= 1 /\ Len(q) = Len(p) - 1
      /\ \A i \in 1 .. Len(q) : q[i] = p[i + 1]
  BY LenProperties DEF Cut
<1>2. p # << >>  BY <1>1, EmptySeq
<1>3. /\ Tail(p) \in Seq(Frame) /\ Len(Tail(p)) = Len(p) - 1 /\ Head(p) = p[1]
      /\ \A i \in 1 .. Len(Tail(p)) : Tail(p)[i] = p[i + 1]
  BY <1>2, HeadTailProperties
<1>4. \A i \in 1 .. Len(q) : q[i] = Tail(p)[i]  BY <1>1, <1>3
<1>5. Len(q) = Len(Tail(p))  BY <1>1, <1>3
<1>6. q = Tail(p)  BY <1>3, <1>4, <1>5, SeqEqual
<1> QED  BY <1>2, <1>3, <1>6

LEMMA SaverCuts ==
  ASSUME PipelineTypes, SaverSaves
  PROVE  /\ Cut(Converting, Converting', 0, 1)
         /\ Converting[1] = saver.frame /\ saver.frame \in Frame
<1> DEFINE h == Held(saver)
           r == Held(receiver)
           x == decodedQueue
           p == << >> \o x \o r \o stdout
<1>1. /\ h \in Seq(Frame) /\ x \in Seq(Frame) /\ r \in Seq(Frame)
      /\ stdout \in Seq(Frame) /\ stdin \in Seq(Frame)
      /\ h \o x \in Seq(Frame) /\ h \o x \o r \in Seq(Frame)
      /\ h \o x \o r \o stdout \in Seq(Frame)
  BY Parts
<1>2. saver.frame \in Frame /\ h = <<saver.frame>>
  BY DEF SaverSaves, At, PipelineTypes, TypeOK, Held, None
<1>3. h' = << >> /\ r' = r /\ x' = x /\ stdout' = stdout /\ stdin' = stdin
  BY DEF SaverSaves, Held, process
<1>4. Converting = h \o x \o r \o stdout \o stdin
      /\ Converting' = << >> \o x \o r \o stdout \o stdin
  BY <1>3 DEF Converting
<1>5. Len(h) = 1 /\ h[1] = saver.frame  BY <1>2
<1>6. << >> \in Seq(Frame) /\ Len(<< >>) = 0  BY EmptySeq
<1> HIDE DEF h, r, x
<1>7. /\ << >> \o x \in Seq(Frame) /\ << >> \o x \o r \in Seq(Frame)
      /\ << >> \o x \o r \o stdout \in Seq(Frame)
  BY <1>1, <1>6, ConcatProperties
<1>8. Cut(h, << >>, 0, 1)  BY <1>5, <1>6 DEF Cut
<1>9. Cut(h \o x, << >> \o x, 0, 1) /\ (h \o x)[1] = saver.frame
  BY <1>1, <1>5, <1>6, <1>8, FrontCut
<1>10. Cut(h \o x \o r, << >> \o x \o r, 0, 1) /\ (h \o x \o r)[1] = saver.frame
  BY <1>1, <1>7, <1>9, FrontCut
<1>11. Cut(h \o x \o r \o stdout, << >> \o x \o r \o stdout, 0, 1)
       /\ (h \o x \o r \o stdout)[1] = saver.frame
  BY <1>1, <1>7, <1>10, FrontCut
<1>12. Cut(h \o x \o r \o stdout \o stdin, << >> \o x \o r \o stdout \o stdin, 0, 1)
       /\ (h \o x \o r \o stdout \o stdin)[1] = saver.frame
  BY <1>1, <1>7, <1>11, FrontCut
<1> QED  BY <1>2, <1>4, <1>12

LEMMA DisturbanceStays ==
  ASSUME PipelineTypes, PipelineTypes', [Next]_vars, MatchingDisturbed
  PROVE  MatchingDisturbed'
<1>1. lost \subseteq lost'
  BY PipelineStep DEF Kept, Dropped, Emitted, Entered, Refused, Loses
<1>2. unmatched \subseteq unmatched'
  <2>1. CASE Caller
    BY <2>1 DEF Caller, Start, StartFails, FeedFrame, StopBegins, Stop, StopCloses,
                StopHangsUp, StopReturns, history
  <2>2. CASE Feeder
    BY <2>2 DEF Feeder, FeederTakes, FeederEnds, FeederChecks, FeederSendsMetadata,
                FeederWrites, history
  <2>3. CASE Receiver
    BY <2>3 DEF Receiver, ReceiverChecks, ReceiverReads, ReceiverSends, history
  <2>4. CASE Saver
    BY <2>4 DEF Saver, SaverTakes, SaverEnds, SaverSaves, history
  <2>5. CASE Ffmpeg \/ FfmpegDies
    BY <2>5 DEF Ffmpeg, FfmpegDecodes, FfmpegComplains, FfmpegEnds, FfmpegDies, history
  <2>6. CASE UNCHANGED vars  BY <2>6 DEF vars, history
  <2> QED  BY <2>1, <2>2, <2>3, <2>4, <2>5, <2>6 DEF Next
<1> QED  BY <1>1, <1>2 DEF MatchingDisturbed

LEMMA MetaKept ==
  ASSUME PipelineTypes, PipelineTypes', MetaInv, [Next]_vars
  PROVE  MetaInv'
<1> SUFFICES ASSUME ~MatchingDisturbed'
             PROVE  /\ metadataQueue' = Converting' \o Writing'
                    /\ \A i \in DOMAIN saved' : saved'[i].named = saved'[i].image
  BY DEF MetaInv
<1> DEFINE c == Converting
           w == Writing
<1>1. /\ metadataQueue = c \o w
      /\ \A i \in DOMAIN saved : saved[i].named = saved[i].image
  BY DisturbanceStays DEF MetaInv
<1>2. c \in Seq(Frame) /\ c' \in Seq(Frame) /\ metadataQueue \in Seq(Frame)
  BY Parts, PartsAfter DEF PartsOK, PipelineTypes, TypeOK
<1>3. w \in Seq(Frame)
  <2>1. feeder.at = "write" => feeder.frame \in Frame
    BY DEF PipelineTypes, TypeOK, None
  <2>2. << >> \in Seq(Frame) /\ \A f \in Frame : <<f>> \in Seq(Frame)
    BY EmptySeq
  <2> QED  BY <2>1, <2>2 DEF Writing
<1> HIDE DEF c, w
<1>4. CASE UNCHANGED <<metadataQueue, c, w, saved>>
  BY <1>1, <1>4 DEF c, w
<1>5. CASE Caller
  <2>1. UNCHANGED <<metadataQueue, decodedQueue, stdout, stdin, saved>>
    BY <1>5 DEF Caller, Start, StartFails, FeedFrame, StopBegins, Stop, StopCloses,
                StopHangsUp, StopReturns, queues, process, history
  <2>2. CASE Start
    <3>1. /\ Held(saver) = << >> /\ Held(receiver) = << >> /\ Writing = << >>
          /\ Held(saver)' = << >> /\ Held(receiver)' = << >> /\ Writing' = << >>
      BY <2>2 DEF Start, CallerIs, PipelineTypes, Held, Writing
    <3> QED  BY <1>4, <2>1, <3>1 DEF Converting, c, w
  <2>3. CASE UNCHANGED <<feeder, receiver, saver>>
    BY <1>4, <2>1, <2>3 DEF Converting, Held, Writing, c, w
  <2> QED
    BY <1>5, <2>2, <2>3 DEF Caller, StartFails, FeedFrame, StopBegins, Stop, StopCloses,
                            StopHangsUp, StopReturns
<1>6. CASE Feeder
  <2>1. UNCHANGED <<saver, decodedQueue, receiver, stdout, saved>>
    BY <1>6 DEF Feeder, FeederTakes, FeederEnds, FeederChecks, FeederSendsMetadata,
                FeederWrites, queues, process, history
  <2>2. CASE FeederTakes \/ FeederEnds \/ FeederChecks
    <3>1. UNCHANGED <<stdin, metadataQueue>> /\ Writing = << >> /\ Writing' = << >>
      BY <2>2 DEF FeederTakes, FeederEnds, FeederChecks, FeederGoes, At, queues, process,
                  Writing
    <3> QED  BY <1>4, <2>1, <3>1 DEF Converting, Held, c, w
  <2>3. CASE FeederSendsMetadata
    <3>1. /\ stdin' = stdin /\ Writing = << >> /\ feeder.frame \in Frame
      BY <2>3 DEF FeederSendsMetadata, At, process, Writing, PipelineTypes, TypeOK, None
    <3>2. c' = c  BY <2>1, <3>1 DEF Converting, Held, c
    <3>3. CASE UNCHANGED <<metadataQueue, feeder>>
      BY <1>4, <2>1, <3>2, <3>3 DEF Writing, w
    <3>4. CASE metadataQueue' = Append(metadataQueue, feeder.frame)
               /\ FeederGoes("write", feeder.frame)
      <4>1. Writing' = <<feeder.frame>>  BY <3>4 DEF FeederGoes, Writing
      <4>2. metadataQueue = c  BY <1>1, <1>2, <3>1, ConcatEmptySeq DEF w
      <4>3. metadataQueue' = c \o <<feeder.frame>>
        BY <1>2, <3>1, <3>4, <4>2, AppendIsConcat
      <4> QED  BY <1>1, <2>1, <3>2, <4>1, <4>3 DEF c
    <3>5. CASE unmatched' = unmatched \cup {feeder.frame}
      BY <3>5 DEF MatchingDisturbed
    <3> QED  BY <2>3, <3>3, <3>4, <3>5 DEF FeederSendsMetadata
  <2>4. CASE FeederWrites
    <3>1. /\ metadataQueue' = metadataQueue /\ feeder.frame \in Frame
          /\ Writing = <<feeder.frame>> /\ Writing' = << >>
      BY <2>4 DEF FeederWrites, FeederGoes, At, queues, Writing, PipelineTypes, TypeOK, None
    <3>2. CASE stdin' = Append(stdin, feeder.frame)
      <4> DEFINE part == Held(saver) \o decodedQueue \o Held(receiver) \o stdout
      <4>1. part \in Seq(Frame) /\ stdin \in Seq(Frame) /\ c = part \o stdin
        BY Parts DEF Converting, c
      <4>2. c' = part \o stdin'  BY <2>1 DEF Converting, Held, c
      <4> HIDE DEF part
      <4>3. <<feeder.frame>> \in Seq(Frame) /\ stdin' = stdin \o <<feeder.frame>>
        BY <3>1, <3>2, <4>1, AppendIsConcat
      <4>4. c' = c \o <<feeder.frame>>
        BY <4>1, <4>2, <4>3, ConcatAssociative
      <4>5. c' \o << >> = c'  BY <1>2, ConcatEmptySeq
      <4> QED  BY <1>1, <2>1, <3>1, <4>4, <4>5 DEF c, w
    <3>3. CASE Loses(feeder.frame, "write")
      BY <3>3, LossDisturbs DEF Loses
    <3> QED  BY <2>4, <3>2, <3>3 DEF FeederWrites
  <2> QED  BY <1>6, <2>2, <2>3, <2>4 DEF Feeder
<1>7. CASE Receiver
  <2>1. UNCHANGED <<metadataQueue, feeder>>
    BY <1>7 DEF Receiver, ReceiverChecks, ReceiverReads, ReceiverSends, queues
  <2>2. w' = w  BY <2>1 DEF w, Writing
  <2>3. c' = c /\ saved' = saved
    BY <1>7, ReceiverStep DEF Kept, Dropped, Disturbs, c
  <2> QED  BY <1>4, <2>1, <2>2, <2>3
<1>8. CASE Ffmpeg \/ FfmpegDies
  <2>1. UNCHANGED <<metadataQueue, feeder>>
    BY <1>8 DEF Ffmpeg, FfmpegDecodes, FfmpegComplains, FfmpegEnds, FfmpegDies, queues
  <2>2. w' = w  BY <2>1 DEF w, Writing
  <2>3. c' = c /\ saved' = saved
    BY <1>8, FfmpegStep DEF Kept, Dropped, Disturbs, c
  <2> QED  BY <1>4, <2>1, <2>2, <2>3
<1>9. CASE SaverTakes \/ SaverEnds
  <2>1. UNCHANGED <<metadataQueue, feeder>>  BY <1>9 DEF SaverTakes, SaverEnds, queues
  <2>2. w' = w  BY <2>1 DEF w, Writing
  <2>3. ~SaverSaves
    BY <1>9 DEF SaverTakes, SaverEnds, SaverSaves, At
  <2>4. c' = c /\ saved' = saved
    BY <1>9, <2>3, SaverStep DEF Saver, Kept, c
  <2> QED  BY <1>4, <2>1, <2>2, <2>4
<1>10. CASE SaverSaves
  <2> DEFINE f == saver.frame
  <2>1. Cut(c, c', 0, 1) /\ c[1] = f /\ f \in Frame
    BY <1>10, SaverCuts DEF c
  <2>2. feeder' = feeder  BY <1>10 DEF SaverSaves
  <2>3. w' = w  BY <2>2 DEF w, Writing
  <2>4. Cut(c \o w, c' \o w, 0, 1) /\ (c \o w)[1] = f
    BY <1>2, <1>3, <2>1, FrontCut
  <2>5. c \o w \in Seq(Frame) /\ c' \o w \in Seq(Frame)
    BY <1>2, <1>3, ConcatProperties
  <2>6. c \o w # << >> /\ Head(c \o w) = f /\ c' \o w = Tail(c \o w)
    BY <2>4, <2>5, CutIsTail
  <2>7. metadataQueue # << >> /\ Head(metadataQueue) = f
    BY <1>1, <2>6
  <2>8. metadataQueue' = Tail(metadataQueue)  BY <1>10, <2>7 DEF SaverSaves
  <2>9. metadataQueue' = c' \o w'  BY <1>1, <2>3, <2>6, <2>8
  <2>10. NextMetadata = f  BY <2>7 DEF NextMetadata
  <2>11. saved' = saved \/ saved' = Append(saved, [image |-> f, named |-> f])
    BY <1>10, <2>10 DEF SaverSaves
  <2> HIDE DEF f
  <2>12. ASSUME saved' = Append(saved, [image |-> f, named |-> f]), NEW i \in DOMAIN saved'
         PROVE  saved'[i].named = saved'[i].image
    <3>1. [image |-> f, named |-> f] \in SavedImage /\ saved \in Seq(SavedImage)
      BY <2>1 DEF SavedImage, PipelineTypes, TypeOK
    <3>2. /\ DOMAIN saved = 1 .. Len(saved) /\ DOMAIN saved' = 1 .. Len(saved) + 1
          /\ Len(saved) \in Nat
          /\ \A k \in 1 .. Len(saved) : saved'[k] = saved[k]
          /\ saved'[Len(saved) + 1] = [image |-> f, named |-> f]
      BY <2>12, <3>1, AppendProperties, LenProperties
    <3>3. CASE i \in 1 .. Len(saved)  BY <1>1, <3>2, <3>3
    <3>4. CASE i = Len(saved) + 1  BY <3>2, <3>4
    <3> QED  BY <2>12, <3>2, <3>3, <3>4
  <2> QED  BY <1>1, <2>9, <2>11, <2>12 DEF c, w
<1>11. CASE UNCHANGED vars
  BY <1>4, <1>11 DEF vars, queues, process, history, Converting, Held, Writing, c, w
<1> QED
  BY <1>5, <1>6, <1>7, <1>8, <1>9, <1>10, <1>11 DEF Next, Saver

\* Until metadata is not queued, a written frame yields no image or an image
\* is dropped, every image is saved under its own timestamp: for any sizes of
\* queues and pipes, whatever the interleaving (saveDecodedFrames).
THEOREM NamesAreRight == Spec => []NamedRightUntilDisturbed
<1>1. Init => MetaInv
  <2> SUFFICES ASSUME Init PROVE MetaInv
    OBVIOUS
  <2>1. Converting = << >>  BY InitPipeline
  <2>2. Writing = << >> /\ metadataQueue = << >> /\ saved = << >>
    BY DEF Init, Writing
  <2>3. << >> \o << >> = << >> /\ DOMAIN << >> = {}
    BY EmptySeq, ConcatEmptySeq
  <2> QED  BY <2>1, <2>2, <2>3 DEF MetaInv
<1>2. PipelineTypes /\ PipelineTypes' /\ MetaInv /\ [Next]_vars => MetaInv'
  BY MetaKept
<1>3. MetaInv => NamedRightUntilDisturbed
  BY DEF MetaInv, NamedRightUntilDisturbed
<1> QED  BY <1>1, <1>2, <1>3, PipelineTypeOK, PTL DEF Spec
=============================================================================
