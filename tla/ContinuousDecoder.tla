-------------------------- MODULE ContinuousDecoder --------------------------
(***************************************************************************)
(* pkg/storage/storage.go, type ContinuousDecoder: one ffmpeg process fed  *)
(* through a pipe, and three goroutines around it.                         *)
(*                                                                         *)
(*   FeedFrame -> frameQueue -> feedFrames -> stdin -> ffmpeg -> stdout    *)
(*             -> receiveFrames -> decodedQueue -> saveDecodedFrames       *)
(*   feedFrames -> metadataQueue -> saveDecodedFrames                      *)
(*                                                                         *)
(* The caller is FrameStorage, which holds its mutex across FeedFrame and  *)
(* across Stop, so both are steps of one process.  A frame is its number   *)
(* in feeding order; an image is the number of the frame it shows.  Every  *)
(* channel operation, pipe operation and read of cd.running is a step of   *)
(* its own: cd.mu is held only around counters and pipe handles.           *)
(***************************************************************************)
EXTENDS Integers, Sequences, FiniteSets

CONSTANTS QueueCap,      \* capacity of frameQueue and decodedQueue (100)
          MetaCap,       \* MetadataQueueSize10MB
          StdinCap,      \* frames the stdin pipe and ffmpeg itself hold
          StdoutCap,     \* images the stdout pipe holds
          StderrCap,     \* decode errors the stderr pipe holds: nobody reads it
          MaxFrames,     \* bound: frames fed
          FfmpegMayDie   \* whether ffmpeg may exit of its own accord

ASSUME PipelineAssumption ==
  /\ {QueueCap, MetaCap, StdinCap, StdoutCap} \subseteq Nat \ {0}
  /\ StderrCap \in Nat /\ MaxFrames \in Nat /\ FfmpegMayDie \in BOOLEAN

VARIABLES
  caller,                     \* what FrameStorage is doing
  running, closed,            \* cd.running; the channels Stop has closed
  frameQueue, metadataQueue, decodedQueue,
  stdinOpen, stdin, stdout, stderr, ffmpeg,    \* pipes and process
  feeder, receiver, saver,    \* goroutines: where they are, what they hold
  failedCount, savedCount,
  crashed,                    \* a goroutine panicked and took the program down
  kinds, saved, lost, unmatched     \* history

queues  == <<frameQueue, metadataQueue, decodedQueue>>
process == <<stdinOpen, stdin, stdout, stderr, ffmpeg>>
history == <<kinds, saved, lost, unmatched>>
vars == <<caller, running, closed, queues, process, feeder, receiver, saver,
          failedCount, savedCount, crashed, history>>

Frame == 1 .. MaxFrames
None  == 0

\* Metadata that belongs to no frame: the fallback timestamp, and the zero
\* value a receive from a closed channel yields.
Fallback == -1
ZeroValue == -2

\* What decoder.Frame.IsCorrupted says of a frame, and whether ffmpeg can
\* decode one that is not corrupted (it cannot without its reference frames).
Kind == {"good", "corrupted", "undecodable"}

Fed == 1 .. Len(kinds)
\* A panic ends the program: nothing is modelled after it.
CallerIs(what)   == ~crashed /\ caller = what
At(goroutine, x) == ~crashed /\ goroutine.at = x
FfmpegUp         == ~crashed /\ ffmpeg = "up"

Loses(f, where) == lost' = lost \cup {[frame |-> f, at |-> where]}

Init ==
  /\ caller = "new" /\ running = FALSE /\ closed = {}
  /\ frameQueue = << >> /\ metadataQueue = << >> /\ decodedQueue = << >>
  /\ stdinOpen = FALSE /\ stdin = << >> /\ stdout = << >> /\ stderr = 0
  /\ ffmpeg = "none"
  /\ feeder = [at |-> "off", frame |-> None]
  /\ receiver = [at |-> "off", frame |-> None]
  /\ saver = [at |-> "off", frame |-> None]
  /\ failedCount = 0 /\ savedCount = 0 /\ crashed = FALSE
  /\ kinds = << >> /\ saved = << >> /\ lost = {} /\ unmatched = {}
-----------------------------------------------------------------------------
(* The caller: NewContinuousDecoder, FeedFrame, Stop.                      *)

\* start() runs ffmpeg and writes SPS and PPS; only then do goroutines start.
Start ==
  /\ CallerIs("new")
  /\ caller' = "feeding" /\ running' = TRUE
  /\ stdinOpen' = TRUE /\ ffmpeg' = "up"
  /\ feeder'   = [at |-> "idle", frame |-> None]
  /\ receiver' = [at |-> "check", frame |-> None]
  /\ saver'    = [at |-> "idle", frame |-> None]
  /\ UNCHANGED <<closed, queues, stdin, stdout, stderr, failedCount, savedCount,
                 crashed, history>>

\* start() fails before or after the process was started; in the second case
\* running is set, and process and pipe are left behind.
StartFails ==
  /\ CallerIs("new")
  /\ caller' = "failed"
  /\ \/ UNCHANGED <<running, stdinOpen, ffmpeg>>
     \/ running' = TRUE /\ stdinOpen' = TRUE /\ ffmpeg' = "up"
  /\ UNCHANGED <<closed, queues, stdin, stdout, stderr, feeder, receiver, saver,
                 failedCount, savedCount, crashed, history>>

\* Mutant: a full queue makes room by throwing out its first frame.
FeedFrameEvicts(kind) ==
  /\ CallerIs("feeding") /\ running
  /\ Len(kinds) < MaxFrames
  /\ kinds' = Append(kinds, kind)
  /\ LET f == Len(kinds) + 1
     IN  frameQueue' = Append(IF Len(frameQueue) < QueueCap THEN frameQueue
                              ELSE Tail(frameQueue), f)
  /\ UNCHANGED <<caller, running, closed, metadataQueue, decodedQueue, process,
                 feeder, receiver, saver, failedCount, savedCount, crashed,
                 saved, lost, unmatched>>

FeedFrame(kind) ==
  /\ CallerIs("feeding") /\ running
  /\ Len(kinds) < MaxFrames
  /\ kinds' = Append(kinds, kind)
  /\ LET f == Len(kinds) + 1
     IN  \/ /\ Len(frameQueue) < QueueCap
            /\ frameQueue' = Append(frameQueue, f)
            /\ UNCHANGED lost
         \/ /\ Len(frameQueue) >= QueueCap
            /\ Loses(f, "frameQueue")
            /\ UNCHANGED frameQueue
  /\ UNCHANGED <<caller, running, closed, metadataQueue, decodedQueue, process,
                 feeder, receiver, saver, failedCount, savedCount, crashed,
                 saved, unmatched>>

\* Mutant: the goroutines are not told before the channels are closed.
StopBeginsUntold ==
  /\ CallerIs("feeding") /\ running
  /\ caller' = "closing"
  /\ UNCHANGED <<running, closed, queues, process, feeder, receiver, saver,
                 failedCount, savedCount, crashed, history>>

StopBegins ==
  /\ CallerIs("feeding") /\ running
  /\ running' = FALSE
  /\ caller' = "closing"
  /\ UNCHANGED <<closed, queues, process, feeder, receiver, saver, failedCount,
                 savedCount, crashed, history>>

\* close(frameQueue), close(decodedQueue), close(metadataQueue), in this order.
StopCloses(channel) ==
  /\ CallerIs("closing")
  /\ channel = CASE closed = {} -> "frame"
                 [] closed = {"frame"} -> "decoded"
                 [] OTHER -> "metadata"
  /\ closed' = closed \cup {channel}
  /\ caller' = IF channel = "metadata" THEN "hangup" ELSE "closing"
  /\ UNCHANGED <<running, queues, process, feeder, receiver, saver, failedCount,
                 savedCount, crashed, history>>

StopHangsUp ==
  /\ CallerIs("hangup")
  /\ stdinOpen' = FALSE
  /\ caller' = "waiting"
  /\ UNCHANGED <<running, closed, queues, stdin, stdout, stderr, ffmpeg, feeder,
                 receiver, saver, failedCount, savedCount, crashed, history>>

\* cmd.Wait returns when the process has exited, and closes the read pipes.
StopReturns ==
  /\ CallerIs("waiting") /\ ffmpeg = "exited"
  /\ caller' = "stopped"
  /\ UNCHANGED <<running, closed, queues, process, feeder, receiver, saver,
                 failedCount, savedCount, crashed, history>>
-----------------------------------------------------------------------------
(* feedFrames.                                                             *)

FeederGoes(where, f) == feeder' = [at |-> where, frame |-> f]

FeederTakes ==
  /\ At(feeder, "idle") /\ frameQueue # << >>
  /\ FeederGoes("took", Head(frameQueue))
  /\ frameQueue' = Tail(frameQueue)
  /\ UNCHANGED <<caller, running, closed, metadataQueue, decodedQueue, process,
                 receiver, saver, failedCount, savedCount, crashed, history>>

\* The range ends once the channel is closed and empty.
FeederEnds ==
  /\ At(feeder, "idle") /\ frameQueue = << >> /\ "frame" \in closed
  /\ FeederGoes("done", None)
  /\ UNCHANGED <<caller, running, closed, queues, process, receiver, saver,
                 failedCount, savedCount, crashed, history>>

FeederChecks ==
  /\ At(feeder, "took")
  /\ \/ ~running /\ Loses(feeder.frame, "shutdown") /\ FeederGoes("done", None)
     \/ /\ running /\ kinds[feeder.frame] = "corrupted"
        /\ Loses(feeder.frame, "corrupted") /\ FeederGoes("idle", None)
     \/ /\ running /\ kinds[feeder.frame] # "corrupted"
        /\ FeederGoes("metadata", feeder.frame) /\ UNCHANGED lost
  /\ UNCHANGED <<caller, running, closed, queues, process, receiver, saver,
                 failedCount, savedCount, crashed, kinds, saved, unmatched>>

\* The metadata goes first, the frame after it.  A send on a closed channel
\* panics, select or not.
FeederSendsMetadata ==
  /\ At(feeder, "metadata")
  /\ \/ /\ "metadata" \in closed
        /\ crashed' = TRUE
        /\ UNCHANGED <<metadataQueue, feeder, unmatched>>
     \/ /\ "metadata" \notin closed
        /\ IF Len(metadataQueue) < MetaCap
           THEN /\ metadataQueue' = Append(metadataQueue, feeder.frame)
                /\ UNCHANGED unmatched
           ELSE /\ unmatched' = unmatched \cup {feeder.frame}
                /\ UNCHANGED metadataQueue
        /\ FeederGoes("write", feeder.frame)
        /\ UNCHANGED crashed
  /\ UNCHANGED <<caller, running, closed, frameQueue, decodedQueue, process,
                 receiver, saver, failedCount, savedCount, kinds, saved, lost>>

\* Write blocks while the pipe is full, and fails when Stop has closed it or
\* the process is gone.  The metadata already sent stays in its queue.
FeederWrites ==
  /\ At(feeder, "write")
  /\ \/ /\ stdinOpen /\ ffmpeg = "up" /\ Len(stdin) < StdinCap
        /\ stdin' = Append(stdin, feeder.frame)
        /\ UNCHANGED <<failedCount, lost>>
     \/ /\ ~stdinOpen \/ ffmpeg = "exited"
        /\ failedCount' = failedCount + 1
        /\ Loses(feeder.frame, "write")
        /\ UNCHANGED stdin
  /\ FeederGoes("idle", None)
  /\ UNCHANGED <<caller, running, closed, queues, stdinOpen, stdout, stderr,
                 ffmpeg, receiver, saver, savedCount, crashed, kinds, saved,
                 unmatched>>
-----------------------------------------------------------------------------
(* ffmpeg, which is not part of the program: it takes frames in order, puts *)
(* out one image for each frame it can decode and a complaint for each one  *)
(* it cannot, and exits at the end of its input.                            *)

FfmpegDecodes ==
  /\ FfmpegUp /\ stdin # << >> /\ kinds[Head(stdin)] = "good"
  /\ Len(stdout) < StdoutCap
  /\ stdout' = Append(stdout, Head(stdin))
  /\ stdin' = Tail(stdin)
  /\ UNCHANGED <<caller, running, closed, queues, stdinOpen, stderr, ffmpeg,
                 feeder, receiver, saver, failedCount, savedCount, crashed,
                 history>>

FfmpegComplains ==
  /\ FfmpegUp /\ stdin # << >> /\ kinds[Head(stdin)] # "good"
  /\ stderr < StderrCap
  /\ stderr' = stderr + 1
  /\ Loses(Head(stdin), "ffmpeg")
  /\ stdin' = Tail(stdin)
  /\ UNCHANGED <<caller, running, closed, queues, stdinOpen, stdout, ffmpeg,
                 feeder, receiver, saver, failedCount, savedCount, crashed,
                 kinds, saved, unmatched>>

FfmpegEnds ==
  /\ FfmpegUp /\ stdin = << >> /\ ~stdinOpen
  /\ ffmpeg' = "exited"
  /\ UNCHANGED <<caller, running, closed, queues, stdinOpen, stdin, stdout,
                 stderr, feeder, receiver, saver, failedCount, savedCount,
                 crashed, history>>

FfmpegDies ==
  /\ FfmpegMayDie /\ FfmpegUp
  /\ ffmpeg' = "exited"
  /\ stdin' = << >>
  /\ lost' = lost \cup {[frame |-> stdin[i], at |-> "ffmpeg"] : i \in DOMAIN stdin}
  /\ UNCHANGED <<caller, running, closed, queues, stdinOpen, stdout, stderr,
                 feeder, receiver, saver, failedCount, savedCount, crashed,
                 kinds, saved, unmatched>>
-----------------------------------------------------------------------------
(* receiveFrames.  An image is longer than the read buffer, so it takes    *)
(* several rounds of check and read; the one that completes it is modelled. *)

ReceiverGoes(where, f) == receiver' = [at |-> where, frame |-> f]

ReceiverChecks ==
  /\ At(receiver, "check")
  /\ ReceiverGoes(IF running THEN "read" ELSE "done", None)
  /\ UNCHANGED <<caller, running, closed, queues, process, feeder, saver,
                 failedCount, savedCount, crashed, history>>

\* Mutant: the image found stays in the read buffer.
ReceiverReadsKeeps ==
  /\ At(receiver, "read")
  /\ \/ /\ stdout # << >> /\ caller # "stopped"
        /\ ReceiverGoes("send", Head(stdout))
     \/ /\ (stdout = << >> /\ ffmpeg = "exited") \/ caller = "stopped"
        /\ ReceiverGoes("done", None)
  /\ UNCHANGED <<caller, running, closed, queues, process, feeder, saver,
                 failedCount, savedCount, crashed, history>>

ReceiverReads ==
  /\ At(receiver, "read")
  /\ \/ /\ stdout # << >> /\ caller # "stopped"
        /\ ReceiverGoes("send", Head(stdout))
        /\ stdout' = Tail(stdout)
     \/ /\ (stdout = << >> /\ ffmpeg = "exited") \/ caller = "stopped"
        /\ ReceiverGoes("done", None)
        /\ UNCHANGED stdout
  /\ UNCHANGED <<caller, running, closed, queues, stdinOpen, stdin, stderr,
                 ffmpeg, feeder, saver, failedCount, savedCount, crashed, history>>

\* Mutant: the receiver gives up when the queue is full.
ReceiverSendsOrQuits ==
  /\ At(receiver, "send") /\ "decoded" \notin closed
  /\ IF Len(decodedQueue) < QueueCap
     THEN /\ decodedQueue' = Append(decodedQueue, receiver.frame)
          /\ ReceiverGoes("check", None)
          /\ UNCHANGED lost
     ELSE /\ Loses(receiver.frame, "decodedQueue")
          /\ ReceiverGoes("done", None)
          /\ UNCHANGED decodedQueue
  /\ UNCHANGED <<caller, running, closed, frameQueue, metadataQueue, process,
                 feeder, saver, failedCount, savedCount, crashed, kinds, saved,
                 unmatched>>

ReceiverSends ==
  /\ At(receiver, "send")
  /\ \/ /\ "decoded" \in closed
        /\ crashed' = TRUE
        /\ UNCHANGED <<decodedQueue, receiver, lost>>
     \/ /\ "decoded" \notin closed
        /\ IF Len(decodedQueue) < QueueCap
           THEN /\ decodedQueue' = Append(decodedQueue, receiver.frame)
                /\ UNCHANGED lost
           ELSE /\ Loses(receiver.frame, "decodedQueue")
                /\ UNCHANGED decodedQueue
        /\ ReceiverGoes("check", None)
        /\ UNCHANGED crashed
  /\ UNCHANGED <<caller, running, closed, frameQueue, metadataQueue, process,
                 feeder, saver, failedCount, savedCount, kinds, saved, unmatched>>
-----------------------------------------------------------------------------
(* saveDecodedFrames.                                                      *)

SaverTakes ==
  /\ At(saver, "idle") /\ decodedQueue # << >>
  /\ saver' = [at |-> "match", frame |-> Head(decodedQueue)]
  /\ decodedQueue' = Tail(decodedQueue)
  /\ savedCount' = savedCount + 1
  /\ UNCHANGED <<caller, running, closed, frameQueue, metadataQueue, process,
                 feeder, receiver, failedCount, crashed, history>>

SaverEnds ==
  /\ At(saver, "idle") /\ decodedQueue = << >> /\ "decoded" \in closed
  /\ saver' = [at |-> "done", frame |-> None]
  /\ UNCHANGED <<caller, running, closed, queues, process, feeder, receiver,
                 failedCount, savedCount, crashed, history>>

\* The metadata the non-blocking receive of saveDecodedFrames yields.
NextMetadata ==
  IF metadataQueue # << >> THEN Head(metadataQueue)
  ELSE IF "metadata" \in closed THEN ZeroValue ELSE Fallback

\* Mutant: the metadata is looked at and left in its queue.
SaverSavesPeeks ==
  /\ At(saver, "match")
  /\ saved' = Append(saved, [image |-> saver.frame, named |-> NextMetadata])
  /\ saver' = [at |-> "idle", frame |-> None]
  /\ UNCHANGED <<caller, running, closed, queues, process, feeder, receiver,
                 failedCount, savedCount, crashed, kinds, lost, unmatched>>

\* The image is written under its metadata's timestamp, or the disk refuses.
SaverSaves ==
  /\ At(saver, "match")
  /\ metadataQueue' = IF metadataQueue = << >> THEN << >> ELSE Tail(metadataQueue)
  /\ \/ /\ saved' = Append(saved, [image |-> saver.frame, named |-> NextMetadata])
        /\ UNCHANGED lost
     \/ Loses(saver.frame, "disk") /\ UNCHANGED saved
  /\ saver' = [at |-> "idle", frame |-> None]
  /\ UNCHANGED <<caller, running, closed, frameQueue, decodedQueue, process,
                 feeder, receiver, failedCount, savedCount, crashed, kinds,
                 unmatched>>
-----------------------------------------------------------------------------
Stop ==
  \/ \E channel \in {"frame", "decoded", "metadata"} : StopCloses(channel)
  \/ StopHangsUp \/ StopReturns

Caller ==
  \/ Start \/ StartFails
  \/ \E kind \in Kind : FeedFrame(kind)
  \/ StopBegins \/ Stop

Feeder   == \/ FeederTakes \/ FeederEnds \/ FeederChecks
            \/ FeederSendsMetadata \/ FeederWrites
Receiver == ReceiverChecks \/ ReceiverReads \/ ReceiverSends
Saver    == SaverTakes \/ SaverEnds \/ SaverSaves
Ffmpeg   == FfmpegDecodes \/ FfmpegComplains \/ FfmpegEnds

Next == Caller \/ Feeder \/ Receiver \/ Saver \/ Ffmpeg \/ FfmpegDies

Spec == Init /\ [][Next]_vars

\* Go runs every goroutine that can run, ffmpeg keeps working, and a Stop that
\* has begun is carried on.  Nobody is obliged to feed or to stop.
FairSpec ==
  /\ Spec
  /\ WF_vars(Feeder) /\ WF_vars(Receiver) /\ WF_vars(Saver) /\ WF_vars(Ffmpeg)
  /\ WF_vars(Stop)
-----------------------------------------------------------------------------
(* Properties.                                                             *)

Held(goroutine) == IF goroutine.frame = None THEN << >> ELSE <<goroutine.frame>>

\* Every frame on its way to an image, the most advanced first.
Pipeline ==
  Held(saver) \o decodedQueue \o Held(receiver) \o stdout \o stdin
    \o Held(feeder) \o frameQueue

TypeOK ==
  /\ caller \in {"new", "failed", "feeding", "closing", "hangup", "waiting",
                 "stopped"}
  /\ running \in BOOLEAN /\ closed \subseteq {"frame", "decoded", "metadata"}
  /\ frameQueue \in Seq(Frame) /\ Len(frameQueue) <= QueueCap
  /\ decodedQueue \in Seq(Frame) /\ Len(decodedQueue) <= QueueCap
  /\ metadataQueue \in Seq(Frame) /\ Len(metadataQueue) <= MetaCap
  /\ stdin \in Seq(Frame) /\ Len(stdin) <= StdinCap
  /\ stdout \in Seq(Frame) /\ Len(stdout) <= StdoutCap
  /\ stdinOpen \in BOOLEAN /\ stderr \in 0 .. StderrCap
  /\ ffmpeg \in {"none", "up", "exited"}
  /\ feeder \in [at : {"off", "idle", "took", "metadata", "write", "done"},
                 frame : Frame \cup {None}]
  /\ receiver \in [at : {"off", "check", "read", "send", "done"},
                   frame : Frame \cup {None}]
  /\ saver \in [at : {"off", "idle", "match", "done"}, frame : Frame \cup {None}]
  /\ failedCount \in Nat /\ savedCount \in Nat /\ crashed \in BOOLEAN
  /\ kinds \in Seq(Kind) /\ Len(kinds) <= MaxFrames
  /\ saved \in Seq([image : Frame, named : Frame \cup {Fallback, ZeroValue}])
  /\ unmatched \subseteq Frame

\* Every frame fed is in exactly one place: on its way, saved, or lost where
\* the code says so.  None vanishes between two channels, none is duplicated
\* (storage.go, the three goroutines).
EveryFrameAccountedFor ==
  LET savedFrames == {saved[i].image : i \in DOMAIN saved}
      lostFrames  == {l.frame : l \in lost}
      onTheWay    == {Pipeline[i] : i \in DOMAIN Pipeline}
  IN  /\ savedFrames \cup lostFrames \cup onTheWay = Fed
      /\ Len(saved) + Cardinality(lost) + Len(Pipeline) = Len(kinds)

\* What makes the FIFO matching of images and metadata go wrong: metadata that
\* was not queued, a frame written after its metadata that yields no image, and
\* an image that is dropped.
MatchingDisturbed ==
  \/ unmatched # {}
  \/ \E l \in lost : l.at \in {"write", "ffmpeg", "decodedQueue"}

\* Until one of these happens every image is saved under its own timestamp,
\* whatever the interleaving of the goroutines and of Stop: the metadata is
\* there before the image is, and the queue's zero value is never used.
NamedRightUntilDisturbed ==
  ~MatchingDisturbed => \A i \in DOMAIN saved : saved[i].named = saved[i].image

\* A goroutine can panic only once Stop has begun to close channels.
PanicOnlyInShutdown == crashed => ~running /\ closed # {}

\* Images come out in feeding order, each at most once and after its frame was
\* fed: the pipeline implements OrderedDelivery.
Delivery == INSTANCE OrderedDelivery
  WITH fed <- Len(kinds),
       images <- [i \in DOMAIN saved |-> saved[i].image]
InOrder == Delivery!Spec

\* ffmpeg waits for somebody to read its complaints, which nobody does.
ComplaintStuck ==
  stdin # << >> /\ kinds[Head(stdin)] # "good" /\ stderr = StderrCap

\* As long as Stop is not called, every frame accepted becomes an image or is
\* lost where the code says so: no combination of full queues and full pipes
\* blocks the pipeline for good, except a full stderr (storage.go:166).
FrameGetsThrough ==
  \A f \in Frame :
    f \in Fed ~> \/ \E i \in DOMAIN saved : saved[i].image = f
                 \/ \E l \in lost : l.frame = f
                 \/ ~running \/ ComplaintStuck
-----------------------------------------------------------------------------
(* What the repository says and the code does not do.                      *)

\* storage.go:527 "Stop stops the continuous decoder": a Stop that has begun
\* returns.
StopEnds == caller = "closing" ~> caller = "stopped" \/ crashed
=============================================================================
