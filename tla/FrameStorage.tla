---------------------------- MODULE FrameStorage ----------------------------
(***************************************************************************)
(* type FrameStorage of pkg/storage/storage.go: parameter sets, the life   *)
(* of the continuous decoder's process, and the names of files.  SaveFrame, *)
(* UpdateTimestampMapping, EnableContinuousDecoder and Close hold s.mu and *)
(* are one step each; SetSPSPPS takes no lock and is several.  ffmpeg is   *)
(* installed and JPEG is on.  The statistics and stream.h264 are left out; *)
(* what the decoder does with a frame is module ContinuousDecoder, of      *)
(* which this one takes that an image is saved later under the timestamp   *)
(* of its own frame, and that Stop ends the process.  Parameter sets are   *)
(* read and written whole.  Time is counted in ticks of the RTP clock.     *)
(***************************************************************************)
EXTENDS TimestampMapper, Sequences

CONSTANTS
  Setters,         \* goroutines that call SetSPSPPS
  Ticks,           \* times at which frames and reports are made
  MaxEvents        \* bound: calls from outside, sender reports included

ASSUME StorageAssumption ==
  /\ Ticks \subseteq Nat \ {0}
  /\ MaxEvents \in Nat

VARIABLES
  spsNAL, ppsNAL,      \* the call that set it; 0 is empty
  useContinuousMode,
  continuousDecoder,   \* 0 is nil; a decoder has the name of its call
  timestampMapper,
  pc,                  \* of each setter
  call,                \* the call a setter is in, 0 when it is in none
  given,               \* the arguments of that call
  calls,               \* history of each call: "whole" when it gave both
                       \* parameters and nothing else ran during it,
                       \* "partial" when one was missing, "disturbed" when
                       \* something else ran
  alive,               \* ffmpeg processes
  failedStart,         \* history: calls whose start failed after cmd.Start
  fed,                 \* frames whose image is still to be saved
  files,               \* [name, tick, at, sound]: a file and the frame it holds
  usedPairs,           \* history: <<sps, pps>> given to an ffmpeg
  reports,             \* history: number of sender reports taken
  ownReport,           \* history: the mapping comes from the video sender
  events

setVars   == <<spsNAL, ppsNAL, pc, call, given, calls>>
nameVars  == <<timestampMapper, reports, ownReport, fed, files>>
vars == <<spsNAL, ppsNAL, useContinuousMode, continuousDecoder,
          timestampMapper, pc, call, given, calls, alive, failedStart, fed, files,
          usedPairs, reports, ownReport, events>>

Parameter   == {"none", "good", "bad"}
NoArguments == [sps |-> "none", pps |-> "none"]
Busy        == {g \in Setters : call[g] # 0}

Init ==
  /\ spsNAL = 0 /\ ppsNAL = 0
  /\ useContinuousMode \in BOOLEAN
  /\ continuousDecoder = 0
  /\ timestampMapper = NewTimestampMapper /\ reports = 0 /\ ownReport = FALSE
  /\ pc = [g \in Setters |-> "idle"] /\ call = [g \in Setters |-> 0]
  /\ given = [g \in Setters |-> NoArguments]
  /\ calls = << >> /\ alive = {} /\ failedStart = {}
  /\ fed = {} /\ files = {} /\ usedPairs = {}
  /\ events = 0

\* Something comes from outside.
Event == events < MaxEvents /\ events' = events + 1

\* The calls the setters are in are no longer alone.
Disturbed ==
  [c \in DOMAIN calls |->
     IF \E g \in Busy : call[g] = c THEN "disturbed" ELSE calls[c]]
-----------------------------------------------------------------------------
(* SetSPSPPS, step by step.                                                *)

SetSPSPPS(g, sps, pps) ==
  /\ pc[g] = "idle" /\ Event
  /\ pc' = [pc EXCEPT ![g] = "sps"]
  /\ call' = [call EXCEPT ![g] = Len(calls) + 1]
  /\ given' = [given EXCEPT ![g] = [sps |-> sps, pps |-> pps]]
  /\ calls' = Append(Disturbed, IF Busy # {} THEN "disturbed"
                               ELSE IF sps = "good" /\ pps = "good" THEN "whole"
                               ELSE "partial")
  /\ UNCHANGED <<spsNAL, ppsNAL, useContinuousMode, continuousDecoder,
                 alive, failedStart, usedPairs, nameVars>>

Returns(g) ==
  /\ pc' = [pc EXCEPT ![g] = "idle"]
  /\ call' = [call EXCEPT ![g] = 0]
  /\ given' = [given EXCEPT ![g] = NoArguments]

\* Mutant: parameter sets that are there already are kept.
StoresSPSOnce(g) ==
  /\ pc[g] = "sps"
  /\ IF given[g].sps = "bad" THEN Returns(g) /\ UNCHANGED spsNAL
     ELSE /\ spsNAL' = IF given[g].sps = "good" /\ spsNAL = 0 THEN call[g] ELSE spsNAL
          /\ pc' = [pc EXCEPT ![g] = "pps"] /\ UNCHANGED <<call, given>>
  /\ UNCHANGED <<ppsNAL, useContinuousMode, continuousDecoder, calls,
                 alive, failedStart, usedPairs, events, nameVars>>

StoresSPS(g) ==
  /\ pc[g] = "sps"
  /\ IF given[g].sps = "bad" THEN Returns(g) /\ UNCHANGED spsNAL
     ELSE /\ spsNAL' = IF given[g].sps = "good" THEN call[g] ELSE spsNAL
          /\ pc' = [pc EXCEPT ![g] = "pps"] /\ UNCHANGED <<call, given>>
  /\ UNCHANGED <<ppsNAL, useContinuousMode, continuousDecoder, calls,
                 alive, failedStart, usedPairs, events, nameVars>>

\* A PPS that cannot be decoded leaves the new SPS in place.
StoresPPS(g) ==
  /\ pc[g] = "pps"
  /\ IF given[g].pps = "bad" THEN Returns(g) /\ UNCHANGED ppsNAL
     ELSE /\ ppsNAL' = IF given[g].pps = "good" THEN call[g] ELSE ppsNAL
          /\ pc' = [pc EXCEPT ![g] = "check"] /\ UNCHANGED <<call, given>>
  /\ UNCHANGED <<spsNAL, useContinuousMode, continuousDecoder, calls,
                 alive, failedStart, usedPairs, events, nameVars>>

ChecksDecoder(g) ==
  /\ pc[g] = "check"
  /\ IF /\ spsNAL # 0 /\ ppsNAL # 0
        /\ useContinuousMode /\ continuousDecoder = 0
     THEN pc' = [pc EXCEPT ![g] = "start"] /\ UNCHANGED <<call, given>>
     ELSE Returns(g)
  /\ UNCHANGED <<spsNAL, ppsNAL, useContinuousMode, continuousDecoder,
                 calls, alive, failedStart, usedPairs, events, nameVars>>

\* NewContinuousDecoder: the process starts, or it does not, or it starts and
\* the parameter sets cannot be written to it; then it is left alone.
StartsDecoder(g) ==
  /\ pc[g] = "start"
  /\ \/ /\ pc' = [pc EXCEPT ![g] = "started"]
        /\ alive' = alive \cup {call[g]}
        /\ usedPairs' = usedPairs \cup {<<spsNAL, ppsNAL>>}
        /\ UNCHANGED failedStart
     \/ /\ pc' = [pc EXCEPT ![g] = "failed"]
        /\ UNCHANGED <<alive, failedStart, usedPairs>>
     \/ /\ pc' = [pc EXCEPT ![g] = "failed"]
        /\ alive' = alive \cup {call[g]}
        /\ failedStart' = failedStart \cup {call[g]}
        /\ UNCHANGED usedPairs
  /\ UNCHANGED <<spsNAL, ppsNAL, useContinuousMode, continuousDecoder,
                 call, given, calls, events, nameVars>>

\* The result is assigned even when it is nil; then there is no second try.
AssignsDecoder(g) ==
  /\ pc[g] \in {"started", "failed"}
  /\ continuousDecoder' = IF pc[g] = "started" THEN call[g] ELSE 0
  /\ useContinuousMode' = (useContinuousMode /\ pc[g] = "started")
  /\ Returns(g)
  /\ UNCHANGED <<spsNAL, ppsNAL, calls, alive, failedStart, usedPairs,
                 events, nameVars>>
-----------------------------------------------------------------------------
(* The methods under s.mu.                                                 *)

\* Mutant: the decoder is forgotten, not stopped.
StopsDecoderNot == continuousDecoder' = 0 /\ UNCHANGED alive

StopsDecoder ==
  /\ continuousDecoder' = 0
  /\ alive' = alive \ {continuousDecoder}

\* Enabling starts no decoder; the next SetSPSPPS does.
EnableContinuousDecoder(enable) ==
  /\ Event
  /\ useContinuousMode' = enable
  /\ IF enable THEN UNCHANGED <<continuousDecoder, alive>> ELSE StopsDecoder
  /\ calls' = Disturbed
  /\ UNCHANGED <<spsNAL, ppsNAL, pc, call, given, failedStart, usedPairs, nameVars>>

Close ==
  /\ Event
  /\ StopsDecoder
  /\ calls' = Disturbed
  /\ UNCHANGED <<spsNAL, ppsNAL, pc, call, given, useContinuousMode, failedStart,
                 usedPairs, nameVars>>

\* Mutant: a new wall clock is taken, the RTP timestamp it belongs to is not.
UpdateTimestampMappingHalf(sr, own) ==
  /\ Event
  /\ timestampMapper' = [UpdateFromSR(sr) EXCEPT !.rtp = timestampMapper.rtp]
  /\ reports' = reports + 1 /\ ownReport' = own
  /\ UNCHANGED <<setVars, useContinuousMode, continuousDecoder, alive,
                 failedStart, fed, files, usedPairs>>

\* Any report of any sender.
UpdateTimestampMapping(sr, own) ==
  /\ Event
  /\ timestampMapper' = UpdateFromSR(sr)
  /\ reports' = reports + 1 /\ ownReport' = own
  /\ UNCHANGED <<setVars, useContinuousMode, continuousDecoder, alive,
                 failedStart, fed, files, usedPairs>>

\* getFilenameH264, getFilenameJPEG: time (0 when there is no mapping) and
\* timestamp.
FileName(tick, corrupted, kind) ==
  [kind |-> kind, corrupted |-> corrupted, rtp |-> tick % T,
   time |-> RTPToNTP(timestampMapper, tick % T)]

\* A file named now; history: after how many reports, and whether the last is
\* of the frame's sender and less than half a turn away.
File(tick, corrupted, kind) ==
  [name  |-> FileName(tick, corrupted, kind), tick |-> tick, at |-> reports,
   sound |-> ownReport /\ tick - timestampMapper.ntp \in -HalfTurn .. HalfTurn - 1]

HasParameters == spsNAL # 0 /\ ppsNAL # 0

\* The frame goes to a file, then to the decoder, or, a whole key frame and
\* without a decoder, to an ffmpeg of its own, which may fail.
SaveFrame(tick, key, corrupted) ==
  /\ Event
  /\ LET saved == files \cup {File(tick, corrupted, "h264")}
         fresh == HasParameters /\ useContinuousMode /\ continuousDecoder # 0
     IN  \/ /\ fresh
            /\ files' = saved
            /\ fed' \in {fed, fed \cup {[tick |-> tick, corrupted |-> corrupted]}}
            /\ UNCHANGED usedPairs
         \/ /\ HasParameters /\ ~fresh /\ key /\ ~corrupted
            /\ files' \in {saved, saved \cup {File(tick, FALSE, "jpeg")}}
            /\ usedPairs' = usedPairs \cup {<<spsNAL, ppsNAL>>}
            /\ UNCHANGED fed
         \/ /\ ~HasParameters \/ (~fresh /\ (~key \/ corrupted))
            /\ files' = saved
            /\ UNCHANGED <<fed, usedPairs>>
  /\ calls' = Disturbed
  /\ UNCHANGED <<spsNAL, ppsNAL, pc, call, given, useContinuousMode, continuousDecoder,
                 alive, failedStart, timestampMapper, reports, ownReport>>

\* os.WriteFile fails: nothing else happens to the frame.
SaveFrameFails ==
  /\ Event
  /\ UNCHANGED <<setVars, useContinuousMode, continuousDecoder, alive,
                 failedStart, timestampMapper, reports, ownReport, fed, files,
                 usedPairs>>

\* The saver goroutine of a decoder names an image without s.mu, by the
\* mapping of that moment.
SavesImage(image) ==
  /\ fed' = fed \ {image}
  /\ files' = files \cup {File(image.tick, image.corrupted, "jpeg")}
  /\ UNCHANGED <<setVars, useContinuousMode, continuousDecoder, alive,
                 failedStart, timestampMapper, reports, ownReport, usedPairs, events>>

\* A report of the video sender, or of another one with its own timestamps.
OwnReport(tick)     == UpdateTimestampMapping([rtp |-> tick % T, ntp |-> tick], TRUE)
ForeignReport(tick) == UpdateTimestampMapping([rtp |-> (tick + 1) % T, ntp |-> tick], FALSE)

Next ==
  \/ \E g \in Setters :
       \/ \E sps, pps \in Parameter : SetSPSPPS(g, sps, pps)
       \/ StoresSPS(g) \/ StoresPPS(g)
       \/ ChecksDecoder(g) \/ StartsDecoder(g) \/ AssignsDecoder(g)
  \/ \E enable \in BOOLEAN : EnableContinuousDecoder(enable)
  \/ Close
  \/ \E tick \in Ticks : OwnReport(tick) \/ ForeignReport(tick)
  \/ \E tick \in Ticks, key, corrupted \in BOOLEAN : SaveFrame(tick, key, corrupted)
  \/ SaveFrameFails
  \/ \E image \in fed : SavesImage(image)

Spec == Init /\ [][Next]_vars
-----------------------------------------------------------------------------
TypeOK ==
  /\ spsNAL \in 0 .. Len(calls) /\ ppsNAL \in 0 .. Len(calls)
  /\ useContinuousMode \in BOOLEAN
  /\ continuousDecoder \in alive \cup {0}
  /\ call \in [Setters -> 0 .. Len(calls)]
  /\ \A g \in Setters : pc[g] = "idle" <=> call[g] = 0
  /\ alive \subseteq 1 .. Len(calls) /\ failedStart \subseteq alive

\* An ffmpeg process is the decoder's, or is about to be, or was left behind
\* for one of two reasons: its start failed after the process was running
\* (storage.go:189), or SetSPSPPS, which checks and starts without the lock,
\* ran into another call (storage.go:751).
OrphansHaveCause ==
  \A p \in alive :
    \/ p = continuousDecoder
    \/ \E g \in Setters : call[g] = p /\ pc[g] = "started"
    \/ p \in failedStart
    \/ calls[p] = "disturbed"

\* An ffmpeg is given an SPS and a PPS of one description, unless the later
\* of the two came alone or with a partner that cannot be decoded
\* (storage.go:735-747), or was being stored at the time.
PairsWhole ==
  \A pair \in usedPairs :
    pair[1] # pair[2] =>
      calls[IF pair[1] > pair[2] THEN pair[1] ELSE pair[2]] # "whole"

\* The files of a frame are named apart, the image last and without the lock
\* (storage.go:859), and sender reports move the mapping under them.  Their
\* times differ only when a report was taken in between and one of the two was
\* named before any report, by another sender's (rtcp.go:383), or by one half
\* a turn or more away (rtcp.go:434).  Two frames that are not told apart by
\* their files have the same timestamp, and the same is true of one of them.
FilesOfAFrameAgree ==
  \A f, g \in files :
    IF f.tick = g.tick
    THEN f.name.time # g.name.time => f.at # g.at /\ ~(f.sound /\ g.sound)
    ELSE f.name = g.name => f.tick % T = g.tick % T /\ ~(f.sound /\ g.sound)
=============================================================================
