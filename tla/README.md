# Verification of the RTSP client

TLA+ models of the concurrent and order-dependent parts of this repository
(`github.com/rtsp-client`, Go), TLC configurations that check them on small
instances, and TLAPS proofs of the facts that hold for every value of the
constants.  Line numbers refer to the sources under `src/`.

- [1. The system](#1-the-system)
- [2. Modules](#2-modules)
- [3. Runs and bounds](#3-runs-and-bounds)
- [4. Fairness](#4-fairness)
- [5. What is proved](#5-what-is-proved)
- [6. Where code and documentation part](#6-where-code-and-documentation-part)
- [7. What is not modelled](#7-what-is-not-modelled)
- [8. Plan](#8-plan)

To repeat a check: `tlc -config JitterBuffer.cfg MCJitterBuffer.tla`; to repeat
a proof: `tlapm JitterBufferProofs.tla`.

## 1. The system

The program connects to an RTSP server, sets a session up, reads RTP packets
(interleaved on the TCP connection or over UDP), assembles H.264 frames and has
one long-running ffmpeg turn them into JPEG files named by wall-clock time.
The `main` package the documents mention is not in the repository; what ties
the components together is known from the tests and the documents only.

| Component | State | Operations | Talks to |
|---|---|---|---|
| RTSP client, `pkg/rtsp/client.go` | `conn`, `session`, `cseq`, tracks, auth, UDP sockets, context | Connect, Describe, Setup, Play, Teardown, ReadPacket, Close | server, auth, interleaved |
| Keep-alive, `pkg/rtsp/keepalive.go` | `keepAliveStop`, `lastKeepAlive`, session timeout | StartKeepAlive, StopKeepAlive, Options, GetParameter | client's connection, from a goroutine |
| Recovery, `pkg/rtsp/recovery.go` | retry loop, `c.conn`, metrics | AutoReconnect, HealthCheck, Reconnect, RecoverSession | client's connection, from a goroutine |
| Errors and redirects, `pkg/rtsp/errors.go` | redirect count | classification, redirect following | client |
| Authentication, `pkg/rtsp/auth.go` | nonce, nonce count | challenge parsing, digest | client |
| Interleaved transport, `pkg/rtsp/interleaved.go` | channel maps | ReadFrame, WriteFrame, demultiplex | client's connection |
| Jitter buffer, `pkg/rtp/jitter.go` | packet map, expected number, counters, under `jb.mu` | AddPacket, GetNextPacket, DetectGaps, Reset, statistics | caller (not yet wired into the main flow, `.docs/RTP_TO_FRAME_GAPS.md:105`) |
| RTP and RTCP, `pkg/rtp/packet.go`, `rtcp.go` | timestamp map | parsing, reports, timestamp conversion | storage |
| H.264 decoder, `pkg/decoder/h264.go` | map from timestamp to frame under way, cached SPS and PPS, current SSRC, expected number | ProcessPacket, Reset, SetDropCorruptedFrames, statistics | caller |
| Continuous decoder, `pkg/storage/storage.go:51-587` | three channels, ffmpeg and its pipes, counters | FeedFrame, Stop, three goroutines | ffmpeg, disk |
| Frame storage, `pkg/storage/storage.go:589-1128` | SPS/PPS, timestamp mapping, the continuous decoder, under `s.mu` | SaveFrame, SetSPSPPS, UpdateTimestampMapping, EnableContinuousDecoder, Close | continuous decoder |
| Configuration, `internal/config/config.go` | settings | defaults, file, flags, Validate | main |
| Logger, `pkg/logger/logger.go` | level, output | formatting | everything |

**What is hard.**

- *The client is shared without a lock.*  The documents say it is for one
  goroutine, and its own keep-alive and recovery goroutines use `c.conn`,
  `c.keepAliveStop` and the reader state beside the caller.  What matters: no
  use of a connection that is being replaced, one connection at a time, every
  goroutine told to end ends.
- *The ffmpeg pipeline* has four queues, three pipes, three goroutines and a
  process that may complain, block or die.  What matters: order, every frame
  accounted for, an image saved under its own timestamp, shutdown that ends.
- *Packets arrive late, twice, reordered or not at all*, and 16-bit sequence
  numbers wrap.  What matters: order, loss counted once, damage marked, no
  mixing of two senders.
- *Time.*  Reordering windows, jitter delay, session timeouts, retry delays.
- *Authentication and recovery share state.*  Challenge, nonce count, session
  and track index belong to no goroutine.  What matters: a repeated request is
  accepted, tracks do not share channels, a session survives a lost connection.
- *The storage is half locked.*  `SetSPSPPS` takes no lock where everything else
  does.  What matters: no ffmpeg is forgotten, parameter sets belong together,
  a file carries the time of its frame.
- *Conversions with bounds*: signed and wrapping numbers, offsets in packets,
  settings from three sources, sections of a description.

What makes each component correct is stated by the properties in section 3;
`PROJECT.json` lists the hazards one by one with their lines and the
properties that watch them.

## 2. Modules

| Module | Models | Uses |
|---|---|---|
| `SequenceNumbers` | circular order of 16-bit numbers | |
| `TimestampMapper` | RTP timestamps to wall clock | |
| `RetryBackoff`, `Packets`, `Config`, `Sdp` | algorithms without state | |
| `JitterBuffer` | `pkg/rtp/jitter.go` | `SequenceNumbers` |
| `H264Decoder` | `pkg/decoder/h264.go` | `SequenceNumbers` |
| `ContinuousDecoder` | the ffmpeg pipeline | implements `OrderedDelivery` |
| `FrameStorage` | parameter sets, ffmpeg processes, file names | `TimestampMapper` |
| `ClientLifecycle` | who holds which connection | |
| `ControlConnection` | what travels on one connection | |
| `Session` | authentication, tracks, recovery | |
| `SessionClock` | keep-alive against session timeout | |

`MCNumbers` puts the six stateless modules into one run; the other `MC...`
modules instantiate one module each for TLC (`Session` needs none), and each
`...Proofs` module holds the theorems of its module: `NumbersProofs` those of the
stateless modules, with `MCNumbers` and its references, and of `SessionClock`.
What the stateful modules need of the arithmetic is proved beside them:
`SequenceNumbers` in `JitterBufferProofs`, `TimestampMapper` in
`FrameStorageProofs`.  The client appears in four views,
because each hazard needs other details: sockets and panics
(`ClientLifecycle`), bytes and answers (`ControlConnection`), credentials and
sessions (`Session`), time (`SessionClock`).  `Session` takes from
`ControlConnection` that an answer reaches its request, which `OwnAnswers` shows
for one goroutine at a time; `FrameStorage` takes from `ContinuousDecoder` that an
image is saved under the timestamp of its own frame, which holds until the
matching is disturbed.  Operators whose comment begins with "Mutant" are
variants with a plausible mistake, kept to show that a property notices it;
nothing uses them.

**SequenceNumbers**: `sequenceDiff` and `sequenceCompare` of `jitter.go` and
`sequenceDifference`, `sequenceBefore` and `sequenceAfter` of `h264.go`.  The
code's uint16 becomes a circle of `M` numbers, `M` even; 65536 in the code.

**JitterBuffer**: every method holds `jb.mu` from beginning to end, so each is
one action: `AddPacket`, `GetNextPacket` (its returns are the disjuncts
`GetEmpty`, `GetStalled`, `GetTooEarly` and `GetServed`), `Reset`; `DetectGaps`
is an operator, as it changes nothing.  A packet is its position in the sender's
stream.  The network loses, reorders and duplicates.  Of the arrival times the
code compares only which is older and whether `maxDelay/4` has passed, so they
are ranks and a `ripe` mark that `Wait` moves.  `dropOldestPacket` may delete any
packet that arrived first; with ranks there is one, as in the code unless two
clock readings coincide.  Number 0 doubles as "nothing found"
(`findNextAvailableSequence`), and the model keeps that.  The history knows the
place in the stream the reader waits for (`Place`) and how often it was sent back
to an earlier one (`sentBack`), which the 16-bit number and the loss counter do
not tell.

**H264Decoder**: one call of `ProcessPacket` is a step that puts the packet in,
then a step for each frame finalized, because the map is walked in random
order and the walk stops at the first frame made.  No other call comes between
(`Idle`).  `Streams` says what may be sent; the network delivers any packet at
any time and some twice.  A payload is which NAL units it holds and whether it
is a single unit, an aggregate or a fragment; a frame is the set of packets
whose payload went into it, the cached packets put in front, and two flags.
`Open`, `Kept` and `Torn` say declaratively what the loop over the sorted
packets with its fragment state computes.  The windows that have ended are those
begun before `ripe`.

**ContinuousDecoder**: `FeedFrame` and `Stop` are called under `FrameStorage`'s
mutex, so the caller is one process; `feedFrames`, `receiveFrames` and
`saveDecodedFrames` are the others, and each channel operation, pipe operation and
read of `cd.running` is a step.  A send on a closed channel is a panic
(`crashed`), after which nothing happens.  ffmpeg takes frames in order and puts
one image out for each frame it can decode and a complaint for each it cannot;
it may die.  The three goroutine steps that wait do so because their guard is
false, as in Go.

**OrderedDelivery** is what anybody may expect of such a pipeline: images in
feeding order, each frame at most once, none before it was fed.  Its state is
the frames fed and the sequence of images; the second is computed from the
`saved` files of the pipeline.

**ControlConnection**: one TCP connection with requests one way, and answers
and interleaved frames the other.  The caller goes through DESCRIBE, SETUP,
PLAY and TEARDOWN, repeating what failed, and reads packets; the keep-alive
sends its request beside it, without a lock, as in the code.  A request is
three steps: the call (`Begin`), the write (`Send`), the answer.  `c.cseq` is
left out, since nothing in an answer is compared with it.  `readResponse` takes
the first answer there is, whoever asked for it, and throws away any number of units behind it (`Swallow`: the `bufio.Reader`
that is dropped); frames in front of the answer are read as its first line, and
the answer may be lost by that (`MisreadsAnswer`).  `ReadFrame` is a read of the
header and a read of the payload.  Bytes are cut between header and payload only;
a cut elsewhere leaves the same thing, bytes with no header in front.  Where
`ReadFrame` is out of step (`OutOfStep`) it takes four bytes of whatever is there,
of one unit or of two (`MisreadsHeader`): without a `$` that is an error, with one
it is the header of any channel and length, and what is read for it
(`ReadsOtherPayload`) may end inside a unit, swallow frames and answers, and is
handed out as a packet or does not parse.  The
server answers in order, late or never, with success, 401 or a refusal, names
the session in its answer to SETUP, and sends RTP and RTCP frames while it
plays.

**ClientLifecycle**: the caller, a goroutine for each `StartKeepAlive`, and the
goroutine of `AutoReconnect`.  `Close`, `ReadPacket` and `ReadInterleavedPacket` check
`c.conn` in one step and use it in another.  A socket and a stop channel are numbers and 0 is
nil.  Each use of `c.conn` is a step that reads the field again, and a use of
nil is a panic.  A `select` evaluates its channels when it is entered
(`EntersSelect`) and leaves by any case that is ready.  Answers and failures are
free choices; a ticker may fire whenever the goroutine waits.

**TimestampMapper**: the last sender report, of whatever sender, and the
conversion.  `(rtpDiff << 32) / clockRate` in an int64 keeps the low 32 bits of
the difference with a sign; `T` is 2^32 in the code.  The wall clock counts
ticks of the RTP clock, so the fraction bits of an NTP timestamp are abstracted.

**FrameStorage**: `SetSPSPPS` takes no lock, may be called by two goroutines
at once, and is modelled step by step: store SPS, store PPS, look for a
decoder, start one, assign it.  A parameter set and a decoder have the number
of the call they come from.  The methods under `s.mu` (`SaveFrame`,
`UpdateTimestampMapping`, `EnableContinuousDecoder`, `Close`) are one step each,
`SavesImage` is the saver goroutine, which names an image long after its frame.
A start may fail before or after the process runs.  The history knows for each
call whether it gave both parameter sets and ran alone, for each file the frame
it holds and after how many reports it was named, and whether the report in force
then was of its own sender and near.

**Session**: the caller (DESCRIBE, SETUP, PLAY, TEARDOWN), the keep-alive
(OPTIONS, GET_PARAMETER) and the goroutine of `AutoReconnect` (`HealthCheck`,
`Reconnect`, `RecoverSession`) with credentials on one client.  A request is a
record: built in one step (`Sends`), answered in another.  `Count` and
`TakesChallenge` are the nonce count and the challenge, which nobody guards, so
that two requests under way may carry the same count.  A call may fail at any
time and for any reason the code has: no answer it can read, because the deadline
passed, a frame was in front of it, it does not parse or the connection went
(`GetsNoAnswer`), or a status other than 200 and 401 (`Refused`).  The
server may have done what was asked, or not, or not have got it (`Unheard`).
So `HealthCheck` may fail whenever it is made.  The server is one of
three schemes, asks for credentials for no method, all or all but OPTIONS, takes
no count twice, may change its nonce, forget its sessions with the connection,
and either joins a SETUP without a session to the old one or opens a new one.
`Again` is the repetition after 401, with the channels 0-1 for SETUP.

**SessionClock**: ticks of the keep-alive, silence as the server sees it, the
timeout each SETUP announces.  `StartKeepAlive` computes the interval once.
Time does not pass a tick or the end of the session.

**RetryBackoff**: defaults, delays and the loop's sleeps, in integers of int64's
width (`Word` is 2^63 in the code).  **Packets**: `ParsePacket` and
`ParseRTCPPacket` over octets; the arithmetic on uint16 wraps as in the code.
**Config**: `setDefaults`, `merge`, the search for the YAML argument, the flags
and `Validate`, for four settings with a value and three switches.  **Sdp**:
`parseSDPInfo` over lines, with URLs that are absolute or a path to append.

## 3. Runs and bounds

| Run | Bounds | Shows |
|---|---|---|
| `numbers` | M = T = 16, Word = 1024; see below | the stateless modules against reference definitions |
| `session_clock` | units of 2 s; timeouts 0 to 64 s, 2 SETUPs, 1 lost keep-alive | see below |
| `jitter_buffer` | M = 16, capacity 3, 4 packets from number 14, 1 duplicate | see below |
| `h264_decoder` | M = 16, loss limit 2, three streams of 5 packets, 1 repetition | see below |
| `continuous_decoder` | queues 1, metadata 2, pipes 1, stderr 1, 3 frames, ffmpeg may die | see below |
| `client_lifecycle` | 2 retries, 2 keep-alive goroutines, 3 dials | see below |
| `client_lifecycle_live` | 2 retries, 1 keep-alive goroutine, 2 dials | `Close` ends every goroutine |
| `control_connection` | 4 requests, 2 frames, 3 packets, credentials | see below |
| `frame_storage` | T = 6, ticks 1, 5 and 7, two setters, 4 calls | see below |
| `session` | 2 tracks, 4 calls, 1 change of nonce, 1 lost connection | see below |
| `cd_stop_ends`, `cc_never_misframed` | as above, or smaller | a counterexample each, section 6 |

*Numbers.*  A state is one question.  `OneCircle`: distance and both packages'
orders are those of a circle, for every pair, and round the circle.
`MapsExactly`: a packet less than half a turn from the report, on either side of
the wraparound, gets its true time, and others are wrong by full turns only;
reports and packets over three turns.  `BackoffBounded`: the sleeps grow by
doubling up to the maximum, for settings at, below and above the defaults,
unless the doubled delay reaches 2^63, where the cap is lost (`recovery.go:174`).
`WireRoundTrip`: what a sender writes by RFC 3550 is what the parsers read, with
fields at both ends of their ranges, up to 15 contributing sources, padding, and
packets cut at and around the header; excused are the second block of a receiver
report and SDES chunks behind one filled up with more than one zero.
`ConfigPriority`: up to three items on the command line, in every order and both
spellings, with five files; the reference (`Meant`, `Heeded`) spells out that
switches on by default cannot be turned off, that `verbose` in a file does not
raise the level, and that a file name behind a flag is missed.  `SdpSections`: up
to four lines in every order, malformed `m=` lines included, against a
definition that looks at a section as a whole.

*Session clock.*  `SessionKept`: under a running keep-alive a session ends only
when its timeout is 10 s or less, when the timeout was another one as the
interval was computed, or when a late start and lost keep-alives fill the
timeout.  The timeouts lie on both sides of both bounds of the interval.

*Jitter buffer.*  `CapacityKept`; `Conservation` (accepted packets are buffered,
handed out or dropped; this is what makes the code's test `packetsReceived ==
len(packets)` mean "nothing taken yet"); `SkipsAreCounted` (the loss
counter has grown by the packets between the first one handed out and the reader's
place that were not handed out, each once, also when a skip is repeated while a
packet waits; exactly, as long as the reader is never sent back.  A
late packet or a copy sends it back, and each time the counter is a whole circle
too high from then on: section 6); `InOrderWithoutLoss`;
`GapsAreMissing` (`DetectGaps` is exact across the wraparound); `Drains` (a
polling reader empties the buffer, unless the lowest number is 0).  Four packets
from 14 on a circle of 16 put the wraparound in the middle; a capacity of three
overflows; with one duplicate a packet can come back after it was handed out.

*H.264 decoder.*  `OneStream` (a frame with its SPS and PPS is made of one
sender's packets although old packets come late and timestamps and numbers of
the two senders coincide); `UsedOnce`; `CorruptionIsMarked` (no unmarked frame has
a hole below the limit or a torn fragment); `FramesIntact` (an undisturbed stream
gives every frame, complete, unmarked and in order); `KeyFramesCarryParameters`;
and the action property `LossEventsAreGaps` (1 to `LossLimit - 1` packets missing
are a loss event, and `LossLimit` are not, as in the code and against its comment).
`KeyFramesCarryParameters` speaks of a frame after one that came out with both
sets; sets that were cached from a frame then dropped as corrupted are outside it.
The streams are: one sender across the wraparound with aggregates, fragments
and a key frame without parameter sets; a frame long enough to miss
`LossLimit` packets in a row and the next frame; and a sender that restarts in
the middle of a frame.  Five packets are two frames and the hole between, which
is what the code distinguishes.  `LossLimit` is 2 instead of 100 and `M` is 16
instead of 65536, so a hole at the limit and the wraparound fit in five packets.

*Continuous decoder.*  `EveryFrameAccountedFor` (on its way, saved, or lost at a
place the code names, and in one of these only); `NamedRightUntilDisturbed` (an
image is saved under its own metadata until a metadata entry was refused, a
write failed, a frame gave no image, or an image was dropped);
`PanicOnlyInShutdown`; `InOrder` (the pipeline implements `OrderedDelivery`);
`FrameGetsThrough` (without Stop every accepted frame becomes an image or is lost
where the code says so, unless ffmpeg is stuck with a complaint nobody reads,
`storage.go:166`).  Queues of one are the smallest that can be full and empty;
three frames fill queue, pipe and hand at once.

*Client.*  `OneSocket`; `RunningIsTrue` (`IsKeepAliveRunning` is true exactly when
one goroutine that was not stopped runs, until a stop comes while the goroutine is
busy); `PanicNeedsReconnect` and `LeakNeedsReconnect` (without `AutoReconnect`
neither a nil connection is used after a Connect nor a socket left open after
Close).  Two starts let a second goroutine meet a first one that missed its
stop; three dials are a connect and two reconnections.

*Connection.*  While no two goroutines use it at once and no request has ended
without an answer: `OwnAnswers` (the answer taken is to the request just sent,
although no CSeq is compared) and `Truthful` (what succeeded was granted, and a
SETUP that succeeded left a session).  While no two use it at once,
`PacketsInOrder`: deadlines and failed requests included, what is handed out is a
payload the server sent until the reader is out of step; after that it may be
anything, and the payloads among it still come in the order sent, none twice.
Always: `FramesAccountedFor` (no frame is delivered twice) and
`MisframedNeedsCause`.  Four requests are a session and one more: a repetition
after 401, a keep-alive, a retry of a request that timed out, or TEARDOWN.
Two frames can be one RTP and one RTCP, or one read and one read ahead.  Three
packets (`MaxPackets`) leave room for one made of garbage beside both frames.  A fifth
request does not finish in reasonable time.

*Frame storage.*  `OrphansHaveCause` (an ffmpeg process is the decoder's, about
to be, or left behind by a start that failed half way or by a call of
`SetSPSPPS` that something ran into); `PairsWhole` (an ffmpeg gets parameter sets
of two descriptions only when the later call lacked one, had one that cannot be
decoded, or was not alone); `FilesOfAFrameAgree` (the
`.h264` and the `.jpg` of a frame carry different times only when a report
was taken between them and one of the two was named before any report, by another
sender's or by one half a turn or more away; two frames share a name
only when their timestamps are the same and one of the names came about like
that).  `OneCircle` and `MapsExactly` are about the arithmetic; this is about the
mapping that moves while the image is on its way.  Ticks 1 and 7 have the
same RTP timestamp; 5 is near 7 and far from 1.  Four calls are two descriptions,
a report and a frame, or two overlapping descriptions with a Close and a frame.

*Session.*  `RefusedHasCause` (a repeated request is refused only when the server
changed its nonce since, or another goroutine was busy); `ChannelsApart` (while
the server keeps its first nonce no two tracks of a session share a channel: a
SETUP repeated after 401 asks for 0-1, and the credentials that
`Setup` sends itself keep that to the first track); `ResumesHaveCause` (the PLAY of
`RecoverSession`, which is not repeated after 401, is refused for its credentials
only when the server changed its nonce or calls were under way together).  Four calls are DESCRIBE, two SETUPs and a health check, whatever
makes it fail, or DESCRIBE, SETUP, a failed check and the PLAY that resumes, or
a keep-alive beside a request; a fifth does not finish in reasonable time.

Deadlock is checked for the jitter buffer and the H.264 decoder, which must
always accept another call.  The other models may stop: after `Stop` or `Close`
has returned, after a panic, when a session has expired, or when the bound on
calls is reached, nothing need happen; a question of `numbers` leads nowhere.

## 4. Fairness

`Spec` has none.  `FairSpec` adds what follows, and no more.

- *Goroutines that can run do run* (`WF` per goroutine): the Go scheduler is
  preemptive.
- *`select` chooses at random* among ready cases, so one that is ready again and
  again is chosen at last (`SF` for `SeesStop` and `SeesCancel`).  With `WF` only,
  a ticker could win for ever.
- *A request ends*: every read has a deadline (`client.go`, ten seconds).
- *A `Stop` or `Close` that has begun is carried on*; nobody is obliged to begin
  one, to feed a frame or to fire a ticker.
- *ffmpeg keeps working* while it has input and room for output; it need not die.
- *The jitter buffer's reader polls and time passes*; packets need not arrive.

## 5. What is proved

For every value of the constants that the modules' assumptions allow:

| Module | Theorems | Argument |
|---|---|---|
| `JitterBufferProofs`, arithmetic | `DiffWalks`, `CompareIsCircular`, `OrdersAgree` | linear arithmetic over an even circle; the assumption is `MAssumption` |
| `JitterBufferProofs`, buffer | `BufferTypes`, `BufferBounded`, `BufferConserves`, `BufferCountsSkips`, `BufferKeepsOrder`, `GapsAreExact` | one inductive invariant that joins the first three; conservation needs that the map is finite.  For the skips, every packet is under its own number (`Keyed`), the number expected is that of a place in the stream (`PlaceKnown`), and that place, the packets handed out and the times the reader was sent back make up the counter (`Counted`); until it is sent back what it was given rises and lies before that place (`Rising`).  `InOrderWithoutLoss` speaks of what was handed out and the code of the number it expects, so `OrderInv` adds that without a loss this is the number after the last packet handed out.  `GapsAreMissing` follows from the types and `Keyed`: sorted by the circular order the buffer is sorted by place in the stream, and neighbours are joined through the least missing packet |
| `H264DecoderProofs` | `DecoderTypes`, `DecoderOneStream`, `DecoderUsesOnce`, `DecoderMarksCorruption`, `DecoderKeepsParameters`, `DecoderSeesLoss`, `DecoderIsFaithful` | each property speaks of the frames returned and needs a conjunct on what is still in the map: one sender there and in the cache (`OwnStream`), nothing there that was used (`Fresh`), every short gap flagged there (`GapsFlagged`), the cache filled and of the right kind (`CacheHolds`, `Remembered`).  For loss events, the decoder remembers the last packet (`Tracked`).  `DecoderIsFaithful` rests on `Smooth`: what is in the map is all that was sent of its frames, what is not there was ended by a marker, and the frames made are those with a marker |
| `ContinuousDecoderProofs` | `PipelineTypeOK`, `PanicsOnlyInShutdown`, `ImplementsDelivery`, `FramesAreAccountedFor`, `NamesAreRight` | one classification of the steps: behind the feeder a step moves a frame on, cuts a piece out and loses it, or saves the first frame (`Kept`, `Dropped`, `Emitted`).  From it: the pipeline is rising and all of it later than what was saved (`OrderInv`), which makes each step one of `OrderedDelivery` or a stutter; what is lost is no longer on its way (`AccountInv`), without which a second loss would not be counted; and the metadata queue is a copy of what is being converted (`MetaInv`) |
| `ControlConnectionProofs` | `ConnectionTypeOK`, `AnswersAreOwn`, `SuccessIsTruthful`, `EachFrameInOnePlace`, `PacketsAreInOrder`, `MisframingHasCause` | while undisturbed at most one request or answer is under way and somebody waits for it (`Outstanding`): `OwnAnswers` alone says nothing of an answer on the wire.  The frames have a classification of their own (`FrameStep`); those on the wire rise, the one in hand is before them and the packets before that (`Rising`, `Placed`), also when a false header swallows some of them, because every read cuts off a beginning of the wire (`Cut`).  A header is followed by its payload and a payload has its header unless something named was thrown away (`Bodies`, `Whole`, `Framed`), so what is handed out is whole until the reader is out of step |
| `FrameStorageProofs`, mapper | `MappedNear`, `MappedExactly` | the remainder and the sign of a 32-bit difference, by cases on the half turn; the assumption is that `T` is even |
| `FrameStorageProofs`, storage | `StorageTypeOK`, `ProcessesAccountedFor`, `PairsAreWhole`, `FilesAgree` | setters busy together are in different, disturbed calls (`CallsApart`); one that found no decoder finds one later only if disturbed (`CheckedOrDisturbed`); a call still whole is the last to begin and has stored what it has come past (`WholeCalls`); the mapping of the video sender is the report of a tick, and files of one frame named under the same report have one name (`SameReportSameTime` in `NamesInv`), with `MappedExactly` |
| `SessionProofs` | `SessionTypeOK`, `RefusalsHaveCause`, `TracksApart`, `ResumesRefusedForCause` | a request alone has idle goroutines beside it (`AloneIsAlone`), so what it was built from is still the client's: the challenge it was told, whose counts nobody used (`RetryInv`), the session (`RecoveryInv`).  For the channels, a server that asks for credentials has asked before there is a second track (`Guarded`), so a SETUP for it carries them (`Credited`) and is repeated only under a new nonce (`ChannelsInv`).  For the resume, until calls overlap the counts the server has seen are below the client's (`CountInv`).  `TracksApart` assumes `Tracks <= 128`: with more the octet wraps and the property is false |
| `NumbersProofs`, circle and mapper | `NumbersOnOneCircle`, `NumbersMapExactly` | a question stays the one asked, but for two numbers that move on together (`QuestionInv`); then arithmetic over an even circle |
| `NumbersProofs`, back-off | `NumbersSleepsBounded`, `NumbersBackoffBounded` | the power of two unrolled and growing, so that a delay below `Word` is the product the reference speaks of |
| `NumbersProofs`, wire | `NumbersReadRtp`, `NumbersReadRtcp`, `NumbersWireRoundTrip` | pieces one behind the other: where each begins in the octets, and that what is behind it leaves it alone (`Begins`, `Holds`, `Piece`).  Items and chunks of a source description are read by recursion on the offset, unrolled from the end |
| `NumbersProofs`, SDP | `NumbersReadSections`, `NumbersSdpSections` | after k lines the parser has the finished sections, the open one and the aggregate control of the lines up to k (`After`); one lemma for each kind of line, and one for the end of a section |
| `NumbersProofs`, configuration | `NumbersHeedConfig`, `NumbersConfigPriority` | where each item's arguments stand (`LaidOut`), also without the file name (`KeptLaid`); from the last item to the first, what `flag.Parse` makes of the arguments from there on is the flags of the items (`ItemsParsed`); then defaults, file and flags case by case |
| `NumbersProofs`, keep-alive | `ClockTypes`, `ClockKeepsSession` | silence plus the time to the next tick never exceeds the interval plus what was late or lost (`SilenceBounded`), and an expired session was silent for its timeout (`ExpiredInTime`); `SessionKept` alone says nothing before the end |
| `ClientLifecycleProofs` | `LifecycleTypes`, `LifecycleOneSocket`, `LifecyclePanics`, `LifecycleRunning`, `LifecycleLeaks` | types with the retry bound and where a goroutine can be; `c.conn` is nil after a dial only if the recoverer was started; for `RunningIsTrue`, that before an overtaken stop only the goroutine of the current channel runs unstopped; for `LeakNeedsReconnect`, that without a recoverer nothing is open once `Close` has come past its hang-up (`HungUp`) |

The assumptions are the named `ASSUME`s of the modules, which TLC evaluates in
the runs.  `StreamOK` in `H264Decoder` asks that one sender's packets have
consecutive numbers, fewer than half the circle, and that parameter sets are
not fragmented (the code caches only the first byte of a fragmented one).

Two theorems on the decoder have a hypothesis about what is sent, because
without it the property is false of the code.  `DecoderSeesLoss` assumes
`InTurn`: a sender that comes back after another is a change of SSRC, for which
the decoder starts its numbers afresh and sees no loss.  `DecoderIsFaithful` assumes
`WellSent`: senders take turns, a frame's packets follow each other and a marker
is on the last one only, a fragment follows its start, and in a frame that ends
with a marker each start has its end.  A stream
that uses a timestamp for two frames, or tears a NAL unit itself, comes out merged,
split or marked.  `MCH264Decoder` assumes `WellSent` of its streams, so TLC checks that the
hypotheses are met where it checks the properties.  The streams may still lose
any packet and the sender may change in the middle of a frame.

The theorems on the stateless algorithms that have no `Spec` in them speak of
all inputs of a kind, not of the questions a run asks, and the kind is a
hypothesis:

- `NumbersReadRtp`: `RtpPacket`, up to 15 contributing sources, any extension and
  padding the fields have room for, any payload, cut anywhere.
- `NumbersReadRtcp`: `RtcpPacket`, up to 31 blocks, chunks or sources, with items and
  reasons of any length; a source description without chunks needs four octets
  behind it.  The exceptions are those of `RtcpRead`: only the first block of a
  receiver report is kept, and chunks behind one filled up with more than one zero
  are misread.
- `NumbersReadSections`: `SdpLinesOf`, any number of lines in any order, controls
  that are absolute, `*` or one name, and `fmtp` lines that set the same
  parameters, since the parser adds up what the reference takes from the last one;
  the base is an absolute URL.
- `NumbersSleepsBounded`: `RetryConfigs`, positive entries, which
  `NewRetryConfig` makes (`ConfigPositive`).
- `NumbersHeedConfig`: `ConfigItemsOf` and `ConfigFile`, any list of settings in any
  order and notation, each once, with values that `flag.Parse` accepts, and any
  file, whose level may be known, unknown or empty (the word "negative" stands for a
  timeout and is not a URL or a directory).  Items given twice are left out, because the reference does not say which
  one a user means.

The questions of the run meet these hypotheses, which is part of each proof
(`PacketsAsked`, `ItemsMeant`, `FilesAsked` and so on), so the hypotheses are not empty.

Every invariant and every action property that a run checks is thus proved.
Model-checked only are the liveness properties (`Drains`, `FrameGetsThrough`,
`CloseEndsGoroutines`), which TLAPS does not reach, and what the runs of section 6
find violated.

The library's induction rules take an operator as a parameter, which the installed
provers cannot instantiate.  The proofs use sets in place of predicates: `LeastOf`
takes a minimum from `WFMin` and the well-foundedness of strict inclusion among
finite sets, and `SetInduction` says that a set of numbers that has 0 and the
successor of each member has all numbers.  Recursive functions are shown to exist
before they are unrolled, because a `CHOOSE` that defines a function says nothing
until some function fits: by `Recursion` (step by step, as in `FlattenSeq`, the
power of two and the chunks of a description), by `Downwards` (from the end of the
input, as in the items of a chunk and the flags), or by a function that is shown to
fit (`After`).

## 6. Where code and documentation part

Two runs state what a comment or document says and find a behaviour of the code
that does otherwise.

| Run | Says | Does |
|---|---|---|
| `cd_stop_ends` | `storage.go:527`, stops the decoder | `receiveFrames` leaves when `running` is false, ffmpeg waits for a reader, `cmd.Wait` for ffmpeg, with `FrameStorage`'s mutex held |
| `cc_never_misframed` | `interleaved.go:63`, reads a single frame | frames behind the answer to PLAY are read ahead and dropped, and `ReadFrame` starts in the middle of one |

The models show more of them.  No run is spent where a property that holds says
the same from the other side, by the condition it needs:

| Condition of | Says, or where | Does |
|---|---|---|
| `NamedRightUntilDisturbed` | `storage.go:343`, sequential matching | one frame without an image shifts all later images to an earlier timestamp |
| `RunningIsTrue` | `keepalive.go:214`, stops the goroutine | a goroutine busy with a request misses its stop and reads another channel, or nil, afterwards |
| `PanicNeedsReconnect` | "never crashes from network issues" | `c.conn` is nil while `Reconnect` dials, under `ReadPacket` and the keep-alive |
| `LeakNeedsReconnect` | `client.go:479`, closes all connections | a dial that ends after `Close` leaves a socket open |
| `PanicOnlyInShutdown` | `.docs/PROJECT_SUMMARY.md:14`, graceful shutdown | `Stop` closes channels that `feedFrames` and `receiveFrames` still send on (`storage.go:463`) |
| `InOrderWithoutLoss` | `jitter.go:100`, next packet in sequence | a packet that comes after its number was skipped is handed out after its successors |
| `Drains` | `jitter.go:142`, delay only with several packets | a lone packet numbered 0 is withheld for ever when another number is expected |
| `OwnAnswers` | `client.go:590`, reads an answer | after a timeout the late answer is taken for the next one |
| `ResumesHaveCause` | `recovery.go:196`, resumes PLAY with the existing session | a 401 to that PLAY is not answered with credentials, as other requests' is, so a new nonce ends the resume |
| `ChannelsApart` | `client.go:194`, each track gets two channels | a SETUP repeated after 401 asks for 0-1 (`client.go:1094`), so once the server changes its nonce a later track does |
| `SkipsAreCounted` | `jitter.go:130`, `lostCount` of skipped packets | when the next packet found is behind the number expected, late or a copy, the count wraps: nearly a whole circle is counted as lost, numbers already handed out among it, and the reader goes back |
| `LossEventsAreGaps` | `h264.go:556` and `.docs/PACKET_LOSS_AND_CORRUPTED_FRAMES.md:189`, a gap of 1-100 is packet loss | `gap < 100`: 99 missing packets are a loss event, 100 are not (`h264.go:558`) |
| `FilesOfAFrameAgree` | `storage.go:964` and `:989`, the `.h264` and the `.jpg` carry the NTP and the RTP timestamp of the frame | a report taken before the image is named, of any sender (`rtcp.go:383`), gives the two files of a frame different names |
| `PacketsInOrder` | `interleaved.go:63`, reads a single frame | out of step, any `$` where four bytes are read is taken for a header, and what follows is handed out as a packet |
| `RefusedHasCause` | `client.go:994`, counts by nonce | overlapping requests can carry one count, and the second is refused |
| `SessionKept` | `keepalive.go:41`, minimum 10 seconds | a session of 10 s or less always expires |
| `OrphansHaveCause` | `storage.go:763`, falls back to frame by frame | the ffmpeg whose start failed half way keeps running |
| `BackoffBounded` | `recovery.go:171`, calculates the delay up to a maximum | an overflow makes the delay negative or zero |
| `ConfigPriority` | `config.go:208`, false means frame by frame | `setDefaults` turns the switch on again (`config.go:257`) |
| `WireRoundTrip` | `rtcp.go:282`, parses SDES | zeros that fill a chunk are read as the next chunk; of a receiver report's blocks one is kept |

Two remarks on the H.264 decoder and the jitter buffer: `ProcessPacket` "returns
a frame if complete" (`h264.go:97`), except when it returns an older one, and
`dropOldestPacket` goes by arrival, not by the number its comment names
(`jitter.go:242`).

Some properties name a defect of the code among their conditions and so show what
holds beside it, not the defect: the overflowing delay in `BackoffBounded`; the short
timeouts and changed intervals in `SessionKept`; the overtaken stop in
`RunningIsTrue`; overlapping nonce counts in `RefusedHasCause`; answers that come
after a timeout in `OwnAnswers` and `Truthful`; the closed channels in
`PanicOnlyInShutdown`.

## 7. What is not modelled

- *Errors and redirects* (`errors.go`): nothing under `pkg` or `internal` calls
  `HandleErrorResponse` or `HandleRedirect`; the rest is a table of names.
- *UDP transport.*  All views of the client are in TCP mode.
- *Servers that ask for credentials for SETUP but not for DESCRIBE*, and sessions
  that a server opens in answer to a SETUP nobody hears of.  A server that takes up
  a request only after the client has given it up is in `ControlConnection`, not in
  `Session`.
- *Digests and the text of headers*: hashes, quoting, URLs with credentials.
- *The channel demultiplexer, `WriteFrame` and `ParseInterleavedFrame`*: the
  client does not use them.  The last one computes `4+length` in 16 bits.
- *ffmpeg's own work*: which frames it can decode is a free choice.
- *Loss fraction and interarrival jitter* of `rtcp.go`: called by tests only.
- *Statistics* (`GetStatistics`, `GetStats`, the jitter average, the recovery
  metrics): nothing reads them but the caller.  Counters that decide something
  (`packetsReceived`, `packetsLost`) are modelled.
- *Logger, mock server, test helpers*: no state a property would be about.
- *Data races* on fields other than `c.conn`, `c.keepAliveStop` and the nonce
  count.  A torn read of `c.session` or of a parameter set is not modelled.
- *A BYE without a reason with another RTCP packet behind it*: `Packets` has the
  offsets, `numbers` does not ask.
- *Time to the second*: the jitter buffer, the decoder and the recovery know
  only what comes first; `SessionClock` is the one model with a clock.

## 8. Plan

Done: every module of section 2, with the proofs of section 5.  What would come
next:

1. The loss fraction and the interarrival jitter of `rtcp.go`, once the client
   uses them, with the theorems on octets ready.
2. A connection on which every answer meets its request, as a specification of
   its own, implemented by `ControlConnection` while `Undisturbed` and put under
   `Session`.
3. `OrderedDelivery` for the packets of `ControlConnection`, from `Rising`.
4. UDP transport: two sockets, and RTCP beside RTP without a common order.
