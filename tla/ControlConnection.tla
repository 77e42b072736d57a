-------------------------- MODULE ControlConnection --------------------------
(***************************************************************************)
(* pkg/rtsp in TCP mode: requests, answers and interleaved frames on one   *)
(* connection (client.go, keepalive.go, interleaved.go).  Two goroutines   *)
(* use it without a lock: the caller, which sets the session up and reads  *)
(* packets, and the keep-alive, which sends a request now and then.  (The  *)
(* health check of AutoReconnect would be a third; see ClientLifecycle.)   *)
(*                                                                         *)
(* What the server sends is a sequence of units: an answer, the header of  *)
(* a frame, the payload of a frame.  readResponse makes a bufio.Reader of  *)
(* its own, which takes whatever has arrived and is thrown away with what  *)
(* it read ahead; it looks at no CSeq.  ReadFrame reads a header and then  *)
(* a payload.  Bytes are cut between units only: one cut in two leaves     *)
(* bytes that are neither a header nor an answer, as a payload without its *)
(* header does; where a header is looked for in them there may be a '$',   *)
(* and what follows it is then read as a frame.                            *)
(* Digests, tracks and channel numbers are not modelled here, nor is the   *)
(* replacement of the connection (see ClientLifecycle).                    *)
(***************************************************************************)
EXTENDS Naturals, Sequences, FiniteSets

CONSTANTS MaxRequests,       \* bound: requests begun, retries included
          MaxFrames,         \* bound: frames the server sends
          MaxPackets,        \* bound: no '$' is misread once as many are handed out
          hasCredentials     \* c.hasCredentials()

ASSUME ConnectionAssumption ==
  /\ MaxRequests \in Nat /\ MaxFrames \in Nat /\ MaxPackets \in Nat
  /\ hasCredentials \in BOOLEAN

VARIABLES
  session,                   \* c.session # ""
  at, request,               \* goroutines: where they are, what they asked
  hand,                      \* ReadFrame between header and payload
  inbox, wire,               \* the two directions of the connection
  served, streaming,         \* the server: what it granted, whether it plays
  begun, sent,               \* requests begun and frames sent so far
  believed,                  \* history: calls that returned no error
  taken,                     \* history: answers taken
  packets, lost,             \* history: frames handed out and thrown away
  overlapped, gaveUp, misframed      \* history: see Properties

client  == <<session, at, request, hand>>
server  == <<served, streaming>>
bounds  == <<begun, sent>>
calls   == <<believed, taken>>
frames  == <<packets, lost>>
trouble == <<overlapped, gaveUp, misframed>>
vars == <<client, inbox, wire, server, bounds, calls, frames, trouble>>

Goroutine == {"caller", "keeper"}
Setting   == {"DESCRIBE", "SETUP", "PLAY", "TEARDOWN"}     \* the caller's methods
Method    == Setting \cup {"OPTIONS"}
None      == 0

NoRequest == [id |-> None, method |-> "OPTIONS", again |-> FALSE]
NoFrame   == [frame |-> None, rtcp |-> FALSE, want |-> FALSE]

Answer(r, status) == [is |-> "answer", id |-> r.id, method |-> r.method,
                      status |-> status]
Head_(f, rtcp) == [is |-> "head", frame |-> f, rtcp |-> rtcp]
Body(f)        == [is |-> "body", frame |-> f]

Goes(g, where) == at' = [at EXCEPT ![g] = where]
From(s, k)     == SubSeq(s, k + 1, Len(s))

Init ==
  /\ session = FALSE
  /\ at = [g \in Goroutine |-> "idle"]
  /\ request = [g \in Goroutine |-> NoRequest]
  /\ hand = NoFrame
  /\ inbox = << >> /\ wire = << >>
  /\ served = {} /\ streaming = FALSE
  /\ begun = 0 /\ sent = 0
  /\ believed = {} /\ taken = {}
  /\ packets = << >> /\ lost = {}
  /\ overlapped = FALSE /\ gaveUp = FALSE /\ misframed = FALSE
-----------------------------------------------------------------------------
(* The server, which may answer late or never.                             *)

\* PLAY and TEARDOWN are granted only within a session; any request may be
\* answered by 401, also one with credentials (the nonce may be stale).
Serve(status) ==
  /\ inbox # << >>
  /\ LET r == Head(inbox)
     IN  /\ status = "ok" /\ r.method \in {"PLAY", "TEARDOWN"} => r.session
         /\ wire' = Append(wire, Answer(r, status))
         /\ served' = IF status = "ok" THEN served \cup {r.method} ELSE served
         /\ streaming' = IF status # "ok" THEN streaming
                         ELSE r.method = "PLAY"
                              \/ (streaming /\ r.method # "TEARDOWN")
  /\ inbox' = Tail(inbox)
  /\ UNCHANGED <<client, bounds, calls, frames, trouble>>

SendFrame(rtcp) ==
  /\ streaming /\ sent < MaxFrames
  /\ sent' = sent + 1
  /\ wire' = wire \o <<Head_(sent + 1, rtcp), Body(sent + 1)>>
  /\ UNCHANGED <<client, inbox, server, begun, calls, frames, trouble>>
-----------------------------------------------------------------------------
(* A request: buildRequest, then sendRequest, then readResponse.           *)

Busy(g) == at[g] # "idle"

Begin(g, method, again) ==
  /\ begun < MaxRequests
  /\ begun' = begun + 1
  /\ request' = [request EXCEPT ![g] =
                   [id |-> begun + 1, method |-> method, again |-> again]]
  /\ Goes(g, "send")
  /\ overlapped' = (overlapped \/ \E h \in Goroutine \ {g} : Busy(h))
  /\ UNCHANGED <<session, hand, inbox, wire, server, sent, calls, frames,
                 gaveUp, misframed>>

\* The caller goes through the methods in their order and repeats what failed.
Calls(method) ==
  /\ ~Busy("caller")
  /\ CASE method = "DESCRIBE" -> believed = {}
       [] method = "SETUP"    -> "DESCRIBE" \in believed /\ "PLAY" \notin believed
       [] method = "PLAY"     -> "SETUP" \in believed /\ "PLAY" \notin believed
       [] method = "TEARDOWN" -> "PLAY" \in believed /\ "TEARDOWN" \notin believed
  /\ Begin("caller", method, FALSE)

KeepAliveTicks == ~Busy("keeper") /\ Begin("keeper", "OPTIONS", FALSE)

RetryWithAuth(g) == at[g] = "again" /\ Begin(g, request[g].method, TRUE)

\* The request is built with the c.session of the moment; c.cseq is left out,
\* since nothing in an answer is compared with it.
Send(g) ==
  /\ at[g] = "send"
  /\ inbox' = Append(inbox, [id |-> request[g].id, method |-> request[g].method,
                             session |-> session])
  /\ Goes(g, "await")
  /\ UNCHANGED <<session, request, hand, wire, server, bounds, calls,
                 frames, trouble>>

SendFails(g) ==
  /\ at[g] = "send"
  /\ Goes(g, "idle")
  /\ UNCHANGED <<session, request, hand, inbox, wire, server, bounds,
                 calls, frames, trouble>>

\* The frames whose headers are among the first k units.
HeadsIn(k, where) == {[frame |-> wire[i].frame, at |-> where] :
                        i \in {j \in 1 .. k : wire[j].is = "head"}}

\* The first k units are read by a reader that is thrown away.
Swallow(k) ==
  /\ wire' = From(wire, k)
  /\ lost' = lost \cup HeadsIn(k, "readResponse")
  /\ UNCHANGED packets

AnswersIn(s) == {i \in DOMAIN s : s[i].is = "answer"}

\* Mutant: the status is not looked at.
TakesAnyStatus(g, a) ==
  /\ taken' = taken \cup {[asked |-> request[g].id, answered |-> a.id]}
  /\ Goes(g, "idle")
  /\ session' = (session \/ (request[g].method = "SETUP" /\ a.method = "SETUP"))
  /\ believed' = IF g = "caller" THEN believed \cup {request[g].method}
                 ELSE believed

\* What Describe, Setup, Play, Teardown, Options and GetParameter make of an
\* answer.  Setup alone looks at the Session header; Teardown does not repeat.
Takes(g, a) ==
  LET r == request[g]
      succeeds == a.status = "ok"
      repeats  == /\ a.status = "unauthorized" /\ hasCredentials
                  /\ ~r.again /\ r.method # "TEARDOWN"
  IN  /\ taken' = taken \cup {[asked |-> r.id, answered |-> a.id]}
      /\ Goes(g, IF repeats THEN "again" ELSE "idle")
      /\ session' = (session \/ (succeeds /\ r.method = "SETUP"
                                          /\ a.method = "SETUP"))
      /\ believed' = IF succeeds /\ g = "caller" THEN believed \cup {r.method}
                     ELSE believed

\* Mutant: the answer is left on the connection.
ReadsAnswerPeeks(g) ==
  /\ at[g] = "await" /\ AnswersIn(wire) # {}
  /\ \E n \in AnswersIn(wire) :
       /\ \A m \in AnswersIn(wire) : n <= m
       /\ Takes(g, wire[n])
  /\ UNCHANGED <<request, hand, inbox, wire, server, bounds,
                 frames, trouble>>

\* The first answer on the connection is taken, whoever asked for it; units
\* before it are read as part of it, and some behind it are read ahead.
ReadsAnswer(g) ==
  /\ at[g] = "await"
  /\ \E n \in AnswersIn(wire) :
       /\ \A m \in AnswersIn(wire) : n <= m
       /\ \E k \in n .. Len(wire) : Swallow(k)
       /\ Takes(g, wire[n])
  /\ UNCHANGED <<request, hand, inbox, server, bounds, trouble>>

\* Frames in front of the answer may also make it unreadable, or hold what
\* looks like its end.
MisreadsAnswer(g) ==
  /\ at[g] = "await"
  /\ wire # << >> /\ wire[1].is # "answer"
  /\ \E k \in DOMAIN wire : Swallow(k)
  /\ Goes(g, "idle")
  /\ gaveUp' = TRUE
  /\ UNCHANGED <<session, request, hand, inbox, server, bounds, calls,
                 overlapped, misframed>>

\* The deadline; what has arrived so far is gone.
AnswerTimesOut(g) ==
  /\ at[g] = "await"
  /\ \E k \in 0 .. Len(wire) :
       /\ \A n \in AnswersIn(wire) : k < n
       /\ Swallow(k)
  /\ Goes(g, "idle")
  /\ gaveUp' = TRUE
  /\ UNCHANGED <<session, request, hand, inbox, server, bounds, calls,
                 overlapped, misframed>>
-----------------------------------------------------------------------------
(* ReadPacket and ReadRTCP: frames until one is of the channel wanted.     *)

ReadFrames(rtcp) ==
  /\ ~Busy("caller") /\ "PLAY" \in believed
  /\ hand' = [frame |-> None, rtcp |-> FALSE, want |-> rtcp]
  /\ Goes("caller", "header")
  /\ overlapped' = (overlapped \/ Busy("keeper"))
  /\ UNCHANGED <<session, request, inbox, wire, server, bounds, calls,
                 frames, gaveUp, misframed>>

ReadsHeader ==
  /\ at["caller"] = "header"
  /\ wire # << >> /\ wire[1].is = "head"
  /\ hand' = [hand EXCEPT !.frame = wire[1].frame, !.rtcp = wire[1].rtcp]
  /\ wire' = Tail(wire)
  /\ Goes("caller", "payload")
  /\ UNCHANGED <<session, request, inbox, server, bounds, calls, frames,
                 trouble>>

InHand(where) == {[frame |-> f, at |-> where] : f \in {hand.frame} \ {None}}
Loses(these)  == lost' = lost \cup these

\* The first k units are gone, but for what may be left of the last of them.
CutsInto(k) == \E rest \in {<< >>, <<Body(None)>>} : wire' = rest \o From(wire, k)

\* Four bytes of something else are gone, of one unit or of two, and an answer
\* may still be readable after that.  Without a '$' in front of them that is
\* "missing $ prefix"; with one, in the midst of a payload or of an answer,
\* they are the header of some channel and length.
MisreadsHeader ==
  /\ at["caller"] = "header"
  /\ wire # << >> /\ wire[1].is # "head"
  /\ \/ UNCHANGED <<wire, lost>>
     \/ \E k \in 1 .. 2 :
          k <= Len(wire) /\ CutsInto(k) /\ Loses(HeadsIn(k, "misread"))
  /\ \/ Goes("caller", "idle") /\ UNCHANGED hand
     \/ /\ wire[1].is = "body" /\ Len(packets) < MaxPackets
        /\ \E rtcp \in BOOLEAN : hand' = [hand EXCEPT !.frame = None, !.rtcp = rtcp]
        /\ Goes("caller", "payload")
  /\ misframed' = TRUE
  /\ UNCHANGED <<session, request, inbox, server, bounds, calls,
                 packets, overlapped, gaveUp>>

Hands(whole)  == packets' = Append(packets, [frame |-> hand.frame, whole |-> whole])

\* Mutant: a frame that is not wanted is handed out and the reading goes on.
DeliversBoth(whole, gone) ==
  /\ Hands(whole)
  /\ IF hand.rtcp = hand.want
     THEN Goes("caller", "idle") /\ Loses(gone)
     ELSE Goes("caller", "header") /\ Loses(gone \cup InHand("skipped"))

\* ReadPacket gives RTCP to its handler, ReadRTCP drops RTP, and both go on.
\* What is gone besides was part of the payload.
Delivers(whole, gone) ==
  /\ Goes("caller", IF hand.rtcp = hand.want THEN "idle" ELSE "header")
  /\ \/ /\ hand.rtcp \/ ~hand.want
        /\ Hands(whole) /\ Loses(gone)
     \/ /\ ~hand.rtcp /\ hand.want
        /\ Loses(gone \cup InHand("skipped"))
        /\ UNCHANGED packets

\* Not a packet: an error for RTP in ReadPacket; RTCP is logged and skipped.
Unparsable(gone) ==
  /\ hand.rtcp \/ ~hand.want
  /\ Goes("caller", IF hand.rtcp THEN "header" ELSE "idle")
  /\ Loses(gone \cup InHand("payload"))
  /\ UNCHANGED packets

\* Mutant: the payload of a frame that is not wanted is not read.
ReadsPayloadIfWanted ==
  /\ at["caller"] = "payload"
  /\ wire # << >> /\ wire[1] = Body(hand.frame)
  /\ wire' = IF hand.rtcp = hand.want THEN Tail(wire) ELSE wire
  /\ Delivers(TRUE, {})
  /\ UNCHANGED <<session, request, hand, inbox, server, bounds, calls,
                 trouble>>

ReadsPayload ==
  /\ at["caller"] = "payload" /\ hand.frame # None
  /\ wire # << >> /\ wire[1] = Body(hand.frame)
  /\ wire' = Tail(wire)
  /\ Delivers(TRUE, {})
  /\ UNCHANGED <<session, request, hand, inbox, server, bounds, calls,
                 trouble>>

\* The header was none, or the other goroutine has taken what belongs to it.
OutOfStep == hand.frame = None \/ (wire # << >> /\ wire[1] # Body(hand.frame))

\* Whatever is there, as many bytes as the header says, is the payload, and is
\* a packet or is not; none at all is no packet.
ReadsOtherPayload ==
  /\ at["caller"] = "payload" /\ OutOfStep
  /\ \E k \in 0 .. Len(wire) :
       /\ IF k = 0 THEN UNCHANGED wire ELSE CutsInto(k)
       /\ \/ /\ k > 0 \/ (wire # << >> /\ wire[1].is # "head")
             /\ Delivers(FALSE, HeadsIn(k, "payload"))
          \/ Unparsable(HeadsIn(k, "payload"))
  /\ UNCHANGED <<session, request, hand, inbox, server, bounds, calls,
                 trouble>>

\* Mutant: a payload cut by the deadline is handed out.
ReadTimesOutShort ==
  /\ at["caller"] = "payload"
  /\ Hands(FALSE)
  /\ Goes("caller", "idle")
  /\ UNCHANGED <<session, request, hand, inbox, wire, server, bounds,
                 calls, lost, trouble>>

\* The deadline, before a header, inside one, or between it and the payload;
\* what was read as part of another payload is gone.
ReadTimesOut ==
  /\ \/ at["caller"] = "header" /\ UNCHANGED <<wire, lost>>
     \/ /\ at["caller"] = "header"
        /\ wire # << >> /\ wire[1].is = "head"
        /\ wire' = Tail(wire)
        /\ lost' = lost \cup {[frame |-> wire[1].frame, at |-> "deadline"]}
     \/ /\ at["caller"] = "payload"
        /\ \E k \in {0} \cup {j \in DOMAIN wire : OutOfStep} :
             /\ wire' = From(wire, k)
             /\ Loses(HeadsIn(k, "deadline") \cup InHand("deadline"))
  /\ Goes("caller", "idle")
  /\ UNCHANGED <<session, request, hand, inbox, server, bounds, calls,
                 packets, trouble>>
-----------------------------------------------------------------------------
Server ==
  \/ \E status \in {"ok", "unauthorized", "refused"} : Serve(status)
  \/ \E rtcp \in BOOLEAN : SendFrame(rtcp)

Request(g) ==
  \/ RetryWithAuth(g) \/ Send(g) \/ SendFails(g)
  \/ ReadsAnswer(g) \/ MisreadsAnswer(g) \/ AnswerTimesOut(g)

ReadFrame ==
  \/ ReadsHeader \/ MisreadsHeader \/ ReadsPayload \/ ReadsOtherPayload
  \/ ReadTimesOut

Next ==
  \/ Server
  \/ \E method \in Setting : Calls(method)
  \/ KeepAliveTicks
  \/ \E g \in Goroutine : Request(g)
  \/ \E rtcp \in BOOLEAN : ReadFrames(rtcp)
  \/ ReadFrame

Spec == Init /\ [][Next]_vars
-----------------------------------------------------------------------------
(* Properties.  The documents say the client is for one goroutine, and its *)
(* own keep-alive is a second one: most properties are about what holds    *)
(* while no two of them use the connection at once (~overlapped) and no    *)
(* readResponse has ended without an answer (~gaveUp).                     *)

Undisturbed == ~overlapped /\ ~gaveUp

\* Types: ids name requests begun and frames sent, only the caller reads frames
\* (client.go:548, 300).
TypeOK ==
  /\ begun \in 0 .. MaxRequests /\ sent \in 0 .. MaxFrames
  /\ session \in BOOLEAN
  /\ \A g \in Goroutine :
       /\ at[g] \in {"idle", "send", "await", "again", "header", "payload"}
       /\ at[g] \in {"header", "payload"} => g = "caller"
       /\ request[g] \in [id : 0 .. begun, method : Method, again : BOOLEAN]
  /\ hand \in [frame : 0 .. sent, rtcp : BOOLEAN, want : BOOLEAN]
  /\ \A i \in DOMAIN inbox : inbox[i].id \in 1 .. begun
  /\ \A i \in DOMAIN wire :
       /\ wire[i].is \in {"answer", "head", "body"}
       /\ wire[i].is # "answer" => wire[i].frame \in 0 .. sent
       /\ wire[i].is = "answer" => wire[i].status \in {"ok", "unauthorized", "refused"}
  /\ served \subseteq Method /\ believed \subseteq Setting
  /\ taken \subseteq [asked : 1 .. begun, answered : 1 .. begun]
  /\ lost \subseteq [frame : 1 .. sent,
                     at : {"readResponse", "skipped", "misread", "payload", "deadline"}]

\* readResponse compares no CSeq: that the answer taken is the answer to the
\* request just sent rests on every earlier answer having been read, by the
\* goroutine that asked for it.
OwnAnswers ==
  Undisturbed => \A t \in taken : t.asked = t.answered

\* A call that returns no error was granted by the server, through a 401 and
\* its repetition too, and after SETUP there is a session.
Truthful ==
  Undisturbed => /\ believed \subseteq served
                 /\ "SETUP" \in believed => session

Places(f) ==
  Cardinality({i \in DOMAIN packets : packets[i].frame = f})
  + Cardinality({i \in DOMAIN wire : wire[i].is = "head" /\ wire[i].frame = f})
  + Cardinality({l \in lost : l.frame = f})
  + (IF at["caller"] = "payload" /\ hand.frame = f THEN 1 ELSE 0)

\* A frame the server sent is on its way, handed out, or lost at a place the
\* code names, and in one of these only: nothing is delivered twice, however
\* the readers interleave.
FramesAccountedFor == \A f \in 1 .. sent : Places(f) = 1

\* As long as one goroutine at a time uses the connection, ReadPacket and
\* ReadRTCP hand out payloads the server sent until they are out of step,
\* whatever deadlines have passed and however much was read ahead; once out of
\* step they may hand out anything, but the payloads among it are still in the
\* order sent and none comes twice.
PacketsInOrder ==
  ~overlapped =>
    /\ ~misframed => \A i \in DOMAIN packets : packets[i].whole
    /\ \A i, j \in DOMAIN packets :
         i < j /\ packets[i].whole /\ packets[j].whole
           => packets[i].frame < packets[j].frame

\* ReadFrame finds a '$' where it looks for one, unless a request failed, two
\* goroutines read at once, or a frame was cut by a deadline or a read-ahead:
\* skipping frames of the other kind keeps it in step.
MisframedNeedsCause ==
  misframed => \/ overlapped \/ gaveUp
               \/ \E l \in lost : l.at \in {"readResponse", "deadline"}

\* The comment of ReadFrame, "reads a single interleaved frame", for a client
\* that uses one goroutine and whose requests and reads meet no deadline.  It
\* does not hold: readResponse throws away what its reader read ahead, and
\* that may end between a header and its payload.
NeverMisframed ==
  Undisturbed /\ (\A l \in lost : l.at # "deadline") => ~misframed
=============================================================================
