----------------------- MODULE ControlConnectionProofs -----------------------
(***************************************************************************)
(* The connection shared by requests and interleaved frames, for any       *)
(* number of requests and frames.  Two arguments: an answer on its way     *)
(* belongs to the one request that waits, as long as nobody interferes;    *)
(* and a frame is in one place at a time, whoever reads.                   *)
(***************************************************************************)
EXTENDS ControlConnection, FiniteSetTheorems, SequenceTheorems, TLAPS

Status == {"ok", "unauthorized", "refused"}
Asked  == [id : 1 .. MaxRequests, method : Method, session : BOOLEAN]
Unit   == [is : {"answer"}, id : 1 .. MaxRequests, method : Method, status : Status]
            \cup [is : {"head"}, frame : 1 .. MaxFrames, rtcp : BOOLEAN]
            \cup [is : {"body"}, frame : 0 .. MaxFrames]
Packet == {d \in [frame : 0 .. MaxFrames, whole : BOOLEAN] : d.whole => d.frame # None}
Place  == {"readResponse", "skipped", "misread", "payload", "deadline"}
Loss   == [frame : 1 .. MaxFrames, at : Place]
State  == {"idle", "send", "await", "again", "header", "payload"}

\* The types of the variables as far as the constants give them.
Shapes ==
  /\ session \in BOOLEAN
  /\ at \in [Goroutine -> State]
  /\ request \in [Goroutine -> [id : 0 .. MaxRequests, method : Method, again : BOOLEAN]]
  /\ hand \in [frame : 0 .. MaxFrames, rtcp : BOOLEAN, want : BOOLEAN]
  /\ inbox \in Seq(Asked) /\ wire \in Seq(Unit)
  /\ served \subseteq Method
  /\ begun \in 0 .. MaxRequests /\ sent \in 0 .. MaxFrames
  /\ believed \subseteq Setting
  /\ taken \subseteq [asked : 1 .. MaxRequests, answered : 1 .. MaxRequests]
  /\ packets \in Seq(Packet)
  /\ lost \subseteq Loss

Asking(g) == at[g] \in {"send", "await", "again"}

\* Only the caller reads frames.
Roles ==
  /\ at["keeper"] \notin {"header", "payload"}
  /\ \A g \in Goroutine : Asking(g) => request[g].id # None
  /\ Asking("caller") => request["caller"].method \in Setting

\* Ids are those of requests begun, and frames those sent.
Issued ==
  /\ \A g \in Goroutine : request[g].id <= begun
  /\ \A i \in DOMAIN inbox : inbox[i].id <= begun
  /\ \A i \in DOMAIN wire : IF wire[i].is = "answer" THEN wire[i].id <= begun
                            ELSE wire[i].frame <= sent
  /\ \A t \in taken : t.asked <= begun /\ t.answered <= begun
  /\ \A l \in lost : l.frame <= sent
  /\ \A i \in DOMAIN packets : packets[i].frame <= sent
  /\ hand.frame <= sent
-----------------------------------------------------------------------------
(* What can happen to the wire.                                            *)

\* q is p without its first k units.
Behind(p, q, k) ==
  /\ k \in 0 .. Len(p) /\ Len(q) = Len(p) - k
  /\ \A i \in 1 .. Len(q) : q[i] = p[i + k]

\* The same, but something unreadable may be left of the last of the k: then
\* the units behind it have moved by one less.
CutBy(p, q, k, s) ==
  /\ s \in Nat /\ s \in {k, k - 1} /\ Len(q) = Len(p) - s
  /\ \A i \in 1 .. Len(q) : q[i] = IF k < i + s THEN p[i + s] ELSE Body(None)
Cut(p, q, k) == k \in 0 .. Len(p) /\ \E s \in {k, k - 1} : CutBy(p, q, k, s)

LEMMA FromIsBehind ==
  ASSUME NEW S, NEW s \in Seq(S), NEW k \in 0 .. Len(s)
  PROVE  From(s, k) \in Seq(S) /\ Behind(s, From(s, k), k)
<1>1. Len(s) \in Nat /\ \A i \in 1 .. Len(s) : s[i] \in S
  BY LenProperties, ElementOfSeq
<1>2. /\ k + 1 \in Int /\ Len(s) \in Int
      /\ \A i \in k + 1 .. Len(s) : s[i] \in S
  BY <1>1
<1>3. /\ From(s, k) \in Seq(S)
      /\ Len(From(s, k)) = IF k + 1 <= Len(s) THEN Len(s) - (k + 1) + 1 ELSE 0
      /\ \A i \in 1 .. Len(s) - (k + 1) + 1 : From(s, k)[i] = s[(k + 1) + i - 1]
  BY <1>2, SubSeqProperties DEF From
<1>4. Len(From(s, k)) = Len(s) - k  BY <1>1, <1>3
<1>5. ASSUME NEW i \in 1 .. Len(s) - k PROVE From(s, k)[i] = s[i + k]
  <2>1. i \in 1 .. Len(s) - (k + 1) + 1 /\ (k + 1) + i - 1 = i + k  BY <1>1
  <2> QED  BY <1>3, <2>1
<1> QED  BY <1>3, <1>4, <1>5 DEF Behind

LEMMA TailIsBehind ==
  ASSUME NEW S, NEW s \in Seq(S), s # << >>
  PROVE  /\ Tail(s) \in Seq(S) /\ Behind(s, Tail(s), 1)
         /\ 1 \in DOMAIN s /\ Head(s) = s[1] /\ s[1] \in S
<1>1. Len(s) \in Nat /\ DOMAIN s = 1 .. Len(s) /\ Len(s) # 0
  BY LenProperties, EmptySeq
<1>2. /\ Tail(s) \in Seq(S) /\ Len(Tail(s)) = Len(s) - 1 /\ Head(s) \in S /\ Head(s) = s[1]
      /\ \A i \in 1 .. Len(Tail(s)) : Tail(s)[i] = s[i + 1]
  BY HeadTailProperties
<1> QED  BY <1>1, <1>2 DEF Behind

LEMMA BehindIsCut ==
  ASSUME NEW S, NEW p \in Seq(S), NEW q \in Seq(S), NEW k, Behind(p, q, k)
  PROVE  Cut(p, q, k)
<1>1. Len(p) \in Nat /\ Len(q) \in Nat  BY LenProperties
<1>2. \A i \in 1 .. Len(q) : k < i + k  BY <1>1 DEF Behind
<1>3. CutBy(p, q, k, k)  BY <1>1, <1>2 DEF Behind, CutBy
<1> QED  BY <1>3 DEF Behind, Cut

LEMMA NothingCut ==
  ASSUME NEW S, NEW p \in Seq(S)
  PROVE  Cut(p, p, 0)
<1>1. Len(p) \in Nat  BY LenProperties
<1>2. Behind(p, p, 0)  BY <1>1 DEF Behind
<1> QED  BY <1>2, BehindIsCut

LEMMA UnitTypes ==
  ASSUME NEW u \in Unit
  PROVE  /\ u.is \in {"answer", "head", "body"}
         /\ u.is = "answer" => /\ u.id \in 1 .. MaxRequests /\ u.method \in Method
                               /\ u.status \in Status
         /\ u.is = "head" => u.frame \in 1 .. MaxFrames /\ u.rtcp \in BOOLEAN
         /\ u.is = "body" => u.frame \in 0 .. MaxFrames
BY DEF Unit

\* The first k units gone, whole or but for a rest.
LEMMA CutsIntoIsCut ==
  ASSUME wire \in Seq(Unit), NEW k \in 1 .. Len(wire), CutsInto(k)
  PROVE  wire' \in Seq(Unit) /\ Cut(wire, wire', k)
<1> DEFINE q == From(wire, k)
<1>1. k \in 0 .. Len(wire) /\ Len(wire) \in Nat  BY LenProperties
<1>2. q \in Seq(Unit) /\ Behind(wire, q, k)  BY <1>1, FromIsBehind
<1>3. wire' = << >> \o q \/ wire' = <<Body(None)>> \o q  BY DEF CutsInto
<1> HIDE DEF q
<1>4. CASE wire' = << >> \o q
  <2>1. wire' = q  BY <1>2, <1>4, ConcatEmptySeq
  <2> QED  BY <1>2, <2>1, BehindIsCut
<1>5. CASE wire' = <<Body(None)>> \o q
  <2> DEFINE u == Body(None)
  <2>1. u \in Unit  BY ConnectionAssumption DEF Body, Unit, None
  <2>2. wire' = <<u>> \o q  BY <1>5
  <2> HIDE DEF u
  <2>3. <<u>> \in Seq(Unit) /\ Len(<<u>>) = 1 /\ <<u>>[1] = u  BY <2>1
  <2>4. /\ wire' \in Seq(Unit) /\ Len(wire') = 1 + Len(q)
        /\ \A i \in 1 .. 1 + Len(q) : wire'[i] = IF i <= 1 THEN <<u>>[i] ELSE q[i - 1]
    BY <1>2, <2>2, <2>3, ConcatProperties
  <2>5. Len(q) = Len(wire) - k /\ \A i \in 1 .. Len(q) : q[i] = wire[i + k]
    BY <1>2 DEF Behind
  <2>6. ASSUME NEW i \in 1 .. Len(wire')
        PROVE  wire'[i] = IF k < i + (k - 1) THEN wire[i + (k - 1)] ELSE u
    <3>1. CASE i = 1
      <4>1. ~(k < i + (k - 1)) /\ i \in 1 .. 1 + Len(q) /\ i <= 1  BY <1>1, <2>4, <3>1
      <4> QED  BY <2>3, <2>4, <3>1, <4>1
    <3>2. CASE i # 1
      <4>1. /\ k < i + (k - 1) /\ i - 1 \in 1 .. Len(q) /\ (i - 1) + k = i + (k - 1)
            /\ i \in 1 .. 1 + Len(q) /\ ~(i <= 1)
        BY <1>1, <2>4, <2>5, <3>2
      <4>2. wire'[i] = q[i - 1]  BY <2>4, <4>1
      <4>3. q[i - 1] = wire[i + (k - 1)]  BY <2>5, <4>1
      <4> QED  BY <4>1, <4>2, <4>3
    <3> QED  BY <3>1, <3>2
  <2>7. k - 1 \in Nat /\ Len(wire') = Len(wire) - (k - 1)  BY <1>1, <2>4, <2>5
  <2>8. CutBy(wire, wire', k, k - 1)  BY <2>6, <2>7 DEF CutBy, u
  <2> QED  BY <1>1, <2>4, <2>8 DEF Cut
<1> QED  BY <1>3, <1>4, <1>5

\* What readResponse throws away with its reader.
LEMMA SwallowTypes ==
  ASSUME wire \in Seq(Unit), NEW k \in 0 .. Len(wire), Swallow(k)
  PROVE  /\ wire' \in Seq(Unit) /\ Behind(wire, wire', k)
         /\ lost' = lost \cup HeadsIn(k, "readResponse")
         /\ lost \subseteq Loss => lost' \subseteq Loss
         /\ packets' = packets
<1>1. wire' \in Seq(Unit) /\ Behind(wire, wire', k)
  BY FromIsBehind DEF Swallow
<1>2. \A i \in 1 .. k : wire[i] \in Unit
  BY LenProperties, ElementOfSeq
<1>3. \A i \in {j \in 1 .. k : wire[j].is = "head"} :
        [frame |-> wire[i].frame, at |-> "readResponse"] \in Loss
  BY <1>2, UnitTypes DEF Loss, Place
<1> QED  BY <1>1, <1>3 DEF Swallow, HeadsIn
-----------------------------------------------------------------------------
(* Types.                                                                  *)

LEMMA SessionKept == session \in BOOLEAN /\ [Next]_vars => session' \in BOOLEAN
BY Zenon DEF Next, Server, Serve, SendFrame, Calls, KeepAliveTicks, Request, RetryWithAuth,
     Begin, Send, SendFails, ReadsAnswer, Takes, MisreadsAnswer, AnswerTimesOut, ReadFrames,
     ReadFrame, ReadsHeader, MisreadsHeader, ReadsPayload, ReadsOtherPayload, ReadTimesOut,
     vars, client

ConnTypes == Shapes /\ Roles /\ Issued

\* What the sequences hold.
LEMMA Elements ==
  ASSUME Shapes
  PROVE  /\ Len(inbox) \in Nat /\ DOMAIN inbox = 1 .. Len(inbox)
         /\ Len(wire) \in Nat /\ DOMAIN wire = 1 .. Len(wire)
         /\ Len(packets) \in Nat /\ DOMAIN packets = 1 .. Len(packets)
         /\ \A i \in DOMAIN inbox : inbox[i] \in Asked
         /\ \A i \in DOMAIN wire : wire[i] \in Unit
         /\ \A i \in DOMAIN packets : packets[i] \in Packet
BY ElementOfSeq, LenProperties DEF Shapes

LEMMA BeginTypes ==
  ASSUME ConnTypes, session' \in BOOLEAN,
         NEW g \in Goroutine, NEW method \in Method, NEW again \in BOOLEAN,
         g = "caller" => method \in Setting, Begin(g, method, again)
  PROVE  ConnTypes'
<1> USE DEF ConnTypes
<1>1. begun' = begun + 1 /\ begun' \in 0 .. MaxRequests /\ begun' # None
  BY ConnectionAssumption DEF Begin, Shapes, None
<1>2. /\ at' \in [Goroutine -> State] /\ at'[g] = "send"
      /\ \A h \in Goroutine \ {g} : at'[h] = at[h]
  BY DEF Begin, Goes, Shapes, State
<1>3. /\ request' \in [Goroutine -> [id : 0 .. MaxRequests, method : Method, again : BOOLEAN]]
      /\ request'[g].id = begun' /\ request'[g].method = method
      /\ \A h \in Goroutine \ {g} : request'[h] = request[h]
  <2> DEFINE r == [id |-> begun + 1, method |-> method, again |-> again]
  <2>1. r \in [id : 0 .. MaxRequests, method : Method, again : BOOLEAN]
        /\ r.id = begun' /\ r.method = method
    BY <1>1
  <2>2. request' = [request EXCEPT ![g] = r]  BY DEF Begin
  <2> HIDE DEF r
  <2> QED  BY <2>1, <2>2 DEF Shapes
<1>4. UNCHANGED <<hand, inbox, wire, served, sent, believed, taken, packets, lost>>
  BY DEF Begin, server, calls, frames
<1>5. Shapes'  BY <1>1, <1>2, <1>3, <1>4 DEF Shapes
<1>6. Roles'
  BY <1>1, <1>2, <1>3, <1>4 DEF Roles, Asking, Goroutine
<1>7. Issued'
  <2>1. /\ \A i \in DOMAIN inbox : inbox[i].id <= begun'
        /\ \A t \in taken : t.asked <= begun' /\ t.answered <= begun'
    <3>1. \A i \in DOMAIN inbox : inbox[i].id \in Nat
      <4>1. \A u \in Asked : u.id \in Nat  BY DEF Asked
      <4> QED  BY <4>1, Elements
    <3>2. \A t \in taken : t.asked \in Nat /\ t.answered \in Nat  BY DEF Shapes
    <3> QED  BY <1>1, <3>1, <3>2 DEF Issued, Shapes
  <2>2. \A i \in DOMAIN wire : IF wire[i].is = "answer" THEN wire[i].id <= begun'
                               ELSE wire[i].frame <= sent
    <3>1. \A i \in DOMAIN wire : wire[i].is = "answer" => wire[i].id \in Nat
      BY ElementOfSeq, LenProperties, UnitTypes DEF Shapes
    <3> QED  BY <1>1, <3>1 DEF Issued, Shapes
  <2>3. \A h \in Goroutine : request'[h].id <= begun'
    <3>1. \A h \in Goroutine : request[h].id \in 0 .. MaxRequests  BY DEF Shapes
    <3>2. \A h \in Goroutine : request[h].id <= begun  BY DEF Issued
    <3>3. \A h \in Goroutine : request[h].id <= begun + 1
      BY <3>1, <3>2 DEF Shapes
    <3>4. \A h \in Goroutine : request'[h] = request[h] \/ request'[h].id = begun + 1
      BY <1>1, <1>3
    <3> QED  BY <1>1, <3>3, <3>4
  <2> QED  BY <1>4, <2>1, <2>2, <2>3 DEF Issued
<1> QED  BY <1>5, <1>6, <1>7

LEMMA BeginsOne ==
  ASSUME ConnTypes,
         \/ \E method \in Setting : Calls(method)
         \/ KeepAliveTicks
         \/ \E g \in Goroutine : RetryWithAuth(g)
  PROVE  \E g \in Goroutine, method \in Method, again \in BOOLEAN :
           /\ g = "caller" => method \in Setting
           /\ at[g] \in {"idle", "again"}
           /\ Begin(g, method, again)
<1>1. ASSUME NEW method \in Setting, Calls(method)
      PROVE  Begin("caller", method, FALSE) /\ at["caller"] = "idle" /\ method \in Method
  BY <1>1 DEF Calls, Busy, Method
<1>2. CASE KeepAliveTicks
  <2>1. Begin("keeper", "OPTIONS", FALSE) /\ at["keeper"] = "idle" /\ "OPTIONS" \in Method
    BY <1>2 DEF KeepAliveTicks, Busy, Method
  <2> QED  BY <2>1 DEF Goroutine
<1>3. ASSUME NEW g \in Goroutine, RetryWithAuth(g)
      PROVE  /\ Begin(g, request[g].method, TRUE) /\ at[g] = "again"
             /\ request[g].method \in Method
             /\ g = "caller" => request[g].method \in Setting
  BY <1>3 DEF RetryWithAuth, ConnTypes, Shapes, Roles, Asking
<1> QED  BY <1>1, <1>2, <1>3 DEF Goroutine

\* A goroutine that goes on without a new request.
LEMMA GoesTypes ==
  ASSUME ConnTypes, NEW g \in Goroutine, NEW where \in State, Goes(g, where)
  PROVE  /\ at' \in [Goroutine -> State] /\ at'[g] = where
         /\ \A h \in Goroutine \ {g} : at'[h] = at[h]
BY DEF ConnTypes, Shapes, Goes

LEMMA CutUnits ==
  ASSUME Shapes, wire' \in Seq(Unit), NEW k, Cut(wire, wire', k)
  PROVE  /\ DOMAIN wire' = 1 .. Len(wire') /\ Len(wire') \in Nat /\ k \in Nat
         /\ \E s \in Nat :
              /\ Len(wire') = Len(wire) - s
              /\ \A i \in DOMAIN wire' :
                   /\ i + s \in DOMAIN wire
                   /\ wire'[i] = IF k < i + s THEN wire[i + s] ELSE Body(None)
<1>1. DOMAIN wire' = 1 .. Len(wire') /\ Len(wire') \in Nat  BY LenProperties
<1>2. DOMAIN wire = 1 .. Len(wire) /\ Len(wire) \in Nat  BY Elements
<1>3. k \in Nat  BY <1>2 DEF Cut
<1>4. PICK s \in {k, k - 1} : CutBy(wire, wire', k, s)  BY DEF Cut
<1>5. s \in Nat /\ Len(wire') = Len(wire) - s  BY <1>4 DEF CutBy
<1>6. \A i \in DOMAIN wire' : i + s \in DOMAIN wire  BY <1>1, <1>2, <1>5
<1> QED  BY <1>1, <1>3, <1>4, <1>5, <1>6 DEF CutBy

LEMMA CutIssued ==
  ASSUME ConnTypes, wire' \in Seq(Unit), NEW k, Cut(wire, wire', k),
         UNCHANGED <<begun, sent>>
  PROVE  \A i \in DOMAIN wire' : IF wire'[i].is = "answer" THEN wire'[i].id <= begun'
                                 ELSE wire'[i].frame <= sent'
<1>1. \A i \in DOMAIN wire' :
        wire'[i] = Body(None) \/ \E m \in DOMAIN wire : wire'[i] = wire[m]
  <2>1. Shapes /\ wire' \in Seq(Unit) /\ Cut(wire, wire', k)  BY DEF ConnTypes
  <2>2. PICK s \in Nat : \A i \in DOMAIN wire' :
                            /\ i + s \in DOMAIN wire
                            /\ wire'[i] = IF k < i + s THEN wire[i + s] ELSE Body(None)
    BY ONLY <2>1, CutUnits
  <2> QED  BY <2>2
<1>2. Body(None).is = "body" /\ Body(None).frame = 0 /\ 0 <= sent
  BY DEF Body, None, ConnTypes, Shapes
<1> QED  BY <1>1, <1>2 DEF ConnTypes, Issued

\* What readResponse does to the frames.
LEMMA SwallowIssued ==
  ASSUME ConnTypes, NEW k \in 0 .. Len(wire), Swallow(k), UNCHANGED sent
  PROVE  \A l \in lost' : l.frame <= sent'
<1>1. lost' = lost \cup {[frame |-> wire[i].frame, at |-> "readResponse"] :
                           i \in {j \in 1 .. k : wire[j].is = "head"}}
  BY DEF Swallow, HeadsIn
<1>2. \A i \in {j \in 1 .. k : wire[j].is = "head"} : wire[i].frame <= sent
  BY Elements DEF ConnTypes, Issued
<1> QED  BY <1>1, <1>2 DEF ConnTypes, Issued

LEMMA TakenBegun ==
  ASSUME ConnTypes
  PROVE  taken \subseteq [asked : 1 .. begun, answered : 1 .. begun]
<1> SUFFICES ASSUME NEW t \in taken PROVE t \in [asked : 1 .. begun, answered : 1 .. begun]
  OBVIOUS
<1>1. t \in [asked : 1 .. MaxRequests, answered : 1 .. MaxRequests]
      /\ t.asked <= begun /\ t.answered <= begun
  BY DEF ConnTypes, Shapes, Issued
<1>2. t.asked \in 1 .. begun /\ t.answered \in 1 .. begun
  BY <1>1 DEF ConnTypes, Shapes
<1> QED  BY <1>1, <1>2

LEMMA SwallowerTypes ==
  ASSUME ConnTypes, session' \in BOOLEAN, NEW g \in Goroutine, at[g] = "await",
         NEW k \in 0 .. Len(wire), Swallow(k),
         NEW where \in {"idle", "again"}, Goes(g, where),
         UNCHANGED <<request, hand, inbox, served, begun, sent>>,
         believed' \subseteq Setting,
         taken' \subseteq [asked : 1 .. begun, answered : 1 .. begun]
  PROVE  ConnTypes'
<1>1. /\ wire' \in Seq(Unit) /\ Behind(wire, wire', k)
      /\ lost' \subseteq Loss /\ packets' = packets
  BY SwallowTypes DEF ConnTypes, Shapes
<1>2. /\ at' \in [Goroutine -> State] /\ at'[g] = where
      /\ \A h \in Goroutine \ {g} : at'[h] = at[h]
  BY GoesTypes DEF State
<1>3. /\ taken' \subseteq [asked : 1 .. MaxRequests, answered : 1 .. MaxRequests]
      /\ \A t \in taken' : t.asked <= begun /\ t.answered <= begun
  <2> SUFFICES ASSUME NEW t \in taken'
               PROVE  /\ t \in [asked : 1 .. MaxRequests, answered : 1 .. MaxRequests]
                      /\ t.asked <= begun /\ t.answered <= begun
    OBVIOUS
  <2>1. t \in [asked : 1 .. begun, answered : 1 .. begun]  OBVIOUS
  <2>2. begun \in 0 .. MaxRequests  BY DEF ConnTypes, Shapes
  <2>3. 1 .. begun \subseteq 1 .. MaxRequests  BY <2>2, ConnectionAssumption
  <2> QED  BY <2>1, <2>3
<1>4. Shapes'  BY <1>1, <1>2, <1>3 DEF ConnTypes, Shapes
<1>5. Roles'
  BY <1>2 DEF ConnTypes, Roles, Asking, Goroutine
<1>6. Cut(wire, wire', k)  BY <1>1, BehindIsCut DEF ConnTypes, Shapes
<1>7. Issued'
  BY <1>1, <1>3, <1>6, CutIssued, SwallowIssued DEF ConnTypes, Issued
<1> QED  BY <1>4, <1>5, <1>7 DEF ConnTypes

LEMMA AnswerTypes ==
  ASSUME ConnTypes, session' \in BOOLEAN, NEW g \in Goroutine,
         ReadsAnswer(g) \/ MisreadsAnswer(g) \/ AnswerTimesOut(g)
  PROVE  ConnTypes'
<1>1. /\ at[g] = "await" /\ UNCHANGED <<request, hand, inbox, served, begun, sent>>
  BY DEF ReadsAnswer, MisreadsAnswer, AnswerTimesOut, server, bounds
<1>2. CASE ReadsAnswer(g)
  <2>1. PICK n \in AnswersIn(wire) :
          (\E k \in n .. Len(wire) : Swallow(k)) /\ Takes(g, wire[n])
    BY <1>2 DEF ReadsAnswer
  <2>2. n \in 1 .. Len(wire) /\ wire[n].is = "answer" /\ wire[n] \in Unit
    BY Elements DEF ConnTypes, AnswersIn
  <2>3. PICK k \in n .. Len(wire) : Swallow(k)  BY <2>1
  <2>4. k \in 0 .. Len(wire)  BY <2>2
  <2>5. wire[n].id \in 1 .. begun
    <3>1. wire[n].id \in 1 .. MaxRequests  BY <2>2, UnitTypes
    <3>2. wire[n].id <= begun  BY <2>2, Elements DEF ConnTypes, Issued
    <3> QED  BY <3>1, <3>2 DEF ConnTypes, Shapes
  <2>6. request[g].id \in 1 .. begun
    BY <1>1 DEF ConnTypes, Shapes, Issued, Roles, Asking, None
  <2>7. taken' \subseteq [asked : 1 .. begun, answered : 1 .. begun]
    <3>1. taken' = taken \cup {[asked |-> request[g].id, answered |-> wire[n].id]}
      BY <2>1 DEF Takes
    <3> QED  BY <2>5, <2>6, <3>1, TakenBegun
  <2>8. believed' \subseteq Setting
    BY <1>1, <2>1 DEF Takes, ConnTypes, Shapes, Roles, Asking
  <2>9. \E where \in {"idle", "again"} : Goes(g, where)  BY <2>1 DEF Takes
  <2> QED  BY <1>1, <2>3, <2>4, <2>7, <2>8, <2>9, SwallowerTypes
<1>3. CASE MisreadsAnswer(g) \/ AnswerTimesOut(g)
  <2>1. /\ Goes(g, "idle") /\ UNCHANGED <<believed, taken>>
        /\ \E k \in 0 .. Len(wire) : Swallow(k)
    BY <1>3, Elements DEF MisreadsAnswer, AnswerTimesOut, calls, ConnTypes
  <2>2. taken' \subseteq [asked : 1 .. begun, answered : 1 .. begun]
    BY <2>1, TakenBegun
  <2>3. believed' \subseteq Setting  BY <2>1 DEF ConnTypes, Shapes
  <2> QED  BY <1>1, <2>1, <2>2, <2>3, SwallowerTypes
<1> QED  BY <1>2, <1>3

LEMMA SendTypes ==
  ASSUME ConnTypes, session' \in BOOLEAN, NEW g \in Goroutine, Send(g) \/ SendFails(g)
  PROVE  ConnTypes'
<1>1. at[g] = "send" /\ UNCHANGED <<session, request, hand, wire, served, begun, sent,
                                    believed, taken, packets, lost>>
  BY DEF Send, SendFails, server, bounds, calls, frames
<1>2. /\ at' \in [Goroutine -> State] /\ at'[g] \in {"await", "idle"}
      /\ \A h \in Goroutine \ {g} : at'[h] = at[h]
  BY GoesTypes DEF Send, SendFails, State
<1>3. inbox' \in Seq(Asked) /\ \A i \in DOMAIN inbox' : inbox'[i].id <= begun
  <2>1. CASE inbox' = inbox  BY <2>1 DEF ConnTypes, Shapes, Issued
  <2>2. CASE Send(g)
    <3> DEFINE r == [id |-> request[g].id, method |-> request[g].method, session |-> session]
    <3>1. r \in Asked /\ r.id <= begun
      BY <1>1 DEF ConnTypes, Shapes, Roles, Asking, Issued, Asked, None
    <3>2. inbox' = Append(inbox, r)  BY <2>2 DEF Send
    <3> HIDE DEF r
    <3>3. /\ inbox' \in Seq(Asked) /\ Len(inbox') = Len(inbox) + 1
          /\ \A i \in 1 .. Len(inbox) : inbox'[i] = inbox[i]
          /\ inbox'[Len(inbox) + 1] = r
      BY <3>1, <3>2, AppendProperties DEF ConnTypes, Shapes
    <3>4. DOMAIN inbox' = 1 .. Len(inbox) + 1 /\ DOMAIN inbox = 1 .. Len(inbox)
          /\ Len(inbox) \in Nat
      BY <3>3, LenProperties, Elements DEF ConnTypes
    <3> QED  BY <3>1, <3>3, <3>4 DEF ConnTypes, Issued
  <2> QED  BY <2>1, <2>2 DEF Send, SendFails
<1>4. Shapes'  BY <1>1, <1>2, <1>3 DEF ConnTypes, Shapes
<1>5. Roles'
  BY <1>1, <1>2 DEF ConnTypes, Roles, Asking, Goroutine
<1>6. Issued'  BY <1>1, <1>3 DEF ConnTypes, Issued
<1> QED  BY <1>4, <1>5, <1>6 DEF ConnTypes

\* The server takes the oldest request and adds its answer to the wire.
LEMMA ServeWire ==
  ASSUME Shapes, NEW status \in Status, Serve(status)
  PROVE  /\ 1 \in DOMAIN inbox /\ inbox' \in Seq(Asked) /\ Behind(inbox, inbox', 1)
         /\ wire' \in Seq(Unit) /\ Len(wire') = Len(wire) + 1
         /\ DOMAIN wire' = 1 .. Len(wire) + 1
         /\ \A i \in 1 .. Len(wire) : wire'[i] = wire[i]
         /\ wire'[Len(wire) + 1].is = "answer"
         /\ wire'[Len(wire) + 1].id = inbox[1].id
         /\ wire'[Len(wire) + 1].method = inbox[1].method
         /\ wire'[Len(wire) + 1].status = status
         /\ served' = IF status = "ok" THEN served \cup {inbox[1].method} ELSE served
<1> DEFINE a == Answer(inbox[1], status)
<1>1. inbox # << >> /\ inbox' = Tail(inbox)  BY DEF Serve
<1>2. /\ inbox' \in Seq(Asked) /\ Behind(inbox, inbox', 1)
      /\ 1 \in DOMAIN inbox /\ Head(inbox) = inbox[1] /\ inbox[1] \in Asked
  BY <1>1, TailIsBehind DEF Shapes
<1>3. wire' = Append(wire, a)  BY <1>2 DEF Serve
<1>4. /\ a \in Unit /\ a.is = "answer" /\ a.id = inbox[1].id /\ a.method = inbox[1].method
      /\ a.status = status
  BY <1>2 DEF Answer, Unit, Asked
<1> HIDE DEF a
<1>5. /\ wire' \in Seq(Unit) /\ Len(wire') = Len(wire) + 1
      /\ \A i \in 1 .. Len(wire) : wire'[i] = wire[i]
      /\ wire'[Len(wire) + 1] = a
  BY <1>3, <1>4, AppendProperties DEF Shapes
<1>6. DOMAIN wire' = 1 .. Len(wire) + 1  BY <1>5, LenProperties
<1>7. served' = IF status = "ok" THEN served \cup {inbox[1].method} ELSE served
  BY <1>2 DEF Serve
<1> QED  BY <1>2, <1>4, <1>5, <1>6, <1>7

\* A frame is sent as a header and its payload, one behind the other.
LEMMA SendFrameWire ==
  ASSUME Shapes, NEW rtcp \in BOOLEAN, SendFrame(rtcp)
  PROVE  /\ sent' = sent + 1 /\ sent' \in 1 .. MaxFrames
         /\ wire' \in Seq(Unit) /\ Len(wire') = Len(wire) + 2
         /\ DOMAIN wire' = 1 .. Len(wire) + 2
         /\ \A i \in 1 .. Len(wire) : wire'[i] = wire[i]
         /\ wire'[Len(wire) + 1].is = "head" /\ wire'[Len(wire) + 1].frame = sent'
         /\ wire'[Len(wire) + 2] = Body(sent')
<1> DEFINE f == sent + 1
           h == Head_(f, rtcp)
           b == Body(f)
<1>1. sent' = f /\ f \in 1 .. MaxFrames
  BY ConnectionAssumption DEF SendFrame, Shapes
<1>2. wire' = wire \o <<h, b>>  BY DEF SendFrame
<1>3. h \in Unit /\ b \in Unit /\ h.is = "head" /\ h.frame = f
  BY <1>1 DEF Head_, Body, Unit
<1> HIDE DEF f, h, b
<1>4. <<h, b>> \in Seq(Unit) /\ Len(<<h, b>>) = 2 /\ <<h, b>>[1] = h /\ <<h, b>>[2] = b
  BY <1>3
<1>5. /\ wire' \in Seq(Unit) /\ Len(wire') = Len(wire) + 2 /\ Len(wire) \in Nat
      /\ \A i \in 1 .. Len(wire) + 2 :
           wire'[i] = IF i <= Len(wire) THEN wire[i] ELSE <<h, b>>[i - Len(wire)]
  BY <1>2, <1>4, ConcatProperties, LenProperties DEF Shapes
<1>6. DOMAIN wire' = 1 .. Len(wire) + 2  BY <1>5, LenProperties
<1>7. \A i \in 1 .. Len(wire) : wire'[i] = wire[i]  BY <1>5
<1>8. wire'[Len(wire) + 1] = h
  <2>1. /\ Len(wire) + 1 \in 1 .. Len(wire) + 2 /\ ~(Len(wire) + 1 <= Len(wire))
        /\ Len(wire) + 1 - Len(wire) = 1
    BY <1>5
  <2> QED  BY <1>4, <1>5, <2>1
<1>9. wire'[Len(wire) + 2] = b
  <2>1. /\ Len(wire) + 2 \in 1 .. Len(wire) + 2 /\ ~(Len(wire) + 2 <= Len(wire))
        /\ Len(wire) + 2 - Len(wire) = 2
    BY <1>5
  <2> QED  BY <1>4, <1>5, <2>1
<1> QED  BY <1>1, <1>3, <1>5, <1>6, <1>7, <1>8, <1>9 DEF f, b

LEMMA ServerTypes ==
  ASSUME ConnTypes, session' \in BOOLEAN, Server
  PROVE  ConnTypes'
<1>1. UNCHANGED <<session, at, request, hand, begun, believed, taken, packets, lost>>
  BY DEF Server, Serve, SendFrame, client, bounds, calls, frames
<1>2. Roles'  BY <1>1 DEF ConnTypes, Roles, Asking
<1>3. ASSUME NEW status \in Status, Serve(status) PROVE ConnTypes'
  <2>1. sent' = sent  BY <1>3 DEF Serve, bounds
  <2>2. /\ 1 \in DOMAIN inbox /\ inbox' \in Seq(Asked) /\ Behind(inbox, inbox', 1)
        /\ wire' \in Seq(Unit) /\ DOMAIN wire' = 1 .. Len(wire) + 1
        /\ \A i \in 1 .. Len(wire) : wire'[i] = wire[i]
        /\ wire'[Len(wire) + 1].is = "answer" /\ wire'[Len(wire) + 1].id = inbox[1].id
        /\ served' \subseteq served \cup {inbox[1].method}
    BY <1>3, ServeWire DEF ConnTypes
  <2>3. Shapes'
    <3>1. inbox[1].method \in Method  BY <2>2, Elements DEF ConnTypes, Asked
    <3> QED  BY <1>1, <2>1, <2>2, <3>1 DEF ConnTypes, Shapes
  <2>4. \A i \in DOMAIN inbox' : inbox'[i].id <= begun
    <3>1. DOMAIN inbox' = 1 .. Len(inbox') /\ Len(inbox') \in Nat /\ Len(inbox) \in Nat
          /\ DOMAIN inbox = 1 .. Len(inbox)
      BY <2>2, LenProperties, Elements DEF ConnTypes
    <3>2. \A i \in 1 .. Len(inbox') : i + 1 \in 1 .. Len(inbox) /\ inbox'[i] = inbox[i + 1]
      BY <2>2, <3>1 DEF Behind
    <3> QED  BY <3>1, <3>2 DEF ConnTypes, Issued
  <2>5. \A i \in DOMAIN wire' : IF wire'[i].is = "answer" THEN wire'[i].id <= begun
                                ELSE wire'[i].frame <= sent
    <3>1. Len(wire) \in Nat /\ DOMAIN wire = 1 .. Len(wire)  BY Elements DEF ConnTypes
    <3>2. inbox[1].id <= begun  BY <2>2 DEF ConnTypes, Issued
    <3>3. \A i \in DOMAIN wire' : i \in DOMAIN wire \/ i = Len(wire) + 1  BY <2>2, <3>1
    <3> QED  BY <2>2, <3>1, <3>2, <3>3 DEF ConnTypes, Issued
  <2>6. Issued'  BY <1>1, <2>1, <2>4, <2>5 DEF ConnTypes, Issued
  <2> QED  BY <1>2, <2>3, <2>6 DEF ConnTypes
<1>4. ASSUME NEW rtcp \in BOOLEAN, SendFrame(rtcp) PROVE ConnTypes'
  <2>1. inbox' = inbox /\ served' = served  BY <1>4 DEF SendFrame, server
  <2>2. /\ sent' = sent + 1 /\ sent' \in 1 .. MaxFrames
        /\ wire' \in Seq(Unit) /\ DOMAIN wire' = 1 .. Len(wire) + 2
        /\ \A i \in 1 .. Len(wire) : wire'[i] = wire[i]
        /\ wire'[Len(wire) + 1].is = "head" /\ wire'[Len(wire) + 1].frame = sent'
        /\ wire'[Len(wire) + 2] = Body(sent')
    BY <1>4, SendFrameWire DEF ConnTypes
  <2>3. Shapes'  BY <1>1, <2>1, <2>2 DEF ConnTypes, Shapes
  <2>4. sent \in Nat  BY DEF ConnTypes, Shapes
  <2>5. \A i \in DOMAIN wire' : IF wire'[i].is = "answer" THEN wire'[i].id <= begun
                                ELSE wire'[i].frame <= sent'
    <3>1. Len(wire) \in Nat /\ DOMAIN wire = 1 .. Len(wire)  BY Elements DEF ConnTypes
    <3>2. \A i \in DOMAIN wire' : i \in DOMAIN wire \/ i = Len(wire) + 1 \/ i = Len(wire) + 2
      BY <2>2, <3>1
    <3>3. ASSUME NEW i \in DOMAIN wire, wire[i].is # "answer" PROVE wire[i].frame <= sent + 1
      <4>1. wire[i].frame \in 0 .. MaxFrames /\ wire[i].frame <= sent
        BY <3>3, Elements, UnitTypes DEF ConnTypes, Issued
      <4> QED  BY <2>4, <4>1
    <3>4. \A i \in DOMAIN wire : wire'[i] = wire[i]  BY <2>2, <3>1
    <3>5. wire'[Len(wire) + 2].is = "body" /\ wire'[Len(wire) + 2].frame = sent'
      BY <2>2 DEF Body
    <3>6. sent' <= sent'  BY <2>2
    <3> QED  BY <2>2, <3>2, <3>3, <3>4, <3>5, <3>6 DEF ConnTypes, Issued
  <2>6. \A l \in lost : l.frame <= sent + 1
    <3>1. \A l \in lost : l.frame \in Nat /\ l.frame <= sent
      BY DEF ConnTypes, Shapes, Issued, Loss
    <3> QED  BY <2>4, <3>1
  <2>7. \A i \in DOMAIN packets : packets[i].frame <= sent + 1
    <3>1. \A i \in DOMAIN packets : packets[i].frame \in Nat /\ packets[i].frame <= sent
      BY Elements DEF ConnTypes, Issued, Packet
    <3> QED  BY <2>4, <3>1
  <2>8. hand.frame <= sent + 1
    <3>1. hand.frame \in 0 .. MaxFrames /\ hand.frame <= sent  BY DEF ConnTypes, Shapes, Issued
    <3> QED  BY <2>4, <3>1
  <2>9. Issued'
    BY <1>1, <2>1, <2>2, <2>5, <2>6, <2>7, <2>8 DEF ConnTypes, Issued
  <2> QED  BY <1>2, <2>3, <2>9 DEF ConnTypes
<1> QED  BY <1>3, <1>4 DEF Server, Status
-----------------------------------------------------------------------------
(* Reading frames.                                                         *)

\* The frame in hand, if it is one, is handed out or lost.
Disposes(whole, k) ==
  /\ \E where \in {"idle", "header"} : Goes("caller", where)
  /\ \E where \in {"payload", "deadline"} :
       \/ /\ packets' = Append(packets, [frame |-> hand.frame, whole |-> whole])
          /\ lost' = lost \cup HeadsIn(k, where)
       \/ /\ packets' = packets
          /\ \E place \in Place : lost' = lost \cup HeadsIn(k, where) \cup InHand(place)

LEMMA HeadsInTypes ==
  ASSUME ConnTypes, NEW k \in 0 .. Len(wire), NEW where \in Place
  PROVE  /\ HeadsIn(k, where) \subseteq Loss
         /\ \A l \in HeadsIn(k, where) : l.frame <= sent
<1>1. \A i \in {j \in 1 .. k : wire[j].is = "head"} :
        wire[i].frame \in 1 .. MaxFrames /\ wire[i].frame <= sent
  BY Elements, UnitTypes DEF ConnTypes, Issued
<1> QED  BY <1>1 DEF HeadsIn, Loss

LEMMA InHandTypes ==
  ASSUME ConnTypes, NEW where \in Place
  PROVE  /\ InHand(where) \subseteq Loss
         /\ \A l \in InHand(where) : l.frame <= sent
<1>1. hand.frame \in 0 .. MaxFrames /\ hand.frame <= sent
  BY DEF ConnTypes, Shapes, Issued
<1>2. \A f \in {hand.frame} \ {None} : f \in 1 .. MaxFrames /\ f <= sent
  BY <1>1, ConnectionAssumption DEF None
<1> QED  BY <1>2 DEF InHand, Loss

LEMMA NoHeads ==
  ASSUME NEW k, NEW where, \A j \in 1 .. k : wire[j].is # "head"
  PROVE  HeadsIn(k, where) = {}
<1>1. {j \in 1 .. k : wire[j].is = "head"} = {}  OBVIOUS
<1> QED  BY <1>1 DEF HeadsIn

LEMMA DeliversDisposes ==
  ASSUME NEW whole \in BOOLEAN, NEW k,
         Delivers(whole, HeadsIn(k, "payload")) \/ Unparsable(HeadsIn(k, "payload"))
  PROVE  Disposes(whole, k)
<1>1. \E where \in {"idle", "header"} : Goes("caller", where)
  BY DEF Delivers, Unparsable
<1>2. \/ Hands(whole) /\ Loses(HeadsIn(k, "payload"))
      \/ /\ packets' = packets
         /\ \E place \in Place : Loses(HeadsIn(k, "payload") \cup InHand(place))
  BY DEF Delivers, Unparsable, Place
<1>3. \A place : Loses(HeadsIn(k, "payload") \cup InHand(place))
                   => lost' = lost \cup HeadsIn(k, "payload") \cup InHand(place)
  BY DEF Loses
<1> QED  BY <1>1, <1>2, <1>3 DEF Disposes, Hands, Loses

\* What ends the reading of a payload.
LEMMA PayloadEnds ==
  ASSUME ConnTypes, at["caller"] = "payload", ReadFrame
  PROVE  /\ UNCHANGED <<session, request, hand, inbox, server, bounds, calls, trouble>>
         /\ wire' \in Seq(Unit)
         /\ \E k \in 0 .. Len(wire), whole \in BOOLEAN :
              /\ Cut(wire, wire', k) /\ Disposes(whole, k)
              /\ \/ /\ whole /\ Behind(wire, wire', 1)
                    /\ hand.frame # None /\ wire # << >> /\ wire[1] = Body(hand.frame)
                 \/ ~whole /\ OutOfStep
                 \/ /\ packets' = packets /\ hand.frame # None
                    /\ \E l \in lost' : l.at = "deadline"
<1>1. UNCHANGED <<session, request, hand, inbox, server, bounds, calls, trouble>>
      /\ (ReadsPayload \/ ReadsOtherPayload \/ ReadTimesOut)
  BY DEF ReadFrame, ReadsHeader, MisreadsHeader, ReadsPayload, ReadsOtherPayload,
         ReadTimesOut
<1>2. wire \in Seq(Unit) /\ Len(wire) \in Nat /\ DOMAIN wire = 1 .. Len(wire)
  BY Elements DEF ConnTypes, Shapes
<1>3. CASE ReadsPayload
  <2>1. hand.frame # None /\ wire # << >> /\ wire[1] = Body(hand.frame) /\ wire' = Tail(wire)
        /\ Delivers(TRUE, {})
    BY <1>3 DEF ReadsPayload
  <2>2. wire' \in Seq(Unit) /\ Behind(wire, wire', 1) /\ 1 \in 0 .. Len(wire)
    BY <1>2, <2>1, TailIsBehind DEF Behind
  <2>3. HeadsIn(1, "payload") = {}
    <3>1. \A j \in 1 .. 1 : wire[j].is # "head"  BY <2>1 DEF Body
    <3> QED  BY <3>1, NoHeads
  <2>4. Disposes(TRUE, 1)  BY <2>1, <2>3, DeliversDisposes
  <2>5. Cut(wire, wire', 1)  BY <1>2, <2>2, BehindIsCut
  <2> QED  BY <1>1, <2>1, <2>2, <2>4, <2>5
<1>4. CASE ReadsOtherPayload
  <2>1. PICK k \in 0 .. Len(wire) :
          /\ IF k = 0 THEN UNCHANGED wire ELSE CutsInto(k)
          /\ Delivers(FALSE, HeadsIn(k, "payload")) \/ Unparsable(HeadsIn(k, "payload"))
    BY <1>4 DEF ReadsOtherPayload
  <2>2. wire' \in Seq(Unit) /\ Cut(wire, wire', k)
    <3>1. CASE k = 0  BY <1>2, <2>1, <3>1, NothingCut
    <3>2. CASE k # 0
      <4>1. k \in 1 .. Len(wire) /\ CutsInto(k)  BY <1>2, <2>1, <3>2
      <4> QED  BY <1>2, <4>1, CutsIntoIsCut
    <3> QED  BY <3>1, <3>2
  <2>3. Disposes(FALSE, k)  BY <2>1, DeliversDisposes
  <2>4. OutOfStep  BY <1>4 DEF ReadsOtherPayload
  <2> QED  BY <1>1, <2>2, <2>3, <2>4
<1>5. CASE ReadTimesOut
  <2>1. PICK k \in {0} \cup {j \in DOMAIN wire : OutOfStep} :
          /\ wire' = From(wire, k)
          /\ Loses(HeadsIn(k, "deadline") \cup InHand("deadline"))
    BY <1>5 DEF ReadTimesOut
  <2>2. packets' = packets /\ Goes("caller", "idle")  BY <1>5 DEF ReadTimesOut
  <2>3. k \in 0 .. Len(wire)  BY <1>2
  <2>4. wire' \in Seq(Unit) /\ Cut(wire, wire', k)
    <3>1. wire' \in Seq(Unit) /\ Behind(wire, wire', k)  BY <1>2, <2>1, <2>3, FromIsBehind
    <3> QED  BY <1>2, <3>1, BehindIsCut
  <2>5. lost' = lost \cup HeadsIn(k, "deadline") \cup InHand("deadline")
    BY <2>1 DEF Loses
  <2>6. \A whole : Disposes(whole, k)  BY <2>2, <2>5 DEF Disposes, Place
  <2>7. CASE hand.frame # None
    <3>1. [frame |-> hand.frame, at |-> "deadline"] \in lost'  BY <2>5, <2>7 DEF InHand
    <3>2. \E l \in lost' : l.at = "deadline"  BY <3>1
    <3> QED  BY <1>1, <2>2, <2>3, <2>4, <2>6, <2>7, <3>2
  <2>8. CASE hand.frame = None
    <3>1. OutOfStep  BY <2>8 DEF OutOfStep
    <3> QED  BY <1>1, <2>3, <2>4, <2>6, <3>1
  <2> QED  BY <2>7, <2>8
<1> QED  BY <1>1, <1>3, <1>4, <1>5

LEMMA PacketAdded ==
  ASSUME ConnTypes, NEW d \in Packet, packets' = Append(packets, d)
  PROVE  /\ packets' \in Seq(Packet) /\ DOMAIN packets' = 1 .. Len(packets) + 1
         /\ \A j \in DOMAIN packets' : j \in DOMAIN packets \/ j = Len(packets) + 1
         /\ \A j \in DOMAIN packets : /\ j \in DOMAIN packets' /\ j < Len(packets) + 1
                                      /\ packets'[j] = packets[j]
         /\ Len(packets) + 1 \in DOMAIN packets' /\ packets'[Len(packets) + 1] = d
<1>1. /\ packets' \in Seq(Packet) /\ Len(packets') = Len(packets) + 1
      /\ \A i \in 1 .. Len(packets) : packets'[i] = packets[i]
      /\ packets'[Len(packets) + 1] = d
  BY AppendProperties DEF ConnTypes, Shapes
<1>2. DOMAIN packets' = 1 .. Len(packets) + 1 /\ DOMAIN packets = 1 .. Len(packets)
      /\ Len(packets) \in Nat
  BY <1>1, LenProperties, Elements DEF ConnTypes
<1> QED  BY <1>1, <1>2

LEMMA PayloadTypes ==
  ASSUME ConnTypes, session' \in BOOLEAN, at["caller"] = "payload", ReadFrame
  PROVE  ConnTypes'
<1>1. UNCHANGED <<request, hand, inbox, served, begun, sent, believed, taken>>
      /\ wire' \in Seq(Unit)
  BY PayloadEnds DEF server, bounds, calls
<1>2. PICK k \in 0 .. Len(wire), whole \in BOOLEAN :
        /\ Cut(wire, wire', k) /\ Disposes(whole, k)
        /\ (whole /\ hand.frame # None) \/ ~whole \/ packets' = packets
  BY PayloadEnds
<1>3. /\ at' \in [Goroutine -> State] /\ at'["caller"] \in {"idle", "header"}
      /\ at'["keeper"] = at["keeper"]
  BY <1>2, GoesTypes DEF Disposes, State, Goroutine
<1>4. hand.frame \in 0 .. MaxFrames /\ hand.frame <= sent
  BY DEF ConnTypes, Shapes, Issued
<1>5. \A where \in Place :
        /\ HeadsIn(k, where) \subseteq Loss /\ InHand(where) \subseteq Loss
        /\ \A l \in HeadsIn(k, where) \cup InHand(where) : l.frame <= sent
  BY HeadsInTypes, InHandTypes
<1>6. lost' \subseteq Loss /\ \A l \in lost' : l.frame <= sent
  <2>1. /\ lost \subseteq Loss /\ \A l \in lost : l.frame <= sent
        /\ {"payload", "deadline"} \subseteq Place
    BY DEF ConnTypes, Shapes, Issued, Place
  <2>2. \E where, place \in Place :
          lost' \subseteq lost \cup HeadsIn(k, where) \cup InHand(place)
    BY <1>2, <2>1 DEF Disposes
  <2>3. PICK where \in Place, place \in Place :
          lost' \subseteq lost \cup HeadsIn(k, where) \cup InHand(place)
    BY <2>2
  <2> QED  BY <1>5, <2>1, <2>3
<1>7. packets' \in Seq(Packet) /\ \A i \in DOMAIN packets' : packets'[i].frame <= sent
  <2>1. CASE packets' = packets  BY <2>1 DEF ConnTypes, Shapes, Issued
  <2>2. CASE /\ packets' = Append(packets, [frame |-> hand.frame, whole |-> whole])
             /\ hand.frame # None \/ ~whole
    <3> DEFINE d == [frame |-> hand.frame, whole |-> whole]
    <3>1. d \in Packet /\ d.frame <= sent
      BY <1>4, <2>2 DEF Packet
    <3>2. packets' = Append(packets, d)  BY <2>2
    <3> HIDE DEF d
    <3> QED  BY <3>1, <3>2, PacketAdded DEF ConnTypes, Issued
  <2> QED  BY <1>2, <2>1, <2>2 DEF Disposes
<1>8. Shapes'  BY <1>1, <1>3, <1>6, <1>7 DEF ConnTypes, Shapes
<1>9. Roles'  BY <1>1, <1>3 DEF ConnTypes, Roles, Asking, Goroutine
<1>10. Issued'
  BY <1>1, <1>2, <1>6, <1>7, CutIssued DEF ConnTypes, Issued
<1> QED  BY <1>8, <1>9, <1>10 DEF ConnTypes

LEMMA MisreadWire ==
  ASSUME Shapes, MisreadsHeader
  PROVE  /\ wire' \in Seq(Unit) /\ 1 \in DOMAIN wire /\ wire[1].is # "head"
         /\ \E k \in 0 .. Len(wire) :
              Cut(wire, wire', k) /\ lost' = lost \cup HeadsIn(k, "misread")
<1>1. /\ wire \in Seq(Unit) /\ wire # << >> /\ wire[1].is # "head"
      /\ \/ UNCHANGED <<wire, lost>>
         \/ \E k \in 1 .. 2 :
              k <= Len(wire) /\ CutsInto(k) /\ Loses(HeadsIn(k, "misread"))
  BY DEF MisreadsHeader, Shapes
<1>2. Len(wire) \in Nat /\ 1 \in DOMAIN wire  BY <1>1, Elements, TailIsBehind
<1>3. CASE UNCHANGED <<wire, lost>>
  <2>1. \A j \in 1 .. 0 : wire[j].is # "head"  OBVIOUS
  <2>2. HeadsIn(0, "misread") = {}  BY <2>1, NoHeads
  <2>3. Cut(wire, wire', 0) /\ 0 \in 0 .. Len(wire)  BY <1>1, <1>2, <1>3, NothingCut
  <2> QED  BY <1>1, <1>2, <1>3, <2>2, <2>3
<1>4. ASSUME NEW k \in 1 .. 2, k <= Len(wire), CutsInto(k), Loses(HeadsIn(k, "misread"))
      PROVE  /\ wire' \in Seq(Unit) /\ k \in 0 .. Len(wire) /\ Cut(wire, wire', k)
             /\ lost' = lost \cup HeadsIn(k, "misread")
  <2>1. k \in 1 .. Len(wire) /\ k \in 0 .. Len(wire)  BY <1>2, <1>4
  <2> QED  BY <1>1, <1>4, <2>1, CutsIntoIsCut DEF Loses
<1> QED  BY <1>1, <1>2, <1>3, <1>4

\* What can happen where a header is looked for.
HeaderRead ==
  /\ 1 \in DOMAIN wire /\ wire[1].is = "head" /\ Behind(wire, wire', 1)
  /\ Goes("caller", "payload")
  /\ hand' = [hand EXCEPT !.frame = wire[1].frame, !.rtcp = wire[1].rtcp]
  /\ UNCHANGED <<packets, lost>>
HeaderMisread ==
  /\ 1 \in DOMAIN wire /\ wire[1].is # "head"
  /\ \E k \in 0 .. Len(wire) :
       Cut(wire, wire', k) /\ lost' = lost \cup HeadsIn(k, "misread")
  /\ \/ Goes("caller", "idle") /\ hand' = hand
     \/ /\ Goes("caller", "payload")
        /\ \E rtcp \in BOOLEAN : hand' = [hand EXCEPT !.frame = None, !.rtcp = rtcp]
  /\ packets' = packets
HeaderLate ==
  /\ Goes("caller", "idle") /\ UNCHANGED <<hand, packets>>
  /\ \/ UNCHANGED <<wire, lost>>
     \/ /\ 1 \in DOMAIN wire /\ wire[1].is = "head" /\ Behind(wire, wire', 1)
        /\ lost' = lost \cup HeadsIn(1, "deadline")

LEMMA HeaderEnds ==
  ASSUME Shapes, at["caller"] = "header", ReadFrame
  PROVE  /\ UNCHANGED <<session, request, inbox, server, bounds, calls, overlapped, gaveUp>>
         /\ wire' \in Seq(Unit)
         /\ HeaderRead \/ (HeaderMisread /\ misframed') \/ HeaderLate
<1>1. UNCHANGED <<session, request, inbox, server, bounds, calls, overlapped, gaveUp>>
      /\ (ReadsHeader \/ MisreadsHeader \/ ReadTimesOut)
  BY DEF ReadFrame, ReadsHeader, MisreadsHeader, ReadsPayload, ReadsOtherPayload,
         ReadTimesOut, trouble
<1>2. wire # << >> => /\ Tail(wire) \in Seq(Unit) /\ Behind(wire, Tail(wire), 1)
                      /\ 1 \in DOMAIN wire
  BY TailIsBehind DEF Shapes
<1>3. CASE ReadsHeader
  BY <1>1, <1>2, <1>3 DEF ReadsHeader, HeaderRead, frames
<1>4. CASE MisreadsHeader
  <2>1. /\ \/ Goes("caller", "idle") /\ hand' = hand
           \/ /\ Goes("caller", "payload")
              /\ \E rtcp \in BOOLEAN : hand' = [hand EXCEPT !.frame = None, !.rtcp = rtcp]
        /\ packets' = packets
    BY <1>4 DEF MisreadsHeader
  <2>2. misframed'  BY <1>4, Zenon DEF MisreadsHeader
  <2>3. HeaderMisread  BY <1>4, <2>1, MisreadWire DEF HeaderMisread
  <2> QED  BY <1>1, <1>4, <2>2, <2>3, MisreadWire
<1>5. CASE ReadTimesOut
  <2>1. Goes("caller", "idle") /\ UNCHANGED <<hand, packets>>
    BY <1>5 DEF ReadTimesOut
  <2>2. CASE wire' = wire /\ lost' = lost
    BY <1>1, <2>1, <2>2 DEF HeaderLate, Shapes
  <2>3. CASE /\ wire # << >> /\ wire[1].is = "head" /\ wire' = Tail(wire)
             /\ lost' = lost \cup {[frame |-> wire[1].frame, at |-> "deadline"]}
    <3>1. {j \in 1 .. 1 : wire[j].is = "head"} = {1}  BY <2>3
    <3>2. HeadsIn(1, "deadline") = {[frame |-> wire[1].frame, at |-> "deadline"]}
      BY <3>1 DEF HeadsIn
    <3> QED  BY <1>1, <1>2, <2>1, <2>3, <3>2 DEF HeaderLate
  <2> QED  BY <1>5, <2>2, <2>3 DEF ReadTimesOut
<1> QED  BY <1>1, <1>3, <1>4, <1>5

LEMMA HeaderTypes ==
  ASSUME ConnTypes, session' \in BOOLEAN, at["caller"] = "header", ReadFrame
  PROVE  ConnTypes'
<1>1. UNCHANGED <<request, inbox, served, begun, sent, believed, taken>> /\ wire' \in Seq(Unit)
  BY HeaderEnds DEF server, bounds, calls, ConnTypes
<1>2. HeaderRead \/ HeaderMisread \/ HeaderLate  BY HeaderEnds DEF ConnTypes
<1>3. /\ at' \in [Goroutine -> State] /\ at'["caller"] \in {"idle", "payload"}
      /\ at'["keeper"] = at["keeper"] /\ packets' = packets
  BY <1>2, GoesTypes DEF HeaderRead, HeaderMisread, HeaderLate, State, Goroutine
<1>4. Len(wire) \in Nat /\ DOMAIN wire = 1 .. Len(wire)  BY Elements DEF ConnTypes
<1>5. /\ hand' \in [frame : 0 .. MaxFrames, rtcp : BOOLEAN, want : BOOLEAN]
      /\ hand'.frame <= sent
  <2>1. hand = [frame |-> hand.frame, rtcp |-> hand.rtcp, want |-> hand.want]
        /\ hand.want \in BOOLEAN /\ hand.frame \in 0 .. MaxFrames /\ hand.frame <= sent
    BY DEF ConnTypes, Shapes, Issued
  <2>2. ASSUME NEW f \in 0 .. MaxFrames, f <= sent, NEW rtcp \in BOOLEAN,
               hand' = [hand EXCEPT !.frame = f, !.rtcp = rtcp]
        PROVE  /\ hand' \in [frame : 0 .. MaxFrames, rtcp : BOOLEAN, want : BOOLEAN]
               /\ hand'.frame <= sent
    <3>1. hand' = [frame |-> f, rtcp |-> rtcp, want |-> hand.want]  BY <2>1, <2>2
    <3> QED  BY <2>1, <2>2, <3>1
  <2>3. CASE HeaderRead
    <3>1. /\ wire[1].frame \in 1 .. MaxFrames /\ wire[1].rtcp \in BOOLEAN
          /\ wire[1].frame <= sent
      BY <2>3, Elements, UnitTypes DEF HeaderRead, ConnTypes, Issued
    <3>2. hand' = [hand EXCEPT !.frame = wire[1].frame, !.rtcp = wire[1].rtcp]
      BY <2>3 DEF HeaderRead
    <3>3. wire[1].frame \in 0 .. MaxFrames  BY <3>1
    <3> QED  BY <2>2, <3>1, <3>2, <3>3
  <2>4. CASE \E rtcp \in BOOLEAN : hand' = [hand EXCEPT !.frame = None, !.rtcp = rtcp]
    <3>1. None \in 0 .. MaxFrames /\ None <= sent
      BY ConnectionAssumption DEF None, ConnTypes, Shapes
    <3> QED  BY <2>2, <2>4, <3>1
  <2>5. CASE hand' = hand
    BY <2>5 DEF ConnTypes, Shapes, Issued
  <2> QED  BY <1>2, <2>3, <2>4, <2>5 DEF HeaderMisread, HeaderLate
<1>6. lost' \subseteq Loss /\ \A l \in lost' : l.frame <= sent
  <2>1. CASE lost' = lost  BY <2>1 DEF ConnTypes, Shapes, Issued
  <2>2. CASE \E k \in 0 .. Len(wire), where \in Place : lost' = lost \cup HeadsIn(k, where)
    BY <2>2, HeadsInTypes DEF ConnTypes, Shapes, Issued
  <2>3. HeaderLate /\ lost' # lost => 1 \in 0 .. Len(wire)  BY <1>4 DEF HeaderLate
  <2> QED  BY <1>2, <2>1, <2>2, <2>3 DEF HeaderRead, HeaderMisread, HeaderLate, Place
<1>7. Shapes'  BY <1>1, <1>3, <1>5, <1>6 DEF ConnTypes, Shapes
<1>8. Roles'  BY <1>1, <1>3 DEF ConnTypes, Roles, Asking, Goroutine
<1>9. \E k : Cut(wire, wire', k)
  <2>1. CASE wire' = wire  BY <2>1, NothingCut DEF ConnTypes, Shapes
  <2>2. CASE Behind(wire, wire', 1)  BY <1>1, <2>2, BehindIsCut DEF ConnTypes, Shapes
  <2> QED  BY <1>2, <2>1, <2>2 DEF HeaderRead, HeaderMisread, HeaderLate
<1>10. Issued'  BY <1>1, <1>3, <1>5, <1>6, <1>9, CutIssued DEF ConnTypes, Issued
<1> QED  BY <1>7, <1>8, <1>10 DEF ConnTypes

LEMMA ReadFramesTypes ==
  ASSUME ConnTypes, session' \in BOOLEAN, NEW rtcp \in BOOLEAN, ReadFrames(rtcp)
  PROVE  ConnTypes'
<1>1. UNCHANGED <<request, inbox, wire, served, begun, sent, believed, taken, packets, lost>>
      /\ hand' = [frame |-> None, rtcp |-> FALSE, want |-> rtcp]
      /\ Goes("caller", "header")
  BY DEF ReadFrames, server, bounds, calls, frames
<1>2. /\ at' \in [Goroutine -> State] /\ at'["caller"] = "header"
      /\ at'["keeper"] = at["keeper"]
  BY <1>1, GoesTypes DEF State, Goroutine
<1>3. hand' \in [frame : 0 .. MaxFrames, rtcp : BOOLEAN, want : BOOLEAN] /\ hand'.frame = 0
  BY <1>1, ConnectionAssumption DEF None
<1>4. Shapes'  BY <1>1, <1>2, <1>3 DEF ConnTypes, Shapes
<1>5. Roles'  BY <1>1, <1>2 DEF ConnTypes, Roles, Asking, Goroutine
<1>6. Issued'  BY <1>1, <1>3 DEF ConnTypes, Shapes, Issued
<1> QED  BY <1>4, <1>5, <1>6 DEF ConnTypes

LEMMA ReadFrameNeeds ==
  ReadFrame => at["caller"] \in {"header", "payload"}
BY DEF ReadFrame, ReadsHeader, MisreadsHeader, ReadsPayload, ReadsOtherPayload, ReadTimesOut

LEMMA ConnTypesKept == ConnTypes /\ [Next]_vars => ConnTypes'
<1> SUFFICES ASSUME ConnTypes, [Next]_vars PROVE ConnTypes'
  OBVIOUS
<1>1. session' \in BOOLEAN  BY SessionKept DEF ConnTypes, Shapes
<1>2. CASE UNCHANGED vars
  BY <1>2 DEF vars, client, server, bounds, calls, frames, ConnTypes, Shapes, Roles, Asking,
              Issued
<1> QED
  BY <1>1, <1>2, ServerTypes, BeginsOne, BeginTypes, SendTypes, AnswerTypes, ReadFramesTypes,
     ReadFrameNeeds, HeaderTypes, PayloadTypes DEF Next, Request

LEMMA InitConn == Init => ConnTypes
<1> SUFFICES ASSUME Init PROVE ConnTypes
  OBVIOUS
<1>1. << >> \in Seq(Asked) /\ << >> \in Seq(Unit) /\ << >> \in Seq(Packet)
      /\ DOMAIN << >> = {}
  BY EmptySeq
<1>2. Shapes
  <2>1. session \in BOOLEAN  BY DEF Init
  <2>2. at \in [Goroutine -> State]  BY DEF Init, State
  <2>3. request \in [Goroutine -> [id : 0 .. MaxRequests, method : Method, again : BOOLEAN]]
    <3>1. NoRequest \in [id : 0 .. MaxRequests, method : Method, again : BOOLEAN]
      BY ConnectionAssumption DEF NoRequest, None, Method
    <3> QED  BY <3>1 DEF Init
  <2>4. hand \in [frame : 0 .. MaxFrames, rtcp : BOOLEAN, want : BOOLEAN]
    BY ConnectionAssumption DEF Init, NoFrame, None
  <2>5. begun \in 0 .. MaxRequests /\ sent \in 0 .. MaxFrames
    BY ConnectionAssumption DEF Init
  <2> QED  BY <1>1, <2>1, <2>2, <2>3, <2>4, <2>5 DEF Init, Shapes
<1>3. Roles  BY DEF Init, Roles, Asking, Goroutine
<1>4. Issued  BY <1>1 DEF Init, Issued, NoRequest, NoFrame, None
<1> QED  BY <1>2, <1>3, <1>4 DEF ConnTypes

LEMMA ConnTypesAlways == Spec => []ConnTypes
BY InitConn, ConnTypesKept, PTL DEF Spec

\* The types of ControlConnection (client.go:548, 300): ids name requests
\* begun, frames those sent, and only the caller reads frames.
THEOREM ConnectionTypeOK == Spec => []TypeOK
<1>1. ConnTypes => TypeOK
  <2> SUFFICES ASSUME ConnTypes PROVE TypeOK
    OBVIOUS
  <2>1. begun \in 0 .. MaxRequests /\ sent \in 0 .. MaxFrames /\ session \in BOOLEAN
        /\ served \subseteq Method /\ believed \subseteq Setting
    BY DEF ConnTypes, Shapes
  <2>2. ASSUME NEW g \in Goroutine
        PROVE  /\ at[g] \in {"idle", "send", "await", "again", "header", "payload"}
               /\ at[g] \in {"header", "payload"} => g = "caller"
               /\ request[g] \in [id : 0 .. begun, method : Method, again : BOOLEAN]
    <3>1. request[g] \in [id : 0 .. MaxRequests, method : Method, again : BOOLEAN]
          /\ request[g].id <= begun
      BY DEF ConnTypes, Shapes, Issued
    <3>2. request[g].id \in 0 .. begun  BY <2>1, <3>1
    <3> QED  BY <3>1, <3>2 DEF ConnTypes, Shapes, Roles, Goroutine, State
  <2>3. hand \in [frame : 0 .. sent, rtcp : BOOLEAN, want : BOOLEAN]
    <3>1. hand \in [frame : 0 .. MaxFrames, rtcp : BOOLEAN, want : BOOLEAN]
          /\ hand.frame <= sent
      BY DEF ConnTypes, Shapes, Issued
    <3>2. hand.frame \in 0 .. sent  BY <2>1, <3>1
    <3> QED  BY <3>1, <3>2
  <2>4. ASSUME NEW i \in DOMAIN inbox PROVE inbox[i].id \in 1 .. begun
    <3>1. inbox[i].id \in 1 .. MaxRequests /\ inbox[i].id <= begun
      BY Elements DEF ConnTypes, Issued, Asked
    <3> QED  BY <2>1, <3>1
  <2>5. ASSUME NEW i \in DOMAIN wire
        PROVE  /\ wire[i].is \in {"answer", "head", "body"}
               /\ wire[i].is # "answer" => wire[i].frame \in 0 .. sent
               /\ wire[i].is = "answer" => wire[i].status \in {"ok", "unauthorized", "refused"}
    <3>1. wire[i] \in Unit
          /\ (wire[i].is # "answer" => wire[i].frame <= sent)
      BY Elements DEF ConnTypes, Issued
    <3>2. wire[i].is # "answer" => wire[i].frame \in 0 .. MaxFrames
      BY <3>1, UnitTypes
    <3> QED  BY <2>1, <3>1, <3>2, UnitTypes DEF Status
  <2>6. taken \subseteq [asked : 1 .. begun, answered : 1 .. begun]  BY TakenBegun
  <2>7. ASSUME NEW l \in lost
        PROVE  l \in [frame : 1 .. sent,
                      at : {"readResponse", "skipped", "misread", "payload", "deadline"}]
    <3>1. l \in Loss /\ l.frame <= sent  BY DEF ConnTypes, Shapes, Issued
    <3>2. l.frame \in 1 .. sent  BY <2>1, <3>1 DEF Loss
    <3> QED  BY <3>1, <3>2 DEF Loss, Place
  <2> QED  BY <2>1, <2>2, <2>3, <2>4, <2>5, <2>6, <2>7 DEF TypeOK
<1> QED  BY <1>1, ConnTypesAlways, PTL
-----------------------------------------------------------------------------
(* Requests and answers.                                                   *)

\* As long as overlapped is not set, one goroutine at a time is busy.
Alone == overlapped \/ ~Busy("caller") \/ ~Busy("keeper")

\* What the server grants is in served, wherever the answer is.
Granted ==
  \A n \in DOMAIN wire :
    wire[n].is = "answer" /\ wire[n].status = "ok" => wire[n].method \in served

\* A goroutine waits for the answer to this request.
Waits(u) ==
  \E g \in Goroutine :
    at[g] = "await" /\ request[g].id = u.id /\ request[g].method = u.method

\* Whatever is on its way, a request or its answer, is waited for, and there is
\* at most one.
Outstanding ==
  /\ \A i \in DOMAIN inbox : Waits(inbox[i])
  /\ \A n \in DOMAIN wire : wire[n].is = "answer" => Waits(wire[n])
  /\ 1 \in DOMAIN inbox => Len(inbox) = 1 /\ \A n \in DOMAIN wire : wire[n].is # "answer"
  /\ \A m, n \in DOMAIN wire : wire[m].is = "answer" /\ wire[n].is = "answer" => m = n

\* What was answered was asked, and what was believed was granted.
Honest ==
  /\ \A t \in taken : t.asked = t.answered
  /\ believed \subseteq served
  /\ "SETUP" \in believed => session

TalkInv == Undisturbed => Outstanding /\ Honest

\* Nothing of a disturbance is ever taken back.
LEMMA DisturbedStays == [Next]_vars /\ Undisturbed' => Undisturbed
<1> SUFFICES ASSUME [Next]_vars, Undisturbed' PROVE ~overlapped /\ ~gaveUp
  BY DEF Undisturbed
<1>1. ~overlapped' /\ ~gaveUp'  BY DEF Undisturbed
<1>2. CASE Server \/ UNCHANGED vars
  <2>1. UNCHANGED <<overlapped, gaveUp>>  BY <1>2 DEF Server, Serve, SendFrame, vars, trouble
  <2> QED  BY <1>1, <2>1, Zenon
<1>3. ASSUME NEW g, NEW method, NEW again, Begin(g, method, again)
      PROVE  ~overlapped /\ ~gaveUp
  BY <1>1, <1>3, Zenon DEF Begin
<1>4. CASE (\E method \in Setting : Calls(method)) \/ KeepAliveTicks
  BY <1>3, <1>4, Zenon DEF Calls, KeepAliveTicks
<1>5. ASSUME NEW g \in Goroutine, Request(g) PROVE ~overlapped /\ ~gaveUp
  <2>1. CASE RetryWithAuth(g)  BY <1>3, <2>1, Zenon DEF RetryWithAuth
  <2>2. CASE Send(g) \/ SendFails(g) \/ ReadsAnswer(g)
    <3>1. UNCHANGED <<overlapped, gaveUp>>  BY <2>2 DEF Send, SendFails, ReadsAnswer, trouble
    <3> QED  BY <1>1, <3>1, Zenon
  <2>3. CASE MisreadsAnswer(g) \/ AnswerTimesOut(g)
    BY <1>1, <2>3, Zenon DEF MisreadsAnswer, AnswerTimesOut
  <2> QED  BY <1>5, <2>1, <2>2, <2>3 DEF Request
<1>6. ASSUME NEW rtcp \in BOOLEAN, ReadFrames(rtcp) PROVE ~overlapped /\ ~gaveUp
  BY <1>1, <1>6, Zenon DEF ReadFrames
<1>7. CASE ReadFrame
  <2>1. UNCHANGED <<overlapped, gaveUp>>
    BY <1>7 DEF ReadFrame, ReadsHeader, MisreadsHeader, ReadsPayload, ReadsOtherPayload,
                ReadTimesOut, trouble
  <2> QED  BY <1>1, <2>1, Zenon
<1> QED  BY <1>2, <1>4, <1>5, <1>6, <1>7 DEF Next

LEMMA BeginOverlaps ==
  ASSUME NEW g, NEW method, NEW again, Begin(g, method, again)
  PROVE  /\ ~overlapped' => ~overlapped /\ \A h \in Goroutine \ {g} : ~Busy(h)
         /\ gaveUp' = gaveUp /\ misframed' = misframed
BY Zenon DEF Begin

LEMMA ReadFramesOverlaps ==
  ASSUME NEW rtcp, ReadFrames(rtcp)
  PROVE  /\ ~overlapped' => ~overlapped /\ ~Busy("keeper")
         /\ gaveUp' = gaveUp /\ misframed' = misframed
BY Zenon DEF ReadFrames

\* Nobody becomes busy but by a request or a read of its own.
LEMMA OthersStayIdle ==
  ASSUME ConnTypes, [Next]_vars,
         ~ \E g \in Goroutine, method \in Method, again \in BOOLEAN : Begin(g, method, again),
         ~ \E rtcp \in BOOLEAN : ReadFrames(rtcp)
  PROVE  /\ \A g \in Goroutine : Busy(g)' => Busy(g)
         /\ overlapped' = overlapped
<1>1. CASE Server \/ UNCHANGED vars
  BY <1>1 DEF Server, Serve, SendFrame, vars, client, trouble, Busy
<1>2. ASSUME NEW g \in Goroutine, Request(g)
      PROVE  (\A h \in Goroutine : Busy(h)' => Busy(h)) /\ overlapped' = overlapped
  <2>1. ~RetryWithAuth(g)  BY BeginsOne
  <2>2. at[g] \in {"send", "await"} /\ \E where \in {"await", "idle", "again"} : Goes(g, where)
    BY <1>2, <2>1 DEF Request, Send, SendFails, ReadsAnswer, Takes, MisreadsAnswer, AnswerTimesOut
  <2>3. overlapped' = overlapped
    BY <1>2, <2>1, Zenon DEF Request, Send, SendFails, ReadsAnswer, MisreadsAnswer, AnswerTimesOut,
          trouble
  <2>4. \A h \in Goroutine \ {g} : at'[h] = at[h]  BY <2>2, GoesTypes DEF State
  <2> QED  BY <2>2, <2>3, <2>4 DEF Busy
<1>3. CASE ReadFrame
  <2>1. at["caller"] \in {"header", "payload"}  BY <1>3, ReadFrameNeeds
  <2>2. \E where \in {"idle", "header", "payload"} : Goes("caller", where)
    BY <1>3 DEF ReadFrame, ReadsHeader, MisreadsHeader, ReadsPayload, ReadsOtherPayload,
                ReadTimesOut, Delivers, Unparsable
  <2>3. overlapped' = overlapped
    BY <1>3, Zenon DEF ReadFrame, ReadsHeader, MisreadsHeader, ReadsPayload, ReadsOtherPayload,
                ReadTimesOut, trouble
  <2>4. at'["keeper"] = at["keeper"]  BY <2>2, GoesTypes DEF State, Goroutine
  <2> QED  BY <2>1, <2>3, <2>4 DEF Busy, Goroutine
<1> QED  BY <1>1, <1>2, <1>3, BeginsOne DEF Next

LEMMA AloneKept == ConnTypes /\ Alone /\ [Next]_vars => Alone'
<1> SUFFICES ASSUME ConnTypes, Alone, [Next]_vars PROVE Alone'
  OBVIOUS
<1>1. CASE \E g \in Goroutine, method \in Method, again \in BOOLEAN : Begin(g, method, again)
  <2>1. PICK g \in Goroutine, method \in Method, again \in BOOLEAN : Begin(g, method, again)
    BY <1>1
  <2>2. Goes(g, "send")  BY <2>1 DEF Begin
  <2>3. \A h \in Goroutine \ {g} : at'[h] = at[h]  BY <2>2, GoesTypes DEF State
  <2>4. ~overlapped' => \A h \in Goroutine \ {g} : ~Busy(h)  BY <2>1, BeginOverlaps
  <2> QED  BY <2>3, <2>4 DEF Alone, Busy, Goroutine
<1>2. CASE \E rtcp \in BOOLEAN : ReadFrames(rtcp)
  <2>1. ~overlapped' => ~Busy("keeper")  BY <1>2, ReadFramesOverlaps
  <2>2. at'["keeper"] = at["keeper"]
    BY <1>2, GoesTypes DEF ReadFrames, State, Goroutine
  <2> QED  BY <2>1, <2>2 DEF Alone, Busy
<1>3. CASE (\A g \in Goroutine : Busy(g)' => Busy(g)) /\ overlapped' = overlapped
  BY <1>3 DEF Alone, Goroutine
<1> QED  BY <1>1, <1>2, <1>3, OthersStayIdle

LEMMA BehindUnits ==
  ASSUME Shapes, wire' \in Seq(Unit), NEW k, Behind(wire, wire', k)
  PROVE  /\ DOMAIN wire' = 1 .. Len(wire') /\ Len(wire') \in Nat /\ k \in Nat
         /\ \A i \in DOMAIN wire' : i + k \in DOMAIN wire /\ wire'[i] = wire[i + k]
<1>1. DOMAIN wire' = 1 .. Len(wire') /\ Len(wire') \in Nat  BY LenProperties
<1>2. DOMAIN wire = 1 .. Len(wire) /\ Len(wire) \in Nat  BY Elements
<1> QED  BY <1>1, <1>2 DEF Behind

\* Reading frames leaves no answer on the wire that was not there.
LEMMA ReadFrameAnswers ==
  ASSUME ConnTypes, ReadFrame
  PROVE  \A n \in DOMAIN wire' :
           wire'[n].is = "answer" => \E m \in DOMAIN wire : wire'[n] = wire[m]
<1>1. ASSUME NEW k, wire' \in Seq(Unit), Cut(wire, wire', k), NEW n \in DOMAIN wire',
             wire'[n].is = "answer"
      PROVE  \E m \in DOMAIN wire : wire'[n] = wire[m]
  <2>1. PICK s \in Nat : \A i \in DOMAIN wire' :
                            /\ i + s \in DOMAIN wire
                            /\ wire'[i] = IF k < i + s THEN wire[i + s] ELSE Body(None)
    BY <1>1, CutUnits DEF ConnTypes
  <2>2. Body(None).is # "answer"  BY DEF Body
  <2> QED  BY <1>1, <2>1, <2>2
<1>2. CASE at["caller"] = "payload"
  <2>1. wire' \in Seq(Unit) /\ \E k \in 0 .. Len(wire) : Cut(wire, wire', k)
    BY <1>2, PayloadEnds
  <2> QED  BY <1>1, <2>1
<1>3. CASE at["caller"] = "header"
  <2>1. wire' \in Seq(Unit)
        /\ (wire' = wire \/ Behind(wire, wire', 1) \/ \E k : Cut(wire, wire', k))
    BY <1>3, HeaderEnds DEF ConnTypes, HeaderRead, HeaderMisread, HeaderLate
  <2>2. CASE wire' = wire  BY <2>2
  <2>3. Behind(wire, wire', 1) => Cut(wire, wire', 1)
    BY <2>1, BehindIsCut DEF ConnTypes, Shapes
  <2> QED  BY <1>1, <2>1, <2>2, <2>3
<1> QED  BY <1>2, <1>3, ReadFrameNeeds

LEMMA GrantedKept == ConnTypes /\ Granted /\ [Next]_vars => Granted'
<1> SUFFICES ASSUME ConnTypes, Granted, [Next]_vars PROVE Granted'
  OBVIOUS
<1>1. CASE UNCHANGED <<wire, served>>  BY <1>1 DEF Granted
<1>2. CASE /\ served' = served
           /\ \A n \in DOMAIN wire' :
                wire'[n].is = "answer" => \E m \in DOMAIN wire : wire'[n] = wire[m]
  BY <1>2 DEF Granted
<1>3. ASSUME NEW status \in Status, Serve(status) PROVE Granted'
  <2>1. /\ DOMAIN wire' = 1 .. Len(wire) + 1 /\ 1 \in DOMAIN inbox
        /\ \A i \in 1 .. Len(wire) : wire'[i] = wire[i]
        /\ wire'[Len(wire) + 1].method = inbox[1].method
        /\ wire'[Len(wire) + 1].status = status
        /\ served' = IF status = "ok" THEN served \cup {inbox[1].method} ELSE served
    BY <1>3, ServeWire DEF ConnTypes
  <2>2. Len(wire) \in Nat /\ DOMAIN wire = 1 .. Len(wire)  BY Elements DEF ConnTypes
  <2>3. \A n \in DOMAIN wire' : n \in DOMAIN wire \/ n = Len(wire) + 1  BY <2>1, <2>2
  <2> QED  BY <2>1, <2>2, <2>3 DEF Granted
<1>4. ASSUME NEW rtcp \in BOOLEAN, SendFrame(rtcp) PROVE Granted'
  <2>1. /\ DOMAIN wire' = 1 .. Len(wire) + 2
        /\ \A i \in 1 .. Len(wire) : wire'[i] = wire[i]
        /\ wire'[Len(wire) + 1].is = "head" /\ wire'[Len(wire) + 2].is = "body"
    BY <1>4, SendFrameWire DEF ConnTypes, Body
  <2>2. Len(wire) \in Nat /\ DOMAIN wire = 1 .. Len(wire)  BY Elements DEF ConnTypes
  <2>3. \A n \in DOMAIN wire' : n \in DOMAIN wire \/ n = Len(wire) + 1 \/ n = Len(wire) + 2
    BY <2>1, <2>2
  <2>4. served' = served  BY <1>4 DEF SendFrame, server
  <2> QED  BY <2>1, <2>2, <2>3, <2>4 DEF Granted
<1>5. ASSUME NEW g \in Goroutine, ReadsAnswer(g) \/ MisreadsAnswer(g) \/ AnswerTimesOut(g)
      PROVE  Granted'
  <2>1. \E k \in 0 .. Len(wire) : Swallow(k)
    <3>1. Len(wire) \in Nat /\ DOMAIN wire = 1 .. Len(wire)  BY Elements DEF ConnTypes
    <3>2. AnswersIn(wire) \subseteq DOMAIN wire  BY DEF AnswersIn
    <3> QED  BY <1>5, <3>1, <3>2 DEF ReadsAnswer, MisreadsAnswer, AnswerTimesOut
  <2>2. PICK k \in 0 .. Len(wire) : Swallow(k)  BY <2>1
  <2>3. wire' \in Seq(Unit) /\ Behind(wire, wire', k)
    BY <2>2, SwallowTypes DEF ConnTypes, Shapes
  <2>4. served' = served
    BY <1>5 DEF ReadsAnswer, MisreadsAnswer, AnswerTimesOut, server
  <2> QED  BY <1>2, <2>3, <2>4, BehindUnits DEF ConnTypes
<1>6. CASE ReadFrame
  <2>1. served' = served
    BY <1>6 DEF ReadFrame, ReadsHeader, MisreadsHeader, ReadsPayload, ReadsOtherPayload,
                ReadTimesOut, server
  <2> QED  BY <1>2, <1>6, <2>1, ReadFrameAnswers
<1>7. CASE \E g \in Goroutine, method \in Method, again \in BOOLEAN : Begin(g, method, again)
  BY <1>1, <1>7 DEF Begin, server
<1>8. CASE (\E rtcp \in BOOLEAN : ReadFrames(rtcp)) \/ UNCHANGED vars
           \/ \E g \in Goroutine : Send(g) \/ SendFails(g)
  BY <1>1, <1>8 DEF ReadFrames, vars, Send, SendFails, server
<1> QED
  BY <1>3, <1>4, <1>5, <1>6, <1>7, <1>8, BeginsOne DEF Next, Server, Request, Status

LEMMA HonestKept ==
  ASSUME Honest, UNCHANGED <<believed, taken, session>>, served \subseteq served'
  PROVE  Honest'
<1>1. "SETUP" \in believed' => session'  BY Zenon DEF Honest
<1> QED  BY <1>1 DEF Honest

\* With nobody waiting, nothing is on its way.
LEMMA NothingOutstanding ==
  ASSUME Shapes, Outstanding, \A g \in Goroutine : at[g] # "await"
  PROVE  /\ DOMAIN inbox = {} /\ Len(inbox) = 0
         /\ \A n \in DOMAIN wire : wire[n].is # "answer"
<1>1. \A u : ~Waits(u)  BY DEF Waits
<1>2. DOMAIN inbox = {}  BY <1>1 DEF Outstanding
<1>3. DOMAIN inbox = 1 .. Len(inbox) /\ Len(inbox) \in Nat  BY Elements
<1>4. ~(1 <= Len(inbox))
  <2> SUFFICES ASSUME 1 <= Len(inbox) PROVE FALSE
    OBVIOUS
  <2>1. 1 \in 1 .. Len(inbox)  BY <1>3
  <2> QED  BY <1>2, <1>3, <2>1
<1>5. Len(inbox) = 0  BY <1>3, <1>4
<1> QED  BY <1>1, <1>2, <1>5 DEF Outstanding

LEMMA BeginTalks ==
  ASSUME ConnTypes, Outstanding, Honest,
         NEW g \in Goroutine, NEW method, NEW again,
         at[g] \in {"idle", "again"}, Begin(g, method, again)
  PROVE  Outstanding' /\ Honest'
<1>1. UNCHANGED <<inbox, wire, believed, taken, session, served>>
  BY DEF Begin, server, calls
<1>2. \A h \in Goroutine \ {g} : at'[h] = at[h] /\ request'[h] = request[h]
  BY GoesTypes DEF Begin, State, ConnTypes, Shapes
<1>3. \A u : Waits(u) => Waits(u)'
  BY <1>2 DEF Waits
<1> QED  BY <1>1, <1>3, HonestKept DEF Outstanding

LEMMA SendTalks ==
  ASSUME ConnTypes, Outstanding, Honest, NEW g \in Goroutine,
         \A h \in Goroutine : Busy(g) /\ Busy(h) => g = h,
         Send(g) \/ SendFails(g)
  PROVE  Outstanding' /\ Honest'
<1> DEFINE r == [id |-> request[g].id, method |-> request[g].method, session |-> session]
<1>1. /\ at[g] = "send" /\ UNCHANGED <<request, wire, believed, taken, session, served>>
  BY DEF Send, SendFails, server, calls
<1>2. Honest'  BY <1>1, HonestKept
<1>3. \A h \in Goroutine : at[h] # "await"  BY <1>1 DEF Busy
<1>4. /\ DOMAIN inbox = {} /\ Len(inbox) = 0
      /\ \A n \in DOMAIN wire : wire[n].is # "answer"
  BY <1>3, NothingOutstanding DEF ConnTypes
<1>5. CASE SendFails(g)
  <2>1. inbox' = inbox  BY <1>5 DEF SendFails
  <2> QED  BY <1>1, <1>2, <1>4, <2>1 DEF Outstanding
<1>6. CASE Send(g)
  <2>1. Goes(g, "await") /\ inbox' = Append(inbox, r)  BY <1>6 DEF Send
  <2>2. r \in Asked /\ r.id = request[g].id /\ r.method = request[g].method
    BY <1>1 DEF ConnTypes, Shapes, Roles, Asking, Issued, Asked, None
  <2>3. r' = r  BY <1>1
  <2> HIDE DEF r
  <2>4. Len(inbox') = 1 /\ DOMAIN inbox' = {1} /\ inbox'[1] = r
    <3>1. /\ inbox' \in Seq(Asked) /\ Len(inbox') = Len(inbox) + 1
          /\ inbox'[Len(inbox) + 1] = r
      BY <2>1, <2>2, AppendProperties DEF ConnTypes, Shapes
    <3>2. DOMAIN inbox' = 1 .. Len(inbox')  BY <3>1, LenProperties
    <3> QED  BY <1>4, <3>1, <3>2
  <2>5. at'[g] = "await"  BY <2>1, GoesTypes DEF State
  <2>6. Waits(inbox[1])'
    <3>1. at'[g] = "await" /\ request'[g].id = r.id /\ request'[g].method = r.method
      BY <1>1, <2>2, <2>5
    <3> QED  BY <2>4, <3>1 DEF Waits
  <2> QED  BY <1>1, <1>2, <1>4, <2>4, <2>6 DEF Outstanding
<1> QED  BY <1>5, <1>6

LEMMA ServerTalks ==
  ASSUME ConnTypes, Outstanding, Honest, Server
  PROVE  Outstanding' /\ Honest'
<1>1. UNCHANGED <<session, at, request, believed, taken>>
  BY DEF Server, Serve, SendFrame, client, calls
<1>2. Len(wire) \in Nat /\ DOMAIN wire = 1 .. Len(wire)
      /\ Len(inbox) \in Nat /\ DOMAIN inbox = 1 .. Len(inbox)
  BY Elements DEF ConnTypes
<1>3. ASSUME NEW status \in Status, Serve(status) PROVE Outstanding' /\ Honest'
  <2>1. /\ 1 \in DOMAIN inbox /\ inbox' \in Seq(Asked) /\ Behind(inbox, inbox', 1)
        /\ DOMAIN wire' = 1 .. Len(wire) + 1
        /\ \A i \in 1 .. Len(wire) : wire'[i] = wire[i]
        /\ wire'[Len(wire) + 1].id = inbox[1].id
        /\ wire'[Len(wire) + 1].method = inbox[1].method
        /\ served' = IF status = "ok" THEN served \cup {inbox[1].method} ELSE served
    BY <1>3, ServeWire DEF ConnTypes
  <2>2. /\ Len(inbox) = 1 /\ Waits(inbox[1])
        /\ \A n \in DOMAIN wire : wire[n].is # "answer"
    BY <2>1 DEF Outstanding
  <2>3. DOMAIN inbox' = {}
    <3>1. DOMAIN inbox' = 1 .. Len(inbox') /\ Len(inbox') = 0
      BY <2>1, <2>2, LenProperties DEF Behind
    <3> QED  BY <3>1
  <2>4. \A n \in DOMAIN wire' : wire'[n].is = "answer" => n = Len(wire) + 1
    <3>1. \A n \in DOMAIN wire' : n \in DOMAIN wire \/ n = Len(wire) + 1  BY <1>2, <2>1
    <3> QED  BY <1>2, <2>1, <2>2, <3>1
  <2>5. \E g \in Goroutine : /\ at'[g] = "await"
                             /\ request'[g].id = wire'[Len(wire) + 1].id
                             /\ request'[g].method = wire'[Len(wire) + 1].method
    BY <1>1, <2>1, <2>2 DEF Waits
  <2>6. \A n \in DOMAIN wire' : wire'[n].is = "answer" => Waits(wire[n])'
    BY <2>4, <2>5 DEF Waits
  <2>7. Outstanding'  BY <2>3, <2>4, <2>6 DEF Outstanding
  <2> QED  BY <1>1, <2>1, <2>7, HonestKept
<1>4. ASSUME NEW rtcp \in BOOLEAN, SendFrame(rtcp) PROVE Outstanding' /\ Honest'
  <2>1. /\ DOMAIN wire' = 1 .. Len(wire) + 2
        /\ \A i \in 1 .. Len(wire) : wire'[i] = wire[i]
        /\ wire'[Len(wire) + 1].is = "head" /\ wire'[Len(wire) + 2].is = "body"
    BY <1>4, SendFrameWire DEF ConnTypes, Body
  <2>2. UNCHANGED <<inbox, served>>  BY <1>4 DEF SendFrame, server
  <2>3. \A n \in DOMAIN wire' : n \in DOMAIN wire \/ n = Len(wire) + 1 \/ n = Len(wire) + 2
    BY <1>2, <2>1
  <2>4. \A n \in DOMAIN wire' :
          wire'[n].is = "answer" => n \in DOMAIN wire /\ wire'[n] = wire[n]
    BY <1>2, <2>1, <2>3
  <2>5. \A u : Waits(u) => Waits(u)'  BY <1>1 DEF Waits
  <2>6. Outstanding'
    <3>1. \A n \in DOMAIN wire' : wire'[n].is = "answer" => Waits(wire[n])'
      BY <1>1, <2>4 DEF Outstanding, Waits
    <3> QED  BY <2>2, <2>4, <2>5, <3>1 DEF Outstanding
  <2> QED  BY <1>1, <2>2, <2>6, HonestKept
<1> QED  BY <1>3, <1>4 DEF Server, Status

\* The answer taken is the one the request waits for: no other is on its way.
LEMMA AnswerTalks ==
  ASSUME ConnTypes, Granted, Outstanding, Honest, NEW g \in Goroutine,
         \A h \in Goroutine : Busy(g) /\ Busy(h) => g = h,
         ReadsAnswer(g)
  PROVE  Outstanding' /\ Honest'
<1>1. PICK n \in AnswersIn(wire) : (\E k \in n .. Len(wire) : Swallow(k)) /\ Takes(g, wire[n])
  BY DEF ReadsAnswer
<1>2. /\ at[g] = "await" /\ UNCHANGED <<request, inbox, served>>
      /\ n \in DOMAIN wire /\ wire[n].is = "answer"
      /\ Len(wire) \in Nat /\ DOMAIN wire = 1 .. Len(wire)
  BY Elements DEF ReadsAnswer, server, AnswersIn, ConnTypes
<1>3. PICK k \in n .. Len(wire) : Swallow(k)  BY <1>1
<1>4. request[g].id = wire[n].id /\ request[g].method = wire[n].method
  <2>1. Waits(wire[n])  BY <1>2 DEF Outstanding
  <2>2. \A h \in Goroutine : at[h] = "await" => g = h  BY <1>2 DEF Busy
  <2> QED  BY <2>1, <2>2 DEF Waits
<1>5. DOMAIN inbox = {}
  <2>1. 1 \notin DOMAIN inbox  BY <1>2 DEF Outstanding
  <2>2. DOMAIN inbox = 1 .. Len(inbox) /\ Len(inbox) \in Nat  BY Elements DEF ConnTypes
  <2>3. ~(1 <= Len(inbox))  BY <2>1, <2>2
  <2> QED  BY <2>2, <2>3
<1>6. \A i \in DOMAIN wire' : wire'[i].is # "answer"
  <2>1. wire' \in Seq(Unit) /\ Behind(wire, wire', k)
    BY <1>2, <1>3, SwallowTypes DEF ConnTypes, Shapes
  <2>2. /\ DOMAIN wire' = 1 .. Len(wire') /\ Len(wire') \in Nat
        /\ \A i \in DOMAIN wire' : i + k \in DOMAIN wire /\ wire'[i] = wire[i + k]
    BY <2>1, BehindUnits DEF ConnTypes
  <2>3. SUFFICES ASSUME NEW i \in DOMAIN wire', wire'[i].is = "answer" PROVE FALSE
    OBVIOUS
  <2>4. i + k \in DOMAIN wire /\ wire[i + k].is = "answer"  BY <2>2, <2>3
  <2>5. i + k = n  BY <1>2, <2>4 DEF Outstanding
  <2> QED  BY <1>2, <2>2, <2>5
<1>7. Outstanding'  BY <1>2, <1>5, <1>6 DEF Outstanding
<1>8. \A t \in taken' : t.asked = t.answered
  BY <1>1, <1>4 DEF Takes, Honest
<1>9. believed' \subseteq served'
  <2>1. wire[n].status = "ok" => wire[n].method \in served  BY <1>2 DEF Granted
  <2> QED  BY <1>1, <1>2, <1>4, <2>1 DEF Takes, Honest
<1>10. "SETUP" \in believed' => session'
  <2> DEFINE setUp == request[g].method = "SETUP"
             ok    == wire[n].status = "ok"
  <2>1. "SETUP" \in believed' => "SETUP" \in believed \/ (ok /\ setUp)
    BY <1>1 DEF Takes
  <2>2. session' = (session \/ (ok /\ setUp /\ wire[n].method = "SETUP"))
    BY <1>1, Zenon DEF Takes
  <2>3. setUp => wire[n].method = "SETUP"  BY <1>4
  <2> HIDE DEF setUp, ok
  <2> QED  BY <2>1, <2>2, <2>3, Zenon DEF Honest
<1> QED  BY <1>7, <1>8, <1>9, <1>10 DEF Honest

LEMMA FrameTalks ==
  ASSUME ConnTypes, Outstanding, Honest,
         \A h \in Goroutine : Busy("caller") /\ Busy(h) => h = "caller",
         ReadFrame
  PROVE  Outstanding' /\ Honest'
<1>1. UNCHANGED <<session, request, inbox, believed, taken, served>>
  BY DEF ReadFrame, ReadsHeader, MisreadsHeader, ReadsPayload, ReadsOtherPayload, ReadTimesOut,
         calls, server
<1>2. at["caller"] \in {"header", "payload"}  BY ReadFrameNeeds
<1>3. \A g \in Goroutine : at[g] # "await"  BY <1>2 DEF Busy
<1>4. DOMAIN inbox = {} /\ \A n \in DOMAIN wire : wire[n].is # "answer"
  BY <1>3, NothingOutstanding DEF ConnTypes
<1>5. \A n \in DOMAIN wire' : wire'[n].is # "answer"  BY <1>4, ReadFrameAnswers
<1>6. Outstanding'  BY <1>1, <1>4, <1>5 DEF Outstanding
<1> QED  BY <1>1, <1>6, HonestKept

LEMMA TalkKept == ConnTypes /\ Alone /\ Granted /\ TalkInv /\ [Next]_vars => TalkInv'
<1> SUFFICES ASSUME ConnTypes, Alone, Granted, TalkInv, [Next]_vars, Undisturbed'
             PROVE  Outstanding' /\ Honest'
  BY DEF TalkInv
<1>1. /\ Outstanding /\ Honest /\ ~overlapped
      /\ ~gaveUp'
  BY DisturbedStays DEF TalkInv, Undisturbed
<1>2. \A g, h \in Goroutine : Busy(g) /\ Busy(h) => g = h
  BY <1>1 DEF Alone, Goroutine
<1>3. CASE UNCHANGED vars
  <2>1. UNCHANGED <<inbox, wire, at, request, believed, taken, session, served>>
    BY <1>3 DEF vars, client, server, calls
  <2>2. \A u : Waits(u) => Waits(u)'  BY <2>1 DEF Waits
  <2> QED  BY <1>1, <2>1, <2>2, HonestKept DEF Outstanding
<1>4. CASE \E g \in Goroutine, method \in Method, again \in BOOLEAN :
             at[g] \in {"idle", "again"} /\ Begin(g, method, again)
  BY <1>1, <1>4, BeginTalks
<1>5. CASE \E g \in Goroutine : MisreadsAnswer(g) \/ AnswerTimesOut(g)
  <2>1. gaveUp'  BY <1>5, Zenon DEF MisreadsAnswer, AnswerTimesOut
  <2> QED  BY <1>1, <2>1
<1>6. CASE \E rtcp \in BOOLEAN : ReadFrames(rtcp)
  <2>1. /\ UNCHANGED <<inbox, wire, request, believed, taken, session, served>>
        /\ at["caller"] = "idle" /\ Goes("caller", "header")
    BY <1>6 DEF ReadFrames, Busy, calls, server
  <2>2. at'["keeper"] = at["keeper"]  BY <2>1, GoesTypes DEF State, Goroutine
  <2>3. \A u : Waits(u) => Waits(u)'  BY <2>1, <2>2 DEF Waits, Goroutine
  <2> QED  BY <1>1, <2>1, <2>3, HonestKept DEF Outstanding
<1>7. CASE ReadFrame
  BY <1>1, <1>2, <1>7, FrameTalks DEF Goroutine
<1>8. CASE \E g \in Goroutine : Send(g) \/ SendFails(g)
  BY <1>1, <1>2, <1>8, SendTalks
<1>9. CASE \E g \in Goroutine : ReadsAnswer(g)
  BY <1>1, <1>2, <1>9, AnswerTalks
<1> QED
  BY <1>1, <1>3, <1>4, <1>5, <1>6, <1>7, <1>8, <1>9, ServerTalks, BeginsOne DEF Next, Request

LEMMA TalkAlways == Spec => [](Alone /\ Granted /\ TalkInv)
<1>1. Init => Alone /\ Granted /\ TalkInv
  <2> SUFFICES ASSUME Init PROVE Alone /\ Granted /\ TalkInv
    OBVIOUS
  <2>1. DOMAIN << >> = {}  BY EmptySeq
  <2>2. Alone  BY DEF Init, Alone, Busy, Goroutine
  <2>3. Granted  BY <2>1 DEF Init, Granted
  <2>4. Outstanding /\ Honest  BY <2>1 DEF Init, Outstanding, Honest
  <2> QED  BY <2>2, <2>3, <2>4 DEF TalkInv
<1> QED  BY <1>1, ConnTypesAlways, AloneKept, GrantedKept, TalkKept, PTL DEF Spec

\* The answer readResponse takes is the answer to the request just sent
\* (client.go:584, no CSeq compared), as long as no two goroutines use the
\* connection at once and no request was given up.
THEOREM AnswersAreOwn == Spec => []OwnAnswers
<1>1. TalkInv => OwnAnswers  BY DEF TalkInv, Honest, OwnAnswers
<1> QED  BY <1>1, TalkAlways, PTL

\* A call that returns no error was granted by the server, and SETUP leaves a
\* session (client.go:190, 271), under the same condition.
THEOREM SuccessIsTruthful == Spec => []Truthful
<1>1. TalkInv => Truthful  BY DEF TalkInv, Honest, Truthful
<1> QED  BY <1>1, TalkAlways, PTL
-----------------------------------------------------------------------------
(* Frames: each is in one place, and they pass in the order sent.          *)

\* The frame between its header and its payload.
Held == IF at["caller"] = "payload" THEN hand.frame ELSE None

OnWire(f) == \E i \in DOMAIN wire : wire[i].is = "head" /\ wire[i].frame = f
Handed(f) == \E i \in DOMAIN packets : packets[i].frame = f
Gone(f)   == \E l \in lost : l.frame = f

\* What a step does to the frames.
Rests   == UNCHANGED <<wire, packets, lost, sent, Held>>
Answers ==
  /\ UNCHANGED <<packets, lost, sent, Held>>
  /\ DOMAIN wire' = 1 .. Len(wire) + 1
  /\ \A i \in 1 .. Len(wire) : wire'[i] = wire[i]
  /\ wire'[Len(wire) + 1].is = "answer"
Sends ==
  /\ UNCHANGED <<packets, lost, Held>> /\ sent' = sent + 1
  /\ DOMAIN wire' = 1 .. Len(wire) + 2
  /\ \A i \in 1 .. Len(wire) : wire'[i] = wire[i]
  /\ wire'[Len(wire) + 1].is = "head" /\ wire'[Len(wire) + 1].frame = sent'
  /\ wire'[Len(wire) + 2] = Body(sent')
Drops ==
  /\ UNCHANGED <<packets, sent, Held>>
  /\ \E k \in 0 .. Len(wire), where \in {"readResponse", "misread", "deadline"} :
       Cut(wire, wire', k) /\ lost' = lost \cup HeadsIn(k, where)
Picks   ==
  /\ UNCHANGED <<packets, lost, sent>> /\ Held = None
  /\ 1 \in DOMAIN wire /\ wire[1].is = "head" /\ Behind(wire, wire', 1)
  /\ Held' = wire[1].frame
Ends ==
  /\ sent' = sent /\ Held' = None
  /\ \E k \in 0 .. Len(wire), where \in {"payload", "deadline"} :
       /\ Cut(wire, wire', k)
       /\ \/ /\ \E whole \in BOOLEAN :
                  packets' = Append(packets, [frame |-> Held, whole |-> whole])
             /\ lost' = lost \cup HeadsIn(k, where)
          \/ /\ packets' = packets
             /\ \E place \in Place :
                  lost' = lost \cup HeadsIn(k, where)
                            \cup {[frame |-> f, at |-> place] : f \in {Held} \ {None}}

FrameStep == Rests \/ Answers \/ Sends \/ Drops \/ Picks \/ Ends

\* Whoever goes on outside a payload leaves the frame in hand alone.
LEMMA HeldKept ==
  ASSUME ConnTypes, NEW g \in Goroutine, at[g] # "payload",
         NEW where \in {"idle", "send", "await", "again", "header"}, Goes(g, where),
         UNCHANGED hand
  PROVE  Held' = Held
<1>1. /\ at'[g] = where
      /\ \A h \in Goroutine \ {g} : at'[h] = at[h]
  BY GoesTypes DEF State
<1>2. CASE g = "caller"  BY <1>1, <1>2 DEF Held
<1>3. CASE g # "caller"
  <2>1. at'["caller"] = at["caller"]  BY <1>1, <1>3 DEF Goroutine
  <2> QED  BY <2>1 DEF Held
<1> QED  BY <1>2, <1>3

LEMMA FrameSteps == ConnTypes /\ [Next]_vars => FrameStep
<1> SUFFICES ASSUME ConnTypes, [Next]_vars PROVE FrameStep
  OBVIOUS
<1>1. Len(wire) \in Nat /\ DOMAIN wire = 1 .. Len(wire)  BY Elements DEF ConnTypes
<1>2. CASE UNCHANGED vars
  BY <1>2 DEF vars, client, frames, bounds, FrameStep, Rests, Held
<1>3. ASSUME NEW status \in Status, Serve(status) PROVE Answers
  BY <1>3, ServeWire DEF Serve, Answers, Held, client, frames, bounds, ConnTypes
<1>4. ASSUME NEW rtcp \in BOOLEAN, SendFrame(rtcp) PROVE Sends
  BY <1>4, SendFrameWire DEF SendFrame, Sends, Held, client, frames, ConnTypes
<1>5. ASSUME NEW g \in Goroutine, NEW method \in Method, NEW again \in BOOLEAN,
             at[g] \in {"idle", "again"}, Begin(g, method, again)
      PROVE  Rests
  <2>1. UNCHANGED <<wire, hand, packets, lost, sent>> /\ Goes(g, "send")
    BY <1>5 DEF Begin, frames
  <2>2. Held' = Held  BY <1>5, <2>1, HeldKept
  <2> QED  BY <2>1, <2>2 DEF Rests
<1>6. ASSUME NEW g \in Goroutine, Send(g) \/ SendFails(g) PROVE Rests
  <2>1. UNCHANGED <<wire, hand, packets, lost, sent>> /\ at[g] = "send"
        /\ \E where \in {"await", "idle"} : Goes(g, where)
    BY <1>6 DEF Send, SendFails, frames, bounds
  <2>2. Held' = Held  BY <2>1, HeldKept
  <2> QED  BY <2>1, <2>2 DEF Rests
<1>7. ASSUME NEW g \in Goroutine, ReadsAnswer(g) \/ MisreadsAnswer(g) \/ AnswerTimesOut(g)
      PROVE  Drops
  <2>1. \E k \in 0 .. Len(wire) : Swallow(k)
    <3>1. AnswersIn(wire) \subseteq DOMAIN wire  BY DEF AnswersIn
    <3> QED  BY <1>1, <1>7, <3>1 DEF ReadsAnswer, MisreadsAnswer, AnswerTimesOut
  <2>2. PICK k \in 0 .. Len(wire) : Swallow(k)  BY <2>1
  <2>3. /\ Behind(wire, wire', k) /\ packets' = packets
        /\ lost' = lost \cup HeadsIn(k, "readResponse") /\ wire' \in Seq(Unit)
    BY <2>2, SwallowTypes DEF ConnTypes, Shapes
  <2>6. Cut(wire, wire', k)  BY <2>3, BehindIsCut DEF ConnTypes, Shapes
  <2>4. sent' = sent /\ hand' = hand /\ at[g] = "await"
        /\ \E where \in {"again", "idle"} : Goes(g, where)
    BY <1>7 DEF ReadsAnswer, Takes, MisreadsAnswer, AnswerTimesOut, bounds
  <2>5. Held' = Held  BY <2>4, HeldKept
  <2> QED  BY <2>3, <2>4, <2>5, <2>6 DEF Drops
<1>8. ASSUME NEW rtcp \in BOOLEAN, ReadFrames(rtcp) PROVE Rests
  <2>1. UNCHANGED <<wire, packets, lost, sent>> /\ at["caller"] = "idle"
        /\ Goes("caller", "header")
    BY <1>8 DEF ReadFrames, frames, bounds, Busy
  <2>2. Held' = Held  BY <2>1, GoesTypes DEF Held, State, Goroutine
  <2> QED  BY <2>1, <2>2 DEF Rests
<1>9. CASE ReadFrame /\ at["caller"] = "header"
  <2>1. /\ sent' = sent /\ wire' \in Seq(Unit)
        /\ HeaderRead \/ HeaderMisread \/ HeaderLate
    BY <1>9, HeaderEnds DEF ConnTypes, bounds
  <2>2. Held = None  BY <1>9 DEF Held
  <2>3. CASE HeaderRead
    <3>1. hand'.frame = wire[1].frame /\ at'["caller"] = "payload"
      BY <2>3, GoesTypes DEF HeaderRead, State, Goroutine, ConnTypes, Shapes
    <3> QED  BY <2>1, <2>2, <2>3, <3>1 DEF HeaderRead, Held, Picks, FrameStep
  <2>4. CASE HeaderMisread
    <3>1. packets' = packets
          /\ \E k \in 0 .. Len(wire) :
               Cut(wire, wire', k) /\ lost' = lost \cup HeadsIn(k, "misread")
      BY <2>4 DEF HeaderMisread
    <3>2. at'["caller"] # "payload" \/ hand'.frame = None
      <4>1. CASE Goes("caller", "idle")
        BY <4>1, GoesTypes DEF State, Goroutine
      <4>2. ASSUME NEW rtcp, hand' = [hand EXCEPT !.frame = None, !.rtcp = rtcp]
            PROVE  hand'.frame = None
        BY <4>2 DEF ConnTypes, Shapes
      <4> QED  BY <2>4, <4>1, <4>2 DEF HeaderMisread
    <3>3. Held' = Held  BY <2>2, <3>2 DEF Held
    <3> QED  BY <2>1, <3>1, <3>3 DEF Drops, FrameStep
  <2>5. CASE HeaderLate
    <3>1. at'["caller"] = "idle" /\ packets' = packets
      BY <2>5, GoesTypes DEF HeaderLate, State, Goroutine
    <3>2. Held' = Held  BY <2>2, <3>1 DEF Held
    <3>3. CASE UNCHANGED <<wire, lost>>
      BY <2>1, <3>1, <3>2, <3>3 DEF Rests, FrameStep
    <3>4. CASE /\ 1 \in DOMAIN wire /\ Behind(wire, wire', 1)
               /\ lost' = lost \cup HeadsIn(1, "deadline")
      <4>1. 1 \in 0 .. Len(wire)  BY <1>1, <3>4
      <4>2. Cut(wire, wire', 1)  BY <2>1, <3>4, BehindIsCut DEF ConnTypes, Shapes
      <4> QED  BY <2>1, <3>1, <3>2, <3>4, <4>1, <4>2 DEF Drops, FrameStep
    <3> QED  BY <2>5, <3>3, <3>4 DEF HeaderLate
  <2> QED  BY <2>1, <2>3, <2>4, <2>5
<1>10. CASE ReadFrame /\ at["caller"] = "payload"
  <2>1. sent' = sent  BY <1>10, PayloadEnds DEF bounds
  <2>2. PICK k \in 0 .. Len(wire), whole \in BOOLEAN :
          Cut(wire, wire', k) /\ Disposes(whole, k)
    BY <1>10, PayloadEnds
  <2>3. Held = hand.frame  BY <1>10 DEF Held
  <2>4. at'["caller"] \in {"idle", "header"}
    BY <2>2, GoesTypes DEF Disposes, State, Goroutine
  <2>5. Held' = None  BY <2>4 DEF Held
  <2>6. PICK where \in {"payload", "deadline"} :
          \/ /\ packets' = Append(packets, [frame |-> hand.frame, whole |-> whole])
             /\ lost' = lost \cup HeadsIn(k, where)
          \/ /\ packets' = packets
             /\ \E place \in Place : lost' = lost \cup HeadsIn(k, where) \cup InHand(place)
    BY <2>2 DEF Disposes
  <2>7. \A place : InHand(place) = {[frame |-> f, at |-> place] : f \in {Held} \ {None}}
    BY <2>3 DEF InHand
  <2> QED  BY <2>1, <2>2, <2>3, <2>5, <2>6, <2>7 DEF Ends, FrameStep
<1> QED
  BY <1>2, <1>3, <1>4, <1>5, <1>6, <1>7, <1>8, <1>9, <1>10, BeginsOne, ReadFrameNeeds
     DEF Next, Server, Request, FrameStep, Status

\* The frames on their way are later than those handed out, each in its order,
\* and the one in hand is between them.
Rising ==
  /\ \A i, j \in DOMAIN wire :
       wire[i].is = "head" /\ wire[j].is = "head" /\ i < j => wire[i].frame < wire[j].frame
  /\ \A i, j \in DOMAIN packets :
       i < j /\ packets[j].frame # None => packets[i].frame < packets[j].frame
  /\ \A i \in DOMAIN wire, j \in DOMAIN packets :
       wire[i].is = "head" => packets[j].frame < wire[i].frame
  /\ Held # None =>
       /\ \A i \in DOMAIN wire : wire[i].is = "head" => Held < wire[i].frame
       /\ \A j \in DOMAIN packets : packets[j].frame < Held

\* Every frame sent is somewhere, and what is lost is nowhere else.
Placed ==
  /\ \A f \in 1 .. sent : OnWire(f) \/ Handed(f) \/ Gone(f) \/ Held = f
  /\ \A l \in lost : ~OnWire(l.frame) /\ ~Handed(l.frame) /\ Held # l.frame
  /\ \A l, m \in lost : l.frame = m.frame => l = m

LEMMA FrameNumbers ==
  ASSUME ConnTypes
  PROVE  /\ sent \in Nat /\ Held \in 0 .. sent
         /\ \A i \in DOMAIN wire : wire[i].is = "head" => wire[i].frame \in 1 .. sent
         /\ \A j \in DOMAIN packets : packets[j].frame \in 0 .. sent
         /\ \A l \in lost : l.frame \in 1 .. sent
         /\ Len(wire) \in Nat /\ DOMAIN wire = 1 .. Len(wire)
         /\ Len(packets) \in Nat /\ DOMAIN packets = 1 .. Len(packets)
<1>1. sent \in Nat  BY DEF ConnTypes, Shapes
<1>2. Held \in 0 .. sent
  <2>1. hand.frame \in 0 .. MaxFrames /\ hand.frame <= sent  BY DEF ConnTypes, Shapes, Issued
  <2>2. hand.frame \in 0 .. sent  BY <1>1, <2>1
  <2> QED  BY <1>1, <2>2 DEF Held, None
<1>3. ASSUME NEW i \in DOMAIN wire, wire[i].is = "head" PROVE wire[i].frame \in 1 .. sent
  <2>1. wire[i].frame \in 1 .. MaxFrames /\ wire[i].frame <= sent
    BY <1>3, Elements, UnitTypes DEF ConnTypes, Issued
  <2> QED  BY <1>1, <2>1
<1>4. ASSUME NEW j \in DOMAIN packets PROVE packets[j].frame \in 0 .. sent
  <2>1. packets[j].frame \in 0 .. MaxFrames /\ packets[j].frame <= sent
    BY Elements, ConnectionAssumption DEF ConnTypes, Issued, Packet, None
  <2> QED  BY <1>1, <2>1
<1>5. ASSUME NEW l \in lost PROVE l.frame \in 1 .. sent
  <2>1. l.frame \in 1 .. MaxFrames /\ l.frame <= sent
    BY DEF ConnTypes, Shapes, Issued, Loss
  <2> QED  BY <1>1, <2>1
<1> QED  BY <1>1, <1>2, <1>3, <1>4, <1>5, Elements DEF ConnTypes

\* The heads that are left when the wire loses its first k units.
LEMMA HeadsBehind ==
  ASSUME ConnTypes, ConnTypes', Rising, NEW k \in 0 .. Len(wire), Cut(wire, wire', k)
  PROVE  /\ \A i \in DOMAIN wire' : wire'[i].is = "head" =>
              \E m \in DOMAIN wire : wire'[i] = wire[m] /\ k < m
         /\ \A i, j \in DOMAIN wire' :
              wire'[i].is = "head" /\ wire'[j].is = "head" /\ i < j
                => wire'[i].frame < wire'[j].frame
         /\ \A i \in DOMAIN wire', j \in 1 .. k :
              wire'[i].is = "head" /\ wire[j].is = "head" => wire[j].frame < wire'[i].frame
         /\ \A f : OnWire(f) <=> \/ OnWire(f)'
                                 \/ \E j \in 1 .. k : wire[j].is = "head" /\ wire[j].frame = f
<1>1. /\ DOMAIN wire' = 1 .. Len(wire') /\ Len(wire') \in Nat /\ k \in Nat
      /\ \E s \in Nat :
           /\ Len(wire') = Len(wire) - s
           /\ \A i \in DOMAIN wire' :
                /\ i + s \in DOMAIN wire
                /\ wire'[i] = IF k < i + s THEN wire[i + s] ELSE Body(None)
  BY CutUnits DEF ConnTypes, Shapes
<1>2. DOMAIN wire = 1 .. Len(wire) /\ Len(wire) \in Nat  BY FrameNumbers
<1>3. PICK s \in Nat :
        /\ s \in {k, k - 1} /\ Len(wire') = Len(wire) - s
        /\ \A i \in 1 .. Len(wire') : wire'[i] = IF k < i + s THEN wire[i + s] ELSE Body(None)
  BY DEF Cut, CutBy
<1>4. ASSUME NEW i \in DOMAIN wire', wire'[i].is = "head"
      PROVE  /\ i \in Nat /\ i + s \in DOMAIN wire /\ k < i + s /\ wire'[i] = wire[i + s]
  <2>1. Body(None).is # "head"  BY DEF Body
  <2>2. i \in Nat /\ i + s \in DOMAIN wire  BY <1>1, <1>2, <1>3
  <2>3. wire'[i] = IF k < i + s THEN wire[i + s] ELSE Body(None)  BY <1>1, <1>3
  <2> QED  BY <1>4, <2>1, <2>2, <2>3
<1>5. ASSUME NEW i \in DOMAIN wire', NEW j \in DOMAIN wire',
             wire'[i].is = "head", wire'[j].is = "head", i < j
      PROVE  wire'[i].frame < wire'[j].frame
  <2>1. /\ i + s \in DOMAIN wire /\ wire'[i] = wire[i + s]
        /\ j + s \in DOMAIN wire /\ wire'[j] = wire[j + s] /\ i + s < j + s
    BY <1>4, <1>5
  <2> QED  BY <1>5, <2>1 DEF Rising
<1>6. ASSUME NEW i \in DOMAIN wire', NEW j \in 1 .. k,
             wire'[i].is = "head", wire[j].is = "head"
      PROVE  wire[j].frame < wire'[i].frame
  <2>1. i + s \in DOMAIN wire /\ wire'[i] = wire[i + s] /\ k < i + s  BY <1>4, <1>6
  <2>2. j \in DOMAIN wire /\ j < i + s  BY <1>1, <1>2, <2>1
  <2> QED  BY <1>6, <2>1, <2>2 DEF Rising
<1>7. ASSUME NEW f
      PROVE  OnWire(f) <=> \/ OnWire(f)'
                           \/ \E j \in 1 .. k : wire[j].is = "head" /\ wire[j].frame = f
  <2>1. ASSUME NEW i \in DOMAIN wire, wire[i].is = "head", wire[i].frame = f, ~(i \in 1 .. k)
        PROVE  OnWire(f)'
    <3>1. i \in Nat /\ k < i /\ i <= Len(wire)  BY <1>1, <1>2, <2>1
    <3>2. i - s \in 1 .. Len(wire') /\ (i - s) + s = i  BY <1>1, <1>2, <1>3, <3>1
    <3>3. wire'[i - s] = wire[i]  BY <1>3, <3>1, <3>2
    <3> QED  BY <1>1, <2>1, <3>2, <3>3 DEF OnWire
  <2>2. \A j \in 1 .. k : j \in DOMAIN wire  BY <1>1, <1>2
  <2>3. OnWire(f)' => OnWire(f)  BY <1>4 DEF OnWire
  <2> QED  BY <2>1, <2>2, <2>3 DEF OnWire
<1> QED  BY <1>4, <1>5, <1>6, <1>7

\* What is handed out is appended.
LEMMA HandedAdded ==
  ASSUME ConnTypes, ConnTypes', NEW whole,
         packets' = Append(packets, [frame |-> Held, whole |-> whole])
  PROVE  /\ \A j \in DOMAIN packets' : j \in DOMAIN packets \/ j = Len(packets) + 1
         /\ \A j \in DOMAIN packets : /\ j \in DOMAIN packets' /\ j < Len(packets) + 1
                                      /\ packets'[j] = packets[j]
         /\ Len(packets) + 1 \in DOMAIN packets'
         /\ packets'[Len(packets) + 1].frame = Held
<1> DEFINE d == [frame |-> Held, whole |-> whole]
<1>1. packets' = Append(packets, d) /\ d.frame = Held  OBVIOUS
<1> HIDE DEF d
<1>2. /\ Len(packets') = Len(packets) + 1
      /\ \A i \in 1 .. Len(packets) : packets'[i] = packets[i]
      /\ packets'[Len(packets) + 1] = d
  <2>1. packets \in Seq(Packet \cup {d})
    <3>1. packets \in Seq(Packet) /\ Packet \subseteq Packet \cup {d}
      BY DEF ConnTypes, Shapes
    <3> QED  BY <3>1, SeqMonotonic
  <2> QED  BY <1>1, <2>1, AppendProperties
<1>3. /\ DOMAIN packets' = 1 .. Len(packets') /\ DOMAIN packets = 1 .. Len(packets)
      /\ Len(packets) \in Nat
  BY LenProperties, Elements DEF ConnTypes, Shapes
<1> QED  BY <1>1, <1>2, <1>3

LEMMA RisingKept == ConnTypes /\ ConnTypes' /\ Rising /\ FrameStep => Rising'
<1> SUFFICES ASSUME ConnTypes, ConnTypes', Rising, FrameStep PROVE Rising'
  OBVIOUS
<1>1. CASE Rests  BY <1>1 DEF Rests, Rising
<1>2. CASE Answers
  <2>1. \A i \in DOMAIN wire' : wire'[i].is = "head" => i \in DOMAIN wire /\ wire'[i] = wire[i]
    <3>1. \A i \in DOMAIN wire' : i \in DOMAIN wire \/ i = Len(wire) + 1
      BY <1>2, FrameNumbers DEF Answers
    <3> QED  BY <1>2, <3>1, FrameNumbers DEF Answers
  <2> QED  BY <1>2, <2>1 DEF Answers, Rising
<1>3. CASE Sends
  <2> DEFINE n == Len(wire) + 1
  <2>1. \A i \in DOMAIN wire' :
          wire'[i].is = "head" => (i \in DOMAIN wire /\ wire'[i] = wire[i]) \/ i = n
    <3>1. \A i \in DOMAIN wire' : i \in DOMAIN wire \/ i = Len(wire) + 1 \/ i = Len(wire) + 2
      BY <1>3, FrameNumbers DEF Sends
    <3>2. wire'[Len(wire) + 2].is = "body"  BY <1>3 DEF Sends, Body
    <3> QED  BY <1>3, <3>1, <3>2, FrameNumbers DEF Sends
  <2>2. wire'[n].frame = sent + 1 /\ n \in Nat /\ \A i \in DOMAIN wire : i < n /\ i \in Nat
    BY <1>3, FrameNumbers DEF Sends
  <2> HIDE DEF n
  <2>3. /\ \A i \in DOMAIN wire : wire[i].is = "head" => wire[i].frame < sent + 1
        /\ \A j \in DOMAIN packets : packets[j].frame < sent + 1
        /\ Held < sent + 1
    BY FrameNumbers
  <2>4. UNCHANGED <<packets, Held>>  BY <1>3 DEF Sends
  <2>5. ASSUME NEW i \in DOMAIN wire', NEW j \in DOMAIN wire',
               wire'[i].is = "head", wire'[j].is = "head", i < j
        PROVE  wire'[i].frame < wire'[j].frame
    <3>1. i # n \/ j # n  BY <2>2, <2>5
    <3>2. CASE i = n
      BY <2>1, <2>2, <2>5, <3>1, <3>2
    <3> QED  BY <2>1, <2>2, <2>3, <2>5, <3>2 DEF Rising
  <2>6. ASSUME NEW i \in DOMAIN wire', wire'[i].is = "head"
        PROVE  /\ \A j \in DOMAIN packets : packets[j].frame < wire'[i].frame
               /\ Held # None => Held < wire'[i].frame
    BY <2>1, <2>2, <2>3, <2>6 DEF Rising
  <2> QED  BY <2>4, <2>5, <2>6 DEF Rising
<1>5. CASE Drops
  <2>1. PICK k \in 0 .. Len(wire) : Cut(wire, wire', k)  BY <1>5 DEF Drops
  <2>2. /\ \A i \in DOMAIN wire' : wire'[i].is = "head" =>
              \E m \in DOMAIN wire : wire'[i] = wire[m] /\ k < m
        /\ \A i, j \in DOMAIN wire' :
             wire'[i].is = "head" /\ wire'[j].is = "head" /\ i < j
               => wire'[i].frame < wire'[j].frame
    BY <2>1, HeadsBehind
  <2> QED  BY <1>5, <2>2 DEF Drops, Rising
<1>6. CASE Picks
  <2>1. 1 \in 0 .. Len(wire) /\ 1 \in 1 .. 1  BY <1>6, FrameNumbers DEF Picks
  <2>2. Cut(wire, wire', 1)  BY <1>6, BehindIsCut DEF Picks, ConnTypes, Shapes
  <2>3. /\ \A i, j \in DOMAIN wire' :
             wire'[i].is = "head" /\ wire'[j].is = "head" /\ i < j
               => wire'[i].frame < wire'[j].frame
        /\ \A i \in DOMAIN wire', j \in 1 .. 1 :
             wire'[i].is = "head" /\ wire[j].is = "head" => wire[j].frame < wire'[i].frame
    BY <2>1, <2>2, HeadsBehind
  <2>4. /\ Held' = wire[1].frame /\ 1 \in DOMAIN wire /\ wire[1].is = "head"
        /\ packets' = packets
    BY <1>6 DEF Picks
  <2>5. \A i \in DOMAIN wire' : wire'[i].is = "head" => Held' < wire'[i].frame
    BY <2>1, <2>3, <2>4
  <2>6. \A j \in DOMAIN packets : packets[j].frame < Held'  BY <2>4 DEF Rising
  <2>7. \A i \in DOMAIN wire', j \in DOMAIN packets' :
          wire'[i].is = "head" => packets'[j].frame < wire'[i].frame
    <3> SUFFICES ASSUME NEW i \in DOMAIN wire', NEW j \in DOMAIN packets, wire'[i].is = "head"
                 PROVE  packets[j].frame < wire'[i].frame
      BY <2>4
    <3>1. PICK m \in DOMAIN wire : wire'[i] = wire[m]  BY <2>1, <2>2, HeadsBehind
    <3> QED  BY <3>1 DEF Rising
  <2>8. \A i, j \in DOMAIN packets' :
          i < j /\ packets'[j].frame # None => packets'[i].frame < packets'[j].frame
    BY <2>4 DEF Rising
  <2> QED  BY <2>3, <2>4, <2>5, <2>6, <2>7, <2>8 DEF Rising
<1>7. CASE Ends
  <2>1. PICK k \in 0 .. Len(wire) : /\ Cut(wire, wire', k)
                                    /\ \/ \E whole \in BOOLEAN :
                                            packets' = Append(packets, [frame |-> Held, whole |-> whole])
                                       \/ packets' = packets
    BY <1>7 DEF Ends
  <2>2. /\ \A i \in DOMAIN wire' : wire'[i].is = "head" =>
              \E m \in DOMAIN wire : wire'[i] = wire[m] /\ k < m
        /\ \A i, j \in DOMAIN wire' :
             wire'[i].is = "head" /\ wire'[j].is = "head" /\ i < j
               => wire'[i].frame < wire'[j].frame
    BY <2>1, HeadsBehind
  <2>3. Held' = None  BY <1>7 DEF Ends
  <2>4. CASE packets' = packets
    BY <2>2, <2>3, <2>4 DEF Rising
  <2>5. CASE \E whole \in BOOLEAN : packets' = Append(packets, [frame |-> Held, whole |-> whole])
    <3>1. PICK whole \in BOOLEAN : packets' = Append(packets, [frame |-> Held, whole |-> whole])
      BY <2>5
    <3>2. /\ \A j \in DOMAIN packets' : j \in DOMAIN packets \/ j = Len(packets) + 1
          /\ \A j \in DOMAIN packets : j < Len(packets) + 1 /\ packets'[j] = packets[j]
          /\ packets'[Len(packets) + 1].frame = Held
      BY <3>1, HandedAdded
    <3>3. Held # None => \A j \in DOMAIN packets : packets[j].frame < Held  BY DEF Rising
    <3>4. DOMAIN packets = 1 .. Len(packets) /\ Len(packets) \in Nat  BY FrameNumbers
    <3>5. ASSUME NEW i \in DOMAIN packets', NEW j \in DOMAIN packets', i < j,
                 packets'[j].frame # None
          PROVE  packets'[i].frame < packets'[j].frame
      <4>1. i \in DOMAIN packets  BY <3>2, <3>4, <3>5
      <4>2. CASE j \in DOMAIN packets  BY <3>2, <3>5, <4>1, <4>2 DEF Rising
      <4>3. CASE j = Len(packets) + 1  BY <3>2, <3>3, <3>5, <4>1, <4>3
      <4> QED  BY <3>2, <4>2, <4>3
    <3>6. ASSUME NEW i \in DOMAIN wire', NEW j \in DOMAIN packets', wire'[i].is = "head"
          PROVE  packets'[j].frame < wire'[i].frame
      <4>1. PICK m \in DOMAIN wire : wire'[i] = wire[m]  BY <2>2, <3>6
      <4>2. wire[m].is = "head" /\ wire[m].frame \in 1 .. sent  BY <3>6, <4>1, FrameNumbers
      <4>3. Held < wire[m].frame
        <5>1. Held = None => Held < wire[m].frame  BY <4>2, FrameNumbers DEF None
        <5> QED  BY <4>2, <5>1 DEF Rising
      <4>4. CASE j \in DOMAIN packets  BY <3>2, <4>1, <4>2, <4>4 DEF Rising
      <4>5. CASE j = Len(packets) + 1  BY <3>2, <4>1, <4>3, <4>5
      <4> QED  BY <3>2, <4>4, <4>5
    <3> QED  BY <2>2, <2>3, <3>5, <3>6 DEF Rising
  <2> QED  BY <2>1, <2>4, <2>5
<1> QED  BY <1>1, <1>2, <1>3, <1>5, <1>6, <1>7 DEF FrameStep

\* The frames lost with the first k units.
LEMMA HeadsGone ==
  ASSUME NEW k, NEW where
  PROVE  /\ \A l \in HeadsIn(k, where) :
              \E j \in 1 .. k : wire[j].is = "head" /\ l.frame = wire[j].frame
         /\ \A j \in 1 .. k :
              wire[j].is = "head"
                => \E l \in HeadsIn(k, where) : l.frame = wire[j].frame
         /\ \A l, m \in HeadsIn(k, where) : l.frame = m.frame => l = m
<1>1. \A l \in HeadsIn(k, where) :
        \E j \in 1 .. k : /\ wire[j].is = "head" /\ l.frame = wire[j].frame
                          /\ l = [frame |-> l.frame, at |-> where]
  BY DEF HeadsIn
<1>2. ASSUME NEW j \in 1 .. k, wire[j].is = "head"
      PROVE  \E l \in HeadsIn(k, where) : l.frame = wire[j].frame
  <2>1. [frame |-> wire[j].frame, at |-> where] \in HeadsIn(k, where)
    BY <1>2 DEF HeadsIn
  <2> QED  BY <2>1
<1> QED  BY <1>1, <1>2

\* Units that leave the front of the wire while the frames of their heads
\* become lost.
LEMMA LosingPlaced ==
  ASSUME ConnTypes, ConnTypes', Rising, Placed,
         NEW k \in 0 .. Len(wire), NEW where, Cut(wire, wire', k),
         NEW gone, gone = lost \cup HeadsIn(k, where)
  PROVE  /\ \A f \in 1 .. sent : OnWire(f)' \/ Handed(f) \/ (\E l \in gone : l.frame = f)
                                  \/ Held = f
         /\ \A l \in gone : ~OnWire(l.frame)' /\ ~Handed(l.frame) /\ Held # l.frame
         /\ \A l, m \in gone : l.frame = m.frame => l = m
<1>1. /\ \A i \in DOMAIN wire', j \in 1 .. k :
           wire'[i].is = "head" /\ wire[j].is = "head" => wire[j].frame < wire'[i].frame
      /\ \A f : OnWire(f) <=> \/ OnWire(f)'
                              \/ \E j \in 1 .. k : wire[j].is = "head" /\ wire[j].frame = f
  BY HeadsBehind
<1>2. \A j \in 1 .. k : j \in DOMAIN wire  BY FrameNumbers
<1>3. ASSUME NEW l \in HeadsIn(k, where)
      PROVE  OnWire(l.frame) /\ ~OnWire(l.frame)' /\ ~Handed(l.frame) /\ Held # l.frame
  <2>1. PICK j \in 1 .. k : wire[j].is = "head" /\ l.frame = wire[j].frame
    BY <1>3, HeadsGone
  <2>2. j \in DOMAIN wire /\ wire[j].frame \in Nat /\ wire[j].frame # None
    BY <1>2, <2>1, FrameNumbers DEF None
  <2>3. ~OnWire(l.frame)'
    <3> SUFFICES ASSUME NEW i \in DOMAIN wire', wire'[i].is = "head", wire'[i].frame = l.frame
                 PROVE  FALSE
      BY DEF OnWire
    <3>1. wire[j].frame < wire'[i].frame  BY <1>1, <2>1
    <3> QED  BY <2>1, <2>2, <3>1
  <2>4. ~Handed(l.frame)
    <3> SUFFICES ASSUME NEW i \in DOMAIN packets, packets[i].frame = l.frame PROVE FALSE
      BY DEF Handed
    <3>1. packets[i].frame < wire[j].frame  BY <2>1, <2>2 DEF Rising
    <3> QED  BY <2>1, <2>2, <3>1
  <2>5. Held # l.frame
    <3>1. Held # None => Held < wire[j].frame  BY <2>1, <2>2 DEF Rising
    <3> QED  BY <2>1, <2>2, <3>1
  <2> QED  BY <2>1, <2>2, <2>3, <2>4, <2>5 DEF OnWire
<1>4. ASSUME NEW f \in 1 .. sent
      PROVE  OnWire(f)' \/ Handed(f) \/ (\E l \in gone : l.frame = f) \/ Held = f
  <2>1. OnWire(f) \/ Handed(f) \/ Gone(f) \/ Held = f  BY DEF Placed
  <2>2. Gone(f) => \E l \in gone : l.frame = f  BY DEF Gone
  <2>3. (\E j \in 1 .. k : wire[j].is = "head" /\ wire[j].frame = f)
          => \E l \in gone : l.frame = f
    BY HeadsGone
  <2> QED  BY <1>1, <2>1, <2>2, <2>3
<1>5. ASSUME NEW l \in gone
      PROVE  ~OnWire(l.frame)' /\ ~Handed(l.frame) /\ Held # l.frame
  <2>1. CASE l \in lost  BY <1>1, <2>1 DEF Placed
  <2>2. CASE l \in HeadsIn(k, where)  BY <1>3, <2>2
  <2> QED  BY <2>1, <2>2
<1>6. ASSUME NEW l \in gone, NEW m \in gone, l.frame = m.frame PROVE l = m
  <2>1. CASE l \in lost /\ m \in lost  BY <1>6, <2>1 DEF Placed
  <2>2. CASE l \in HeadsIn(k, where) /\ m \in HeadsIn(k, where)
    BY <1>6, <2>2, HeadsGone
  <2>3. CASE l \in lost /\ m \in HeadsIn(k, where)
    BY <1>3, <1>6, <2>3 DEF Placed
  <2>4. CASE l \in HeadsIn(k, where) /\ m \in lost
    BY <1>3, <1>6, <2>4 DEF Placed
  <2> QED  BY <2>1, <2>2, <2>3, <2>4
<1> QED  BY <1>4, <1>5, <1>6

LEMMA PlacedKept == ConnTypes /\ ConnTypes' /\ Rising /\ Placed /\ FrameStep => Placed'
<1> SUFFICES ASSUME ConnTypes, ConnTypes', Rising, Placed, FrameStep PROVE Placed'
  OBVIOUS
<1>1. ASSUME UNCHANGED <<packets, lost, sent, Held>>, \A f : OnWire(f)' <=> OnWire(f)
      PROVE  Placed'
  <2>1. /\ \A f : Handed(f)' <=> Handed(f)
        /\ \A f : Gone(f)' <=> Gone(f)
    BY <1>1 DEF Handed, Gone
  <2> QED  BY <1>1, <2>1 DEF Placed
<1>2. CASE Rests
  <2>1. \A f : OnWire(f)' <=> OnWire(f)  BY <1>2 DEF Rests, OnWire
  <2> QED  BY <1>1, <1>2, <2>1 DEF Rests
<1>3. CASE Answers
  <2>1. \A f : OnWire(f)' <=> OnWire(f)
    <3>1. /\ \A i \in DOMAIN wire' : i \in DOMAIN wire \/ i = Len(wire) + 1
          /\ \A i \in DOMAIN wire : i \in DOMAIN wire' /\ wire'[i] = wire[i]
      BY <1>3, FrameNumbers DEF Answers
    <3> QED  BY <1>3, <3>1 DEF Answers, OnWire
  <2> QED  BY <1>1, <1>3, <2>1 DEF Answers
<1>5. CASE Sends
  <2>1. UNCHANGED <<packets, lost, Held>> /\ sent' = sent + 1  BY <1>5 DEF Sends
  <2>2. \A f : OnWire(f)' <=> OnWire(f) \/ f = sent + 1
    <3>1. /\ \A i \in DOMAIN wire' : i \in DOMAIN wire \/ i = Len(wire) + 1 \/ i = Len(wire) + 2
          /\ \A i \in DOMAIN wire : i \in DOMAIN wire' /\ wire'[i] = wire[i]
          /\ Len(wire) + 1 \in DOMAIN wire'
      BY <1>5, FrameNumbers DEF Sends
    <3>2. /\ wire'[Len(wire) + 2].is = "body" /\ wire'[Len(wire) + 1].is = "head"
          /\ wire'[Len(wire) + 1].frame = sent + 1
      BY <1>5 DEF Sends, Body
    <3> QED  BY <3>1, <3>2 DEF OnWire
  <2>3. /\ \A f : Handed(f)' <=> Handed(f)
        /\ \A f : Gone(f)' <=> Gone(f)
    BY <2>1 DEF Handed, Gone
  <2>4. /\ \A f \in 1 .. sent + 1 : f \in 1 .. sent \/ f = sent + 1
        /\ \A l \in lost : l.frame # sent + 1
    BY FrameNumbers
  <2> QED  BY <2>1, <2>2, <2>3, <2>4 DEF Placed
<1>6. CASE Drops
  <2>1. PICK k \in 0 .. Len(wire), where \in {"readResponse", "misread", "deadline"} :
          Cut(wire, wire', k) /\ lost' = lost \cup HeadsIn(k, where)
    BY <1>6 DEF Drops
  <2>2. /\ \A f \in 1 .. sent : OnWire(f)' \/ Handed(f) \/ (\E l \in lost' : l.frame = f)
                                 \/ Held = f
        /\ \A l \in lost' : ~OnWire(l.frame)' /\ ~Handed(l.frame) /\ Held # l.frame
        /\ \A l, m \in lost' : l.frame = m.frame => l = m
    BY <2>1, LosingPlaced
  <2>3. UNCHANGED <<packets, sent, Held>>  BY <1>6 DEF Drops
  <2>4. /\ \A f : Handed(f)' <=> Handed(f)
        /\ \A f : Gone(f)' <=> \E l \in lost' : l.frame = f
    BY <2>3 DEF Handed, Gone
  <2> QED  BY <2>2, <2>3, <2>4 DEF Placed
<1>7. CASE Picks
  <2>1. /\ UNCHANGED <<packets, lost, sent>> /\ Held = None
        /\ 1 \in DOMAIN wire /\ wire[1].is = "head" /\ Behind(wire, wire', 1)
        /\ Held' = wire[1].frame
    BY <1>7 DEF Picks
  <2>2. /\ 1 \in 0 .. Len(wire) /\ \A j \in 1 .. 1 : j = 1
        /\ Cut(wire, wire', 1)
    BY <2>1, FrameNumbers, BehindIsCut DEF ConnTypes, Shapes
  <2>3. \A f : OnWire(f) <=> OnWire(f)' \/ f = Held'
    <3>1. \A f : OnWire(f) <=> \/ OnWire(f)'
                               \/ \E j \in 1 .. 1 : wire[j].is = "head" /\ wire[j].frame = f
      BY <2>1, <2>2, HeadsBehind
    <3>2. 1 \in 1 .. 1  OBVIOUS
    <3> QED  BY <2>1, <2>2, <3>1, <3>2
  <2>4. /\ \A f : Handed(f)' <=> Handed(f)
        /\ \A f : Gone(f)' <=> Gone(f)
    BY <2>1 DEF Handed, Gone
  <2>5. \A f \in 1 .. sent : f # None  BY FrameNumbers DEF None
  <2> QED  BY <2>1, <2>3, <2>4, <2>5 DEF Placed
<1>8. CASE Ends
  <2>1. sent' = sent /\ Held' = None  BY <1>8 DEF Ends
  <2>2. PICK k \in 0 .. Len(wire), where \in {"payload", "deadline"} :
          /\ Cut(wire, wire', k)
          /\ \/ /\ \E whole \in BOOLEAN :
                     packets' = Append(packets, [frame |-> Held, whole |-> whole])
                /\ lost' = lost \cup HeadsIn(k, where)
             \/ /\ packets' = packets
                /\ \E place \in Place :
                     lost' = lost \cup HeadsIn(k, where)
                               \cup {[frame |-> f, at |-> place] : f \in {Held} \ {None}}
    BY <1>8 DEF Ends
  <2> PICK gone : gone = lost \cup HeadsIn(k, where)
    OBVIOUS
  <2> PICK held : held = Held
    OBVIOUS
  <2>3. /\ \A f \in 1 .. sent : OnWire(f)' \/ Handed(f) \/ (\E l \in gone : l.frame = f)
                                 \/ Held = f
        /\ \A l \in gone : ~OnWire(l.frame)' /\ ~Handed(l.frame) /\ Held # l.frame
        /\ \A l, m \in gone : l.frame = m.frame => l = m
    <3>1. Cut(wire, wire', k)  BY <2>2
    <3> QED  BY ONLY ConnTypes, ConnTypes', Rising, Placed, <3>1, LosingPlaced, SMTT(60),
               gone = lost \cup HeadsIn(k, where), k \in 0 .. Len(wire)
  <2>4. /\ \A l \in lost' : l.frame # None
        /\ \A f \in 1 .. sent : f # None
    BY FrameNumbers DEF None, ConnTypes, Shapes, Loss
  <2>5. held # None => ~OnWire(held)'
    <3> SUFFICES ASSUME held # None, NEW i \in DOMAIN wire', wire'[i].is = "head",
                        wire'[i].frame = held
                 PROVE  FALSE
      BY DEF OnWire
    <3>1. PICK m \in DOMAIN wire : wire'[i] = wire[m]  BY <2>2, HeadsBehind
    <3>2. Held < wire[m].frame  BY <3>1 DEF Rising
    <3>3. Held \in Nat  BY FrameNumbers
    <3> QED  BY <3>1, <3>2, <3>3
  <2>6. Held # None => ~Handed(Held)
    <3> SUFFICES ASSUME Held # None, NEW i \in DOMAIN packets, packets[i].frame = Held
                 PROVE  FALSE
      BY DEF Handed
    <3>1. packets[i].frame < Held  BY DEF Rising
    <3>2. Held \in Nat  BY FrameNumbers
    <3> QED  BY <3>1, <3>2
  <2>7. CASE \E whole \in BOOLEAN :
               /\ packets' = Append(packets, [frame |-> Held, whole |-> whole])
               /\ lost' = gone
    <3>1. PICK whole \in BOOLEAN :
            /\ packets' = Append(packets, [frame |-> Held, whole |-> whole])
            /\ lost' = gone
      BY <2>7
    <3>2. /\ \A j \in DOMAIN packets' : j \in DOMAIN packets \/ j = Len(packets) + 1
          /\ \A j \in DOMAIN packets : j \in DOMAIN packets' /\ packets'[j] = packets[j]
          /\ Len(packets) + 1 \in DOMAIN packets'
          /\ packets'[Len(packets) + 1].frame = Held
      BY <3>1, HandedAdded
    <3>3. \A f : Handed(f)' <=> Handed(f) \/ f = Held
      BY <3>2 DEF Handed
    <3>4. \A f : Gone(f)' <=> \E l \in gone : l.frame = f  BY <3>1 DEF Gone
    <3>5. \A l \in gone : ~Handed(l.frame)'  BY <2>3, <3>3
    <3> QED  BY <2>1, <2>3, <2>4, <3>1, <3>3, <3>4, <3>5 DEF Placed
  <2>8. CASE /\ packets' = packets
             /\ \E place \in Place :
                  lost' = gone \cup {[frame |-> f, at |-> place] : f \in {Held} \ {None}}
    <3>1. PICK place \in Place :
            lost' = gone \cup {[frame |-> f, at |-> place] : f \in {Held} \ {None}}
      BY <2>8
    <3> DEFINE d == [frame |-> Held, at |-> place]
    <3>2. d.frame = Held /\ lost' = gone \cup (IF Held = None THEN {} ELSE {d})
      BY <3>1
    <3> HIDE DEF d
    <3>3. \A f : Handed(f)' <=> Handed(f)  BY <2>8 DEF Handed
    <3>4. \A f : Gone(f)' <=> (\E l \in gone : l.frame = f) \/ (f = Held /\ Held # None)
      BY <3>2 DEF Gone
    <3>5. \A l, m \in lost' : l.frame = m.frame => l = m  BY <2>3, <3>2
    <3>6. \A l \in lost' : ~OnWire(l.frame)' /\ ~Handed(l.frame)
      BY <2>3, <2>5, <2>6, <3>2
    <3> QED  BY <2>1, <2>3, <2>4, <3>3, <3>4, <3>5, <3>6 DEF Placed
  <2> QED  BY <2>2, <2>7, <2>8
<1> QED  BY <1>2, <1>3, <1>5, <1>6, <1>7, <1>8 DEF FrameStep

LEMMA FramesAlways == Spec => [](Rising /\ Placed)
<1>1. Init => Rising /\ Placed
  <2> SUFFICES ASSUME Init PROVE Rising /\ Placed
    OBVIOUS
  <2>1. DOMAIN << >> = {} /\ 1 .. 0 = {}  BY EmptySeq
  <2>2. Held = None  BY DEF Init, Held, Goroutine
  <2> QED  BY <2>1, <2>2 DEF Init, Rising, Placed
<1>2. ConnTypes /\ Rising /\ Placed /\ [Next]_vars => Rising' /\ Placed'
  BY ConnTypesKept, FrameSteps, RisingKept, PlacedKept
<1> QED  BY <1>1, <1>2, ConnTypesAlways, PTL DEF Spec

LEMMA AtMostOne ==
  ASSUME NEW S, \A x, y \in S : x = y
  PROVE  Cardinality(S) = IF S = {} THEN 0 ELSE 1
<1>1. CASE S = {}  BY <1>1, FS_EmptySet
<1>2. CASE S # {}
  <2>1. PICK x : S = {x}  BY <1>2
  <2> QED  BY <1>2, <2>1, FS_Singleton
<1> QED  BY <1>1, <1>2

\* A frame the server sent is on its way, handed out, in hand or lost at one
\* place, and in one of these only, however requests and reads interleave on
\* the connection (client.go:548, 584; interleaved.go).
THEOREM EachFrameInOnePlace == Spec => []FramesAccountedFor
<1>1. ConnTypes /\ Rising /\ Placed => FramesAccountedFor
  <2> SUFFICES ASSUME ConnTypes, Rising, Placed, NEW f \in 1 .. sent PROVE Places(f) = 1
    BY DEF FramesAccountedFor
  <2> DEFINE P == {i \in DOMAIN packets : packets[i].frame = f}
             W == {i \in DOMAIN wire : wire[i].is = "head" /\ wire[i].frame = f}
             L == {l \in lost : l.frame = f}
  <2>1. f \in Nat /\ f # None  BY FrameNumbers DEF None
  <2>2. Cardinality(P) = IF Handed(f) THEN 1 ELSE 0
    <3>1. ASSUME NEW i \in P, NEW j \in P PROVE i = j
      <4>1. ~(i < j) /\ ~(j < i)
        <5>1. i < j => f < f  BY <2>1 DEF Rising
        <5>2. j < i => f < f  BY <2>1 DEF Rising
        <5> QED  BY <2>1, <5>1, <5>2
      <4>2. i \in Nat /\ j \in Nat  BY FrameNumbers
      <4> QED  BY <4>1, <4>2
    <3>2. P = {} <=> ~Handed(f)  BY DEF Handed
    <3> HIDE DEF P
    <3> QED  BY <3>1, <3>2, AtMostOne
  <2>3. Cardinality(W) = IF OnWire(f) THEN 1 ELSE 0
    <3>1. ASSUME NEW i \in W, NEW j \in W PROVE i = j
      <4>1. ~(i < j) /\ ~(j < i)
        <5>1. i < j => f < f  BY DEF Rising
        <5>2. j < i => f < f  BY DEF Rising
        <5> QED  BY <2>1, <5>1, <5>2
      <4>2. i \in Nat /\ j \in Nat  BY FrameNumbers
      <4> QED  BY <4>1, <4>2
    <3>2. W = {} <=> ~OnWire(f)  BY DEF OnWire
    <3> HIDE DEF W
    <3> QED  BY <3>1, <3>2, AtMostOne
  <2>4. Cardinality(L) = IF Gone(f) THEN 1 ELSE 0
    <3>1. ASSUME NEW l \in L, NEW m \in L PROVE l = m
      BY DEF Placed
    <3>2. L = {} <=> ~Gone(f)  BY DEF Gone
    <3> HIDE DEF L
    <3> QED  BY <3>1, <3>2, AtMostOne
  <2>5. (at["caller"] = "payload" /\ hand.frame = f) <=> Held = f  BY <2>1 DEF Held
  <2>6. Places(f) = Cardinality(P) + Cardinality(W) + Cardinality(L)
                    + (IF Held = f THEN 1 ELSE 0)
    BY <2>5 DEF Places
  <2>7. OnWire(f) \/ Handed(f) \/ Gone(f) \/ Held = f  BY DEF Placed
  <2>8. Gone(f) => ~OnWire(f) /\ ~Handed(f) /\ Held # f  BY DEF Placed, Gone
  <2>9. ~(OnWire(f) /\ Handed(f))
    <3> SUFFICES ASSUME NEW i \in DOMAIN wire, wire[i].is = "head", wire[i].frame = f,
                        NEW j \in DOMAIN packets, packets[j].frame = f
                 PROVE  FALSE
      BY DEF OnWire, Handed
    <3>1. f < f  BY DEF Rising
    <3> QED  BY <2>1, <3>1
  <2>10. ~(OnWire(f) /\ Held = f)
    <3> SUFFICES ASSUME NEW i \in DOMAIN wire, wire[i].is = "head", wire[i].frame = f, Held = f
                 PROVE  FALSE
      BY DEF OnWire
    <3>1. f < f  BY <2>1 DEF Rising
    <3> QED  BY <2>1, <3>1
  <2>11. ~(Handed(f) /\ Held = f)
    <3> SUFFICES ASSUME NEW j \in DOMAIN packets, packets[j].frame = f, Held = f
                 PROVE  FALSE
      BY DEF Handed
    <3>1. f < f  BY <2>1 DEF Rising
    <3> QED  BY <2>1, <3>1
  <2> HIDE DEF P, W, L
  <2> QED  BY <2>2, <2>3, <2>4, <2>6, <2>7, <2>8, <2>9, <2>10, <2>11
<1> QED  BY <1>1, ConnTypesAlways, FramesAlways, PTL
-----------------------------------------------------------------------------
(* The stream of frames stays in step.                                     *)

\* A header is followed by its payload.
Bodies ==
  \A i \in DOMAIN wire :
    wire[i].is = "head" => i + 1 \in DOMAIN wire /\ wire[i + 1] = Body(wire[i].frame)

\* While one goroutine at a time reads, the payload of the frame in hand comes
\* next, unless what was taken for its header was none; and packets are whole
\* until that has happened.
Whole ==
  ~overlapped =>
    /\ misframed \/ \A i \in DOMAIN packets : packets[i].whole
    /\ at["caller"] = "payload" =>
         IF hand.frame = None THEN misframed
         ELSE 1 \in DOMAIN wire /\ wire[1] = Body(hand.frame)

Cause == \/ overlapped \/ gaveUp
         \/ \E l \in lost : l.at \in {"readResponse", "deadline"}

\* No payload has lost its header, except the one that is being read.
Framed ==
  ~Cause =>
    /\ ~misframed
    /\ \A i \in DOMAIN wire :
         wire[i].is = "body" => IF i = 1 THEN at["caller"] = "payload"
                                ELSE wire[i - 1].is = "head"

LEMMA BodiesKept == ConnTypes /\ ConnTypes' /\ Bodies /\ FrameStep => Bodies'
<1> SUFFICES ASSUME ConnTypes, ConnTypes', Bodies, FrameStep PROVE Bodies'
  OBVIOUS
<1>1. Len(wire) \in Nat /\ DOMAIN wire = 1 .. Len(wire)  BY FrameNumbers
<1>2. CASE Rests  BY <1>2 DEF Rests, Bodies
<1>3. CASE Answers
  <2>1. \A i \in DOMAIN wire' : wire'[i].is = "head" => i \in DOMAIN wire /\ wire'[i] = wire[i]
    <3>1. \A i \in DOMAIN wire' : i \in DOMAIN wire \/ i = Len(wire) + 1
      BY <1>1, <1>3 DEF Answers
    <3> QED  BY <1>1, <1>3, <3>1 DEF Answers
  <2>2. \A i \in DOMAIN wire : i \in DOMAIN wire' /\ wire'[i] = wire[i]
    BY <1>1, <1>3 DEF Answers
  <2> QED  BY <2>1, <2>2 DEF Bodies
<1>4. CASE Sends
  <2>1. /\ \A i \in DOMAIN wire' : i \in DOMAIN wire \/ i = Len(wire) + 1 \/ i = Len(wire) + 2
        /\ \A i \in DOMAIN wire : i \in DOMAIN wire' /\ wire'[i] = wire[i]
        /\ Len(wire) + 2 \in DOMAIN wire' /\ (Len(wire) + 1) + 1 = Len(wire) + 2
    BY <1>1, <1>4 DEF Sends
  <2>2. /\ wire'[Len(wire) + 2] = Body(wire'[Len(wire) + 1].frame)
        /\ wire'[Len(wire) + 2].is = "body"
    BY <1>4 DEF Sends, Body
  <2>3. ASSUME NEW i \in DOMAIN wire', wire'[i].is = "head"
        PROVE  i + 1 \in DOMAIN wire' /\ wire'[i + 1] = Body(wire'[i].frame)
    <3>1. CASE i = Len(wire) + 1  BY <2>1, <2>2, <3>1
    <3>2. CASE i \in DOMAIN wire
      <4>1. wire'[i] = wire[i]  BY <2>1, <3>2
      <4>2. i + 1 \in DOMAIN wire /\ wire[i + 1] = Body(wire[i].frame)
        BY <2>3, <3>2, <4>1 DEF Bodies
      <4> QED  BY <2>1, <4>1, <4>2
    <3>3. i # Len(wire) + 2  BY <2>2, <2>3
    <3> QED  BY <2>1, <3>1, <3>2, <3>3
  <2> QED  BY <2>3 DEF Bodies
<1>6. CASE \E k : Cut(wire, wire', k)
  <2>1. PICK k : Cut(wire, wire', k)  BY <1>6
  <2>2. PICK s \in Nat :
          /\ Len(wire') = Len(wire) - s
          /\ \A i \in DOMAIN wire' :
               /\ i + s \in DOMAIN wire
               /\ wire'[i] = IF k < i + s THEN wire[i + s] ELSE Body(None)
    BY <2>1, CutUnits DEF ConnTypes, Shapes
  <2>3. /\ DOMAIN wire' = 1 .. Len(wire') /\ Len(wire') \in Nat /\ k \in Nat
        /\ Body(None).is # "head"
    BY <2>1, CutUnits DEF ConnTypes, Shapes, Body
  <2>4. ASSUME NEW i \in DOMAIN wire', wire'[i].is = "head"
        PROVE  i + 1 \in DOMAIN wire' /\ wire'[i + 1] = Body(wire'[i].frame)
    <3>1. i + s \in DOMAIN wire /\ k < i + s /\ wire'[i] = wire[i + s]
      BY <2>2, <2>3, <2>4
    <3>2. (i + s) + 1 \in DOMAIN wire /\ wire[(i + s) + 1] = Body(wire[i + s].frame)
      BY <2>4, <3>1 DEF Bodies
    <3>3. i + 1 \in DOMAIN wire' /\ (i + s) + 1 = (i + 1) + s /\ k < (i + 1) + s
      BY <1>1, <2>2, <2>3, <3>1, <3>2
    <3>4. wire'[i + 1] = wire[(i + 1) + s]  BY <2>2, <3>3
    <3> QED  BY <3>1, <3>2, <3>3, <3>4
  <2> QED  BY <2>4 DEF Bodies
<1>7. Picks => Cut(wire, wire', 1)
  BY BehindIsCut DEF Picks, ConnTypes, Shapes
<1> QED  BY <1>2, <1>3, <1>4, <1>6, <1>7 DEF FrameStep, Drops, Ends

LEMMA OverlapStays ==
  ASSUME ConnTypes, [Next]_vars, ~overlapped'
  PROVE  ~overlapped
<1>1. CASE \E g \in Goroutine, method \in Method, again \in BOOLEAN : Begin(g, method, again)
  BY <1>1, BeginOverlaps
<1>2. CASE \E rtcp \in BOOLEAN : ReadFrames(rtcp)
  BY <1>2, ReadFramesOverlaps
<1>3. CASE overlapped' = overlapped  BY <1>3, Zenon
<1> QED  BY <1>1, <1>2, <1>3, OthersStayIdle

\* While one goroutine at a time uses the connection, nothing but the reading
\* of a frame happens between header and payload.
LEMMA NotReading ==
  ASSUME ConnTypes, Alone, [Next]_vars, ~overlapped',
         \/ \E method \in Setting : Calls(method)
         \/ KeepAliveTicks
         \/ \E g \in Goroutine : Request(g)
         \/ \E rtcp \in BOOLEAN : ReadFrames(rtcp)
  PROVE  at["caller"] # "payload" /\ at'["caller"] # "payload" /\ packets' = packets
<1>1. ~overlapped  BY OverlapStays
<1>2. CASE \E g \in Goroutine, method \in Method, again \in BOOLEAN :
             at[g] \in {"idle", "again"} /\ Begin(g, method, again)
  <2>1. PICK g \in Goroutine, method \in Method, again \in BOOLEAN :
          at[g] \in {"idle", "again"} /\ Begin(g, method, again)
    BY <1>2
  <2>2. Goes(g, "send") /\ packets' = packets  BY <2>1 DEF Begin, frames
  <2>3. \A h \in Goroutine \ {g} : ~Busy(h)  BY <2>1, BeginOverlaps
  <2> QED  BY <2>1, <2>2, <2>3, GoesTypes DEF Busy, State, Goroutine
<1>3. ASSUME NEW g \in Goroutine, Request(g), ~RetryWithAuth(g)
      PROVE  at["caller"] # "payload" /\ at'["caller"] # "payload" /\ packets' = packets
  <2>1. at[g] \in {"send", "await"} /\ packets' = packets
        /\ \E where \in {"await", "idle", "again"} : Goes(g, where)
    BY <1>3 DEF Request, Send, SendFails, ReadsAnswer, Takes, MisreadsAnswer, AnswerTimesOut,
            Swallow, frames
  <2>2. \A h \in Goroutine : Busy(h) => h = g
    BY <1>1, <2>1 DEF Alone, Busy, Goroutine
  <2> QED  BY <2>1, <2>2, GoesTypes DEF Busy, State, Goroutine
<1>4. CASE \E rtcp \in BOOLEAN : ReadFrames(rtcp)
  BY <1>4, GoesTypes DEF ReadFrames, Busy, frames, State, Goroutine
<1> QED  BY <1>2, <1>3, <1>4, BeginsOne

LEMMA MisframedBy ==
  ASSUME [Next]_vars
  PROVE  misframed' = misframed \/ MisreadsHeader
<1>1. CASE Server \/ UNCHANGED vars
  BY <1>1 DEF Server, Serve, SendFrame, vars, trouble
<1>2. ASSUME NEW g, NEW method, NEW again, Begin(g, method, again)
      PROVE  misframed' = misframed
  BY <1>2, BeginOverlaps, Zenon DEF Begin
<1>3. CASE (\E method \in Setting : Calls(method)) \/ KeepAliveTicks
  BY <1>2, <1>3, Zenon DEF Calls, KeepAliveTicks
<1>4. ASSUME NEW g \in Goroutine, Request(g) PROVE misframed' = misframed
  <2>1. CASE RetryWithAuth(g)  BY <1>2, <2>1, Zenon DEF RetryWithAuth
  <2>2. CASE Send(g) \/ SendFails(g) \/ ReadsAnswer(g) \/ MisreadsAnswer(g) \/ AnswerTimesOut(g)
    BY <2>2 DEF Send, SendFails, ReadsAnswer, MisreadsAnswer, AnswerTimesOut, trouble
  <2> QED  BY <1>4, <2>1, <2>2 DEF Request
<1>5. CASE \E rtcp \in BOOLEAN : ReadFrames(rtcp)
  BY <1>5, ReadFramesOverlaps
<1>6. CASE ReadFrame /\ ~MisreadsHeader
  BY <1>6 DEF ReadFrame, ReadsHeader, ReadsPayload, ReadsOtherPayload, ReadTimesOut, trouble
<1> QED  BY <1>1, <1>3, <1>4, <1>5, <1>6 DEF Next

LEMMA MisframedStays ==
  ASSUME [Next]_vars, ~misframed'
  PROVE  ~misframed
<1>1. CASE misframed' = misframed  BY <1>1, Zenon
<1>2. CASE MisreadsHeader  BY <1>2, Zenon DEF MisreadsHeader
<1> QED  BY <1>1, <1>2, MisframedBy

LEMMA WholeKept ==
  ConnTypes /\ ConnTypes' /\ Alone /\ Bodies /\ Whole /\ [Next]_vars => Whole'
<1> DEFINE AllWhole == \A i \in DOMAIN packets : packets[i].whole
           InStep   == at["caller"] = "payload" =>
                         IF hand.frame = None THEN misframed
                         ELSE 1 \in DOMAIN wire /\ wire[1] = Body(hand.frame)
<1> SUFFICES ASSUME ConnTypes, ConnTypes', Alone, Bodies, Whole, [Next]_vars, ~overlapped'
             PROVE  (misframed \/ AllWhole)' /\ InStep'
  BY DEF Whole
<1>1. (misframed \/ AllWhole) /\ InStep  BY OverlapStays DEF Whole
<1>2. Len(wire) \in Nat /\ DOMAIN wire = 1 .. Len(wire)  BY FrameNumbers
<1>3. ASSUME packets' = packets PROVE (misframed \/ AllWhole)'
  <2>1. AllWhole => AllWhole'  BY <1>3
  <2> HIDE DEF AllWhole
  <2> QED  BY <1>1, <2>1, MisframedStays, Zenon
<1>4. ASSUME at'["caller"] # "payload", packets' = packets
      PROVE  (misframed \/ AllWhole)' /\ InStep'
  BY <1>3, <1>4
<1>5. CASE UNCHANGED <<at, hand>> /\ packets' = packets
           /\ (\A i \in DOMAIN wire : i \in DOMAIN wire' /\ wire'[i] = wire[i])
  <2>1. hand.frame = None /\ at["caller"] = "payload" => misframed'
    BY <1>1, MisframedStays, Zenon
  <2>2. hand.frame # None /\ at["caller"] = "payload" => 1 \in DOMAIN wire /\ wire[1] = Body(hand.frame)
    BY <1>1
  <2> QED  BY <1>3, <1>5, <2>1, <2>2
<1>6. CASE UNCHANGED vars
  BY <1>5, <1>6 DEF vars, client, frames
<1>7. CASE Server
  <2>1. UNCHANGED <<at, hand, packets>>
    BY <1>7 DEF Server, Serve, SendFrame, client, frames
  <2>2. \A i \in DOMAIN wire : i \in DOMAIN wire' /\ wire'[i] = wire[i]
    BY <1>2, <1>7, ServeWire, SendFrameWire DEF Server, Status, ConnTypes
  <2> QED  BY <1>5, <2>1, <2>2
<1>8. CASE \/ \E method \in Setting : Calls(method)
           \/ KeepAliveTicks
           \/ \E g \in Goroutine : Request(g)
           \/ \E rtcp \in BOOLEAN : ReadFrames(rtcp)
  BY <1>4, <1>8, NotReading
<1>9. CASE ReadFrame /\ at["caller"] = "header"
  <2>1. wire' \in Seq(Unit) /\ (HeaderRead \/ (HeaderMisread /\ misframed') \/ HeaderLate)
    BY <1>9, HeaderEnds DEF ConnTypes
  <2>2. CASE HeaderLate
    <3>1. at'["caller"] = "idle" /\ packets' = packets
      BY <2>2, GoesTypes DEF HeaderLate, State, Goroutine
    <3> QED  BY <1>4, <3>1
  <2>3. CASE HeaderMisread /\ misframed'
    <3>1. at'["caller"] # "payload" \/ hand'.frame = None
      <4>1. CASE Goes("caller", "idle")
        BY <4>1, GoesTypes DEF State, Goroutine
      <4>2. ASSUME NEW rtcp, hand' = [hand EXCEPT !.frame = None, !.rtcp = rtcp]
            PROVE  hand'.frame = None
        BY <4>2 DEF ConnTypes, Shapes
      <4> QED  BY <2>3, <4>1, <4>2 DEF HeaderMisread
    <3> HIDE DEF AllWhole
    <3> QED  BY <2>3, <3>1, Zenon
  <2>4. CASE HeaderRead
    <3>1. /\ 1 \in DOMAIN wire /\ wire[1].is = "head" /\ Behind(wire, wire', 1)
          /\ packets' = packets
      BY <2>4 DEF HeaderRead
    <3>2. hand'.frame = wire[1].frame  BY <2>4 DEF HeaderRead, ConnTypes, Shapes
    <3>3. 1 + 1 \in DOMAIN wire /\ wire[1 + 1] = Body(wire[1].frame)  BY <3>1 DEF Bodies
    <3>4. /\ DOMAIN wire' = 1 .. Len(wire')
          /\ \A i \in DOMAIN wire' : wire'[i] = wire[i + 1]
      BY <2>1, <3>1, BehindUnits DEF ConnTypes
    <3>5. 1 \in DOMAIN wire'  BY <1>2, <3>1, <3>3, <3>4 DEF Behind
    <3>6. hand'.frame # None  BY <3>1, <3>2, FrameNumbers DEF None
    <3> QED  BY <1>3, <3>1, <3>2, <3>3, <3>4, <3>5, <3>6
  <2> QED  BY <2>1, <2>2, <2>3, <2>4
<1>10. CASE ReadFrame /\ at["caller"] = "payload"
  <2>1. PICK k \in 0 .. Len(wire), whole \in BOOLEAN :
          /\ Disposes(whole, k)
          /\ whole \/ (~whole /\ OutOfStep) \/ packets' = packets
    BY <1>10, PayloadEnds
  <2>2. at'["caller"] \in {"idle", "header"}
    BY <2>1, GoesTypes DEF Disposes, State, Goroutine
  <2>3. CASE packets' = packets  BY <1>4, <2>2, <2>3
  <2>4. CASE OutOfStep
    <3>1. misframed
      <4>1. hand.frame = None \/ (wire # << >> /\ wire[1] # Body(hand.frame))
        BY <2>4 DEF OutOfStep
      <4> QED  BY <1>1, <1>10, <4>1
    <3>2. misframed'  BY <3>1, MisframedStays, Zenon
    <3> HIDE DEF AllWhole
    <3> QED  BY <2>2, <3>2
  <2>5. CASE packets' = Append(packets, [frame |-> hand.frame, whole |-> whole]) /\ whole
    <3> DEFINE d == [frame |-> hand.frame, whole |-> TRUE]
    <3>1. packets' = Append(packets, d) /\ d.whole
      <4>1. whole = TRUE  BY <2>5
      <4> QED  BY <2>5, <4>1
    <3>2. hand.frame # None => d \in Packet
      <4>1. hand.frame # None => hand.frame \in 1 .. MaxFrames
        BY ConnectionAssumption DEF ConnTypes, Shapes, None
      <4> QED  BY <4>1 DEF Packet
    <3>3. CASE hand.frame = None
      <4>1. OutOfStep  BY <3>3 DEF OutOfStep
      <4> QED  BY <2>4, <4>1
    <3>4. CASE hand.frame # None
      <4> HIDE DEF d
      <4>1. /\ \A j \in DOMAIN packets' : j \in DOMAIN packets \/ j = Len(packets) + 1
            /\ \A j \in DOMAIN packets : packets'[j] = packets[j]
            /\ packets'[Len(packets) + 1] = d
        BY <3>1, <3>2, <3>4, PacketAdded
      <4>2. AllWhole => AllWhole'  BY <3>1, <4>1
      <4> HIDE DEF AllWhole
      <4>3. (misframed \/ AllWhole)'  BY <1>1, <4>2, MisframedStays, Zenon
      <4> QED  BY <2>2, <4>3
    <3> QED  BY <3>3, <3>4
  <2> QED  BY <2>1, <2>3, <2>4, <2>5 DEF Disposes
<1> QED  BY <1>6, <1>7, <1>8, <1>9, <1>10, ReadFrameNeeds DEF Next

LEMMA WholeAlways == Spec => [](Bodies /\ Whole)
<1>1. Init => Bodies /\ Whole
  <2> SUFFICES ASSUME Init PROVE Bodies /\ Whole
    OBVIOUS
  <2>1. DOMAIN << >> = {}  BY EmptySeq
  <2>2. at["caller"] = "idle"  BY DEF Init, Goroutine
  <2> QED  BY <2>1, <2>2 DEF Init, Bodies, Whole
<1>2. ConnTypes /\ Bodies /\ [Next]_vars => Bodies'
  BY ConnTypesKept, FrameSteps, BodiesKept
<1>3. ConnTypes /\ Alone /\ Bodies /\ Whole /\ [Next]_vars => Whole'
  BY ConnTypesKept, WholeKept
<1> QED  BY <1>1, <1>2, <1>3, ConnTypesAlways, TalkAlways, PTL DEF Spec

\* As long as one goroutine at a time uses the connection, the packets that
\* ReadPacket and ReadRTCP hand out (client.go:548) are payloads the server sent
\* until ReadFrame has looked for a header where there is none, and those that
\* are come in the order sent, after that too: what is read as a frame out of
\* step (interleaved.go:67) may be anything, but no payload twice or too late.
THEOREM PacketsAreInOrder == Spec => []PacketsInOrder
<1>1. ASSUME ConnTypes, Rising, Whole PROVE PacketsInOrder
  <2>1. \A i \in DOMAIN packets : packets[i].whole => packets[i].frame # None
    <3>1. \A d \in Packet : d.whole => d.frame # None  BY DEF Packet, None
    <3> QED  BY <1>1, <3>1, Elements DEF ConnTypes
  <2>2. \A i, j \in DOMAIN packets :
          i < j /\ packets[i].whole /\ packets[j].whole => packets[i].frame < packets[j].frame
    BY <1>1, <2>1 DEF Rising
  <2>3. ~overlapped => misframed \/ \A i \in DOMAIN packets : packets[i].whole
    BY <1>1 DEF Whole
  <2> QED  BY <2>2, <2>3 DEF PacketsInOrder
<1> QED  BY <1>1, ConnTypesAlways, FramesAlways, WholeAlways, PTL

\* A step after which there is no cause for trouble, seen from before it.
LEMMA CauseStays ==
  ASSUME ConnTypes, [Next]_vars, ~Cause'
  PROVE  ~Cause /\ Undisturbed /\ Undisturbed' /\ lost \subseteq lost'
<1>1. Undisturbed' /\ ~overlapped'  BY DEF Cause, Undisturbed
<1>2. Undisturbed  BY <1>1, DisturbedStays
<1>3. lost \subseteq lost'
  BY FrameSteps DEF FrameStep, Rests, Answers, Sends, Drops, Picks, Ends
<1>4. ~ \E l \in lost : l.at \in {"readResponse", "deadline"}  BY <1>3 DEF Cause
<1> QED  BY <1>1, <1>2, <1>3, <1>4 DEF Cause, Undisturbed

LEMMA FramedKept ==
  ASSUME ConnTypes, ConnTypes', Alone, TalkInv, Whole, Framed, [Next]_vars
  PROVE  Framed'
<1> DEFINE InStep(i) == wire[i].is = "body" => IF i = 1 THEN at["caller"] = "payload"
                                               ELSE wire[i - 1].is = "head"
<1> SUFFICES ASSUME ~Cause'
             PROVE  ~misframed' /\ \A i \in DOMAIN wire' : InStep(i)'
  BY DEF Framed
<1>1. ~Cause /\ Undisturbed /\ Undisturbed' /\ lost \subseteq lost'  BY CauseStays
<1>2. /\ ~misframed /\ \A i \in DOMAIN wire : InStep(i)
      /\ Outstanding /\ ~overlapped /\ ~overlapped' /\ ~gaveUp'
      /\ \A l \in lost' : l.at \notin {"readResponse", "deadline"}
  BY <1>1 DEF Framed, TalkInv, Undisturbed, Cause
<1>3. Len(wire) \in Nat /\ DOMAIN wire = 1 .. Len(wire) /\ \A i \in DOMAIN wire : wire[i] \in Unit
  BY Elements DEF ConnTypes
<1>4. at["caller"] # "payload" /\ 1 \in DOMAIN wire => wire[1].is # "body"
  BY <1>2
<1>5. at["caller"] = "header" /\ 1 \in DOMAIN wire => wire[1].is = "head"
  <2> SUFFICES ASSUME at["caller"] = "header", 1 \in DOMAIN wire PROVE wire[1].is = "head"
    OBVIOUS
  <2>1. \A g \in Goroutine : at[g] # "await"  BY <1>2 DEF Alone, Busy, Goroutine
  <2>2. wire[1].is # "answer"  BY <1>2, <2>1, NothingOutstanding DEF ConnTypes
  <2> QED  BY <1>3, <1>4, <2>2, UnitTypes
<1>6. ~misframed'
  <2>1. ~MisreadsHeader
    BY <1>5, MisreadWire DEF MisreadsHeader, ConnTypes
  <2>2. misframed' = misframed  BY <2>1, MisframedBy
  <2> QED  BY <1>2, <2>2, Zenon
<1>7. CASE UNCHANGED vars
  BY <1>2, <1>6, <1>7 DEF vars, client
<1>8. CASE Server
  <2>1. at' = at  BY <1>8 DEF Server, Serve, SendFrame, client
  <2>2. /\ \A i \in DOMAIN wire : i \in DOMAIN wire' /\ wire'[i] = wire[i]
        /\ \A i \in DOMAIN wire' \ DOMAIN wire :
             wire'[i].is = "body" => i - 1 # 0 /\ wire'[i - 1].is = "head"
    <3>1. ASSUME NEW status \in Status, Serve(status)
          PROVE  /\ \A i \in DOMAIN wire : i \in DOMAIN wire' /\ wire'[i] = wire[i]
                 /\ \A i \in DOMAIN wire' \ DOMAIN wire : wire'[i].is # "body"
      <4>1. /\ DOMAIN wire' = 1 .. Len(wire) + 1
            /\ \A i \in 1 .. Len(wire) : wire'[i] = wire[i]
            /\ wire'[Len(wire) + 1].is = "answer"
        BY <3>1, ServeWire DEF ConnTypes
      <4>2. \A i \in DOMAIN wire' \ DOMAIN wire : i = Len(wire) + 1  BY <1>3, <4>1
      <4> QED  BY <1>3, <4>1, <4>2
    <3>2. ASSUME NEW rtcp \in BOOLEAN, SendFrame(rtcp)
          PROVE  /\ \A i \in DOMAIN wire : i \in DOMAIN wire' /\ wire'[i] = wire[i]
                 /\ \A i \in DOMAIN wire' \ DOMAIN wire :
                      wire'[i].is = "body" => i - 1 # 0 /\ wire'[i - 1].is = "head"
      <4>1. /\ DOMAIN wire' = 1 .. Len(wire) + 2
            /\ \A i \in 1 .. Len(wire) : wire'[i] = wire[i]
            /\ wire'[Len(wire) + 1].is = "head"
        BY <3>2, SendFrameWire DEF ConnTypes
      <4>2. \A i \in DOMAIN wire' \ DOMAIN wire :
              i = Len(wire) + 1 \/ (i - 1 = Len(wire) + 1 /\ i - 1 # 0)
        BY <1>3, <4>1
      <4> QED  BY <1>3, <4>1, <4>2
    <3> QED  BY <1>8, <3>1, <3>2 DEF Server, Status
  <2>3. ASSUME NEW i \in DOMAIN wire' PROVE InStep(i)'
    <3>1. CASE i \in DOMAIN wire
      <4>1. i # 1 => i - 1 \in DOMAIN wire  BY <1>3, <3>1
      <4>2. InStep(i) /\ wire'[i] = wire[i] /\ (i # 1 => wire'[i - 1] = wire[i - 1])
        BY <1>2, <2>2, <3>1, <4>1
      <4> QED  BY <2>1, <4>2
    <3>2. CASE i \notin DOMAIN wire
      <4>1. wire'[i].is = "body" => i # 1 /\ wire'[i - 1].is = "head"
        BY <2>2, <2>3, <3>2
      <4> QED  BY <4>1
    <3> QED  BY <3>1, <3>2
  <2> QED  BY <1>6, <2>3
<1>9. CASE \/ \E method \in Setting : Calls(method)
           \/ KeepAliveTicks
           \/ \E g \in Goroutine : Request(g)
           \/ \E rtcp \in BOOLEAN : ReadFrames(rtcp)
  <2>1. at["caller"] # "payload" /\ at'["caller"] # "payload"  BY <1>2, <1>9, NotReading
  <2>2. CASE wire' = wire  BY <1>2, <1>6, <2>1, <2>2
  <2>3. ASSUME NEW g \in Goroutine, ReadsAnswer(g) PROVE \A i \in DOMAIN wire' : InStep(i)'
    <3>1. \E k \in 0 .. Len(wire) : Swallow(k)
      <4>1. AnswersIn(wire) \subseteq DOMAIN wire  BY DEF AnswersIn
      <4> QED  BY <1>3, <2>3, <4>1 DEF ReadsAnswer
    <3>2. PICK k \in 0 .. Len(wire) : Swallow(k)  BY <3>1
    <3>3. /\ wire' \in Seq(Unit) /\ Behind(wire, wire', k)
          /\ lost' = lost \cup HeadsIn(k, "readResponse")
      BY <3>2, SwallowTypes DEF ConnTypes, Shapes, HeadsIn
    <3>4. \A j \in 1 .. k : wire[j].is # "head"
      <4> SUFFICES ASSUME NEW j \in 1 .. k, wire[j].is = "head" PROVE FALSE
        OBVIOUS
      <4>1. [frame |-> wire[j].frame, at |-> "readResponse"] \in lost'
        BY <3>3 DEF HeadsIn
      <4> QED  BY <1>2, <4>1
    <3>5. /\ DOMAIN wire' = 1 .. Len(wire') /\ Len(wire') \in Nat /\ k \in Nat
          /\ \A i \in DOMAIN wire' : i + k \in DOMAIN wire /\ wire'[i] = wire[i + k]
      BY <3>3, BehindUnits DEF ConnTypes
    <3>6. ASSUME NEW i \in DOMAIN wire', wire'[i].is = "body"
          PROVE  i # 1 /\ wire'[i - 1].is = "head"
      <4>1. i + k \in DOMAIN wire /\ wire[i + k].is = "body"  BY <3>5, <3>6
      <4>2. i + k # 1 /\ wire[(i + k) - 1].is = "head"  BY <1>2, <2>1, <4>1
      <4>3. (i + k) - 1 \notin 1 .. k  BY <3>4, <4>2
      <4>4. i # 1  BY <1>3, <3>5, <4>1, <4>2, <4>3
      <4>5. i - 1 \in DOMAIN wire' /\ (i - 1) + k = (i + k) - 1  BY <3>5, <4>4
      <4> QED  BY <3>5, <4>2, <4>4, <4>5
    <3> QED  BY <3>6
  <2>4. ASSUME NEW g \in Goroutine, MisreadsAnswer(g) \/ AnswerTimesOut(g) PROVE FALSE
    <3>1. gaveUp'  BY <2>4, Zenon DEF MisreadsAnswer, AnswerTimesOut
    <3> QED  BY <1>2, <3>1
  <2>5. ASSUME NEW g \in Goroutine, Request(g)
        PROVE  wire' = wire \/ ReadsAnswer(g) \/ MisreadsAnswer(g) \/ AnswerTimesOut(g)
    BY <2>5 DEF Request, RetryWithAuth, Begin, Send, SendFails
  <2>6. wire' = wire \/ \E g \in Goroutine : Request(g)
    BY <1>9 DEF Calls, KeepAliveTicks, Begin, ReadFrames
  <2> QED  BY <1>6, <2>2, <2>3, <2>4, <2>5, <2>6
<1>10. CASE ReadFrame /\ at["caller"] = "header"
  <2>1. wire' \in Seq(Unit) /\ (HeaderRead \/ HeaderMisread \/ HeaderLate)
    BY <1>10, HeaderEnds DEF ConnTypes
  <2>2. ~HeaderMisread  BY <1>5, <1>10 DEF HeaderMisread
  <2>3. CASE HeaderLate
    <3>1. at'["caller"] = "idle"  BY <2>3, GoesTypes DEF HeaderLate, State, Goroutine
    <3>2. wire' = wire
      <4> SUFFICES ASSUME 1 \in DOMAIN wire, wire[1].is = "head",
                          lost' = lost \cup HeadsIn(1, "deadline")
                   PROVE  FALSE
        BY <2>3 DEF HeaderLate
      <4>1. 1 \in 1 .. 1  OBVIOUS
      <4>2. [frame |-> wire[1].frame, at |-> "deadline"] \in lost'
        BY <4>1 DEF HeadsIn
      <4> QED  BY <1>2, <4>2
    <3> QED  BY <1>2, <1>6, <1>10, <3>1, <3>2
  <2>4. CASE HeaderRead
    <3>1. /\ 1 \in DOMAIN wire /\ wire[1].is = "head" /\ Behind(wire, wire', 1)
          /\ at'["caller"] = "payload"
      BY <2>4, GoesTypes DEF HeaderRead, State, Goroutine
    <3>2. /\ DOMAIN wire' = 1 .. Len(wire') /\ Len(wire') \in Nat
          /\ \A i \in DOMAIN wire' : i + 1 \in DOMAIN wire /\ wire'[i] = wire[i + 1]
      BY <2>1, <3>1, BehindUnits DEF ConnTypes
    <3>3. ASSUME NEW i \in DOMAIN wire', wire'[i].is = "body", i # 1
          PROVE  wire'[i - 1].is = "head"
      <4>1. i + 1 \in DOMAIN wire /\ wire[i + 1].is = "body" /\ i + 1 # 1 /\ (i + 1) - 1 = i
        BY <3>2, <3>3
      <4>2. wire[i].is = "head"  BY <1>2, <4>1
      <4>3. i - 1 \in DOMAIN wire' /\ (i - 1) + 1 = i  BY <3>2, <3>3
      <4> QED  BY <3>2, <4>2, <4>3
    <3> QED  BY <1>6, <3>1, <3>3
  <2> QED  BY <2>1, <2>2, <2>3, <2>4
<1>11. CASE ReadFrame /\ at["caller"] = "payload"
  <2>1. /\ 1 \in DOMAIN wire /\ wire[1] = Body(hand.frame) /\ hand.frame # None
        /\ wire # << >>
    BY <1>2, <1>3, <1>11 DEF Whole
  <2>2. ~OutOfStep  BY <2>1 DEF OutOfStep
  <2>3. wire' \in Seq(Unit) /\ Behind(wire, wire', 1)
    BY <1>2, <1>11, <2>2, PayloadEnds
  <2>4. /\ DOMAIN wire' = 1 .. Len(wire') /\ Len(wire') \in Nat
        /\ \A i \in DOMAIN wire' : i + 1 \in DOMAIN wire /\ wire'[i] = wire[i + 1]
    BY <2>3, BehindUnits DEF ConnTypes
  <2>5. ASSUME NEW i \in DOMAIN wire', wire'[i].is = "body"
        PROVE  i # 1 /\ wire'[i - 1].is = "head"
    <3>1. i + 1 \in DOMAIN wire /\ wire[i + 1].is = "body" /\ i + 1 # 1 /\ (i + 1) - 1 = i
      BY <2>4, <2>5
    <3>2. wire[i].is = "head"  BY <1>2, <3>1
    <3>3. i # 1  BY <2>1, <3>2 DEF Body
    <3>4. i - 1 \in DOMAIN wire' /\ (i - 1) + 1 = i  BY <2>4, <2>5, <3>3
    <3> QED  BY <2>4, <3>2, <3>3, <3>4
  <2> QED  BY <1>6, <2>5
<1> QED  BY <1>7, <1>8, <1>9, <1>10, <1>11, ReadFrameNeeds DEF Next

\* ReadFrame finds a '$' where it looks for one (interleaved.go) unless a
\* request was given up, two goroutines used the connection at once, or a frame
\* was cut by a deadline or by what readResponse read ahead.
THEOREM MisframingHasCause == Spec => []MisframedNeedsCause
<1>1. Init => Framed
  <2>1. DOMAIN << >> = {}  BY EmptySeq
  <2> QED  BY <2>1 DEF Init, Framed
<1>2. ConnTypes /\ Alone /\ TalkInv /\ Whole /\ Framed /\ [Next]_vars => Framed'
  BY ConnTypesKept, FramedKept
<1>3. Framed => MisframedNeedsCause  BY DEF Framed, Cause, MisframedNeedsCause
<1> QED  BY <1>1, <1>2, <1>3, ConnTypesAlways, TalkAlways, WholeAlways, PTL DEF Spec
=============================================================================
