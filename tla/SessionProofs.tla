---------------------------- MODULE SessionProofs ----------------------------
(***************************************************************************)
(* Which refusals and channels Session can come to, for any number of      *)
(* tracks, calls, nonces and losses.  The challenge and the nonce count    *)
(* belong to no goroutine, so the argument is about requests that are      *)
(* alone: while one is, every other goroutine is idle, and the state it    *)
(* was built from is still the client's.                                   *)
(***************************************************************************)
EXTENDS Session, TLAPS

Kinds    == Methods \cup {"none", "health", "resume"}
Phases   == {"idle", "build", "sent", "recover"}
Requests == [method : Kinds, phase : Phases, track : 0 .. Tracks - 1, channel : Nat,
             session : Nat, auth : Nat \X Nat, again : BOOLEAN, told : Nat,
             alone : BOOLEAN, conn : Nat]

\* TypeOK, and the types it leaves out.
SessionTypes ==
  /\ TypeOK
  /\ nonce \in Nat \ {0} /\ used \subseteq Nat \X Nat
  /\ pc \in [Goroutines -> Requests]
  /\ mixed \in BOOLEAN

\* What every request is like: idle is Idle; only what is sent with
\* credentials is repeated; credentials are of a challenge that was there.
RequestsMade ==
  \A g \in Goroutines :
    /\ pc[g].phase = "idle" => pc[g] = Idle
    /\ pc[g].again => pc[g].method \in Persists
    /\ pc[g].auth[1] <= challenge
    /\ pc[g].auth = NoAuth \/ pc[g].auth[1] # 0

UsedOld == \A u \in used : u[1] <= challenge

\* The others are idle while a request is alone, and requests are alone until
\* calls are under way together.
AloneIsAlone ==
  /\ \A g, h \in Goroutines : g # h /\ pc[g] # Idle /\ pc[g].alone => pc[h] = Idle
  /\ ~mixed => \A g \in Goroutines : pc[g] # Idle => pc[g].alone

SharedInv == SessionTypes /\ RequestsMade /\ UsedOld /\ AloneIsAlone
-----------------------------------------------------------------------------
LEMMA IdleIsRequest == Idle \in Requests
BY SessionAssumption DEF Idle, Requests, Kinds, Phases, NoAuth

LEMMA InitShared == Init => SharedInv
<1> SUFFICES ASSUME Init PROVE SharedInv
  OBVIOUS
<1>1. /\ pc = [g \in Goroutines |-> Idle]
      /\ nonce = 1 /\ used = {} /\ live = {} /\ challenge = 0 /\ lastNonce = 0
      /\ authNonceCount = 0 /\ session = 0 /\ conn = 1 /\ trackIndex = 0 /\ mixed = FALSE
  BY DEF Init
<1>2. Idle.phase = "idle" /\ ~Idle.again /\ Idle.auth[1] = 0 /\ Idle.auth = NoAuth
  BY DEF Idle, NoAuth
<1>3. SessionTypes
  <2>1. pc \in [Goroutines -> Requests] /\ \A g \in Goroutines : pc[g].phase = "idle"
    BY <1>1, <1>2, IdleIsRequest
  <2>2. mixed \in BOOLEAN  BY <1>1
  <2> QED  BY <1>1, <2>1, <2>2, SessionAssumption DEF SessionTypes, TypeOK
<1> QED
  BY <1>1, <1>2, <1>3 DEF SharedInv, RequestsMade, UsedOld, AloneIsAlone

\* A step of a busy goroutine that leaves the others' requests alone and only
\* adds to what the client and the server know.
Moves(g, r) ==
  /\ pc' = [pc EXCEPT ![g] = r]
  /\ pc[g] # Idle
  /\ r \in Requests
  /\ r # Idle => r.alone = pc[g].alone
  /\ r.phase = "idle" => r = Idle
  /\ r.again => r.method \in Persists
  /\ r.auth[1] <= challenge'
  /\ r.auth = NoAuth \/ r.auth[1] # 0
  /\ challenge <= challenge'
  /\ mixed' = mixed

LEMMA MovesShared ==
  ASSUME SharedInv, NEW g \in Goroutines, NEW r, Moves(g, r),
         TypeOK', nonce' \in Nat \ {0}, used' \in {used, used \cup {pc[g].auth}}
  PROVE  SharedInv'
<1>1. SessionTypes'
  BY DEF SharedInv, SessionTypes, Moves, Requests
<1>2. RequestsMade'
  <2>1. challenge \in Nat /\ challenge' \in Nat /\ challenge <= challenge'
    BY DEF SharedInv, SessionTypes, TypeOK, Moves
  <2>2. \A h \in Goroutines \ {g} : pc'[h] = pc[h] /\ pc[h].auth[1] \in Nat
    BY DEF SharedInv, SessionTypes, Requests, Moves
  <2>3. pc'[g] = r  BY DEF SharedInv, SessionTypes, Moves
  <2> QED  BY <2>1, <2>2, <2>3 DEF SharedInv, RequestsMade, Moves
<1>3. UsedOld'
  <2>1. challenge \in Nat /\ challenge' \in Nat /\ challenge <= challenge'
    BY DEF SharedInv, SessionTypes, TypeOK, Moves
  <2>2. \A u \in used' : u[1] \in Nat /\ u[1] <= challenge
    BY DEF SharedInv, SessionTypes, RequestsMade, UsedOld, Requests
  <2> QED  BY <2>1, <2>2 DEF UsedOld
<1>4. AloneIsAlone'
  BY DEF SharedInv, SessionTypes, AloneIsAlone, Moves
<1> QED  BY <1>1, <1>2, <1>3, <1>4 DEF SharedInv

\* The fields a request keeps.
LEMMA RequestFields ==
  ASSUME NEW r \in Requests, NEW phase \in Phases
  PROVE  /\ [r EXCEPT !.phase = phase] \in Requests
         /\ [r EXCEPT !.phase = phase].phase = phase
         /\ [r EXCEPT !.phase = phase].method = r.method
         /\ [r EXCEPT !.phase = phase].track = r.track
         /\ [r EXCEPT !.phase = phase].channel = r.channel
         /\ [r EXCEPT !.phase = phase].session = r.session
         /\ [r EXCEPT !.phase = phase].auth = r.auth
         /\ [r EXCEPT !.phase = phase].again = r.again
         /\ [r EXCEPT !.phase = phase].told = r.told
         /\ [r EXCEPT !.phase = phase].alone = r.alone
         /\ [r EXCEPT !.phase = phase].conn = r.conn
BY DEF Requests

LEMMA RequestMade ==
  ASSUME NEW r \in Requests, NEW auth \in Nat \X Nat
  PROVE  LET s == [r EXCEPT !.phase = "sent", !.auth = auth]
         IN  /\ s \in Requests /\ s.phase = "sent" /\ s.auth = auth
             /\ s.method = r.method /\ s.track = r.track /\ s.channel = r.channel
             /\ s.session = r.session /\ s.again = r.again /\ s.told = r.told
             /\ s.alone = r.alone /\ s.conn = r.conn
BY DEF Requests, Phases


\* How the steps of a goroutine look.
Ends(g, r) == r = Idle \/ (pc[g].method = "health" /\ session # 0
                           /\ r = [pc[g] EXCEPT !.phase = "recover"])

LEMMA EndsMoves ==
  ASSUME SharedInv, NEW g \in Goroutines, NEW r, Ends(g, r),
         pc' = [pc EXCEPT ![g] = r], pc[g].phase = "sent", challenge' = challenge,
         mixed' = mixed
  PROVE  Moves(g, r)
<1>1. pc[g] \in Requests /\ pc[g] # Idle
  BY DEF SharedInv, SessionTypes, Idle
<1>2. "recover" \in Phases  BY DEF Phases
<1>3. Idle.auth[1] = 0 /\ ~Idle.again /\ Idle.auth = NoAuth  BY DEF Idle, NoAuth
<1>4. challenge \in Nat  BY DEF SharedInv, SessionTypes, TypeOK
<1>5. CASE r = Idle
  BY <1>1, <1>3, <1>4, <1>5, IdleIsRequest DEF Moves
<1>6. CASE r = [pc[g] EXCEPT !.phase = "recover"]
  BY <1>1, <1>2, <1>4, <1>6, RequestFields DEF Moves, SharedInv, RequestsMade
<1> QED  BY <1>5, <1>6 DEF Ends

LEMMA OverEnds ==
  ASSUME SharedInv, NEW g \in Goroutines, Over(g)
  PROVE  \E r : Ends(g, r) /\ pc' = [pc EXCEPT ![g] = r]
BY DEF Over, Ends

\* Calls.
LEMMA CallsShared ==
  ASSUME SharedInv, NEW g \in Goroutines, NEW method \in Kinds \ {"none"}, Calls(g, method)
  PROVE  SharedInv'
<1> DEFINE new == [Request(method) EXCEPT !.alone = Busy = {}]
<1>1. /\ pc[g] = Idle
      /\ pc' = [h \in Goroutines |->
                  IF h = g THEN new
                  ELSE IF h \in Busy THEN [pc[h] EXCEPT !.alone = FALSE] ELSE pc[h]]
      /\ UNCHANGED <<serverVars, nonce, used, live, assigned, lost, authVars, session,
                     described, trackIndex, conn>>
  BY DEF Calls
<1>2. pc \in [Goroutines -> Requests]  BY DEF SharedInv, SessionTypes
<1>3. /\ new \in Requests /\ new.phase = "build" /\ ~new.again /\ new.auth = NoAuth
      /\ new.alone = (Busy = {})
  <2>1. Channel(trackIndex) \in Nat /\ session \in Nat /\ conn \in Nat
        /\ trackIndex \in 0 .. Tracks - 1
    BY SessionAssumption DEF SharedInv, SessionTypes, TypeOK, Channel
  <2>2. (Busy = {}) \in BOOLEAN  OBVIOUS
  <2> HIDE DEF Busy
  <2> QED  BY <2>1, <2>2 DEF Request, Idle, NoAuth, Requests, Kinds, Phases
<1> HIDE DEF new
<1>4. \A h \in Goroutines \ {g} :
        /\ pc'[h] \in Requests /\ ~(pc'[h] # Idle /\ pc'[h].alone)
        /\ pc'[h].phase = pc[h].phase /\ pc'[h].auth = pc[h].auth
        /\ pc'[h].again = pc[h].again /\ pc'[h].method = pc[h].method
        /\ pc[h] = Idle => pc'[h] = Idle
        /\ pc[h] # Idle => h \in Busy
  BY <1>1, <1>2 DEF Busy, Requests
<1>5. SessionTypes'
  BY <1>1, <1>3, <1>4
     DEF SharedInv, SessionTypes, TypeOK, authVars, Requests, Phases, Calls
<1>6. RequestsMade'
  BY <1>1, <1>3, <1>4 DEF SharedInv, SessionTypes, TypeOK, RequestsMade, authVars, NoAuth
<1>7. UsedOld'
  BY <1>1 DEF SharedInv, UsedOld, authVars
<1>8. AloneIsAlone'
  <2>1. new # Idle  BY <1>3 DEF Idle
  <2>2. pc'[g] = new  BY <1>1
  <2>3. new.alone => \A h \in Goroutines \ {g} : pc'[h] = Idle
    BY <1>3, <1>4 DEF Busy
  <2>4. \A h, k \in Goroutines : h # k /\ pc'[h] # Idle /\ pc'[h].alone => pc'[k] = Idle
    BY <1>4, <2>1, <2>2, <2>3
  <2>5. ~mixed' => Busy = {}  BY DEF Calls
  <2>6. ~mixed' => \A h \in Goroutines : pc'[h] # Idle => pc'[h].alone
    <3>1. Busy = {} => new.alone /\ \A h \in Goroutines \ {g} : pc'[h] = Idle
      BY <1>3, <1>4 DEF Busy
    <3> QED  BY <2>2, <2>5, <3>1
  <2> QED  BY <2>4, <2>6 DEF AloneIsAlone
<1> QED  BY <1>5, <1>6, <1>7, <1>8 DEF SharedInv


\* Credentials are a nonce that was a challenge, or 0, and its count.
LEMMA CredentialsType ==
  ASSUME SharedInv, NEW g \in Goroutines, NEW auth \in Credentials(g)
  PROVE  auth \in Nat \X Nat /\ auth[1] = challenge
<1>1. challenge \in Nat /\ authNonceCount \in Nat
  BY DEF SharedInv, SessionTypes, TypeOK
<1>2. Count \in Nat  BY <1>1 DEF Count
<1>3. \A h \in Goroutines : pc[h].auth \in Nat \X Nat
  BY DEF SharedInv, SessionTypes, Requests
<1>4. Busy \subseteq Goroutines  BY DEF Busy
<1> QED  BY <1>1, <1>2, <1>3, <1>4 DEF Credentials

\* What Sends does to the client and the request.
LEMMA SendsShape ==
  ASSUME SharedInv, NEW g \in Goroutines, Sends(g)
  PROVE  \E auth \in Nat \X Nat :
           /\ pc' = [pc EXCEPT ![g] = [pc[g] EXCEPT !.phase = "sent", !.auth = auth]]
           /\ \/ /\ challenge = 0 \/ pc[g].method \in Bare
                 /\ auth = NoAuth /\ UNCHANGED authVars
              \/ /\ challenge # 0 /\ pc[g].method \notin Bare
                 /\ auth \in Credentials(g) /\ auth[1] = challenge
                 /\ challenge' = challenge /\ lastNonce' \in {lastNonce, challenge}
                 /\ authNonceCount' \in {authNonceCount, auth[2]}
                 /\ scheme = "qop" => authNonceCount' = auth[2]
           /\ auth[1] <= challenge
<1>1. Builds(g, pc[g])  BY DEF Sends
<1>2. challenge \in Nat  BY DEF SharedInv, SessionTypes, TypeOK
<1>3. CASE challenge = 0 \/ pc[g].method \in Bare
  <2>1. NoAuth \in Nat \X Nat /\ NoAuth[1] = 0  BY DEF NoAuth
  <2>2. /\ pc' = [pc EXCEPT ![g] = [pc[g] EXCEPT !.phase = "sent", !.auth = NoAuth]]
        /\ UNCHANGED authVars
    BY <1>1, <1>3 DEF Builds, BuildsPlain
  <2> NoAuth \in Nat \X Nat  BY <2>1
  <2> WITNESS NoAuth \in Nat \X Nat
  <2> QED  BY <1>2, <1>3, <2>1, <2>2
<1>4. CASE ~(challenge = 0 \/ pc[g].method \in Bare)
  <2>1. PICK auth \in Credentials(g) :
          /\ pc' = [pc EXCEPT ![g] = [pc[g] EXCEPT !.phase = "sent", !.auth = auth]]
          /\ lastNonce' \in {lastNonce, challenge}
          /\ authNonceCount' \in {authNonceCount, auth[2]}
          /\ scheme = "qop" => authNonceCount' = auth[2]
          /\ challenge' = challenge
    BY <1>1, <1>4 DEF Builds, BuildsWithAuth
  <2>2. auth \in Nat \X Nat /\ auth[1] = challenge  BY CredentialsType
  <2> auth \in Nat \X Nat  BY <2>2
  <2> WITNESS auth \in Nat \X Nat
  <2> QED  BY <1>2, <1>4, <2>1, <2>2
<1> QED  BY <1>3, <1>4

LEMMA SendsShared ==
  ASSUME SharedInv, NEW g \in Goroutines, Sends(g)
  PROVE  SharedInv'
<1>1. PICK auth \in Nat \X Nat :
        /\ pc' = [pc EXCEPT ![g] = [pc[g] EXCEPT !.phase = "sent", !.auth = auth]]
        /\ \/ UNCHANGED authVars
           \/ /\ challenge' = challenge /\ lastNonce' \in {lastNonce, challenge}
              /\ authNonceCount' \in {authNonceCount, auth[2]}
        /\ auth[1] <= challenge
        /\ auth = NoAuth \/ auth[1] # 0
  BY SendsShape
<1> DEFINE r == [pc[g] EXCEPT !.phase = "sent", !.auth = auth]
<1>2. pc[g] \in Requests /\ pc[g].phase = "build" /\ pc[g] # Idle
  BY DEF SharedInv, SessionTypes, Sends, Idle
<1>3. /\ r \in Requests /\ r.phase = "sent" /\ r.auth = auth
      /\ r.method = pc[g].method /\ r.again = pc[g].again /\ r.alone = pc[g].alone
  BY <1>2, RequestMade
<1> HIDE DEF r
<1>4. challenge' = challenge /\ challenge \in Nat
  BY <1>1 DEF authVars, SharedInv, SessionTypes, TypeOK
<1>5. Moves(g, r)
  BY <1>1, <1>2, <1>3, <1>4 DEF Moves, SharedInv, RequestsMade, r, Sends
<1>6. UNCHANGED <<nonce, used, session, conn, live, trackIndex, mixed>>
  BY DEF Sends
<1>7. TypeOK'
  <2>1. \A h \in Goroutines : pc'[h].phase \in Phases
    BY <1>5 DEF Moves, Requests, SharedInv, SessionTypes
  <2>2. /\ lastNonce' \in 0 .. nonce /\ authNonceCount' \in Nat
    BY <1>1 DEF authVars, SharedInv, SessionTypes, TypeOK
  <2> QED  BY <1>4, <1>6, <2>1, <2>2 DEF SharedInv, SessionTypes, TypeOK, Phases
<1>8. nonce' \in Nat \ {0}  BY <1>6 DEF SharedInv, SessionTypes
<1> QED  BY <1>5, <1>6, <1>7, <1>8, MovesShared

\* A 401 after which the request is repeated, and one that ends it.
Repeats(g) ==
  /\ Arrives(pc[g]) /\ ~Accepts(pc[g]) /\ Challenges(pc[g])
  /\ pc[g].method \in Persists /\ ~pc[g].again
  /\ TakesChallenge
  /\ pc' = [pc EXCEPT ![g] = Again(pc[g])]
  /\ UNCHANGED <<serverVars, used, live, assigned, lost, session, described, trackIndex, conn,
                 refusals, resumes, mixed>>

Denies(g) ==
  /\ Arrives(pc[g]) /\ ~Accepts(pc[g]) /\ Challenges(pc[g])
  /\ Over(g)
  /\ refusals' \in
       {refusals, refusals \cup {[told |-> pc[g].told = nonce, alone |-> pc[g].alone]}}
  /\ ~pc[g].again => refusals' = refusals
  /\ resumes' = IF pc[g].method = "resume"
                THEN resumes \cup {[stale |-> challenge \notin {0, nonce}, mixed |-> mixed]}
                ELSE resumes
  /\ UNCHANGED <<serverVars, used, live, assigned, lost, authVars, session, described,
                 trackIndex, conn, mixed>>

LEMMA UnauthorizedSplits ==
  ASSUME NEW g \in Goroutines, Unauthorized(g)
  PROVE  Repeats(g) \/ Denies(g)
BY DEF Unauthorized, Repeats, Denies, Persists, Methods

\* Answers that end a request: the client's authentication state stays.
EndsIt(g) ==
  GetsNoAnswer(g) \/ Unusable(g) \/ Granted(g) \/ Refused(g) \/ Denies(g)

LEMMA SucceedsTypes ==
  ASSUME SharedInv, NEW g \in Goroutines, Succeeds(pc[g])
  PROVE  session' \in Nat /\ live' \subseteq 1 .. session' /\ trackIndex' \in 0 .. Tracks - 1
<1>1. session \in Nat /\ live \subseteq 1 .. session /\ trackIndex \in 0 .. Tracks - 1
  BY DEF SharedInv, SessionTypes, TypeOK
<1>2. CASE SetUp(pc[g])
  <2>1. session' \in {session, session + 1} /\ (session' = session => session \in live)
    BY <1>1, <1>2 DEF SetUp, SetupSession
  <2>2. NextTrack \in 0 .. Tracks - 1  BY <1>1, SessionAssumption DEF NextTrack
  <2> QED  BY <1>1, <1>2, <2>1, <2>2 DEF SetUp
<1>3. CASE UNCHANGED session /\ live' \subseteq live /\ trackIndex' \in {0, trackIndex}
  BY <1>1, <1>3, SessionAssumption
<1> QED  BY <1>2, <1>3 DEF Succeeds

LEMMA EndsShape ==
  ASSUME SharedInv, NEW g \in Goroutines, EndsIt(g)
  PROVE  /\ pc[g].phase = "sent" /\ UNCHANGED <<authVars, conn, lost, serverVars, mixed>>
         /\ \E r : Ends(g, r) /\ pc' = [pc EXCEPT ![g] = r]
<1>1. CASE Granted(g)
  BY <1>1 DEF Granted, Ends, Arrives
<1>2. CASE EndsIt(g) /\ ~Granted(g)
  <2>1. Over(g) /\ pc[g].phase = "sent"
    BY <1>2 DEF EndsIt, GetsNoAnswer, Unusable, Refused, Denies, Arrives
  <2>2. UNCHANGED <<authVars, conn, lost, serverVars, mixed>>
    BY <1>2 DEF EndsIt, GetsNoAnswer, Unusable, Refused, Denies
  <2> QED  BY <2>1, <2>2, OverEnds
<1> QED  BY <1>1, <1>2

LEMMA EndsShared ==
  ASSUME SharedInv, NEW g \in Goroutines, EndsIt(g)
  PROVE  SharedInv'
<1>1. /\ pc[g].phase = "sent"
      /\ challenge' = challenge /\ UNCHANGED <<lastNonce, authNonceCount, conn, mixed>>
      /\ \E r : Ends(g, r) /\ pc' = [pc EXCEPT ![g] = r]
  BY EndsShape DEF authVars
<1>2. PICK r : Ends(g, r) /\ pc' = [pc EXCEPT ![g] = r]  BY <1>1
<1>3. Moves(g, r)  BY <1>1, <1>2, EndsMoves
<1>4. nonce' \in {nonce, nonce + 1} /\ nonce \in Nat \ {0}
  BY DEF EndsIt, GetsNoAnswer, Unheard, Unusable, Granted, Refused, Denies, Challenges,
         SharedInv, SessionTypes
<1>5. used' \in {used, used \cup {pc[g].auth}}
  BY DEF EndsIt, GetsNoAnswer, Unheard, Unusable, Granted, Refused, Denies, Uses
<1>6. session' \in Nat /\ live' \subseteq 1 .. session' /\ trackIndex' \in 0 .. Tracks - 1
  <2>1. CASE Granted(g)  BY <2>1, SucceedsTypes DEF Granted
  <2>2. CASE UNCHANGED <<session, trackIndex>> /\ live' \subseteq live
    BY <2>2 DEF SharedInv, SessionTypes, TypeOK
  <2> QED
    BY <2>1, <2>2 DEF EndsIt, GetsNoAnswer, Unheard, Unusable, Refused, Denies
<1>7. TypeOK'
  <2>1. \A h \in Goroutines : pc'[h].phase \in Phases
    BY <1>3 DEF Moves, Requests, SharedInv, SessionTypes
  <2> QED
    BY <1>1, <1>4, <1>6, <2>1 DEF SharedInv, SessionTypes, TypeOK, Phases
<1> QED  BY <1>3, <1>4, <1>5, <1>7, MovesShared

LEMMA RepeatsShape ==
  ASSUME SharedInv, NEW g \in Goroutines, Repeats(g)
  PROVE  LET r == Again(pc[g])
         IN  /\ pc' = [pc EXCEPT ![g] = r] /\ r \in Requests
             /\ pc[g].phase = "sent" /\ r.phase = "build" /\ r.again /\ r.told = nonce'
             /\ r.method = pc[g].method /\ r.auth = pc[g].auth /\ r.alone = pc[g].alone
             /\ r.conn = pc[g].conn /\ r.track = pc[g].track
             /\ nonce' \in {nonce, nonce + 1}
<1>1. nonce' \in {nonce, nonce + 1} /\ nonce' \in Nat
  BY DEF Repeats, Challenges, SharedInv, SessionTypes
<1>2. pc[g] \in Requests /\ pc[g].phase = "sent" /\ session \in Nat
  BY DEF SharedInv, SessionTypes, TypeOK, Repeats, Arrives
<1> DEFINE named == IF pc[g].method \in {"DESCRIBE", "SETUP"} THEN 0 ELSE session
<1>3. named \in Nat  BY <1>2
<1>4. Again(pc[g]) = [pc[g] EXCEPT !.phase = "build", !.again = TRUE, !.told = nonce',
                                  !.channel = 0, !.session = named]
  BY Zenon DEF Again
<1>5. pc' = [pc EXCEPT ![g] = Again(pc[g])]  BY DEF Repeats
<1> HIDE DEF named
<1> DEFINE r == Again(pc[g])
<1>6. /\ r \in Requests /\ r.phase = "build" /\ r.again /\ r.told = nonce'
      /\ r.method = pc[g].method /\ r.track = pc[g].track /\ r.auth = pc[g].auth
      /\ r.alone = pc[g].alone /\ r.conn = pc[g].conn
  <2> HIDE DEF r
  <2> DEFINE s == [pc[g] EXCEPT !.phase = "build", !.again = TRUE, !.told = nonce',
                                !.channel = 0, !.session = named]
  <2>1. /\ s \in Requests /\ s.phase = "build" /\ s.again /\ s.told = nonce'
        /\ s.method = pc[g].method /\ s.track = pc[g].track /\ s.auth = pc[g].auth
        /\ s.alone = pc[g].alone /\ s.conn = pc[g].conn
    <3> DEFINE q == pc[g]
               n == nonce'
    <3>1. q \in Requests /\ n \in Nat /\ named \in Nat  BY <1>1, <1>2, <1>3
    <3> HIDE DEF q, n
    <3>2. s = [q EXCEPT !.phase = "build", !.again = TRUE, !.told = n,
                        !.channel = 0, !.session = named]
      BY DEF q, n
    <3>3. /\ s \in Requests /\ s.phase = "build" /\ s.again /\ s.told = n
          /\ s.method = q.method /\ s.track = q.track /\ s.auth = q.auth
          /\ s.alone = q.alone /\ s.conn = q.conn
      BY <3>1, <3>2 DEF Requests, Phases
    <3> QED  BY <3>3 DEF q, n
  <2>2. r = s  BY <1>4 DEF r
  <2> HIDE DEF s
  <2> QED  BY <2>1, <2>2
<1> QED  BY <1>1, <1>2, <1>5, <1>6, Zenon

LEMMA RepeatsShared ==
  ASSUME SharedInv, NEW g \in Goroutines, Repeats(g)
  PROVE  SharedInv'
<1> DEFINE r == Again(pc[g])
<1>1. /\ pc' = [pc EXCEPT ![g] = r] /\ r \in Requests
      /\ pc[g].phase = "sent" /\ r.phase = "build" /\ r.again
      /\ r.method = pc[g].method /\ r.auth = pc[g].auth /\ r.alone = pc[g].alone
      /\ nonce' \in {nonce, nonce + 1}
  BY RepeatsShape
<1> HIDE DEF r
<1>2. /\ challenge' = nonce' /\ lastNonce' = nonce' /\ authNonceCount' = 0
      /\ UNCHANGED <<used, session, conn, live, trackIndex, mixed>>
      /\ pc[g].method \in Persists
  BY DEF Repeats, TakesChallenge
<1>3. /\ nonce \in Nat \ {0} /\ challenge \in 0 .. nonce
      /\ pc[g].auth[1] <= challenge /\ pc[g].auth[1] \in Nat /\ pc[g] # Idle
      /\ pc[g].auth = NoAuth \/ pc[g].auth[1] # 0
  BY <1>1 DEF SharedInv, SessionTypes, TypeOK, RequestsMade, Requests, Idle
<1>4. Moves(g, r)
  BY <1>1, <1>2, <1>3 DEF Moves
<1>5. TypeOK'
  <2>1. \A h \in Goroutines : pc'[h].phase \in Phases
    BY <1>4 DEF Moves, Requests, SharedInv, SessionTypes
  <2> QED
    BY <1>1, <1>2, <1>3, <2>1 DEF SharedInv, SessionTypes, TypeOK, Phases
<1> QED  BY <1>1, <1>2, <1>3, <1>4, <1>5, MovesShared

LEMMA ResumeRequest ==
  ASSUME NEW r \in Requests, NEW known \in Nat, NEW c \in Nat
  PROVE  LET s == [r EXCEPT !.method = "resume", !.phase = "build", !.session = known,
                            !.conn = c]
         IN  /\ s \in Requests /\ s.phase = "build" /\ s.method = "resume"
             /\ s.session = known /\ s.conn = c /\ s.auth = r.auth
             /\ s.alone = r.alone /\ s.again = r.again /\ s.told = r.told
BY DEF Requests, Phases, Kinds

\* What Reconnect does to the recoverer.
LEMMA ReconnectShape ==
  ASSUME SharedInv, Reconnect
  PROVE  /\ "recoverer" \in Goroutines /\ pc["recoverer"].phase = "recover"
         /\ conn' = conn + 1 /\ live' \subseteq live /\ assigned' \subseteq assigned
         /\ UNCHANGED <<serverVars, nonce, used, authVars, session, described, trackIndex,
                       refusals, resumes, mixed>>
         /\ \E r \in Requests :
              /\ pc' = [pc EXCEPT !["recoverer"] = r]
              /\ \/ r = Idle
                 \/ /\ r.phase = "build" /\ r.method = "resume" /\ r.session = session
                    /\ r.conn = conn' /\ r.auth = pc["recoverer"].auth
                    /\ r.alone = pc["recoverer"].alone
                    /\ r.again = pc["recoverer"].again
<1>1. /\ pc["recoverer"].phase = "recover" /\ "recoverer" \in Goroutines
      /\ conn' = conn + 1 /\ live' \subseteq live /\ assigned' \subseteq assigned
      /\ UNCHANGED <<serverVars, nonce, used, authVars, session, described, trackIndex,
                       refusals, resumes, mixed>>
  BY DEF Reconnect, Goroutines
<1>2. /\ pc["recoverer"] \in Requests /\ session \in Nat /\ conn' \in Nat
  BY <1>1 DEF SharedInv, SessionTypes, TypeOK
<1> DEFINE r == [pc["recoverer"] EXCEPT !.method = "resume", !.phase = "build",
                                         !.session = session, !.conn = conn']
<1>3. pc' = [pc EXCEPT !["recoverer"] = r] \/ pc' = [pc EXCEPT !["recoverer"] = Idle]
  BY DEF Reconnect
<1>4. /\ r \in Requests /\ r.phase = "build" /\ r.method = "resume"
      /\ r.session = session /\ r.conn = conn' /\ r.auth = pc["recoverer"].auth
      /\ r.alone = pc["recoverer"].alone /\ r.again = pc["recoverer"].again
  <2> DEFINE q == pc["recoverer"]
             n == conn'
  <2>1. q \in Requests /\ n \in Nat /\ session \in Nat  BY <1>2
  <2> HIDE DEF q, n
  <2>2. r = [q EXCEPT !.method = "resume", !.phase = "build", !.session = session,
                      !.conn = n]
    BY DEF q, n
  <2> HIDE DEF r
  <2>3. /\ r \in Requests /\ r.phase = "build" /\ r.method = "resume"
        /\ r.session = session /\ r.conn = n /\ r.auth = q.auth
        /\ r.alone = q.alone /\ r.again = q.again
    BY <2>1, <2>2 DEF Requests, Phases, Kinds
  <2> QED  BY <2>3 DEF q, n
<1> HIDE DEF r
<1> QED  BY <1>1, <1>3, <1>4, IdleIsRequest

\* A busy recoverer is busy with recovering: what it sends is a health check
\* or a PLAY that resumes, and never the same again.
Recovers ==
  LET r == pc["recoverer"]
  IN  /\ r.method \in {"none", "health", "resume"}
      /\ r.again = FALSE

LEMMA ReconnectShared ==
  ASSUME SharedInv, Recovers, Reconnect
  PROVE  SharedInv'
<1>1. PICK r \in Requests :
        /\ pc' = [pc EXCEPT !["recoverer"] = r]
        /\ \/ r = Idle
           \/ /\ r.phase = "build" /\ r.auth = pc["recoverer"].auth
              /\ r.alone = pc["recoverer"].alone
              /\ r.again = pc["recoverer"].again
  BY ReconnectShape
<1>2. /\ "recoverer" \in Goroutines /\ pc["recoverer"].phase = "recover"
      /\ conn' = conn + 1 /\ live' \subseteq live
      /\ UNCHANGED <<nonce, used, authVars, session, trackIndex, mixed>>
  BY ReconnectShape
<1>3. challenge' = challenge /\ challenge \in Nat
  BY <1>2 DEF authVars, SharedInv, SessionTypes, TypeOK
<1>4. Moves("recoverer", r)
  <2>1. pc["recoverer"] # Idle /\ ~pc["recoverer"].again  BY <1>2 DEF Idle, Recovers
  <2>2. Idle.auth[1] = 0 /\ ~Idle.again /\ Idle.auth = NoAuth  BY DEF Idle, NoAuth
  <2>3. /\ pc["recoverer"].auth[1] <= challenge
        /\ pc["recoverer"].auth = NoAuth \/ pc["recoverer"].auth[1] # 0
    BY <1>2 DEF SharedInv, RequestsMade
  <2> QED  BY <1>1, <1>2, <1>3, <2>1, <2>2, <2>3 DEF Moves
<1>5. TypeOK'
  <2>1. \A h \in Goroutines : pc'[h].phase \in Phases
    BY <1>4 DEF Moves, Requests, SharedInv, SessionTypes
  <2> QED
    BY <1>2, <2>1 DEF authVars, SharedInv, SessionTypes, TypeOK, Phases
<1>6. nonce' \in Nat \ {0}  BY <1>2 DEF SharedInv, SessionTypes
<1> QED  BY <1>2, <1>4, <1>5, <1>6, MovesShared

\* A step of the environment.
LEMMA OutsideShared ==
  ASSUME SharedInv, Rotate \/ LoseConnection \/ UNCHANGED vars
  PROVE  SharedInv'
<1>1. /\ nonce' \in {nonce, nonce + 1}
      /\ UNCHANGED <<used, live, authVars, session, trackIndex, conn, pc, mixed>>
  BY DEF Rotate, LoseConnection, vars
<1>2. SessionTypes'
  BY <1>1 DEF authVars, SharedInv, SessionTypes, TypeOK
<1> QED
  BY <1>1, <1>2 DEF authVars, SharedInv, RequestsMade, UsedOld, AloneIsAlone

\* Next, sorted by shape.
Requested(g) ==
  \/ g = "caller" /\ \E method \in {"DESCRIBE", "SETUP", "PLAY", "TEARDOWN"} :
                      Calls(g, method)
  \/ g = "keeper" /\ \E method \in {"OPTIONS", "GET_PARAMETER"} : Calls(g, method)
  \/ g = "recoverer" /\ Calls(g, "health")

LEMMA NextSorted ==
  [Next]_vars =>
    \/ \E g \in Goroutines : Requested(g) \/ Sends(g) \/ EndsIt(g) \/ Repeats(g)
    \/ Reconnect
    \/ Rotate \/ LoseConnection \/ UNCHANGED vars
<1>1. {"caller", "keeper", "recoverer"} \subseteq Goroutines  BY DEF Goroutines
<1>2. Describe \/ Setup \/ Play \/ Teardown => Requested("caller")
  BY DEF Describe, Setup, Play, Teardown, Requested
<1>3. KeepAlive => Requested("keeper")  BY DEF KeepAlive, Requested
<1>4. HealthCheck => Requested("recoverer")  BY DEF HealthCheck, Requested
<1>5. ASSUME NEW g \in Goroutines, Unauthorized(g) PROVE Repeats(g) \/ EndsIt(g)
  BY <1>5, UnauthorizedSplits DEF EndsIt
<1>6. ASSUME NEW g \in Goroutines,
             GetsNoAnswer(g) \/ Unusable(g) \/ Granted(g) \/ Refused(g)
      PROVE  EndsIt(g)
  BY <1>6 DEF EndsIt
<1> QED  BY <1>1, <1>2, <1>3, <1>4, <1>5, <1>6, Zenon DEF Next
-----------------------------------------------------------------------------
\* Recovery.

\* There is a session while one is being recovered.
Resumes(r) == r.phase = "recover" \/ r.method = "resume"

Resuming == \A g \in Goroutines : Resumes(pc[g]) => session # 0

RecoveryInv == Recovers /\ Resuming

\* A request that begins, and what it does to the others'.
LEMMA RequestedShape ==
  ASSUME SharedInv, NEW g \in Goroutines, NEW method \in Kinds \ {"none"}, Calls(g, method)
  PROVE  /\ pc[g] = Idle
         /\ pc'[g] \in Requests
         /\ pc'[g].method = method /\ pc'[g].phase = "build" /\ pc'[g].conn = conn
         /\ pc'[g].again = FALSE /\ pc'[g].auth = NoAuth
         /\ pc'[g].track = trackIndex /\ pc'[g].channel = Channel(trackIndex)
         /\ method \notin {"DESCRIBE", "SETUP"} => pc'[g].session = session
         /\ \A h \in Goroutines \ {g} :
              IF pc[h] = Idle THEN pc'[h] = Idle
              ELSE /\ pc'[h].alone = FALSE /\ pc'[h].method = pc[h].method
                   /\ pc'[h].phase = pc[h].phase /\ pc'[h].conn = pc[h].conn
                   /\ pc'[h].again = pc[h].again /\ pc'[h].track = pc[h].track
                   /\ pc'[h].channel = pc[h].channel /\ pc'[h].auth = pc[h].auth
<1> DEFINE new == [Request(method) EXCEPT !.alone = Busy = {}]
<1>1. /\ pc[g] = Idle
      /\ pc' = [h \in Goroutines |->
                  IF h = g THEN new
                  ELSE IF h \in Busy THEN [pc[h] EXCEPT !.alone = FALSE] ELSE pc[h]]
  BY DEF Calls
<1>2. pc \in [Goroutines -> Requests]  BY DEF SharedInv, SessionTypes
<1>3. /\ new \in Requests /\ new.method = method /\ new.phase = "build"
      /\ new.conn = conn /\ new.again = FALSE /\ new.auth = NoAuth
      /\ new.track = trackIndex /\ new.channel = Channel(trackIndex)
      /\ method \notin {"DESCRIBE", "SETUP"} => new.session = session
  <2>1. Channel(trackIndex) \in Nat /\ session \in Nat /\ conn \in Nat
        /\ trackIndex \in 0 .. Tracks - 1
    BY SessionAssumption DEF SharedInv, SessionTypes, TypeOK, Channel
  <2>2. (Busy = {}) \in BOOLEAN  OBVIOUS
  <2> HIDE DEF Busy
  <2> QED  BY <2>1, <2>2 DEF Request, Idle, NoAuth, Requests, Kinds, Phases
<1> HIDE DEF new
<1>4. pc'[g] = new  BY <1>1
<1>5. \A h \in Goroutines \ {g} :
        IF pc[h] = Idle THEN pc'[h] = Idle
        ELSE /\ pc'[h].alone = FALSE /\ pc'[h].method = pc[h].method
             /\ pc'[h].phase = pc[h].phase /\ pc'[h].conn = pc[h].conn
             /\ pc'[h].again = pc[h].again /\ pc'[h].track = pc[h].track
             /\ pc'[h].channel = pc[h].channel /\ pc'[h].auth = pc[h].auth
  BY <1>1, <1>2 DEF Busy, Requests
<1> QED  BY <1>1, <1>3, <1>4, <1>5

LEMMA InitRecovery == Init => RecoveryInv
BY DEF Init, RecoveryInv, Recovers, Resuming, Resumes, Idle, Goroutines

\* A session, once there, stays.
LEMMA SessionStays ==
  ASSUME SharedInv, NEW g \in Goroutines, EndsIt(g)
  PROVE  session # 0 => session' # 0
<1>1. session \in Nat /\ live \subseteq 1 .. session
  BY DEF SharedInv, SessionTypes, TypeOK
<1>2. CASE Granted(g)
  BY <1>1, <1>2 DEF Granted, Succeeds, SetUp, SetupSession
<1>3. CASE ~Granted(g)
  BY <1>3 DEF EndsIt, GetsNoAnswer, Unusable, Refused, Denies
<1> QED  BY <1>2, <1>3

\* A step that changes one request.
LEMMA OneRecovery ==
  ASSUME SharedInv, RecoveryInv, NEW g \in Goroutines, NEW r, pc' = [pc EXCEPT ![g] = r],
         session # 0 => session' # 0, Resumes(r) => session # 0,
         g = "recoverer" => r.method \in {"none", "health", "resume"} /\ r.again = FALSE
  PROVE  RecoveryInv'
<1>1. pc'[g] = r /\ \A h \in Goroutines \ {g} : pc'[h] = pc[h]
  BY DEF SharedInv, SessionTypes
<1>2. Resuming'  BY <1>1 DEF RecoveryInv, Resuming, Resumes
<1>3. Recovers'
  <2>1. CASE g = "recoverer"  BY <1>1, <2>1 DEF Recovers
  <2>2. CASE g # "recoverer"
    BY <1>1, <2>2 DEF RecoveryInv, Recovers, Goroutines
  <2> QED  BY <2>1, <2>2
<1> QED  BY <1>2, <1>3 DEF RecoveryInv

LEMMA RecoveryStep ==
  SharedInv /\ RecoveryInv /\ [Next]_vars => RecoveryInv'
<1> SUFFICES ASSUME SharedInv, RecoveryInv, [Next]_vars PROVE RecoveryInv'
  OBVIOUS
<1>1. /\ "recoverer" \in Goroutines /\ pc \in [Goroutines -> Requests]
      /\ Idle.phase = "idle" /\ Idle.method = "none" /\ Idle.again = FALSE
  BY DEF Goroutines, SharedInv, SessionTypes, Idle
<1>2. pc["recoverer"].method \in {"none", "health", "resume"} /\ pc["recoverer"].again = FALSE
  BY DEF RecoveryInv, Recovers
<1>3. ASSUME NEW g \in Goroutines, Requested(g) PROVE RecoveryInv'
  <2>1. PICK method \in Kinds \ {"none"} :
          /\ Calls(g, method) /\ (g = "recoverer" <=> method = "health")
          /\ method # "resume"
    BY <1>3 DEF Requested, Kinds, Methods
  <2>2. UNCHANGED session  BY <2>1 DEF Calls
  <2>3. pc'[g].method = method /\ pc'[g].phase = "build" /\ pc'[g].again = FALSE
    BY <2>1, RequestedShape
  <2>4. \A h \in Goroutines \ {g} :
          IF pc[h] = Idle THEN pc'[h] = Idle
          ELSE /\ pc'[h].method = pc[h].method /\ pc'[h].phase = pc[h].phase
               /\ pc'[h].again = pc[h].again
    BY <2>1, RequestedShape, Zenon
  <2>5. Resuming'
    BY <1>1, <2>1, <2>2, <2>3, <2>4 DEF RecoveryInv, Resuming, Resumes
  <2>6. Recovers'
    <3>1. CASE g = "recoverer"  BY <2>1, <2>3, <3>1 DEF Recovers
    <3>2. CASE g # "recoverer"  BY <1>1, <1>2, <2>4, <3>2 DEF Recovers
    <3> QED  BY <3>1, <3>2
  <2> QED  BY <2>5, <2>6 DEF RecoveryInv
<1>4. ASSUME NEW g \in Goroutines, Sends(g) PROVE RecoveryInv'
  <2>1. UNCHANGED session  BY <1>4 DEF Sends
  <2>2. PICK auth \in Nat \X Nat :
          pc' = [pc EXCEPT ![g] = [pc[g] EXCEPT !.phase = "sent", !.auth = auth]]
    BY <1>4, SendsShape
  <2> DEFINE r == [pc[g] EXCEPT !.phase = "sent", !.auth = auth]
  <2>3. r.phase = "sent" /\ r.method = pc[g].method /\ r.again = pc[g].again
    BY <1>1 DEF Requests
  <2>4. Resumes(r) => session # 0
    BY <2>3 DEF RecoveryInv, Resuming, Resumes
  <2> HIDE DEF r
  <2>5. pc' = [pc EXCEPT ![g] = r]  BY <2>2 DEF r
  <2> QED  BY <1>2, <2>1, <2>3, <2>4, <2>5, OneRecovery
<1>5. ASSUME NEW g \in Goroutines, EndsIt(g) PROVE RecoveryInv'
  <2>1. PICK r : Ends(g, r) /\ pc' = [pc EXCEPT ![g] = r]
    BY <1>5, EndsShape
  <2>2. session # 0 => session' # 0  BY <1>5, SessionStays
  <2>3. CASE r = Idle
    <3>1. ~Resumes(r)  BY <1>1, <2>3 DEF Resumes
    <3> QED  BY <1>1, <2>1, <2>2, <2>3, <3>1, OneRecovery
  <2>4. CASE r # Idle
    <3>1. /\ pc[g].method = "health" /\ session # 0
          /\ r = [pc[g] EXCEPT !.phase = "recover"] /\ pc[g] \in Requests
      BY <1>1, <2>1, <2>4 DEF Ends
    <3>2. r.method = "health" /\ r.again = pc[g].again
      BY <3>1, RequestFields DEF Phases
    <3> QED  BY <1>2, <2>1, <2>2, <3>1, <3>2, OneRecovery
  <2> QED  BY <2>3, <2>4
<1>6. ASSUME NEW g \in Goroutines, Repeats(g) PROVE RecoveryInv'
  <2>1. UNCHANGED session /\ pc[g].method \in Persists  BY <1>6 DEF Repeats
  <2>2. /\ pc' = [pc EXCEPT ![g] = Again(pc[g])]
        /\ Again(pc[g]).method = pc[g].method /\ Again(pc[g]).phase = "build"
    BY <1>6, RepeatsShape
  <2>3. g # "recoverer" /\ ~Resumes(Again(pc[g]))
    BY <1>2, <2>1, <2>2 DEF Persists, Methods, Resumes
  <2> QED  BY <2>1, <2>2, <2>3, OneRecovery
<1>7. CASE Reconnect
  <2>1. PICK r \in Requests :
          /\ pc' = [pc EXCEPT !["recoverer"] = r]
          /\ \/ r = Idle
             \/ r.method = "resume" /\ r.again = pc["recoverer"].again
    BY <1>7, ReconnectShape
  <2>2. UNCHANGED session /\ pc["recoverer"].phase = "recover"  BY <1>7, ReconnectShape
  <2>3. session # 0  BY <1>1, <2>2 DEF RecoveryInv, Resuming, Resumes
  <2>4. r.method \in {"none", "health", "resume"} /\ r.again = FALSE
    BY <1>1, <1>2, <2>1
  <2> QED  BY <1>1, <2>1, <2>2, <2>3, <2>4, OneRecovery
<1>8. CASE Rotate \/ LoseConnection \/ UNCHANGED vars
  BY <1>8 DEF Rotate, LoseConnection, vars, RecoveryInv, Recovers, Resuming, Resumes
<1> QED  BY <1>3, <1>4, <1>5, <1>6, <1>7, <1>8, NextSorted

LEMMA SharedStep ==
  SharedInv /\ RecoveryInv /\ [Next]_vars => SharedInv'
<1> SUFFICES ASSUME SharedInv, RecoveryInv, [Next]_vars PROVE SharedInv'
  OBVIOUS
<1>1. ASSUME NEW g \in Goroutines, Requested(g) PROVE SharedInv'
  <2>1. PICK method \in Kinds \ {"none"} : Calls(g, method)
    BY <1>1 DEF Requested, Kinds, Methods
  <2> QED  BY <2>1, CallsShared
<1>2. ASSUME NEW g \in Goroutines, Sends(g) PROVE SharedInv'  BY <1>2, SendsShared
<1>3. ASSUME NEW g \in Goroutines, EndsIt(g) PROVE SharedInv'  BY <1>3, EndsShared
<1>4. ASSUME NEW g \in Goroutines, Repeats(g) PROVE SharedInv'  BY <1>4, RepeatsShared
<1>5. CASE Reconnect  BY <1>5, ReconnectShared DEF RecoveryInv
<1>6. CASE Rotate \/ LoseConnection \/ UNCHANGED vars  BY <1>6, OutsideShared
<1> QED  BY <1>1, <1>2, <1>3, <1>4, <1>5, <1>6, NextSorted

LEMMA AlwaysShared == Spec => [](SharedInv /\ RecoveryInv)
<1>1. Init => SharedInv /\ RecoveryInv  BY InitShared, InitRecovery
<1>2. SharedInv /\ RecoveryInv /\ [Next]_vars => (SharedInv /\ RecoveryInv)'
  BY SharedStep, RecoveryStep
<1> QED  BY <1>1, <1>2, PTL DEF Spec

\* Every variable keeps its type: the challenge and the last nonce are nonces
\* the server has given, and the sessions it knows are numbered up to c.session.
THEOREM SessionTypeOK == Spec => []TypeOK
<1>1. SharedInv => TypeOK  BY DEF SharedInv, SessionTypes
<1> QED  BY <1>1, AlwaysShared, PTL
-----------------------------------------------------------------------------
\* Channels.

\* The server asks for credentials for SETUP and PLAY if for any of the
\* others, and once a request of the kind succeeded there is a challenge.
Guarded ==
  /\ protected \in {{}, Methods \ {"OPTIONS"}, Methods}
  /\ protected # {} /\ (described \/ session # 0) => challenge # 0

LEMMA AcceptedAuth ==
  ASSUME SharedInv, Guarded, NEW g \in Goroutines, Accepts(pc[g]), protected # {},
         pc[g].method \in {"DESCRIBE", "SETUP"}
  PROVE  challenge # 0
<1>1. Wire(pc[g].method) \in protected  BY DEF Guarded, Wire, Methods
<1>2. pc[g].auth[1] # 0
  <2>1. nonce # 0 /\ (pc[g].auth = NoAuth \/ pc[g].auth[1] # 0)
    BY DEF SharedInv, SessionTypes, RequestsMade
  <2> QED  BY <1>1, <2>1 DEF Accepts
<1>3. /\ pc[g].auth[1] <= challenge /\ pc[g].auth[1] \in Nat
  BY DEF SharedInv, SessionTypes, RequestsMade, Requests
<1> QED  BY <1>2, <1>3

LEMMA GuardedStep ==
  SharedInv /\ Guarded /\ [Next]_vars => Guarded'
<1> SUFFICES ASSUME SharedInv, Guarded, [Next]_vars PROVE Guarded'
  OBVIOUS
<1>1. ASSUME UNCHANGED <<protected, described, session>>, challenge # 0 => challenge' # 0
      PROVE  Guarded'
  BY <1>1 DEF Guarded
<1>2. ASSUME NEW g \in Goroutines, Requested(g) PROVE Guarded'
  BY <1>1, <1>2 DEF Requested, Calls, serverVars, authVars
<1>3. ASSUME NEW g \in Goroutines, Sends(g) PROVE Guarded'
  <2>1. challenge' = challenge  BY <1>3, SendsShape DEF authVars
  <2> QED  BY <1>1, <1>3, <2>1 DEF Sends, serverVars
<1>4. ASSUME NEW g \in Goroutines, EndsIt(g) PROVE Guarded'
  <2>1. UNCHANGED <<protected, challenge>>  BY <1>4, EndsShape DEF serverVars, authVars
  <2>2. CASE UNCHANGED <<described, session>>  BY <1>1, <2>1, <2>2
  <2>3. CASE Granted(g) /\ pc[g].method \in {"DESCRIBE", "SETUP"}
    <3>1. protected # {} => challenge # 0
      BY <2>3, AcceptedAuth DEF Granted
    <3> QED  BY <2>1, <3>1 DEF Guarded
  <2>4. CASE Granted(g) /\ pc[g].method \notin {"DESCRIBE", "SETUP"}
    BY <2>2, <2>4 DEF Granted, Succeeds
  <2>5. CASE ~Granted(g)
    BY <1>4, <2>2, <2>5 DEF EndsIt, GetsNoAnswer, Unusable, Refused, Denies
  <2> QED  BY <2>3, <2>4, <2>5
<1>5. ASSUME NEW g \in Goroutines, Repeats(g) PROVE Guarded'
  <2>1. nonce' # 0 /\ challenge' = nonce'
    BY <1>5 DEF Repeats, Challenges, TakesChallenge, SharedInv, SessionTypes
  <2> QED  BY <1>1, <1>5, <2>1 DEF Repeats, serverVars
<1>6. CASE Reconnect
  BY <1>1, <1>6, ReconnectShape DEF serverVars, authVars
<1>7. CASE Rotate \/ LoseConnection \/ UNCHANGED vars
  BY <1>1, <1>7 DEF Rotate, LoseConnection, vars, serverVars, authVars
<1> QED  BY <1>2, <1>3, <1>4, <1>5, <1>6, <1>7, NextSorted

\* A SETUP of a later track is sent with credentials if the server asks for
\* any, so that it is not refused while the nonce is the first one.
Credited(r) ==
  /\ r.track # 0 => described
  /\ r.track # 0 /\ protected # {} /\ r.phase = "sent" => r.auth # NoAuth

OwnChannel(r) == r.channel = Channel(r.track)

ChannelsInv ==
  /\ trackIndex # 0 => described
  /\ \A g \in Goroutines :
       pc[g].method = "SETUP" => Credited(pc[g]) /\ (nonce = 1 => OwnChannel(pc[g]))
  /\ \A a \in assigned : a.track \in 0 .. Tracks - 1 /\ (nonce = 1 => OwnChannel(a))

\* What a step has to keep of the requests, for the one it is of.
LEMMA OtherSetups ==
  ASSUME SharedInv, ChannelsInv, NEW g \in Goroutines, NEW r, pc' = [pc EXCEPT ![g] = r],
         described => described', UNCHANGED protected, nonce' = 1 => nonce = 1,
         r.method = "SETUP" => Credited(r) /\ (nonce' = 1 => OwnChannel(r))
  PROVE  \A h \in Goroutines :
           pc'[h].method = "SETUP" => Credited(pc[h])' /\ (nonce' = 1 => OwnChannel(pc'[h]))
<1> SUFFICES ASSUME NEW h \in Goroutines, pc'[h].method = "SETUP"
             PROVE  Credited(pc[h])' /\ (nonce' = 1 => OwnChannel(pc'[h]))
  OBVIOUS
<1>1. CASE h = g
  <2>1. pc'[h] = r  BY <1>1 DEF SharedInv, SessionTypes
  <2> QED  BY <2>1 DEF Credited
<1>2. CASE h # g
  <2>1. pc'[h] = pc[h]  BY <1>2 DEF SharedInv, SessionTypes
  <2> QED  BY <2>1 DEF ChannelsInv, Credited
<1> QED  BY <1>1, <1>2

\* A first nonce was always the nonce.
LEMMA NonceGrows ==
  ASSUME SharedInv, [Next]_vars
  PROVE  nonce' = 1 => nonce = 1
<1>1. nonce \in Nat \ {0}  BY DEF SharedInv, SessionTypes
<1>2. nonce' \in {nonce, nonce + 1}
  BY DEF Next, vars, Describe, Setup, Play, Teardown, KeepAlive, HealthCheck, Calls, Sends,
         GetsNoAnswer, Unheard, Unauthorized, Unusable, Challenges, Granted, Refused,
         Reconnect, Rotate, LoseConnection
<1> QED  BY <1>1, <1>2

\* Assignments come from a SETUP that was accepted, and go with their session.
LEMMA AssignmentsMade ==
  ASSUME SharedInv, NEW g \in Goroutines, EndsIt(g)
  PROVE  \/ assigned' \subseteq assigned
         \/ /\ pc[g].method = "SETUP" /\ nonce' = nonce
            /\ \E s : assigned' \subseteq
                  assigned \cup {[session |-> s, track |-> pc[g].track,
                                 channel |-> pc[g].channel]}
<1>1. CASE Granted(g)
  BY <1>1 DEF Granted, Succeeds, SetUp, Assigned, Ended
<1>2. CASE GetsNoAnswer(g)
  BY <1>2 DEF GetsNoAnswer, Unheard, Assigned, Ended
<1>3. CASE ~Granted(g) /\ ~GetsNoAnswer(g)
  BY <1>3 DEF EndsIt, Unusable, Refused, Denies
<1> QED  BY <1>1, <1>2, <1>3

LEMMA ChannelsStep ==
  SharedInv /\ Guarded /\ RecoveryInv /\ ChannelsInv /\ [Next]_vars => ChannelsInv'
<1> SUFFICES ASSUME SharedInv, Guarded, RecoveryInv, ChannelsInv, [Next]_vars
             PROVE  ChannelsInv'
  OBVIOUS
<1>1. pc \in [Goroutines -> Requests] /\ Idle.method # "SETUP"
  BY DEF SharedInv, SessionTypes, Idle
<1>2. nonce' = 1 => nonce = 1  BY NonceGrows
<1>3. ASSUME assigned' \subseteq assigned
      PROVE  \A a \in assigned' : a.track \in 0 .. Tracks - 1 /\ (nonce' = 1 => OwnChannel(a))
  BY <1>2, <1>3 DEF ChannelsInv
<1>4. ASSUME NEW g \in Goroutines, Requested(g) PROVE ChannelsInv'
  <2>1. PICK method \in Kinds \ {"none"} : Calls(g, method)
    BY <1>4 DEF Requested, Kinds, Methods
  <2>2. UNCHANGED <<assigned, described, trackIndex, protected, nonce>>
    BY <2>1 DEF Calls, serverVars
  <2>3. Credited(pc[g])' /\ OwnChannel(pc'[g])
    <3>1. /\ pc'[g].phase = "build" /\ pc'[g].track = trackIndex
          /\ pc'[g].channel = Channel(trackIndex)
      BY <2>1, RequestedShape
    <3> QED  BY <2>2, <3>1 DEF Credited, OwnChannel, ChannelsInv
  <2>4. \A h \in Goroutines \ {g} :
          IF pc[h] = Idle THEN pc'[h] = Idle
          ELSE /\ pc'[h].method = pc[h].method /\ pc'[h].phase = pc[h].phase
               /\ pc'[h].auth = pc[h].auth
               /\ pc'[h].track = pc[h].track /\ pc'[h].channel = pc[h].channel
    BY <2>1, RequestedShape
  <2>5. ASSUME NEW h \in Goroutines, pc'[h].method = "SETUP"
        PROVE  Credited(pc[h])' /\ (nonce' = 1 => OwnChannel(pc'[h]))
    <3>1. CASE h = g  BY <2>3, <3>1
    <3>2. CASE h # g
      BY <1>1, <2>2, <2>4, <2>5, <3>2 DEF ChannelsInv, Credited, OwnChannel
    <3> QED  BY <3>1, <3>2
  <2>6. trackIndex' # 0 => described'  BY <2>2 DEF ChannelsInv
  <2> QED  BY <1>3, <2>2, <2>5, <2>6 DEF ChannelsInv
<1>5. ASSUME NEW g \in Goroutines, Sends(g) PROVE ChannelsInv'
  <2>1. PICK auth \in Nat \X Nat :
          /\ pc' = [pc EXCEPT ![g] = [pc[g] EXCEPT !.phase = "sent", !.auth = auth]]
          /\ challenge = 0 \/ pc[g].method \in Bare \/ auth[1] = challenge
    BY <1>5, SendsShape
  <2>2. UNCHANGED <<assigned, described, trackIndex, protected, nonce>>
    BY <1>5 DEF Sends, serverVars
  <2> DEFINE r == [pc[g] EXCEPT !.phase = "sent", !.auth = auth]
  <2>3. /\ r.method = pc[g].method /\ r.track = pc[g].track
        /\ r.channel = pc[g].channel /\ r.auth = auth
    BY <1>1 DEF Requests
  <2> HIDE DEF r
  <2>4. ASSUME r.method = "SETUP" PROVE Credited(r) /\ (nonce' = 1 => OwnChannel(r))
    <3>1. Credited(pc[g]) /\ (nonce = 1 => OwnChannel(pc[g]))
      BY <2>3, <2>4 DEF ChannelsInv
    <3>2. r.track # 0 /\ protected # {} => auth # NoAuth
      <4>1. r.track # 0 /\ protected # {} => challenge # 0
        BY <2>3, <3>1 DEF Credited, Guarded
      <4>2. pc[g].method \notin Bare  BY <2>3, <2>4 DEF Bare
      <4> QED  BY <2>1, <4>1, <4>2 DEF NoAuth
    <3> QED  BY <2>2, <2>3, <3>1, <3>2 DEF Credited, OwnChannel
  <2>5. pc' = [pc EXCEPT ![g] = r]  BY <2>1 DEF r
  <2>6. \A h \in Goroutines :
          pc'[h].method = "SETUP" => Credited(pc[h])' /\ (nonce' = 1 => OwnChannel(pc'[h]))
    BY <2>2, <2>4, <2>5, OtherSetups
  <2>7. trackIndex' # 0 => described'  BY <2>2 DEF ChannelsInv
  <2> QED  BY <1>3, <2>2, <2>6, <2>7 DEF ChannelsInv
<1>6. ASSUME NEW g \in Goroutines, EndsIt(g) PROVE ChannelsInv'
  <2>1. PICK r : Ends(g, r) /\ pc' = [pc EXCEPT ![g] = r]
    BY <1>6, EndsShape
  <2>2. r.method # "SETUP"
    <3>1. pc[g] \in Requests /\ "recover" \in Phases  BY <1>1 DEF Phases
    <3>2. [pc[g] EXCEPT !.phase = "recover"].method = pc[g].method
      BY <3>1, RequestFields
    <3> QED  BY <1>1, <2>1, <3>2 DEF Ends
  <2>3. UNCHANGED protected  BY <1>6, EndsShape DEF serverVars
  <2>4. (described => described') /\ (trackIndex' # 0 => described')
    <3>1. CASE Granted(g)
      BY <3>1 DEF Granted, Succeeds, SetUp, NextTrack, ChannelsInv
    <3>2. CASE ~Granted(g)
      BY <1>6, <3>2 DEF EndsIt, GetsNoAnswer, Unusable, Refused, Denies, ChannelsInv
    <3> QED  BY <3>1, <3>2
  <2>5. \A a \in assigned' : a.track \in 0 .. Tracks - 1 /\ (nonce' = 1 => OwnChannel(a))
    <3>1. CASE assigned' \subseteq assigned  BY <1>3, <3>1
    <3>2. ASSUME pc[g].method = "SETUP", nonce' = nonce, NEW s,
                 assigned' \subseteq
                   assigned \cup {[session |-> s, track |-> pc[g].track,
                                  channel |-> pc[g].channel]}
          PROVE  \A a \in assigned' :
                   a.track \in 0 .. Tracks - 1 /\ (nonce' = 1 => OwnChannel(a))
      <4> DEFINE a0 == [session |-> s, track |-> pc[g].track, channel |-> pc[g].channel]
      <4>1. a0.track \in 0 .. Tracks - 1 /\ (nonce' = 1 => OwnChannel(a0))
        BY <1>1, <3>2 DEF ChannelsInv, OwnChannel, Requests
      <4>2. assigned' \subseteq assigned \cup {a0}  BY <3>2
      <4> HIDE DEF a0
      <4> QED  BY <3>2, <4>1, <4>2 DEF ChannelsInv
    <3> QED  BY <1>6, <3>1, <3>2, AssignmentsMade
  <2>6. \A h \in Goroutines :
          pc'[h].method = "SETUP" => Credited(pc[h])' /\ (nonce' = 1 => OwnChannel(pc'[h]))
    BY <1>2, <2>1, <2>2, <2>3, <2>4, OtherSetups
  <2> QED  BY <2>4, <2>5, <2>6 DEF ChannelsInv
<1>7. ASSUME NEW g \in Goroutines, Repeats(g) PROVE ChannelsInv'
  <2> DEFINE r == Again(pc[g])
  <2>1. /\ pc' = [pc EXCEPT ![g] = r] /\ r.method = pc[g].method /\ r.track = pc[g].track
        /\ r.phase = "build" /\ pc[g].phase = "sent" /\ r.channel = 0
    <3>1. Again(pc[g]).channel = 0  BY <1>1 DEF Again, Requests
    <3> QED  BY <1>7, <3>1, RepeatsShape
  <2> HIDE DEF r
  <2>2. UNCHANGED <<assigned, described, trackIndex, protected>>
    BY <1>7 DEF Repeats, serverVars
  <2>3. ASSUME r.method = "SETUP" PROVE Credited(r) /\ (nonce' = 1 => OwnChannel(r))
    <3>1. Credited(pc[g])  BY <2>1, <2>3 DEF ChannelsInv
    <3>2. ASSUME nonce' = 1 PROVE r.track = 0
      <4>1. /\ ~Accepts(pc[g]) /\ Challenges(pc[g]) /\ nonce = 1
        BY <1>2, <1>7, <3>2 DEF Repeats
      <4>2. /\ pc[g].auth[1] \in Nat /\ pc[g].auth[1] <= challenge
            /\ pc[g].auth = NoAuth \/ pc[g].auth[1] # 0
            /\ challenge \in 0 .. nonce
        BY DEF SharedInv, SessionTypes, TypeOK, RequestsMade, Requests
      <4>3. pc[g].auth = NoAuth
        BY <3>2, <4>1, <4>2 DEF Accepts, Challenges
      <4>4. protected # {}  BY <4>1 DEF Accepts
      <4> QED  BY <2>1, <3>1, <4>3, <4>4 DEF Credited
    <3>3. Channel(0) = 0  BY DEF Channel
    <3> QED  BY <2>1, <2>2, <3>1, <3>2, <3>3 DEF Credited, OwnChannel
  <2>4. \A h \in Goroutines :
          pc'[h].method = "SETUP" => Credited(pc[h])' /\ (nonce' = 1 => OwnChannel(pc'[h]))
    BY <1>2, <2>1, <2>2, <2>3, OtherSetups
  <2>5. trackIndex' # 0 => described'  BY <2>2 DEF ChannelsInv
  <2> QED  BY <1>3, <2>2, <2>4, <2>5 DEF ChannelsInv
<1>8. CASE Reconnect
  <2>1. PICK r \in Requests :
          pc' = [pc EXCEPT !["recoverer"] = r] /\ (r = Idle \/ r.method = "resume")
    BY <1>8, ReconnectShape
  <2>2. /\ "recoverer" \in Goroutines /\ assigned' \subseteq assigned
        /\ UNCHANGED <<protected, nonce, described, trackIndex>>
    BY <1>8, ReconnectShape DEF serverVars
  <2>3. \A h \in Goroutines :
          pc'[h].method = "SETUP" => Credited(pc[h])' /\ (nonce' = 1 => OwnChannel(pc'[h]))
    BY <1>1, <2>1, <2>2, OtherSetups
  <2>4. trackIndex' # 0 => described'  BY <2>2 DEF ChannelsInv
  <2> QED  BY <1>3, <2>2, <2>3, <2>4 DEF ChannelsInv
<1>9. CASE Rotate \/ LoseConnection \/ UNCHANGED vars
  <2>1. UNCHANGED <<pc, protected, described, trackIndex, assigned>>
    BY <1>9 DEF Rotate, LoseConnection, vars, serverVars
  <2> QED  BY <1>2, <2>1 DEF ChannelsInv, Credited
<1> QED  BY <1>4, <1>5, <1>6, <1>7, <1>8, <1>9, NextSorted

\* With at most 128 tracks, whose channels an octet can tell apart, no two
\* tracks of a session are interleaved on the same channels while the server
\* keeps its first nonce, although a SETUP repeated after 401 asks for the
\* channels 0-1 (client.go:194, 1094).
THEOREM TracksApart ==
  ASSUME Tracks <= 128
  PROVE  Spec => []ChannelsApart
<1>1. Init => ChannelsInv /\ Guarded
  BY DEF Init, ChannelsInv, Guarded, Idle
<1>2. SharedInv /\ RecoveryInv /\ Guarded /\ ChannelsInv /\ [Next]_vars
        => (ChannelsInv /\ Guarded)'
  BY ChannelsStep, GuardedStep
<1>3. ChannelsInv => ChannelsApart
  <2> SUFFICES ASSUME ChannelsInv, NEW a \in assigned, NEW b \in assigned,
                      a.channel - b.channel \in -1 .. 1, nonce = 1
               PROVE  a.track = b.track
    BY DEF ChannelsApart
  <2>1. /\ a.track \in 0 .. 127 /\ b.track \in 0 .. 127
        /\ a.channel = Channel(a.track) /\ b.channel = Channel(b.track)
    BY SessionAssumption DEF ChannelsInv, OwnChannel
  <2>2. a.channel = 2 * a.track /\ b.channel = 2 * b.track
    BY <2>1 DEF Channel
  <2>3. \A x, y \in 0 .. 127 : 2 * x - 2 * y \in -1 .. 1 => x = y
    OBVIOUS
  <2> QED  BY <2>1, <2>2, <2>3
<1> QED  BY <1>1, <1>2, <1>3, AlwaysShared, PTL DEF Spec
-----------------------------------------------------------------------------
\* Refusals.

\* A repeated request, while it is alone, is built from the challenge it was
\* told, whose nonce counts nobody has used; sent alone, a request has the
\* credentials of the challenge.
RetryInv ==
  \A g \in Goroutines :
    LET r == pc[g]
    IN  r.alone =>
          /\ r.again /\ r.phase = "build" =>
               /\ challenge = r.told /\ r.told # 0
               /\ scheme = "qop" => \A u \in used : u[1] < r.told
          /\ r.again /\ r.phase = "sent" =>
               /\ r.auth[1] = r.told /\ r.told # 0
               /\ scheme = "qop" => r.auth \notin used
          /\ r.phase = "sent" /\ r.method \notin Bare => r.auth[1] = challenge

\* Other requests are not alone while a busy goroutine makes its step.
LEMMA OtherRetries ==
  ASSUME SharedInv, NEW g \in Goroutines, pc[g] # Idle, NEW r, pc' = [pc EXCEPT ![g] = r],
         NEW h \in Goroutines, h # g
  PROVE  pc'[h] = pc[h] /\ (pc'[h] = Idle \/ ~pc'[h].alone)
BY DEF SharedInv, SessionTypes, AloneIsAlone

\* So only the one that makes the step has to be looked at.
LEMMA OwnRetry ==
  ASSUME SharedInv, NEW g \in Goroutines, pc[g] # Idle, NEW r, pc' = [pc EXCEPT ![g] = r],
         \/ r.phase \notin {"build", "sent"}
         \/ r.phase = "build" /\ ~r.again
         \/ /\ r.phase = "build" /\ r.alone =>
                  /\ challenge' = r.told /\ r.told # 0
                  /\ scheme' = "qop" => \A u \in used' : u[1] < r.told
            /\ r.phase = "sent" /\ r.alone =>
                  /\ r.again => /\ r.auth[1] = r.told /\ r.told # 0
                                /\ scheme' = "qop" => r.auth \notin used'
                  /\ r.method \notin Bare => r.auth[1] = challenge'
  PROVE  RetryInv'
<1>1. pc'[g] = r  BY DEF SharedInv, SessionTypes
<1>2. Idle.phase = "idle"  BY DEF Idle
<1>3. \A h \in Goroutines \ {g} : pc'[h] = Idle \/ ~pc'[h].alone
  BY OtherRetries
<1>4. ASSUME NEW h \in Goroutines, h # g
      PROVE  pc'[h].alone => pc'[h].phase = "idle"
  BY <1>2, <1>3, <1>4
<1> QED  BY <1>1, <1>4 DEF RetryInv

LEMMA RetryStep ==
  SharedInv /\ RecoveryInv /\ RetryInv /\ [Next]_vars => RetryInv'
<1> SUFFICES ASSUME SharedInv, RecoveryInv, RetryInv, [Next]_vars PROVE RetryInv'
  OBVIOUS
<1>1. pc \in [Goroutines -> Requests] /\ Idle.phase = "idle" /\ "recover" \in Phases
  BY DEF SharedInv, SessionTypes, Idle, Phases
<1>2. ASSUME NEW g \in Goroutines, Requested(g) PROVE RetryInv'
  <2>1. PICK method \in Kinds \ {"none"} : Calls(g, method)
    BY <1>2 DEF Requested, Kinds, Methods
  <2>2. pc'[g].phase = "build" /\ pc'[g].again = FALSE
    BY <2>1, RequestedShape
  <2>3. \A h \in Goroutines \ {g} : pc'[h] = Idle \/ pc'[h].alone = FALSE
    BY <2>1, RequestedShape, Zenon
  <2>4. ASSUME NEW h \in Goroutines, h # g, pc'[h].alone PROVE pc'[h].phase = "idle"
    BY <1>1, <2>3, <2>4
  <2> QED  BY <2>2, <2>4 DEF RetryInv
<1>3. ASSUME NEW g \in Goroutines, Sends(g) PROVE RetryInv'
  <2>1. PICK auth \in Nat \X Nat :
          /\ pc' = [pc EXCEPT ![g] = [pc[g] EXCEPT !.phase = "sent", !.auth = auth]]
          /\ challenge' = challenge
          /\ \/ (challenge = 0 \/ pc[g].method \in Bare) /\ auth = NoAuth
             \/ challenge # 0 /\ pc[g].method \notin Bare /\ auth[1] = challenge
    BY <1>3, SendsShape DEF authVars
  <2> DEFINE r == [pc[g] EXCEPT !.phase = "sent", !.auth = auth]
  <2>2. /\ r.phase = "sent" /\ r.method = pc[g].method /\ r.again = pc[g].again
        /\ r.auth = auth /\ r.told = pc[g].told /\ r.alone = pc[g].alone
    BY <1>1 DEF Requests
  <2> HIDE DEF r
  <2>3. /\ pc[g].phase = "build" /\ pc[g] # Idle /\ UNCHANGED <<used, scheme>>
    BY <1>1, <1>3 DEF Sends, serverVars
  <2>4. pc' = [pc EXCEPT ![g] = r]  BY <2>1 DEF r
  <2>5. r.method \notin Bare => r.auth[1] = challenge'
    BY <2>1, <2>2 DEF NoAuth
  <2>6. r.again => r.method \notin Bare
    BY <2>2 DEF SharedInv, RequestsMade, Persists, Methods, Bare
  <2>7. r.again /\ r.alone =>
          /\ r.auth[1] = r.told /\ r.told # 0
          /\ scheme' = "qop" => r.auth \notin used'
    <3> SUFFICES ASSUME r.again, r.alone
                 PROVE  /\ r.auth[1] = r.told /\ r.told # 0
                        /\ scheme = "qop" => r.auth \notin used
      BY <2>3
    <3>1. /\ challenge = r.told /\ r.told # 0
          /\ scheme = "qop" => \A u \in used : u[1] < r.told
      BY <2>2, <2>3 DEF RetryInv
    <3>2. r.auth[1] = r.told  BY <2>1, <2>5, <2>6, <3>1
    <3>3. r.told \in Nat  BY <1>1, <2>2 DEF Requests
    <3> QED  BY <3>1, <3>2, <3>3
  <2> QED  BY <2>2, <2>3, <2>4, <2>5, <2>7, OwnRetry
<1>4. ASSUME NEW g \in Goroutines, EndsIt(g) PROVE RetryInv'
  <2>1. PICK r : Ends(g, r) /\ pc' = [pc EXCEPT ![g] = r]
    BY <1>4, EndsShape
  <2>2. pc[g].phase = "sent" /\ pc[g] # Idle  BY <1>1, <1>4, EndsShape
  <2>3. r.phase \notin {"build", "sent"}
    <3>1. [pc[g] EXCEPT !.phase = "recover"].phase = "recover"
      BY <1>1, RequestFields
    <3> QED  BY <1>1, <2>1, <3>1 DEF Ends
  <2> QED  BY <2>1, <2>2, <2>3, OwnRetry
<1>5. ASSUME NEW g \in Goroutines, Repeats(g) PROVE RetryInv'
  <2> DEFINE r == Again(pc[g])
  <2>1. /\ pc' = [pc EXCEPT ![g] = r] /\ pc[g].phase = "sent" /\ r.phase = "build"
        /\ r.told = nonce' /\ r.alone = pc[g].alone
    BY <1>5, RepeatsShape
  <2> HIDE DEF r
  <2>2. /\ challenge' = nonce' /\ UNCHANGED <<used, scheme>>
        /\ pc[g].method \in Persists /\ Arrives(pc[g]) /\ ~Accepts(pc[g])
        /\ nonce' = IF pc[g].auth[1] = nonce /\ scheme # "Basic" THEN nonce + 1 ELSE nonce
    BY <1>5 DEF Repeats, TakesChallenge, serverVars, Challenges
  <2>3. /\ nonce \in Nat \ {0} /\ challenge \in 0 .. nonce /\ nonce' # 0
        /\ \A u \in used : u[1] \in Nat /\ u[1] <= challenge
    BY <2>2 DEF SharedInv, SessionTypes, TypeOK, UsedOld
  <2>4. ASSUME r.alone, scheme = "qop", NEW u \in used PROVE u[1] < nonce'
    <3>1. CASE pc[g].auth[1] = nonce  BY <2>2, <2>3, <2>4, <3>1
    <3>2. CASE pc[g].auth[1] # nonce
      <4>1. pc[g].method \notin Bare  BY <2>2 DEF Persists, Methods, Bare
      <4>2. pc[g].auth[1] = challenge  BY <2>1, <2>4, <4>1 DEF RetryInv
      <4> QED  BY <2>2, <2>3, <3>2, <4>2
    <3> QED  BY <3>1, <3>2
  <2>5. r.alone => /\ challenge' = r.told /\ r.told # 0
                   /\ scheme' = "qop" => \A u \in used' : u[1] < r.told
    BY <2>1, <2>2, <2>3, <2>4
  <2>6. pc[g] # Idle  BY <1>1, <2>1
  <2> QED  BY <2>1, <2>5, <2>6, OwnRetry
<1>6. CASE Reconnect
  <2>1. PICK r \in Requests :
          /\ pc' = [pc EXCEPT !["recoverer"] = r]
          /\ \/ r = Idle
             \/ r.phase = "build" /\ r.again = pc["recoverer"].again
    BY <1>6, ReconnectShape
  <2>2. /\ "recoverer" \in Goroutines /\ pc["recoverer"].phase = "recover"
        /\ ~pc["recoverer"].again
    BY <1>6, ReconnectShape DEF RecoveryInv, Recovers
  <2>3. pc["recoverer"] # Idle  BY <1>1, <2>2
  <2> QED  BY <1>1, <2>1, <2>2, <2>3, OwnRetry
<1>7. CASE Rotate \/ LoseConnection \/ UNCHANGED vars
  BY <1>7 DEF Rotate, LoseConnection, vars, serverVars, authVars, RetryInv
<1> QED  BY <1>2, <1>3, <1>4, <1>5, <1>6, <1>7, NextSorted

LEMMA RefusalsStep ==
  SharedInv /\ RecoveryInv /\ RetryInv /\ RefusedHasCause /\ [Next]_vars
    => RefusedHasCause'
<1> SUFFICES ASSUME SharedInv, RecoveryInv, RetryInv, RefusedHasCause, [Next]_vars
             PROVE  RefusedHasCause'
  OBVIOUS
<1>1. CASE refusals' = refusals  BY <1>1 DEF RefusedHasCause
<1>2. ASSUME NEW g \in Goroutines, Denies(g) PROVE RefusedHasCause'
  <2> DEFINE t == [told |-> pc[g].told = nonce, alone |-> pc[g].alone]
  <2>1. refusals' \in {refusals, refusals \cup {t}} /\ (~pc[g].again => refusals' = refusals)
    BY <1>2 DEF Denies
  <2>2. pc[g].phase = "sent" /\ ~Accepts(pc[g])  BY <1>2 DEF Denies, Arrives
  <2>3. ASSUME pc[g].again, pc[g].told = nonce, pc[g].alone PROVE FALSE
    <3>1. /\ pc[g].auth[1] = nonce /\ nonce # 0
          /\ scheme = "qop" => pc[g].auth \notin used
      BY <2>2, <2>3 DEF RetryInv
    <3>2. pc[g].auth # NoAuth  BY <3>1 DEF NoAuth
    <3> QED  BY <2>2, <3>1, <3>2 DEF Accepts
  <2>4. pc[g].again => ~t.told \/ ~t.alone  BY <2>3
  <2> HIDE DEF t
  <2> QED  BY <2>1, <2>4 DEF RefusedHasCause
<1>3. ASSUME NEW g \in Goroutines, Requested(g) PROVE refusals' = refusals
  BY <1>3 DEF Requested, Calls
<1>4. ASSUME NEW g \in Goroutines, Sends(g) PROVE refusals' = refusals
  BY <1>4 DEF Sends
<1>5. ASSUME NEW g \in Goroutines, EndsIt(g) PROVE RefusedHasCause'
  BY <1>1, <1>2, <1>5 DEF EndsIt, GetsNoAnswer, Unusable, Granted, Refused
<1>6. ASSUME NEW g \in Goroutines, Repeats(g) PROVE refusals' = refusals
  BY <1>6 DEF Repeats
<1>7. CASE Reconnect  BY <1>1, <1>7, ReconnectShape
<1>8. CASE Rotate \/ LoseConnection \/ UNCHANGED vars
  BY <1>1, <1>8 DEF Rotate, LoseConnection, vars
<1> QED  BY <1>1, <1>2, <1>3, <1>4, <1>5, <1>6, <1>7, <1>8, NextSorted

\* A request that is repeated with credentials is refused only when the server
\* changed its nonce after it had asked for them, or when another goroutine
\* built or repeated a request in between (client.go:998, 1090).
THEOREM RefusalsHaveCause == Spec => []RefusedHasCause
<1>1. Init => RetryInv /\ RefusedHasCause
  BY DEF Init, RetryInv, RefusedHasCause, Idle
<1>2. SharedInv /\ RecoveryInv /\ RetryInv /\ RefusedHasCause /\ [Next]_vars
        => (RetryInv /\ RefusedHasCause)'
  BY RetryStep, RefusalsStep
<1> QED  BY <1>1, <1>2, AlwaysShared, PTL DEF Spec
-----------------------------------------------------------------------------
\* Resuming a session.

\* Until calls are under way together the client counts as the server does:
\* the count is that of the challenge, nothing beyond it was used, and what is
\* sent and not answered was not used either.
CountInv ==
  /\ lastNonce = challenge
  /\ scheme = "qop" /\ ~mixed =>
       /\ \A u \in used : u[1] = challenge => u[2] <= authNonceCount
       /\ \A g \in Goroutines : pc[g].phase = "sent" =>
            /\ pc[g].auth[2] <= authNonceCount
            /\ pc[g].auth = NoAuth \/ pc[g].auth \notin used

\* Only one goroutine is busy then.
LEMMA OnlyOneBusy ==
  ASSUME SharedInv, ~mixed, NEW g \in Goroutines, pc[g] # Idle,
         NEW r, pc' = [pc EXCEPT ![g] = r], NEW h \in Goroutines, pc'[h].phase = "sent"
  PROVE  h = g /\ pc'[h] = r
BY DEF SharedInv, SessionTypes, AloneIsAlone, Idle

LEMMA CountStep ==
  SharedInv /\ RecoveryInv /\ RetryInv /\ CountInv /\ [Next]_vars => CountInv'
<1> SUFFICES ASSUME SharedInv, RecoveryInv, RetryInv, CountInv, [Next]_vars PROVE CountInv'
  OBVIOUS
<1>1. pc \in [Goroutines -> Requests] /\ Idle.phase = "idle"
  BY DEF SharedInv, SessionTypes, Idle
<1>2. challenge \in Nat /\ authNonceCount \in Nat
  BY DEF SharedInv, SessionTypes, TypeOK
<1>3. ASSUME NEW g \in Goroutines, Requested(g) PROVE CountInv'
  <2>1. PICK method \in Kinds \ {"none"} : Calls(g, method)
    BY <1>3 DEF Requested, Kinds, Methods
  <2>2. /\ UNCHANGED <<scheme, used, challenge, lastNonce, authNonceCount>>
        /\ ~mixed' => ~mixed
    BY <2>1 DEF Calls, serverVars, authVars
  <2>3. pc'[g].phase = "build"  BY <2>1, RequestedShape
  <2>4. ASSUME NEW h \in Goroutines, pc'[h].phase = "sent"
        PROVE  pc[h].phase = "sent" /\ pc'[h].auth = pc[h].auth
    BY <1>1, <2>1, <2>3, <2>4, RequestedShape
  <2> QED  BY <2>2, <2>4 DEF CountInv
<1>4. ASSUME NEW g \in Goroutines, Sends(g) PROVE CountInv'
  <2>1. PICK auth \in Nat \X Nat :
          /\ pc' = [pc EXCEPT ![g] = [pc[g] EXCEPT !.phase = "sent", !.auth = auth]]
          /\ \/ auth = NoAuth /\ UNCHANGED authVars
             \/ /\ auth \in Credentials(g) /\ challenge' = challenge
                /\ lastNonce' \in {lastNonce, challenge}
                /\ scheme = "qop" => authNonceCount' = auth[2]
    BY <1>4, SendsShape
  <2>2. UNCHANGED <<scheme, used, mixed>> /\ pc[g].phase = "build"
    BY <1>4 DEF Sends, serverVars
  <2>3. lastNonce' = challenge'  BY <2>1 DEF CountInv, authVars
  <2> DEFINE r == [pc[g] EXCEPT !.phase = "sent", !.auth = auth]
  <2>4. r.auth = auth  BY <1>1 DEF Requests
  <2> HIDE DEF r
  <2>5. ASSUME scheme = "qop", ~mixed
        PROVE  /\ \A u \in used : u[1] = challenge' => u[2] <= authNonceCount'
               /\ auth[2] <= authNonceCount' /\ (auth = NoAuth \/ auth \notin used)
    <3>1. \A u \in used : u[2] \in Nat /\ (u[1] = challenge => u[2] <= authNonceCount)
      BY <2>5 DEF CountInv, SharedInv, SessionTypes
    <3>2. CASE auth = NoAuth /\ UNCHANGED authVars
      BY <1>2, <3>1, <3>2 DEF NoAuth, authVars
    <3>3. CASE /\ auth \in Credentials(g) /\ challenge' = challenge
               /\ authNonceCount' = auth[2]
      <4>1. Busy \ {g} = {}
        BY <1>1, <2>2, <2>5 DEF Busy, SharedInv, AloneIsAlone
      <4>2. auth = << challenge, Count >>  BY <2>5, <3>3, <4>1 DEF Credentials
      <4>3. Count = authNonceCount + 1  BY DEF Count, CountInv
      <4> QED  BY <1>2, <3>1, <3>3, <4>2, <4>3
    <3> QED  BY <2>1, <2>5, <3>2, <3>3
  <2>6. ASSUME ~mixed, NEW h \in Goroutines, pc'[h].phase = "sent"
        PROVE  pc'[h].auth = auth
    <3>1. pc[g] # Idle /\ pc' = [pc EXCEPT ![g] = r]  BY <1>1, <2>1, <2>2 DEF r
    <3>2. pc'[h] = r  BY <2>6, <3>1, OnlyOneBusy
    <3> QED  BY <2>4, <3>2
  <2> QED  BY <2>2, <2>3, <2>5, <2>6 DEF CountInv
<1>5. ASSUME NEW g \in Goroutines, EndsIt(g) PROVE CountInv'
  <2>1. PICK r : Ends(g, r) /\ pc' = [pc EXCEPT ![g] = r]
    BY <1>5, EndsShape
  <2>2. /\ UNCHANGED <<scheme, challenge, lastNonce, authNonceCount, mixed>>
        /\ pc[g].phase = "sent" /\ pc[g] # Idle
    BY <1>1, <1>5, EndsShape DEF serverVars, authVars
  <2>3. r.phase # "sent"
    <3>1. [pc[g] EXCEPT !.phase = "recover"].phase = "recover"
      BY <1>1, RequestFields DEF Phases
    <3> QED  BY <1>1, <2>1, <3>1 DEF Ends
  <2>4. used' \subseteq used \cup {pc[g].auth}
    BY <1>5 DEF EndsIt, GetsNoAnswer, Unheard, Unusable, Granted, Refused, Denies, Uses
  <2>5. ASSUME ~mixed, NEW h \in Goroutines PROVE pc'[h].phase # "sent"
    BY <2>1, <2>2, <2>3, <2>5, OnlyOneBusy
  <2>6. ASSUME scheme = "qop", ~mixed, NEW u \in used', u[1] = challenge
        PROVE  u[2] <= authNonceCount
    BY <2>2, <2>4, <2>6 DEF CountInv
  <2> QED  BY <2>2, <2>5, <2>6 DEF CountInv
<1>6. ASSUME NEW g \in Goroutines, Repeats(g) PROVE CountInv'
  <2> DEFINE r == Again(pc[g])
  <2>1. /\ pc' = [pc EXCEPT ![g] = r] /\ pc[g].phase = "sent" /\ r.phase = "build"
        /\ r.told = nonce' /\ r.alone = pc[g].alone /\ r.again
    BY <1>6, RepeatsShape
  <2> HIDE DEF r
  <2>2. /\ UNCHANGED <<scheme, used, mixed>> /\ pc[g] # Idle
        /\ challenge' = nonce' /\ lastNonce' = nonce' /\ authNonceCount' = 0
    BY <1>1, <1>6, <2>1 DEF Repeats, TakesChallenge, serverVars
  <2>3. ASSUME ~mixed, scheme = "qop", NEW u \in used PROVE u[1] # challenge'
    <3>1. RetryInv'  BY RetryStep
    <3>2. pc'[g] = r /\ r.alone
      BY <1>1, <2>1, <2>2, <2>3 DEF SharedInv, AloneIsAlone
    <3>3. u[1] < nonce'
      BY <2>1, <2>2, <2>3, <3>1, <3>2 DEF RetryInv
    <3>4. nonce' \in Nat /\ u[1] \in Nat
      BY <1>6 DEF Repeats, Challenges, SharedInv, SessionTypes
    <3> QED  BY <2>2, <3>3, <3>4
  <2>4. ASSUME ~mixed, NEW h \in Goroutines PROVE pc'[h].phase # "sent"
    BY <2>1, <2>2, <2>4, OnlyOneBusy
  <2> QED  BY <2>2, <2>3, <2>4 DEF CountInv
<1>7. CASE Reconnect
  <2>1. PICK r \in Requests :
          pc' = [pc EXCEPT !["recoverer"] = r] /\ (r = Idle \/ r.phase = "build")
    BY <1>7, ReconnectShape
  <2>2. /\ "recoverer" \in Goroutines /\ pc["recoverer"].phase = "recover"
        /\ UNCHANGED <<scheme, used, challenge, lastNonce, authNonceCount, mixed>>
    BY <1>7, ReconnectShape DEF serverVars, authVars
  <2>3. pc["recoverer"] # Idle /\ r.phase # "sent"  BY <1>1, <2>1, <2>2
  <2>4. ASSUME ~mixed, NEW h \in Goroutines PROVE pc'[h].phase # "sent"
    <3>1. "recoverer" \in Goroutines /\ ~mixed /\ pc["recoverer"] # Idle
          /\ pc' = [pc EXCEPT !["recoverer"] = r]
      BY <2>1, <2>2, <2>3, <2>4
    <3>2. ASSUME pc'[h].phase = "sent" PROVE pc'[h] = r
      BY <3>1, <3>2, OnlyOneBusy
    <3> QED  BY <2>3, <3>2
  <2> QED  BY <2>2, <2>4 DEF CountInv
<1>8. CASE Rotate \/ LoseConnection \/ UNCHANGED vars
  BY <1>8 DEF Rotate, LoseConnection, vars, serverVars, authVars, CountInv
<1> QED  BY <1>3, <1>4, <1>5, <1>6, <1>7, <1>8, NextSorted

LEMMA ResumesStep ==
  ASSUME SharedInv, RecoveryInv, Guarded, RetryInv, CountInv, ResumesHaveCause, [Next]_vars
  PROVE  ResumesHaveCause'
<1>1. CASE resumes' = resumes  BY <1>1 DEF ResumesHaveCause
<1>2. ASSUME NEW g \in Goroutines, Denies(g), pc[g].method = "resume" PROVE ResumesHaveCause'
  <2> DEFINE t == [stale |-> challenge \notin {0, nonce}, mixed |-> mixed]
  <2>1. resumes' = resumes \cup {t} /\ pc[g].phase = "sent" /\ ~Accepts(pc[g])
    BY <1>2 DEF Denies, Arrives
  <2>2. ASSUME challenge \in {0, nonce}, ~mixed PROVE FALSE
    <3>1. session # 0  BY <1>2 DEF RecoveryInv, Resuming, Resumes
    <3>2. "PLAY" \in protected /\ protected # {}
      BY <1>2, <2>1 DEF Accepts, Wire
    <3>3. challenge = nonce /\ nonce # 0
      BY <2>2, <3>1, <3>2 DEF Guarded, SharedInv, SessionTypes
    <3>4. pc[g].auth[1] = challenge
      <4>1. pc[g] # Idle /\ pc[g].method \notin Bare  BY <1>2 DEF Idle, Bare
      <4>2. pc[g].alone  BY <2>2, <4>1 DEF SharedInv, AloneIsAlone
      <4> QED  BY <2>1, <4>1, <4>2 DEF RetryInv
    <3>5. pc[g].auth # NoAuth  BY <3>3, <3>4 DEF NoAuth
    <3>6. scheme = "qop" => pc[g].auth \notin used  BY <2>1, <2>2, <3>5 DEF CountInv
    <3> QED  BY <2>1, <3>3, <3>4, <3>5, <3>6 DEF Accepts
  <2>3. t.stale \/ t.mixed  BY <2>2
  <2> HIDE DEF t
  <2> QED  BY <2>1, <2>3 DEF ResumesHaveCause
<1>3. ASSUME NEW g \in Goroutines, Requested(g) PROVE resumes' = resumes
  BY <1>3 DEF Requested, Calls
<1>4. ASSUME NEW g \in Goroutines, Sends(g) PROVE resumes' = resumes
  BY <1>4 DEF Sends
<1>5. ASSUME NEW g \in Goroutines, EndsIt(g) PROVE ResumesHaveCause'
  <2>1. CASE Denies(g)  BY <1>1, <1>2, <2>1 DEF Denies
  <2>2. CASE ~Denies(g)
    BY <1>1, <1>5, <2>2 DEF EndsIt, GetsNoAnswer, Unusable, Granted, Refused
  <2> QED  BY <2>1, <2>2
<1>6. ASSUME NEW g \in Goroutines, Repeats(g) PROVE resumes' = resumes
  BY <1>6 DEF Repeats
<1>7. CASE Reconnect  BY <1>1, <1>7, ReconnectShape
<1>8. CASE Rotate \/ LoseConnection \/ UNCHANGED vars
  BY <1>1, <1>8 DEF Rotate, LoseConnection, vars
<1> QED  BY <1>1, <1>3, <1>4, <1>5, <1>6, <1>7, <1>8, NextSorted

\* The PLAY of RecoverSession, which is sent once and never repeated with new
\* credentials (recovery.go:198), is refused for its credentials only when the
\* server has changed its nonce or calls were ever under way together: of
\* itself, the recoverer never sends a count that was used.
THEOREM ResumesRefusedForCause == Spec => []ResumesHaveCause
<1>1. Init => Guarded /\ RetryInv /\ CountInv /\ ResumesHaveCause
  BY DEF Init, Guarded, RetryInv, CountInv, ResumesHaveCause, Idle
<1>2. SharedInv /\ RecoveryInv /\ Guarded /\ RetryInv /\ CountInv /\ ResumesHaveCause
        /\ [Next]_vars => (Guarded /\ RetryInv /\ CountInv /\ ResumesHaveCause)'
  BY GuardedStep, RetryStep, CountStep, ResumesStep
<1> QED  BY <1>1, <1>2, AlwaysShared, PTL DEF Spec
=============================================================================
