------------------------------ MODULE Session ------------------------------
(***************************************************************************)
(* Authentication, SETUP of several tracks and recovery on one client of   *)
(* pkg/rtsp in TCP mode: the caller, the keep-alive goroutine and the      *)
(* goroutine of AutoReconnect send requests that share the challenge, the  *)
(* nonce count and the session.  A request is built in one step and        *)
(* answered in a later one, or given up: an answer that is taken is that   *)
(* of its request (what else can happen is module ControlConnection).  The *)
(* server asks for credentials for some methods, changes its nonce, and    *)
(* takes no nonce count twice.                                             *)
(***************************************************************************)
EXTENDS Integers, Sequences

CONSTANTS
  Tracks,          \* number of tracks in the session description
  MaxCalls,        \* bound: requests that are begun
  MaxRotations,    \* bound: times the server changes its nonce unasked
  MaxLosses        \* bound: times the connection is lost

ASSUME SessionAssumption ==
  Tracks \in Nat \ {0} /\ MaxCalls \in Nat /\ MaxRotations \in Nat /\ MaxLosses \in Nat

VARIABLES
  scheme, protected, joins,                \* the server: what it asks for
  nonce, used, live, assigned, lost,       \* the server and the connection
  challenge, lastNonce, authNonceCount,    \* c.authChallenge's nonce, or 0; ...
  session, described, trackIndex, conn,    \* session 0 is ""
  pc,                                      \* what each goroutine is doing
  refusals, resumes,                       \* history: 401 to what is repeated; to a resume
  mixed,                                   \* history: calls were under way together
  calls, rotations, losses

serverVars == <<scheme, protected, joins>>
authVars   == <<challenge, lastNonce, authNonceCount>>
vars == <<serverVars, nonce, used, live, assigned, lost, authVars, session,
          described, trackIndex, conn, pc, refusals, resumes, mixed, calls, rotations,
          losses>>

Goroutines == {"caller", "keeper", "recoverer"}
Methods    == {"DESCRIBE", "SETUP", "PLAY", "TEARDOWN", "OPTIONS", "GET_PARAMETER"}
\* HealthCheck's OPTIONS and RecoverSession's PLAY are requests of their own.
Wire(method) == CASE method = "health" -> "OPTIONS"
                  [] method = "resume" -> "PLAY"
                  [] OTHER -> method
Bare      == {"TEARDOWN", "health"}                \* sent without credentials
Persists  == Methods \ {"TEARDOWN"}                \* repeated after 401
NoAuth    == <<0, 0>>                              \* a nonce and its count
Idle      == [method |-> "none", phase |-> "idle", track |-> 0, channel |-> 0,
              session |-> 0, auth |-> NoAuth, again |-> FALSE, told |-> 0,
              alone |-> TRUE, conn |-> 0]
Busy      == {g \in Goroutines : pc[g] # Idle}

Init ==
  /\ scheme \in {"Basic", "Digest", "qop"}
  /\ protected \in {{}, Methods \ {"OPTIONS"}, Methods}
  /\ joins \in BOOLEAN
  /\ nonce = 1 /\ used = {} /\ live = {} /\ assigned = {} /\ lost = FALSE
  /\ challenge = 0 /\ lastNonce = 0 /\ authNonceCount = 0
  /\ session = 0 /\ described = FALSE /\ trackIndex = 0 /\ conn = 1
  /\ pc = [g \in Goroutines |-> Idle]
  /\ refusals = {} /\ resumes = {} /\ mixed = FALSE
  /\ calls = 0 /\ rotations = 0 /\ losses = 0
-----------------------------------------------------------------------------
(* Building a request.                                                     *)

\* generateDigestAuthHeader: a new nonce starts the count anew.
Count == (IF lastNonce = challenge THEN authNonceCount ELSE 0) + 1

\* The credentials of the next request.  The count is not guarded: two
\* goroutines that build at the same time may send the same one.
Credentials(g) ==
  IF scheme # "qop" THEN {<<challenge, 0>>}
  ELSE {<<challenge, Count>>}
         \cup {pc[h].auth : h \in {h \in Busy \ {g} : /\ pc[h].phase = "sent"
                                                      /\ pc[h].auth[1] = challenge}}

BuildsPlain(g, r) ==
  /\ pc' = [pc EXCEPT ![g] = [r EXCEPT !.phase = "sent", !.auth = NoAuth]]
  /\ UNCHANGED authVars

BuildsWithAuth(g, r) ==
  \E auth \in Credentials(g) :
    /\ pc' = [pc EXCEPT ![g] = [r EXCEPT !.phase = "sent", !.auth = auth]]
    /\ lastNonce' = IF scheme = "Basic" THEN lastNonce ELSE challenge
    /\ authNonceCount' = IF scheme = "qop" THEN auth[2] ELSE authNonceCount
    /\ UNCHANGED challenge

\* Mutant: Setup adds no credentials to the request it builds itself.
BuildsSetupPlain(g, r) ==
  IF challenge = 0 \/ r.method \in Bare \/ (r.method = "SETUP" /\ ~r.again)
  THEN BuildsPlain(g, r) ELSE BuildsWithAuth(g, r)

Builds(g, r) ==
  IF challenge = 0 \/ r.method \in Bare THEN BuildsPlain(g, r) ELSE BuildsWithAuth(g, r)

\* The RTP channel of a track, an octet; RTCP has the next one.
Channel(index) == (2 * index) % 256

\* nextSetupURL and the channels of Setup.
Request(method) ==
  [Idle EXCEPT !.method = method, !.phase = "build", !.conn = conn,
               !.track = trackIndex, !.channel = Channel(trackIndex),
               !.session = IF method \in {"DESCRIBE", "SETUP"} THEN 0 ELSE session]

\* A call.  Others that are under way are no longer alone, and neither is it.
Calls(g, method) ==
  /\ pc[g] = Idle
  /\ calls < MaxCalls /\ calls' = calls + 1
  /\ mixed' = (mixed \/ Busy # {})
  /\ pc' = [h \in Goroutines |->
              IF h = g THEN [Request(method) EXCEPT !.alone = Busy = {}]
              ELSE IF h \in Busy THEN [pc[h] EXCEPT !.alone = FALSE] ELSE pc[h]]
  /\ UNCHANGED <<serverVars, nonce, used, live, assigned, lost, authVars, session,
                 described, trackIndex, conn, refusals, resumes, rotations, losses>>

Describe  == Calls("caller", "DESCRIBE")
Setup     == Calls("caller", "SETUP")
Play      == session # 0 /\ Calls("caller", "PLAY")
Teardown  == session # 0 /\ Calls("caller", "TEARDOWN")
KeepAlive == session # 0 /\ \E method \in {"OPTIONS", "GET_PARAMETER"} : Calls("keeper", method)
HealthCheck == Calls("recoverer", "health")

Sends(g) ==
  /\ pc[g].phase = "build"
  /\ Builds(g, pc[g])
  /\ UNCHANGED <<serverVars, nonce, used, live, assigned, lost, session, described,
                 trackIndex, conn, refusals, resumes, mixed, calls, rotations, losses>>
-----------------------------------------------------------------------------
(* The server, and what the client does with the answer.                   *)

Accepts(r) ==
  \/ Wire(r.method) \notin protected
  \/ scheme = "Basic" /\ r.auth # NoAuth
  \/ scheme # "Basic" /\ r.auth[1] = nonce /\ (scheme = "qop" => r.auth \notin used)

Arrives(r) == r.phase = "sent" /\ r.conn = conn /\ ~lost

\* The recoverer goes on to RecoverSession when the check fails, for whatever
\* reason, and there is a session to recover; everything else is over.
Over(g) ==
  pc' = [pc EXCEPT ![g] = IF @.method = "health" /\ session # 0
                          THEN [@ EXCEPT !.phase = "recover"] ELSE Idle]

\* A count that was used before makes the server change its nonce.
Challenges(r) ==
  nonce' = IF r.auth[1] = nonce /\ scheme # "Basic" THEN nonce + 1 ELSE nonce

\* The count of a request the server took.
Uses(r) == IF r.auth[2] > 0 THEN used \cup {r.auth} ELSE used

\* A track takes its channels in a session, which the server repeats.
Assigned(r, s) ==
  {a \in assigned : a.session # s \/ a.track # r.track}
    \cup {[session |-> s, track |-> r.track, channel |-> r.channel]}

\* What is left of the assignments when a session ends.
Ended(r) == {a \in assigned : a.session # r.session}

\* What the server makes of a request whose answer the client does not take:
\* nothing, when it did not get there; all it asked for; or a new nonce.  A
\* session that is opened unheard is nobody's and left out.
Unheard(r) ==
  \/ UNCHANGED <<nonce, used, live, assigned>>
  \/ /\ Arrives(r) /\ Accepts(r)
     /\ used' = Uses(r)
     /\ live' = IF r.method = "TEARDOWN" THEN live \ {r.session} ELSE live
     /\ assigned' = CASE r.method = "TEARDOWN" -> Ended(r)
                      [] r.method = "SETUP" /\ joins /\ session \in live ->
                           Assigned(r, session)
                      [] OTHER -> assigned
     /\ UNCHANGED nonce
  \/ /\ Arrives(r) /\ ~Accepts(r)
     /\ Challenges(r)
     /\ UNCHANGED <<used, live, assigned>>

\* The read deadline passes, a frame is in front of the answer, it does not
\* parse, or the connection is gone or was replaced under the request.
GetsNoAnswer(g) ==
  /\ pc[g].phase = "sent"
  /\ Unheard(pc[g])
  /\ Over(g)
  /\ UNCHANGED <<serverVars, lost, authVars, session, described, trackIndex, conn,
                 refusals, resumes, mixed, calls, rotations, losses>>

\* Any status but 200 and 401: c.session is kept, after 454 too.
Refused(g) ==
  /\ Arrives(pc[g])
  /\ used' \in {used, Uses(pc[g])}
  /\ Over(g)
  /\ UNCHANGED <<serverVars, nonce, live, assigned, lost, authVars, session, described,
                 trackIndex, conn, refusals, resumes, mixed, calls, rotations, losses>>

\* retryWithAuth, retryRequestWithAuth up to the new request: SETUP is built
\* with the channels 0-1.
Again(r) ==
  [r EXCEPT !.phase = "build", !.again = TRUE, !.told = nonce',
            !.channel = 0, !.session = IF r.method \in {"DESCRIBE", "SETUP"} THEN 0 ELSE session]

\* Mutant: a challenge that is there already is kept.
TakesFirstChallenge ==
  /\ challenge' = IF challenge = 0 THEN nonce' ELSE challenge
  /\ lastNonce' = challenge' /\ authNonceCount' = 0

TakesChallenge ==
  /\ challenge' = nonce'
  /\ lastNonce' = nonce' /\ authNonceCount' = 0

Unauthorized(g) ==
  LET r == pc[g]
  IN  /\ Arrives(r) /\ ~Accepts(r)
      /\ Challenges(r)
      /\ \/ /\ r.method \in Persists /\ ~r.again
            /\ TakesChallenge
            /\ pc' = [pc EXCEPT ![g] = Again(r)]
            /\ UNCHANGED refusals
         \/ /\ r.method \notin Persists \/ r.again
            /\ Over(g)
            /\ refusals' = IF r.again
                           THEN refusals \cup {[told |-> r.told = nonce, alone |-> r.alone]}
                           ELSE refusals
            /\ UNCHANGED authVars
      /\ resumes' = IF r.method = "resume"
                    THEN resumes \cup {[stale |-> challenge \notin {0, nonce},
                                       mixed |-> mixed]}
                    ELSE resumes
      /\ UNCHANGED <<serverVars, used, live, assigned, lost, session, described,
                     trackIndex, conn, mixed, calls, rotations, losses>>

\* 401 without a header that parseAuthChallenge accepts.
Unusable(g) ==
  /\ Arrives(pc[g]) /\ ~Accepts(pc[g])
  /\ pc[g].method \in Persists /\ ~pc[g].again
  /\ Over(g)
  /\ UNCHANGED <<serverVars, nonce, used, live, assigned, lost, authVars, session,
                 described, trackIndex, conn, refusals, resumes, mixed, calls, rotations, losses>>

\* The session a SETUP, which never names one, is made part of.
SetupSession == IF joins /\ session \in live THEN session ELSE session + 1

\* c.trackIndex after a SETUP.
NextTrack ==
  IF described /\ trackIndex < Tracks - 1 THEN trackIndex + 1 ELSE trackIndex

SetUp(r) ==
  /\ session' = SetupSession
  /\ live' = live \cup {session'}
  /\ assigned' = Assigned(r, session')
  /\ trackIndex' = NextTrack
  /\ UNCHANGED described

Succeeds(r) ==
  \/ /\ r.method = "DESCRIBE"
     /\ described' = TRUE /\ trackIndex' = 0
     /\ UNCHANGED <<session, live, assigned>>
  \/ r.method = "SETUP" /\ SetUp(r)
  \/ /\ r.method = "TEARDOWN"
     /\ live' = live \ {r.session}
     /\ assigned' = Ended(r)
     /\ UNCHANGED <<session, described, trackIndex>>
  \/ /\ r.method \notin {"DESCRIBE", "SETUP", "TEARDOWN"}
     /\ UNCHANGED <<session, live, assigned, described, trackIndex>>

\* 200.  PLAY and TEARDOWN of a session the server does not know never get it.
Granted(g) ==
  LET r == pc[g]
  IN  /\ Arrives(r) /\ Accepts(r)
      /\ Wire(r.method) \in {"PLAY", "TEARDOWN"} => r.session \in live
      /\ Succeeds(r)
      /\ used' = Uses(r)
      /\ pc' = [pc EXCEPT ![g] = Idle]
      /\ UNCHANGED <<serverVars, nonce, lost, authVars, conn, refusals, resumes, mixed,
                     calls, rotations, losses>>
-----------------------------------------------------------------------------
(* Recovery.                                                               *)

\* Mutant: a new connection starts the nonce count anew.
ReconnectAnew ==
  /\ pc["recoverer"].phase = "recover"
  /\ conn' = conn + 1 /\ lost' = FALSE /\ authNonceCount' = 0
  /\ pc' = [pc EXCEPT !["recoverer"] = [@ EXCEPT !.method = "resume", !.phase = "build",
                                                 !.session = session, !.conn = conn']]
  /\ UNCHANGED <<serverVars, nonce, used, live, assigned, challenge, lastNonce, session,
                 described, trackIndex, refusals, resumes, mixed, calls, rotations, losses>>

\* Reconnect closes the connection, whatever its state, and dials; the server
\* may end the sessions of the old connection.  All attempts may fail.  The
\* PLAY that follows is built with the challenge there is.
Reconnect ==
  /\ pc["recoverer"].phase = "recover"
  /\ conn' = conn + 1
  /\ \E kept \in BOOLEAN :
       /\ live' = IF kept THEN live ELSE {}
       /\ assigned' = IF kept THEN assigned ELSE {}
  /\ \/ /\ lost' = FALSE
        /\ pc' = [pc EXCEPT !["recoverer"] =
                    [@ EXCEPT !.method = "resume", !.phase = "build", !.session = session,
                              !.conn = conn']]
     \/ /\ lost' = TRUE
        /\ pc' = [pc EXCEPT !["recoverer"] = Idle]
  /\ UNCHANGED <<serverVars, nonce, used, authVars, session, described, trackIndex, refusals,
                 resumes, mixed, calls, rotations, losses>>

\* The environment.
Rotate ==
  /\ rotations < MaxRotations /\ rotations' = rotations + 1
  /\ nonce' = nonce + 1
  /\ UNCHANGED <<serverVars, used, live, assigned, lost, authVars, session, described,
                 trackIndex, conn, pc, refusals, resumes, mixed, calls, losses>>

LoseConnection ==
  /\ ~lost /\ losses < MaxLosses /\ losses' = losses + 1
  /\ lost' = TRUE
  /\ UNCHANGED <<serverVars, nonce, used, live, assigned, authVars, session, described,
                 trackIndex, conn, pc, refusals, resumes, mixed, calls, rotations>>

Next ==
  \/ Describe \/ Setup \/ Play \/ Teardown \/ KeepAlive \/ HealthCheck
  \/ \E g \in Goroutines :
       \/ Sends(g) \/ GetsNoAnswer(g) \/ Unauthorized(g) \/ Unusable(g)
       \/ Granted(g) \/ Refused(g)
  \/ Reconnect \/ Rotate \/ LoseConnection

Spec == Init /\ [][Next]_vars
-----------------------------------------------------------------------------
TypeOK ==
  /\ challenge \in 0 .. nonce /\ lastNonce \in 0 .. nonce
  /\ authNonceCount \in Nat /\ session \in Nat /\ conn \in Nat
  /\ live \subseteq 1 .. session
  /\ trackIndex \in 0 .. Tracks - 1
  /\ \A g \in Goroutines : pc[g].phase \in {"idle", "build", "sent", "recover"}

\* A request that is repeated with credentials is refused only when the
\* server changed its nonce after it had asked for them, or when another
\* goroutine built or repeated a request in between (client.go:998, 1090).
RefusedHasCause ==
  \A r \in refusals : ~r.told \/ ~r.alone

\* No two tracks of a session are interleaved on the same channels while the
\* server keeps its first nonce: a SETUP that is repeated after 401 asks for
\* the channels 0-1 (client.go:194, 1094), and with the credentials Setup adds
\* (client.go:203) only that of the first track can be.
ChannelsApart ==
  nonce = 1 =>
    \A a, b \in assigned :
      a.session = b.session /\ a.channel - b.channel \in -1 .. 1 => a.track = b.track

\* The PLAY that RecoverSession sends is refused for its credentials, which it
\* does not repeat (recovery.go:198), only when the server has changed its
\* nonce, or when calls were ever under way together.
ResumesHaveCause ==
  \A r \in resumes : r.stale \/ r.mixed
=============================================================================
