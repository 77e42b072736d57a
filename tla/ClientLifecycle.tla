-------------------------- MODULE ClientLifecycle --------------------------
(***************************************************************************)
(* pkg/rtsp: the goroutines that share one Client without a lock.          *)
(*                                                                         *)
(*   the caller     Connect, StartKeepAlive, StopKeepAlive, AutoReconnect, *)
(*                  ReadPacket, Close (one goroutine: ARCHITECTURE.md)     *)
(*   a keep-alive   one goroutine for each StartKeepAlive                  *)
(*   the recoverer  the goroutine of AutoReconnect                         *)
(*                                                                         *)
(* They share c.conn and c.keepAliveStop.  Every use of c.conn reads the   *)
(* field again, and using it while it is nil is a panic.  A socket and a   *)
(* stop channel are numbers; 0 is nil.  What the server answers is a free  *)
(* choice; the clock is one too (a ticker may fire whenever a goroutine    *)
(* waits in its select).  lastKeepAlive and the recovery metrics, which    *)
(* decide nothing, are left out.                                           *)
(***************************************************************************)
EXTENDS Naturals, FiniteSets

CONSTANTS MaxRetries,    \* RetryConfig.MaxRetries
          MaxStarts,     \* bound: keep-alive goroutines started
          MaxDials       \* bound: sockets opened

ASSUME LifecycleAssumption ==
  MaxRetries \in Nat \ {0} /\ MaxStarts \in Nat /\ MaxDials \in Nat

VARIABLES
  caller,          \* where the caller is
  conn, open,      \* c.conn; the sockets not closed by the client
  dials,           \* sockets opened so far
  session,         \* c.session # ""
  keepAliveStop,   \* c.keepAliveStop
  closed,          \* stop channels that were closed
  starts,          \* keep-alive goroutines started so far
  cancelled,       \* c.ctx is done
  at, listens,     \* goroutines: where they are; the channel a select waits on
  task, again,     \* what a request is for; whether it is the retry of a 401
  attempt,         \* retryWithBackoff's loop variable
  crashed,         \* some goroutine panicked
  overtaken        \* history: a StopKeepAlive missed its goroutine

sockets    == <<conn, open, dials>>
stopping   == <<keepAliveStop, closed, starts, cancelled>>
goroutines == <<at, listens, task, again, attempt>>
vars == <<caller, sockets, session, stopping, goroutines, crashed, overtaken>>

Nil       == 0
Recoverer == 0
KeepAlive == 1 .. MaxStarts
Goroutine == KeepAlive \cup {Recoverer}

\* A panic ends the program: nothing is modelled after it.
CallerIs(where) == ~crashed /\ caller = where
In(g, where)    == ~crashed /\ at[g] = where
Goes(g, where)  == at' = [at EXCEPT ![g] = where]

Init ==
  /\ caller = "idle"
  /\ conn = Nil /\ open = {} /\ dials = 0
  /\ session = FALSE
  /\ keepAliveStop = Nil /\ closed = {} /\ starts = 0 /\ cancelled = FALSE
  /\ at = [g \in Goroutine |-> "off"]
  /\ listens = [g \in KeepAlive |-> Nil]
  /\ task = [g \in Goroutine |-> "none"]
  /\ again = [g \in Goroutine |-> FALSE]
  /\ attempt = 0
  /\ crashed = FALSE /\ overtaken = FALSE
-----------------------------------------------------------------------------
(* Dialling, which Connect does for the caller and for the recoverer.      *)

\* The new socket takes the field; an older one is not looked at.
Dialled ==
  /\ dials < MaxDials
  /\ dials' = dials + 1
  /\ conn' = dials + 1
  /\ open' = open \cup {dials + 1}

\* A method called on c.conn: a panic if the field is nil.
Dereferences(next) ==
  IF conn = Nil THEN crashed' = TRUE /\ UNCHANGED <<caller, goroutines>>
                ELSE next /\ UNCHANGED crashed
-----------------------------------------------------------------------------
(* The caller.                                                             *)

\* Callers connect once, before they ask for reconnection or close, and may
\* set a session up on the new connection (a failed Connect changes nothing).
Connect ==
  /\ CallerIs("idle") /\ dials = 0 /\ ~cancelled /\ at[Recoverer] = "off"
  /\ Dialled
  /\ session' \in BOOLEAN
  /\ UNCHANGED <<caller, stopping, goroutines, crashed, overtaken>>

\* Mutant: a goroutine that runs already is not noticed.
StartKeepAliveAgain ==
  /\ CallerIs("idle")
  /\ starts < MaxStarts
  /\ starts' = starts + 1
  /\ keepAliveStop' = starts + 1
  /\ Goes(starts + 1, "top")
  /\ UNCHANGED <<caller, sockets, session, closed, cancelled, listens, task,
                 again, attempt, crashed, overtaken>>

StartKeepAlive ==
  /\ CallerIs("idle")
  /\ keepAliveStop = Nil
  /\ starts < MaxStarts
  /\ starts' = starts + 1
  /\ keepAliveStop' = starts + 1
  /\ Goes(starts + 1, "top")
  /\ UNCHANGED <<caller, sockets, session, closed, cancelled, listens, task,
                 again, attempt, crashed, overtaken>>

\* A goroutine that is not waiting on the channel cannot see it close.
Misses(g) ==
  /\ at[g] \notin {"off", "done"}
  /\ ~(at[g] = "select" /\ listens[g] \in closed \cup {keepAliveStop})

StopsKeepAlive ==
  IF keepAliveStop = Nil
  THEN UNCHANGED <<keepAliveStop, closed, overtaken>>
  ELSE /\ closed' = closed \cup {keepAliveStop}
       /\ keepAliveStop' = Nil
       /\ overtaken' = (overtaken \/ \E g \in KeepAlive : Misses(g))

StopKeepAlive ==
  /\ CallerIs("idle") /\ keepAliveStop # Nil
  /\ StopsKeepAlive
  /\ UNCHANGED <<caller, sockets, session, starts, cancelled, goroutines, crashed>>

AutoReconnect ==
  /\ CallerIs("idle") /\ at[Recoverer] = "off"
  /\ Goes(Recoverer, "select")
  /\ UNCHANGED <<caller, sockets, session, stopping, listens, task, again,
                 attempt, crashed, overtaken>>

\* ReadPacket in TCP mode: a check, a use, a second check and the read, the
\* last two once more for every RTCP frame.
ReadPacket ==
  /\ CallerIs("idle") /\ conn # Nil
  /\ caller' = "deadline"
  /\ UNCHANGED <<sockets, session, stopping, goroutines, crashed, overtaken>>

ReadPacketSetsDeadline ==
  /\ CallerIs("deadline")
  /\ Dereferences(caller' = "checking" /\ UNCHANGED goroutines)
  /\ UNCHANGED <<sockets, session, stopping, overtaken>>

ReadPacketChecks ==
  /\ CallerIs("checking")
  /\ caller' = IF conn = Nil THEN "idle" ELSE "reading"
  /\ UNCHANGED <<sockets, session, stopping, goroutines, crashed, overtaken>>

ReadPacketReads ==
  /\ CallerIs("reading")
  /\ Dereferences(caller' \in {"idle", "checking"} /\ UNCHANGED goroutines)
  /\ UNCHANGED <<sockets, session, stopping, overtaken>>

Close ==
  /\ CallerIs("idle") /\ ~cancelled
  /\ StopsKeepAlive
  /\ cancelled' = TRUE
  /\ caller' = "closing"
  /\ UNCHANGED <<sockets, session, starts, goroutines, crashed>>

\* Close checks c.conn and then closes what it finds there.
CloseChecks ==
  /\ CallerIs("closing")
  /\ caller' = IF conn = Nil THEN "idle" ELSE "hangup"
  /\ UNCHANGED <<sockets, session, stopping, goroutines, crashed, overtaken>>

\* Mutant: Close sets c.conn to nil under goroutines that still use it.
CloseHangsUpToNil ==
  /\ CallerIs("hangup")
  /\ open' = open \ {conn}
  /\ conn' = Nil
  /\ caller' = "idle"
  /\ UNCHANGED <<dials, session, stopping, goroutines, crashed, overtaken>>

\* Mutant: Close cancels and leaves the connection to the others.
CloseHangsUpNot ==
  /\ CallerIs("hangup")
  /\ caller' = "idle"
  /\ UNCHANGED <<sockets, session, stopping, goroutines, crashed, overtaken>>

CloseHangsUp ==
  /\ CallerIs("hangup")
  /\ Dereferences(caller' = "idle" /\ UNCHANGED goroutines)
  /\ open' = open \ {conn}
  /\ UNCHANGED <<conn, dials, session, stopping, overtaken>>

Caller ==
  \/ Connect \/ StartKeepAlive \/ StopKeepAlive \/ AutoReconnect
  \/ ReadPacket \/ ReadPacketSetsDeadline \/ ReadPacketChecks \/ ReadPacketReads
  \/ Close \/ CloseChecks \/ CloseHangsUp
-----------------------------------------------------------------------------
(* The loops: select, and what ends it.                                    *)

\* The operands of a select are evaluated when it is entered: the keep-alive
\* loop reads c.keepAliveStop anew in every round.
EntersSelect(g) ==
  /\ In(g, "top")
  /\ Goes(g, "select")
  /\ listens' = [listens EXCEPT ![g] = keepAliveStop]
  /\ UNCHANGED <<caller, sockets, session, stopping, task, again, attempt,
                 crashed, overtaken>>

\* A tick may win against a stop that is ready as well.
KeepAliveTicks(g) ==
  /\ In(g, "select")
  /\ Goes(g, "send")
  /\ task' = [task EXCEPT ![g] = "keepalive"]
  /\ again' = [again EXCEPT ![g] = FALSE]
  /\ overtaken' = (overtaken \/ listens[g] \in closed)
  /\ UNCHANGED <<caller, sockets, session, stopping, listens, attempt, crashed>>

SeesStop(g) ==
  /\ In(g, "select") /\ listens[g] \in closed
  /\ Goes(g, "done")
  /\ UNCHANGED <<caller, sockets, session, stopping, listens, task, again,
                 attempt, crashed, overtaken>>

\* Mutant: the keep-alive loop does not watch c.ctx.
SeesCancelNot(g) ==
  /\ In(g, "select") /\ cancelled /\ g = Recoverer
  /\ Goes(g, "done")
  /\ UNCHANGED <<caller, sockets, session, stopping, listens, task, again,
                 attempt, crashed, overtaken>>

SeesCancel(g) ==
  /\ In(g, "select") /\ cancelled
  /\ Goes(g, "done")
  /\ UNCHANGED <<caller, sockets, session, stopping, listens, task, again,
                 attempt, crashed, overtaken>>

\* HealthCheck answers at once when there is no connection; RecoverSession
\* gives up at once when there is no session.
RecovererTicks ==
  /\ In(Recoverer, "select")
  /\ IF conn # Nil
     THEN Goes(Recoverer, "send") /\ task' = [task EXCEPT ![Recoverer] = "health"]
     ELSE session /\ Goes(Recoverer, "hangup") /\ UNCHANGED task
  /\ UNCHANGED <<caller, sockets, session, stopping, listens, again, attempt,
                 crashed, overtaken>>
-----------------------------------------------------------------------------
(* A request: sendRequest, then readResponse, each on the c.conn of the     *)
(* moment; the answer, an error or a timeout ends it.                      *)

Sends(g) ==
  /\ In(g, "send")
  /\ Dereferences(Goes(g, "read") /\ UNCHANGED <<caller, listens, task, again, attempt>>)
  /\ UNCHANGED <<sockets, session, stopping, overtaken>>

Reads(g) ==
  /\ In(g, "read")
  /\ Dereferences(Goes(g, "await") /\ UNCHANGED <<caller, listens, task, again, attempt>>)
  /\ UNCHANGED <<sockets, session, stopping, overtaken>>

\* Options and GetParameter repeat a request once when it is answered by 401.
AnsweredUnauthorized(g) ==
  /\ In(g, "await") /\ task[g] = "keepalive" /\ ~again[g]
  /\ Goes(g, "send")
  /\ again' = [again EXCEPT ![g] = TRUE]
  /\ UNCHANGED <<caller, sockets, session, stopping, listens, task, attempt,
                 crashed, overtaken>>

\* A failed health check of a client with a session leads to recovery.
\* Otherwise the loop goes on whatever the request came to: neither the
\* keep-alive loop nor AutoReconnect does more about a failure than log it.
Ends(g, ok) ==
  /\ IF task[g] = "health" /\ ~ok /\ session THEN Goes(g, "hangup")
     ELSE Goes(g, IF g = Recoverer THEN "select" ELSE "top")
  /\ task' = [task EXCEPT ![g] = "none"]
  /\ UNCHANGED <<caller, sockets, session, stopping, listens, again, attempt,
                 crashed, overtaken>>

SendFails(g) == In(g, "send") /\ conn # Nil /\ Ends(g, FALSE)
Answered(g)  == In(g, "await") /\ \E ok \in BOOLEAN : Ends(g, ok)
-----------------------------------------------------------------------------
(* RecoverSession: Reconnect, then PLAY on the new connection.             *)

\* Mutant: the old connection is forgotten and not closed.
ReconnectLeaves ==
  /\ In(Recoverer, "hangup")
  /\ conn' = Nil
  /\ attempt' = 0
  /\ Goes(Recoverer, "dial")
  /\ UNCHANGED <<caller, open, dials, session, stopping, listens, task, again,
                 crashed, overtaken>>

\* Between this and the next successful dial c.conn is nil.
Reconnect ==
  /\ In(Recoverer, "hangup")
  /\ open' = open \ {conn}
  /\ conn' = Nil
  /\ attempt' = 0
  /\ Goes(Recoverer, "dial")
  /\ UNCHANGED <<caller, dials, session, stopping, listens, task, again,
                 crashed, overtaken>>

DialSucceeds ==
  /\ In(Recoverer, "dial")
  /\ Dialled
  /\ Goes(Recoverer, "send")
  /\ task' = [task EXCEPT ![Recoverer] = "play"]
  /\ UNCHANGED <<caller, session, stopping, listens, again, attempt, crashed,
                 overtaken>>

\* The loop of retryWithBackoff; the last failure leaves c.conn nil.
DialFails ==
  /\ In(Recoverer, "dial")
  /\ attempt' = attempt + 1
  /\ IF attempt + 1 < MaxRetries
     THEN UNCHANGED at
     ELSE Goes(Recoverer, "select")
  /\ UNCHANGED <<caller, sockets, session, stopping, listens, task, again,
                 crashed, overtaken>>
-----------------------------------------------------------------------------
Request(g) ==
  \/ Sends(g) \/ SendFails(g) \/ Reads(g)
  \/ AnsweredUnauthorized(g) \/ Answered(g)

Recovery == Reconnect \/ DialSucceeds \/ DialFails

Next ==
  \/ Caller
  \/ \E g \in KeepAlive : EntersSelect(g) \/ KeepAliveTicks(g) \/ SeesStop(g)
  \/ RecovererTicks
  \/ Recovery
  \/ \E g \in Goroutine : SeesCancel(g) \/ Request(g)

Spec == Init /\ [][Next]_vars

\* Goroutines that can run do run, a request ends at its deadline at the
\* latest, and a Close that has begun is carried on.  A select chooses at
\* random among the cases that are ready: one that is ready time and again is
\* chosen at last.  No ticker is obliged to fire.
FairSpec ==
  /\ Spec
  /\ \A g \in KeepAlive : WF_vars(EntersSelect(g)) /\ SF_vars(SeesStop(g))
  /\ \A g \in Goroutine : WF_vars(Request(g)) /\ SF_vars(SeesCancel(g))
  /\ WF_vars(Recovery)
  /\ WF_vars(CloseChecks \/ CloseHangsUp)
-----------------------------------------------------------------------------
(* Properties.                                                             *)

Active(g) == at[g] \notin {"off", "done"}

TypeOK ==
  /\ caller \in {"idle", "deadline", "checking", "reading", "closing",
                 "hangup"}
  /\ conn \in 0 .. dials /\ open \subseteq 1 .. dials /\ dials \in 0 .. MaxDials
  /\ session \in BOOLEAN
  /\ keepAliveStop \in 0 .. starts /\ closed \subseteq 1 .. starts
  /\ starts \in 0 .. MaxStarts /\ cancelled \in BOOLEAN
  /\ at \in [Goroutine -> {"off", "top", "select", "send", "read", "await",
                           "hangup", "dial", "done"}]
  /\ listens \in [KeepAlive -> 0 .. starts]
  /\ task \in [Goroutine -> {"none", "keepalive", "health", "play"}]
  /\ again \in [Goroutine -> BOOLEAN]
  /\ attempt \in 0 .. MaxRetries
  /\ crashed \in BOOLEAN /\ overtaken \in BOOLEAN

\* However often the recoverer reconnects, the client never holds two sockets,
\* and the one it holds is the one c.conn names (recovery.go Reconnect).
OneSocket == open \subseteq {conn} \ {Nil}

\* Unless a StopKeepAlive came while the goroutine was busy (or a tick beat
\* it), exactly one goroutine that was not told to stop runs when
\* IsKeepAliveRunning says so, and none when it does not
\* (keepalive.go StartKeepAlive, StopKeepAlive).
RunningIsTrue ==
  LET unstopped == {g \in KeepAlive : Active(g) /\ listens[g] \notin closed}
  IN  ~overtaken /\ ~cancelled =>
        Cardinality(unstopped) = IF keepAliveStop # Nil THEN 1 ELSE 0

\* Without AutoReconnect, a client that connected first never panics: nothing
\* but the recoverer takes c.conn away from the goroutines that use it.
PanicNeedsReconnect == crashed => dials = 0 \/ at[Recoverer] # "off"

\* Without AutoReconnect nothing stays open: once Close was called and the
\* goroutines have ended, a socket can be left only by a recoverer that went on
\* dialling after Close had looked at c.conn (client.go Close).
LeakNeedsReconnect ==
  cancelled /\ caller = "idle" /\ (\A g \in Goroutine : ~Active(g)) =>
    open = {} \/ at[Recoverer] = "done"

\* Close ends every goroutine of the client, busy or not, the ones StopKeepAlive
\* missed included: they all watch c.ctx.
CloseEndsGoroutines ==
  cancelled ~> (\A g \in Goroutine : ~Active(g)) \/ crashed
=============================================================================
