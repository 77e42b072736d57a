----------------------- MODULE ClientLifecycleProofs -----------------------
(***************************************************************************)
(* What holds of the client's goroutines for any number of keep-alive      *)
(* goroutines, sockets and retries: types, one socket at a time, where a   *)
(* nil connection can come from, and what Close leaves open.               *)
(***************************************************************************)
EXTENDS ClientLifecycle, FiniteSetTheorems, TLAPS

\* While the recoverer dials, c.conn is nil and a retry is left.
Dialling == at[Recoverer] = "dial" => conn = Nil /\ attempt < MaxRetries

\* A client that has dialled loses its connection to the recoverer only.
NilNeedsReconnect == conn = Nil => dials = 0 \/ at[Recoverer] # "off"

IInv == TypeOK /\ OneSocket /\ Dialling /\ NilNeedsReconnect /\ PanicNeedsReconnect

\* The initial state has the types and holds nothing.
LEMMA InitInv == Init => IInv
<1> SUFFICES ASSUME Init PROVE IInv
  OBVIOUS
<1> USE LifecycleAssumption DEF Init, Goroutine, KeepAlive, Recoverer, Nil
<1>1. TypeOK
  <2>1. at \in [Goroutine -> {"off"}] /\ listens \in [KeepAlive -> {0}]
        /\ task \in [Goroutine -> {"none"}] /\ again \in [Goroutine -> {FALSE}]
    OBVIOUS
  <2>2. closed \subseteq 1 .. starts /\ open \subseteq 1 .. dials
    OBVIOUS
  <2>3. overtaken \in BOOLEAN /\ crashed \in BOOLEAN /\ cancelled \in BOOLEAN
        /\ session \in BOOLEAN /\ again \in [Goroutine -> BOOLEAN]
    BY <2>1, Zenon
  <2> QED BY <2>1, <2>2, <2>3 DEF TypeOK
<1>2. OneSocket /\ Dialling /\ NilNeedsReconnect /\ PanicNeedsReconnect
  BY DEF OneSocket, Dialling, NilNeedsReconnect, PanicNeedsReconnect
<1> QED BY <1>1, <1>2 DEF IInv

\* Closing the stop channel keeps the types of what it changes.
LEMMA StopsType ==
  ASSUME TypeOK, StopsKeepAlive
  PROVE  /\ keepAliveStop' \in 0 .. starts /\ closed' \subseteq 1 .. starts
         /\ overtaken' \in BOOLEAN
<1>1. overtaken' \in BOOLEAN
  BY Zenon DEF TypeOK, StopsKeepAlive
<1>2. CASE keepAliveStop = Nil
  BY <1>1, <1>2 DEF TypeOK, StopsKeepAlive
<1>3. CASE keepAliveStop # Nil
  <2>1. closed' = closed \cup {keepAliveStop} /\ keepAliveStop' = Nil
    BY <1>3 DEF StopsKeepAlive
  <2> QED BY <1>1, <1>3, <2>1 DEF TypeOK, Nil
<1> QED BY <1>2, <1>3

\* Every step keeps the types.
LEMMA TypeStep == IInv /\ [Next]_vars => TypeOK'
<1> SUFFICES ASSUME IInv, [Next]_vars PROVE TypeOK'
  OBVIOUS
<1> USE LifecycleAssumption DEF TypeOK, IInv, Goroutine, KeepAlive, Recoverer, Nil,
    sockets, stopping, goroutines, CallerIs, In, Goes
<1>1. CASE Connect
  BY <1>1 DEF Connect, Dialled
<1>2. CASE StartKeepAlive
  BY <1>2 DEF StartKeepAlive
<1>3. CASE StopKeepAlive
  BY <1>3, StopsType DEF StopKeepAlive
<1>4. CASE AutoReconnect
  BY <1>4 DEF AutoReconnect
<1>5. CASE ReadPacket
  BY <1>5 DEF ReadPacket
<1>6. CASE ReadPacketSetsDeadline
  BY <1>6 DEF ReadPacketSetsDeadline, Dereferences
<1>7. CASE ReadPacketChecks \/ ReadPacketReads
  BY <1>7 DEF ReadPacketChecks, ReadPacketReads, Dereferences
<1>8. CASE Close
  BY <1>8, StopsType DEF Close
<1>9. CASE CloseChecks \/ CloseHangsUp
  BY <1>9 DEF CloseChecks, CloseHangsUp, Dereferences
<1>10. CASE \E g \in KeepAlive : EntersSelect(g)
  BY <1>10 DEF EntersSelect
<1>11. CASE \E g \in KeepAlive : KeepAliveTicks(g)
  BY <1>11 DEF KeepAliveTicks
<1>12. CASE \E g \in KeepAlive : SeesStop(g)
  BY <1>12 DEF SeesStop
<1>13. CASE \E g \in Goroutine : SeesCancel(g)
  BY <1>13 DEF SeesCancel
<1>14. CASE \E g \in Goroutine : Sends(g)
  BY <1>14 DEF Sends, Dereferences
<1>15. CASE \E g \in Goroutine : SendFails(g)
  BY <1>15 DEF SendFails, Ends
<1>16. CASE \E g \in Goroutine : Reads(g)
  BY <1>16 DEF Reads, Dereferences
<1>17. CASE \E g \in Goroutine : AnsweredUnauthorized(g)
  BY <1>17 DEF AnsweredUnauthorized
<1>18. CASE \E g \in Goroutine : Answered(g)
  BY <1>18 DEF Answered, Ends
<1>19. CASE RecovererTicks
  BY <1>19 DEF RecovererTicks
<1>20. CASE Reconnect
  BY <1>20 DEF Reconnect
<1>21. CASE DialSucceeds
  BY <1>21 DEF DialSucceeds, Dialled
<1>22. CASE DialFails
  BY <1>22 DEF DialFails, Dialling
<1>23. CASE UNCHANGED vars
  BY <1>23 DEF vars
<1> QED
  BY <1>1, <1>2, <1>3, <1>4, <1>5, <1>6, <1>7, <1>8, <1>9, <1>10, <1>11, <1>12,
     <1>13, <1>14, <1>15, <1>16, <1>17, <1>18, <1>19, <1>20, <1>21, <1>22, <1>23
  DEF Next, Caller, Request, Recovery

\* Every step keeps the sockets, the recoverer's position and the panics tied.
LEMMA TiedStep ==
  IInv /\ [Next]_vars =>
    OneSocket' /\ Dialling' /\ NilNeedsReconnect' /\ PanicNeedsReconnect'
<1> SUFFICES ASSUME IInv, [Next]_vars
    PROVE OneSocket' /\ Dialling' /\ NilNeedsReconnect' /\ PanicNeedsReconnect'
  OBVIOUS
<1> USE LifecycleAssumption DEF TypeOK, IInv, OneSocket, Dialling, NilNeedsReconnect, PanicNeedsReconnect,
    Goroutine, KeepAlive, Recoverer, Nil,
    sockets, stopping, goroutines, CallerIs, In, Goes
<1>1. CASE Connect
  BY <1>1 DEF Connect, Dialled
<1>2. CASE StartKeepAlive
  BY <1>2 DEF StartKeepAlive
<1>3. CASE StopKeepAlive
  BY <1>3 DEF StopKeepAlive, StopsKeepAlive
<1>4. CASE AutoReconnect
  BY <1>4 DEF AutoReconnect
<1>5. CASE ReadPacket
  BY <1>5 DEF ReadPacket
<1>6. CASE ReadPacketSetsDeadline
  BY <1>6 DEF ReadPacketSetsDeadline, Dereferences
<1>7. CASE ReadPacketChecks \/ ReadPacketReads
  BY <1>7 DEF ReadPacketChecks, ReadPacketReads, Dereferences
<1>8. CASE Close
  BY <1>8 DEF Close, StopsKeepAlive
<1>9. CASE CloseChecks \/ CloseHangsUp
  BY <1>9 DEF CloseChecks, CloseHangsUp, Dereferences
<1>10. CASE \E g \in KeepAlive : EntersSelect(g)
  BY <1>10 DEF EntersSelect
<1>11. CASE \E g \in KeepAlive : KeepAliveTicks(g)
  BY <1>11 DEF KeepAliveTicks
<1>12. CASE \E g \in KeepAlive : SeesStop(g)
  BY <1>12 DEF SeesStop
<1>13. CASE \E g \in Goroutine : SeesCancel(g)
  BY <1>13 DEF SeesCancel
<1>14. CASE \E g \in Goroutine : Sends(g)
  BY <1>14 DEF Sends, Dereferences
<1>15. CASE \E g \in Goroutine : SendFails(g)
  BY <1>15 DEF SendFails, Ends
<1>16. CASE \E g \in Goroutine : Reads(g)
  BY <1>16 DEF Reads, Dereferences
<1>17. CASE \E g \in Goroutine : AnsweredUnauthorized(g)
  BY <1>17 DEF AnsweredUnauthorized
<1>18. CASE \E g \in Goroutine : Answered(g)
  BY <1>18 DEF Answered, Ends
<1>19. CASE RecovererTicks
  BY <1>19 DEF RecovererTicks
<1>20. CASE Reconnect
  BY <1>20 DEF Reconnect
<1>21. CASE DialSucceeds
  BY <1>21 DEF DialSucceeds, Dialled
<1>22. CASE DialFails
  BY <1>22 DEF DialFails
<1>23. CASE UNCHANGED vars
  BY <1>23 DEF vars
<1> QED
  BY <1>1, <1>2, <1>3, <1>4, <1>5, <1>6, <1>7, <1>8, <1>9, <1>10, <1>11, <1>12,
     <1>13, <1>14, <1>15, <1>16, <1>17, <1>18, <1>19, <1>20, <1>21, <1>22, <1>23
  DEF Next, Caller, Request, Recovery

\* The inductive invariant of every behaviour.
LEMMA Invariance == Spec => []IInv
<1>1. IInv /\ [Next]_vars => IInv'
  BY TypeStep, TiedStep DEF IInv
<1> QED BY InitInv, <1>1, PTL DEF Spec

\* The types hold (client.go, keepalive.go, recovery.go).
THEOREM LifecycleTypes == Spec => []TypeOK
<1>1. IInv => TypeOK
  BY DEF IInv
<1> QED BY Invariance, <1>1, PTL

\* However often the recoverer reconnects, the client never holds two sockets
\* (recovery.go Reconnect).
THEOREM LifecycleOneSocket == Spec => []OneSocket
<1>1. IInv => OneSocket
  BY DEF IInv
<1> QED BY Invariance, <1>1, PTL

\* A client that connected first and does not use AutoReconnect never panics,
\* whatever its keep-alive goroutines do (client.go sendRequest, readResponse,
\* ReadPacket).
THEOREM LifecyclePanics == Spec => []PanicNeedsReconnect
<1>1. IInv => PanicNeedsReconnect
  BY DEF IInv
<1> QED BY Invariance, <1>1, PTL

-----------------------------------------------------------------------------
(* IsKeepAliveRunning.  Until a stop is overtaken, a goroutine listens to   *)
(* its own channel only, and the one the client's channel belongs to is the *)
(* only one that was not told to stop.                                      *)

Fresh ==
  /\ \A g \in KeepAlive : g > starts => at[g] = "off"
  /\ keepAliveStop \notin closed

OwnChannel ==
  ~overtaken =>
    \A g \in KeepAlive :
      /\ listens[g] \in {Nil, g}
      /\ Active(g) /\ listens[g] \in closed => at[g] = "select"
      /\ Active(g) /\ listens[g] \notin closed => g = keepAliveStop

Alive ==
  ~overtaken /\ ~cancelled /\ keepAliveStop # Nil => Active(keepAliveStop)

RunInv == TypeOK /\ Fresh /\ OwnChannel /\ Alive

\* Initially no goroutine runs.
LEMMA InitRun == Init => Fresh /\ OwnChannel /\ Alive
  BY LifecycleAssumption
  DEF Init, Fresh, OwnChannel, Alive, Active, Goroutine, KeepAlive, Recoverer, Nil

\* A step that touches no channel and neither starts nor ends a keep-alive
\* goroutine, nor takes one out of its select.
OnTheMove ==
  /\ UNCHANGED <<stopping, listens, overtaken>>
  /\ \A k \in KeepAlive : /\ at[k] = "off" => at'[k] = "off"
                          /\ Active(k) <=> Active(k)'
                          /\ at[k] = "select" => at'[k] = "select"

LEMMA OnTheMoveKeeps == RunInv /\ OnTheMove => Fresh' /\ OwnChannel' /\ Alive'
<1> SUFFICES ASSUME RunInv, OnTheMove PROVE Fresh' /\ OwnChannel' /\ Alive'
  OBVIOUS
<1> USE DEF RunInv, OnTheMove, stopping
<1>1. Fresh'
  BY DEF Fresh
<1>2. OwnChannel'
  BY DEF OwnChannel
<1>3. Alive'
  <2> SUFFICES ASSUME ~overtaken, ~cancelled, keepAliveStop # Nil
               PROVE Active(keepAliveStop)'
    BY DEF Alive
  <2>1. keepAliveStop \in KeepAlive
    BY LifecycleAssumption DEF TypeOK, KeepAlive, Nil
  <2> QED BY <2>1 DEF Alive
<1> QED BY <1>1, <1>2, <1>3

\* Every step keeps who listens to what.
LEMMA RunStep == RunInv /\ [Next]_vars => Fresh' /\ OwnChannel' /\ Alive'
<1> SUFFICES ASSUME RunInv, [Next]_vars PROVE Fresh' /\ OwnChannel' /\ Alive'
  OBVIOUS
<1> USE LifecycleAssumption DEF TypeOK, RunInv, Fresh, OwnChannel, Alive, Active,
    Goroutine, KeepAlive, Recoverer, Nil, sockets, stopping, goroutines, CallerIs,
    In, Goes
<1>1. CASE Connect
  BY <1>1 DEF Connect, Dialled
<1>2. CASE StartKeepAlive
  BY <1>2 DEF StartKeepAlive
<1>3. CASE StopKeepAlive
  <2>1. UNCHANGED <<starts, cancelled, at, listens>> /\ keepAliveStop # Nil
        /\ keepAliveStop' = Nil /\ closed' = closed \cup {keepAliveStop}
    BY <1>3 DEF StopKeepAlive, StopsKeepAlive
  <2>2. ~overtaken' => ~overtaken /\ \A g \in KeepAlive : ~Misses(g)
    BY <1>3 DEF StopKeepAlive, StopsKeepAlive
  <2>3. Fresh'
    BY <2>1
  <2>4. OwnChannel'
    BY <2>1, <2>2 DEF Misses
  <2>5. Alive'
    BY <2>1
  <2> QED BY <2>3, <2>4, <2>5
<1>4. CASE AutoReconnect
  BY <1>4 DEF AutoReconnect
<1>5. CASE ReadPacket
  BY <1>5 DEF ReadPacket
<1>6. CASE ReadPacketSetsDeadline
  BY <1>6 DEF ReadPacketSetsDeadline, Dereferences
<1>7. CASE ReadPacketChecks \/ ReadPacketReads
  BY <1>7 DEF ReadPacketChecks, ReadPacketReads, Dereferences
<1>8. CASE Close
  BY <1>8, StopsType DEF Close, StopsKeepAlive, Misses
<1>9. CASE CloseChecks \/ CloseHangsUp
  BY <1>9 DEF CloseChecks, CloseHangsUp, Dereferences
<1>10. CASE \E g \in KeepAlive : EntersSelect(g)
  BY <1>10 DEF EntersSelect
<1>11. CASE \E g \in KeepAlive : KeepAliveTicks(g)
  <2> PICK g \in KeepAlive : KeepAliveTicks(g)
    BY <1>11
  <2>1. UNCHANGED <<starts, keepAliveStop, closed, cancelled, listens>>
        /\ at[g] = "select" /\ at' = [at EXCEPT ![g] = "send"]
    BY DEF KeepAliveTicks
  <2>2. ~overtaken' => ~overtaken /\ listens[g] \notin closed
    BY DEF KeepAliveTicks
  <2>3. \A k \in KeepAlive : k # g => at'[k] = at[k]
    BY <2>1
  <2>4. at'[g] = "send"
    BY <2>1
  <2>5. Fresh'
    BY <2>1, <2>3, <2>4
  <2>6. OwnChannel'
    BY <2>1, <2>2, <2>3, <2>4
  <2>7. Alive'
    BY <2>1, <2>2, <2>3, <2>4
  <2> QED BY <2>5, <2>6, <2>7
<1>12. CASE \E g \in KeepAlive : SeesStop(g)
  BY <1>12 DEF SeesStop
<1>13. CASE \E g \in Goroutine : SeesCancel(g)
  BY <1>13 DEF SeesCancel
<1>14. CASE \E g \in Goroutine : Sends(g)
  <2>1. OnTheMove
    <3> PICK g \in Goroutine : Sends(g)
      BY <1>14
    <3>1. at[g] = "send" /\ (UNCHANGED at \/ at' = [at EXCEPT ![g] = "read"])
      BY DEF Sends, Dereferences
    <3>2. UNCHANGED <<stopping, listens, overtaken>>
      BY DEF Sends, Dereferences
    <3> QED BY <3>1, <3>2 DEF OnTheMove
  <2> QED BY <2>1, OnTheMoveKeeps
<1>15. CASE \E g \in Goroutine : SendFails(g)
  <2>1. OnTheMove
    <3> PICK g \in Goroutine : SendFails(g)
      BY <1>15
    <3>1. at[g] = "send" /\ Ends(g, FALSE)
      BY DEF SendFails
    <3>2. PICK where \in {"hangup", "select", "top"} : at' = [at EXCEPT ![g] = where]
      BY <3>1 DEF Ends
    <3>3. UNCHANGED <<stopping, listens, overtaken>>
      BY <3>1 DEF Ends
    <3> QED BY <3>1, <3>2, <3>3 DEF OnTheMove
  <2> QED BY <2>1, OnTheMoveKeeps
<1>16. CASE \E g \in Goroutine : Reads(g)
  <2>1. OnTheMove
    <3> PICK g \in Goroutine : Reads(g)
      BY <1>16
    <3>1. at[g] = "read" /\ (UNCHANGED at \/ at' = [at EXCEPT ![g] = "await"])
      BY DEF Reads, Dereferences
    <3>2. UNCHANGED <<stopping, listens, overtaken>>
      BY DEF Reads, Dereferences
    <3> QED BY <3>1, <3>2 DEF OnTheMove
  <2> QED BY <2>1, OnTheMoveKeeps
<1>17. CASE \E g \in Goroutine : AnsweredUnauthorized(g)
  <2>1. OnTheMove
    <3> PICK g \in Goroutine : AnsweredUnauthorized(g)
      BY <1>17
    <3>1. at[g] = "await" /\ at' = [at EXCEPT ![g] = "send"]
      BY DEF AnsweredUnauthorized
    <3>2. UNCHANGED <<stopping, listens, overtaken>>
      BY DEF AnsweredUnauthorized
    <3> QED BY <3>1, <3>2 DEF OnTheMove
  <2> QED BY <2>1, OnTheMoveKeeps
<1>18. CASE \E g \in Goroutine : Answered(g)
  <2>1. OnTheMove
    <3> PICK g \in Goroutine : Answered(g)
      BY <1>18
    <3>1. at[g] = "await" /\ \E ok \in BOOLEAN : Ends(g, ok)
      BY DEF Answered
    <3>2. PICK where \in {"hangup", "select", "top"} : at' = [at EXCEPT ![g] = where]
      BY <3>1 DEF Ends
    <3>3. UNCHANGED <<stopping, listens, overtaken>>
      BY <3>1 DEF Ends
    <3> QED BY <3>1, <3>2, <3>3 DEF OnTheMove
  <2> QED BY <2>1, OnTheMoveKeeps
<1>19. CASE RecovererTicks
  <2>1. OnTheMove
    BY <1>19 DEF OnTheMove, RecovererTicks
  <2> QED BY <2>1, OnTheMoveKeeps
<1>20. CASE Reconnect
  <2>1. OnTheMove
    BY <1>20 DEF OnTheMove, Reconnect
  <2> QED BY <2>1, OnTheMoveKeeps
<1>21. CASE DialSucceeds
  <2>1. OnTheMove
    BY <1>21 DEF OnTheMove, DialSucceeds, Dialled
  <2> QED BY <2>1, OnTheMoveKeeps
<1>22. CASE DialFails
  <2>1. OnTheMove
    BY <1>22 DEF OnTheMove, DialFails
  <2> QED BY <2>1, OnTheMoveKeeps
<1>23. CASE UNCHANGED vars
  BY <1>23 DEF vars
<1> QED
  BY <1>1, <1>2, <1>3, <1>4, <1>5, <1>6, <1>7, <1>8, <1>9, <1>10, <1>11, <1>12,
     <1>13, <1>14, <1>15, <1>16, <1>17, <1>18, <1>19, <1>20, <1>21, <1>22, <1>23
  DEF Next, Caller, Request, Recovery

\* The inductive invariant behind IsKeepAliveRunning.
LEMMA RunInvariance == Spec => []RunInv
<1>1. Init => RunInv
  BY InitInv, InitRun DEF IInv, RunInv
<1>2. RunInv /\ TypeOK' /\ [Next]_vars => RunInv'
  BY RunStep DEF RunInv
<1> QED BY <1>1, <1>2, LifecycleTypes, PTL DEF Spec

\* Unless a StopKeepAlive missed its goroutine, exactly one goroutine that was
\* not told to stop runs when IsKeepAliveRunning says so, none when it does not
\* (keepalive.go).
THEOREM LifecycleRunning == Spec => []RunningIsTrue
<1>1. ASSUME RunInv PROVE RunningIsTrue
  <2> DEFINE unstopped == {g \in KeepAlive : Active(g) /\ listens[g] \notin closed}
  <2> SUFFICES ASSUME ~overtaken, ~cancelled
               PROVE Cardinality(unstopped) = IF keepAliveStop # Nil THEN 1 ELSE 0
    BY DEF RunningIsTrue
  <2>1. keepAliveStop \in Nat /\ Nil \notin closed
    BY <1>1, LifecycleAssumption DEF RunInv, TypeOK, Nil
  <2>2. CASE keepAliveStop = Nil
    <3>1. unstopped = {}
      BY <1>1, <2>2, LifecycleAssumption DEF RunInv, OwnChannel, KeepAlive, Nil
    <3> QED BY <2>2, <3>1, FS_EmptySet
  <2>3. CASE keepAliveStop # Nil
    <3>1. keepAliveStop \in KeepAlive
      BY <1>1, <2>3, LifecycleAssumption DEF RunInv, TypeOK, KeepAlive, Nil
    <3>2. keepAliveStop \in unstopped
      BY <1>1, <2>1, <2>3, <3>1 DEF RunInv, OwnChannel, Alive, Fresh
    <3>3. unstopped = {keepAliveStop}
      BY <1>1, <3>2 DEF RunInv, OwnChannel
    <3> QED BY <2>3, <3>3, FS_Singleton
  <2> QED BY <2>2, <2>3
<1> QED BY RunInvariance, <1>1, PTL
-----------------------------------------------------------------------------
(* What Close leaves open.                                                 *)

\* Close closes the one socket there is, unless a recoverer may dial another.
HungUp ==
  cancelled /\ at[Recoverer] = "off" => caller \in {"closing", "hangup"} \/ open = {}

\* Every step keeps it: without a recoverer, c.conn names the socket.
LEMMA HungUpStep == IInv /\ HungUp /\ [Next]_vars => HungUp'
<1> SUFFICES ASSUME IInv, HungUp, [Next]_vars, cancelled', at'[Recoverer] = "off"
             PROVE  caller' \in {"closing", "hangup"} \/ open' = {}
  BY DEF HungUp
<1> USE LifecycleAssumption DEF TypeOK, IInv, HungUp, OneSocket, NilNeedsReconnect,
    Goroutine, KeepAlive, Recoverer, Nil, sockets, stopping, goroutines, CallerIs, In, Goes
<1>1. CASE Connect
  <2>1. ~cancelled  BY <1>1 DEF Connect
  <2>2. cancelled' = cancelled  BY <1>1 DEF Connect
  <2> QED BY <2>1, <2>2, Zenon
<1>2. CASE StartKeepAlive \/ StopKeepAlive
  BY <1>2 DEF StartKeepAlive, StopKeepAlive
<1>3. CASE AutoReconnect
  BY <1>3 DEF AutoReconnect
<1>4. CASE ReadPacket \/ ReadPacketSetsDeadline \/ ReadPacketChecks \/ ReadPacketReads
  BY <1>4 DEF ReadPacket, ReadPacketSetsDeadline, ReadPacketChecks, ReadPacketReads,
              Dereferences
<1>5. CASE Close
  BY <1>5 DEF Close
<1>6. CASE CloseChecks
  BY <1>6 DEF CloseChecks
<1>7. CASE CloseHangsUp
  BY <1>7 DEF CloseHangsUp, Dereferences
<1>8. CASE \E g \in KeepAlive : EntersSelect(g) \/ KeepAliveTicks(g) \/ SeesStop(g)
  BY <1>8 DEF EntersSelect, KeepAliveTicks, SeesStop
<1>9. CASE \E g \in Goroutine : SeesCancel(g)
  BY <1>9 DEF SeesCancel
<1>10. CASE \E g \in Goroutine : Sends(g) \/ Reads(g)
  BY <1>10 DEF Sends, Reads, Dereferences
<1>11. CASE \E g \in Goroutine : SendFails(g) \/ Answered(g)
  <2> PICK g \in Goroutine, ok \in BOOLEAN : Ends(g, ok)
    BY <1>11 DEF SendFails, Answered
  <2>1. PICK where \in {"hangup", "select", "top"} : at' = [at EXCEPT ![g] = where]
    BY DEF Ends
  <2>2. UNCHANGED <<caller, cancelled, open>>
    BY DEF Ends
  <2> QED BY <2>1, <2>2
<1>12. CASE \E g \in Goroutine : AnsweredUnauthorized(g)
  BY <1>12 DEF AnsweredUnauthorized
<1>13. CASE RecovererTicks \/ Reconnect \/ DialSucceeds \/ DialFails
  BY <1>13 DEF RecovererTicks, Reconnect, DialSucceeds, DialFails, Dialling
<1>14. CASE UNCHANGED vars
  BY <1>14 DEF vars
<1> QED
  BY <1>1, <1>2, <1>3, <1>4, <1>5, <1>6, <1>7, <1>8, <1>9, <1>10, <1>11, <1>12, <1>13, <1>14
  DEF Next, Caller, Request, Recovery

\* Without AutoReconnect nothing stays open once Close was called and the
\* goroutines have ended (client.go Close): a socket can be left only by a
\* recoverer that went on dialling.
THEOREM LifecycleLeaks == Spec => []LeakNeedsReconnect
<1>1. Init => HungUp
  BY DEF Init, HungUp
<1>2. HungUp => LeakNeedsReconnect
  BY DEF HungUp, LeakNeedsReconnect, Active, Goroutine
<1> QED BY <1>1, <1>2, HungUpStep, Invariance, PTL DEF Spec
=============================================================================
