---------------------------- MODULE SessionClock ----------------------------
(***************************************************************************)
(* The keep-alive of pkg/rtsp/keepalive.go against the session timeout of  *)
(* the server, in discrete time.  The interval is computed once, when      *)
(* StartKeepAlive runs, from the timeout of the SETUP before it.  The      *)
(* server forgets a session it has not heard of for its timeout.  A        *)
(* keep-alive may get lost.  The client never learns that a session has    *)
(* ended (the goroutine ignores the error), so a run ends there.           *)
(***************************************************************************)
EXTENDS Integers

CONSTANTS
  Timeouts,          \* what a Session header may announce; 0 is "nothing"
  MinInterval,       \* 10 s in the code
  MaxInterval,       \* 30 s
  DefaultInterval,   \* 30 s, when no timeout is known
  ServerDefault,     \* 60 s: a server's timeout when it announces none, and
                     \* what NewClient assumes before SETUP
  MaxSetups,         \* bound: answers to SETUP
  MaxLost            \* bound: keep-alives lost in a row

ASSUME ClockAssumption ==
  /\ Timeouts \subseteq Nat
  /\ MinInterval \in Nat \ {0} /\ MaxInterval \in Nat
  /\ MinInterval <= MaxInterval
  /\ DefaultInterval \in Nat \ {0}
  /\ ServerDefault \in Nat /\ DefaultInterval < ServerDefault
  /\ MaxSetups \in Nat /\ MaxLost \in Nat

VARIABLES
  sessionTimeout,    \* c.sessionTimeout
  interval,          \* of the ticker; 0 while no goroutine runs
  untilTick,         \* time to the next tick
  session,           \* the server's: "none", "live" or "expired"
  silence,           \* time since the server last heard of the session
  gap,               \* history: what a late start and lost keep-alives add
  setups, lost       \* bounds

vars == <<sessionTimeout, interval, untilTick, session, silence, gap, setups,
          lost>>

\* Mutant: the interval is the timeout itself, and has no upper bound.
calculateKeepAliveIntervalUncapped(timeout) ==
  IF timeout = 0 THEN DefaultInterval
  ELSE IF timeout \div 2 < MinInterval THEN MinInterval
  ELSE timeout

calculateKeepAliveInterval(timeout) ==
  LET half == timeout \div 2
  IN  IF timeout = 0 THEN DefaultInterval
      ELSE IF half < MinInterval THEN MinInterval
      ELSE IF half > MaxInterval THEN MaxInterval
      ELSE half

\* What the server goes by.
Limit == IF sessionTimeout = 0 THEN ServerDefault ELSE sessionTimeout

ClockInit ==
  /\ sessionTimeout = ServerDefault /\ interval = 0 /\ untilTick = 0
  /\ session = "none" /\ silence = 0 /\ gap = 0
  /\ setups = 0 /\ lost = 0

\* The answer to a SETUP, the first one or another track's; a header without
\* a timeout parameter sets the field back to 0.
Setup(timeout) ==
  /\ setups < MaxSetups /\ setups' = setups + 1
  /\ sessionTimeout' = timeout
  /\ session' = "live" /\ silence' = 0 /\ gap' = 0 /\ lost' = 0
  /\ UNCHANGED <<interval, untilTick>>

StartKeepAlive ==
  /\ interval = 0
  /\ interval' = calculateKeepAliveInterval(sessionTimeout)
  /\ untilTick' = interval'
  /\ gap' = silence
  /\ UNCHANGED <<sessionTimeout, session, silence, setups, lost>>

StopKeepAlive ==
  /\ interval > 0
  /\ interval' = 0 /\ untilTick' = 0
  /\ UNCHANGED <<sessionTimeout, session, silence, gap, setups, lost>>

\* A tick: GET_PARAMETER or OPTIONS, with the session when there is one.
Heard ==
  /\ interval > 0 /\ untilTick = 0
  /\ untilTick' = interval
  /\ silence' = 0 /\ gap' = 0 /\ lost' = 0
  /\ UNCHANGED <<sessionTimeout, interval, session, setups>>

LosesKeepAlive ==
  /\ interval > 0 /\ untilTick = 0 /\ session = "live"
  /\ lost < MaxLost /\ lost' = lost + 1
  /\ untilTick' = interval
  /\ gap' = gap + interval
  /\ UNCHANGED <<sessionTimeout, interval, session, silence, setups>>

\* The server forgets the session.
Expire ==
  /\ session = "live" /\ silence >= Limit
  /\ session' = "expired"
  /\ UNCHANGED <<sessionTimeout, interval, untilTick, silence, gap, setups,
                 lost>>

\* Time passes, but neither past a tick nor past the end of the session.
Pass ==
  /\ interval > 0 => untilTick > 0
  /\ session = "live" => silence < Limit
  /\ silence' = IF session = "live" THEN silence + 1 ELSE silence
  /\ untilTick' = IF interval > 0 THEN untilTick - 1 ELSE untilTick
  /\ UNCHANGED <<sessionTimeout, interval, session, gap, setups, lost>>

ClockNext ==
  /\ session # "expired"
  /\ \/ \E timeout \in Timeouts : Setup(timeout)
     \/ StartKeepAlive \/ StopKeepAlive
     \/ Heard \/ LosesKeepAlive
     \/ Expire \/ Pass

ClockSpec == ClockInit /\ [][ClockNext]_vars
-----------------------------------------------------------------------------
ClockTypeOK ==
  /\ sessionTimeout \in Timeouts \cup {0, ServerDefault}
  /\ interval \in Nat /\ untilTick \in 0 .. interval
  /\ session \in {"none", "live", "expired"}
  /\ silence \in Nat /\ gap \in Nat /\ setups \in Nat /\ lost \in Nat

\* A session ends under a running keep-alive for four reasons only: its
\* timeout is no longer than the shortest interval (keepalive.go:42); the
\* timeout was another one when StartKeepAlive computed the interval
\* (keepalive.go:179); or StartKeepAlive came so long after SETUP, or so many
\* keep-alives were lost, that the timeout ran out before the next tick.
SessionKept ==
  session = "expired" /\ interval > 0 =>
    \/ sessionTimeout \in 1 .. MinInterval
    \/ interval # calculateKeepAliveInterval(sessionTimeout)
    \/ gap > 0 /\ gap + interval >= Limit
=============================================================================
