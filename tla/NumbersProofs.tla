---------------------------- MODULE NumbersProofs ----------------------------
(***************************************************************************)
(* The pure algorithms of MCNumbers for every input, and the keep-alive's  *)
(* arithmetic of SessionClock.  The algorithms are recursive functions;    *)
(* what they compute is shown by induction, for which a set of numbers     *)
(* takes the place of a predicate: a set of naturals has a least element,  *)
(* so it holds all of them or there is a first that it misses.             *)
(***************************************************************************)
EXTENDS MCNumbers, SessionClock, FiniteSetTheorems, SequenceTheorems,
        WellFoundedInduction, TLAPS

(* Induction and recursion.                                                *)

\* A set of natural numbers has a least, and with a bound a greatest element.
LEMMA LeastOf ==
  ASSUME NEW A, A \subseteq Nat, A # {}
  PROVE  \E x \in A : \A y \in A : x <= y
<1> DEFINE Upto == {0 .. x : x \in A}
           R    == StrictSubsetOrdering(Nat)
<1>1. Upto \subseteq FiniteSubsetsOf(Nat) /\ Upto # {}
  <2>1. ASSUME NEW x \in A PROVE 0 .. x \in FiniteSubsetsOf(Nat)
    <3>1. x \in Int /\ 0 \in Int
      OBVIOUS
    <3>2. IsFiniteSet(0 .. x)
      BY <3>1, FS_Interval
    <3>3. 0 .. x \in SUBSET Nat
      OBVIOUS
    <3> QED BY <3>2, <3>3 DEF FiniteSubsetsOf
  <2> QED BY <2>1
<1>2. IsWellFoundedOn(R, FiniteSubsetsOf(Nat))
  BY FS_StrictSubsetOrderingWellFounded
<1> HIDE DEF Upto, R
<1>3. PICK I \in Upto : \A J \in Upto : ~(<<J, I>> \in R)
  BY <1>1, <1>2, WFMin
<1>4. PICK x \in A : I = 0 .. x
  BY <1>3 DEF Upto
<1>5. ASSUME NEW y \in A, y < x PROVE FALSE
  <2>1. 0 .. y \in Upto
    BY DEF Upto
  <2>2. /\ 0 .. y \subseteq 0 .. x /\ x \notin 0 .. y /\ x \in 0 .. x
        /\ 0 .. y \in SUBSET Nat /\ 0 .. x \in SUBSET Nat
    BY <1>5
  <2>3. <<0 .. y, 0 .. x>> \in R
    BY <2>2 DEF R, StrictSubsetOrdering
  <2> QED BY <1>3, <1>4, <2>1, <2>3
<1>6. \A y \in A : x <= y
  BY <1>5
<1> QED BY <1>6

LEMMA GreatestOf ==
  ASSUME NEW b \in Nat, NEW A, A \subseteq 0 .. b, A # {}
  PROVE  \E x \in A : \A y \in A : y <= x
<1> DEFINE Flip == {b - x : x \in A}
<1>1. Flip \subseteq Nat /\ Flip # {}
  <2>1. \A x \in A : b - x \in Nat
    OBVIOUS
  <2> QED BY <2>1
<1> HIDE DEF Flip
<1>2. PICK z \in Flip : \A y \in Flip : z <= y
  BY <1>1, LeastOf
<1>3. PICK x \in A : z = b - x
  BY <1>2 DEF Flip
<1>4. ASSUME NEW y \in A PROVE y <= x
  <2>1. b - y \in Flip
    BY DEF Flip
  <2>2. z <= b - y
    BY <1>2, <2>1
  <2> QED BY <1>3, <2>2
<1> QED BY <1>4

\* Induction, with a set in place of a predicate.
LEMMA SetInduction ==
  ASSUME NEW S, 0 \in S, \A n \in Nat : n \in S => n + 1 \in S
  PROVE  \A n \in Nat : n \in S
<1> DEFINE Rest == {n \in Nat : n \notin S}
<1> SUFFICES ASSUME Rest # {} PROVE FALSE
  OBVIOUS
<1>1. PICK x \in Rest : \A y \in Rest : x <= y
  <2>1. Rest \subseteq Nat
    OBVIOUS
  <2> HIDE DEF Rest
  <2> QED BY <2>1, LeastOf
<1>2. x # 0 /\ x \in Nat
  OBVIOUS
<1>3. x - 1 \in Nat /\ x - 1 \notin Rest
  BY <1>1, <1>2
<1>4. x - 1 \in S
  BY <1>3
<1> QED BY <1>2, <1>3, <1>4

\* A definition by recursion over the natural numbers, with the step as a
\* function, has a value.
Iterates(g, V, a, h) ==
  g \in [Nat -> V] /\ g[0] = a /\ \A n \in Nat : g[n + 1] = h[n][g[n]]

LEMMA Recursion ==
  ASSUME NEW V, NEW a \in V, NEW h \in [Nat -> [V -> V]]
  PROVE  \E g : Iterates(g, V, a, h)
<1> DEFINE Runs(n) == {f \in [0 .. n -> V] :
                         f[0] = a /\ \A k \in 0 .. n - 1 : f[k + 1] = h[k][f[k]]}
           Done == {n \in Nat : \E f \in Runs(n) : \A e \in Runs(n) : e = f}
<1>1. 0 \in Done
  <2>1. [k \in 0 .. 0 |-> a] \in Runs(0)
    OBVIOUS
  <2>2. \A e \in Runs(0) : e = [k \in 0 .. 0 |-> a]
    OBVIOUS
  <2> QED BY <2>1, <2>2
<1>2. ASSUME NEW n \in Nat, n \in Done PROVE n + 1 \in Done
  <2>1. PICK f \in Runs(n) : \A e \in Runs(n) : e = f
    BY <1>2
  <2> DEFINE next == [k \in 0 .. n + 1 |-> IF k <= n THEN f[k] ELSE h[n][f[n]]]
  <2>2. f \in [0 .. n -> V] /\ f[0] = a /\ \A k \in 0 .. n - 1 : f[k + 1] = h[k][f[k]]
    BY <2>1
  <2>3. h[n][f[n]] \in V
    <3>1. f[n] \in V
      BY <2>2
    <3> QED BY <3>1
  <2>4. next \in Runs(n + 1)
    <3>1. next \in [0 .. n + 1 -> V]
      BY <2>2, <2>3
    <3>2. next[0] = a
      BY <2>2
    <3>3. ASSUME NEW k \in 0 .. (n + 1) - 1 PROVE next[k + 1] = h[k][next[k]]
      <4>1. CASE k = n
        BY <4>1
      <4>2. CASE k # n
        <5>1. k \in 0 .. n - 1 /\ k + 1 \in 0 .. n + 1 /\ k \in 0 .. n + 1
          BY <4>2
        <5>2. next[k + 1] = f[k + 1] /\ next[k] = f[k]
          BY <5>1
        <5> HIDE DEF next
        <5> QED BY <5>1, <5>2, <2>2
      <4> QED BY <4>1, <4>2
    <3> HIDE DEF next
    <3> QED BY <3>1, <3>2, <3>3
  <2>5. ASSUME NEW e \in Runs(n + 1) PROVE e = next
    <3> DEFINE cut == [k \in 0 .. n |-> e[k]]
    <3>1. /\ e \in [0 .. n + 1 -> V] /\ e[0] = a
          /\ \A k \in 0 .. (n + 1) - 1 : e[k + 1] = h[k][e[k]]
      BY <2>5
    <3>2. cut \in Runs(n)
      <4>1. cut \in [0 .. n -> V] /\ cut[0] = a
        BY <3>1
      <4>2. ASSUME NEW k \in 0 .. n - 1 PROVE cut[k + 1] = h[k][cut[k]]
        <5>1. cut[k + 1] = e[k + 1] /\ cut[k] = e[k] /\ k \in 0 .. (n + 1) - 1
          OBVIOUS
        <5> QED BY <5>1, <3>1
      <4> HIDE DEF cut
      <4> QED BY <4>1, <4>2
    <3>3. cut = f
      BY <2>1, <3>2
    <3>4. \A k \in 0 .. n : e[k] = f[k]
      BY <3>3
    <3>5. n \in 0 .. (n + 1) - 1 /\ n \in 0 .. n
      OBVIOUS
    <3>6. e[n + 1] = h[n][f[n]]
      BY <3>1, <3>4, <3>5
    <3>7. \A k \in 0 .. n + 1 : e[k] = next[k]
      BY <3>4, <3>6
    <3> QED BY <3>1, <3>7
  <2> HIDE DEF next, Runs
  <2> QED BY <2>4, <2>5
<1> HIDE DEF Runs
<1>3. \A n \in Nat : n \in Done
  <2> HIDE DEF Done
  <2> QED BY <1>1, <1>2, SetInduction
<1> DEFINE run(n) == CHOOSE f \in Runs(n) : TRUE
           g == [n \in Nat |-> run(n)[n]]
<1>4. ASSUME NEW n \in Nat
      PROVE  /\ run(n) \in [0 .. n -> V] /\ run(n)[0] = a
             /\ \A k \in 0 .. n - 1 : run(n)[k + 1] = h[k][run(n)[k]]
             /\ \A e \in Runs(n) : e = run(n)
  <2>1. PICK f \in Runs(n) : \A e \in Runs(n) : e = f
    BY <1>3
  <2>2. run(n) \in Runs(n)
    BY <2>1
  <2> HIDE DEF run
  <2>3. \A e \in Runs(n) : e = run(n)
    BY <2>1, <2>2
  <2> QED BY <2>2, <2>3 DEF Runs
<1>5. g \in [Nat -> V] /\ g[0] = a
  <2>1. \A n \in Nat : run(n)[n] \in V
    BY <1>4
  <2>2. run(0)[0] = a
    BY <1>4
  <2> HIDE DEF run
  <2> QED BY <2>1, <2>2
<1>6. ASSUME NEW n \in Nat PROVE g[n + 1] = h[n][g[n]]
  <2> HIDE DEF run
  <2> DEFINE cut == [k \in 0 .. n |-> run(n + 1)[k]]
  <2>1. /\ run(n + 1) \in [0 .. n + 1 -> V] /\ run(n + 1)[0] = a
        /\ \A k \in 0 .. (n + 1) - 1 : run(n + 1)[k + 1] = h[k][run(n + 1)[k]]
    BY <1>4
  <2>2. cut \in Runs(n)
    <3>1. cut \in [0 .. n -> V] /\ cut[0] = a
      BY <2>1
    <3>2. ASSUME NEW k \in 0 .. n - 1 PROVE cut[k + 1] = h[k][cut[k]]
      <4>1. cut[k + 1] = run(n + 1)[k + 1] /\ cut[k] = run(n + 1)[k] /\ k \in 0 .. (n + 1) - 1
        OBVIOUS
      <4> QED BY <4>1, <2>1
    <3> HIDE DEF cut
    <3> QED BY <3>1, <3>2 DEF Runs
  <2>3. cut = run(n)
    BY <1>4, <2>2
  <2>4. n \in 0 .. n /\ n \in 0 .. (n + 1) - 1
    OBVIOUS
  <2>5. run(n + 1)[n] = run(n)[n]
    BY <2>3, <2>4
  <2>6. run(n + 1)[n + 1] = h[n][run(n)[n]]
    BY <2>1, <2>4, <2>5
  <2>7. g[n + 1] = run(n + 1)[n + 1] /\ g[n] = run(n)[n]
    OBVIOUS
  <2> QED BY <2>6, <2>7
<1> HIDE DEF g
<1>7. Iterates(g, V, a, h)
  BY <1>5, <1>6 DEF Iterates
<1> QED BY <1>7

-----------------------------------------------------------------------------
(* Sequence numbers.                                                       *)

\* Half a turn is half the circle, because the circle is even.
LEMMA HalfCircle == Half \in Nat \ {0} /\ M = Half + Half
BY MAssumption DEF Half

LEMMA CircleIsOne ==
  ASSUME NEW a \in Seqno, NEW b \in Seqno
  PROVE  /\ DiffWalksTheCircle(a, b) /\ CompareFollowsDistance(a, b)
         /\ PackagesAgree(a, b)
<1> USE HalfCircle DEF Seqno
<1>1. DiffWalksTheCircle(a, b)
  BY DEF DiffWalksTheCircle, Advance, sequenceDiff
<1>2. CompareFollowsDistance(a, b)
  BY DEF CompareFollowsDistance, sequenceCompare, sequenceDiff
<1>3. PackagesAgree(a, b)
  BY DEF PackagesAgree, sequenceBefore, isSequenceNewer, sequenceCompare, sequenceDiff
<1> QED BY <1>1, <1>2, <1>3

-----------------------------------------------------------------------------
(* The questions.                                                          *)

\* A question stays the one asked, except that two sequence numbers move on
\* round the circle.
QuestionInv ==
  \/ question \in [about : {"sequence"}, a : Seqno, b : Seqno]
  \/ question.about # "sequence" /\ Init

LEMMA InitQuestion == Init => QuestionInv
BY DEF Init, QuestionInv

LEMMA NextQuestion == QuestionInv /\ [Shift]_question => QuestionInv'
<1> SUFFICES ASSUME QuestionInv, [Shift]_question PROVE QuestionInv'
  OBVIOUS
<1>1. CASE Shift
  <2>1. question \in [about : {"sequence"}, a : Seqno, b : Seqno]
    BY <1>1 DEF Shift, QuestionInv
  <2>2. \A s \in Seqno : Advance(s, 1) \in Seqno
    BY HalfCircle DEF Advance, Seqno
  <2>3. question' \in [about : {"sequence"}, a : Seqno, b : Seqno]
    BY <1>1, <2>1, <2>2 DEF Shift
  <2> QED BY <2>3 DEF QuestionInv
<1>2. CASE question' = question
  <2>1. Init => Init'
    BY <1>2 DEF Init
  <2> QED BY <1>2, <2>1 DEF QuestionInv
<1> QED BY <1>1, <1>2

LEMMA Questions == Spec => []QuestionInv
BY InitQuestion, NextQuestion, PTL DEF Spec

\* For every even size of the sequence space, the distance, the jitter
\* buffer's order and the decoder's order fit together on both sides of the
\* wraparound (jitter.go sequenceDiff, sequenceCompare; h264.go
\* sequenceDifference, sequenceBefore).
THEOREM NumbersOnOneCircle == Spec => []OneCircle
<1>1. QuestionInv => OneCircle
  <2> SUFFICES ASSUME QuestionInv, question.about = "sequence" PROVE OneCircle
    BY DEF OneCircle
  <2>1. question.a \in Seqno /\ question.b \in Seqno
    BY DEF QuestionInv
  <2> QED BY <2>1, CircleIsOne DEF OneCircle
<1> QED BY <1>1, Questions, PTL
-----------------------------------------------------------------------------
(* Timestamps.                                                             *)

\* A number and its remainder differ by full turns.
LEMMA FullTurns ==
  ASSUME NEW n \in Int
  PROVE  n % T \in 0 .. T - 1 /\ \E k \in Int : n - (n % T) = k * T
<1>1. T \in Nat \ {0}
  BY TimestampAssumption
<1>2. n % T \in 0 .. T - 1
  BY <1>1, Z3
<1>3. n \div T \in Int
  BY <1>1
<1>4. n - (n \div T) * T = n % T
  BY <1>1, Z3
<1> DEFINE turns == (n \div T) * T
           rest  == n % T
<1>5. turns \in Int /\ rest \in Int /\ n - turns = rest
  BY <1>1, <1>2, <1>3, <1>4
<1> HIDE DEF turns, rest
<1>6. n - rest = turns
  BY <1>5
<1>7. \E k \in Int : n - (n % T) = k * T
  BY <1>3, <1>6, Zenon DEF turns, rest
<1> QED BY <1>2, <1>7

\* Full turns leave nothing over.
LEMMA NothingOver ==
  ASSUME NEW k \in Int
  PROVE  /\ (k * T) % T = 0
         /\ k * T \in 1 - T .. T - 1 => k * T = 0
<1>1. T \in Nat \ {0}
  BY TimestampAssumption
<1>2. ASSUME NEW m \in Int, m * T \in 1 - T .. T - 1 PROVE m * T = 0
  <2>1. CASE m >= 1
    <3>1. m - 1 \in Nat /\ m * T = (m - 1) * T + T
      BY <1>1, <2>1
    <3>2. (m - 1) * T \in Nat
      BY <1>1, <3>1
    <3> QED BY <1>1, <1>2, <3>1, <3>2
  <2>2. CASE m <= -1
    <3>1. -m - 1 \in Nat /\ m * T = -((-m - 1) * T + T)
      BY <1>1, <2>2
    <3>2. (-m - 1) * T \in Nat
      BY <1>1, <3>1
    <3> QED BY <1>1, <1>2, <3>1, <3>2
  <2>3. CASE m = 0
    BY <1>1, <2>3
  <2> QED BY <2>1, <2>2, <2>3
<1>3. k * T \in Int
  BY <1>1
<1>4. PICK j \in Int : k * T - ((k * T) % T) = j * T
  BY <1>3, FullTurns
<1>5. (k * T) % T \in 0 .. T - 1
  BY <1>3, FullTurns
<1>6. (k * T) % T = (k - j) * T /\ k - j \in Int
  <2> DEFINE x == k * T
             y == j * T
             rest == x % T
  <2>1. x \in Int /\ y \in Int
    BY <1>1, <1>3
  <2>2. rest \in 0 .. T - 1
    BY <1>5, Zenon
  <2>3. x - rest = y
    BY <1>4, Zenon
  <2>4. (k - j) * T = x - y
    BY <1>1
  <2> HIDE DEF x, y, rest
  <2>5. rest = x - y
    BY <1>1, <2>1, <2>2, <2>3
  <2>6. rest = (k - j) * T
    BY <2>4, <2>5, Zenon
  <2> QED BY <2>6 DEF x, rest
<1>7. (k - j) * T \in 1 - T .. T - 1
  BY <1>1, <1>5, <1>6
<1>8. (k - j) * T = 0
  BY <1>2, <1>6, <1>7
<1> QED BY <1>2, <1>6, <1>8

\* The time found is less than half a turn from the report and wrong by full
\* turns.
LEMMA MapsNear ==
  ASSUME NEW p \in Int, NEW q \in Int
  PROVE  /\ MappedTime(p, q) - p \in -HalfTurn .. HalfTurn - 1
         /\ \E k \in Int : MappedTime(p, q) - q = k * T
<1>1. T \in Nat \ {0} /\ HalfTurn \in Nat /\ T = HalfTurn + HalfTurn
  BY TimestampAssumption DEF HalfTurn
<1>2. PICK i \in Int : p - (p % T) = i * T
  BY FullTurns
<1>3. PICK j \in Int : q - (q % T) = j * T
  BY FullTurns
<1>4. p % T \in 0 .. T - 1 /\ q % T \in 0 .. T - 1
  BY FullTurns
<1> DEFINE a == q % T
           b == p % T
<1>5. MappedTime(p, q) = p + Shifted(a - b)
  BY DEF MappedTime, RTPToNTP, UpdateFromSR
<1> HIDE DEF a, b
<1>6. a \in 0 .. T - 1 /\ b \in 0 .. T - 1
  BY <1>4 DEF a, b
<1>12. p - b = i * T /\ q - a = j * T
  BY <1>2, <1>3, Zenon DEF a, b
<1>7. Shifted(a - b) \in -HalfTurn .. HalfTurn - 1
  BY <1>1, <1>6 DEF Shifted
<1>8. PICK d \in {-1, 0, 1} : Shifted(a - b) = (a - b) + d * T
  BY <1>1, <1>6 DEF Shifted
<1>9. i * T \in Int /\ j * T \in Int /\ d * T \in Int
  BY <1>1, <1>8
<1>10. MappedTime(p, q) - q = (i * T - j * T) + d * T
  BY <1>1, <1>5, <1>6, <1>8, <1>9, <1>12
<1>11. i - j + d \in Int /\ (i - j + d) * T = (i * T - j * T) + d * T
  BY <1>1, <1>8
<1> QED BY <1>5, <1>7, <1>10, <1>11

\* For every even number of timestamps, a packet's time is its true one when it
\* lies less than half a turn from the report, and is wrong by full turns
\* otherwise (rtcp.go:418, 432).
THEOREM NumbersMapExactly == Spec => []MapsExactly
<1>1. QuestionInv => MapsExactly
  <2> SUFFICES ASSUME QuestionInv, question.about = "mapping" PROVE MapsExactly
    BY DEF MapsExactly
  <2> DEFINE p == question.report
             q == question.packet
             t == MappedTime(p, q)
  <2>1. p \in Int /\ q \in Int
    <3>1. T \in Nat
      BY TimestampAssumption
    <3>2. Init
      BY DEF QuestionInv
    <3>3. p \in 0 .. 3 * T /\ q \in 0 .. 3 * T
      BY <3>2 DEF Init
    <3> QED BY <3>1, <3>3
  <2> HIDE DEF p, q
  <2>2. t - p \in -HalfTurn .. HalfTurn - 1
    BY <2>1, MapsNear
  <2>3. PICK k \in Int : t - q = k * T
    BY <2>1, MapsNear
  <2>4. (t - q) % T = 0
    BY <2>3, NothingOver
  <2>5. ASSUME q - p \in -HalfTurn .. HalfTurn - 1 PROVE t = q
    <3>1. T \in Nat \ {0} /\ HalfTurn \in Nat /\ T = HalfTurn + HalfTurn
      BY TimestampAssumption DEF HalfTurn
    <3>2. t \in Int
      <4>1. t - p \in Int /\ t = MappedTime(p, q)
        BY <2>2, <3>1
      <4>2. MappedTime(p, q) \in Int
        <5> DEFINE d == (q % T) - (p % T)
        <5> DEFINE a == p % T
                   b == q % T
        <5>1. a \in 0 .. T - 1 /\ b \in 0 .. T - 1
          BY <2>1, FullTurns
        <5>2. d \in Int
          <6>1. d = b - a
            OBVIOUS
          <6> HIDE DEF a, b, d
          <6> QED BY <3>1, <5>1, <6>1
        <5>3. MappedTime(p, q) = p + Shifted(d)
          BY DEF MappedTime, RTPToNTP, UpdateFromSR
        <5> HIDE DEF d
        <5>4. Shifted(d) \in Int
          BY <3>1, <5>2 DEF Shifted
        <5> QED BY <2>1, <5>3, <5>4
      <4> QED BY <4>2
    <3> HIDE DEF t
    <3>3. t - q \in 1 - T .. T - 1
      BY <2>1, <2>2, <2>5, <3>1, <3>2
    <3>4. k * T = 0
      BY <2>3, <3>3, NothingOver
    <3> QED BY <2>1, <2>3, <3>2, <3>4
  <2> QED BY <2>2, <2>4, <2>5 DEF MapsExactly, p, q
<1> QED BY <1>1, Questions, PTL
-----------------------------------------------------------------------------
(* Back-off.                                                               *)

LEMMA PowerSteps ==
  /\ Power2 \in [Nat -> Nat \ {0}]
  /\ Power2[0] = 1 /\ \A n \in Nat : Power2[n + 1] = 2 * Power2[n]
<1> DEFINE V    == Nat \ {0}
           one  == 1
           h    == [n \in Nat |-> [v \in V |-> 2 * v]]
           P(p) == p = [n \in Nat |-> IF n = 0 THEN 1 ELSE 2 * p[n - 1]]
<1>1. one \in V /\ h \in [Nat -> [V -> V]]
  OBVIOUS
<1>r. PICK g : Iterates(g, V, one, h)
  <2> HIDE DEF V, h, one
  <2> QED BY <1>1, Recursion
<1>2. g \in [Nat -> V] /\ g[0] = one /\ \A n \in Nat : g[n + 1] = h[n][g[n]]
  BY <1>r DEF Iterates
<1>3. g[0] = 1 /\ \A n \in Nat : g[n + 1] = 2 * g[n]
  BY <1>2
<1>4. P(g)
  <2>1. ASSUME NEW n \in Nat PROVE g[n] = IF n = 0 THEN 1 ELSE 2 * g[n - 1]
    <3>1. CASE n = 0
      BY <3>1, <1>3
    <3>2. CASE n # 0
      <4>1. n - 1 \in Nat /\ (n - 1) + 1 = n
        BY <3>2
      <4> QED BY <3>2, <4>1, <1>3
    <3> QED BY <3>1, <3>2
  <2> QED BY <1>2, <2>1
<1>5. P(Power2)
  <2>1. Power2 = CHOOSE p : P(p)
    BY DEF Power2
  <2> HIDE DEF P
  <2> QED BY <1>4, <2>1
<1>6. \A n \in Nat : Power2[n] = IF n = 0 THEN 1 ELSE 2 * Power2[n - 1]
  BY <1>5
<1>7. Power2[0] = 1 /\ \A n \in Nat : Power2[n + 1] = 2 * Power2[n]
  <2>1. ASSUME NEW n \in Nat PROVE Power2[n + 1] = 2 * Power2[n]
    <3>1. n + 1 \in Nat /\ n + 1 # 0 /\ (n + 1) - 1 = n
      OBVIOUS
    <3> QED BY <1>6, <3>1
  <2> QED BY <1>6, <2>1
<1>8. \A n \in Nat : Power2[n] \in V
  <2> DEFINE Good == {n \in Nat : Power2[n] \in V}
  <2>1. 0 \in Good /\ \A n \in Nat : n \in Good => n + 1 \in Good
    BY <1>7
  <2> HIDE DEF Good
  <2>2. \A n \in Nat : n \in Good
    BY <2>1, SetInduction
  <2> QED BY <2>2 DEF Good
<1> HIDE DEF V
<1>9. Power2 \in [Nat -> V]
  BY <1>5, <1>8
<1> QED BY <1>7, <1>9 DEF V

LEMMA PowerGrows ==
  ASSUME NEW m \in Nat, NEW n \in Nat, m <= n
  PROVE  Power2[m] <= Power2[n]
<1> DEFINE Above == {k \in Nat : Power2[m] <= Power2[m + k]}
<1>1. 0 \in Above
  BY PowerSteps
<1>2. ASSUME NEW k \in Nat, k \in Above PROVE k + 1 \in Above
  <2>1. m + k \in Nat /\ m + (k + 1) = (m + k) + 1
    OBVIOUS
  <2>2. Power2[m + (k + 1)] = 2 * Power2[m + k]
    BY <2>1, PowerSteps
  <2>3. Power2[m + k] \in Nat /\ Power2[m] \in Nat /\ Power2[m] <= Power2[m + k]
    BY <2>1, <1>2, PowerSteps
  <2> QED BY <2>2, <2>3
<1> HIDE DEF Above
<1>3. n - m \in Above
  BY <1>1, <1>2, SetInduction
<1> QED BY <1>3 DEF Above

\* An int64 holds the numbers below Word as they are.
LEMMA NotWrapped ==
  ASSUME NEW n \in 0 .. Word - 1
  PROVE  Wrapped(n) = n
<1> DEFINE a == n + Word
           b == 2 * Word
<1>1. Word \in Nat \ {0} /\ a \in Nat /\ b \in Nat \ {0} /\ a < b
  BY BackoffAssumption
<1>2. a % b = a
  <2> HIDE DEF a, b
  <2> QED BY <1>1
<1>3. Wrapped(n) = a - Word
  BY <1>2 DEF Wrapped
<1> QED BY <1>1, <1>3

\* Products of naturals grow with their factors.
LEMMA ProductGrows ==
  ASSUME NEW a \in Nat, NEW m \in Nat, NEW n \in Nat, m <= n
  PROVE  a * m \in Nat /\ a * m <= a * n
<1>1. n - m \in Nat /\ a * m \in Nat /\ a * (n - m) \in Nat
  OBVIOUS
<1>2. a * n = a * m + a * (n - m)
  OBVIOUS
<1> QED BY <1>1, <1>2

\* What NewRetryConfig makes of any three integers.
RetryConfigs == [retries : Nat \ {0}, initial : Nat \ {0}, max : Nat \ {0}]

\* As long as the doubled delay fits, no multiplication wraps.
LEMMA BackoffDelay ==
  ASSUME NEW retries \in Nat, NEW initial \in Nat \ {0}, NEW max \in Nat \ {0},
         initial * Power2[retries] < Word, NEW n \in Nat, n < retries
  PROVE  /\ initial * Power2[n] \in Nat \ {0}
         /\ initial * Power2[n + 1] = 2 * (initial * Power2[n])
         /\ calculateBackoff(n, initial, max)
              = IF initial * Power2[n] > max THEN max ELSE initial * Power2[n]
<1> DEFINE power == Power2[n]
           top   == Power2[retries]
           delay == initial * power
<1>1. power \in Nat \ {0} /\ top \in Nat \ {0} /\ power <= top
  <2>1. power \in Nat \ {0} /\ top \in Nat \ {0}
    BY PowerSteps
  <2>2. n <= retries
    OBVIOUS
  <2>3. power <= top
    BY <2>2, PowerGrows
  <2> QED BY <2>1, <2>3
<1>2. Word \in Nat
  BY BackoffAssumption
<1>3. Power2[n + 1] = 2 * power
  BY PowerSteps
<1>4. initial * top < Word
  OBVIOUS
<1> HIDE DEF power, top
<1>5. delay \in Nat \ {0} /\ delay <= initial * top /\ initial * top \in Nat
  <2>1. delay \in Nat /\ delay <= initial * top /\ initial * top \in Nat
    BY <1>1, ProductGrows
  <2>2. delay # 0
    BY <1>1
  <2> QED BY <2>1, <2>2
<1>6. power <= delay
  <2>1. 1 <= initial /\ power * 1 <= power * initial
    BY <1>1, ProductGrows
  <2> QED BY <1>1, <2>1
<1>7. initial * (2 * power) = 2 * delay
  BY <1>1
<1>8. Wrapped(power) = power
  BY <1>1, <1>2, <1>4, <1>5, <1>6, NotWrapped
<1> HIDE DEF delay
<1>9. Wrapped(delay) = delay
  BY <1>2, <1>4, <1>5, NotWrapped
<1>10. calculateBackoff(n, initial, max) = IF delay > max THEN max ELSE delay
  <2>1. Wrapped(initial * Wrapped(Power2[n])) = delay
    <3>1. Wrapped(Power2[n]) = power /\ initial * power = delay
      BY <1>8 DEF power, delay
    <3> QED BY <1>9, <3>1
  <2> QED BY <2>1 DEF calculateBackoff
<1> QED BY <1>3, <1>5, <1>7, <1>10 DEF power, delay

\* For every configuration with positive entries and every number of failures,
\* the client waits one time less than it tries, never longer than the maximum
\* and never shorter than before, as long as the doubled delay fits an int64
\* (recovery.go:171-182).
THEOREM NumbersSleepsBounded ==
  ASSUME NEW c \in RetryConfigs,
         NEW failures \in Nat
  PROVE  SleepsBounded(c, failures)
<1> DEFINE retries == c.retries
           initial == c.initial
           max     == c.max
           sleeps  == retryWithBackoff(c, failures)
           last    == IF failures < retries THEN failures ELSE retries - 1
<1>1. retries \in Nat \ {0} /\ initial \in Nat \ {0} /\ max \in Nat \ {0}
  BY DEF RetryConfigs
<1>2. sleeps = [k \in 1 .. last |-> calculateBackoff(k - 1, initial, max)]
  BY DEF retryWithBackoff
<1> HIDE DEF retries, initial, max, sleeps
<1>3. last \in Nat /\ last < retries
  BY <1>1
<1>4. Len(sleeps) = last /\ DOMAIN sleeps = 1 .. last
  <2> HIDE DEF last
  <2>1. DOMAIN sleeps = 1 .. last
    BY <1>2
  <2>2. \A S : sleeps \in [1 .. last -> S] => Len(sleeps) = last
    BY <1>3, <2>1
  <2>3. sleeps \in [1 .. last -> {sleeps[k] : k \in 1 .. last}]
    BY <1>2
  <2> QED BY <2>1, <2>2, <2>3
<1> HIDE DEF last
<1>5. ASSUME initial * Power2[retries] < Word, NEW k \in 1 .. last
      PROVE  /\ sleeps[k] \in 1 .. max
             /\ k > 1 => sleeps[k - 1] <= sleeps[k]
             /\ k > 1 => sleeps[k] \in {max, 2 * sleeps[k - 1]}
  <2> DEFINE delay(n) == initial * Power2[n]
             capped(d) == IF d > max THEN max ELSE d
  <2>1. ASSUME NEW n \in Nat, n < retries
        PROVE  /\ delay(n) \in Nat \ {0} /\ delay(n + 1) = 2 * delay(n)
               /\ calculateBackoff(n, initial, max) = capped(delay(n))
    <3>1. /\ initial * Power2[n] \in Nat \ {0}
          /\ initial * Power2[n + 1] = 2 * (initial * Power2[n])
          /\ calculateBackoff(n, initial, max)
               = IF initial * Power2[n] > max THEN max ELSE initial * Power2[n]
      <4>1. initial * Power2[retries] < Word /\ n < retries /\ retries \in Nat
        BY <1>1, <1>5, <2>1
      <4> QED BY <1>1, <4>1, BackoffDelay
    <3> QED BY <3>1
  <2>2. k - 1 \in Nat /\ k - 1 < retries
    BY <1>1, <1>3
  <2>3. sleeps[k] = capped(delay(k - 1))
    <3>1. sleeps[k] = calculateBackoff(k - 1, initial, max)
      BY <1>2
    <3> QED BY <2>1, <2>2, <3>1
  <2>4. delay(k - 1) \in Nat \ {0}
    BY <2>1, <2>2
  <2>5. ASSUME k > 1
        PROVE  /\ sleeps[k - 1] = capped(delay(k - 2))
               /\ delay(k - 2) \in Nat \ {0} /\ delay(k - 1) = 2 * delay(k - 2)
    <3>1. /\ k - 2 \in Nat /\ k - 2 < retries /\ (k - 2) + 1 = k - 1
          /\ k - 1 \in 1 .. last /\ (k - 1) - 1 = k - 2
      BY <1>1, <1>3, <2>5
    <3>2. sleeps[k - 1] = calculateBackoff(k - 2, initial, max)
      BY <1>2, <3>1
    <3>3. /\ delay(k - 2) \in Nat \ {0} /\ delay((k - 2) + 1) = 2 * delay(k - 2)
          /\ calculateBackoff(k - 2, initial, max) = capped(delay(k - 2))
      BY <2>1, <3>1
    <3> QED BY <3>1, <3>2, <3>3
  <2> HIDE DEF delay
  <2> QED BY <1>1, <2>3, <2>4, <2>5
<1>6. SleepsBounded(c, failures)
      = (/\ Len(sleeps) < retries
         /\ initial * Power2[retries] < Word =>
              \A k \in DOMAIN sleeps :
                /\ sleeps[k] \in 1 .. max
                /\ k > 1 => sleeps[k - 1] <= sleeps[k]
                /\ k > 1 => sleeps[k] \in {max, 2 * sleeps[k - 1]})
  BY DEF SleepsBounded, retries, initial, max, sleeps
<1> QED BY <1>3, <1>4, <1>5, <1>6

\* NewRetryConfig leaves no entry that is not positive.
LEMMA ConfigPositive ==
  ASSUME NEW retries \in Int, NEW initial \in Int, NEW max \in Int
  PROVE  NewRetryConfig(retries, initial, max) \in RetryConfigs
BY BackoffAssumption DEF NewRetryConfig, RetryConfigs

\* The sleeps between two attempts of every question are bounded and do not
\* shrink (recovery.go:171-182).
THEOREM NumbersBackoffBounded == Spec => []BackoffBounded
<1>1. QuestionInv => BackoffBounded
  <2> SUFFICES ASSUME QuestionInv, question.about = "backoff" PROVE BackoffBounded
    BY DEF BackoffBounded
  <2>1. Init
    BY DEF QuestionInv
  <2>2. PICK retries \in {0, 1, 3, 8}, initial \in {-1, 1, 3, 200},
             max \in {0, 7, 300, 1000}, failures \in {0, 2, 9} :
          question = [about |-> "backoff", config |-> NewRetryConfig(retries, initial, max),
                      failures |-> failures]
    BY <2>1 DEF Init
  <2>3. question.config \in RetryConfigs /\ question.failures \in Nat
    <3>1. retries \in Int /\ initial \in Int /\ max \in Int /\ failures \in Nat
      OBVIOUS
    <3>2. /\ question.config = NewRetryConfig(retries, initial, max)
          /\ question.failures = failures
      BY <2>2
    <3>3. NewRetryConfig(retries, initial, max) \in RetryConfigs
      BY <3>1, ConfigPositive
    <3> QED BY <3>1, <3>2, <3>3
  <2> QED BY <2>3, NumbersSleepsBounded DEF BackoffBounded
<1> QED BY <1>1, Questions, PTL
-----------------------------------------------------------------------------
(* RTP packets.                                                            *)

\* r is made of the numbers of s and, behind them, those of t.
Follows(s, t, r) ==
  /\ r \in Seq(Int) /\ Len(r) = Len(s) + Len(t)
  /\ \A i \in 1 .. Len(s) : r[i] = s[i]
  /\ \A i \in 1 .. Len(t) : r[Len(s) + i] = t[i]

LEMMA Joined ==
  ASSUME NEW s \in Seq(Int), NEW t \in Seq(Int)
  PROVE  Follows(s, t, s \o t)
BY DEF Follows

\* What RFC 3550 lets a sender write: up to 15 contributing sources, an
\* extension of words, padding of up to 255 octets.  HeaderSize holds up to
\* 16383 words of extension; a packet may be cut anywhere.
RtpPacket(p) ==
  /\ p.csrcs \in Nat /\ p.csrcs < 16
  /\ p.marker \in {0, 1}
  /\ p.type \in Nat /\ p.type < 128
  /\ p.seq \in Nat /\ p.seq < 65536
  /\ p.padding \in Nat /\ p.padding < 256
  /\ p.extension = << >> \/ \E n \in Nat : n < 16384 /\ p.extension = <<n>>
  /\ p.payload \in Seq(Int)
  /\ p.kept \in Nat

ExtensionLength(p) == IF p.extension = << >> THEN 0 ELSE 4 + 4 * p.extension[1]

\* The fields of the header a sender writes, octet by octet.
LEMMA HeaderFields ==
  ASSUME NEW p, RtpPacket(p)
  PROVE  /\ RtpHeader(p) \in Seq(Int)
         /\ Len(RtpHeader(p)) = 12 + 4 * p.csrcs + ExtensionLength(p)
         /\ RtpHeader(p)[1] = 128 + 32 * Flag(p.padding > 0)
                                + 16 * Flag(p.extension # << >>) + p.csrcs
         /\ RtpHeader(p)[2] = 128 * p.marker + p.type
         /\ RtpHeader(p)[3] = p.seq \div 256 /\ RtpHeader(p)[4] = p.seq % 256
         /\ \A i \in 1 .. 4 : RtpHeader(p)[4 + i] = Four(1)[i]
         /\ \A i \in 1 .. 4 : RtpHeader(p)[8 + i] = Four(2)[i]
         /\ p.extension # << >> =>
              /\ RtpHeader(p)[12 + 4 * p.csrcs + 3] = p.extension[1] \div 256
              /\ RtpHeader(p)[12 + 4 * p.csrcs + 4] = p.extension[1] % 256
<1> DEFINE first  == 128 + 32 * Flag(p.padding > 0) + 16 * Flag(p.extension # << >>) + p.csrcs
           second == 128 * p.marker + p.type
           h1     == <<first, second>>
           h2     == h1 \o Two(p.seq)
           h3     == h2 \o Four(1)
           h4     == h3 \o Four(2)
           h5     == h4 \o Words(p.csrcs)
           n      == p.extension[1]
           e2     == <<190, 222>> \o Two(n)
           e3     == e2 \o Words(n)
           ext    == IF p.extension = << >> THEN << >> ELSE e3
<1>1. RtpHeader(p) = h5 \o ext
  BY DEF RtpHeader
<1>2. /\ first \in Int /\ second \in Int /\ p.seq \in Nat /\ p.csrcs \in Nat
      /\ p.extension # << >> => n \in Nat
  <2>1. p.csrcs \in Nat /\ p.marker \in Nat /\ p.type \in Nat /\ p.seq \in Nat
    BY DEF RtpPacket
  <2>2. Flag(p.padding > 0) \in Nat /\ Flag(p.extension # << >>) \in Nat
    BY DEF Flag
  <2>3. p.extension # << >> => n \in Nat
    BY DEF RtpPacket
  <2>4. first \in Int
    BY <2>1, <2>2
  <2>5. second \in Int
    BY <2>1
  <2> HIDE DEF first, second, n
  <2> QED BY <2>1, <2>3, <2>4, <2>5
<1>3. \A k \in Nat : Two(k) \in Seq(Int) /\ Len(Two(k)) = 2 /\ Two(k)[1] = k \div 256 /\ Two(k)[2] = k % 256
  BY DEF Two
<1>4. \A k \in Nat : Four(k) \in Seq(Int) /\ Len(Four(k)) = 4
  BY DEF Four
<1>5. \A k \in Nat : Words(k) \in Seq(Int) /\ Len(Words(k)) = 4 * k
  BY DEF Words
<1>6. h1 \in Seq(Int) /\ Len(h1) = 2 /\ h1[1] = first /\ h1[2] = second
  BY <1>2
<1> HIDE DEF first, second, h1, h2, h3, h4, h5, n, e2, e3, ext
<1>7. /\ h2 \in Seq(Int) /\ Len(h2) = 4 /\ h2[1] = first /\ h2[2] = second
      /\ h2[3] = p.seq \div 256 /\ h2[4] = p.seq % 256
  <2> DEFINE t == Two(p.seq)
  <2>1. t \in Seq(Int) /\ Len(t) = 2 /\ t[1] = p.seq \div 256 /\ t[2] = p.seq % 256
    BY <1>2, <1>3
  <2>2. Follows(h1, t, h2)
    BY <1>6, <2>1, Joined DEF h2
  <2> HIDE DEF t
  <2> QED BY <1>6, <2>1, <2>2 DEF Follows
<1>8. /\ h3 \in Seq(Int) /\ Len(h3) = 8
      /\ \A i \in 1 .. 4 : h3[i] = h2[i] /\ h3[4 + i] = Four(1)[i]
  <2> DEFINE t == Four(1)
  <2>1. t \in Seq(Int) /\ Len(t) = 4
    BY <1>4
  <2>2. Follows(h2, t, h3)
    BY <1>7, <2>1, Joined DEF h3
  <2> HIDE DEF t
  <2>3. /\ h3 \in Seq(Int) /\ Len(h3) = 8
        /\ \A i \in 1 .. 4 : h3[i] = h2[i] /\ h3[4 + i] = t[i]
    BY <1>7, <2>1, <2>2 DEF Follows
  <2> QED BY <2>3 DEF t
<1>9. /\ h4 \in Seq(Int) /\ Len(h4) = 12
      /\ \A i \in 1 .. 8 : h4[i] = h3[i]
      /\ \A i \in 1 .. 4 : h4[8 + i] = Four(2)[i]
  <2> DEFINE t == Four(2)
  <2>1. t \in Seq(Int) /\ Len(t) = 4
    BY <1>4
  <2>2. Follows(h3, t, h4)
    BY <1>8, <2>1, Joined DEF h4
  <2> HIDE DEF t
  <2>3. /\ h4 \in Seq(Int) /\ Len(h4) = 12
        /\ \A i \in 1 .. 8 : h4[i] = h3[i]
        /\ \A i \in 1 .. 4 : h4[8 + i] = t[i]
    BY <1>8, <2>1, <2>2 DEF Follows
  <2> QED BY <2>3 DEF t
<1>10. /\ h5 \in Seq(Int) /\ Len(h5) = 12 + 4 * p.csrcs
       /\ \A i \in 1 .. 12 : h5[i] = h4[i]
  <2>1. Words(p.csrcs) \in Seq(Int) /\ Len(Words(p.csrcs)) = 4 * p.csrcs
    BY <1>2, <1>5
  <2>2. Follows(h4, Words(p.csrcs), h5)
    BY <1>9, <2>1, Joined DEF h5
  <2> QED BY <1>9, <2>1, <2>2 DEF Follows
<1>11. p.extension # << >> =>
         /\ e3 \in Seq(Int) /\ Len(e3) = 4 + 4 * n
         /\ e3[3] = n \div 256 /\ e3[4] = n % 256
  <2> SUFFICES ASSUME p.extension # << >>
               PROVE  /\ e3 \in Seq(Int) /\ Len(e3) = 4 + 4 * n
                      /\ e3[3] = n \div 256 /\ e3[4] = n % 256
    OBVIOUS
  <2>1. n \in Nat
    BY <1>2
  <2>2. <<190, 222>> \in Seq(Int) /\ Len(<<190, 222>>) = 2
    OBVIOUS
  <2> DEFINE x == <<190, 222>>
             t == Two(n)
             w == Words(n)
  <2>3. /\ t \in Seq(Int) /\ Len(t) = 2 /\ t[1] = n \div 256 /\ t[2] = n % 256
        /\ w \in Seq(Int) /\ Len(w) = 4 * n
    BY <1>3, <1>5, <2>1, ZenonT(30)
  <2> HIDE DEF x
  <2>4. Follows(x, t, e2)
    <3>1. x \in Seq(Int) /\ e2 = x \o t
      BY <2>2 DEF e2, x
    <3>2. t \in Seq(Int)
      BY <2>3
    <3> HIDE DEF t, e2
    <3> QED BY <3>1, <3>2, Joined
  <2> HIDE DEF t
  <2>5. e2 \in Seq(Int) /\ Len(e2) = 4 /\ e2[3] = n \div 256 /\ e2[4] = n % 256
    BY <2>2, <2>3, <2>4 DEF Follows, x
  <2>6. Follows(e2, w, e3)
    BY <2>3, <2>5, Joined DEF e3
  <2> HIDE DEF w
  <2> QED BY <2>1, <2>3, <2>5, <2>6 DEF Follows
<1>12. ext \in Seq(Int) /\ Len(ext) = ExtensionLength(p)
  BY <1>11, <1>2 DEF ext, ExtensionLength, n
<1>13. /\ RtpHeader(p) \in Seq(Int)
       /\ Len(RtpHeader(p)) = 12 + 4 * p.csrcs + ExtensionLength(p)
       /\ \A i \in 1 .. Len(h5) : RtpHeader(p)[i] = h5[i]
       /\ \A i \in 1 .. Len(ext) : RtpHeader(p)[Len(h5) + i] = ext[i]
  <2>1. h5 \in Seq(Int) /\ ext \in Seq(Int)
    BY <1>10, <1>12
  <2> HIDE DEF h5, ext
  <2>2. Follows(h5, ext, h5 \o ext)
    BY <2>1, Joined
  <2>3. Follows(h5, ext, RtpHeader(p))
    BY <1>1, <2>2
  <2> QED BY <1>10, <1>12, <2>3 DEF Follows
<1>14. \A i \in 1 .. 12 : RtpHeader(p)[i] = h4[i]
  <2>1. \A i \in 1 .. 12 : i \in 1 .. Len(h5)
    <3>1. Len(h5) = 12 + 4 * p.csrcs /\ p.csrcs \in Nat
      BY <1>2, <1>10
    <3> HIDE DEF h5
    <3> QED BY <3>1
  <2> QED BY <1>10, <1>13, <2>1
<1>15. \A i \in 1 .. 4 : RtpHeader(p)[i] = h2[i]
  BY <1>8, <1>9, <1>14
<1>16. \A i \in 1 .. 4 : RtpHeader(p)[4 + i] = Four(1)[i] /\ RtpHeader(p)[8 + i] = Four(2)[i]
  BY <1>8, <1>9, <1>14
<1>17. p.extension # << >> =>
         /\ RtpHeader(p)[12 + 4 * p.csrcs + 3] = n \div 256
         /\ RtpHeader(p)[12 + 4 * p.csrcs + 4] = n % 256
  <2> SUFFICES ASSUME p.extension # << >>
               PROVE  /\ RtpHeader(p)[12 + 4 * p.csrcs + 3] = n \div 256
                      /\ RtpHeader(p)[12 + 4 * p.csrcs + 4] = n % 256
    OBVIOUS
  <2>1. ext = e3 /\ n \in Nat
    BY <1>2 DEF ext
  <2>2. 3 \in 1 .. Len(ext) /\ 4 \in 1 .. Len(ext)
    BY <1>11, <2>1
  <2>3. RtpHeader(p)[Len(h5) + 3] = ext[3] /\ RtpHeader(p)[Len(h5) + 4] = ext[4]
    BY <1>13, <2>2
  <2> QED BY <1>10, <1>11, <2>1, <2>3
<1>18. /\ RtpHeader(p)[1] = h2[1] /\ RtpHeader(p)[2] = h2[2]
       /\ RtpHeader(p)[3] = h2[3] /\ RtpHeader(p)[4] = h2[4]
  BY <1>15
<1>19. /\ RtpHeader(p)[1] = 128 + 32 * Flag(p.padding > 0)
                              + 16 * Flag(p.extension # << >>) + p.csrcs
       /\ RtpHeader(p)[2] = 128 * p.marker + p.type
       /\ RtpHeader(p)[3] = p.seq \div 256 /\ RtpHeader(p)[4] = p.seq % 256
  BY <1>7, <1>18 DEF first, second
<1>20. p.extension # << >> =>
         /\ RtpHeader(p)[12 + 4 * p.csrcs + 3] = p.extension[1] \div 256
         /\ RtpHeader(p)[12 + 4 * p.csrcs + 4] = p.extension[1] % 256
  BY <1>17 DEF n
<1> QED BY <1>13, <1>16, <1>19, <1>20

\* What the octets of the header say.
LEMMA OctetFields ==
  ASSUME NEW f \in {0, 1}, NEW e \in {0, 1}, NEW c \in Nat, c < 16,
         NEW m \in {0, 1}, NEW k \in Nat, k < 128, NEW s \in Nat
  PROVE  /\ (128 + 32 * f + 16 * e + c) \div 64 = 2
         /\ ((128 + 32 * f + 16 * e + c) \div 16) % 2 = e
         /\ ((128 + 32 * f + 16 * e + c) \div 32) % 2 = f
         /\ (128 + 32 * f + 16 * e + c) % 16 = c
         /\ (128 * m + k) \div 128 = m
         /\ (128 * m + k) % 128 = k
         /\ 256 * (s \div 256) + (s % 256) = s
         /\ s < 16384 => (s * 4) % 65536 = s * 4
<1>1. CASE f = 0 /\ e = 0  BY <1>1
<1>2. CASE f = 0 /\ e = 1  BY <1>2
<1>3. CASE f = 1 /\ e = 0  BY <1>3
<1>4. CASE f = 1 /\ e = 1  BY <1>4
<1> QED BY <1>1, <1>2, <1>3, <1>4

\* Four octets in a row are read back.
LEMMA FourOctets ==
  ASSUME NEW data \in Seq(Int), NEW o \in Nat, o + 4 <= Len(data), NEW k \in Nat,
         \A i \in 1 .. 4 : data[o + i] = Four(k)[i]
  PROVE  Uint32(data, o) = Four(k)
<1> DEFINE four == Four(k)
           cut  == SubSeq(data, o + 1, o + 4)
<1>1. four \in Seq(Int) /\ Len(four) = 4
  BY DEF Four
<1>2. \A i \in 1 .. 4 : data[o + i] = four[i]
  OBVIOUS
<1>3. /\ cut \in Seq(Int) /\ Len(cut) = 4
      /\ \A i \in 1 .. 4 : cut[i] = data[o + i]
  OBVIOUS
<1> HIDE DEF four, cut
<1>4. Len(cut) = Len(four) /\ \A i \in 1 .. Len(cut) : cut[i] = four[i]
  BY <1>1, <1>2, <1>3
<1>5. cut = four
  BY <1>1, <1>3, <1>4, SeqEqual
<1> QED BY <1>5 DEF four, cut, Uint32

\* What ParsePacket leaves of the octets behind the header.
PayloadOf(p, rest) ==
  IF p.padding > 0 /\ rest # << >> /\ Last(rest) <= Len(rest)
  THEN SubSeq(rest, 1, Len(rest) - Last(rest))
  ELSE rest

\* A packet that begins with the header of p, or with a part of it.
LEMMA HeaderRead ==
  ASSUME NEW p, RtpPacket(p), NEW data \in Seq(Int),
         \A i \in 1 .. Len(data) : i <= Len(RtpHeader(p)) => data[i] = RtpHeader(p)[i]
  PROVE  ParsePacket(data) =
           IF Len(data) < Len(RtpHeader(p)) THEN Malformed
           ELSE [marker |-> p.marker, type |-> p.type, seq |-> p.seq,
                 time |-> Four(1), ssrc |-> Four(2),
                 payload |-> PayloadOf(p, SubSeq(data, Len(RtpHeader(p)) + 1, Len(data)))]
<1> DEFINE h    == RtpHeader(p)
           len  == Len(data)
           hlen == Len(h)
           x    == ExtensionLength(p)
           f    == Flag(p.padding > 0)
           e    == Flag(p.extension # << >>)
           c    == p.csrcs
           m    == p.marker
           k    == p.type
           s    == p.seq
           n    == p.extension[1]
           time == Four(1)
           ssrc == Four(2)
<1>1. /\ c \in Nat /\ c < 16 /\ m \in {0, 1} /\ k \in Nat /\ k < 128 /\ s \in Nat
      /\ p.extension # << >> => n \in Nat /\ n < 16384
  BY DEF RtpPacket
<1>2. f \in {0, 1} /\ (f = 1 <=> p.padding > 0)
  BY DEF Flag
<1>3. e \in {0, 1} /\ (e = 1 <=> p.extension # << >>)
  BY DEF Flag
<1>4. h \in Seq(Int) /\ hlen = 12 + 4 * c + x
  BY HeaderFields
<1>10. /\ h[1] = 128 + 32 * f + 16 * e + c /\ h[2] = 128 * m + k
       /\ h[3] = s \div 256 /\ h[4] = s % 256
  BY HeaderFields
<1>11. /\ \A i \in 1 .. 4 : h[4 + i] = time[i]
       /\ \A i \in 1 .. 4 : h[8 + i] = ssrc[i]
  BY HeaderFields
<1>12. p.extension # << >> =>
         h[12 + 4 * c + 3] = n \div 256 /\ h[12 + 4 * c + 4] = n % 256
  BY HeaderFields
<1>5. /\ p.extension = << >> => x = 0
      /\ p.extension # << >> => x = 4 + 4 * n
  BY DEF ExtensionLength
<1> HIDE DEF h, len, hlen, x, f, e, c, m, k, s, n, time, ssrc
<1>6. len \in Nat /\ x \in Nat /\ \A i \in 1 .. len : i <= hlen => data[i] = h[i]
  <2>1. len \in Nat
    BY DEF len
  <2>2. x \in Nat
    BY <1>1, <1>5
  <2>3. \A i \in 1 .. len : i <= hlen => data[i] = h[i]
    BY DEF len, hlen, h
  <2> QED BY <2>1, <2>2, <2>3
<1>7. hlen \in Nat /\ hlen >= 12
  BY <1>1, <1>4, <1>6
<1>8. CASE len < 12
  <2>1. ParsePacket(data) = Malformed
    BY <1>8 DEF ParsePacket, len
  <2>2. len < hlen
    BY <1>6, <1>7, <1>8
  <2> QED BY <2>1, <2>2 DEF len, hlen, h
<1>9. CASE len >= 12
  <2>1. /\ data[1] = 128 + 32 * f + 16 * e + c
        /\ data[2] = 128 * m + k
        /\ data[3] = s \div 256 /\ data[4] = s % 256
    <3>1. /\ 1 \in 1 .. len /\ 1 <= hlen /\ 2 \in 1 .. len /\ 2 <= hlen
          /\ 3 \in 1 .. len /\ 3 <= hlen /\ 4 \in 1 .. len /\ 4 <= hlen
      BY <1>6, <1>7, <1>9
    <3>2. data[1] = h[1] /\ data[2] = h[2] /\ data[3] = h[3] /\ data[4] = h[4]
      BY <1>6, <3>1
    <3> QED BY <1>10, <3>2
  <2>2. /\ Version(data) = 2 /\ CsrcEnd(data) = 12 + 4 * c
        /\ Extended(data) <=> p.extension # << >>
        /\ Padded(data) <=> p.padding > 0
        /\ Octet(data, 1) \div 128 = m /\ Octet(data, 1) % 128 = k
        /\ Uint16(data, 2) = s
    <3> DEFINE o == 128 + 32 * f + 16 * e + c
               q == 128 * m + k
               u == 256 * (s \div 256) + (s % 256)
    <3>1. /\ o \div 64 = 2 /\ (o \div 16) % 2 = e /\ (o \div 32) % 2 = f /\ o % 16 = c
          /\ q \div 128 = m /\ q % 128 = k /\ u = s
      BY <1>1, <1>2, <1>3, OctetFields
    <3>2. Octet(data, 0) = o /\ Octet(data, 1) = q /\ Uint16(data, 2) = u
      BY <2>1 DEF Octet, Uint16
    <3> HIDE DEF o, q, u
    <3> QED BY <1>2, <1>3, <3>1, <3>2 DEF Version, CsrcEnd, Extended, Padded
  <2>3. Uint32(data, 4) = Four(1) /\ Uint32(data, 8) = Four(2)
    <3>1. ASSUME NEW i \in 1 .. 4
          PROVE  data[4 + i] = Four(1)[i] /\ data[8 + i] = Four(2)[i]
      <4>1. 4 + i \in 1 .. len /\ 4 + i <= hlen /\ 8 + i \in 1 .. len /\ 8 + i <= hlen
        BY <1>6, <1>7, <1>9
      <4>2. data[4 + i] = h[4 + i] /\ data[8 + i] = h[8 + i]
        BY <1>6, <4>1
      <4>3. data[4 + i] = time[i] /\ data[8 + i] = ssrc[i]
        BY <1>11, <4>2
      <4> QED BY <4>3 DEF time, ssrc
    <3>2. 4 + 4 <= Len(data) /\ 8 + 4 <= Len(data)
      BY <1>6, <1>9 DEF len
    <3> QED BY <3>1, <3>2, FourOctets
  <2>4. CASE p.extension = << >>
    <3>1. HeaderSize(data) = hlen /\ hlen = CsrcEnd(data)
      BY <1>1, <1>4, <1>5, <2>2, <2>4 DEF HeaderSize
    <3>2. ParsePacket(data) =
            IF len < hlen THEN Malformed
            ELSE [marker |-> m, type |-> k, seq |-> s,
                  time |-> Four(1), ssrc |-> Four(2),
                  payload |-> Unpadded(data, SubSeq(data, hlen + 1, len))]
      BY <1>6, <1>9, <2>2, <2>3, <2>4, <3>1 DEF ParsePacket, len
    <3> QED BY <2>2, <3>2 DEF Unpadded, PayloadOf, len, hlen, h, m, k, s
  <2>5. CASE p.extension # << >>
    <3>1. n \in Nat /\ n < 16384 /\ hlen = 12 + 4 * c + 4 + 4 * n
      BY <1>1, <1>4, <1>5, <2>5
    <3>2. ASSUME len >= CsrcEnd(data) + 4 PROVE HeaderSize(data) = hlen
      <4>1. /\ 12 + 4 * c + 3 \in 1 .. len /\ 12 + 4 * c + 3 <= hlen
            /\ 12 + 4 * c + 4 \in 1 .. len /\ 12 + 4 * c + 4 <= hlen
        <5>1. CsrcEnd(data) = 12 + 4 * c
          BY <2>2
        <5>2. 12 + 4 * c + 4 <= len
          BY <3>2, <5>1
        <5>3. c \in Nat /\ len \in Nat
          BY <1>1, <1>6
        <5> QED BY <3>1, <5>2, <5>3
      <4>2. /\ data[12 + 4 * c + 3] = n \div 256
            /\ data[12 + 4 * c + 4] = n % 256
        BY <1>12, <1>6, <2>5, <4>1
      <4>3. Uint16(data, CsrcEnd(data) + 2) = n
        <5>1. /\ (12 + 4 * c + 2) + 1 = 12 + 4 * c + 3
              /\ ((12 + 4 * c + 2) + 1) + 1 = 12 + 4 * c + 4
          BY <1>1
        <5>2. 256 * (n \div 256) + (n % 256) = n
          BY <3>1
        <5> QED BY <2>2, <4>2, <5>1, <5>2 DEF Uint16, Octet
      <4>4. (n * 4) % 65536 = n * 4
        BY <3>1, OctetFields
      <4>5. HeaderSize(data) = 12 + 4 * c + 4 + n * 4
        BY <2>2, <2>5, <4>3, <4>4 DEF HeaderSize
      <4> QED BY <1>1, <3>1, <4>5
    <3>3. CASE len < CsrcEnd(data) + 4
      <4>1. ParsePacket(data) = Malformed
        BY <2>2, <2>5, <3>3 DEF ParsePacket, len
      <4>2. len < hlen
        BY <1>1, <1>6, <2>2, <3>1, <3>3
      <4> QED BY <4>1, <4>2 DEF len, hlen, h
    <3>4. CASE len >= CsrcEnd(data) + 4
      <4>1. HeaderSize(data) = hlen
        BY <3>2, <3>4
      <4>2. ~(len < 12) /\ ~(len < CsrcEnd(data)) /\ ~(len < CsrcEnd(data) + 4)
        BY <1>1, <1>6, <1>9, <2>2, <3>4
      <4>3. ParsePacket(data) =
              IF len < hlen THEN Malformed
              ELSE [marker |-> m, type |-> k, seq |-> s,
                    time |-> Four(1), ssrc |-> Four(2),
                    payload |-> Unpadded(data, SubSeq(data, hlen + 1, len))]
        BY <2>2, <2>3, <4>1, <4>2 DEF ParsePacket, len
      <4> QED BY <2>2, <4>3 DEF Unpadded, PayloadOf, len, hlen, h, m, k, s
    <3>5. len < CsrcEnd(data) + 4 \/ len >= CsrcEnd(data) + 4
      BY <1>1, <1>6, <2>2
    <3> QED BY <3>3, <3>4, <3>5
  <2> QED BY <2>4, <2>5
<1> QED BY <1>6, <1>8, <1>9

\* For every packet with up to 15 contributing sources, up to 16383 words of
\* extension and up to 255 octets of padding, and for every cut of it,
\* ParsePacket reads the fields and the payload a sender wrote, or nothing of
\* a header that is not whole (packet.go:30-94).
THEOREM NumbersReadRtp ==
  ASSUME NEW p, RtpPacket(p)
  PROVE  RtpRead(p)
<1> DEFINE h    == RtpHeader(p)
           body == p.payload
           z    == p.padding
           pad  == IF z = 0 THEN << >> ELSE Append(Zeros(z - 1), z)
           a    == h \o body
           all  == a \o pad
           kept == p.kept
           data == IF kept < Len(all) /\ z = 0 THEN SubSeq(all, 1, kept) ELSE all
           rest == SubSeq(data, Len(h) + 1, Len(data))
<1>1. BuildRtp(p) = data
  BY DEF BuildRtp
<1>2. /\ h \in Seq(Int) /\ body \in Seq(Int) /\ z \in Nat /\ kept \in Nat
  BY HeaderFields DEF RtpPacket
<1>3. pad \in Seq(Int) /\ Len(pad) = z /\ (z > 0 => pad[z] = z)
  <2>1. CASE z = 0
    BY <2>1
  <2>2. CASE z # 0
    <3> DEFINE zeros == Zeros(z - 1)
    <3>1. z - 1 \in Nat
      BY <1>2, <2>2
    <3>2. zeros \in Seq(Int) /\ Len(zeros) = z - 1
      BY <3>1 DEF Zeros
    <3> HIDE DEF zeros
    <3>3. pad = Append(zeros, z)
      BY <2>2 DEF zeros
    <3> HIDE DEF pad, z
    <3> QED BY <1>2, <3>1, <3>2, <3>3
  <2> QED BY <2>1, <2>2
<1> HIDE DEF h, body, z, pad, a, all, kept, data, rest
<1>4. Follows(h, body, a)
  BY <1>2, Joined DEF a
<1>5. Follows(a, pad, all)
  BY <1>3, <1>4, Joined DEF all, Follows
<1>6. /\ all \in Seq(Int) /\ Len(all) = Len(h) + Len(body) + z
      /\ Len(h) \in Nat /\ Len(body) \in Nat /\ Len(a) = Len(h) + Len(body)
  <2>1. Len(h) \in Nat /\ Len(body) \in Nat
    BY <1>2
  <2>2. Len(a) = Len(h) + Len(body)
    BY <1>4 DEF Follows
  <2>3. all \in Seq(Int) /\ Len(all) = Len(a) + Len(pad)
    BY <1>5 DEF Follows
  <2> QED BY <1>3, <2>1, <2>2, <2>3
<1>7. \A i \in 1 .. Len(h) : all[i] = h[i]
  <2>1. ASSUME NEW i \in 1 .. Len(h) PROVE all[i] = h[i]
    <3>1. i \in 1 .. Len(a)
      BY <1>4, <1>6 DEF Follows
    <3> QED BY <1>4, <1>5, <3>1 DEF Follows
  <2> QED BY <2>1
<1>8. /\ data \in Seq(Int) /\ Len(data) <= Len(all) /\ Len(data) \in Nat
      /\ \A i \in 1 .. Len(data) : data[i] = all[i]
      /\ z > 0 => data = all
  <2>1. CASE kept < Len(all) /\ z = 0
    BY <1>2, <1>6, <2>1 DEF data
  <2>2. CASE ~(kept < Len(all) /\ z = 0)
    BY <1>2, <1>6, <2>2 DEF data
  <2> QED BY <2>1, <2>2
<1>9. \A i \in 1 .. Len(data) : i <= Len(h) => data[i] = h[i]
  <2>1. ASSUME NEW i \in 1 .. Len(data), i <= Len(h) PROVE data[i] = h[i]
    <3>1. i \in 1 .. Len(h)
      BY <1>6, <1>8, <2>1
    <3> QED BY <1>7, <1>8, <3>1
  <2> QED BY <2>1
<1>10. ParsePacket(data) =
         IF Len(data) < Len(h) THEN Malformed
         ELSE [marker |-> p.marker, type |-> p.type, seq |-> p.seq,
               time |-> Four(1), ssrc |-> Four(2), payload |-> PayloadOf(p, rest)]
  BY <1>8, <1>9, HeaderRead DEF h, rest
<1>11. ASSUME Len(data) >= Len(h)
       PROVE  PayloadOf(p, rest) = SubSeq(body, 1, Len(data) - z - Len(h))
  <2>1. /\ rest \in Seq(Int) /\ Len(rest) = Len(data) - Len(h)
        /\ \A i \in 1 .. Len(rest) : rest[i] = data[Len(h) + i]
    <3> DEFINE k == Len(h)
    <3>1. data \in Seq(Int) /\ k \in Nat /\ k <= Len(data)
      BY <1>6, <1>8, <1>11
    <3> HIDE DEF k
    <3>2. /\ SubSeq(data, k + 1, Len(data)) \in Seq(Int)
          /\ Len(SubSeq(data, k + 1, Len(data))) = Len(data) - k
          /\ \A i \in 1 .. Len(data) - k : SubSeq(data, k + 1, Len(data))[i] = data[k + i]
      BY <3>1
    <3> QED BY <3>2 DEF rest, k
  <2>2. \A i \in 1 .. Len(rest) : i <= Len(body) => rest[i] = body[i]
    <3>1. ASSUME NEW i \in 1 .. Len(rest), i <= Len(body) PROVE rest[i] = body[i]
      <4>1. /\ i \in 1 .. Len(body) /\ Len(h) + i \in 1 .. Len(a)
            /\ Len(h) + i \in 1 .. Len(data)
        BY <1>6, <1>8, <2>1, <3>1
      <4>2. rest[i] = all[Len(h) + i]
        BY <1>8, <2>1, <4>1
      <4>3. all[Len(h) + i] = a[Len(h) + i] /\ a[Len(h) + i] = body[i]
        BY <1>4, <1>5, <4>1 DEF Follows
      <4> QED BY <4>2, <4>3
    <3> QED BY <3>1
  <2> DEFINE n   == Len(data) - z - Len(h)
             cut == SubSeq(body, 1, n)
  <2>3. CASE z = 0
    <3>1. n = Len(rest) /\ n \in 0 .. Len(body)
      BY <1>6, <1>8, <1>11, <2>1, <2>3
    <3> HIDE DEF n
    <3>2. cut \in Seq(Int) /\ Len(cut) = n /\ \A i \in 1 .. n : cut[i] = body[i]
      BY <1>2, <1>6, <3>1
    <3> HIDE DEF cut
    <3>3. Len(cut) = Len(rest) /\ \A i \in 1 .. Len(cut) : cut[i] = rest[i]
      BY <1>6, <2>2, <3>1, <3>2
    <3>4. cut = rest
      BY <2>1, <3>2, <3>3, SeqEqual
    <3>5. PayloadOf(p, rest) = rest
      BY <2>3 DEF PayloadOf, z
    <3> QED BY <3>4, <3>5 DEF cut, n
  <2>4. CASE z > 0
    <3>1. data = all /\ n = Len(body) /\ Len(rest) = Len(body) + z
      BY <1>2, <1>6, <1>8, <2>1, <2>4
    <3>2. Last(rest) = z
      <4>1. /\ z \in 1 .. Len(pad) /\ Len(rest) \in 1 .. Len(rest)
            /\ Len(h) + Len(rest) = Len(a) + z
        BY <1>2, <1>3, <1>4, <1>6, <2>4, <3>1 DEF Follows
      <4>2. rest[Len(rest)] = all[Len(h) + Len(rest)]
        BY <2>1, <3>1, <4>1
      <4>3. all[Len(a) + z] = pad[z]
        BY <1>5, <4>1 DEF Follows
      <4> QED BY <1>3, <2>4, <4>1, <4>2, <4>3 DEF Last
    <3>3. rest # << >> /\ Last(rest) <= Len(rest) /\ Len(rest) - Last(rest) = Len(body)
      BY <1>2, <1>6, <2>4, <3>1, <3>2
    <3>4. PayloadOf(p, rest) = SubSeq(rest, 1, Len(body))
      BY <2>4, <3>3 DEF PayloadOf, z
    <3> DEFINE front == SubSeq(rest, 1, Len(body))
    <3>5. /\ front \in Seq(Int) /\ Len(front) = Len(body)
          /\ \A i \in 1 .. Len(body) : front[i] = rest[i]
      BY <1>2, <1>6, <2>1, <3>1
    <3> HIDE DEF front
    <3>6. \A i \in 1 .. Len(front) : front[i] = body[i]
      <4>1. ASSUME NEW i \in 1 .. Len(front) PROVE front[i] = body[i]
        <5>1. i \in 1 .. Len(rest) /\ i <= Len(body) /\ i \in 1 .. Len(body)
          BY <1>2, <1>6, <3>1, <3>5
        <5> QED BY <2>2, <3>5, <5>1
      <4> QED BY <4>1
    <3>7. front = body
      BY <1>2, <3>5, <3>6, SeqEqual
    <3>8. SubSeq(body, 1, n) = body
      BY <1>2, <3>1, SubSeqFull
    <3> QED BY <3>4, <3>7, <3>8 DEF front
  <2>5. z = 0 \/ z > 0
    BY <1>2
  <2> QED BY <2>3, <2>4, <2>5
<1>12. CASE Len(data) < Len(h)
  BY <1>1, <1>10, <1>12 DEF RtpRead, h
<1>13. CASE Len(data) >= Len(h)
  <2>1. ~(Len(data) < Len(h))
    BY <1>6, <1>8, <1>13
  <2>2. PayloadOf(p, rest) = SubSeq(body, 1, Len(data) - z - Len(h))
    BY <1>11, <1>13
  <2> QED BY <1>1, <1>10, <2>1, <2>2 DEF RtpRead, h, body, z
<1> QED BY <1>6, <1>8, <1>12, <1>13
-----------------------------------------------------------------------------
(* RTCP packets.                                                           *)

\* The octets at the beginning of the data are those of s.
Begins(data, s) == Len(s) <= Len(data) /\ \A i \in 1 .. Len(s) : data[i] = s[i]

LEMMA BeginsWithFirst ==
  ASSUME NEW s \in Seq(Int), NEW t \in Seq(Int), NEW data \in Seq(Int),
         Begins(data, s \o t)
  PROVE  /\ Begins(data, s) /\ Len(s) + Len(t) <= Len(data)
         /\ \A i \in 1 .. Len(t) : data[Len(s) + i] = t[i]
<1> DEFINE r == s \o t
<1>1. Follows(s, t, r)
  BY Joined
<1>2. Begins(data, r)
  OBVIOUS
<1> HIDE DEF r
<1>3. Len(r) = Len(s) + Len(t) /\ Len(s) \in Nat /\ Len(t) \in Nat /\ Len(data) \in Nat
  BY <1>1 DEF Follows
<1>4. Len(s) + Len(t) <= Len(data)
  BY <1>2, <1>3 DEF Begins
<1>5. Begins(data, s)
  <2>1. ASSUME NEW i \in 1 .. Len(s) PROVE data[i] = s[i]
    <3>1. i \in 1 .. Len(r)
      BY <1>3
    <3> QED BY <1>1, <1>2, <3>1 DEF Begins, Follows
  <2> QED BY <1>3, <1>4, <2>1 DEF Begins
<1>6. ASSUME NEW i \in 1 .. Len(t) PROVE data[Len(s) + i] = t[i]
  <2>1. Len(s) + i \in 1 .. Len(r)
    BY <1>3
  <2>2. data[Len(s) + i] = r[Len(s) + i]
    BY <1>2, <2>1 DEF Begins
  <2> QED BY <1>1, <2>2 DEF Follows
<1> QED BY <1>4, <1>5, <1>6

LEMMA FourIsFour ==
  ASSUME NEW k \in Nat
  PROVE  Four(k) \in Seq(Int) /\ Len(Four(k)) = 4
BY DEF Four

\* Four octets behind others make these longer by four.
LEMMA FourBehind ==
  ASSUME NEW s \in Seq(Int), NEW k \in Nat
  PROVE  s \o Four(k) \in Seq(Int) /\ Len(s \o Four(k)) = Len(s) + 4
<1> DEFINE t == Four(k)
<1>1. t \in Seq(Int) /\ Len(t) = 4
  BY FourIsFour
<1> HIDE DEF t
<1>2. s \o t \in Seq(Int) /\ Len(s \o t) = Len(s) + Len(t)
  BY <1>1, ConcatProperties
<1>3. s \o t \in Seq(Int) /\ Len(s \o t) = Len(s) + 4
  BY <1>1, <1>2
<1> QED BY <1>3 DEF t

\* The last four octets are read, and the others are still in front.
LEMMA FourRead ==
  ASSUME NEW s \in Seq(Int), NEW k \in Nat, NEW data \in Seq(Int),
         Begins(data, s \o Four(k))
  PROVE  Uint32(data, Len(s)) = Four(k) /\ Begins(data, s)
<1> DEFINE t == Four(k)
           n == Len(s)
<1>1. t \in Seq(Int) /\ Len(t) = 4
  BY FourIsFour
<1>2. Begins(data, s \o t)
  OBVIOUS
<1> HIDE DEF t
<1>3. /\ Begins(data, s) /\ Len(s) + Len(t) <= Len(data)
      /\ \A i \in 1 .. Len(t) : data[Len(s) + i] = t[i]
  BY <1>1, <1>2, BeginsWithFirst
<1>4. n \in Nat
  OBVIOUS
<1> HIDE DEF n
<1>5. n + 4 <= Len(data) /\ \A i \in 1 .. 4 : data[n + i] = t[i]
  BY <1>1, <1>3 DEF n
<1>6. n + 4 <= Len(data) /\ \A i \in 1 .. 4 : data[n + i] = Four(k)[i]
  BY <1>5 DEF t
<1>7. Uint32(data, n) = Four(k)
  BY <1>4, <1>6, FourOctets
<1> QED BY <1>3, <1>7 DEF n

\* The same for the first four octets.
LEMMA FourFirst ==
  ASSUME NEW k \in Nat, NEW data \in Seq(Int), Begins(data, Four(k))
  PROVE  Uint32(data, 0) = Four(k)
<1> DEFINE four == Four(k)
           cut  == SubSeq(data, 1, 4)
<1>1. four \in Seq(Int) /\ Len(four) = 4
  BY FourIsFour
<1>2. Begins(data, four)
  OBVIOUS
<1> HIDE DEF four
<1>3. 4 <= Len(data) /\ \A i \in 1 .. 4 : data[i] = four[i]
  BY <1>1, <1>2 DEF Begins
<1>4. cut \in Seq(Int) /\ Len(cut) = 4 /\ \A i \in 1 .. 4 : cut[i] = data[i]
  BY <1>3
<1>5. Uint32(data, 0) = cut
  BY DEF Uint32
<1> HIDE DEF cut
<1>6. Len(cut) = Len(four) /\ \A i \in 1 .. Len(cut) : cut[i] = four[i]
  BY <1>1, <1>3, <1>4
<1>7. cut = four
  BY <1>1, <1>4, <1>6, SeqEqual
<1> QED BY <1>5, <1>7 DEF four

\* A report block with a loss count of 24 bits.
ReportBlock(b) ==
  /\ b.fraction \in Nat
  /\ b.lost \in Int /\ -Uint24s <= 2 * b.lost /\ 2 * b.lost < Uint24s

\* Three octets as a signed number.
Number24(a, b, c) ==
  LET number == 65536 * a + (256 * b + c)
  IN  IF a >= 128 THEN number - Uint24s ELSE number

LEMMA SignedOctets ==
  ASSUME NEW n \in Int, -Uint24s <= 2 * n, 2 * n < Uint24s
  PROVE  /\ Signed(n) \in Seq(Int) /\ Len(Signed(n)) = 3
         /\ Number24(Signed(n)[1], Signed(n)[2], Signed(n)[3]) = n
<1> DEFINE all == Uint24s
           u == IF n < 0 THEN n + all ELSE n
           a == u \div 65536
           r == u % 65536
           b == r \div 256
           c == r % 256
           x == <<a>>
           t == Two(r)
           s == x \o t
<1>1. Signed(n) = s
  BY DEF Signed
<1>2. /\ a \in Int /\ b \in Int /\ c \in Int /\ r \in Nat
      /\ Number24(a, b, c) = n
  <2>1. all = 65536 * 256
    BY SMT DEF Uint24s
  <2>2. -all <= 2 * n /\ 2 * n < all
    OBVIOUS
  <2>3. u = IF n < 0 THEN n + all ELSE n
    OBVIOUS
  <2> HIDE DEF u, all
  <2>4. u \in Nat /\ u < all /\ (n < 0 => u = n + all) /\ (n >= 0 => u = n)
    BY <2>1, <2>2, <2>3, SMT
  <2>5. a \in Int /\ r \in Nat /\ u = 65536 * a + r /\ r < 65536
    BY <2>4, SMT
  <2> HIDE DEF a, r
  <2>6. b \in Int /\ c \in Int /\ r = 256 * b + c
    BY <2>5, SMT
  <2> HIDE DEF b, c
  <2>7. a >= 128 <=> n < 0
    BY <2>1, <2>2, <2>4, <2>5, SMT
  <2>8. Number24(a, b, c) = IF a >= 128 THEN u - all ELSE u
    BY <2>5, <2>6, SMT DEF Number24, all
  <2>9. Number24(a, b, c) = n
    BY <2>1, <2>4, <2>7, <2>8, SMT
  <2> QED BY <2>5, <2>6, <2>9
<1>3. x \in Seq(Int) /\ Len(x) = 1 /\ x[1] = a
  BY <1>2
<1>4. t \in Seq(Int) /\ Len(t) = 2 /\ t[1] = b /\ t[2] = c
  BY <1>2 DEF Two
<1> HIDE DEF u, a, r, b, c, x, t
<1>5. Follows(x, t, s)
  BY <1>3, <1>4, Joined
<1> HIDE DEF s
<1>6. s \in Seq(Int) /\ Len(s) = 3 /\ s[1] = a /\ s[2] = b /\ s[3] = c
  BY <1>3, <1>4, <1>5 DEF Follows
<1> QED BY <1>1, <1>2, <1>6

\* A report block comes back whole.
LEMMA ReportBlockRead ==
  ASSUME NEW q, ReportBlock(q)
  PROVE  /\ BuildBlock(q) \in Seq(Int) /\ Len(BuildBlock(q)) = 24
         /\ parseReportBlock(BuildBlock(q)) = ReadBlock(q)
<1> DEFINE f  == q.fraction
           x  == <<f>>
           sg == Signed(q.lost)
           g1 == Four(3)
           g2 == g1 \o x
           g3 == g2 \o sg
           g4 == g3 \o Four(4)
           g5 == g4 \o Four(5)
           g6 == g5 \o Four(6)
           g7 == g6 \o Four(7)
<1>1. BuildBlock(q) = g7
  BY DEF BuildBlock
<1>2. f \in Int /\ q.lost \in Int /\ -Uint24s <= 2 * q.lost /\ 2 * q.lost < Uint24s
  BY DEF ReportBlock
<1>3. sg \in Seq(Int) /\ Len(sg) = 3
  BY <1>2, SignedOctets
<1>4. Number24(sg[1], sg[2], sg[3]) = q.lost
  BY <1>2, SignedOctets
<1>5. x \in Seq(Int) /\ Len(x) = 1 /\ x[1] = f
  BY <1>2
<1>6. g1 \in Seq(Int) /\ Len(g1) = 4
  BY FourIsFour
<1> HIDE DEF f, x, sg, g1, g2, g3, g4, g5, g6, g7
<1>7. g2 \in Seq(Int) /\ Len(g2) = 5
  <2>1. Follows(g1, x, g2)
    BY <1>5, <1>6, Joined DEF g2
  <2> QED BY <1>5, <1>6, <2>1 DEF Follows
<1>8. g3 \in Seq(Int) /\ Len(g3) = 8
  <2>1. Follows(g2, sg, g3)
    BY <1>3, <1>7, Joined DEF g3
  <2> QED BY <1>3, <1>7, <2>1 DEF Follows
<1>9. g4 \in Seq(Int) /\ Len(g4) = 12
  <2>1. g4 \in Seq(Int) /\ Len(g4) = Len(g3) + 4
    BY <1>8, FourBehind DEF g4
  <2> QED BY <1>8, <2>1
<1>10. g5 \in Seq(Int) /\ Len(g5) = 16
  <2>1. g5 \in Seq(Int) /\ Len(g5) = Len(g4) + 4
    BY <1>9, FourBehind DEF g5
  <2> QED BY <1>9, <2>1
<1>11. g6 \in Seq(Int) /\ Len(g6) = 20
  <2>1. g6 \in Seq(Int) /\ Len(g6) = Len(g5) + 4
    BY <1>10, FourBehind DEF g6
  <2> QED BY <1>10, <2>1
<1>12. g7 \in Seq(Int) /\ Len(g7) = 24
  <2>1. g7 \in Seq(Int) /\ Len(g7) = Len(g6) + 4
    BY <1>11, FourBehind DEF g7
  <2> QED BY <1>11, <2>1
<1>13. Begins(g7, g7)
  BY <1>12 DEF Begins
<1>14. Uint32(g7, 20) = Four(7) /\ Begins(g7, g6)
  <2>1. Uint32(g7, Len(g6)) = Four(7) /\ Begins(g7, g6)
    BY <1>11, <1>12, <1>13, FourRead DEF g7
  <2> QED BY <1>11, <2>1
<1>15. Uint32(g7, 16) = Four(6) /\ Begins(g7, g5)
  <2>1. Uint32(g7, Len(g5)) = Four(6) /\ Begins(g7, g5)
    BY <1>10, <1>12, <1>14, FourRead DEF g6
  <2> QED BY <1>10, <2>1
<1>16. Uint32(g7, 12) = Four(5) /\ Begins(g7, g4)
  <2>1. Uint32(g7, Len(g4)) = Four(5) /\ Begins(g7, g4)
    BY <1>9, <1>12, <1>15, FourRead DEF g5
  <2> QED BY <1>9, <2>1
<1>17. Uint32(g7, 8) = Four(4) /\ Begins(g7, g3)
  <2>1. Uint32(g7, Len(g3)) = Four(4) /\ Begins(g7, g3)
    BY <1>8, <1>12, <1>16, FourRead DEF g4
  <2> QED BY <1>8, <2>1
<1>18. Begins(g7, g2) /\ g7[6] = sg[1] /\ g7[7] = sg[2] /\ g7[8] = sg[3]
  <2>1. Begins(g7, g2) /\ \A i \in 1 .. Len(sg) : g7[Len(g2) + i] = sg[i]
    BY <1>3, <1>7, <1>12, <1>17, BeginsWithFirst DEF g3
  <2> QED BY <1>3, <1>7, <2>1
<1>19. Begins(g7, g1) /\ g7[5] = f
  <2>1. Begins(g7, g1) /\ \A i \in 1 .. Len(x) : g7[Len(g1) + i] = x[i]
    BY <1>5, <1>6, <1>12, <1>18, BeginsWithFirst DEF g2
  <2> QED BY <1>5, <1>6, <2>1
<1>20. Uint32(g7, 0) = Four(3)
  BY <1>12, <1>19, FourFirst DEF g1
<1>21. /\ Octet(g7, 4) = f /\ Octet(g7, 5) = sg[1] /\ Octet(g7, 6) = sg[2]
       /\ Octet(g7, 7) = sg[3]
  BY <1>18, <1>19 DEF Octet
<1>22. [k \in 1 .. 4 |-> Uint32(g7, 4 + 4 * k)] = <<Four(4), Four(5), Four(6), Four(7)>>
  <2>1. ASSUME NEW k \in 1 .. 4
        PROVE  Uint32(g7, 4 + 4 * k) = <<Four(4), Four(5), Four(6), Four(7)>>[k]
    <3>1. CASE k = 1
      BY <1>17, <3>1
    <3>2. CASE k = 2
      BY <1>16, <3>2
    <3>3. CASE k = 3
      BY <1>15, <3>3
    <3>4. CASE k = 4
      BY <1>14, <3>4
    <3> QED BY <3>1, <3>2, <3>3, <3>4
  <2> QED BY <2>1
<1>23. parseReportBlock(g7) = ReadBlock(q)
  <2> DEFINE loss == Number24(Octet(g7, 5), Octet(g7, 6), Octet(g7, 7))
  <2>1. loss = q.lost
    BY <1>4, <1>21, Zenon
  <2>2. parseReportBlock(g7)
          = [ssrc |-> Uint32(g7, 0), fractionLost |-> Octet(g7, 4), packetsLost |-> loss,
             others |-> [k \in 1 .. 4 |-> Uint32(g7, 4 + 4 * k)]]
    BY SMT DEF parseReportBlock, Number24, Uint16
  <2> HIDE DEF loss
  <2> QED BY <1>20, <1>21, <1>22, <2>1, <2>2 DEF ReadBlock, f
<1> QED BY <1>1, <1>12, <1>23

\* Sequences put together one by one.
Accumulates(g, seqs, n, S) ==
  /\ g \in [Nat -> Seq(S)] /\ g[0] = << >>
  /\ \A k \in 1 .. n : g[k] = g[k - 1] \o seqs[k]

LEMMA Accumulated ==
  ASSUME NEW S, NEW n \in Nat, NEW seqs, \A k \in 1 .. n : seqs[k] \in Seq(S)
  PROVE  \E g : Accumulates(g, seqs, n, S)
<1> DEFINE V     == Seq(S)
           empty == << >>
           next(j, v) == IF j < n THEN v \o seqs[j + 1] ELSE v
           h     == [j \in Nat |-> [v \in V |-> next(j, v)]]
<1>1. empty \in V /\ h \in [Nat -> [V -> V]]
  <2>1. ASSUME NEW j \in Nat, NEW v \in V PROVE next(j, v) \in V
    <3>1. CASE j < n
      <4>1. j + 1 \in 1 .. n
        BY <3>1
      <4>2. seqs[j + 1] \in V
        BY <4>1
      <4> QED BY <3>1, <4>2, ConcatProperties
    <3>2. CASE ~(j < n)
      BY <3>2
    <3> QED BY <3>1, <3>2
  <2>2. empty \in V
    OBVIOUS
  <2> HIDE DEF V, next, empty
  <2> QED BY <2>1, <2>2
<1>r. PICK g : Iterates(g, V, empty, h)
  <2> HIDE DEF V, h, empty
  <2> QED BY <1>1, Recursion
<1>2. g \in [Nat -> V] /\ g[0] = empty /\ \A j \in Nat : g[j + 1] = h[j][g[j]]
  BY <1>r DEF Iterates
<1>3. ASSUME NEW k \in 1 .. n PROVE g[k] = g[k - 1] \o seqs[k]
  <2>1. k - 1 \in Nat /\ k - 1 < n /\ (k - 1) + 1 = k
    OBVIOUS
  <2>2. g[(k - 1) + 1] = h[k - 1][g[k - 1]] /\ g[k - 1] \in V
    BY <1>2, <2>1
  <2>3. h[k - 1][g[k - 1]] = next(k - 1, g[k - 1])
    <3> HIDE DEF V, next
    <3> QED BY <2>1, <2>2
  <2> HIDE DEF V, h
  <2> QED BY <2>1, <2>2, <2>3
<1> QED BY <1>2, <1>3 DEF Accumulates

\* The k-th piece lies between the lengths of the sequences without and with it.
Piece(g, seqs, k, S) ==
  /\ Len(g[k - 1]) \in Nat /\ Len(seqs[k]) \in Nat
  /\ g[k] \in Seq(S) /\ Len(g[k]) = Len(g[k - 1]) + Len(seqs[k])
  /\ \A i \in 1 .. Len(g[k - 1]) : g[k][i] = g[k - 1][i]
  /\ \A i \in 1 .. Len(seqs[k]) : g[k][Len(g[k - 1]) + i] = seqs[k][i]

LEMMA PieceInPlace ==
  ASSUME NEW S, NEW n \in Nat, NEW seqs, \A k \in 1 .. n : seqs[k] \in Seq(S),
         NEW g, Accumulates(g, seqs, n, S), NEW k \in 1 .. n
  PROVE  Piece(g, seqs, k, S)
<1> DEFINE s == g[k - 1]
           t == seqs[k]
           r == g[k]
<1>1. k - 1 \in Nat
  OBVIOUS
<1>2. s \in Seq(S) /\ t \in Seq(S) /\ r = s \o t
  BY <1>1 DEF Accumulates
<1> HIDE DEF s, t, r
<1>3. /\ Len(s) \in Nat /\ Len(t) \in Nat
      /\ s \o t \in Seq(S) /\ Len(s \o t) = Len(s) + Len(t)
      /\ \A i \in 1 .. Len(s) : (s \o t)[i] = s[i]
      /\ \A i \in 1 .. Len(t) : (s \o t)[Len(s) + i] = t[i]
  BY <1>2
<1>4. /\ r \in Seq(S) /\ Len(r) = Len(s) + Len(t)
      /\ \A i \in 1 .. Len(s) : r[i] = s[i]
      /\ \A i \in 1 .. Len(t) : r[Len(s) + i] = t[i]
  BY <1>2, <1>3
<1> QED BY <1>3, <1>4 DEF s, t, r, Piece

\* What has been put together once stays in front.
LEMMA FrontStays ==
  ASSUME NEW S, NEW n \in Nat, NEW seqs, \A k \in 1 .. n : seqs[k] \in Seq(S),
         NEW g, Accumulates(g, seqs, n, S), NEW k \in Nat, k <= n
  PROVE  Begins(g[n], g[k])
<1> DEFINE Within(j) == Len(g[j]) <= Len(g[n]) /\ \A i \in 1 .. Len(g[j]) : g[n][i] = g[j][i]
           Good == {d \in Nat : d <= n => Within(n - d)}
<1>1. 0 \in Good
  <2>1. n - 0 = n
    OBVIOUS
  <2>2. Len(g[n]) \in Nat
    BY DEF Accumulates
  <2>3. Within(n)
    BY <2>2
  <2> HIDE DEF Within
  <2> QED BY <2>1, <2>3
<1>2. ASSUME NEW d \in Nat, d \in Good PROVE d + 1 \in Good
  <2> SUFFICES ASSUME d + 1 <= n PROVE Within(n - (d + 1))
    OBVIOUS
  <2> DEFINE j == n - d
  <2>1. j \in 1 .. n /\ n - (d + 1) = j - 1
    OBVIOUS
  <2>2. Within(j)
    <3> HIDE DEF Within
    <3> QED BY <1>2
  <2> HIDE DEF j, Good
  <2>3. /\ Len(g[j - 1]) \in Nat /\ Len(seqs[j]) \in Nat
        /\ g[j] \in Seq(S) /\ Len(g[j]) = Len(g[j - 1]) + Len(seqs[j])
        /\ \A i \in 1 .. Len(g[j - 1]) : g[j][i] = g[j - 1][i]
    <3>1. Piece(g, seqs, j, S)
      BY <2>1, PieceInPlace
    <3> HIDE DEF Within
    <3> QED BY <3>1 DEF Piece
  <2>4. Len(g[n]) \in Nat
    BY DEF Accumulates
  <2>5. Within(j - 1)
    <3> DEFINE p  == g[j - 1]
               q  == g[j]
               lp == Len(p)
               lq == Len(q)
               ls == Len(seqs[j])
               ln == Len(g[n])
    <3>1. /\ lp \in Nat /\ ls \in Nat /\ ln \in Nat /\ lq = lp + ls /\ lq <= ln
          /\ \A i \in 1 .. lp : q[i] = p[i]
          /\ \A i \in 1 .. lq : g[n][i] = q[i]
      BY <2>2, <2>3, <2>4
    <3> HIDE DEF p, q, lp, lq, ls, ln
    <3>2. lp <= ln /\ \A i \in 1 .. lp : i \in 1 .. lq
      BY <3>1
    <3>3. lp <= ln /\ \A i \in 1 .. lp : g[n][i] = p[i]
      BY <3>1, <3>2
    <3> QED BY <3>3 DEF p, lp, ln
  <2> HIDE DEF Within
  <2>6. n - (d + 1) = j - 1
    BY <2>1
  <2> QED BY <2>5, <2>6
<1> HIDE DEF Good, Within
<1>3. \A d \in Nat : d \in Good
  BY <1>1, <1>2, SetInduction
<1>4. n - k \in Nat /\ n - k <= n /\ n - (n - k) = k
  OBVIOUS
<1>5. n - k \in Good
  BY <1>3, <1>4
<1>6. Within(k)
  BY <1>4, <1>5 DEF Good
<1> QED BY <1>6 DEF Within, Begins

\* FlattenSeq puts the pieces together in this way.
LEMMA FlattenAccumulates ==
  ASSUME NEW S, NEW seqs \in Seq(Seq(S)), NEW g, Accumulates(g, seqs, Len(seqs), S)
  PROVE  FlattenSeq(seqs) = g[Len(seqs)]
<1>1. CASE Len(seqs) = 0
  <2>1. FlattenSeq(seqs) = seqs
    BY <1>1 DEF FlattenSeq
  <2>2. seqs = << >>
    BY <1>1, EmptySeq
  <2> QED BY <1>1, <2>1, <2>2 DEF Accumulates
<1>2. CASE Len(seqs) # 0
  <2> DEFINE P(p) == p = [i \in 1 .. Len(seqs) |-> IF i = 1 THEN seqs[i] ELSE p[i - 1] \o seqs[i]]
             w    == [i \in 1 .. Len(seqs) |-> g[i]]
             flat == CHOOSE p : P(p)
  <2>1. FlattenSeq(seqs) = flat[Len(seqs)]
    BY <1>2 DEF FlattenSeq
  <2> DEFINE n == Len(seqs)
  <2>2. n \in Nat /\ n # 0 /\ \A k \in 1 .. n : seqs[k] \in Seq(S)
    BY <1>2
  <2>3. /\ g[0] = << >> /\ \A k \in 1 .. n : g[k] = g[k - 1] \o seqs[k]
    BY DEF Accumulates
  <2>p. P(w) => P(flat)
    <3> HIDE DEF P
    <3> QED OBVIOUS
  <2> HIDE DEF n
  <2>4. g[1] = seqs[1]
    <3>1. 1 \in 1 .. n
      BY <2>2
    <3>2. g[1] = g[1 - 1] \o seqs[1]
      BY <2>3, <3>1
    <3>3. seqs[1] \in Seq(S) /\ g[1 - 1] = << >>
      BY <2>2, <2>3, <3>1
    <3>4. << >> \o seqs[1] = seqs[1]
      BY <3>3, ConcatEmptySeq
    <3> QED BY <3>2, <3>3, <3>4
  <2>5. P(w)
    <3>1. ASSUME NEW i \in 1 .. n
          PROVE  w[i] = IF i = 1 THEN seqs[i] ELSE w[i - 1] \o seqs[i]
      <4>1. i \in 1 .. Len(seqs)
        BY DEF n
      <4>2. w[i] = g[i]
        BY <4>1
      <4>3. CASE i = 1
        BY <2>4, <4>2, <4>3
      <4>4. CASE i # 1
        <5>1. i - 1 \in 1 .. n
          BY <2>2, <4>4
        <5>2. i - 1 \in 1 .. Len(seqs)
          BY <5>1 DEF n
        <5>3. w[i - 1] = g[i - 1]
          BY <5>2
        <5> HIDE DEF w
        <5> QED BY <2>3, <4>2, <4>4, <5>3
      <4> QED BY <4>3, <4>4
    <3>2. \A i \in 1 .. Len(seqs) : w[i] = IF i = 1 THEN seqs[i] ELSE w[i - 1] \o seqs[i]
      BY <3>1 DEF n
    <3>3. \A i \in 1 .. Len(seqs) : w[i] = g[i]
      OBVIOUS
    <3> QED BY <3>2
  <2>6. P(flat)
    BY <2>5, <2>p
  <2> HIDE DEF flat
  <2>7. ASSUME NEW i \in 1 .. n
        PROVE  flat[i] = IF i = 1 THEN seqs[i] ELSE flat[i - 1] \o seqs[i]
    <3>1. \A j \in 1 .. Len(seqs) : flat[j] = IF j = 1 THEN seqs[j] ELSE flat[j - 1] \o seqs[j]
      BY <2>6
    <3> HIDE DEF P
    <3> QED BY <3>1 DEF n
  <2> HIDE DEF P, w
  <2> DEFINE Good == {i \in Nat : i + 1 <= n => flat[i + 1] = g[i + 1]}
  <2>8. 0 \in Good
    <3>1. 1 \in 1 .. n
      BY <2>2
    <3>2. flat[1] = g[1]
      BY <2>4, <2>7, <3>1
    <3> QED BY <3>2
  <2>9. ASSUME NEW i \in Nat, i \in Good PROVE i + 1 \in Good
    <3> SUFFICES ASSUME (i + 1) + 1 <= n PROVE flat[(i + 1) + 1] = g[(i + 1) + 1]
      OBVIOUS
    <3> DEFINE k == (i + 1) + 1
    <3>1. k \in 1 .. n /\ k # 1 /\ k - 1 = i + 1 /\ i + 1 <= n
      BY <2>2
    <3>2. flat[i + 1] = g[i + 1]
      BY <2>9, <3>1
    <3> HIDE DEF k
    <3>3. flat[k] = flat[k - 1] \o seqs[k] /\ g[k] = g[k - 1] \o seqs[k]
      BY <2>3, <2>7, <3>1
    <3>4. flat[k] = g[k]
      BY <3>1, <3>2, <3>3
    <3> QED BY <3>4 DEF k
  <2> HIDE DEF Good
  <2>10. \A i \in Nat : i \in Good
    BY <2>8, <2>9, SetInduction
  <2>11. (n - 1) + 1 = n /\ n - 1 \in Nat
    BY <2>2
  <2>12. n - 1 \in Good
    BY <2>10, <2>11
  <2>13. (n - 1) + 1 <= n => flat[(n - 1) + 1] = g[(n - 1) + 1]
    BY <2>12 DEF Good
  <2>14. flat[n] = g[n]
    <3>1. (n - 1) + 1 <= n
      BY <2>2, <2>11
    <3> QED BY <2>11, <2>13, <3>1
  <2> QED BY <2>1, <2>14 DEF n
<1> QED BY <1>1, <1>2

\* Pieces of one length lie at its multiples.
EvenlyLaid(flat, seqs, w) ==
  /\ flat \in Seq(Int) /\ Len(flat) = w * Len(seqs)
  /\ \A k \in 1 .. Len(seqs) : \A i \in 1 .. w : flat[w * (k - 1) + i] = seqs[k][i]

LEMMA EvenPieces ==
  ASSUME NEW w \in Nat, NEW seqs \in Seq(Seq(Int)),
         \A k \in 1 .. Len(seqs) : Len(seqs[k]) = w
  PROVE  EvenlyLaid(FlattenSeq(seqs), seqs, w)
<1> DEFINE n == Len(seqs)
<1>1. n \in Nat /\ \A k \in 1 .. n : seqs[k] \in Seq(Int) /\ Len(seqs[k]) = w
  OBVIOUS
<1>2. PICK g : Accumulates(g, seqs, Len(seqs), Int)
  BY <1>1, Accumulated
<1>3. FlattenSeq(seqs) = g[n]
  BY <1>2, FlattenAccumulates
<1>4. Accumulates(g, seqs, n, Int)
  BY <1>2
<1> HIDE DEF n
<1>5. ASSUME NEW k \in 1 .. n PROVE Piece(g, seqs, k, Int)
  BY <1>1, <1>4, PieceInPlace
<1> DEFINE Good == {k \in Nat : k <= n => Len(g[k]) = w * k}
<1>6. 0 \in Good
  <2>1. Len(g[0]) = 0 /\ w * 0 = 0
    BY <1>4 DEF Accumulates
  <2> QED BY <2>1
<1>7. ASSUME NEW k \in Nat, k \in Good PROVE k + 1 \in Good
  <2> SUFFICES ASSUME k + 1 <= n PROVE Len(g[k + 1]) = w * (k + 1)
    OBVIOUS
  <2>1. k + 1 \in 1 .. n /\ (k + 1) - 1 = k
    BY <1>1
  <2>2. Len(g[k]) = w * k
    BY <1>1, <1>7
  <2>3. Len(g[k + 1]) = Len(g[(k + 1) - 1]) + Len(seqs[k + 1])
    BY <1>5, <2>1 DEF Piece
  <2>4. Len(g[k + 1]) = w * k + w
    BY <1>1, <2>1, <2>2, <2>3
  <2>5. w * (k + 1) = w * k + w
    OBVIOUS
  <2> QED BY <2>4, <2>5
<1> HIDE DEF Good
<1>8. \A k \in Nat : k \in Good
  BY <1>6, <1>7, SetInduction
<1>9. ASSUME NEW k \in Nat, k <= n PROVE Len(g[k]) = w * k
  BY <1>8, <1>9 DEF Good
<1>10. g[n] \in Seq(Int) /\ Len(g[n]) = w * n
  <2>1. g[n] \in Seq(Int)
    BY <1>1, <1>4 DEF Accumulates
  <2> QED BY <1>1, <1>9, <2>1
<1>11. ASSUME NEW k \in 1 .. n, NEW i \in 1 .. w
       PROVE  g[n][w * (k - 1) + i] = seqs[k][i]
  <2>1. k - 1 \in Nat /\ k - 1 <= n /\ k \in Nat /\ k <= n
    BY <1>1
  <2>2. Len(g[k - 1]) = w * (k - 1) /\ Len(g[k]) = w * k
    BY <1>9, <2>1
  <2>3. Len(seqs[k]) = w
    BY <1>1
  <2>4. g[k][Len(g[k - 1]) + i] = seqs[k][i]
    <3>1. Piece(g, seqs, k, Int)
      BY <1>5
    <3> QED BY <2>3, <3>1 DEF Piece
  <2>5. g[k][w * (k - 1) + i] = seqs[k][i]
    BY <2>2, <2>4
  <2>6. \A j \in 1 .. Len(g[k]) : g[n][j] = g[k][j]
    <3>1. n \in Nat /\ \A j \in 1 .. n : seqs[j] \in Seq(Int)
      BY <1>1
    <3>2. Begins(g[n], g[k])
      BY <3>1, <1>4, <2>1, FrontStays
    <3> QED BY <3>2 DEF Begins
  <2>7. w * (k - 1) + i \in 1 .. w * k
    <3> DEFINE a == w * (k - 1)
    <3>1. w * k = a + w /\ a \in Nat
      BY <2>1
    <3> HIDE DEF a
    <3>2. a + i \in 1 .. a + w
      BY <3>1
    <3>3. a + i \in 1 .. w * k
      BY <3>1, <3>2
    <3> QED BY <3>3 DEF a
  <2> QED BY <2>2, <2>5, <2>6, <2>7
<1> QED BY <1>3, <1>10, <1>11 DEF EvenlyLaid, n

\* The octets s stand in the data behind the offset.
Holds(data, offset, s) ==
  offset + Len(s) <= Len(data) /\ \A i \in 1 .. Len(s) : data[offset + i] = s[i]

LEMMA OctetsHeld ==
  ASSUME NEW data \in Seq(Int), NEW offset \in Nat, NEW s \in Seq(Int), Holds(data, offset, s)
  PROVE  Octets(data, offset, Len(s)) = s
<1> DEFINE n   == Len(s)
           cut == SubSeq(data, offset + 1, offset + n)
<1>1. n \in Nat /\ Len(s) = n /\ offset + n <= Len(data)
      /\ \A i \in 1 .. n : data[offset + i] = s[i]
  BY DEF Holds
<1>2. Octets(data, offset, Len(s)) = cut
  BY DEF Octets
<1> HIDE DEF n
<1>3. cut \in Seq(Int) /\ Len(cut) = n /\ \A i \in 1 .. n : cut[i] = data[offset + i]
  BY <1>1
<1> HIDE DEF cut
<1>4. Len(cut) = Len(s) /\ \A i \in 1 .. Len(cut) : cut[i] = s[i]
  BY <1>1, <1>3
<1> QED BY <1>2, <1>3, <1>4, SeqEqual

\* What stands within something that stands in the data.
LEMMA HeldWithin ==
  ASSUME NEW data \in Seq(Int), NEW offset \in Nat, NEW s \in Seq(Int), Holds(data, offset, s),
         NEW o \in Nat, NEW t \in Seq(Int), Holds(s, o, t)
  PROVE  Holds(data, offset + o, t)
<1> DEFINE ls == Len(s)
           lt == Len(t)
           ld == Len(data)
<1>1. /\ ls \in Nat /\ lt \in Nat /\ ld \in Nat
      /\ offset + ls <= ld /\ \A i \in 1 .. ls : data[offset + i] = s[i]
      /\ o + lt <= ls /\ \A i \in 1 .. lt : s[o + i] = t[i]
  BY DEF Holds
<1> HIDE DEF ls, lt, ld
<1>2. (offset + o) + lt <= ld
  BY <1>1
<1>3. ASSUME NEW i \in 1 .. lt PROVE data[(offset + o) + i] = t[i]
  <2>1. o + i \in 1 .. ls /\ (offset + o) + i = offset + (o + i)
    BY <1>1
  <2> QED BY <1>1, <2>1
<1> QED BY <1>2, <1>3 DEF Holds, lt, ld

\* The header announces the version, the count and the type.
LEMMA RtcpHeaderRead ==
  ASSUME NEW n \in Nat, n < 32, NEW type \in Int, NEW data \in Seq(Int),
         Begins(data, RtcpHeader(n, type))
  PROVE  /\ Len(data) >= 4 /\ Version(data) = 2 /\ Count(data) = n
         /\ Octet(data, 1) = type
<1> DEFINE h == RtcpHeader(n, type)
<1>1. h \in Seq(Int) /\ Len(h) = 4 /\ h[1] = 128 + n /\ h[2] = type
  BY DEF RtcpHeader
<1>2. Begins(data, h)
  OBVIOUS
<1> HIDE DEF h
<1>3. 4 <= Len(data) /\ data[1] = 128 + n /\ data[2] = type
  BY <1>1, <1>2 DEF Begins
<1>4. data[0 + 1] = 128 + n /\ data[1 + 1] = type /\ Len(data) >= 4
  BY <1>3
<1>5. (128 + n) \div 64 = 2 /\ (128 + n) % 32 = n
  OBVIOUS
<1> QED BY <1>4, <1>5 DEF Version, Count, Octet

\* The blocks of a report, one behind the other.
BlocksLaid(list) == FlattenSeq([k \in DOMAIN list |-> BuildBlock(list[k])])

LEMMA BlockPlaces ==
  ASSUME NEW S, NEW list \in Seq(S), \A k \in DOMAIN list : ReportBlock(list[k])
  PROVE  /\ BlocksLaid(list) \in Seq(Int) /\ Len(BlocksLaid(list)) = 24 * Len(list)
         /\ \A k \in 1 .. Len(list) : Holds(BlocksLaid(list), 24 * (k - 1), BuildBlock(list[k]))
<1> DEFINE n    == Len(list)
           seqs == [k \in DOMAIN list |-> BuildBlock(list[k])]
           flat == FlattenSeq(seqs)
<1>1. n \in Nat /\ DOMAIN list = 1 .. n /\ Len(list) = n
  OBVIOUS
<1> HIDE DEF n
<1>2. ASSUME NEW k \in 1 .. n PROVE BuildBlock(list[k]) \in Seq(Int) /\ Len(BuildBlock(list[k])) = 24
  BY <1>1, ReportBlockRead
<1>3. /\ seqs \in Seq(Seq(Int)) /\ Len(seqs) = n
      /\ \A k \in 1 .. n : seqs[k] = BuildBlock(list[k])
  BY <1>1, <1>2
<1> HIDE DEF seqs
<1>4. \A k \in 1 .. Len(seqs) : Len(seqs[k]) = 24
  BY <1>2, <1>3
<1>5. EvenlyLaid(FlattenSeq(seqs), seqs, 24)
  BY <1>3, <1>4, EvenPieces
<1>6. BlocksLaid(list) = flat
  BY DEF BlocksLaid, seqs
<1> HIDE DEF flat
<1>7. /\ flat \in Seq(Int) /\ Len(flat) = 24 * n
      /\ \A k \in 1 .. n : \A i \in 1 .. 24 : flat[24 * (k - 1) + i] = seqs[k][i]
  BY <1>3, <1>5 DEF EvenlyLaid, flat
<1>8. ASSUME NEW k \in 1 .. n PROVE Holds(flat, 24 * (k - 1), BuildBlock(list[k]))
  <2> DEFINE b == BuildBlock(list[k])
  <2>1. b \in Seq(Int) /\ Len(b) = 24 /\ seqs[k] = b
    BY <1>2, <1>3
  <2> HIDE DEF b
  <2>2. 24 * (k - 1) + 24 <= 24 * n
    BY <1>1
  <2>3. Holds(flat, 24 * (k - 1), b)
    BY <1>7, <2>1, <2>2 DEF Holds
  <2> QED BY <2>3 DEF b
<1> QED BY <1>1, <1>6, <1>7, <1>8

LEMMA BlockAt ==
  ASSUME NEW S, NEW list \in Seq(S), \A k \in DOMAIN list : ReportBlock(list[k]),
         NEW data \in Seq(Int), NEW offset \in Nat, Holds(data, offset, BlocksLaid(list)),
         NEW k \in 1 .. Len(list)
  PROVE  parseReportBlock(Octets(data, offset + 24 * (k - 1), 24)) = ReadBlock(list[k])
<1> DEFINE b == BuildBlock(list[k])
           o == 24 * (k - 1)
           s == BlocksLaid(list)
<1>1. b \in Seq(Int) /\ Len(b) = 24 /\ parseReportBlock(b) = ReadBlock(list[k])
  BY ReportBlockRead
<1>2. o \in Nat
  OBVIOUS
<1>3. s \in Seq(Int) /\ Holds(s, o, b)
  BY BlockPlaces
<1>4. Holds(data, offset, s)
  OBVIOUS
<1> HIDE DEF b, o, s
<1>5. Holds(data, offset + o, b)
  BY <1>1, <1>2, <1>3, <1>4, HeldWithin
<1>6. offset + o \in Nat
  BY <1>2
<1>7. Octets(data, offset + o, Len(b)) = b
  BY <1>1, <1>5, <1>6, OctetsHeld
<1>8. Octets(data, offset + o, 24) = b
  BY <1>1, <1>7
<1> QED BY <1>1, <1>8 DEF o

LEMMA BlocksRead ==
  ASSUME NEW S, NEW list \in Seq(S), \A k \in DOMAIN list : ReportBlock(list[k]),
         NEW data \in Seq(Int), NEW offset \in Nat, Holds(data, offset, BlocksLaid(list)),
         Count(data) = Len(list)
  PROVE  ReportBlocks(data, offset) = [k \in DOMAIN list |-> ReadBlock(list[k])]
<1> DEFINE n   == Len(list)
           ld  == Len(data)
           fit == (ld - offset) \div 24
<1>1. n \in Nat /\ ld \in Nat /\ Count(data) = n /\ DOMAIN list = 1 .. n
  OBVIOUS
<1>2. offset + 24 * n <= ld
  BY BlockPlaces DEF Holds
<1>3. ReportBlocks(data, offset) =
        [k \in 1 .. (IF Count(data) < fit THEN Count(data) ELSE fit) |->
           parseReportBlock(Octets(data, offset + 24 * (k - 1), 24))]
  BY DEF ReportBlocks
<1>4. \A k \in 1 .. n :
        parseReportBlock(Octets(data, offset + 24 * (k - 1), 24)) = ReadBlock(list[k])
  BY BlockAt
<1>5. (IF n < fit THEN n ELSE fit) = n
  <2> HIDE DEF n, ld
  <2>1. fit \in Int /\ n <= fit
    BY <1>1, <1>2
  <2> QED BY <1>1, <2>1
<1> HIDE DEF n, ld, fit
<1> QED BY <1>1, <1>3, <1>4, <1>5

\* What is joined to a beginning stands behind it.
LEMMA HeldBehind ==
  ASSUME NEW s \in Seq(Int), NEW t \in Seq(Int), NEW data \in Seq(Int), Begins(data, s \o t)
  PROVE  Begins(data, s) /\ Holds(data, Len(s), t)
<1>1. /\ Begins(data, s) /\ Len(s) + Len(t) <= Len(data)
      /\ \A i \in 1 .. Len(t) : data[Len(s) + i] = t[i]
  BY BeginsWithFirst
<1> QED BY <1>1 DEF Holds

LEMMA BeginsJoined ==
  ASSUME NEW s \in Seq(Int), NEW t \in Seq(Int)
  PROVE  s \o t \in Seq(Int) /\ Begins(s \o t, s)
<1> DEFINE r == s \o t
<1>1. Follows(s, t, r) /\ Len(s) \in Nat /\ Len(t) \in Nat
  BY Joined
<1> HIDE DEF r
<1>2. r \in Seq(Int) /\ Begins(r, s)
  BY <1>1 DEF Begins, Follows
<1> QED BY <1>2 DEF r

Reports == {b \in [fraction : Nat, lost : Int] : ReportBlock(b)}

LEMMA TypesDiffer ==
  /\ RTCP_SR # RTCP_RR /\ RTCP_SR # RTCP_SDES /\ RTCP_SR # RTCP_BYE
  /\ RTCP_RR # RTCP_SDES /\ RTCP_RR # RTCP_BYE /\ RTCP_SDES # RTCP_BYE
BY DEF RTCP_SR, RTCP_RR, RTCP_SDES, RTCP_BYE

LEMMA SenderReportRead ==
  ASSUME NEW q, q.type = RTCP_SR, q.list \in Seq(Reports), Len(q.list) < 32,
         q.behind \in Seq(Int)
  PROVE  RtcpRead(q)
<1> DEFINE list == q.list
           data == BuildRtcp(q) \o q.behind
           s0   == RtcpHeader(Len(list), RTCP_SR)
           s1   == s0 \o Four(1)
           s2   == s1 \o Four(2)
           s3   == s2 \o Four(3)
           s4   == s3 \o Four(4)
           s5   == s4 \o Four(5)
           s6   == s5 \o Four(6)
           flat == BlocksLaid(list)
           s7   == s6 \o flat
<1>1. data = s7 \o q.behind
  <2>1. BuildRtcp(q) = s7
    BY TypesDiffer DEF BuildRtcp, BlocksLaid
  <2> HIDE DEF s7
  <2> QED BY <2>1
<1>2. /\ list \in Seq(Reports) /\ Len(list) \in Nat /\ Len(list) < 32
      /\ \A k \in DOMAIN list : ReportBlock(list[k])
  BY DEF Reports
<1>3. s0 \in Seq(Int) /\ Len(s0) = 4
  BY <1>2 DEF RtcpHeader, RTCP_SR
<1>4. RTCP_SR \in Int /\ RTCP_SR = 200 /\ q.behind \in Seq(Int)
  BY DEF RTCP_SR
<1> HIDE DEF s0, s1, s2, s3, s4, s5, s6, s7, flat, data, list
<1>5. s1 \in Seq(Int) /\ Len(s1) = 8
  <2>1. s1 \in Seq(Int) /\ Len(s1) = Len(s0) + 4
    BY <1>3, FourBehind DEF s1
  <2> QED BY <1>3, <2>1
<1>6. s2 \in Seq(Int) /\ Len(s2) = 12
  <2>1. s2 \in Seq(Int) /\ Len(s2) = Len(s1) + 4
    BY <1>5, FourBehind DEF s2
  <2> QED BY <1>5, <2>1
<1>7. s3 \in Seq(Int) /\ Len(s3) = 16
  <2>1. s3 \in Seq(Int) /\ Len(s3) = Len(s2) + 4
    BY <1>6, FourBehind DEF s3
  <2> QED BY <1>6, <2>1
<1>8. s4 \in Seq(Int) /\ Len(s4) = 20
  <2>1. s4 \in Seq(Int) /\ Len(s4) = Len(s3) + 4
    BY <1>7, FourBehind DEF s4
  <2> QED BY <1>7, <2>1
<1>9. s5 \in Seq(Int) /\ Len(s5) = 24
  <2>1. s5 \in Seq(Int) /\ Len(s5) = Len(s4) + 4
    BY <1>8, FourBehind DEF s5
  <2> QED BY <1>8, <2>1
<1>10. s6 \in Seq(Int) /\ Len(s6) = 28
  <2>1. s6 \in Seq(Int) /\ Len(s6) = Len(s5) + 4
    BY <1>9, FourBehind DEF s6
  <2> QED BY <1>9, <2>1
<1>11. flat \in Seq(Int)
  BY <1>2, BlockPlaces DEF flat
<1>12. s7 \in Seq(Int)
  BY <1>10, <1>11, ConcatProperties DEF s7
<1>13. data \in Seq(Int) /\ Begins(data, s7)
  BY <1>1, <1>4, <1>12, BeginsJoined
<1>14. Begins(data, s6) /\ Holds(data, Len(s6), flat)
  BY <1>10, <1>11, <1>13, HeldBehind DEF s7
<1>15. Uint32(data, Len(s5)) = Four(6) /\ Begins(data, s5)
  BY <1>9, <1>13, <1>14, FourRead DEF s6
<1>16. Uint32(data, Len(s4)) = Four(5) /\ Begins(data, s4)
  BY <1>8, <1>13, <1>15, FourRead DEF s5
<1>17. Uint32(data, Len(s3)) = Four(4) /\ Begins(data, s3)
  BY <1>7, <1>13, <1>16, FourRead DEF s4
<1>18. Uint32(data, Len(s2)) = Four(3) /\ Begins(data, s2)
  BY <1>6, <1>13, <1>17, FourRead DEF s3
<1>19. Uint32(data, Len(s1)) = Four(2) /\ Begins(data, s1)
  BY <1>5, <1>13, <1>18, FourRead DEF s2
<1>20. Uint32(data, Len(s0)) = Four(1) /\ Begins(data, s0)
  BY <1>3, <1>13, <1>19, FourRead DEF s1
<1>21. /\ Len(data) >= 4 /\ Version(data) = 2 /\ Count(data) = Len(list)
       /\ Octet(data, 1) = RTCP_SR
  BY <1>2, <1>4, <1>13, <1>20, RtcpHeaderRead DEF s0
<1>22. ReportBlocks(data, 28) = [k \in DOMAIN list |-> ReadBlock(list[k])]
  <2>1. Holds(data, 28, BlocksLaid(list)) /\ 28 \in Nat
    BY <1>10, <1>14 DEF flat
  <2> QED BY <1>2, <1>13, <1>21, <2>1, BlocksRead
<1>23. Len(data) >= 28
  BY <1>10, <1>13, <1>14 DEF Begins
<1>24. /\ Uint32(data, 4) = Four(1) /\ Uint32(data, 8) = Four(2) /\ Uint32(data, 12) = Four(3)
       /\ Uint32(data, 16) = Four(4) /\ Uint32(data, 20) = Four(5) /\ Uint32(data, 24) = Four(6)
  BY <1>3, <1>5, <1>6, <1>7, <1>8, <1>9, <1>15, <1>16, <1>17, <1>18, <1>19, <1>20
<1>25. ParseRTCPPacket(data) = parseSenderReport(data)
  <2>1. ~(Len(data) < 4 \/ Version(data) # 2)
    BY <1>13, <1>21
  <2> QED BY <1>21, <2>1 DEF ParseRTCPPacket, RTCP_SR, RTCP_RR, RTCP_SDES, RTCP_BYE
<1>26. ParseRTCPPacket(data) =
         [type |-> Octet(data, 1), ssrc |-> Uint32(data, 4),
          ntp    |-> Uint32(data, 8) \o Uint32(data, 12),
          rtp    |-> Uint32(data, 16),
          counts |-> Uint32(data, 20) \o Uint32(data, 24),
          blocks |-> ReportBlocks(data, 28)]
  <2>1. ~(Len(data) < 28)
    BY <1>13, <1>23
  <2> QED BY <1>25, <2>1 DEF parseSenderReport
<1> DEFINE read == ParseRTCPPacket(data)
<1> HIDE DEF read
<1>27. /\ read.ntp = Uint32(data, 8) \o Uint32(data, 12)
       /\ read.rtp = Uint32(data, 16) /\ read.ssrc = Uint32(data, 4)
       /\ read.counts = Uint32(data, 20) \o Uint32(data, 24)
       /\ read.blocks = ReportBlocks(data, 28)
  BY <1>26 DEF read
<1>28. /\ read.ntp = Four(2) \o Four(3) /\ read.rtp = Four(4)
       /\ read.ssrc = Four(1) /\ read.counts = Four(5) \o Four(6)
       /\ read.blocks = [k \in DOMAIN q.list |-> ReadBlock(q.list[k])]
  BY <1>22, <1>24, <1>27 DEF list
<1>29. read = ParseRTCPPacket(BuildRtcp(q) \o q.behind)
  BY DEF data, read
<1> QED BY <1>28, <1>29, TypesDiffer DEF RtcpRead

LEMMA ReceiverReportRead ==
  ASSUME NEW q, q.type = RTCP_RR, q.list \in Seq(Reports), Len(q.list) < 32,
         q.behind \in Seq(Int)
  PROVE  RtcpRead(q)
<1> DEFINE list == q.list
           data == BuildRtcp(q) \o q.behind
           s0   == RtcpHeader(Len(list), RTCP_RR)
           s1   == s0 \o Four(1)
           flat == BlocksLaid(list)
           s2   == s1 \o flat
<1>1. data = s2 \o q.behind
  <2>1. BuildRtcp(q) = s2
    BY TypesDiffer DEF BuildRtcp, BlocksLaid
  <2> HIDE DEF s2
  <2> QED BY <2>1
<1>2. /\ list \in Seq(Reports) /\ Len(list) \in Nat /\ Len(list) < 32
      /\ \A k \in DOMAIN list : ReportBlock(list[k])
  BY DEF Reports
<1>3. s0 \in Seq(Int) /\ Len(s0) = 4
  BY <1>2 DEF RtcpHeader, RTCP_RR
<1>4. RTCP_RR \in Int /\ q.behind \in Seq(Int)
  BY DEF RTCP_RR
<1> HIDE DEF s0, s1, s2, flat, data, list
<1>5. s1 \in Seq(Int) /\ Len(s1) = 8
  <2>1. s1 \in Seq(Int) /\ Len(s1) = Len(s0) + 4
    BY <1>3, FourBehind DEF s1
  <2> QED BY <1>3, <2>1
<1>6. flat \in Seq(Int) /\ Len(flat) = 24 * Len(list)
  BY <1>2, BlockPlaces DEF flat
<1>7. s2 \in Seq(Int)
  BY <1>5, <1>6, ConcatProperties DEF s2
<1>8. data \in Seq(Int) /\ Begins(data, s2)
  BY <1>1, <1>4, <1>7, BeginsJoined
<1>9. Begins(data, s1) /\ Holds(data, Len(s1), flat)
  BY <1>5, <1>6, <1>8, HeldBehind DEF s2
<1>10. Uint32(data, Len(s0)) = Four(1) /\ Begins(data, s0)
  BY <1>3, <1>8, <1>9, FourRead DEF s1
<1>11. /\ Len(data) >= 4 /\ Version(data) = 2 /\ Count(data) = Len(list)
       /\ Octet(data, 1) = RTCP_RR
  BY <1>2, <1>4, <1>8, <1>10, RtcpHeaderRead DEF s0
<1>12. Len(data) >= 8 /\ Len(data) >= 8 + 24 * Len(list) /\ Len(data) \in Nat
  <2>1. 8 <= Len(data) /\ Len(data) \in Nat
    BY <1>5, <1>8, <1>9 DEF Begins
  <2>2. 8 + 24 * Len(list) <= Len(data)
    BY <1>5, <1>6, <1>9 DEF Holds
  <2> QED BY <1>2, <2>1, <2>2
<1> DEFINE block == IF Count(data) > 0 /\ Len(data) >= 32
                    THEN <<parseReportBlock(Octets(data, 8, 24))>> ELSE << >>
<1>13. ParseRTCPPacket(data) = [type |-> Octet(data, 1), ssrc |-> Uint32(data, 4), block |-> block]
  <2>1. ~(Len(data) < 4 \/ Version(data) # 2)
    BY <1>8, <1>11
  <2>2. ParseRTCPPacket(data) = parseReceiverReport(data)
    BY <1>11, <2>1, TypesDiffer DEF ParseRTCPPacket
  <2>3. ~(Len(data) < 8)
    BY <1>12
  <2> QED BY <2>2, <2>3 DEF parseReceiverReport
<1>14. block = IF list = << >> THEN << >> ELSE <<ReadBlock(list[1])>>
  <2>1. CASE list = << >>
    <3>1. Len(list) = 0
      BY <2>1
    <3>2. ~(Count(data) > 0)
      BY <1>11, <3>1
    <3> QED BY <2>1, <3>2
  <2>2. CASE list # << >>
    <3>1. Len(list) > 0
      BY <1>2, <2>2, EmptySeq
    <3>2. Count(data) > 0 /\ Len(data) >= 32 /\ 1 \in 1 .. Len(list)
      BY <1>2, <1>11, <1>12, <3>1
    <3>3. Holds(data, 8, BlocksLaid(list)) /\ 8 \in Nat
      BY <1>5, <1>9 DEF flat
    <3>4. parseReportBlock(Octets(data, 8 + 24 * (1 - 1), 24)) = ReadBlock(list[1])
      BY <1>2, <1>8, <3>2, <3>3, BlockAt
    <3>5. 8 + 24 * (1 - 1) = 8
      OBVIOUS
    <3>6. parseReportBlock(Octets(data, 8, 24)) = ReadBlock(list[1])
      BY <3>4, <3>5
    <3> QED BY <2>2, <3>2, <3>6
  <2> QED BY <2>1, <2>2
<1>15. Uint32(data, 4) = Four(1)
  BY <1>3, <1>10
<1> HIDE DEF block
<1> DEFINE read == ParseRTCPPacket(data)
<1>16. read.ssrc = Uint32(data, 4) /\ read.block = block
  BY <1>13
<1> HIDE DEF read
<1>17. /\ read.ssrc = Four(1)
       /\ read.block = IF q.list = << >> THEN << >> ELSE <<ReadBlock(q.list[1])>>
  BY <1>14, <1>15, <1>16 DEF list
<1>18. read = ParseRTCPPacket(BuildRtcp(q) \o q.behind)
  BY DEF data, read
<1> QED BY <1>17, <1>18, TypesDiffer DEF RtcpRead

\* The sources that leave, one behind the other.
SourcesLaid(list) == FlattenSeq([k \in DOMAIN list |-> Four(list[k])])

LEMMA SourcePlaces ==
  ASSUME NEW list \in Seq(Nat)
  PROVE  /\ SourcesLaid(list) \in Seq(Int) /\ Len(SourcesLaid(list)) = 4 * Len(list)
         /\ \A k \in 1 .. Len(list) : Holds(SourcesLaid(list), 4 * (k - 1), Four(list[k]))
<1> DEFINE n    == Len(list)
           seqs == [k \in DOMAIN list |-> Four(list[k])]
           flat == FlattenSeq(seqs)
<1>1. n \in Nat /\ DOMAIN list = 1 .. n /\ Len(list) = n /\ \A k \in 1 .. n : list[k] \in Nat
  OBVIOUS
<1> HIDE DEF n
<1>2. ASSUME NEW k \in 1 .. n PROVE Four(list[k]) \in Seq(Int) /\ Len(Four(list[k])) = 4
  BY <1>1, FourIsFour
<1>3. /\ seqs \in Seq(Seq(Int)) /\ Len(seqs) = n
      /\ \A k \in 1 .. n : seqs[k] = Four(list[k])
  BY <1>1, <1>2
<1> HIDE DEF seqs
<1>4. \A k \in 1 .. Len(seqs) : Len(seqs[k]) = 4
  BY <1>2, <1>3
<1>5. EvenlyLaid(FlattenSeq(seqs), seqs, 4)
  BY <1>3, <1>4, EvenPieces
<1>6. SourcesLaid(list) = flat
  BY DEF SourcesLaid, seqs
<1> HIDE DEF flat
<1>7. /\ flat \in Seq(Int) /\ Len(flat) = 4 * n
      /\ \A k \in 1 .. n : \A i \in 1 .. 4 : flat[4 * (k - 1) + i] = seqs[k][i]
  BY <1>3, <1>5 DEF EvenlyLaid, flat
<1>8. ASSUME NEW k \in 1 .. n PROVE Holds(flat, 4 * (k - 1), Four(list[k]))
  <2> DEFINE b == Four(list[k])
  <2>1. b \in Seq(Int) /\ Len(b) = 4 /\ seqs[k] = b
    BY <1>2, <1>3
  <2> HIDE DEF b
  <2>2. 4 * (k - 1) + 4 <= 4 * n
    BY <1>1
  <2>3. Holds(flat, 4 * (k - 1), b)
    BY <1>7, <2>1, <2>2 DEF Holds
  <2> QED BY <2>3 DEF b
<1> QED BY <1>1, <1>6, <1>7, <1>8

LEMMA SourceAt ==
  ASSUME NEW list \in Seq(Nat), NEW data \in Seq(Int), Holds(data, 4, SourcesLaid(list)),
         NEW k \in 1 .. Len(list)
  PROVE  Uint32(data, 4 * k) = Four(list[k])
<1> DEFINE b == Four(list[k])
           o == 4 * (k - 1)
           s == SourcesLaid(list)
<1>1. b \in Seq(Int) /\ Len(b) = 4
  BY FourIsFour
<1>2. o \in Nat /\ 4 \in Nat /\ 4 + o = 4 * k /\ 4 * k \in Nat
  OBVIOUS
<1>3. s \in Seq(Int) /\ Holds(s, o, b)
  BY SourcePlaces
<1>4. Holds(data, 4, s)
  OBVIOUS
<1> HIDE DEF b, o, s
<1>5. Holds(data, 4 + o, b)
  BY <1>1, <1>2, <1>3, <1>4, HeldWithin
<1>6. Octets(data, 4 * k, Len(b)) = b
  BY <1>1, <1>2, <1>5, OctetsHeld
<1>7. SubSeq(data, 4 * k + 1, 4 * k + 4) = b
  BY <1>1, <1>6 DEF Octets
<1> QED BY <1>7 DEF Uint32, b

LEMMA ByeRead ==
  ASSUME NEW q, q.type = RTCP_BYE, q.list \in Seq(Nat), Len(q.list) < 32,
         q.reason \in Seq(Int), q.behind = << >>
  PROVE  RtcpRead(q)
<1> DEFINE list == q.list
           why  == q.reason
           data == BuildRtcp(q) \o q.behind
           s0   == RtcpHeader(Len(list), RTCP_BYE)
           flat == SourcesLaid(list)
           s1   == s0 \o flat
           tail == IF why = << >> THEN << >> ELSE <<Len(why)>> \o why
           s2   == s1 \o tail
           n    == Len(list)
           w    == Len(why)
           end  == 4 + 4 * n
<1>1. BuildRtcp(q) = s2
  BY TypesDiffer DEF BuildRtcp, SourcesLaid
<1>2. list \in Seq(Nat) /\ n \in Nat /\ n < 32 /\ why \in Seq(Int) /\ w \in Nat
  OBVIOUS
<1>3. s0 \in Seq(Int) /\ Len(s0) = 4
  BY <1>2 DEF RtcpHeader, RTCP_BYE
<1>4. flat \in Seq(Int) /\ Len(flat) = 4 * n
  BY <1>2, SourcePlaces
<1>5. tail \in Seq(Int) /\ (why = << >> => Len(tail) = 0)
      /\ (why # << >> => Len(tail) = 1 + w /\ tail[1] = w /\ Holds(tail, 1, why))
  <2>1. CASE why = << >>
    BY <2>1
  <2>2. CASE why # << >>
    <3> DEFINE one == <<w>>
    <3>1. one \in Seq(Int) /\ Len(one) = 1 /\ one[1] = w /\ tail = one \o why
      BY <1>2, <2>2
    <3> HIDE DEF one, tail
    <3>2. Follows(one, why, tail)
      BY <1>2, <3>1, Joined
    <3>3. tail \in Seq(Int) /\ Len(tail) = Len(one) + w
      BY <3>2 DEF Follows
    <3>4. tail[1] = w
      BY <3>1, <3>2 DEF Follows
    <3>5. Holds(tail, 1, why)
      <4>1. \A i \in 1 .. Len(why) : tail[1 + i] = why[i]
        BY <3>1, <3>2 DEF Follows
      <4>2. 1 + Len(why) <= Len(tail)
        BY <1>2, <3>1, <3>3
      <4> QED BY <4>1, <4>2 DEF Holds
    <3> QED BY <2>2, <3>1, <3>3, <3>4, <3>5
  <2> QED BY <2>1, <2>2
<1>6. s1 \in Seq(Int) /\ Len(s1) = end
  <2> HIDE DEF s0, flat, end, list, n
  <2>1. Follows(s0, flat, s1)
    BY <1>3, <1>4, Joined
  <2>2. s1 \in Seq(Int) /\ Len(s1) = Len(s0) + Len(flat)
    BY <2>1 DEF Follows
  <2> QED BY <1>3, <1>4, <2>2 DEF end
<1> HIDE DEF tail, s0, s1, flat
<1>7. s2 \in Seq(Int) /\ Len(s2) = end + Len(tail)
  <2> HIDE DEF s2, end
  <2>1. Follows(s1, tail, s2)
    BY <1>5, <1>6, Joined DEF s2
  <2>2. s2 \in Seq(Int) /\ Len(s2) = Len(s1) + Len(tail)
    BY <2>1 DEF Follows
  <2> QED BY <1>6, <2>2
<1>8. data = s2
  <2>1. data = s2 \o << >>
    BY <1>1
  <2> HIDE DEF s2, data
  <2> QED BY <1>7, <2>1, ConcatEmptySeq
<1> HIDE DEF s2, data, end, n, w, list, why
<1>9. data \in Seq(Int) /\ Len(data) = end + Len(tail) /\ Begins(data, s2)
  <2>1. Begins(s2, s2)
    BY <1>7 DEF Begins
  <2> QED BY <1>7, <1>8, <2>1
<1>10. Begins(data, s1) /\ Holds(data, Len(s1), tail)
  BY <1>5, <1>6, <1>9, HeldBehind DEF s2
<1>11. Begins(data, s0) /\ Holds(data, 4, flat)
  <2>1. Begins(data, s0) /\ Holds(data, Len(s0), flat)
    BY <1>3, <1>4, <1>9, <1>10, HeldBehind DEF s1
  <2> QED BY <1>3, <2>1
<1>12. /\ Len(data) >= 4 /\ Version(data) = 2 /\ Count(data) = n
       /\ Octet(data, 1) = RTCP_BYE
  <2>1. RTCP_BYE \in Int
    BY DEF RTCP_BYE
  <2>2. Begins(data, RtcpHeader(n, RTCP_BYE))
    BY <1>11 DEF s0, n
  <2> QED BY <1>2, <1>9, <2>1, <2>2, RtcpHeaderRead
<1> DEFINE fit   == (Len(data) - 4) \div 4
           given == end < Len(data) /\ end + 1 + Octet(data, end) <= Len(data)
           said  == IF given THEN Octets(data, end + 1, Octet(data, end)) ELSE << >>
<1>13. (IF Count(data) < fit THEN Count(data) ELSE fit) = n
  <2> DEFINE lt == Len(tail)
             ld == Len(data)
  <2>1. lt \in Nat /\ ld \in Int /\ ld = (4 + 4 * n) + lt
    BY <1>5, <1>9 DEF end
  <2> HIDE DEF lt, ld
  <2>2. (ld - 4) \div 4 \in Int /\ n <= (ld - 4) \div 4
    BY <1>2, <2>1
  <2>3. fit = (ld - 4) \div 4
    BY DEF ld
  <2> HIDE DEF fit
  <2> QED BY <1>2, <1>12, <2>2, <2>3
<1>14. ParseRTCPPacket(data) =
         [type |-> Octet(data, 1), ssrcs |-> [k \in 1 .. n |-> Uint32(data, 4 * k)],
          reason |-> said]
  <2>1. ~(Len(data) < 4 \/ Version(data) # 2)
    BY <1>9, <1>12
  <2>2. ParseRTCPPacket(data) = parseBYE(data)
    BY <1>12, <2>1, TypesDiffer DEF ParseRTCPPacket
  <2>3. parseBYE(data) =
         [type |-> Octet(data, 1), ssrcs |-> [k \in 1 .. n |-> Uint32(data, 4 * k)],
          reason |-> said]
    BY <1>13 DEF parseBYE, end
  <2> QED BY <2>2, <2>3
<1>15. [k \in 1 .. n |-> Uint32(data, 4 * k)] = [k \in DOMAIN list |-> Four(list[k])]
  <2>1. DOMAIN list = 1 .. n
    BY <1>2 DEF n
  <2>2. ASSUME NEW k \in 1 .. n PROVE Uint32(data, 4 * k) = Four(list[k])
    BY <1>2, <1>9, <1>11, SourceAt DEF flat, n
  <2> QED BY <2>1, <2>2
<1>16. said = why
  <2> HIDE DEF given
  <2>0. end \in Nat
    BY <1>2 DEF end
  <2>1. CASE why = << >>
    <3>1. ~given
      BY <1>5, <1>9, <2>0, <2>1 DEF given
    <3> QED BY <2>1, <3>1
  <2>2. CASE why # << >>
    <3>1. Len(tail) = 1 + w /\ tail[1] = w /\ Holds(tail, 1, why)
      BY <1>5, <2>2
    <3>2. Holds(data, end, tail)
      BY <1>6, <1>10
    <3>3. Octet(data, end) = w
      <4>1. data[end + 1] = tail[1]
        BY <1>2, <3>1, <3>2 DEF Holds
      <4> QED BY <3>1, <4>1 DEF Octet
    <3>4. Holds(data, end + 1, why)
      BY <1>2, <1>5, <1>9, <2>0, <3>1, <3>2, HeldWithin
    <3>5. Octets(data, end + 1, w) = why
      <4>1. end + 1 \in Nat
        BY <2>0
      <4> QED BY <1>2, <1>9, <3>4, <4>1, OctetsHeld DEF w
    <3>6. given
      BY <1>2, <1>9, <2>0, <3>1, <3>3 DEF given
    <3> QED BY <3>3, <3>5, <3>6
  <2> QED BY <2>1, <2>2
<1> HIDE DEF said
<1>17. ParseRTCPPacket(data) =
         [type |-> RTCP_BYE, ssrcs |-> [k \in DOMAIN list |-> Four(list[k])], reason |-> why]
  BY <1>12, <1>14, <1>15, <1>16
<1>18. ParseRTCPPacket(BuildRtcp(q) \o q.behind) =
         [type |-> RTCP_BYE, ssrcs |-> [k \in DOMAIN q.list |-> Four(q.list[k])],
          reason |-> q.reason]
  BY <1>17 DEF data, list, why
<1> QED BY <1>18, TypesDiffer DEF RtcpRead

\* A function on 0 .. n that is changed at n, then at n - 1, and so on.
ChangesDownwards(g, n, V, h) ==
  /\ g \in [Nat -> [0 .. n -> V]]
  /\ \A j \in Nat : j <= n => g[j + 1] = [g[j] EXCEPT ![n - j] = h[n - j][g[j]]]

LEMMA ChangedDownwards ==
  ASSUME NEW n \in Nat, NEW V, NEW v0 \in V,
         NEW h \in [0 .. n -> [[0 .. n -> V] -> V]]
  PROVE  \E g : ChangesDownwards(g, n, V, h)
<1> DEFINE W       == [0 .. n -> V]
           f0      == [o \in 0 .. n |-> v0]
           at(j)   == IF j <= n THEN n - j ELSE 0
           step(j, f) == [f EXCEPT ![at(j)] = h[at(j)][f]]
           hh      == [j \in Nat |-> [f \in W |-> step(j, f)]]
<1>1. f0 \in W /\ hh \in [Nat -> [W -> W]]
  <2>1. ASSUME NEW j \in Nat, NEW f \in W PROVE step(j, f) \in W
    <3>1. at(j) \in 0 .. n
      OBVIOUS
    <3> HIDE DEF at
    <3>2. h[at(j)][f] \in V
      BY <3>1
    <3> QED BY <3>1, <3>2
  <2>2. f0 \in W
    OBVIOUS
  <2> HIDE DEF W, step, f0
  <2> QED BY <2>1, <2>2
<1>2. PICK g : Iterates(g, W, f0, hh)
  <2> HIDE DEF W, f0, hh
  <2> QED BY <1>1, Recursion
<1>3. ASSUME NEW j \in Nat, j <= n PROVE g[j + 1] = [g[j] EXCEPT ![n - j] = h[n - j][g[j]]]
  <2>1. g[j] \in W /\ g[j + 1] = hh[j][g[j]]
    BY <1>2 DEF Iterates
  <2>2. hh[j][g[j]] = step(j, g[j])
    <3> HIDE DEF step, W
    <3> QED BY <2>1
  <2> HIDE DEF hh
  <2> QED BY <1>3, <2>1, <2>2
<1>4. g \in [Nat -> W]
  BY <1>2 DEF Iterates
<1> QED BY <1>3, <1>4 DEF ChangesDownwards

\* A function on 0 .. n may be defined at each number from its values above it.
StepsDownwards(n, V, h) ==
  /\ h \in [0 .. n -> [[0 .. n -> V] -> V]]
  /\ \A o \in 0 .. n : \A e, f \in [0 .. n -> V] :
       (\A x \in 0 .. n : o < x => e[x] = f[x]) => h[o][e] = h[o][f]

Settles(f, n, V, h) == f \in [0 .. n -> V] /\ \A o \in 0 .. n : f[o] = h[o][f]

LEMMA Downwards ==
  ASSUME NEW n \in Nat, NEW V, NEW v0 \in V, NEW h, StepsDownwards(n, V, h)
  PROVE  \E f : Settles(f, n, V, h)
<1> DEFINE W == [0 .. n -> V]
<1>s. /\ h \in [0 .. n -> [[0 .. n -> V] -> V]]
      /\ \A o \in 0 .. n : \A e, f \in [0 .. n -> V] :
           (\A x \in 0 .. n : o < x => e[x] = f[x]) => h[o][e] = h[o][f]
  BY DEF StepsDownwards
<1>1. PICK g : ChangesDownwards(g, n, V, h)
  BY <1>s, ChangedDownwards
<1>2. g \in [Nat -> W] /\ \A j \in Nat : j <= n => g[j + 1] = [g[j] EXCEPT ![n - j] = h[n - j][g[j]]]
  BY <1>1 DEF ChangesDownwards
<1> DEFINE Good == {j \in Nat : j <= n + 1 =>
                      \A x \in 0 .. n : n - j < x => g[j][x] = h[x][g[j]]}
<1>3. 0 \in Good
  OBVIOUS
<1>4. ASSUME NEW j \in Nat, j \in Good PROVE j + 1 \in Good
  <2> SUFFICES ASSUME j + 1 <= n + 1, NEW x \in 0 .. n, n - (j + 1) < x
               PROVE  g[j + 1][x] = h[x][g[j + 1]]
    OBVIOUS
  <2> DEFINE o == n - j
             e == g[j]
             f == g[j + 1]
  <2>1. j <= n /\ o \in 0 .. n /\ o <= x
    OBVIOUS
  <2>2. e \in W /\ f \in W
    BY <1>2
  <2>3. f = [e EXCEPT ![o] = h[o][e]]
    BY <1>2, <2>1
  <2>4. \A y \in 0 .. n : o < y => e[y] = h[y][e]
    BY <1>4, <2>1
  <2> HIDE DEF o, e, f, Good
  <2>5. f[o] = h[o][e] /\ \A y \in 0 .. n : y # o => f[y] = e[y]
    BY <1>s, <2>1, <2>2, <2>3
  <2>6. \A y \in 0 .. n : x < y => e[y] = f[y]
    BY <2>1, <2>5
  <2>7. h[x][e] = h[x][f]
    BY <1>s, <2>2, <2>6
  <2>8. f[x] = h[x][e]
    <3>1. CASE x = o
      BY <2>5, <3>1
    <3>2. CASE x # o
      BY <2>1, <2>4, <2>5, <3>2
    <3> QED BY <3>1, <3>2
  <2> QED BY <2>7, <2>8 DEF f
<1> HIDE DEF Good
<1>5. \A j \in Nat : j \in Good
  BY <1>3, <1>4, SetInduction
<1>6. n + 1 \in Good /\ g[n + 1] \in W
  BY <1>2, <1>5
<1>7. \A x \in 0 .. n : g[n + 1][x] = h[x][g[n + 1]]
  BY <1>6 DEF Good
<1> QED BY <1>6, <1>7 DEF Settles

\* The items of a chunk: a type other than 0 and a text.
SdesItem        == [type : Nat \ {0}, text : Seq(Nat)]
SdesFound(data) == [items : Seq(SdesItem), next : 0 .. Len(data)]

\* What SdesItems has at an offset, from what it has behind the item there.
SdesStep(data, o, f) ==
  IF o = Len(data) THEN [items |-> << >>, next |-> o]
  ELSE IF Octet(data, o) = SDES_END THEN [items |-> << >>, next |-> o + 1]
  ELSE IF \/ o + 1 = Len(data)
          \/ ItemEnd(data, o) > Len(data)
  THEN [items |-> << >>, next |-> o]
  ELSE LET rest == f[ItemEnd(data, o)]
           item == [type |-> Octet(data, o),
                    text |-> Octets(data, o + 2, Octet(data, o + 1))]
       IN  [rest EXCEPT !.items = <<item>> \o @]

\* An item that fits ends behind its beginning and within the data.
LEMMA ItemFits ==
  ASSUME NEW data \in Seq(Nat), NEW o \in 0 .. Len(data), o # Len(data),
         o + 1 # Len(data), ~(ItemEnd(data, o) > Len(data))
  PROVE  /\ Octet(data, o) \in Nat /\ Octet(data, o + 1) \in Nat
         /\ ItemEnd(data, o) = o + 2 + Octet(data, o + 1)
         /\ ItemEnd(data, o) \in 0 .. Len(data) /\ o < ItemEnd(data, o)
         /\ Octets(data, o + 2, Octet(data, o + 1)) \in Seq(Nat)
<1> DEFINE n == Len(data)
<1>1. n \in Nat /\ o \in 0 .. n /\ o # n /\ o + 1 # n
  OBVIOUS
<1>2. o + 1 \in 1 .. n /\ (o + 1) + 1 \in 1 .. n
  <2> HIDE DEF n
  <2> QED BY <1>1
<1>3. Octet(data, o) \in Nat /\ Octet(data, o + 1) \in Nat
  BY <1>2 DEF Octet
<1> DEFINE l == Octet(data, o + 1)
           e == ItemEnd(data, o)
<1>4. e = o + 2 + l /\ ~(e > n)
  BY DEF ItemEnd
<1>5. Octets(data, o + 2, l) = SubSeq(data, (o + 2) + 1, (o + 2) + l)
  BY DEF Octets
<1> HIDE DEF l, e
<1>6. e \in 0 .. n /\ o < e /\ l \in Nat
  <2> HIDE DEF n
  <2> QED BY <1>1, <1>3, <1>4 DEF l
<1>7. SubSeq(data, (o + 2) + 1, (o + 2) + l) \in Seq(Nat)
  <2>1. \A i \in (o + 2) + 1 .. (o + 2) + l : data[i] \in Nat
    <3> SUFFICES ASSUME NEW i \in (o + 2) + 1 .. (o + 2) + l PROVE data[i] \in Nat
      OBVIOUS
    <3>1. i \in 1 .. n
      BY <1>1, <1>4, <1>6
    <3> QED BY <3>1
  <2>2. (o + 2) + 1 \in Int /\ (o + 2) + l \in Int
    BY <1>1, <1>6
  <2> QED BY <2>1, <2>2, SubSeqProperties
<1> QED BY <1>3, <1>4, <1>5, <1>6, <1>7 DEF l, e

LEMMA SdesStepFound ==
  ASSUME NEW data \in Seq(Nat), NEW o \in 0 .. Len(data), NEW f,
         \A x \in 0 .. Len(data) : o < x => f[x] \in SdesFound(data)
  PROVE  SdesStep(data, o, f) \in SdesFound(data)
<1> DEFINE n == Len(data)
<1>1. n \in Nat /\ o \in Nat /\ o <= n
  OBVIOUS
<1>2. ASSUME NEW x \in 0 .. n PROVE [items |-> << >>, next |-> x] \in SdesFound(data)
  <2>1. << >> \in Seq(SdesItem)
    OBVIOUS
  <2> QED BY <2>1 DEF SdesFound
<1>3. CASE o = n
  BY <1>2, <1>3 DEF SdesStep
<1>4. CASE o # n /\ Octet(data, o) = SDES_END
  <2>1. o + 1 \in 0 .. n
    BY <1>1, <1>4
  <2>2. SdesStep(data, o, f) = [items |-> << >>, next |-> o + 1]
    BY <1>4 DEF SdesStep
  <2> QED BY <1>2, <2>1, <2>2
<1>5. CASE /\ o # n /\ Octet(data, o) # SDES_END
           /\ (o + 1 = n \/ ItemEnd(data, o) > n)
  <2>1. SdesStep(data, o, f) = [items |-> << >>, next |-> o]
    BY <1>5 DEF SdesStep
  <2> QED BY <1>2, <2>1
<1>6. CASE /\ o # n /\ Octet(data, o) # SDES_END
           /\ ~(o + 1 = n \/ ItemEnd(data, o) > n)
  <2> DEFINE rest == f[ItemEnd(data, o)]
             item == [type |-> Octet(data, o),
                      text |-> Octets(data, o + 2, Octet(data, o + 1))]
  <2>1. SdesStep(data, o, f) = [rest EXCEPT !.items = <<item>> \o rest.items]
    BY <1>6 DEF SdesStep
  <2>2. /\ Octet(data, o) \in Nat
        /\ ItemEnd(data, o) \in 0 .. n /\ o < ItemEnd(data, o)
        /\ Octets(data, o + 2, Octet(data, o + 1)) \in Seq(Nat)
    BY <1>6, ItemFits
  <2>3. rest \in SdesFound(data)
    BY <2>2
  <2>4. item \in SdesItem
    BY <1>6, <2>2 DEF SdesItem, SDES_END
  <2> HIDE DEF rest, item
  <2>5. rest.items \in Seq(SdesItem)
    BY <2>3 DEF SdesFound
  <2>6. <<item>> \o rest.items \in Seq(SdesItem)
    <3>1. <<item>> \in Seq(SdesItem)
      BY <2>4
    <3> HIDE DEF n
    <3> QED BY <2>5, <3>1, ConcatProperties
  <2>7. [rest EXCEPT !.items = <<item>> \o rest.items] \in SdesFound(data)
    <3> DEFINE new == <<item>> \o rest.items
    <3>1. new \in Seq(SdesItem)
      BY <2>6
    <3> HIDE DEF new
    <3>2. [rest EXCEPT !.items = new] \in SdesFound(data)
      BY <2>3, <3>1 DEF SdesFound
    <3> QED BY <3>2 DEF new
  <2> QED BY <2>1, <2>7
<1> QED BY <1>3, <1>4, <1>5, <1>6

LEMMA SdesStepSame ==
  ASSUME NEW data \in Seq(Nat), NEW o \in 0 .. Len(data), NEW e, NEW f,
         \A x \in 0 .. Len(data) : o < x => e[x] = f[x]
  PROVE  SdesStep(data, o, e) = SdesStep(data, o, f)
<1>1. CASE \/ o = Len(data) \/ Octet(data, o) = SDES_END
           \/ o + 1 = Len(data) \/ ItemEnd(data, o) > Len(data)
  BY <1>1 DEF SdesStep
<1>2. CASE ~(\/ o = Len(data) \/ Octet(data, o) = SDES_END
             \/ o + 1 = Len(data) \/ ItemEnd(data, o) > Len(data))
  <2>1. ItemEnd(data, o) \in 0 .. Len(data) /\ o < ItemEnd(data, o)
    BY <1>2, ItemFits
  <2>2. e[ItemEnd(data, o)] = f[ItemEnd(data, o)]
    BY <2>1
  <2> QED BY <1>2, <2>2 DEF SdesStep
<1> QED BY <1>1, <1>2

\* SdesItems is defined everywhere, and step by step.
LEMMA SdesUnrolls ==
  ASSUME NEW data \in Seq(Nat)
  PROVE  \E f : \A o \in 0 .. Len(data) :
           /\ SdesItems(data, o) = f[o] /\ f[o] = SdesStep(data, o, f)
           /\ f[o] \in SdesFound(data)
<1> DEFINE n    == Len(data)
           V    == SdesFound(data)
           h    == [o \in 0 .. n |-> [f \in [0 .. n -> V] |-> SdesStep(data, o, f)]]
           P(p) == p = [o \in 0 .. n |-> SdesStep(data, o, p)]
           none == [items |-> << >>, next |-> 0]
           from == CHOOSE p : P(p)
<1>1. n \in Nat
  OBVIOUS
<1>2. none \in V
  <2>1. << >> \in Seq(SdesItem)
    OBVIOUS
  <2> QED BY <1>1, <2>1 DEF SdesFound
<1>3. ASSUME NEW o \in 0 .. n, NEW f \in [0 .. n -> V] PROVE SdesStep(data, o, f) \in V
  <2>1. \A x \in 0 .. Len(data) : o < x => f[x] \in SdesFound(data)
    OBVIOUS
  <2> QED BY <2>1, SdesStepFound
<1>4. h \in [0 .. n -> [[0 .. n -> V] -> V]]
  <2> HIDE DEF n, V
  <2> QED BY <1>3
<1>5. ASSUME NEW o \in 0 .. n, NEW e \in [0 .. n -> V], NEW f \in [0 .. n -> V],
             \A x \in 0 .. n : o < x => e[x] = f[x]
      PROVE  h[o][e] = h[o][f]
  <2>1. SdesStep(data, o, e) = SdesStep(data, o, f)
    BY <1>5, SdesStepSame
  <2> HIDE DEF n, V
  <2> QED BY <2>1
<1>6. PICK f \in [0 .. n -> V] : \A o \in 0 .. n : f[o] = h[o][f]
  <2>1. \A o \in 0 .. n : \A e, f \in [0 .. n -> V] :
            (\A x \in 0 .. n : o < x => e[x] = f[x]) => h[o][e] = h[o][f]
    BY <1>5
  <2> HIDE DEF n, V, h, none
  <2>2. StepsDownwards(n, V, h)
    BY <1>4, <2>1 DEF StepsDownwards
  <2>3. \E f : Settles(f, n, V, h)
    BY <1>1, <1>2, <2>2, Downwards
  <2> QED BY <2>3 DEF Settles
<1>7. P(f)
  <2>1. \A o \in 0 .. n : f[o] = SdesStep(data, o, f)
    <3> HIDE DEF n, V
    <3> QED BY <1>6
  <2> HIDE DEF n, V
  <2> QED BY <2>1
<1>8. P(from)
  <2> HIDE DEF P
  <2> QED BY <1>7
<1>9. \A o \in 0 .. n : SdesItems(data, o) = from[o]
  BY DEF SdesItems, SdesStep
<1> HIDE DEF from
<1>10. \A o \in 0 .. n : from[o] = SdesStep(data, o, from)
  <2> HIDE DEF n
  <2> QED BY <1>8
<1> HIDE DEF P, h, V, n
<1> DEFINE Good == {d \in Nat : \A o \in 0 .. n : n - o < d => from[o] \in V}
<1>11. 0 \in Good
  BY <1>1
<1>12. ASSUME NEW d \in Nat, d \in Good PROVE d + 1 \in Good
  <2> SUFFICES ASSUME NEW o \in 0 .. n, n - o < d + 1 PROVE from[o] \in V
    OBVIOUS
  <2>1. ASSUME NEW x \in 0 .. n, o < x PROVE from[x] \in V
    <3>1. n - x < d
      BY <1>1, <2>1
    <3> QED BY <1>12, <3>1
  <2>2. SdesStep(data, o, from) \in V
    BY <2>1, SdesStepFound DEF n, V
  <2> QED BY <1>10, <2>2
<1> HIDE DEF Good
<1>13. \A d \in Nat : d \in Good
  BY <1>11, <1>12, SetInduction
<1>14. \A o \in 0 .. n : from[o] \in V
  <2>1. n + 1 \in Good /\ \A o \in 0 .. n : n - o < n + 1
    BY <1>1, <1>13
  <2> QED BY <2>1 DEF Good
<1> QED BY <1>9, <1>10, <1>14 DEF n, V

\* The k-th piece of what stands in the data.
LEMMA PieceHeld ==
  ASSUME NEW n \in Nat, NEW seqs, \A k \in 1 .. n : seqs[k] \in Seq(Int),
         NEW g, Accumulates(g, seqs, n, Int), NEW k \in 1 .. n,
         NEW data \in Seq(Int), NEW o \in Nat, Holds(data, o, g[n])
  PROVE  Holds(data, o + Len(g[k - 1]), seqs[k])
<1>1. Piece(g, seqs, k, Int)
  BY PieceInPlace
<1>2. g[n] \in Seq(Int) /\ g[k] \in Seq(Int) /\ k \in Nat /\ k <= n
  BY DEF Accumulates
<1>3. Begins(g[n], g[k])
  BY <1>2, FrontStays
<1> DEFINE whole == g[n]
           front == g[k]
           piece == seqs[k]
           l     == Len(g[k - 1])
<1>4. /\ l \in Nat /\ front \in Seq(Int) /\ piece \in Seq(Int) /\ whole \in Seq(Int)
      /\ Len(front) = l + Len(piece)
      /\ \A i \in 1 .. Len(piece) : front[l + i] = piece[i]
      /\ Len(front) <= Len(whole) /\ \A i \in 1 .. Len(front) : whole[i] = front[i]
      /\ Holds(data, o, whole)
  BY <1>1, <1>2, <1>3 DEF Piece, Begins
<1> HIDE DEF whole, front, piece, l
<1>5. Holds(whole, 0, front)
  BY <1>4 DEF Holds
<1>6. Holds(whole, l, piece)
  <2>1. Holds(front, l, piece)
    BY <1>4 DEF Holds
  <2>2. Holds(whole, 0 + l, piece)
    <3>1. 0 \in Nat
      OBVIOUS
    <3> QED BY <1>4, <1>5, <2>1, <3>1, HeldWithin
  <2>3. 0 + l = l
    BY <1>4
  <2> QED BY <2>2, <2>3
<1>7. Holds(data, o + l, piece)
  BY <1>4, <1>6, HeldWithin
<1> QED BY <1>7 DEF l, piece

LEMMA ItemBuilt ==
  ASSUME NEW i \in SdesItem
  PROVE  /\ BuildItem(i) \in Seq(Nat) /\ Len(BuildItem(i)) = 2 + Len(i.text)
         /\ BuildItem(i)[1] = i.type /\ BuildItem(i)[2] = Len(i.text)
         /\ Holds(BuildItem(i), 2, i.text)
<1> DEFINE two  == <<i.type, Len(i.text)>>
           text == i.text
           all  == two \o text
<1>1. text \in Seq(Nat) /\ text \in Seq(Int) /\ Len(text) \in Nat /\ i.type \in Nat
  BY DEF SdesItem
<1>2. /\ two \in Seq(Nat) /\ two \in Seq(Int) /\ Len(two) = 2 /\ two[1] = i.type
      /\ two[2] = Len(text)
  BY <1>1
<1>3. BuildItem(i) = all
  BY DEF BuildItem
<1> HIDE DEF two, text
<1>4. all \in Seq(Nat)
  BY <1>1, <1>2, ConcatProperties
<1>5. Follows(two, text, all)
  BY <1>1, <1>2, Joined
<1> HIDE DEF all
<1>6. /\ Len(all) = Len(two) + Len(text)
      /\ \A k \in 1 .. Len(two) : all[k] = two[k]
      /\ \A k \in 1 .. Len(text) : all[Len(two) + k] = text[k]
  BY <1>5 DEF Follows
<1>7. Len(all) = 2 + Len(text) /\ all[1] = i.type /\ all[2] = Len(text)
  BY <1>2, <1>6
<1>8. Holds(all, 2, text)
  BY <1>1, <1>2, <1>6 DEF Holds
<1> QED BY <1>3, <1>4, <1>7, <1>8 DEF text

\* Where an item stands, its end is found and its text read.
LEMMA ItemStands ==
  ASSUME NEW data \in Seq(Nat), NEW p \in Nat, NEW i \in SdesItem, Holds(data, p, BuildItem(i))
  PROVE  /\ p \in 0 .. Len(data) /\ p # Len(data) /\ p + 1 # Len(data)
         /\ Octet(data, p) = i.type /\ i.type # SDES_END
         /\ Octets(data, p + 2, Octet(data, p + 1)) = i.text
         /\ ItemEnd(data, p) = p + 2 + Len(i.text) /\ ~(ItemEnd(data, p) > Len(data))
<1> DEFINE b == BuildItem(i)
           l == Len(i.text)
           n == Len(data)
<1>1. /\ b \in Seq(Nat) /\ Len(b) = 2 + l /\ b[1] = i.type /\ b[2] = l
      /\ Holds(b, 2, i.text) /\ Holds(data, p, b)
  BY ItemBuilt
<1>2. i.text \in Seq(Int) /\ l \in Nat /\ i.type \in Nat /\ i.type # 0 /\ n \in Nat
      /\ data \in Seq(Int) /\ i.text \in Seq(Nat)
  BY DEF SdesItem
<1>3. b \in Seq(Int)
  BY <1>1
<1> HIDE DEF b, l, n
<1>4. p + (2 + l) <= n /\ data[p + 1] = i.type /\ data[p + 2] = l
  <2>1. Len(b) = 2 + l /\ p + Len(b) <= n /\ \A k \in 1 .. Len(b) : data[p + k] = b[k]
    BY <1>1 DEF Holds, n
  <2>2. 1 \in 1 .. Len(b) /\ 2 \in 1 .. Len(b)
    BY <1>2, <2>1
  <2>3. data[p + 1] = b[1] /\ data[p + 2] = b[2]
    BY <2>1, <2>2
  <2> QED BY <1>1, <2>1, <2>3
<1>5. /\ p \in 0 .. n /\ p # n /\ p + 1 # n
      /\ Octet(data, p) = i.type /\ Octet(data, p + 1) = l
  <2>1. (p + 1) + 1 = p + 2
    OBVIOUS
  <2> QED BY <1>2, <1>4, <2>1 DEF Octet
<1>6. ItemEnd(data, p) = p + 2 + l /\ ~(ItemEnd(data, p) > n)
  <2>1. ItemEnd(data, p) = p + 2 + l
    BY <1>5 DEF ItemEnd
  <2> QED BY <1>2, <1>4, <2>1
<1>7. Octets(data, p + 2, l) = i.text
  <2>1. 2 \in Nat /\ p + 2 \in Nat
    OBVIOUS
  <2>2. Holds(data, p + 2, i.text)
    BY <1>1, <1>2, <1>3, <2>1, HeldWithin
  <2>3. Octets(data, p + 2, Len(i.text)) = i.text
    BY <1>2, <2>1, <2>2, OctetsHeld
  <2> QED BY <2>3 DEF l
<1>8. i.type # SDES_END
  BY <1>2 DEF SDES_END
<1>9. Octets(data, p + 2, Octet(data, p + 1)) = i.text
  BY <1>5, <1>7
<1>10. p \in 0 .. Len(data) /\ p # Len(data) /\ p + 1 # Len(data) /\ ~(ItemEnd(data, p) > Len(data))
  BY <1>5, <1>6 DEF n
<1> QED BY <1>5, <1>6, <1>8, <1>9, <1>10 DEF l

\* An item is read in front of those behind it.
Found(is, e)  == [items |-> is, next |-> e]
Before(i, is) == <<i>> \o is

LEMMA ItemRead ==
  ASSUME NEW data \in Seq(Nat), NEW p \in Nat, NEW i \in SdesItem, Holds(data, p, BuildItem(i)),
         NEW f, NEW is, NEW e, f[ItemEnd(data, p)] = Found(is, e)
  PROVE  SdesStep(data, p, f) = Found(Before(i, is), e)
<1> DEFINE rest == f[ItemEnd(data, p)]
           item == [type |-> Octet(data, p), text |-> Octets(data, p + 2, Octet(data, p + 1))]
<1>1. /\ p # Len(data) /\ p + 1 # Len(data)
      /\ Octet(data, p) = i.type /\ i.type # SDES_END
      /\ Octets(data, p + 2, Octet(data, p + 1)) = i.text
      /\ ~(ItemEnd(data, p) > Len(data))
  BY ItemStands
<1>2. SdesStep(data, p, f) = [rest EXCEPT !.items = <<item>> \o rest.items]
  BY <1>1 DEF SdesStep
<1>3. item = i
  <2>1. item = [type |-> i.type, text |-> i.text]
    BY <1>1
  <2>2. i = [type |-> i.type, text |-> i.text]
    BY DEF SdesItem
  <2> QED BY <2>1, <2>2
<1>4. rest = [items |-> is, next |-> e]
  BY DEF Found
<1> HIDE DEF item, rest
<1>5. [rest EXCEPT !.items = <<item>> \o rest.items] = [items |-> <<i>> \o is, next |-> e]
  <2> DEFINE new == <<i>> \o is
  <2>1. <<item>> \o rest.items = new
    BY <1>3, <1>4
  <2> HIDE DEF new
  <2>2. [rest EXCEPT !.items = new] = [items |-> new, next |-> e]
    BY <1>4
  <2> QED BY <2>1, <2>2 DEF new
<1> QED BY <1>2, <1>5 DEF Found, Before

ItemsLaid(is) == FlattenSeq([k \in DOMAIN is |-> BuildItem(is[k])])

\* All items of a chunk are read, and the zero behind them is stepped over.
LEMMA ItemsRead ==
  ASSUME NEW is \in Seq(SdesItem), NEW data \in Seq(Nat), NEW o \in Nat,
         Holds(data, o, ItemsLaid(is)),
         o + Len(ItemsLaid(is)) < Len(data), Octet(data, o + Len(ItemsLaid(is))) = 0
  PROVE  SdesItems(data, o) = [items |-> is, next |-> o + Len(ItemsLaid(is)) + 1]
<1> DEFINE n    == Len(is)
           seqs == [k \in DOMAIN is |-> BuildItem(is[k])]
<1>1. n \in Nat /\ DOMAIN is = 1 .. n /\ \A k \in 1 .. n : is[k] \in SdesItem
  OBVIOUS
<1> HIDE DEF n
<1>2. ASSUME NEW k \in 1 .. n
      PROVE  BuildItem(is[k]) \in Seq(Int) /\ Len(BuildItem(is[k])) = 2 + Len(is[k].text)
  <2>1. is[k] \in SdesItem
    BY <1>1
  <2>2. BuildItem(is[k]) \in Seq(Nat) /\ Len(BuildItem(is[k])) = 2 + Len(is[k].text)
    BY <2>1, ItemBuilt
  <2> QED BY <2>2
<1>3. /\ seqs \in Seq(Seq(Int)) /\ Len(seqs) = n
      /\ \A k \in 1 .. n : seqs[k] = BuildItem(is[k])
  BY <1>1, <1>2
<1>4. ItemsLaid(is) = FlattenSeq(seqs)
  BY DEF ItemsLaid
<1> HIDE DEF seqs
<1>5. \A k \in 1 .. n : seqs[k] \in Seq(Int)
  BY <1>2, <1>3
<1>6. PICK g : Accumulates(g, seqs, n, Int)
  BY <1>1, <1>5, Accumulated
<1>7. ItemsLaid(is) = g[n]
  <2>1. Accumulates(g, seqs, Len(seqs), Int)
    BY <1>3, <1>6
  <2> QED BY <1>3, <1>4, <2>1, FlattenAccumulates
<1> DEFINE at(k) == o + Len(g[k])
           end   == at(n) + 1
<1>8. ASSUME NEW k \in Nat PROVE at(k) \in Nat /\ Len(g[k]) \in Nat
  <2>1. g[k] \in Seq(Int)
    BY <1>6 DEF Accumulates
  <2>2. Len(g[k]) \in Nat
    BY <2>1
  <2> QED BY <2>2
<1>9. PICK f : \A x \in 0 .. Len(data) :
                 SdesItems(data, x) = f[x] /\ f[x] = SdesStep(data, x, f)
  BY SdesUnrolls
<1> DEFINE Good == {d \in Nat : d <= n =>
                      /\ at(n - d) \in 0 .. Len(data)
                      /\ f[at(n - d)] = [items |-> SubSeq(is, (n - d) + 1, n), next |-> end]}
<1>10. 0 \in Good
  <2>1. n - 0 = n /\ at(n) \in 0 .. Len(data) /\ at(n) # Len(data)
    <3>1. at(n) < Len(data) /\ at(n) \in Nat /\ Len(data) \in Nat
      BY <1>1, <1>7, <1>8
    <3> HIDE DEF at
    <3> QED BY <1>1, <3>1
  <2>2. Octet(data, at(n)) = SDES_END
    BY <1>7 DEF SDES_END
  <2>3. f[at(n)] = SdesStep(data, at(n), f)
    <3> HIDE DEF at
    <3> QED BY <1>9, <2>1
  <2>4. SdesStep(data, at(n), f) = [items |-> << >>, next |-> at(n) + 1]
    <3> HIDE DEF at
    <3> QED BY <2>1, <2>2 DEF SdesStep
  <2>5. SubSeq(is, n + 1, n) = << >>
    BY <1>1
  <2> HIDE DEF at
  <2> QED BY <2>1, <2>3, <2>4, <2>5
<1>11. ASSUME NEW d \in Nat, d \in Good PROVE d + 1 \in Good
  <2> SUFFICES ASSUME d + 1 <= n
               PROVE  /\ at(n - (d + 1)) \in 0 .. Len(data)
                      /\ f[at(n - (d + 1))]
                           = [items |-> SubSeq(is, (n - (d + 1)) + 1, n), next |-> end]
    OBVIOUS
  <2> DEFINE k == n - d
             p == at(k - 1)
             i == is[k]
             b == SubSeq(is, k + 1, n)
  <2>1. k \in 1 .. n /\ n - (d + 1) = k - 1 /\ k - 1 \in Nat /\ k \in Nat /\ d <= n /\ k <= n
    BY <1>1
  <2>2. f[at(k)] = [items |-> b, next |-> end]
    <3> HIDE DEF at, end
    <3> QED BY <1>11, <2>1
  <2> HIDE DEF k, Good
  <2>3. i \in SdesItem /\ seqs[k] = BuildItem(i) /\ Len(seqs[k]) = 2 + Len(i.text)
    BY <1>1, <1>2, <1>3, <2>1
  <2>4. p \in Nat /\ Len(g[k - 1]) \in Nat /\ Len(i.text) \in Nat
    <3>1. i.text \in Seq(Nat)
      BY <2>3 DEF SdesItem
    <3> QED BY <1>8, <2>1, <3>1, SMTT(30)
  <2>5. Holds(data, p, BuildItem(i))
    <3>1. Holds(data, o, g[n]) /\ data \in Seq(Int)
      BY <1>7
    <3>2. Holds(data, o + Len(g[k - 1]), seqs[k])
      BY <1>1, <1>5, <1>6, <2>1, <3>1, PieceHeld
    <3> QED BY <2>3, <3>2
  <2>6. at(k) = p + 2 + Len(i.text)
    <3>1. Piece(g, seqs, k, Int)
      BY <1>1, <1>5, <1>6, <2>1, PieceInPlace
    <3>2. Len(g[k]) = Len(g[k - 1]) + Len(seqs[k])
      BY <3>1 DEF Piece
    <3> DEFINE lt == Len(i.text)
               l1 == Len(g[k])
               l0 == Len(g[k - 1])
    <3>3. l1 = l0 + (2 + lt) /\ l0 \in Nat /\ lt \in Nat
      BY <2>3, <2>4, <3>2
    <3> HIDE DEF lt, l1, l0
    <3>4. o + l1 = (o + l0) + 2 + lt
      BY <3>3
    <3> QED BY <3>4 DEF lt, l1, l0
  <2> HIDE DEF p, i, b, at, end
  <2>7. f[p + 2 + Len(i.text)] = [items |-> b, next |-> end]
    BY <2>2, <2>6
  <2>8. p \in 0 .. Len(data) /\ SdesStep(data, p, f) = [items |-> <<i>> \o b, next |-> end]
    <3>1. ItemEnd(data, p) = p + 2 + Len(i.text) /\ p \in 0 .. Len(data)
      BY <2>3, <2>4, <2>5, ItemStands
    <3>2. f[ItemEnd(data, p)] = Found(b, end)
      BY <2>7, <3>1 DEF Found
    <3>3. SdesStep(data, p, f) = Found(Before(i, b), end)
      BY <2>3, <2>4, <2>5, <3>2, ItemRead
    <3> QED BY <3>1, <3>3 DEF Found, Before
  <2>9. <<i>> \o b = SubSeq(is, k, n)
    <3> DEFINE rest == SubSeq(is, k + 1, n)
               all  == SubSeq(is, k, n)
               one  == <<i>>
    <3>1. /\ all \in Seq(SdesItem) /\ Len(all) = (n - k) + 1
          /\ \A j \in 1 .. (n - k) + 1 : all[j] = is[k + j - 1]
      BY <1>1, <2>1
    <3>2. /\ rest \in Seq(SdesItem) /\ Len(rest) = n - k
          /\ \A j \in 1 .. n - k : rest[j] = is[k + 1 + j - 1]
      BY <1>1, <2>1
    <3>3. one \in Seq(SdesItem) /\ Len(one) = 1 /\ one[1] = is[k]
      BY <2>3 DEF i
    <3> HIDE DEF rest, all, one
    <3>4. /\ one \o rest \in Seq(SdesItem) /\ Len(one \o rest) = Len(one) + Len(rest)
          /\ \A j \in 1 .. Len(one) + Len(rest) :
               (one \o rest)[j] = IF j <= Len(one) THEN one[j] ELSE rest[j - Len(one)]
      BY <3>2, <3>3, ConcatProperties
    <3>5. ASSUME NEW j \in 1 .. (n - k) + 1 PROVE (one \o rest)[j] = all[j]
      <4> DEFINE both == one \o rest
      <4>1. both[j] = IF j <= 1 THEN one[j] ELSE rest[j - 1]
        BY <1>1, <2>1, <3>2, <3>3, <3>4, SMTT(30)
      <4> HIDE DEF both
      <4>2. CASE j = 1
        <5>1. k + j - 1 = k
          BY <2>1, <4>2
        <5> QED BY <3>1, <3>3, <4>1, <4>2, <5>1 DEF both
      <4>3. CASE j # 1
        <5>1. j - 1 \in 1 .. n - k /\ ~(j <= 1) /\ k + 1 + (j - 1) - 1 = k + j - 1
          BY <1>1, <2>1, <4>3
        <5>2. rest[j - 1] = is[k + 1 + (j - 1) - 1]
          BY <3>2, <5>1
        <5> QED BY <3>1, <4>1, <5>1, <5>2 DEF both
      <4> QED BY <4>2, <4>3
    <3>6. Len(one \o rest) = Len(all) /\ Len(all) = (n - k) + 1
      BY <1>1, <2>1, <3>1, <3>2, <3>3, <3>4
    <3>7. one \o rest = all
      BY <3>1, <3>4, <3>5, <3>6, SeqEqual
    <3> QED BY <3>7 DEF one, rest, all, b
  <2>10. f[p] = SdesStep(data, p, f)
    BY <1>9, <2>8
  <2>11. (n - (d + 1)) + 1 = k
    BY <1>1, <2>1
  <2> QED BY <2>1, <2>8, <2>9, <2>10, <2>11 DEF p
<1> HIDE DEF Good
<1>12. \A d \in Nat : d \in Good
  BY <1>10, <1>11, SetInduction
<1>13. at(0) \in 0 .. Len(data) /\ f[at(0)] = [items |-> SubSeq(is, 0 + 1, n), next |-> end]
  <2>1. n - n = 0 /\ n <= n /\ n \in Good
    BY <1>1, <1>12
  <2> HIDE DEF at, end
  <2> QED BY <2>1 DEF Good
<1>14. at(0) = o
  BY <1>6 DEF Accumulates
<1>15. SubSeq(is, 0 + 1, n) = is
  BY <1>1 DEF n
<1>16. end = o + Len(ItemsLaid(is)) + 1
  BY <1>7
<1> HIDE DEF at, end
<1> QED BY <1>9, <1>13, <1>14, <1>15, <1>16

LEMMA FlattenOctets ==
  ASSUME NEW seqs \in Seq(Seq(Nat))
  PROVE  FlattenSeq(seqs) \in Seq(Nat)
<1> DEFINE n == Len(seqs)
<1>1. n \in Nat /\ seqs \in Seq(Seq(Int)) /\ \A k \in 1 .. n : seqs[k] \in Seq(Nat)
  <2>1. \A k \in 1 .. n : seqs[k] \in Seq(Int)
    OBVIOUS
  <2>2. seqs \in Seq(Seq(Int))
    BY <2>1
  <2> QED BY <2>2
<1>2. \A k \in 1 .. n : seqs[k] \in Seq(Int)
  BY <1>1
<1>3. PICK g : Accumulates(g, seqs, n, Int)
  BY <1>1, <1>2, Accumulated
<1>4. FlattenSeq(seqs) = g[n]
  BY <1>1, <1>3, FlattenAccumulates
<1> HIDE DEF n
<1> DEFINE Good == {k \in Nat : k <= n => g[k] \in Seq(Nat)}
<1>5. 0 \in Good
  BY <1>3 DEF Accumulates
<1>6. ASSUME NEW k \in Nat, k \in Good PROVE k + 1 \in Good
  <2> SUFFICES ASSUME k + 1 <= n PROVE g[k + 1] \in Seq(Nat)
    OBVIOUS
  <2>1. k + 1 \in 1 .. n /\ (k + 1) - 1 = k /\ k <= n
    BY <1>1
  <2>2. g[k + 1] = g[(k + 1) - 1] \o seqs[k + 1]
    BY <1>3, <2>1 DEF Accumulates
  <2>3. g[k] \in Seq(Nat) /\ seqs[k + 1] \in Seq(Nat)
    BY <1>1, <1>6, <2>1
  <2>4. g[k] \o seqs[k + 1] \in Seq(Nat)
    BY <2>3, ConcatProperties
  <2> QED BY <2>1, <2>2, <2>4
<1> HIDE DEF Good
<1>7. \A k \in Nat : k \in Good
  BY <1>5, <1>6, SetInduction
<1>8. n \in Good
  BY <1>1, <1>7
<1>9. g[n] \in Seq(Nat)
  BY <1>1, <1>8 DEF Good
<1> QED BY <1>4, <1>9

\* A chunk: its source, its items, and at least one zero.
LEMMA ChunkBuilt ==
  ASSUME NEW is \in Seq(SdesItem)
  PROVE  /\ ItemsLaid(is) \in Seq(Nat) /\ ItemsLength(is) = Len(ItemsLaid(is))
         /\ ItemsLength(is) \in Nat /\ Fill(is) \in 1 .. 4
         /\ BuildChunk(is) \in Seq(Nat)
         /\ Len(BuildChunk(is)) = 4 + ItemsLength(is) + Fill(is)
         /\ Begins(BuildChunk(is), Four(1)) /\ Holds(BuildChunk(is), 4, ItemsLaid(is))
         /\ BuildChunk(is)[4 + ItemsLength(is) + 1] = 0
<1> DEFINE four  == Four(1)
           items == ItemsLaid(is)
           zeros == Zeros(Fill(is))
           front == four \o items
           all   == front \o zeros
           l     == Len(items)
           m     == Fill(is)
<1>1. BuildChunk(is) = all /\ ItemsLength(is) = l
  BY DEF BuildChunk, ItemsLaid, ItemsLength
<1>2. items \in Seq(Nat)
  <2> DEFINE seqs == [k \in DOMAIN is |-> BuildItem(is[k])]
  <2>1. ASSUME NEW k \in DOMAIN is PROVE BuildItem(is[k]) \in Seq(Nat)
    <3>1. is[k] \in SdesItem
      OBVIOUS
    <3> QED BY <3>1, ItemBuilt
  <2>2. seqs \in Seq(Seq(Nat))
    BY <2>1
  <2> HIDE DEF seqs
  <2>3. FlattenSeq(seqs) \in Seq(Nat)
    BY <2>2, FlattenOctets
  <2> QED BY <2>3 DEF seqs, ItemsLaid
<1>3. items \in Seq(Int) /\ l \in Nat
  <2> HIDE DEF items
  <2> QED BY <1>2
<1>4. four \in Seq(Nat) /\ four \in Seq(Int) /\ Len(four) = 4
  BY DEF Four
<1>5. m \in 1 .. 4
  <2>1. m = 4 - (l % 4)
    BY <1>1 DEF Fill
  <2> HIDE DEF l, m
  <2> QED BY <1>3, <2>1
<1>6. /\ zeros \in Seq(Nat) /\ zeros \in Seq(Int) /\ Len(zeros) = m
      /\ \A k \in 1 .. m : zeros[k] = 0
  <2> HIDE DEF m
  <2>1. Zeros(m) = [k \in 1 .. m |-> 0] /\ m \in Nat
    BY <1>5 DEF Zeros
  <2>2. /\ Zeros(m) \in Seq(Nat) /\ Zeros(m) \in Seq(Int) /\ Len(Zeros(m)) = m
        /\ \A k \in 1 .. m : Zeros(m)[k] = 0
    BY <2>1
  <2> QED BY <2>2 DEF m
<1> HIDE DEF four, items, zeros, l, m
<1>7. front \in Seq(Nat) /\ front \in Seq(Int)
  BY <1>2, <1>3, <1>4, ConcatProperties
<1>8. Follows(four, items, front)
  BY <1>3, <1>4, Joined
<1> HIDE DEF front
<1>9. Len(front) = 4 + l
  BY <1>4, <1>8 DEF Follows, l
<1>10. all \in Seq(Nat) /\ all \in Seq(Int)
  BY <1>6, <1>7, ConcatProperties
<1>11. Follows(front, zeros, all)
  BY <1>6, <1>7, Joined
<1> HIDE DEF all
<1>12. Len(all) = 4 + l + m
  BY <1>6, <1>9, <1>11 DEF Follows
<1>13. all[4 + l + 1] = 0
  <2>1. \A k \in 1 .. Len(zeros) : all[Len(front) + k] = zeros[k]
    BY <1>11 DEF Follows
  <2>2. 1 \in 1 .. m
    BY <1>5
  <2>3. all[Len(front) + 1] = 0
    BY <1>6, <2>1, <2>2
  <2> QED BY <1>9, <2>3
<1>14. /\ Len(front) <= Len(all) /\ \A k \in 1 .. Len(front) : all[k] = front[k]
  BY <1>3, <1>5, <1>6, <1>9, <1>11, <1>12 DEF Follows
<1>15. Begins(all, four)
  <2>1. \A k \in 1 .. 4 : front[k] = four[k]
    BY <1>4, <1>8 DEF Follows
  <2>2. \A k \in 1 .. 4 : k \in 1 .. Len(front)
    BY <1>3, <1>9
  <2>3. \A k \in 1 .. 4 : all[k] = four[k]
    BY <1>14, <2>1, <2>2
  <2>4. 4 <= Len(all)
    BY <1>3, <1>5, <1>12
  <2> QED BY <1>4, <2>3, <2>4 DEF Begins
<1>16. Holds(all, 4, items)
  <2>1. \A k \in 1 .. l : front[4 + k] = items[k]
    BY <1>4, <1>8 DEF Follows, l
  <2>2. \A k \in 1 .. l : all[4 + k] = items[k]
    BY <1>3, <1>9, <1>14, <2>1
  <2>3. 4 + l <= Len(all)
    BY <1>3, <1>5, <1>12
  <2> QED BY <2>2, <2>3 DEF Holds, l
<1> QED BY <1>1, <1>2, <1>3, <1>5, <1>10, <1>12, <1>13, <1>15, <1>16 DEF four, items, l, m

LEMMA ChunkRead ==
  ASSUME NEW is \in Seq(SdesItem), NEW data \in Seq(Nat), NEW p \in Nat,
         Holds(data, p, BuildChunk(is))
  PROVE  /\ p + 4 <= Len(data) /\ Uint32(data, p) = Four(1)
         /\ SdesItems(data, p + 4) = [items |-> is, next |-> p + 4 + ItemsLength(is) + 1]
         /\ p + 4 + ItemsLength(is) + 1 <= Len(data)
<1> DEFINE c     == BuildChunk(is)
           items == ItemsLaid(is)
           l     == ItemsLength(is)
           m     == Fill(is)
           n     == Len(data)
<1>1. /\ items \in Seq(Int) /\ l = Len(items) /\ l \in Nat /\ m \in 1 .. 4
      /\ c \in Seq(Int) /\ Len(c) = 4 + l + m
      /\ Begins(c, Four(1)) /\ Holds(c, 4, items) /\ c[4 + l + 1] = 0
  <2>1. items \in Seq(Nat) /\ c \in Seq(Nat)
    BY ChunkBuilt
  <2> QED BY <2>1, ChunkBuilt
<1>2. data \in Seq(Int) /\ n \in Nat /\ Holds(data, p, c)
  OBVIOUS
<1>3. Four(1) \in Seq(Int) /\ Len(Four(1)) = 4
  BY FourIsFour
<1> DEFINE four == Four(1)
<1> HIDE DEF c, items, l, m, n, four
<1>4. /\ p + (4 + l + m) <= n
      /\ \A i \in 1 .. 4 + l + m : data[p + i] = c[i]
  BY <1>1, <1>2 DEF Holds, n
<1>5. Uint32(data, p) = four
  <2>1. Holds(data, p, four)
    <3>1. \A i \in 1 .. 4 : c[i] = four[i]
      BY <1>1, <1>3 DEF Begins, four
    <3>a. \A i \in 1 .. 4 : i \in 1 .. 4 + l + m
      <4>1. l \in Nat /\ m \in Nat
        BY <1>1
      <4> QED BY <4>1
    <3>2. \A i \in 1 .. 4 : data[p + i] = four[i]
      BY <1>4, <3>1, <3>a
    <3>3. Len(four) = 4 /\ p + 4 <= n
      BY <1>1, <1>2, <1>3, <1>4 DEF four
    <3> QED BY <3>2, <3>3 DEF Holds, n
  <2>2. four \in Seq(Int) /\ Len(four) = 4
    BY <1>3 DEF four
  <2>3. Octets(data, p, Len(four)) = four
    BY <1>2, <2>1, <2>2, OctetsHeld
  <2>4. SubSeq(data, p + 1, p + 4) = four
    BY <2>2, <2>3 DEF Octets
  <2> QED BY <2>4 DEF Uint32
<1>6. Holds(data, p + 4, items)
  <2>1. 4 \in Nat
    OBVIOUS
  <2> QED BY <1>1, <1>2, <2>1, HeldWithin
<1>7. p + 4 \in Nat /\ (p + 4) + l < n /\ p + 4 + l + 1 <= n /\ p + 4 <= n
  BY <1>1, <1>2, <1>4
<1>8. Octet(data, (p + 4) + l) = 0
  <2>1. 4 + l + 1 \in 1 .. 4 + l + m /\ p + (4 + l + 1) = ((p + 4) + l) + 1
    BY <1>1
  <2> QED BY <1>1, <1>4, <2>1 DEF Octet
<1>9. SdesItems(data, p + 4) = [items |-> is, next |-> (p + 4) + l + 1]
  <2>1. /\ Holds(data, p + 4, ItemsLaid(is)) /\ (p + 4) + Len(ItemsLaid(is)) < Len(data)
        /\ Octet(data, (p + 4) + Len(ItemsLaid(is))) = 0
    BY <1>1, <1>6, <1>7, <1>8 DEF items, n
  <2>2. SdesItems(data, p + 4) = [items |-> is, next |-> (p + 4) + Len(ItemsLaid(is)) + 1]
    BY <1>7, <2>1, ItemsRead
  <2> QED BY <1>1, <2>2 DEF items
<1> QED BY <1>2, <1>5, <1>7, <1>9 DEF four, l, n

SdesChunk(data, o)  == [ssrc |-> Uint32(data, o), items |-> SdesItems(data, o + 4).items]
SdesChunks(data)    == {SdesChunk(data, o) : o \in 0 .. Len(data)}

\* What parseSDES has at an offset, from what it has behind the chunk there.
ChunkStep(data, o, rest) ==
  IF o + 4 > Len(data) THEN << >>
  ELSE Before(SdesChunk(data, o), rest[SdesItems(data, o + 4).next])

LEMMA ItemsEndWithin ==
  ASSUME NEW data \in Seq(Nat), NEW o \in 0 .. Len(data), ~(o + 4 > Len(data))
  PROVE  SdesItems(data, o + 4).next \in 0 .. Len(data)
<1> DEFINE x == SdesItems(data, o + 4)
<1>1. o + 4 \in 0 .. Len(data)
  OBVIOUS
<1>2. x \in SdesFound(data)
  BY <1>1, SdesUnrolls
<1> HIDE DEF x
<1>3. x.next \in 0 .. Len(data)
  BY <1>2 DEF SdesFound
<1> QED BY <1>3 DEF x

LEMMA ChunkStepIn ==
  ASSUME NEW data \in Seq(Nat), NEW o \in 0 .. Len(data), NEW rest,
         \A x \in 0 .. Len(data) : rest[x] \in Seq(SdesChunks(data))
  PROVE  ChunkStep(data, o, rest) \in Seq(SdesChunks(data))
<1>1. CASE o + 4 > Len(data)
  BY <1>1 DEF ChunkStep
<1>2. CASE ~(o + 4 > Len(data))
  <2> DEFINE c == SdesChunk(data, o)
             r == rest[SdesItems(data, o + 4).next]
             S == SdesChunks(data)
  <2>1. ChunkStep(data, o, rest) = Before(c, r)
    BY <1>2 DEF ChunkStep
  <2>2. r \in Seq(S)
    BY <1>2, ItemsEndWithin
  <2>3. c \in S
    BY DEF SdesChunks
  <2> HIDE DEF c, r, S
  <2>4. <<c>> \in Seq(S)
    BY <2>3
  <2>5. <<c>> \o r \in Seq(S)
    BY <2>2, <2>4, ConcatProperties
  <2> QED BY <2>1, <2>5 DEF Before, S
<1> QED BY <1>1, <1>2

\* parseSDES is defined, and chunk by chunk.
ChunksFrom(from, data) ==
  \A i \in 0 .. Count(data) : \A o \in 0 .. Len(data) :
     /\ from[i][o] \in Seq(SdesChunks(data))
     /\ from[i][o] = IF i = Count(data) THEN << >> ELSE ChunkStep(data, o, from[i + 1])

LEMMA ChunksUnroll ==
  ASSUME NEW data \in Seq(Nat), Len(data) >= 8
  PROVE  \E from : /\ ChunksFrom(from, data)
                   /\ parseSDES(data) = [type |-> Octet(data, 1), chunks |-> from[0][4]]
<1> DEFINE n    == Len(data)
           c    == Count(data)
           S    == SdesChunks(data)
           V    == [0 .. n -> Seq(S)]
           none == [o \in 0 .. n |-> << >>]
           step(v) == [o \in 0 .. n |-> ChunkStep(data, o, v)]
           h    == [j \in Nat |-> [v \in V |-> step(v)]]
           P(p) == p = [i \in 0 .. c |-> [o \in 0 .. n |->
                          IF i = c \/ o + 4 > n THEN << >>
                          ELSE <<[ssrc |-> Uint32(data, o), items |-> SdesItems(data, o + 4).items]>>
                                 \o p[i + 1][SdesItems(data, o + 4).next]]]
           from == CHOOSE p : P(p)
<1>1. n \in Nat /\ c \in Nat
  <2>1. Octet(data, 0) \in Nat
    BY DEF Octet
  <2> QED BY <2>1 DEF Count
<1>2. none \in V
  <2>1. << >> \in Seq(S)
    OBVIOUS
  <2> HIDE DEF S, n
  <2> QED BY <2>1
<1>3. ASSUME NEW v \in V PROVE step(v) \in V
  <2>1. ASSUME NEW o \in 0 .. n PROVE ChunkStep(data, o, v) \in Seq(S)
    <3>1. \A x \in 0 .. Len(data) : v[x] \in Seq(SdesChunks(data))
      <4> HIDE DEF S
      <4>1. \A x \in 0 .. n : v[x] \in Seq(S)
        OBVIOUS
      <4> QED BY <4>1 DEF S
    <3> QED BY <3>1, ChunkStepIn
  <2> HIDE DEF S, n
  <2> QED BY <2>1
<1>4. h \in [Nat -> [V -> V]]
  <2> HIDE DEF V, step
  <2> QED BY <1>3
<1>5. PICK g : Iterates(g, V, none, h)
  <2> HIDE DEF V, none, h
  <2> QED BY <1>2, <1>4, Recursion
<1>6. g \in [Nat -> V] /\ g[0] = none /\ \A j \in Nat : g[j + 1] = h[j][g[j]]
  BY <1>5 DEF Iterates
<1>7. \A j \in Nat : g[j + 1] = step(g[j])
  <2>1. ASSUME NEW j \in Nat PROVE g[j + 1] = step(g[j])
    <3>1. g[j] \in V /\ g[j + 1] = h[j][g[j]]
      BY <1>6
    <3> HIDE DEF V, step
    <3> QED BY <3>1
  <2> QED BY <2>1
<1>8. P(from)
  <2> DEFINE w == [i \in 0 .. c |-> g[c - i]]
             e(p, i, o) == IF i = c \/ o + 4 > n THEN << >>
                           ELSE <<[ssrc |-> Uint32(data, o), items |-> SdesItems(data, o + 4).items]>>
                                  \o p[i + 1][SdesItems(data, o + 4).next]
  <2>1. ASSUME NEW i \in 0 .. c PROVE w[i] = [o \in 0 .. n |-> e(w, i, o)]
    <3>1. w[i] = g[c - i]
      OBVIOUS
    <3>2. CASE i = c
      <4>1. g[c - i] = none
        <5>1. c - i = 0
          BY <1>1, <3>2
        <5> QED BY <1>6, <5>1
      <4>2. \A o \in 0 .. n : e(w, i, o) = << >>
        BY <3>2
      <4> HIDE DEF w, e
      <4> QED BY <3>1, <4>1, <4>2
    <3>3. CASE i # c
      <4> DEFINE j == c - (i + 1)
      <4>1. j \in Nat /\ c - i = j + 1 /\ i + 1 \in 0 .. c
        <5> HIDE DEF c
        <5> QED BY <1>1, <3>3
      <4>2. w[i + 1] = g[j]
        BY <4>1
      <4>3. w[i] = step(w[i + 1])
        <5> HIDE DEF w, step, j
        <5> QED BY <1>7, <3>1, <4>1, <4>2
      <4>4. ASSUME NEW o \in 0 .. n PROVE ChunkStep(data, o, w[i + 1]) = e(w, i, o)
        <5> HIDE DEF w
        <5> QED BY <3>3 DEF ChunkStep, SdesChunk, Before
      <4> HIDE DEF w, e, n
      <4> QED BY <4>3, <4>4
    <3> QED BY <3>2, <3>3
  <2>2. w = [i \in 0 .. c |-> [o \in 0 .. n |-> e(w, i, o)]]
    <3> DEFINE v == [i \in 0 .. c |-> [o \in 0 .. n |-> e(w, i, o)]]
    <3>1. \A i \in 0 .. c : w[i] = v[i]
      <4> HIDE DEF w, e, n
      <4> QED BY <2>1
    <3> HIDE DEF e, n, c
    <3> QED BY <3>1
  <2>3. P(w)
    BY <2>2
  <2> HIDE DEF P, w
  <2> QED BY <2>3
<1>9. parseSDES(data) = [type |-> Octet(data, 1), chunks |-> from[0][4]]
  <2>1. ~(Len(data) < 8)
    BY <1>1
  <2> QED BY <2>1 DEF parseSDES
<1> HIDE DEF from
<1>10. ASSUME NEW i \in 0 .. c, NEW o \in 0 .. n
       PROVE  from[i][o] = IF i = c THEN << >> ELSE ChunkStep(data, o, from[i + 1])
  <2> DEFINE e(p, k, x) == IF k = c \/ x + 4 > n THEN << >>
                           ELSE <<[ssrc |-> Uint32(data, x), items |-> SdesItems(data, x + 4).items]>>
                                  \o p[k + 1][SdesItems(data, x + 4).next]
  <2>1. from = [k \in 0 .. c |-> [x \in 0 .. n |-> e(from, k, x)]]
    BY <1>8
  <2>2. from[i][o] = e(from, i, o)
    <3> HIDE DEF e, n, c, P
    <3>1. \A k \in 0 .. c : from[k] = [x \in 0 .. n |-> e(from, k, x)]
      BY <2>1
    <3>2. from[i] = [x \in 0 .. n |-> e(from, i, x)]
      BY <3>1
    <3> QED BY <3>2
  <2>3. e(from, i, o) = IF i = c THEN << >> ELSE ChunkStep(data, o, from[i + 1])
    <3> HIDE DEF P
    <3> QED BY DEF ChunkStep, SdesChunk, Before
  <2> QED BY <2>2, <2>3
<1> HIDE DEF P, S, n, c, V, h, none, step
<1> DEFINE Good == {d \in Nat : d <= c => \A o \in 0 .. n : from[c - d][o] \in Seq(S)}
<1>11. 0 \in Good
  <2>1. c - 0 = c /\ c \in 0 .. c
    BY <1>1
  <2>2. \A o \in 0 .. n : from[c][o] = << >>
    BY <1>10, <2>1
  <2>3. << >> \in Seq(S)
    OBVIOUS
  <2>4. \A o \in 0 .. n : from[c][o] \in Seq(S)
    BY <2>2, <2>3
  <2> QED BY <2>1, <2>4
<1>12. ASSUME NEW d \in Nat, d \in Good PROVE d + 1 \in Good
  <2> SUFFICES ASSUME d + 1 <= c, NEW o \in 0 .. n PROVE from[c - (d + 1)][o] \in Seq(S)
    OBVIOUS
  <2> DEFINE i == c - (d + 1)
  <2>1. i \in 0 .. c /\ i # c /\ i + 1 = c - d
    BY <1>1
  <2>2. \A x \in 0 .. n : from[i + 1][x] \in Seq(S)
    <3> HIDE DEF i
    <3> QED BY <1>1, <1>12, <2>1
  <2> HIDE DEF i
  <2>3. ChunkStep(data, o, from[i + 1]) \in Seq(S)
    BY <2>2, ChunkStepIn DEF S, n
  <2>4. from[i][o] \in Seq(S)
    BY <1>10, <2>1, <2>3
  <2> QED BY <2>4 DEF i
<1> HIDE DEF Good
<1>13. \A d \in Nat : d \in Good
  BY <1>11, <1>12, SetInduction
<1>14. ASSUME NEW i \in 0 .. c, NEW o \in 0 .. n PROVE from[i][o] \in Seq(S)
  <2>1. c - i \in Nat /\ c - i <= c /\ c - (c - i) = i
    BY <1>1
  <2>2. c - i \in Good
    BY <1>13, <2>1
  <2>3. \A x \in 0 .. n : from[c - (c - i)][x] \in Seq(S)
    BY <2>1, <2>2 DEF Good
  <2> QED BY <2>1, <2>3
<1>15. ChunksFrom(from, data)
  BY <1>10, <1>14 DEF ChunksFrom, c, n, S
<1> QED BY <1>9, <1>15

LEMMA BeforeAt ==
  ASSUME NEW S, NEW s \in Seq(S), NEW x \in S
  PROVE  /\ Len(s) \in Nat /\ Len(Before(x, s)) = Len(s) + 1 /\ Before(x, s)[1] = x
         /\ \A k \in 1 .. Len(s) : Before(x, s)[k + 1] = s[k]
<1> DEFINE one == <<x>>
           all == one \o s
           l   == Len(s)
<1>1. one \in Seq(S) /\ Len(one) = 1 /\ one[1] = x /\ l \in Nat
  OBVIOUS
<1>2. Before(x, s) = all
  BY DEF Before
<1> HIDE DEF one
<1>3. /\ Len(all) = Len(one) + l
      /\ \A i \in 1 .. Len(one) + l : all[i] = IF i <= Len(one) THEN one[i] ELSE s[i - Len(one)]
  BY <1>1, ConcatProperties
<1> HIDE DEF all, l
<1>4. /\ Len(all) = l + 1
      /\ \A i \in 1 .. 1 + l : all[i] = IF i <= 1 THEN one[i] ELSE s[i - 1]
  BY <1>1, <1>3
<1>5. all[1] = x
  BY <1>1, <1>4
<1>6. ASSUME NEW k \in 1 .. l PROVE all[k + 1] = s[k]
  <2>1. k + 1 \in 1 .. 1 + l /\ ~(k + 1 <= 1) /\ (k + 1) - 1 = k
    BY <1>1
  <2> QED BY <1>4, <2>1
<1> QED BY <1>1, <1>2, <1>4, <1>5, <1>6 DEF l

\* No more chunks are read than are announced.
LEMMA ChunksFew ==
  ASSUME NEW data \in Seq(Nat), Count(data) \in Nat, NEW from, ChunksFrom(from, data)
  PROVE  \A i \in 0 .. Count(data) : \A o \in 0 .. Len(data) :
            Len(from[i][o]) <= Count(data) - i
<1> DEFINE n == Len(data)
           c == Count(data)
           S == SdesChunks(data)
           Good == {d \in Nat : d <= c => \A o \in 0 .. n : Len(from[c - d][o]) <= d}
<1>1. n \in Nat /\ c \in Nat
  OBVIOUS
<1>2. ASSUME NEW i \in 0 .. c, NEW o \in 0 .. n
      PROVE  /\ from[i][o] \in Seq(S)
             /\ from[i][o] = IF i = c THEN << >> ELSE ChunkStep(data, o, from[i + 1])
  BY DEF ChunksFrom
<1>3. 0 \in Good
  <2>1. c - 0 = c /\ c \in 0 .. c
    BY <1>1
  <2>2. \A o \in 0 .. n : from[c][o] = << >>
    BY <1>2, <2>1
  <2>3. Len(<< >>) <= 0
    OBVIOUS
  <2> HIDE DEF c, n
  <2> QED BY <2>1, <2>2, <2>3
<1>4. ASSUME NEW d \in Nat, d \in Good PROVE d + 1 \in Good
  <2> SUFFICES ASSUME d + 1 <= c, NEW o \in 0 .. n PROVE Len(from[c - (d + 1)][o]) <= d + 1
    OBVIOUS
  <2> DEFINE i == c - (d + 1)
             x == SdesItems(data, o + 4).next
             s == from[i + 1][x]
  <2>1. i \in 0 .. c /\ i # c /\ i + 1 = c - d /\ i + 1 \in 0 .. c /\ d <= c
    <3> HIDE DEF c
    <3> QED BY <1>1
  <2>2. \A y \in 0 .. n : Len(from[c - d][y]) <= d
    BY <1>4, <2>1
  <2> HIDE DEF i, c, Good
  <2>3. from[i][o] = ChunkStep(data, o, from[i + 1])
    BY <1>2, <2>1
  <2>4. CASE o + 4 > n
    <3>1. from[i][o] = << >>
      BY <2>3, <2>4 DEF ChunkStep
    <3>2. Len(<< >>) = 0
      OBVIOUS
    <3>3. Len(from[i][o]) = 0
      BY <3>1, <3>2
    <3> HIDE DEF n
    <3> QED BY <3>3 DEF i
  <2>5. CASE ~(o + 4 > n)
    <3>1. x \in 0 .. n
      BY <2>5, ItemsEndWithin
    <3>2. from[i][o] = Before(SdesChunk(data, o), s)
      BY <2>3, <2>5 DEF ChunkStep
    <3> HIDE DEF x
    <3>3. s \in Seq(S) /\ Len(s) <= d
      BY <1>2, <2>1, <2>2, <3>1
    <3>4. SdesChunk(data, o) \in S
      BY DEF SdesChunks
    <3> HIDE DEF s, S
    <3>5. Len(Before(SdesChunk(data, o), s)) = Len(s) + 1 /\ Len(s) \in Nat
      BY <3>3, <3>4, BeforeAt
    <3>6. Len(from[i][o]) <= d + 1
      BY <3>2, <3>3, <3>5
    <3> QED BY <3>6 DEF i
  <2> QED BY <2>4, <2>5
<1> HIDE DEF Good
<1>5. \A d \in Nat : d \in Good
  BY <1>3, <1>4, SetInduction
<1>6. ASSUME NEW i \in 0 .. c, NEW o \in 0 .. n PROVE Len(from[i][o]) <= c - i
  <2>1. c - i \in Nat /\ c - i <= c /\ c - (c - i) = i
    BY <1>1
  <2>2. c - i \in Good
    BY <1>5, <2>1
  <2>3. Len(from[c - (c - i)][o]) <= c - i
    BY <2>1, <2>2 DEF Good
  <2> QED BY <2>1, <2>3
<1> QED BY <1>6

\* The chunks in front of the last one that is read are filled up with one zero.
LEMMA ChunksReadFirst ==
  ASSUME NEW list \in Seq(Seq(SdesItem))
  PROVE  /\ ChunksRead(list) \in 0 .. Len(list)
         /\ \A k \in 1 .. Len(list) : k < ChunksRead(list) => Fill(list[k]) = 1
<1> DEFINE n   == Len(list)
           far == {k \in DOMAIN list : Fill(list[k]) > 1}
           r   == ChunksRead(list)
<1>1. n \in Nat /\ DOMAIN list = 1 .. n /\ far \subseteq Nat /\ far \subseteq 1 .. n
  OBVIOUS
<1>2. ASSUME NEW k \in 1 .. n, k \notin far PROVE Fill(list[k]) = 1
  <2>1. list[k] \in Seq(SdesItem)
    OBVIOUS
  <2>2. Fill(list[k]) \in 1 .. 4
    BY <2>1, ChunkBuilt
  <2>3. ~(Fill(list[k]) > 1)
    BY <1>1, <1>2
  <2> QED BY <2>2, <2>3
<1>3. r = IF far = {} THEN n ELSE CHOOSE k \in far : \A j \in far : k <= j
  BY DEF ChunksRead
<1> HIDE DEF far, r, n
<1>4. CASE far = {}
  BY <1>1, <1>2, <1>3, <1>4 DEF r, n
<1>5. CASE far # {}
  <2>1. \E k \in far : \A j \in far : k <= j
    BY <1>1, <1>5, LeastOf
  <2>2. r \in far /\ \A j \in far : r <= j
    BY <1>3, <1>5, <2>1
  <2>3. ASSUME NEW k \in 1 .. n, k < r PROVE Fill(list[k]) = 1
    <3>1. k \notin far
      BY <1>1, <2>2, <2>3
    <3> QED BY <1>2, <3>1
  <2>4. r \in 1 .. n
    BY <1>1, <2>2
  <2>5. r \in 0 .. n
    BY <2>4
  <2> QED BY <2>3, <2>5 DEF r, n
<1> QED BY <1>4, <1>5

\* Every chunk that is read comes back with all of its items.
LEMMA DescriptionRead ==
  ASSUME NEW q, q.type = RTCP_SDES, q.list \in Seq(Seq(SdesItem)), Len(q.list) < 32,
         q.behind \in Seq(Nat), q.list # << >> \/ Len(q.behind) >= 4
  PROVE  RtcpRead(q)
<1> DEFINE list == q.list
           n    == Len(list)
           r    == ChunksRead(list)
           head == RtcpHeader(n, RTCP_SDES)
           seqs == [k \in DOMAIN list |-> BuildChunk(list[k])]
           flat == FlattenSeq(seqs)
           both == head \o flat
           data == BuildRtcp(q) \o q.behind
           m    == Len(data)
<1>1. BuildRtcp(q) = both
  BY TypesDiffer DEF BuildRtcp
<1>2. /\ list \in Seq(Seq(SdesItem)) /\ n \in Nat /\ n < 32 /\ DOMAIN list = 1 .. n
      /\ \A k \in 1 .. n : list[k] \in Seq(SdesItem)
  OBVIOUS
<1>3. r \in 0 .. n /\ \A k \in 1 .. n : k < r => Fill(list[k]) = 1
  BY <1>2, ChunksReadFirst
<1>4. head \in Seq(Nat) /\ head \in Seq(Int) /\ Len(head) = 4
  BY <1>2 DEF RtcpHeader, RTCP_SDES
<1>b. q.behind \in Seq(Nat) /\ q.behind \in Seq(Int) /\ Len(q.behind) \in Nat
      /\ (list # << >> \/ Len(q.behind) >= 4)
  OBVIOUS
<1> HIDE DEF list, n
<1>5. ASSUME NEW k \in 1 .. n
      PROVE  BuildChunk(list[k]) \in Seq(Nat) /\ BuildChunk(list[k]) \in Seq(Int)
  <2>1. BuildChunk(list[k]) \in Seq(Nat)
    BY <1>2, ChunkBuilt
  <2> QED BY <2>1
<1>6. /\ seqs \in Seq(Seq(Nat)) /\ seqs \in Seq(Seq(Int)) /\ Len(seqs) = n
      /\ \A k \in 1 .. n : seqs[k] = BuildChunk(list[k]) /\ seqs[k] \in Seq(Int)
  BY <1>2, <1>5
<1> HIDE DEF seqs
<1>7. flat \in Seq(Nat)
  BY <1>6, FlattenOctets
<1>8. PICK g : Accumulates(g, seqs, n, Int)
  BY <1>2, <1>6, Accumulated
<1>9. flat = g[n] /\ flat \in Seq(Int)
  <2>1. Accumulates(g, seqs, Len(seqs), Int)
    BY <1>6, <1>8
  <2>2. flat = g[n]
    BY <1>6, <2>1, FlattenAccumulates
  <2> QED BY <1>2, <1>8, <2>2 DEF Accumulates
<1> HIDE DEF flat, head
<1>10. both \in Seq(Nat) /\ both \in Seq(Int)
  BY <1>4, <1>7, <1>9, ConcatProperties
<1>11. data = both \o q.behind
  <2> HIDE DEF both
  <2> QED BY <1>1
<1> HIDE DEF both, data
<1>12. data \in Seq(Nat) /\ data \in Seq(Int) /\ m \in Nat
  <2>1. both \o q.behind \in Seq(Nat)
    BY <1>10, <1>b, ConcatProperties
  <2> QED BY <1>11, <2>1
<1>13. Begins(data, both)
  <2>1. Begins(both \o q.behind, both)
    BY <1>10, <1>b, BeginsJoined
  <2> QED BY <1>11, <2>1
<1>14. Begins(data, head) /\ Holds(data, 4, flat)
  <2>1. Begins(data, head) /\ Holds(data, Len(head), flat)
    BY <1>4, <1>9, <1>12, <1>13, HeldBehind DEF both
  <2> QED BY <1>4, <2>1
<1>15. /\ m >= 4 /\ Version(data) = 2 /\ Count(data) = n /\ Octet(data, 1) = RTCP_SDES
  <2>1. RTCP_SDES \in Int
    BY DEF RTCP_SDES
  <2>2. Begins(data, RtcpHeader(n, RTCP_SDES))
    BY <1>14 DEF head
  <2> QED BY <1>2, <1>12, <2>1, <2>2, RtcpHeaderRead
<1> DEFINE chunk(k) == [ssrc |-> Four(1), items |-> list[k]]
           next(k)  == IF k = 0 THEN 4
                       ELSE (4 + Len(g[k - 1])) + 4 + ItemsLength(list[k]) + 1
\* Where the k-th chunk begins if those in front of it are filled with one zero.
<1>16. ASSUME NEW k \in 1 .. n
       PROVE  LET p == 4 + Len(g[k - 1])
              IN  /\ p \in 0 .. m /\ ~(p + 4 > m) /\ p \in Nat
                  /\ SdesChunk(data, p) = chunk(k) /\ SdesItems(data, p + 4).next = next(k)
                  /\ next(k) \in 0 .. m
                  /\ Fill(list[k]) = 1 => next(k) = 4 + Len(g[k])
  <2> DEFINE p == 4 + Len(g[k - 1])
             l == ItemsLength(list[k])
             b == BuildChunk(list[k])
  <2>1. Piece(g, seqs, k, Int)
    BY <1>2, <1>6, <1>8, PieceInPlace
  <2>2. Len(g[k - 1]) \in Nat /\ Len(g[k]) = Len(g[k - 1]) + Len(seqs[k])
    BY <2>1 DEF Piece
  <2>3. p \in Nat /\ k # 0
    BY <2>2
  <2>4. Holds(data, p, b)
    <3>1. 4 \in Nat /\ Holds(data, 4, g[n])
      BY <1>9, <1>14
    <3>2. Holds(data, 4 + Len(g[k - 1]), seqs[k])
      BY <1>2, <1>6, <1>8, <1>12, <3>1, PieceHeld
    <3> QED BY <1>6, <3>2
  <2>5. /\ p + 4 <= Len(data) /\ Uint32(data, p) = Four(1)
        /\ SdesItems(data, p + 4) = [items |-> list[k], next |-> p + 4 + ItemsLength(list[k]) + 1]
        /\ p + 4 + ItemsLength(list[k]) + 1 <= Len(data)
    <3> HIDE DEF p
    <3> QED BY <1>2, <1>12, <2>3, <2>4, ChunkRead
  <2>6. l \in Nat /\ Len(b) = 4 + l + Fill(list[k])
    BY <1>2, ChunkBuilt
  <2>7. next(k) = p + 4 + l + 1
    BY <2>3
  <2>8. SdesItems(data, p + 4).items = list[k] /\ SdesItems(data, p + 4).next = next(k)
    <3> HIDE DEF p, next
    <3> QED BY <2>5, <2>7
  <2>9. SdesChunk(data, p) = chunk(k)
    <3> HIDE DEF p, next
    <3> QED BY <2>5, <2>8 DEF SdesChunk
  <2>10. p \in 0 .. m /\ ~(p + 4 > m) /\ next(k) \in 0 .. m
    <3>1. p + 4 <= m /\ p + 4 + l + 1 <= m
      BY <2>5
    <3>2. p \in Nat /\ l \in Nat /\ m \in Nat
      BY <1>12, <2>3, <2>6
    <3> HIDE DEF p, next, l, m
    <3>3. p \in 0 .. m /\ ~(p + 4 > m) /\ p + 4 + l + 1 \in 0 .. m
      BY <3>1, <3>2
    <3> QED BY <2>7, <3>3
  <2>11. Fill(list[k]) = 1 => next(k) = 4 + Len(g[k])
    <3> SUFFICES ASSUME Fill(list[k]) = 1 PROVE next(k) = 4 + Len(g[k])
      OBVIOUS
    <3>1. Len(g[k]) = Len(g[k - 1]) + (4 + l + 1)
      BY <1>6, <2>2, <2>6
    <3> DEFINE lk == Len(g[k])
               lp == Len(g[k - 1])
    <3>2. next(k) = (4 + lp) + 4 + l + 1 /\ lk = lp + (4 + l + 1) /\ lp \in Nat /\ l \in Nat
      BY <2>2, <2>6, <2>7, <3>1
    <3> HIDE DEF l, lk, lp, next
    <3>3. next(k) = 4 + lk
      BY <3>2
    <3> QED BY <3>3 DEF lk
  <2> HIDE DEF l, next
  <2> QED BY <2>3, <2>8, <2>9, <2>10, <2>11
<1>17. m >= 8
  <2>1. CASE n = 0
    <3>1. Len(flat) = 0
      BY <1>2, <1>8, <1>9, <2>1 DEF Accumulates
    <3>2. list = << >>
      BY <1>2, <2>1, EmptySeq DEF n
    <3>3. Len(both) = 4 /\ m = Len(both) + Len(q.behind)
      <4>1. Follows(head, flat, both)
        BY <1>4, <1>9, Joined DEF both
      <4>2. Follows(both, q.behind, data)
        BY <1>10, <1>11, <1>b, Joined
      <4> QED BY <1>4, <3>1, <4>1, <4>2 DEF Follows
    <3> QED BY <1>b, <3>2, <3>3
  <2>2. CASE n # 0
    <3>1. 1 \in 1 .. n
      BY <1>2, <2>2
    <3>2. LET p == 4 + Len(g[1 - 1]) IN ~(p + 4 > m) /\ p \in Nat
      BY <1>16, <3>1
    <3>3. Len(g[1 - 1]) \in Nat
      <4>1. g[1 - 1] = << >>
        BY <1>8 DEF Accumulates
      <4> QED BY <4>1
    <3> QED BY <1>12, <3>2, <3>3
  <2> QED BY <2>1, <2>2
<1>18. PICK from : /\ ChunksFrom(from, data)
                   /\ parseSDES(data) = [type |-> Octet(data, 1), chunks |-> from[0][4]]
  BY <1>12, <1>17, ChunksUnroll
<1>19. ASSUME NEW i \in 0 .. n, NEW o \in 0 .. m
       PROVE  /\ from[i][o] \in Seq(SdesChunks(data))
              /\ from[i][o] = IF i = n THEN << >> ELSE ChunkStep(data, o, from[i + 1])
              /\ Len(from[i][o]) <= n - i
  <2>1. /\ from[i][o] \in Seq(SdesChunks(data))
        /\ from[i][o] = IF i = n THEN << >> ELSE ChunkStep(data, o, from[i + 1])
    BY <1>15, <1>18 DEF ChunksFrom
  <2>2. Len(from[i][o]) <= n - i
    BY <1>2, <1>12, <1>15, <1>18, ChunksFew
  <2> QED BY <2>1, <2>2
<1> DEFINE Right(i) == /\ next(i) \in 0 .. m
                       /\ Len(from[i][next(i)]) >= r - i
                       /\ \A k \in 1 .. r - i : from[i][next(i)][k] = chunk(i + k)
           Good     == {d \in Nat : d <= r => Right(r - d)}
<1> HIDE DEF next, r, m, chunk
<1>20. r \in Nat /\ r <= n
  BY <1>2, <1>3
<1>21. \A k \in 0 .. n : next(k) \in 0 .. m
  <2>1. next(0) \in 0 .. m
    BY <1>12, <1>17 DEF next
  <2>2. ASSUME NEW k \in 0 .. n, k # 0 PROVE next(k) \in 0 .. m
    <3>1. k \in 1 .. n
      BY <1>2, <2>2
    <3> QED BY <1>16, <3>1
  <2> QED BY <2>1, <2>2
<1>22. 0 \in Good
  <2>1. r - 0 = r /\ r \in 0 .. n /\ r - r = 0
    BY <1>20, <1>2
  <2>2. next(r) \in 0 .. m
    BY <1>21, <2>1
  <2> DEFINE s == from[r][next(r)]
  <2>3. s \in Seq(SdesChunks(data))
    BY <1>19, <2>1, <2>2
  <2> HIDE DEF s
  <2>4. Len(s) >= 0
    BY <2>3
  <2>5. Len(from[r][next(r)]) >= r - r
    BY <2>1, <2>4 DEF s
  <2>6. Right(r)
    BY <2>1, <2>2, <2>5
  <2> HIDE DEF Right
  <2> QED BY <2>1, <2>6
<1>23. ASSUME NEW d \in Nat, d \in Good PROVE d + 1 \in Good
  <2> SUFFICES ASSUME d + 1 <= r PROVE Right(r - (d + 1))
    OBVIOUS
  <2> DEFINE i == r - (d + 1)
             j == r - d
             s == from[j][next(j)]
             o == next(i)
  <2>1. /\ i \in 0 .. n /\ i # n /\ j \in 1 .. n /\ j = i + 1 /\ j - 1 = i /\ j <= r
        /\ i \in Nat /\ j \in 0 .. n /\ d <= r
    BY <1>2, <1>20
  <2>2. Right(j)
    <3> HIDE DEF Right
    <3> QED BY <1>23, <2>1
  <2> HIDE DEF i, j, Good
  <2>3. LET p == 4 + Len(g[i])
        IN  /\ p \in 0 .. m /\ ~(p + 4 > m) /\ p \in Nat
            /\ SdesChunk(data, p) = chunk(j) /\ SdesItems(data, p + 4).next = next(j)
    BY <1>16, <2>1
  <2>4. o = 4 + Len(g[i])
    <3>1. CASE i = 0
      <4>1. g[0] = << >> /\ Len(<< >>) = 0
        BY <1>8 DEF Accumulates
      <4> QED BY <3>1, <4>1 DEF next
    <3>2. CASE i # 0
      <4>1. i \in 1 .. n /\ i < r
        BY <1>20, <2>1, <3>2
      <4>2. Fill(list[i]) = 1
        BY <1>3, <4>1
      <4> QED BY <1>16, <4>1, <4>2
    <3> QED BY <3>1, <3>2
  <2> HIDE DEF o
  <2>5. /\ o \in 0 .. m /\ ~(o + 4 > m)
        /\ SdesChunk(data, o) = chunk(j) /\ SdesItems(data, o + 4).next = next(j)
    BY <2>3, <2>4
  <2>6. from[i][o] = Before(chunk(j), s)
    <3>1. from[i][o] = ChunkStep(data, o, from[i + 1])
      BY <1>19, <2>1, <2>5
    <3>2. ChunkStep(data, o, from[i + 1])
            = Before(SdesChunk(data, o), from[i + 1][SdesItems(data, o + 4).next])
      BY <2>5 DEF ChunkStep, m
    <3> QED BY <2>1, <2>5, <3>1, <3>2
  <2>7. s \in Seq(SdesChunks(data)) /\ chunk(j) \in SdesChunks(data)
    <3>1. s \in Seq(SdesChunks(data))
      BY <1>19, <2>1, <2>2
    <3>2. SdesChunk(data, o) \in SdesChunks(data)
      BY <2>5 DEF SdesChunks, m
    <3> QED BY <2>5, <3>1, <3>2
  <2>8. /\ Len(s) >= r - j /\ \A k \in 1 .. r - j : s[k] = chunk(j + k)
    BY <2>2
  <2> HIDE DEF s, Right
  <2> DEFINE all == Before(chunk(j), s)
  <2>9. /\ Len(s) \in Nat /\ Len(all) = Len(s) + 1 /\ all[1] = chunk(j)
        /\ \A k \in 1 .. Len(s) : all[k + 1] = s[k]
    BY <2>7, BeforeAt
  <2> HIDE DEF all
  <2>10. Len(all) >= r - i
    BY <1>20, <2>1, <2>8, <2>9
  <2>11. ASSUME NEW k \in 1 .. r - i PROVE all[k] = chunk(i + k)
    <3>1. CASE k = 1
      BY <2>1, <2>9, <3>1
    <3>2. CASE k # 1
      <4>1. k - 1 \in 1 .. r - j /\ (k - 1) + 1 = k /\ j + (k - 1) = i + k
        BY <1>20, <2>1, <3>2
      <4>2. k - 1 \in 1 .. Len(s)
        BY <1>20, <2>1, <2>8, <2>9, <4>1
      <4>3. all[(k - 1) + 1] = s[k - 1] /\ s[k - 1] = chunk(j + (k - 1))
        BY <2>8, <2>9, <4>1, <4>2
      <4> QED BY <4>1, <4>3
    <3> QED BY <3>1, <3>2
  <2>12. from[i][next(i)] = all
    BY <2>6 DEF all, o
  <2>13. next(i) \in 0 .. m
    BY <2>5 DEF o
  <2>14. Right(i)
    BY <2>10, <2>11, <2>12, <2>13 DEF Right
  <2> QED BY <2>14 DEF i
<1> HIDE DEF Good, Right
<1>24. \A d \in Nat : d \in Good
  BY <1>22, <1>23, SetInduction
<1>25. Right(0)
  <2>1. r \in Good /\ r <= r /\ r - r = 0
    BY <1>20, <1>24
  <2> QED BY <2>1 DEF Good
<1> DEFINE chunks == from[0][4]
<1>26. /\ Len(chunks) >= r /\ \A k \in 1 .. r : chunks[k] = chunk(k)
       /\ r = n => Len(chunks) = r
  <2>1. next(0) = 4 /\ 4 \in 0 .. m /\ 0 \in 0 .. n
    BY <1>2, <1>12, <1>17 DEF next
  <2>2. Len(chunks) >= r - 0 /\ \A k \in 1 .. r - 0 : chunks[k] = chunk(0 + k)
    BY <1>25, <2>1 DEF Right
  <2>3. chunks \in Seq(SdesChunks(data)) /\ Len(chunks) <= n - 0
    BY <1>19, <2>1
  <2> HIDE DEF chunks
  <2>4. Len(chunks) \in Nat
    BY <2>3
  <2>5. r - 0 = r /\ n - 0 = n /\ \A k \in 1 .. r : 0 + k = k
    BY <1>2, <1>20
  <2>6. Len(chunks) >= r /\ (r = n => Len(chunks) = r)
    BY <1>2, <1>20, <2>2, <2>3, <2>4, <2>5
  <2>7. \A k \in 1 .. r : chunks[k] = chunk(k)
    BY <2>2, <2>5
  <2> QED BY <2>6, <2>7
<1>27. ParseRTCPPacket(data) = [type |-> Octet(data, 1), chunks |-> chunks]
  <2>1. ~(Len(data) < 4 \/ Version(data) # 2)
    BY <1>12, <1>15 DEF m
  <2>2. ParseRTCPPacket(data) = parseSDES(data)
    BY <1>15, <2>1, TypesDiffer DEF ParseRTCPPacket
  <2> QED BY <1>18, <2>2
<1> HIDE DEF chunks
<1> DEFINE read == ParseRTCPPacket(data)
<1>28. read.chunks = chunks
  BY <1>27
<1> HIDE DEF read
<1>29. LET right == ChunksRead(q.list)
       IN  /\ Len(read.chunks) >= right
           /\ \A k \in 1 .. right : read.chunks[k] = [ssrc |-> Four(1), items |-> q.list[k]]
           /\ right = Len(q.list) => Len(read.chunks) = right
  BY <1>26, <1>28 DEF r, n, list, chunk
<1>30. read = ParseRTCPPacket(BuildRtcp(q) \o q.behind)
  BY DEF read, data
<1> QED BY <1>29, <1>30, TypesDiffer DEF RtcpRead

\* A control packet: an announced count of five bits, numbers that fit, and
\* behind it whatever the datagram holds.  A description without chunks is
\* read only when four octets more are there, for parseSDES asks for eight.
RtcpPacket(q) ==
  \/ /\ q.type \in {RTCP_SR, RTCP_RR}
     /\ q.list \in Seq(Reports) /\ Len(q.list) < 32 /\ q.behind \in Seq(Int)
  \/ /\ q.type = RTCP_SDES
     /\ q.list \in Seq(Seq(SdesItem)) /\ Len(q.list) < 32 /\ q.behind \in Seq(Nat)
     /\ q.list # << >> \/ Len(q.behind) >= 4
  \/ /\ q.type = RTCP_BYE
     /\ q.list \in Seq(Nat) /\ Len(q.list) < 32
     /\ q.reason \in Seq(Int) /\ q.behind = << >>

\* For every control packet with up to 31 report blocks, chunks or sources,
\* and with items and a reason of any length, ParseRTCPPacket reads what the
\* sender wrote: all blocks of a sender report, the first of a receiver
\* report, the chunks up to the first that is filled up with more than one
\* zero, and all sources and the reason of a goodbye (rtcp.go:88-271).
THEOREM NumbersReadRtcp ==
  ASSUME NEW q, RtcpPacket(q)
  PROVE  RtcpRead(q)
<1>1. CASE q.type = RTCP_SR
  <2>1. q.list \in Seq(Reports) /\ Len(q.list) < 32 /\ q.behind \in Seq(Int)
    BY <1>1, TypesDiffer DEF RtcpPacket
  <2> QED BY <1>1, <2>1, SenderReportRead
<1>2. CASE q.type = RTCP_RR
  <2>1. q.list \in Seq(Reports) /\ Len(q.list) < 32 /\ q.behind \in Seq(Int)
    BY <1>2, TypesDiffer DEF RtcpPacket
  <2> QED BY <1>2, <2>1, ReceiverReportRead
<1>3. CASE q.type = RTCP_SDES
  <2>1. /\ q.list \in Seq(Seq(SdesItem)) /\ Len(q.list) < 32 /\ q.behind \in Seq(Nat)
        /\ q.list # << >> \/ Len(q.behind) >= 4
    BY <1>3, TypesDiffer DEF RtcpPacket
  <2> QED BY <1>3, <2>1, DescriptionRead
<1>4. CASE q.type = RTCP_BYE
  <2>1. /\ q.list \in Seq(Nat) /\ Len(q.list) < 32
        /\ q.reason \in Seq(Int) /\ q.behind = << >>
    BY <1>4, TypesDiffer DEF RtcpPacket
  <2> QED BY <1>4, <2>1, ByeRead
<1> QED BY <1>1, <1>2, <1>3, <1>4 DEF RtcpPacket

\* Bounded sequences are sequences.
LEMMA BoundedSeqs ==
  ASSUME NEW S, NEW n \in Nat, NEW s \in Seqs(S, n)
  PROVE  s \in Seq(S) /\ Len(s) \in Nat /\ Len(s) <= n
BY DEF Seqs

LEMMA RtpAsked == \A p \in RtpQuestions : RtpPacket(p)
<1> SUFFICES ASSUME NEW p \in RtpQuestions PROVE RtpPacket(p)
  OBVIOUS
<1>1. /\ p.csrcs \in {0, 1, 15} /\ p.extension \in {<< >>, <<0>>, <<2>>}
      /\ p.padding \in {0, 1, 4} /\ p.marker \in {0, 1} /\ p.type \in {96, 127}
      /\ p.seq \in {0, 255, 256, 65535}
      /\ p.payload \in {<< >>, <<7>>, <<1, 2, 255>>} /\ p.kept \in {11, 12, 15, 19, 1000}
  BY DEF RtpQuestions
<1>2. p.extension = << >> \/ \E n \in Nat : n < 16384 /\ p.extension = <<n>>
  BY <1>1
<1>3. p.payload \in Seq(Int)
  <2>1. << >> \in Seq(Int)
    OBVIOUS
  <2>2. <<7>> \in Seq(Int)
    OBVIOUS
  <2>3. <<1, 2, 255>> \in Seq(Int)
    OBVIOUS
  <2>4. \/ p.payload = << >>
        \/ p.payload = <<7>>
        \/ p.payload = <<1, 2, 255>>
    BY <1>1
  <2> QED BY <2>1, <2>2, <2>3, <2>4, Zenon
<1> QED BY <1>1, <1>2, <1>3 DEF RtpPacket

LEMMA BlocksAreReports ==
  \A b \in [fraction : {0, 255}, lost : {5, -1, 2 ^ 23 - 1, -(2 ^ 23)}] : b \in Reports
<1> SUFFICES ASSUME NEW b \in [fraction : {0, 255}, lost : {5, -1, 2 ^ 23 - 1, -(2 ^ 23)}]
             PROVE  b \in Reports
  OBVIOUS
<1>1. b.fraction \in {0, 255} /\ b.lost \in {5, -1, 2 ^ 23 - 1, -(2 ^ 23)}
  OBVIOUS
<1>2. b \in [fraction : Nat, lost : Int]
  BY SMT
<1>3. ReportBlock(b)
  BY <1>1, SMT DEF ReportBlock, Uint24s
<1> QED BY <1>2, <1>3 DEF Reports

\* What a question about octets holds.
LEMMA BlocksAsked == \A list \in Blocks : list \in Seq(Reports) /\ Len(list) < 32
<1> DEFINE S == [fraction : {0, 255}, lost : {5, -1, 2 ^ 23 - 1, -(2 ^ 23)}]
<1>1. \A b \in S : b \in Reports
  BY BlocksAreReports
<1> SUFFICES ASSUME NEW list \in Blocks PROVE list \in Seq(Reports) /\ Len(list) < 32
  OBVIOUS
<1>2. list \in Seqs(S, 2)
  BY DEF Blocks
<1> HIDE DEF S
<1>3. list \in Seq(S) /\ Len(list) \in Nat /\ Len(list) <= 2
  BY <1>2, BoundedSeqs
<1>4. list \in Seq(Reports)
  BY <1>1, <1>3
<1> QED BY <1>3, <1>4

LEMMA ItemsAsked == \A list \in Seqs(Items, 2) : list \in Seq(Seq(SdesItem)) /\ Len(list) < 32
<1> DEFINE S == [type : {1, 2}, text : {<< >>, <<3>>, <<3, 4, 5>>}]
<1>1. \A i \in S : i \in SdesItem
  <2> SUFFICES ASSUME NEW i \in S PROVE i \in SdesItem
    OBVIOUS
  <2>1. i.type \in Nat \ {0} /\ i.text \in {<< >>, <<3>>, <<3, 4, 5>>}
    OBVIOUS
  <2>2. << >> \in Seq(Nat)
    OBVIOUS
  <2>3. <<3>> \in Seq(Nat)
    OBVIOUS
  <2>4. <<3, 4, 5>> \in Seq(Nat)
    OBVIOUS
  <2>5. i.text \in Seq(Nat)
    BY <2>1, <2>2, <2>3, <2>4, Zenon
  <2>6. i = [type |-> i.type, text |-> i.text]
    OBVIOUS
  <2> QED BY <2>1, <2>5, <2>6, Zenon DEF SdesItem
<1>2. Items = Seqs(S, 2)
  BY DEF Items
<1> HIDE DEF S
<1>3. \A is \in Items : is \in Seq(SdesItem)
  <2> SUFFICES ASSUME NEW is \in Seqs(S, 2) PROVE is \in Seq(SdesItem)
    BY <1>2
  <2>1. is \in Seq(S)
    BY BoundedSeqs
  <2> QED BY <1>1, <2>1
<1> SUFFICES ASSUME NEW list \in Seqs(Items, 2)
             PROVE  list \in Seq(Seq(SdesItem)) /\ Len(list) < 32
  OBVIOUS
<1>4. list \in Seq(Items) /\ Len(list) \in Nat /\ Len(list) <= 2
  BY BoundedSeqs
<1>5. list \in Seq(Seq(SdesItem))
  BY <1>3, <1>4
<1> QED BY <1>4, <1>5

LEMMA SourcesAsked == \A list \in Seqs({1, 2}, 3) : list \in Seq(Nat) /\ Len(list) < 32
<1> SUFFICES ASSUME NEW list \in Seqs({1, 2}, 3) PROVE list \in Seq(Nat) /\ Len(list) < 32
  OBVIOUS
<1>1. list \in Seq({1, 2}) /\ Len(list) \in Nat /\ Len(list) <= 3
  BY BoundedSeqs
<1>2. list \in Seq(Nat)
  BY <1>1
<1> QED BY <1>1, <1>2

\* Every question about octets is about a packet as above.
LEMMA PacketsAsked ==
  Init => /\ question.about = "rtp" => RtpPacket(question.rtp)
          /\ question.about = "rtcp" => RtcpPacket(question)
<1> SUFFICES ASSUME Init
             PROVE  /\ question.about = "rtp" => RtpPacket(question.rtp)
                    /\ question.about = "rtcp" => RtcpPacket(question)
  OBVIOUS
<1>1. CASE question.about = "rtp"
  <2>1. PICK p \in RtpQuestions : question = [about |-> "rtp", rtp |-> p]
    BY <1>1 DEF Init
  <2>2. question.rtp = p
    BY <2>1
  <2> QED BY <1>1, <2>2, RtpAsked
<1>2. CASE question.about = "rtcp"
  <2>1. \/ \E type \in {RTCP_SR, RTCP_RR}, list \in Blocks, behind \in {<< >>, <<129, 202, 0, 1>>} :
             question = [about |-> "rtcp", type |-> type, list |-> list, behind |-> behind]
        \/ \E list \in Seqs(Items, 2) :
             question = [about |-> "rtcp", type |-> RTCP_SDES, list |-> list,
                         behind |-> <<1, 1, 1, 1>>]
        \/ \E list \in Seqs({1, 2}, 3), reason \in {<< >>, <<1>>, <<1, 2, 3, 4, 5>>} :
             question = [about |-> "rtcp", type |-> RTCP_BYE, list |-> list, reason |-> reason,
                         behind |-> << >>]
    BY <1>2 DEF Init
  <2>2. /\ << >> \in Seq(Int) /\ << 1 >> \in Seq(Int)
    OBVIOUS
  <2>3. <<129, 202, 0, 1>> \in Seq(Int)
    OBVIOUS
  <2>3b. <<1, 2, 3, 4, 5>> \in Seq(Int)
    OBVIOUS
  <2>4. <<1, 1, 1, 1>> \in Seq(Nat) /\ Len(<<1, 1, 1, 1>>) >= 4
    OBVIOUS
  <2>5. ASSUME NEW type \in {RTCP_SR, RTCP_RR}, NEW list \in Blocks,
               NEW behind \in {<< >>, <<129, 202, 0, 1>>},
               question = [about |-> "rtcp", type |-> type, list |-> list, behind |-> behind]
        PROVE  RtcpPacket(question)
    <3>1. question.type = type /\ question.list = list /\ question.behind = behind
      BY <2>5
    <3>2. behind \in Seq(Int)
      BY <2>2, <2>3, Zenon
    <3> QED BY <3>1, <3>2, BlocksAsked DEF RtcpPacket
  <2>6. ASSUME NEW list \in Seqs(Items, 2),
               question = [about |-> "rtcp", type |-> RTCP_SDES, list |-> list,
                           behind |-> <<1, 1, 1, 1>>]
        PROVE  RtcpPacket(question)
    <3>1. /\ question.type = RTCP_SDES /\ question.list = list
          /\ question.behind = <<1, 1, 1, 1>>
      BY <2>6
    <3> QED BY <2>4, <3>1, ItemsAsked, Zenon DEF RtcpPacket
  <2>7. ASSUME NEW list \in Seqs({1, 2}, 3), NEW reason \in {<< >>, << 1 >>, <<1, 2, 3, 4, 5>>},
               question = [about |-> "rtcp", type |-> RTCP_BYE, list |-> list,
                           reason |-> reason, behind |-> << >>]
        PROVE  RtcpPacket(question)
    <3>1. /\ question.type = RTCP_BYE /\ question.list = list
          /\ question.reason = reason /\ question.behind = << >>
      BY <2>7
    <3>2. reason \in Seq(Int)
      BY <2>2, <2>3b, Zenon
    <3> QED BY <3>1, <3>2, SourcesAsked DEF RtcpPacket
  <2>8. RtcpPacket(question)
    BY <2>1, <2>5, <2>6, <2>7
  <2> QED BY <1>2, <2>8
<1> QED BY <1>1, <1>2

\* What a sender writes by RFC 3550 is what the parsers read, in every state
\* of the specification (packet.go:30, rtcp.go:88).
THEOREM NumbersWireRoundTrip == Spec => []WireRoundTrip
<1>1. QuestionInv => WireRoundTrip
  <2> SUFFICES ASSUME QuestionInv PROVE WireRoundTrip
    OBVIOUS
  <2>1. CASE question.about = "sequence"
    BY <2>1 DEF WireRoundTrip
  <2>2. CASE question.about # "sequence"
    <3>1. Init
      BY <2>2 DEF QuestionInv
    <3> QED BY <3>1, PacketsAsked, NumbersReadRtp, NumbersReadRtcp DEF WireRoundTrip
  <2> QED BY <2>1, <2>2
<1> QED BY <1>1, Questions, PTL

-----------------------------------------------------------------------------
(* SDP.  The parser reads the lines one by one, the sections are sets of   *)
(* lines; so the state after k lines is described by the lines up to k.    *)

Upto(K, k) == {j \in K : j <= k}

\* The latest of some of the first lines.
LEMMA LatestIs ==
  ASSUME NEW n \in Nat, NEW K, K \subseteq 0 .. n, K # {}
  PROVE  Latest(K) \in K /\ \A j \in K : j <= Latest(K)
<1>1. \E x \in K : \A y \in K : y <= x
  BY GreatestOf
<1> QED BY <1>1 DEF Latest

LEMMA LatestUnique ==
  ASSUME NEW n \in Nat, NEW K, K \subseteq 0 .. n, NEW x \in K, \A j \in K : j <= x
  PROVE  Latest(K) = x
<1>1. Latest(K) \in K /\ \A j \in K : j <= Latest(K)
  BY LatestIs
<1>2. \A j \in K : j \in Nat
  OBVIOUS
<1> DEFINE l == Latest(K)
<1>3. l \in K /\ x <= l /\ l <= x
  BY <1>1
<1> HIDE DEF l
<1>4. l = x
  BY <1>2, <1>3
<1> QED BY <1>4 DEF l

Grows(K, k) ==
  /\ k \notin K => Upto(K, k) = Upto(K, k - 1)
  /\ k \in K => Upto(K, k) # {} /\ Latest(Upto(K, k)) = k

LEMMA UptoNext ==
  ASSUME NEW n \in Nat, NEW K, K \subseteq 1 .. n, NEW k \in 1 .. n
  PROVE  Grows(K, k)
<1>1. k \notin K => Upto(K, k) = Upto(K, k - 1)
  <2> SUFFICES ASSUME k \notin K PROVE Upto(K, k) = Upto(K, k - 1)
    OBVIOUS
  <2>1. \A j \in K : j <= k <=> j <= k - 1
    OBVIOUS
  <2> QED BY <2>1 DEF Upto
<1>2. ASSUME k \in K PROVE Upto(K, k) # {} /\ Latest(Upto(K, k)) = k
  <2>1. k \in Upto(K, k) /\ \A j \in Upto(K, k) : j <= k
    BY <1>2 DEF Upto
  <2>2. Upto(K, k) \subseteq 0 .. n
    <3>1. \A j \in K : j \in 0 .. n
      OBVIOUS
    <3> QED BY <3>1 DEF Upto
  <2> QED BY <2>1, <2>2, LatestUnique
<1> QED BY <1>1, <1>2 DEF Grows

\* One more in order, behind all the others.
LEMMA RankedFew ==
  ASSUME NEW n \in Nat, NEW K, K \subseteq 0 .. n
  PROVE  /\ IsFiniteSet(K) /\ Cardinality(K) \in Nat
         /\ \A x : Cardinality({j \in K : j < x}) \in Nat
         /\ \A x \in K : Cardinality({j \in K : j < x}) < Cardinality(K)
<1>1. IsFiniteSet(0 .. n)
  BY FS_Interval
<1>2. IsFiniteSet(K) /\ Cardinality(K) \in Nat
  BY <1>1, FS_Subset, FS_CardinalityType
<1>3. ASSUME NEW x PROVE Cardinality({j \in K : j < x}) \in Nat
  <2>1. IsFiniteSet({j \in K : j < x})
    BY <1>2, FS_Subset
  <2> QED BY <2>1, FS_CardinalityType
<1>4. ASSUME NEW x \in K PROVE Cardinality({j \in K : j < x}) < Cardinality(K)
  <2> DEFINE S == {j \in K : j < x}
  <2>1. S \subseteq K /\ S # K
    <3>1. x \notin S
      OBVIOUS
    <3> QED BY <3>1
  <2> HIDE DEF S
  <2>2. Cardinality(S) <= Cardinality(K) /\ (Cardinality(S) = Cardinality(K) => S = K)
    BY <1>2, <2>1, FS_Subset
  <2>3. Cardinality(S) \in Nat
    BY <1>3 DEF S
  <2>4. Cardinality(S) < Cardinality(K)
    BY <1>2, <2>1, <2>2, <2>3
  <2> QED BY <2>4 DEF S
<1> QED BY <1>2, <1>3, <1>4

LEMMA InOrderAdd ==
  ASSUME NEW n \in Nat, NEW K, K \subseteq 0 .. n, NEW c \in Nat, \A k \in K : k < c
  PROVE  /\ Cardinality(K) \in Nat
         /\ Cardinality(K \cup {c}) = Cardinality(K) + 1
         /\ \A i \in 1 .. Cardinality(K) : InOrder(K \cup {c})[i] = InOrder(K)[i]
         /\ InOrder(K \cup {c})[Cardinality(K) + 1] = c
<1> DEFINE B == K \cup {c}
           m == Cardinality(K)
<1>1. /\ IsFiniteSet(K) /\ m \in Nat
      /\ \A x : Cardinality({j \in K : j < x}) \in Nat
      /\ \A x \in K : Cardinality({j \in K : j < x}) < m
  BY RankedFew
<1>2. c \notin K
  OBVIOUS
<1>3. Cardinality(B) = m + 1
  BY <1>1, <1>2, FS_AddElement
<1>4. \A x \in K : {j \in B : j < x} = {j \in K : j < x}
  <2> SUFFICES ASSUME NEW x \in K PROVE {j \in B : j < x} = {j \in K : j < x}
    OBVIOUS
  <2>1. ~(c < x)
    OBVIOUS
  <2> QED BY <2>1
<1>5. {j \in B : j < c} = K
  <2>1. (\A k \in K : k < c) /\ ~(c < c)
    OBVIOUS
  <2> QED BY <2>1, Zenon
<1> HIDE DEF m
<1>6. ASSUME NEW i \in 1 .. m PROVE Ranked(B, i) = Ranked(K, i)
  <2>1. \A x \in B : Cardinality({j \in B : j < x}) = i - 1
                       <=> x \in K /\ Cardinality({j \in K : j < x}) = i - 1
    <3>1. ASSUME NEW x \in K PROVE Cardinality({j \in B : j < x}) = Cardinality({j \in K : j < x})
      BY <1>4
    <3>2. Cardinality({j \in B : j < c}) # i - 1
      BY <1>1, <1>5 DEF m
    <3> QED BY <1>2, <3>1, <3>2
  <2> QED BY <2>1 DEF Ranked
<1>7. Ranked(B, m + 1) = {c}
  <2>1. Cardinality({j \in B : j < c}) = (m + 1) - 1
    <3>1. (m + 1) - 1 = m
      BY <1>1
    <3> QED BY <1>5, <3>1 DEF m
  <2>2. ASSUME NEW x \in K PROVE Cardinality({j \in B : j < x}) # (m + 1) - 1
    <3>1. {j \in B : j < x} = {j \in K : j < x}
      BY <1>4
    <3>2. Cardinality({j \in K : j < x}) < m /\ Cardinality({j \in K : j < x}) \in Nat
      BY <1>1
    <3> QED BY <1>1, <3>1, <3>2
  <2> QED BY <2>1, <2>2 DEF Ranked
<1> HIDE DEF B
<1>8. ASSUME NEW i \in 1 .. m PROVE InOrder(B)[i] = InOrder(K)[i]
  <2>1. i \in 1 .. Cardinality(B) /\ i \in 1 .. Cardinality(K)
    BY <1>1, <1>3 DEF m
  <2>2. /\ InOrder(B)[i] = CHOOSE k \in Ranked(B, i) : TRUE
        /\ InOrder(K)[i] = CHOOSE k \in Ranked(K, i) : TRUE
    BY <2>1 DEF InOrder
  <2> QED BY <1>6, <2>2
<1>9. InOrder(B)[m + 1] = c
  <2>1. m + 1 \in 1 .. Cardinality(B)
    BY <1>1, <1>3
  <2>2. InOrder(B)[m + 1] = CHOOSE k \in Ranked(B, m + 1) : TRUE
    BY <2>1 DEF InOrder
  <2> QED BY <1>7, <2>2
<1> QED BY <1>1, <1>3, <1>8, <1>9 DEF B, m

\* The section of a line, and how the sections follow on each other.
LEMMA SectionIs ==
  ASSUME NEW lines, NEW k \in Nat
  PROVE  /\ SectionOf(lines, k) \in 0 .. k
         /\ SectionOf(lines, k) # 0 => lines[SectionOf(lines, k)].kind = "media"
         /\ \A j \in 1 .. k : lines[j].kind = "media" => j <= SectionOf(lines, k)
<1> DEFINE H == {j \in 1 .. k : lines[j].kind = "media"}
           s == SectionOf(lines, k)
<1>1. s = IF H = {} THEN 0 ELSE Latest(H)
  BY DEF SectionOf
<1>2. H # {} => Latest(H) \in H /\ \A j \in H : j <= Latest(H)
  <2>1. H \subseteq 0 .. k
    OBVIOUS
  <2> HIDE DEF H
  <2> QED BY <2>1, LatestIs
<1> HIDE DEF s
<1>3. CASE H = {}
  BY <1>1, <1>3 DEF s
<1>4. CASE H # {}
  <2>1. s \in H /\ \A j \in H : j <= s
    BY <1>1, <1>2, <1>4
  <2> QED BY <2>1 DEF s
<1> QED BY <1>3, <1>4

LEMMA SectionAt ==
  ASSUME NEW lines, NEW k \in Nat, NEW s \in 0 .. k, s # 0 => lines[s].kind = "media",
         \A j \in 1 .. k : lines[j].kind = "media" => j <= s
  PROVE  SectionOf(lines, k) = s
<1> DEFINE r == SectionOf(lines, k)
<1>1. /\ r \in 0 .. k /\ (r # 0 => lines[r].kind = "media")
      /\ \A j \in 1 .. k : lines[j].kind = "media" => j <= r
  BY SectionIs
<1> HIDE DEF r
<1>2. r <= s /\ s <= r
  BY <1>1
<1> QED BY <1>1, <1>2 DEF r

LEMMA SectionNext ==
  ASSUME NEW lines, NEW k \in Nat \ {0}
  PROVE  SectionOf(lines, k) = IF lines[k].kind = "media" THEN k ELSE SectionOf(lines, k - 1)
<1>1. CASE lines[k].kind = "media"
  <2>1. k \in 0 .. k /\ \A j \in 1 .. k : j <= k
    OBVIOUS
  <2>2. SectionOf(lines, k) = k
    BY <1>1, <2>1, SectionAt
  <2> QED BY <1>1, <2>2
<1>2. CASE lines[k].kind # "media"
  <2> DEFINE s == SectionOf(lines, k - 1)
  <2>1. k - 1 \in Nat
    OBVIOUS
  <2>2. /\ s \in 0 .. k - 1 /\ (s # 0 => lines[s].kind = "media")
        /\ \A j \in 1 .. k - 1 : lines[j].kind = "media" => j <= s
    BY <2>1, SectionIs
  <2> HIDE DEF s
  <2>3. s \in 0 .. k /\ \A j \in 1 .. k : lines[j].kind = "media" => j <= s
    <3>1. \A j \in 1 .. k : j = k \/ j \in 1 .. k - 1
      OBVIOUS
    <3> QED BY <1>2, <2>2, <3>1
  <2>4. SectionOf(lines, k) = s
    BY <2>2, <2>3, SectionAt
  <2> QED BY <1>2, <2>4 DEF s
<1> QED BY <1>1, <1>2

LEMMA SectionsRise ==
  ASSUME NEW lines, NEW j \in Nat, NEW k \in Nat, j <= k
  PROVE  SectionOf(lines, j) <= SectionOf(lines, k)
<1> DEFINE r == SectionOf(lines, j)
           s == SectionOf(lines, k)
<1>1. r \in 0 .. j /\ (r # 0 => lines[r].kind = "media")
  BY SectionIs
<1>2. s \in 0 .. k /\ \A i \in 1 .. k : lines[i].kind = "media" => i <= s
  BY SectionIs
<1> HIDE DEF r, s
<1>3. r = 0 \/ r \in 1 .. k
  BY <1>1
<1>4. r <= s
  BY <1>1, <1>2, <1>3
<1> QED BY <1>4 DEF r, s

LEMMA SectionOfLine ==
  ASSUME NEW lines, NEW j \in Nat, NEW k \in Nat, SectionOf(lines, j) = k, k # 0
  PROVE  k \in 1 .. j /\ lines[k].kind = "media" /\ (j # k => lines[j].kind # "media")
<1>1. /\ k \in 0 .. j /\ lines[k].kind = "media"
      /\ \A i \in 1 .. j : lines[i].kind = "media" => i <= k
  BY SectionIs
<1> QED BY <1>1

\* The strings: those the runs use are named, for no prover takes a literal
\* for a member of STRING.
Strings == STRING \cup {"*", "stream", "base", "track", "other", "sets"}

\* Control URLs: absolute, or one name behind the base.
AbsoluteURL == [absolute : {TRUE}, path : Seq(Strings)]
SdpURL      == {u \in [absolute : BOOLEAN, path : Seq(Strings)] :
                  u.absolute \/ u = NoURL \/ Len(u.path) = 1}

LEMMA AbsoluteStays ==
  ASSUME NEW u \in AbsoluteURL, NEW contentBase, NEW requestURL
  PROVE  /\ u # NoURL /\ u # Star
         /\ resolveControlURL(contentBase, requestURL, u) = u
<1>1. u.absolute = TRUE
  BY DEF AbsoluteURL
<1>2. NoURL.absolute = FALSE /\ Star.absolute = FALSE
  BY DEF NoURL, Star
<1>3. u # NoURL /\ u # Star
  BY <1>1, <1>2
<1> QED BY <1>1, <1>3 DEF resolveControlURL

LEMMA Resolved ==
  ASSUME NEW contentBase, NEW requestURL, NEW base \in AbsoluteURL,
         base = IF contentBase # NoURL THEN contentBase ELSE requestURL,
         NEW u \in SdpURL, u # NoURL
  PROVE  /\ resolveControlURL(contentBase, requestURL, u)
              = IF u = Star THEN base ELSE Located(u, base)
         /\ Located(u, base) \in AbsoluteURL
<1>1. base # NoURL /\ base.absolute = TRUE /\ base.path \in Seq(Strings)
  BY AbsoluteStays DEF AbsoluteURL
<1>2. u.absolute \in BOOLEAN /\ u.path \in Seq(Strings) /\ (u.absolute \/ Len(u.path) = 1)
  BY DEF SdpURL
<1>3. CASE u.absolute
  <2>1. u \in AbsoluteURL
    BY <1>2, <1>3 DEF SdpURL, AbsoluteURL
  <2>2. u # Star /\ resolveControlURL(contentBase, requestURL, u) = u /\ Located(u, base) = u
    BY <1>3, <2>1, AbsoluteStays DEF Located
  <2> QED BY <2>1, <2>2
<1>4. CASE ~u.absolute
  <2>1. Len(u.path) = 1
    BY <1>2, <1>4
  <2> DEFINE name == u.path[1]
             path == Append(base.path, name)
  <2>2. name \in Strings /\ u.path = <<name>>
    BY <1>2, <2>1
  <2>3. base.path \o u.path = path
    <3>1. Append(base.path, name) = base.path \o <<name>>
      BY <1>1, <2>2, AppendIsConcat
    <3> QED BY <2>2, <3>1
  <2>4. path \in Seq(Strings)
    BY <1>1, <2>2
  <2>5. Located(u, base) = [base EXCEPT !.path = path]
    BY <1>4 DEF Located
  <2>6. [base EXCEPT !.path = path] \in AbsoluteURL
    BY <2>4 DEF AbsoluteURL
  <2>7. ResolveReference(base, u) = [base EXCEPT !.path = path]
    BY <2>3 DEF ResolveReference
  <2>8. resolveControlURL(contentBase, requestURL, u)
          = IF u = Star THEN base ELSE ResolveReference(base, u)
    BY <1>1, <1>4 DEF resolveControlURL
  <2> QED BY <2>5, <2>6, <2>7, <2>8
<1> QED BY <1>2, <1>3, <1>4

\* What a description is made of; the names of the parameters are the same in
\* all of its lines, for a parameter that is not repeated stays.
SdpLine(l, names) ==
  /\ l.kind = "control" => l.url \in SdpURL
  /\ l.kind = "media" => l.fields \in Int
  /\ l.kind = "fmtp" => l.parameters \in [names -> Strings]

SdpLinesOf(lines, names) ==
  DOMAIN lines = 1 .. Len(lines) /\ Len(lines) \in Nat
  /\ \A k \in 1 .. Len(lines) : SdpLine(lines[k], names)

\* The lines of a section that say something of its track.
Applies(lines, c, l)  == lines[c].payload = NoPayload \/ l.payload = lines[c].payload
Controls(lines, c)    == {k \in 1 .. Len(lines) : SectionOf(lines, k) = c /\ OwnControl(lines[k])}
Codecs(lines, c)      == {k \in 1 .. Len(lines) : /\ SectionOf(lines, k) = c
                                                /\ lines[k].kind = "rtpmap"
                                                /\ Applies(lines, c, lines[k])}
Parameters(lines, c)  == {k \in 1 .. Len(lines) : /\ SectionOf(lines, k) = c
                                                /\ lines[k].kind = "fmtp"
                                                /\ Applies(lines, c, lines[k])}

\* The track of a section after k lines.
ControlOf(lines, base, K) == IF K = {} THEN NoURL ELSE Located(lines[Latest(K)].url, base)
CodecOf(lines, K)         == IF K = {} THEN "" ELSE lines[Latest(K)].codec
ParametersOf(lines, K)    == IF K = {} THEN << >> ELSE lines[Latest(K)].parameters
TrackUpto(lines, base, c, k) ==
  [media |-> lines[c].media, payload |-> lines[c].payload,
   control |-> ControlOf(lines, base, Upto(Controls(lines, c), k)),
   codec |-> CodecOf(lines, Upto(Codecs(lines, c), k)),
   fmtp |-> ParametersOf(lines, Upto(Parameters(lines, c), k))]

\* The parser's state after k lines.
Below(lines, c) == {s \in TrackSections(lines) : s < c}
Tracks(lines, base, K) ==
  [i \in 1 .. Cardinality(K) |-> TrackOf(lines, InOrder(K)[i], base)]
OpenTrack(lines, base, k) ==
  IF Whole(lines, SectionOf(lines, k)) THEN <<TrackUpto(lines, base, SectionOf(lines, k), k)>>
  ELSE << >>
AggregateOf(lines, base, K) ==
  IF K = {} THEN NoURL
  ELSE IF lines[Latest(K)].url = Star THEN base ELSE Located(lines[Latest(K)].url, base)
After(lines, base, k) ==
  [tracks    |-> Tracks(lines, base, Below(lines, SectionOf(lines, k))),
   current   |-> OpenTrack(lines, base, k),
   aggregate |-> AggregateOf(lines, base, Upto(SessionControls(lines), k))]

LEMMA LatestInside ==
  ASSUME NEW n \in Nat, NEW K, K \subseteq 1 .. n, K # {}
  PROVE  Latest(K) \in K /\ Latest(K) \in 1 .. n
<1>1. K \subseteq 0 .. n
  <2>1. \A j \in K : j \in 1 .. n
    OBVIOUS
  <2>2. \A j \in 1 .. n : j \in 0 .. n
    OBVIOUS
  <2> QED BY <2>1, <2>2
<1>2. Latest(K) \in K
  BY <1>1, LatestIs
<1> QED BY <1>2

\* A section has a track of its own when it has a control URL of its own.
LEMMA TrackIs ==
  ASSUME NEW lines, DOMAIN lines = 1 .. Len(lines), Len(lines) \in Nat, NEW base,
         NEW c, Controls(lines, c) # {}
  PROVE  TrackOf(lines, c, base) = TrackUpto(lines, base, c, Len(lines))
<1> DEFINE n == Len(lines)
           U == Controls(lines, c)
           C == Codecs(lines, c)
           P == Parameters(lines, c)
<1>1. U \subseteq 1 .. n /\ C \subseteq 1 .. n /\ P \subseteq 1 .. n
  BY DEF Controls, Codecs, Parameters
<1>2. Upto(U, n) = U /\ Upto(C, n) = C /\ Upto(P, n) = P
  <2>1. \A j \in 1 .. n : j <= n
    OBVIOUS
  <2>2. \A K : K \subseteq 1 .. n => Upto(K, n) = K
    BY <2>1, Zenon DEF Upto
  <2> QED BY <1>1, <2>2
<1>3. U = {k \in DOMAIN lines : SectionOf(lines, k) = c /\ OwnControl(lines[k])}
  BY DEF Controls
<1>4. C = {k \in DOMAIN lines :
             /\ SectionOf(lines, k) = c
             /\ lines[k].kind = "rtpmap"
             /\ lines[c].payload = NoPayload \/ lines[k].payload = lines[c].payload}
  BY DEF Codecs, Applies
<1>5. P = {k \in DOMAIN lines :
             /\ SectionOf(lines, k) = c
             /\ lines[k].kind = "fmtp"
             /\ lines[c].payload = NoPayload \/ lines[k].payload = lines[c].payload}
  BY DEF Parameters, Applies
<1> DEFINE codec == IF C = {} THEN << >> ELSE <<lines[Latest(C)]>>
           parameters == IF P = {} THEN << >> ELSE <<lines[Latest(P)]>>
<1> HIDE DEF U, C, P, n
<1>6. TrackOf(lines, c, base)
        = [media |-> lines[c].media, payload |-> lines[c].payload,
           control |-> Located((IF U = {} THEN << >> ELSE <<lines[Latest(U)]>>)[1].url, base),
           codec |-> IF codec = << >> THEN "" ELSE codec[1].codec,
           fmtp |-> IF parameters = << >> THEN << >> ELSE parameters[1].parameters]
  BY <1>3, <1>4, <1>5, Zenon DEF TrackOf, LastIn
<1>7. (IF U = {} THEN << >> ELSE <<lines[Latest(U)]>>)[1] = lines[Latest(U)]
  BY DEF U
<1>8. (IF codec = << >> THEN "" ELSE codec[1].codec) = CodecOf(lines, C)
  BY DEF CodecOf
<1>9. (IF parameters = << >> THEN << >> ELSE parameters[1].parameters) = ParametersOf(lines, P)
  BY DEF ParametersOf
<1> HIDE DEF codec, parameters
<1>10. Located(lines[Latest(U)].url, base) = ControlOf(lines, base, U)
  BY DEF ControlOf, U
<1>11. TrackUpto(lines, base, c, n)
         = [media |-> lines[c].media, payload |-> lines[c].payload,
            control |-> ControlOf(lines, base, U), codec |-> CodecOf(lines, C),
            fmtp |-> ParametersOf(lines, P)]
  BY <1>2 DEF TrackUpto, U, C, P, n
<1> QED BY <1>6, <1>7, <1>8, <1>9, <1>10, <1>11 DEF n

\* A section without a track keeps nothing.
LEMMA SectionTracks ==
  ASSUME NEW lines, DOMAIN lines = 1 .. Len(lines), Len(lines) \in Nat,
         NEW c \in 1 .. Len(lines), lines[c].kind = "media"
  PROVE  c \in TrackSections(lines) <=> Whole(lines, c) /\ Controls(lines, c) # {}
<1>1. Controls(lines, c)
        = {k \in DOMAIN lines : SectionOf(lines, k) = c /\ OwnControl(lines[k])}
  BY DEF Controls
<1>2. LastIn(lines, c, OwnControl)
        = IF Controls(lines, c) = {} THEN << >> ELSE <<lines[Latest(Controls(lines, c))]>>
  BY <1>1, Zenon DEF LastIn
<1>3. LastIn(lines, c, OwnControl) # << >> <=> Controls(lines, c) # {}
  BY <1>2
<1> QED BY <1>3 DEF TrackSections

LEMMA TracksAdd ==
  ASSUME NEW lines, NEW base, NEW n \in Nat, NEW K, K \subseteq 0 .. n,
         NEW c \in Nat, \A k \in K : k < c
  PROVE  Tracks(lines, base, K \cup {c}) = Append(Tracks(lines, base, K), TrackOf(lines, c, base))
<1>a. /\ Cardinality(K) \in Nat
      /\ Cardinality(K \cup {c}) = Cardinality(K) + 1
      /\ \A i \in 1 .. Cardinality(K) : InOrder(K \cup {c})[i] = InOrder(K)[i]
      /\ InOrder(K \cup {c})[Cardinality(K) + 1] = c
  BY InOrderAdd
<1> DEFINE m == Cardinality(K)
           B == K \cup {c}
           x == TrackOf(lines, c, base)
           s == Tracks(lines, base, K)
           t == Tracks(lines, base, B)
           S == {s[i] : i \in 1 .. m} \cup {x}
<1>1. /\ m \in Nat /\ Cardinality(B) = m + 1
      /\ \A i \in 1 .. m : InOrder(B)[i] = InOrder(K)[i]
      /\ InOrder(B)[m + 1] = c
  BY <1>a
<1> HIDE DEF m, B
<1>2. DOMAIN s = 1 .. m /\ s = [i \in 1 .. m |-> s[i]]
  BY DEF Tracks, m
<1>3. /\ t = [i \in 1 .. m + 1 |-> TrackOf(lines, InOrder(B)[i], base)]
      /\ \A i \in 1 .. m : s[i] = TrackOf(lines, InOrder(K)[i], base)
  BY <1>1 DEF Tracks, m
<1> HIDE DEF s, t
<1>4. \A i \in 1 .. m : t[i] = s[i]
  BY <1>1, <1>3
<1>5. t[m + 1] = x /\ DOMAIN t = 1 .. m + 1
  BY <1>1, <1>3
<1> HIDE DEF x
<1>6. s \in Seq(S) /\ x \in S /\ Len(s) = m
  <2>1. \A i \in 1 .. m : s[i] \in S
    OBVIOUS
  <2>2. x \in S
    OBVIOUS
  <2> HIDE DEF S
  <2>3. s \in [1 .. m -> S]
    BY <1>2, <2>1
  <2> QED BY <1>1, <2>2, <2>3
<1> HIDE DEF S
<1> DEFINE a == Append(s, x)
<1>7. /\ a \in Seq(S) /\ Len(a) = m + 1 /\ a[m + 1] = x
      /\ \A i \in 1 .. m : a[i] = s[i]
  BY <1>1, <1>6, AppendProperties
<1> HIDE DEF a
<1>8. t = [i \in 1 .. m + 1 |-> t[i]] /\ a = [i \in 1 .. m + 1 |-> a[i]]
  <2>1. t = [i \in 1 .. m + 1 |-> t[i]]
    BY <1>3
  <2>2. a = [i \in 1 .. m + 1 |-> a[i]]
    BY <1>1, <1>7
  <2> QED BY <2>1, <2>2
<1>9. \A i \in 1 .. m + 1 : t[i] = a[i]
  <2>1. \A i \in 1 .. m + 1 : i = m + 1 \/ i \in 1 .. m
    BY <1>1
  <2> QED BY <1>4, <1>5, <1>7, <2>1
<1>10. t = a
  BY <1>8, <1>9
<1> QED BY <1>10 DEF t, a, s, x, B

\* No line of a section comes behind its end.
LEMMA SectionEnded ==
  ASSUME NEW lines, NEW n \in Nat, n = Len(lines), NEW k \in 0 .. n,
         k = n \/ lines[k + 1].kind = "media",
         NEW j \in 1 .. n, SectionOf(lines, j) = SectionOf(lines, k)
  PROVE  j <= k
<1> SUFFICES ASSUME k < j PROVE FALSE
  OBVIOUS
<1> DEFINE c == SectionOf(lines, k)
<1>1. c \in 0 .. k
  BY SectionIs
<1>2. SectionOf(lines, k + 1) = k + 1
  <2>1. k + 1 \in Nat \ {0} /\ lines[k + 1].kind = "media"
    OBVIOUS
  <2> QED BY <2>1, SectionNext
<1>3. SectionOf(lines, k + 1) <= SectionOf(lines, j)
  <2>1. k + 1 \in Nat /\ j \in Nat /\ k + 1 <= j
    OBVIOUS
  <2> QED BY <2>1, SectionsRise
<1> HIDE DEF c
<1>4. k + 1 <= c
  BY <1>2, <1>3 DEF c
<1> QED BY <1>1, <1>4

LEMMA ControlIsThere ==
  ASSUME NEW lines, NEW names, SdpLinesOf(lines, names), NEW base \in AbsoluteURL,
         NEW K, K \subseteq 1 .. Len(lines), \A k \in K : OwnControl(lines[k]), K # {}
  PROVE  ControlOf(lines, base, K) \in AbsoluteURL
<1> DEFINE l == lines[Latest(K)]
<1>1. OwnControl(l) /\ SdpLine(l, names)
  <2>1. Len(lines) \in Nat
    BY DEF SdpLinesOf
  <2>2. Latest(K) \in K /\ Latest(K) \in 1 .. Len(lines)
    BY <2>1, LatestInside
  <2> QED BY <2>2 DEF SdpLinesOf
<1> HIDE DEF l
<1>2. l.url \in SdpURL /\ l.url # NoURL
  BY <1>1 DEF OwnControl, SdpLine
<1>3. Located(l.url, base) \in AbsoluteURL
  <2>1. base = IF base # NoURL THEN base ELSE base
    OBVIOUS
  <2> QED BY <1>2, <2>1, Resolved
<1> QED BY <1>3 DEF ControlOf, l

LEMMA FlushOf ==
  ASSUME NEW tracks, NEW current, NEW aggregate
  PROVE  flushCurrent([tracks |-> tracks, current |-> current, aggregate |-> aggregate])
           = [tracks |-> IF current # << >> /\ current[1].control # NoURL
                         THEN Append(tracks, current[1]) ELSE tracks,
              current |-> << >>, aggregate |-> aggregate]
<1> DEFINE s == [tracks |-> tracks, current |-> current, aggregate |-> aggregate]
<1>1. s.tracks = tracks /\ s.current = current /\ s.aggregate = aggregate
  OBVIOUS
<1> DEFINE more == IF current # << >> /\ current[1].control # NoURL
                   THEN Append(tracks, current[1]) ELSE tracks
<1>2. flushCurrent(s) = [s EXCEPT !.current = << >>, !.tracks = more]
  BY <1>1, Zenon DEF flushCurrent
<1> HIDE DEF more
<1>3. [s EXCEPT !.current = << >>, !.tracks = more]
        = [tracks |-> more, current |-> << >>, aggregate |-> aggregate]
  <2> DEFINE r == [tracks |-> tracks, current |-> << >>, aggregate |-> aggregate]
  <2>1. [s EXCEPT !.current = << >>] = r
    OBVIOUS
  <2>2. [r EXCEPT !.tracks = more]
          = [tracks |-> more, current |-> << >>, aggregate |-> aggregate]
    OBVIOUS
  <2> HIDE DEF s, r
  <2>3. [s EXCEPT !.current = << >>, !.tracks = more]
          = [[s EXCEPT !.current = << >>] EXCEPT !.tracks = more]
    OBVIOUS
  <2> QED BY <2>1, <2>2, <2>3
<1> QED BY <1>2, <1>3 DEF more

\* At the end of a section its track is put behind the others, or dropped.
LEMMA SectionFlushed ==
  ASSUME NEW lines, NEW names, SdpLinesOf(lines, names), NEW base \in AbsoluteURL,
         NEW k \in 0 .. Len(lines), k = Len(lines) \/ lines[k + 1].kind = "media"
  PROVE  flushCurrent(After(lines, base, k))
           = [tracks |-> Tracks(lines, base, Below(lines, k + 1)), current |-> << >>,
              aggregate |-> After(lines, base, k).aggregate]
<1> DEFINE n == Len(lines)
           c == SectionOf(lines, k)
           K == Below(lines, c)
           s == After(lines, base, k)
           U == Controls(lines, c)
           t == TrackUpto(lines, base, c, k)
<1>1. n \in Nat /\ DOMAIN lines = 1 .. n /\ k \in Nat /\ k <= n
  <2>1. n \in Nat /\ DOMAIN lines = 1 .. n /\ k \in 0 .. n
    BY Zenon DEF SdpLinesOf
  <2> HIDE DEF n
  <2> QED BY <2>1
<1>2. /\ c \in 0 .. k /\ (c # 0 => lines[c].kind = "media")
      /\ \A j \in 1 .. k : lines[j].kind = "media" => j <= c
  BY <1>1, SectionIs
<1>3. /\ s.tracks = Tracks(lines, base, K) /\ s.aggregate = After(lines, base, k).aggregate
      /\ s.current = IF Whole(lines, c) THEN <<t>> ELSE << >>
      /\ s = [tracks |-> s.tracks, current |-> s.current, aggregate |-> s.aggregate]
  BY DEF After, OpenTrack
<1>4. \A S : S \subseteq {j \in 1 .. n : SectionOf(lines, j) = c} => Upto(S, k) = Upto(S, n)
  <2>1. \A j \in 1 .. n : SectionOf(lines, j) = c => j <= k /\ j <= n
    <3> SUFFICES ASSUME NEW j \in 1 .. n, SectionOf(lines, j) = c PROVE j <= k /\ j <= n
      OBVIOUS
    <3>1. j <= k
      BY <1>1, SectionEnded
    <3> QED BY <3>1
  <2> QED BY <2>1, Zenon DEF Upto
<1>5. t = TrackUpto(lines, base, c, n)
  <2>1. /\ Upto(Controls(lines, c), k) = Upto(Controls(lines, c), n)
        /\ Upto(Codecs(lines, c), k) = Upto(Codecs(lines, c), n)
        /\ Upto(Parameters(lines, c), k) = Upto(Parameters(lines, c), n)
    BY <1>4 DEF Controls, Codecs, Parameters
  <2> QED BY <2>1 DEF TrackUpto
<1>6. c # 0 => (c \in TrackSections(lines) <=> Whole(lines, c) /\ U # {})
  <2> SUFFICES ASSUME c # 0
               PROVE  c \in TrackSections(lines) <=> Whole(lines, c) /\ U # {}
    OBVIOUS
  <2> HIDE DEF c, n
  <2>1. c \in 1 .. n /\ lines[c].kind = "media"
    BY <1>1, <1>2
  <2> QED BY <1>1, <2>1, SectionTracks DEF n, U
<1>7. Whole(lines, c) => c # 0
  BY DEF Whole
<1>8. Upto(U, k) = U /\ U \subseteq 1 .. n /\ \A j \in U : OwnControl(lines[j])
  <2>1. U \subseteq 1 .. n /\ \A j \in U : OwnControl(lines[j])
    BY DEF Controls
  <2>2. Upto(U, k) = Upto(U, n)
    BY <1>4 DEF Controls
  <2>3. \A j \in U : j <= n
    BY <2>1
  <2>4. Upto(U, n) = U
    BY <2>3, Zenon DEF Upto
  <2> QED BY <2>1, <2>2, <2>4
<1>9. t.control # NoURL <=> U # {}
  <2>1. t.control = ControlOf(lines, base, U)
    BY <1>8 DEF TrackUpto
  <2>2. U = {} => t.control = NoURL
    BY <2>1 DEF ControlOf
  <2>3. U # {} => t.control # NoURL
    BY <1>8, <2>1, ControlIsThere, AbsoluteStays
  <2> QED BY <2>2, <2>3
<1>10. K \subseteq 0 .. n /\ \A j \in K : j < c
  BY <1>1 DEF Below, TrackSections
<1>11. Below(lines, k + 1) = IF c \in TrackSections(lines) THEN K \cup {c} ELSE K
  <2>1. \A j \in TrackSections(lines) : j \in 1 .. n /\ lines[j].kind = "media"
    BY <1>1 DEF TrackSections
  <2>2. \A j \in TrackSections(lines) : j < k + 1 <=> j < c \/ j = c
    <3> SUFFICES ASSUME NEW j \in TrackSections(lines) PROVE j < k + 1 <=> j < c \/ j = c
      OBVIOUS
    <3>1. j \in 1 .. n /\ lines[j].kind = "media"
      BY <2>1
    <3>2. j <= k => j <= c
      BY <1>2, <3>1
    <3> HIDE DEF c, n
    <3>3. c \in Nat /\ j \in Nat /\ k \in Nat /\ c <= k
      BY <1>1, <1>2, <3>1
    <3> QED BY <3>2, <3>3
  <2> QED BY <2>2, Zenon DEF Below
<1> HIDE DEF n, c, K, s, U, t
<1>12. CASE c \in TrackSections(lines)
  <2>1. Whole(lines, c) /\ U # {}
    <3>1. c # 0
      <4>1. c \in 1 .. n
        BY <1>1, <1>12, Zenon DEF TrackSections
      <4> QED BY <1>1, <4>1
    <3> QED BY <1>6, <1>12, <3>1
  <2>2. s.current = <<t>> /\ t.control # NoURL
    BY <1>3, <1>9, <2>1
  <2>3. t = TrackOf(lines, c, base)
    BY <1>1, <1>5, <2>1, TrackIs DEF n, U
  <2>4. c \in Nat
    BY <1>1, <1>2
  <2>5. Tracks(lines, base, K \cup {c}) = Append(Tracks(lines, base, K), t)
    BY <1>1, <1>10, <2>3, <2>4, TracksAdd, ZenonT(30)
  <2>6. flushCurrent(s) = [tracks |-> Append(s.tracks, t), current |-> << >>,
                           aggregate |-> s.aggregate]
    <3>1. s.current # << >> /\ s.current[1] = t
      BY <2>2
    <3>2. flushCurrent([tracks |-> s.tracks, current |-> s.current, aggregate |-> s.aggregate])
            = [tracks |-> Append(s.tracks, s.current[1]), current |-> << >>,
               aggregate |-> s.aggregate]
      BY <2>2, <3>1, FlushOf
    <3> QED BY <1>3, <3>1, <3>2
  <2> QED BY <1>3, <1>11, <1>12, <2>5, <2>6 DEF s
<1>13. CASE c \notin TrackSections(lines)
  <2>1. ~(s.current # << >> /\ s.current[1].control # NoURL)
    <3>1. CASE Whole(lines, c)
      <4>1. U = {}
        BY <1>6, <1>7, <1>13, <3>1
      <4>2. s.current[1] = t /\ t.control = NoURL
        BY <1>3, <1>9, <3>1, <4>1
      <4> QED BY <4>2
    <3>2. CASE ~Whole(lines, c)
      BY <1>3, <3>2
    <3> QED BY <3>1, <3>2
  <2>2. flushCurrent(s) = [tracks |-> s.tracks, current |-> << >>, aggregate |-> s.aggregate]
    <3>1. flushCurrent([tracks |-> s.tracks, current |-> s.current, aggregate |-> s.aggregate])
            = [tracks |-> s.tracks, current |-> << >>, aggregate |-> s.aggregate]
      BY <2>1, FlushOf
    <3> QED BY <1>3, <3>1
  <2> QED BY <1>3, <1>11, <1>13, <2>2 DEF s
<1> QED BY <1>12, <1>13

\* What one line changes.
LEMMA AggregateNext ==
  ASSUME NEW lines, DOMAIN lines = 1 .. Len(lines), Len(lines) \in Nat, NEW base,
         NEW k \in 1 .. Len(lines)
  PROVE  AggregateOf(lines, base, Upto(SessionControls(lines), k))
           = IF k \in SessionControls(lines)
             THEN IF lines[k].url = Star THEN base ELSE Located(lines[k].url, base)
             ELSE AggregateOf(lines, base, Upto(SessionControls(lines), k - 1))
<1> DEFINE S == SessionControls(lines)
           n == Len(lines)
<1>1. S \subseteq 1 .. n /\ n \in Nat /\ k \in 1 .. n
  BY DEF SessionControls
<1> HIDE DEF S, n
<1>2. Grows(S, k)
  BY <1>1, UptoNext
<1>3. CASE k \in S
  BY <1>2, <1>3 DEF AggregateOf, S, Grows
<1>4. CASE k \notin S
  BY <1>2, <1>4 DEF S, Grows
<1> QED BY <1>3, <1>4

LEMMA TrackNext ==
  ASSUME NEW lines, DOMAIN lines = 1 .. Len(lines), Len(lines) \in Nat, NEW base, NEW c,
         NEW k \in 1 .. Len(lines), NEW t, t = TrackUpto(lines, base, c, k - 1)
  PROVE  TrackUpto(lines, base, c, k)
           = [media |-> t.media, payload |-> t.payload,
              control |-> IF k \in Controls(lines, c) THEN Located(lines[k].url, base)
                          ELSE t.control,
              codec |-> IF k \in Codecs(lines, c) THEN lines[k].codec ELSE t.codec,
              fmtp |-> IF k \in Parameters(lines, c) THEN lines[k].parameters ELSE t.fmtp]
<1> DEFINE U == Controls(lines, c)
           C == Codecs(lines, c)
           P == Parameters(lines, c)
           n == Len(lines)
<1>1. /\ U \subseteq 1 .. n /\ C \subseteq 1 .. n /\ P \subseteq 1 .. n
      /\ n \in Nat /\ k \in 1 .. n
  BY DEF Controls, Codecs, Parameters
<1> HIDE DEF U, C, P, n
<1>2. ControlOf(lines, base, Upto(U, k)) = IF k \in U THEN Located(lines[k].url, base)
                                           ELSE ControlOf(lines, base, Upto(U, k - 1))
  <2>1. Grows(U, k)
    BY <1>1, UptoNext
  <2> QED BY <2>1 DEF ControlOf, Grows
<1>3. CodecOf(lines, Upto(C, k)) = IF k \in C THEN lines[k].codec
                                   ELSE CodecOf(lines, Upto(C, k - 1))
  <2>1. Grows(C, k)
    BY <1>1, UptoNext
  <2> QED BY <2>1 DEF CodecOf, Grows
<1>4. ParametersOf(lines, Upto(P, k)) = IF k \in P THEN lines[k].parameters
                                        ELSE ParametersOf(lines, Upto(P, k - 1))
  <2>1. Grows(P, k)
    BY <1>1, UptoNext
  <2> QED BY <2>1 DEF ParametersOf, Grows
<1>5. /\ t.media = lines[c].media /\ t.payload = lines[c].payload
      /\ t.control = ControlOf(lines, base, Upto(U, k - 1))
      /\ t.codec = CodecOf(lines, Upto(C, k - 1))
      /\ t.fmtp = ParametersOf(lines, Upto(P, k - 1))
  BY DEF TrackUpto, U, C, P
<1>6. TrackUpto(lines, base, c, k)
        = [media |-> lines[c].media, payload |-> lines[c].payload,
           control |-> ControlOf(lines, base, Upto(U, k)),
           codec |-> CodecOf(lines, Upto(C, k)),
           fmtp |-> ParametersOf(lines, Upto(P, k))]
  BY DEF TrackUpto, U, C, P
<1> QED BY <1>2, <1>3, <1>4, <1>5, <1>6 DEF U, C, P

\* The parser's assignments.
ParserState(tracks, current, aggregate) ==
  [tracks |-> tracks, current |-> current, aggregate |-> aggregate]
SdpTrack(media, payload, control, codec, fmtp) ==
  [media |-> media, payload |-> payload, control |-> control, codec |-> codec, fmtp |-> fmtp]

LEMMA StateSet ==
  ASSUME NEW tracks, NEW current, NEW aggregate, NEW x
  PROVE  /\ [ParserState(tracks, current, aggregate) EXCEPT !.current = x]
              = ParserState(tracks, x, aggregate)
         /\ [ParserState(tracks, current, aggregate) EXCEPT !.aggregate = x]
              = ParserState(tracks, current, x)
         /\ ParserState(tracks, current, aggregate).current = current
         /\ ParserState(tracks, current, aggregate).tracks = tracks
         /\ ParserState(tracks, current, aggregate).aggregate = aggregate
BY DEF ParserState

LEMMA TrackSet ==
  ASSUME NEW m, NEW p, NEW u, NEW c, NEW f, NEW x
  PROVE  /\ [SdpTrack(m, p, u, c, f) EXCEPT !.control = x] = SdpTrack(m, p, x, c, f)
         /\ [SdpTrack(m, p, u, c, f) EXCEPT !.codec = x] = SdpTrack(m, p, u, x, f)
         /\ [SdpTrack(m, p, u, c, f) EXCEPT !.fmtp = x] = SdpTrack(m, p, u, c, x)
         /\ SdpTrack(m, p, u, c, f).fmtp = f /\ SdpTrack(m, p, u, c, f).payload = p
BY DEF SdpTrack

SetsControl(s, x)    == [s EXCEPT !.current[1].control = x]
SetsCodec(s, x)      == [s EXCEPT !.current[1].codec = x]
SetsParameters(s, x) == [s EXCEPT !.current[1].fmtp = Assigned(x, @)]

OneTrack(m, p, u, c, f) == <<SdpTrack(m, p, u, c, f)>>

LEMMA CurrentSet ==
  ASSUME NEW tracks, NEW aggregate, NEW m, NEW p, NEW u, NEW c, NEW f, NEW x
  PROVE  /\ SetsControl(ParserState(tracks, OneTrack(m, p, u, c, f), aggregate), x)
              = ParserState(tracks, OneTrack(m, p, x, c, f), aggregate)
         /\ SetsCodec(ParserState(tracks, OneTrack(m, p, u, c, f), aggregate), x)
              = ParserState(tracks, OneTrack(m, p, u, x, f), aggregate)
         /\ SetsParameters(ParserState(tracks, OneTrack(m, p, u, c, f), aggregate), x)
              = ParserState(tracks, OneTrack(m, p, u, c, Assigned(x, f)), aggregate)
<1> DEFINE t == SdpTrack(m, p, u, c, f)
           s == ParserState(tracks, <<t>>, aggregate)
<1>1. s.current = <<t>> /\ s.current[1] = t
  BY StateSet
<1>2. \A y : [<<t>> EXCEPT ![1] = y] = <<y>>
  OBVIOUS
<1>3. \A y : [s EXCEPT !.current = y] = ParserState(tracks, y, aggregate)
  BY StateSet
<1>4. /\ [t EXCEPT !.control = x] = SdpTrack(m, p, x, c, f)
      /\ [t EXCEPT !.codec = x] = SdpTrack(m, p, u, x, f)
      /\ \A y : [t EXCEPT !.fmtp = y] = SdpTrack(m, p, u, c, y)
      /\ t.fmtp = f
  BY DEF SdpTrack
<1> HIDE DEF s, t
<1>5. SetsControl(s, x)
        = [s EXCEPT !.current = [<<t>> EXCEPT ![1] = [t EXCEPT !.control = x]]]
  BY <1>1 DEF SetsControl
<1>6. SetsCodec(s, x)
        = [s EXCEPT !.current = [<<t>> EXCEPT ![1] = [t EXCEPT !.codec = x]]]
  BY <1>1 DEF SetsCodec
<1>7. SetsParameters(s, x)
        = [s EXCEPT !.current = [<<t>> EXCEPT ![1] = [t EXCEPT !.fmtp = Assigned(x, f)]]]
  BY <1>1, <1>4 DEF SetsParameters
<1> QED BY <1>2, <1>3, <1>4, <1>5, <1>6, <1>7 DEF s, t, OneTrack

LEMMA ParametersReplaced ==
  ASSUME NEW names, NEW p \in [names -> Strings], NEW q, q = << >> \/ q \in [names -> Strings]
  PROVE  Assigned(p, q) = p
<1>1. DOMAIN p = names /\ DOMAIN q \subseteq names
  OBVIOUS
<1>2. Assigned(p, q) = [x \in names |-> p[x]]
  BY <1>1 DEF Assigned
<1> QED BY <1>2

\* The track of an open section that begins with this line has nothing yet.
LEMMA TrackBegins ==
  ASSUME NEW lines, DOMAIN lines = 1 .. Len(lines), Len(lines) \in Nat, NEW base,
         NEW k \in 1 .. Len(lines), lines[k].kind = "media"
  PROVE  TrackUpto(lines, base, k, k)
           = [media |-> lines[k].media, payload |-> lines[k].payload, control |-> NoURL,
              codec |-> "", fmtp |-> << >>]
<1> DEFINE n == Len(lines)
<1>1. ASSUME NEW j \in 1 .. n, SectionOf(lines, j) = k, j <= k
      PROVE  lines[j].kind = "media"
  <2>1. j \in Nat /\ k \in Nat /\ k # 0
    OBVIOUS
  <2>2. k \in 1 .. j
    BY <1>1, <2>1, SectionOfLine
  <2>3. j = k
    BY <1>1, <2>2
  <2> QED BY <2>3
<1>2. \A j \in 1 .. n : ~(/\ SectionOf(lines, j) = k /\ j <= k
                          /\ OwnControl(lines[j]) \/ lines[j].kind \in {"rtpmap", "fmtp"})
  BY <1>1 DEF OwnControl
<1>3. Upto(Controls(lines, k), k) = {}
  BY <1>2 DEF Upto, Controls
<1>4. Upto(Codecs(lines, k), k) = {}
  BY <1>2 DEF Upto, Codecs
<1>5. Upto(Parameters(lines, k), k) = {}
  BY <1>2 DEF Upto, Parameters
<1> QED BY <1>3, <1>4, <1>5 DEF TrackUpto, ControlOf, CodecOf, ParametersOf

LEMMA AfterMedia ==
  ASSUME NEW lines, NEW names, SdpLinesOf(lines, names), NEW base \in AbsoluteURL,
         NEW k \in 1 .. Len(lines), lines[k].kind = "media"
  PROVE  After(lines, base, k) = MediaLine(After(lines, base, k - 1), lines[k])
<1> DEFINE n == Len(lines)
           l == lines[k]
           s == After(lines, base, k - 1)
           a == s.aggregate
           r == Tracks(lines, base, Below(lines, k))
<1>1. n \in Nat /\ DOMAIN lines = 1 .. n
  BY DEF SdpLinesOf
<1>2. SectionOf(lines, k) = k
  <2>1. k \in Nat \ {0}
    OBVIOUS
  <2> QED BY <2>1, SectionNext
<1>3. flushCurrent(s) = ParserState(r, << >>, a)
  <2>1. k - 1 \in 0 .. n /\ (k - 1) + 1 = k
    BY <1>1
  <2>2. flushCurrent(s) = [tracks |-> Tracks(lines, base, Below(lines, (k - 1) + 1)),
                           current |-> << >>, aggregate |-> s.aggregate]
    BY <2>1, SectionFlushed
  <2> QED BY <2>1, <2>2 DEF ParserState
<1>4. AggregateOf(lines, base, Upto(SessionControls(lines), k)) = a
  <2>1. k \notin SessionControls(lines)
    BY DEF SessionControls
  <2>2. a = AggregateOf(lines, base, Upto(SessionControls(lines), k - 1))
    BY DEF After
  <2> HIDE DEF a
  <2> QED BY <1>1, <2>1, <2>2, AggregateNext
<1>5. After(lines, base, k) = ParserState(r, OpenTrack(lines, base, k), a)
  BY <1>2, <1>4 DEF After, ParserState
<1>6. l.fields \in Int
  BY DEF SdpLinesOf, SdpLine
<1> HIDE DEF s, a, r, n
<1>7. CASE l.fields < 4
  <2>1. OpenTrack(lines, base, k) = << >>
    <3>1. ~(l.fields >= 4)
      BY <1>6, <1>7
    <3> QED BY <1>2, <3>1 DEF OpenTrack, Whole
  <2> QED BY <1>3, <1>5, <1>7, <2>1 DEF MediaLine, s
<1>8. CASE ~(l.fields < 4)
  <2> DEFINE t == [media |-> l.media, payload |-> l.payload, control |-> NoURL,
                   codec |-> "", fmtp |-> << >>]
  <2>1. OpenTrack(lines, base, k) = <<t>>
    <3>1. l.fields >= 4 /\ k > 0
      BY <1>6, <1>8
    <3>2. TrackUpto(lines, base, k, k) = t
      BY <1>1, TrackBegins DEF n
    <3> HIDE DEF t
    <3> QED BY <1>2, <3>1, <3>2 DEF OpenTrack, Whole
  <2>2. MediaLine(s, l) = [flushCurrent(s) EXCEPT !.current = <<t>>]
    BY <1>8 DEF MediaLine
  <2> HIDE DEF t
  <2>3. MediaLine(s, l) = ParserState(r, <<t>>, a)
    BY <1>3, <2>2, StateSet
  <2> QED BY <1>5, <2>1, <2>3 DEF s
<1> QED BY <1>7, <1>8

\* The state after a line that is not an m= line, from the one before it.
LEMMA AfterOther ==
  ASSUME NEW lines, NEW names, SdpLinesOf(lines, names), NEW base,
         NEW k \in 1 .. Len(lines), lines[k].kind # "media", NEW c, c = SectionOf(lines, k)
  PROVE  /\ c = SectionOf(lines, k - 1)
         /\ c \in 0 .. Len(lines)
         /\ After(lines, base, k)
              = ParserState(After(lines, base, k - 1).tracks, OpenTrack(lines, base, k),
                            IF k \in SessionControls(lines)
                            THEN IF lines[k].url = Star THEN base ELSE Located(lines[k].url, base)
                            ELSE After(lines, base, k - 1).aggregate)
         /\ After(lines, base, k - 1)
              = ParserState(After(lines, base, k - 1).tracks, OpenTrack(lines, base, k - 1),
                            After(lines, base, k - 1).aggregate)
<1> DEFINE n == Len(lines)
<1>1. n \in Nat /\ DOMAIN lines = 1 .. n
  BY DEF SdpLinesOf
<1>2. c = SectionOf(lines, k - 1)
  <2>1. k \in Nat \ {0}
    OBVIOUS
  <2> QED BY <2>1, SectionNext
<1>3. c \in 0 .. n
  <2>1. k \in Nat
    OBVIOUS
  <2>2. c \in 0 .. k
    BY <2>1, SectionIs
  <2> QED BY <1>1, <2>2
<1>4. /\ After(lines, base, k - 1).tracks = Tracks(lines, base, Below(lines, c))
      /\ After(lines, base, k - 1).aggregate
           = AggregateOf(lines, base, Upto(SessionControls(lines), k - 1))
      /\ After(lines, base, k - 1).current = OpenTrack(lines, base, k - 1)
  BY <1>2 DEF After
<1>5. After(lines, base, k)
        = ParserState(Tracks(lines, base, Below(lines, c)), OpenTrack(lines, base, k),
                      AggregateOf(lines, base, Upto(SessionControls(lines), k)))
  BY DEF After, ParserState
<1>6. AggregateOf(lines, base, Upto(SessionControls(lines), k))
        = IF k \in SessionControls(lines)
          THEN IF lines[k].url = Star THEN base ELSE Located(lines[k].url, base)
          ELSE AggregateOf(lines, base, Upto(SessionControls(lines), k - 1))
  BY <1>1, AggregateNext
<1>7. After(lines, base, k - 1)
        = ParserState(After(lines, base, k - 1).tracks, OpenTrack(lines, base, k - 1),
                      After(lines, base, k - 1).aggregate)
  BY DEF After, ParserState
<1> QED BY <1>2, <1>3, <1>4, <1>5, <1>6, <1>7

LEMMA ParametersKept ==
  ASSUME NEW lines, NEW names, SdpLinesOf(lines, names), NEW c, NEW k
  PROVE  \/ ParametersOf(lines, Upto(Parameters(lines, c), k)) = << >>
         \/ ParametersOf(lines, Upto(Parameters(lines, c), k)) \in [names -> Strings]
<1> DEFINE K == Upto(Parameters(lines, c), k)
           n == Len(lines)
<1>1. n \in Nat /\ \A j \in 1 .. n : SdpLine(lines[j], names)
  BY DEF SdpLinesOf
<1>2. K \subseteq 1 .. n /\ \A j \in K : lines[j].kind = "fmtp"
  BY DEF Upto, Parameters
<1> HIDE DEF K, n
<1>3. CASE K = {}
  BY <1>3 DEF ParametersOf, K
<1>4. CASE K # {}
  <2>1. Latest(K) \in K /\ Latest(K) \in 1 .. n
    BY <1>1, <1>2, <1>4, LatestInside
  <2>2. lines[Latest(K)].parameters \in [names -> Strings]
    BY <1>1, <1>2, <2>1 DEF SdpLine
  <2> QED BY <1>4, <2>2 DEF ParametersOf, K
<1> QED BY <1>3, <1>4

\* Every line that is not an m= line does to the state what it does to the
\* sections.
BasedOn(base, contentBase, requestURL) ==
  base \in AbsoluteURL /\ base = IF contentBase # NoURL THEN contentBase ELSE requestURL
FollowsLine(lines, base, k, contentBase, requestURL) ==
  After(lines, base, k)
    = NextLine(After(lines, base, k - 1), lines[k], contentBase, requestURL)

LEMMA AfterAttribute ==
  ASSUME NEW lines, NEW names, SdpLinesOf(lines, names),
         NEW base, NEW contentBase, NEW requestURL, BasedOn(base, contentBase, requestURL),
         NEW k \in 1 .. Len(lines), lines[k].kind # "media"
  PROVE  FollowsLine(lines, base, k, contentBase, requestURL)
<1> SUFFICES ASSUME base \in AbsoluteURL,
                    base = IF contentBase # NoURL THEN contentBase ELSE requestURL
             PROVE  After(lines, base, k)
                      = NextLine(After(lines, base, k - 1), lines[k], contentBase, requestURL)
  BY DEF BasedOn, FollowsLine
<1> DEFINE n  == Len(lines)
           l  == lines[k]
           c  == SectionOf(lines, k)
           s  == After(lines, base, k - 1)
           tr == s.tracks
           a  == s.aggregate
           o  == OpenTrack(lines, base, k - 1)
           p  == OpenTrack(lines, base, k)
           t  == TrackUpto(lines, base, c, k - 1)
           m  == t.media
           q  == t.payload
           u0 == t.control
           d  == t.codec
           f  == t.fmtp
           x  == SdpTrack(m, q, u0, d, f)
           v  == IF l.url = Star THEN base ELSE Located(l.url, base)
           next == NextLine(s, l, contentBase, requestURL)
<1>1. /\ n \in Nat /\ DOMAIN lines = 1 .. n /\ SdpLine(l, names) /\ k \in 1 .. n
      /\ l.kind # "media"
  BY DEF SdpLinesOf
<1>2. /\ c = SectionOf(lines, k - 1)
      /\ After(lines, base, k)
           = ParserState(tr, p, IF k \in SessionControls(lines) THEN v ELSE a)
      /\ s = ParserState(tr, o, a)
  BY AfterOther
<1>3. /\ Whole(lines, c) => o = <<t>> /\ p = <<TrackUpto(lines, base, c, k)>>
      /\ ~Whole(lines, c) => o = << >> /\ p = << >>
  BY <1>2, Zenon DEF OpenTrack
<1>4. /\ k \in Controls(lines, c) <=> OwnControl(l)
      /\ k \in Codecs(lines, c) <=> l.kind = "rtpmap" /\ Applies(lines, c, l)
      /\ k \in Parameters(lines, c) <=> l.kind = "fmtp" /\ Applies(lines, c, l)
  BY <1>1, Zenon DEF Controls, Codecs, Parameters
<1>5. k \in SessionControls(lines)
        <=> /\ l.kind = "control" /\ l.url # NoURL
            /\ l.url = Star \/ ~Whole(lines, c)
  BY <1>1, Zenon DEF SessionControls
<1>6. /\ t = x
      /\ q = lines[c].payload
      /\ f = << >> \/ f \in [names -> Strings]
  <2>1. /\ q = lines[c].payload
        /\ f = ParametersOf(lines, Upto(Parameters(lines, c), k - 1))
        /\ t = SdpTrack(m, q, u0, d, f)
    BY DEF TrackUpto, SdpTrack
  <2>2. \/ ParametersOf(lines, Upto(Parameters(lines, c), k - 1)) = << >>
        \/ ParametersOf(lines, Upto(Parameters(lines, c), k - 1)) \in [names -> Strings]
    BY ParametersKept
  <2> HIDE DEF t
  <2> QED BY <2>1, <2>2
<1>7. TrackUpto(lines, base, c, k)
        = SdpTrack(m, q,
                   IF OwnControl(l) THEN Located(l.url, base) ELSE u0,
                   IF l.kind = "rtpmap" /\ Applies(lines, c, l) THEN l.codec ELSE d,
                   IF l.kind = "fmtp" /\ Applies(lines, c, l) THEN l.parameters ELSE f)
  <2>1. TrackUpto(lines, base, c, k)
          = [media |-> m, payload |-> q,
             control |-> IF k \in Controls(lines, c) THEN Located(lines[k].url, base)
                         ELSE u0,
             codec |-> IF k \in Codecs(lines, c) THEN lines[k].codec ELSE d,
             fmtp |-> IF k \in Parameters(lines, c) THEN lines[k].parameters ELSE f]
    BY <1>1, TrackNext
  <2> HIDE DEF t
  <2> QED BY <1>4, <2>1 DEF SdpTrack
<1> HIDE DEF n, c, s, tr, a, o, p, m, q, u0, d, f, v, x
<1>a. q = t.payload
  BY DEF q
<1> HIDE DEF t
<1>8. s.current = o
  BY <1>2, StateSet
<1>9. Concerns(s, l) <=> Whole(lines, c) /\ Applies(lines, c, l)
  <2>1. CASE Whole(lines, c)
    <3>1. s.current # << >> /\ s.current[1] = t
      BY <1>3, <1>8, <2>1
    <3> QED BY <1>6, <1>a, <2>1, <3>1 DEF Concerns, Applies
  <2>2. CASE ~Whole(lines, c)
    BY <1>3, <1>8, <2>2 DEF Concerns
  <2> QED BY <2>1, <2>2
<1>10. CASE l.kind = "control"
  <2> DEFINE u == resolveControlURL(contentBase, requestURL, l.url)
  <2>1. next = ControlLine(s, l, contentBase, requestURL)
    BY <1>10 DEF NextLine
  <2>2. l.url # NoURL => u = v
    <3>1. l.url \in SdpURL
      BY <1>1, <1>10 DEF SdpLine
    <3> QED BY <3>1, Resolved DEF v
  <2> HIDE DEF u
  <2>3. ControlLine(s, l, contentBase, requestURL)
          = IF l.url = NoURL THEN s
            ELSE IF l.url = Star \/ s.current = << >> THEN [s EXCEPT !.aggregate = u]
            ELSE [s EXCEPT !.current[1].control = u]
    BY Zenon DEF ControlLine, u
  <2>4. l.kind # "rtpmap" /\ l.kind # "fmtp"
    BY <1>10
  <2>5. CASE ~OwnControl(l)
    <3>1. p = o
      BY <1>3, <1>6, <1>7, <2>4, <2>5 DEF x
    <3>2. CASE l.url = NoURL
      BY <1>2, <1>5, <2>1, <2>3, <3>1, <3>2 DEF s
    <3>3. CASE l.url # NoURL
      <4>1. l.url = Star
        BY <1>10, <2>5, <3>3 DEF OwnControl
      <4>2. next = ParserState(tr, o, v)
        BY <1>2, <2>1, <2>2, <2>3, <3>3, <4>1, StateSet
      <4> QED BY <1>2, <1>5, <1>10, <3>1, <3>3, <4>1, <4>2 DEF s
    <3> QED BY <3>2, <3>3
  <2>6. CASE OwnControl(l)
    <3>1. l.url # NoURL /\ l.url # Star
      BY <2>6 DEF OwnControl
    <3>2. CASE ~Whole(lines, c)
      <4>1. next = ParserState(tr, o, v)
        BY <1>2, <1>3, <1>8, <2>1, <2>2, <2>3, <3>1, <3>2, StateSet
      <4> QED BY <1>2, <1>3, <1>5, <1>10, <3>1, <3>2, <4>1 DEF s
    <3>3. CASE Whole(lines, c)
      <4>1. s.current = <<t>> /\ s = ParserState(tr, <<t>>, a)
        BY <1>2, <1>3, <1>8, <3>3
      <4>2. next = SetsControl(s, v)
        <5>1. s.current # << >>
          BY <4>1
        <5> QED BY <2>1, <2>2, <2>3, <3>1, <5>1 DEF SetsControl
      <4>3. SetsControl(ParserState(tr, OneTrack(m, q, u0, d, f), a), v)
              = ParserState(tr, OneTrack(m, q, v, d, f), a)
        BY CurrentSet
      <4>4. TrackUpto(lines, base, c, k) = SdpTrack(m, q, v, d, f)
        BY <1>7, <2>4, <2>6, <3>1 DEF v
      <4> QED BY <1>2, <1>3, <1>5, <1>6, <3>1, <3>3, <4>1, <4>2, <4>3, <4>4 DEF s, x, OneTrack
    <3> QED BY <3>2, <3>3
  <2> QED BY <2>5, <2>6 DEF s
<1>11. CASE l.kind # "control"
  <2>1. ~OwnControl(l) /\ k \notin SessionControls(lines)
    BY <1>5, <1>11 DEF OwnControl
  <2>2. After(lines, base, k) = ParserState(tr, p, a)
    BY <1>2, <2>1
  <2>3. CASE l.kind = "rtpmap" /\ Concerns(s, l)
    <3>1. Whole(lines, c) /\ Applies(lines, c, l) /\ l.kind # "fmtp"
      BY <1>9, <2>3
    <3>2. next = SetsCodec(s, l.codec) /\ s = ParserState(tr, <<t>>, a)
      <4>1. s = ParserState(tr, <<t>>, a)
        BY <1>2, <1>3, <3>1
      <4>2. next = SetsCodec(s, l.codec)
        BY <2>3 DEF NextLine, SetsCodec
      <4> QED BY <4>1, <4>2
    <3>3. SetsCodec(ParserState(tr, OneTrack(m, q, u0, d, f), a), l.codec)
            = ParserState(tr, OneTrack(m, q, u0, l.codec, f), a)
      BY CurrentSet
    <3>4. TrackUpto(lines, base, c, k)
            = SdpTrack(m, q, u0, l.codec, f)
      BY <1>7, <2>1, <2>3, <3>1
    <3> QED BY <1>3, <1>6, <2>2, <3>1, <3>2, <3>3, <3>4 DEF s, x, OneTrack
  <2>4. CASE l.kind = "fmtp" /\ Concerns(s, l)
    <3>1. Whole(lines, c) /\ Applies(lines, c, l) /\ l.kind # "rtpmap"
      BY <1>9, <2>4
    <3>2. next = SetsParameters(s, l.parameters) /\ s = ParserState(tr, <<t>>, a)
      <4>1. s = ParserState(tr, <<t>>, a)
        BY <1>2, <1>3, <3>1
      <4>2. next = SetsParameters(s, l.parameters)
        BY <2>4 DEF NextLine, SetsParameters
      <4> QED BY <4>1, <4>2
    <3>3. SetsParameters(ParserState(tr, OneTrack(m, q, u0, d, f), a), l.parameters)
            = ParserState(tr, OneTrack(m, q, u0, d,
                                         Assigned(l.parameters, f)), a)
      BY CurrentSet
    <3>4. Assigned(l.parameters, f) = l.parameters
      <4>1. l.parameters \in [names -> Strings]
        BY <1>1, <2>4 DEF SdpLine
      <4> QED BY <1>6, <4>1, ParametersReplaced
    <3>5. TrackUpto(lines, base, c, k)
            = SdpTrack(m, q, u0, d, l.parameters)
      BY <1>7, <2>1, <2>4, <3>1
    <3> QED BY <1>3, <1>6, <2>2, <3>1, <3>2, <3>3, <3>4, <3>5 DEF s, x, OneTrack
  <2>5. CASE /\ ~(l.kind = "rtpmap" /\ Concerns(s, l))
             /\ ~(l.kind = "fmtp" /\ Concerns(s, l))
    <3>1. next = s
      BY <1>1, <1>11, <2>5 DEF NextLine
    <3>2. p = o
      <4>1. CASE Whole(lines, c)
        <5>1. TrackUpto(lines, base, c, k) = t
          BY <1>6, <1>7, <1>9, <2>1, <2>5, <4>1 DEF x
        <5> QED BY <1>3, <4>1, <5>1
      <4>2. CASE ~Whole(lines, c)
        BY <1>3, <4>2
      <4> QED BY <4>1, <4>2
    <3> QED BY <1>2, <2>2, <3>1, <3>2 DEF s
  <2> QED BY <2>3, <2>4, <2>5
<1> QED BY <1>10, <1>11

\* The parser's states are these, from the first line to the last.
LEMMA AfterEvery ==
  ASSUME NEW lines, NEW names, SdpLinesOf(lines, names),
         NEW base, NEW contentBase, NEW requestURL, BasedOn(base, contentBase, requestURL),
         NEW k \in 1 .. Len(lines)
  PROVE  FollowsLine(lines, base, k, contentBase, requestURL)
<1>1. CASE lines[k].kind = "media"
  <2>1. After(lines, base, k) = MediaLine(After(lines, base, k - 1), lines[k])
    BY <1>1, AfterMedia DEF BasedOn
  <2> QED BY <1>1, <2>1 DEF NextLine, FollowsLine
<1>2. CASE lines[k].kind # "media"
  BY <1>2, AfterAttribute
<1> QED BY <1>1, <1>2

LEMMA AfterNone ==
  ASSUME NEW lines, NEW names, SdpLinesOf(lines, names), NEW base
  PROVE  After(lines, base, 0) = [tracks |-> << >>, current |-> << >>, aggregate |-> NoURL]
<1> DEFINE n == Len(lines)
<1>1. n \in Nat /\ DOMAIN lines = 1 .. n
  BY DEF SdpLinesOf
<1>2. SectionOf(lines, 0) = 0
  <2>1. SectionOf(lines, 0) \in 0 .. 0
    BY SectionIs
  <2> QED BY <2>1
<1>3. OpenTrack(lines, base, 0) = << >>
  BY <1>2 DEF OpenTrack, Whole
<1>4. \A j \in 1 .. n : ~(j <= 0) /\ ~(j < 0)
  BY <1>1
<1>5. Upto(SessionControls(lines), 0) = {}
  BY <1>1, <1>4 DEF Upto, SessionControls
<1>6. Below(lines, 0) = {}
  BY <1>1, <1>4 DEF Below, TrackSections
<1>7. Tracks(lines, base, {}) = << >>
  BY FS_EmptySet DEF Tracks
<1> QED BY <1>2, <1>3, <1>5, <1>6, <1>7 DEF After, AggregateOf

LEMMA ParserAfter ==
  ASSUME NEW lines, NEW names, SdpLinesOf(lines, names),
         NEW base, NEW contentBase, NEW requestURL, BasedOn(base, contentBase, requestURL)
  PROVE  LET end == flushCurrent(After(lines, base, Len(lines)))
             aggregate == IF end.aggregate = NoURL THEN NoURL
                          ELSE resolveControlURL(contentBase, requestURL, end.aggregate)
         IN  parseSDPInfo(lines, contentBase, requestURL)
               = IF end.tracks = << >> /\ aggregate = NoURL THEN << >>
                 ELSE <<[tracks |-> end.tracks, aggregate |-> aggregate]>>
<1> DEFINE n    == Len(lines)
           none == [tracks |-> << >>, current |-> << >>, aggregate |-> NoURL]
           step(s, k) == NextLine(s, lines[k], contentBase, requestURL)
           P(p) == p = [k \in 0 .. n |-> IF k = 0 THEN none ELSE step(p[k - 1], k)]
           from == CHOOSE p : P(p)
           f    == [k \in 0 .. n |-> After(lines, base, k)]
<1>1. n \in Nat
  BY DEF SdpLinesOf
<1>2. P(f)
  <2>1. ASSUME NEW k \in 0 .. n PROVE f[k] = IF k = 0 THEN none ELSE step(f[k - 1], k)
    <3>1. CASE k = 0
      BY <3>1, AfterNone
    <3>2. CASE k # 0
      <4>1. k \in 1 .. n /\ k - 1 \in 0 .. n
        BY <1>1, <3>2
      <4>2. After(lines, base, k) = step(After(lines, base, k - 1), k)
        <5>1. FollowsLine(lines, base, k, contentBase, requestURL)
          BY <4>1, AfterEvery
        <5> QED BY <5>1 DEF FollowsLine
      <4> QED BY <3>2, <4>1, <4>2
    <3> QED BY <3>1, <3>2
  <2> DEFINE g == [k \in 0 .. n |-> IF k = 0 THEN none ELSE step(f[k - 1], k)]
  <2>2. \A k \in 0 .. n : f[k] = g[k]
    <3> HIDE DEF f, step, none
    <3> QED BY <2>1
  <2>3. f = g
    <3> HIDE DEF step, none
    <3>1. DOMAIN f = 0 .. n /\ DOMAIN g = 0 .. n /\ f = [k \in 0 .. n |-> f[k]]
          /\ g = [k \in 0 .. n |-> g[k]]
      OBVIOUS
    <3> HIDE DEF f, g
    <3> QED BY <2>2, <3>1
  <2> QED BY <2>3
<1>3. P(from)
  <2> HIDE DEF P
  <2> QED BY <1>2
<1> HIDE DEF from
<1>4. from[0] = none /\ \A k \in 1 .. n : from[k] = step(from[k - 1], k)
  <2>1. ASSUME NEW k \in 0 .. n PROVE from[k] = IF k = 0 THEN none ELSE step(from[k - 1], k)
    <3> HIDE DEF step, none
    <3> QED BY <1>3
  <2>2. 0 \in 0 .. n /\ \A k \in 1 .. n : k \in 0 .. n /\ k # 0
    BY <1>1
  <2> HIDE DEF step, none
  <2> QED BY <2>1, <2>2
<1> DEFINE Good == {d \in Nat : d <= n => from[d] = After(lines, base, d)}
<1>5. 0 \in Good
  BY <1>4, AfterNone
<1>6. ASSUME NEW d \in Nat, d \in Good PROVE d + 1 \in Good
  <2> SUFFICES ASSUME d + 1 <= n PROVE from[d + 1] = After(lines, base, d + 1)
    OBVIOUS
  <2>1. d + 1 \in 1 .. n /\ (d + 1) - 1 = d /\ d <= n
    BY <1>1
  <2>2. from[d] = After(lines, base, d)
    BY <1>6, <2>1
  <2>3. After(lines, base, d + 1) = step(After(lines, base, (d + 1) - 1), d + 1)
    <3>1. FollowsLine(lines, base, d + 1, contentBase, requestURL)
      BY <2>1, AfterEvery
    <3> QED BY <3>1 DEF FollowsLine
  <2>4. from[d + 1] = step(from[(d + 1) - 1], d + 1)
    <3> HIDE DEF step, Good
    <3> QED BY <1>4, <2>1
  <2> HIDE DEF step, Good
  <2> QED BY <2>1, <2>2, <2>3, <2>4
<1>7. from[n] = After(lines, base, n)
  <2> HIDE DEF Good
  <2>1. n \in Good
    BY <1>1, <1>5, <1>6, SetInduction
  <2> QED BY <1>1, <2>1 DEF Good
<1> DEFINE end == flushCurrent(from[n])
           aggregate == IF end.aggregate = NoURL THEN NoURL
                        ELSE resolveControlURL(contentBase, requestURL, end.aggregate)
<1>8. parseSDPInfo(lines, contentBase, requestURL)
        = IF end.tracks = << >> /\ aggregate = NoURL THEN << >>
          ELSE <<[tracks |-> end.tracks, aggregate |-> aggregate]>>
  BY Zenon DEF parseSDPInfo, from
<1> QED BY <1>7, <1>8, Zenon

\* The aggregate control, once found, is absolute.
LEMMA AggregateIs ==
  ASSUME NEW lines, NEW names, SdpLinesOf(lines, names), NEW base \in AbsoluteURL,
         SessionControls(lines) # {}
  PROVE  AggregateOf(lines, base, SessionControls(lines)) \in AbsoluteURL
<1> DEFINE S == SessionControls(lines)
           n == Len(lines)
           l == lines[Latest(S)]
<1>1. n \in Nat /\ S \subseteq 1 .. n /\ \A k \in 1 .. n : SdpLine(lines[k], names)
  BY DEF SdpLinesOf, SessionControls
<1>2. \A k \in S : lines[k].kind = "control" /\ lines[k].url # NoURL
  BY DEF SessionControls
<1> HIDE DEF S, n
<1>3. Latest(S) \in S /\ Latest(S) \in 1 .. n
  BY <1>1, LatestInside DEF S
<1>4. l.url \in SdpURL /\ l.url # NoURL
  BY <1>1, <1>2, <1>3 DEF SdpLine
<1> HIDE DEF l
<1>5. Located(l.url, base) \in AbsoluteURL
  <2>1. base = IF base # NoURL THEN base ELSE base
    OBVIOUS
  <2> QED BY <1>4, <2>1, Resolved
<1>6. AggregateOf(lines, base, S) = IF l.url = Star THEN base ELSE Located(l.url, base)
  BY DEF AggregateOf, S, l
<1> QED BY <1>5, <1>6 DEF S

\* For every description, of any number of lines in any order, whose controls
\* are absolute, `*' or one name, and whose parameters have the same names in
\* all lines, and for every absolute base: the tracks and the aggregate
\* control the parser finds are those of the sections (client.go:774-896).
THEOREM NumbersReadSections ==
  ASSUME NEW lines, NEW names, SdpLinesOf(lines, names),
         NEW base, NEW contentBase, NEW requestURL, BasedOn(base, contentBase, requestURL)
  PROVE  parseSDPInfo(lines, contentBase, requestURL) = SdpMeans(lines, base)
<1> DEFINE n == Len(lines)
           S == SessionControls(lines)
           K == TrackSections(lines)
           a == AggregateOf(lines, base, S)
           t == Tracks(lines, base, K)
           s == After(lines, base, n)
           m == Cardinality(K)
<1>1. n \in Nat /\ DOMAIN lines = 1 .. n /\ base \in AbsoluteURL
  BY DEF SdpLinesOf, BasedOn
<1>2. \A j \in 1 .. n : j <= n /\ j < n + 1
  <2> HIDE DEF n
  <2> QED BY <1>1
<1>3. Upto(S, n) = S /\ S \subseteq 1 .. n
  BY <1>1, <1>2, Zenon DEF Upto, SessionControls
<1>4. Below(lines, n + 1) = K /\ K \subseteq 1 .. n
  BY <1>1, <1>2, Zenon DEF Below, TrackSections
<1>5. s.aggregate = a
  BY <1>3 DEF After
<1>6. flushCurrent(s) = [tracks |-> t, current |-> << >>, aggregate |-> a]
  <2>1. n \in 0 .. Len(lines)
    BY <1>1
  <2> HIDE DEF n, s
  <2>2. flushCurrent(After(lines, base, n))
          = [tracks |-> Tracks(lines, base, Below(lines, n + 1)), current |-> << >>,
             aggregate |-> After(lines, base, n).aggregate]
    BY <1>1, <2>1, SectionFlushed DEF n
  <2> QED BY <1>4, <1>5, <2>2 DEF s
<1>7. \/ a = NoURL /\ S = {}
      \/ /\ a # NoURL /\ S # {}
         /\ resolveControlURL(contentBase, requestURL, a) = a
  <2>1. CASE S = {}
    BY <2>1 DEF AggregateOf
  <2>2. CASE S # {}
    <3>1. a \in AbsoluteURL
      BY <1>1, <2>2, AggregateIs
    <3> HIDE DEF a, S
    <3> QED BY <2>2, <3>1, AbsoluteStays
  <2> QED BY <2>1, <2>2
<1>8. m \in Nat
  <2>1. K \subseteq 0 .. n
    <3> HIDE DEF K, n
    <3>1. \A j \in 1 .. n : j \in 0 .. n
      BY <1>1
    <3> QED BY <1>4, <3>1
  <2> HIDE DEF K, n
  <2> QED BY <1>1, <2>1, RankedFew
<1>9. DOMAIN InOrder(K) = 1 .. m
  BY DEF InOrder
<1>10. t = [i \in DOMAIN InOrder(K) |-> TrackOf(lines, InOrder(K)[i], base)]
  BY <1>9 DEF Tracks
<1>11. (t = << >> <=> m = 0) /\ (InOrder(K) = << >> <=> m = 0)
  <2>1. DOMAIN t = 1 .. m
    BY DEF Tracks
  <2>2. ASSUME m = 0 PROVE t = << >> /\ InOrder(K) = << >>
    BY <1>9, <2>1, <2>2 DEF Tracks, InOrder
  <2>3. ASSUME m # 0 PROVE t # << >> /\ InOrder(K) # << >>
    <3>1. 1 \in DOMAIN t /\ 1 \in DOMAIN InOrder(K)
      <4> HIDE DEF t, K, m
      <4> QED BY <1>8, <1>9, <2>1, <2>3
    <3>2. 1 \notin DOMAIN << >>
      OBVIOUS
    <3> HIDE DEF t, K, m
    <3> QED BY <3>1, <3>2
  <2> QED BY <2>2, <2>3
<1> DEFINE end == flushCurrent(s)
           aggregate == IF end.aggregate = NoURL THEN NoURL
                        ELSE resolveControlURL(contentBase, requestURL, end.aggregate)
<1>12. parseSDPInfo(lines, contentBase, requestURL)
         = IF end.tracks = << >> /\ aggregate = NoURL THEN << >>
           ELSE <<[tracks |-> end.tracks, aggregate |-> aggregate]>>
  BY <1>1, ParserAfter
<1>13. SdpMeans(lines, base)
         = IF InOrder(K) = << >> /\ a = NoURL THEN << >>
           ELSE <<[tracks |-> [i \in DOMAIN InOrder(K) |-> TrackOf(lines, InOrder(K)[i], base)],
                   aggregate |-> a]>>
  BY Zenon DEF SdpMeans, AggregateOf
<1> HIDE DEF s, t, K, m, a, S
<1>14. end.tracks = t /\ aggregate = a
  BY <1>6, <1>7
<1> HIDE DEF end, aggregate
<1> QED BY <1>10, <1>11, <1>12, <1>13, <1>14

LEMMA OneWord ==
  ASSUME NEW w \in Strings
  PROVE  <<w>> \in Seq(Strings) /\ Len(<<w>>) = 1
OBVIOUS

LEMMA SdpAsked ==
  ASSUME NEW lines \in Seqs(SdpLines, 4)
  PROVE  SdpLinesOf(lines, {"sprop"})
<1>1. \A l \in SdpLines : SdpLine(l, {"sprop"})
  <2> SUFFICES ASSUME NEW l \in SdpLines PROVE SdpLine(l, {"sprop"})
    OBVIOUS
  <2>1. /\ l.kind = "control" => l.url \in {Star, Track, Other, NoURL}
        /\ l.kind = "media" => l.fields \in {3, 4}
        /\ l.kind = "fmtp" => l.parameters = [sprop |-> "sets"]
    BY DEF SdpLines
  <2>2. /\ Star \in SdpURL /\ NoURL \in SdpURL
        /\ Track \in SdpURL /\ Other \in SdpURL
    <3>1. << >> \in Seq(Strings)
      OBVIOUS
    <3>2. /\ <<"*">> \in Seq(Strings) /\ Len(<<"*">>) = 1
          /\ <<"track">> \in Seq(Strings) /\ Len(<<"track">>) = 1
          /\ <<"other">> \in Seq(Strings)
      BY OneWord DEF Strings
    <3>3. Star \in SdpURL
      BY <3>2 DEF Star, SdpURL
    <3>4. NoURL \in SdpURL
      BY <3>1 DEF NoURL, SdpURL
    <3>5. Track \in SdpURL
      BY <3>2 DEF Track, SdpURL
    <3>6. Other \in SdpURL
      BY <3>2 DEF Other, SdpURL
    <3> QED BY <3>3, <3>4, <3>5, <3>6
  <2>3. [sprop |-> "sets"] \in [{"sprop"} -> Strings]
    <3>1. "sets" \in Strings
      BY DEF Strings
    <3> HIDE DEF Strings
    <3> QED BY <3>1
  <2>4. l.kind = "control" => l.url \in SdpURL
    BY <2>1, <2>2
  <2> QED BY <2>1, <2>3, <2>4 DEF SdpLine
<1>2. lines \in Seq(SdpLines)
  BY BoundedSeqs
<1> QED BY <1>1, <1>2 DEF SdpLinesOf

\* Tracks and aggregate control are those of the sections, in every state of
\* the specification (client.go:774-896).
THEOREM NumbersSdpSections == Spec => []SdpSections
<1>1. QuestionInv => SdpSections
  <2> SUFFICES ASSUME QuestionInv, question.about = "sdp" PROVE SdpSections
    BY DEF SdpSections
  <2>1. PICK lines \in Seqs(SdpLines, 4), base \in {NoURL, Base} :
          question = [about |-> "sdp", lines |-> lines, base |-> base]
    BY DEF QuestionInv, Init
  <2>2. question.lines = lines /\ question.base = base
    BY <2>1
  <2> DEFINE b == IF base = NoURL THEN Server ELSE base
  <2>3. BasedOn(b, base, Server)
    <3>1. <<"stream">> \in Seq(Strings)
      BY OneWord DEF Strings
    <3>2. <<"base">> \in Seq(Strings)
      BY OneWord DEF Strings
    <3>3. Server \in AbsoluteURL /\ Base \in AbsoluteURL
      BY <3>1, <3>2 DEF Server, Base, AbsoluteURL
    <3> QED BY <3>3 DEF BasedOn
  <2>4. SdpLinesOf(lines, {"sprop"})
    BY SdpAsked
  <2> HIDE DEF b
  <2>5. parseSDPInfo(lines, base, Server) = SdpMeans(lines, b)
    BY <2>3, <2>4, NumbersReadSections
  <2> QED BY <2>2, <2>5 DEF SdpSections, b
<1> QED BY <1>1, Questions, PTL

-----------------------------------------------------------------------------
(* Configuration.  The arguments are the pieces of the items one behind    *)
(* the other, so what the parser has at a piece is described by its item.  *)

\* Piece k of the sequences stands at pos[k]; the end is where a piece n + 1
\* would stand.
LaidOut(args, seqs, pos, n) ==
  /\ n \in Nat /\ Len(args) \in Nat
  /\ pos[1] = 1 /\ pos[n + 1] = Len(args) + 1
  /\ \A k \in 1 .. n + 1 : pos[k] \in 1 .. Len(args) + 1
  /\ \A k \in 1 .. n : /\ Len(seqs[k]) \in Nat /\ pos[k + 1] = pos[k] + Len(seqs[k])
                       /\ \A j \in 1 .. Len(seqs[k]) : args[pos[k] + j - 1] = seqs[k][j]

LEMMA LaidByFlatten ==
  ASSUME NEW S, NEW seqs \in Seq(Seq(S))
  PROVE  /\ FlattenSeq(seqs) \in Seq(S)
         /\ \E pos : LaidOut(FlattenSeq(seqs), seqs, pos, Len(seqs))
<1> DEFINE n == Len(seqs)
<1>1. n \in Nat /\ \A k \in 1 .. n : seqs[k] \in Seq(S)
  OBVIOUS
<1>2. PICK g : Accumulates(g, seqs, Len(seqs), S)
  BY <1>1, Accumulated
<1>3. FlattenSeq(seqs) = g[n]
  BY <1>2, FlattenAccumulates
<1>4. Accumulates(g, seqs, n, S)
  BY <1>2
<1> HIDE DEF n
<1> DEFINE args == g[n]
           pos  == [k \in 1 .. n + 1 |-> Len(g[k - 1]) + 1]
<1>5. g[0] = << >> /\ \A k \in Nat : g[k] \in Seq(S) /\ Len(g[k]) \in Nat
  BY <1>4 DEF Accumulates
<1>6. \A k \in 1 .. n + 1 : k - 1 \in Nat /\ k - 1 <= n
  BY <1>1
<1>7. ASSUME NEW k \in Nat, k <= n PROVE Begins(args, g[k])
  BY <1>1, <1>4, <1>7, FrontStays
<1>8. ASSUME NEW k \in 1 .. n + 1
      PROVE  pos[k] = Len(g[k - 1]) + 1 /\ pos[k] \in 1 .. Len(args) + 1
  <2>1. Begins(args, g[k - 1])
    BY <1>6, <1>7
  <2>2. Len(g[k - 1]) \in Nat /\ Len(g[k - 1]) <= Len(args) /\ Len(args) \in Nat
    BY <1>1, <1>5, <1>6, <2>1 DEF Begins
  <2>3. pos[k] = Len(g[k - 1]) + 1
    OBVIOUS
  <2> HIDE DEF pos, args
  <2> QED BY <2>2, <2>3
<1>9. pos[1] = 1 /\ pos[n + 1] = Len(args) + 1
  <2>1. 1 \in 1 .. n + 1 /\ n + 1 \in 1 .. n + 1 /\ (n + 1) - 1 = n /\ 1 - 1 = 0
    BY <1>1
  <2>2. pos[1] = Len(g[1 - 1]) + 1 /\ pos[n + 1] = Len(g[(n + 1) - 1]) + 1
    BY <1>8, <2>1
  <2> HIDE DEF pos
  <2> QED BY <1>5, <2>1, <2>2
<1>10. ASSUME NEW k \in 1 .. n
       PROVE  /\ Len(seqs[k]) \in Nat /\ pos[k + 1] = pos[k] + Len(seqs[k])
              /\ \A j \in 1 .. Len(seqs[k]) : args[pos[k] + j - 1] = seqs[k][j]
  <2>1. k \in 1 .. n + 1 /\ k + 1 \in 1 .. n + 1 /\ (k + 1) - 1 = k /\ k \in Nat /\ k <= n
    BY <1>1
  <2>2. pos[k] = Len(g[k - 1]) + 1 /\ pos[k + 1] = Len(g[k]) + 1
    <3>1. pos[k + 1] = Len(g[(k + 1) - 1]) + 1
      BY <1>8, <2>1
    <3>2. pos[k] = Len(g[k - 1]) + 1
      BY <1>8, <2>1
    <3> HIDE DEF pos
    <3> QED BY <2>1, <3>1, <3>2
  <2>3. Piece(g, seqs, k, S)
    BY <1>1, <1>4, PieceInPlace
  <2>4. /\ Len(g[k - 1]) \in Nat /\ Len(seqs[k]) \in Nat
        /\ Len(g[k]) = Len(g[k - 1]) + Len(seqs[k])
        /\ \A i \in 1 .. Len(seqs[k]) : g[k][Len(g[k - 1]) + i] = seqs[k][i]
    BY <2>3 DEF Piece
  <2>5. \A i \in 1 .. Len(g[k]) : args[i] = g[k][i]
    BY <1>7, <2>1 DEF Begins
  <2> DEFINE a == pos[k]
             z == pos[k + 1]
             l == Len(seqs[k])
             m == Len(g[k - 1])
  <2>6. m \in Nat /\ l \in Nat /\ Len(g[k]) = m + l /\ a = m + 1 /\ z = m + l + 1
    BY <2>2, <2>4
  <2>7. /\ \A i \in 1 .. l : g[k][m + i] = seqs[k][i]
        /\ \A i \in 1 .. Len(g[k]) : args[i] = g[k][i]
    BY <2>4, <2>5
  <2> HIDE DEF a, z, l, m, pos, args
  <2>8. ASSUME NEW j \in 1 .. l PROVE args[a + j - 1] = seqs[k][j]
    <3>1. a + j - 1 = m + j /\ m + j \in 1 .. Len(g[k])
      BY <2>6
    <3> QED BY <2>7, <3>1
  <2>9. l \in Nat /\ z = a + l
    BY <2>6
  <2> QED BY <2>8, <2>9 DEF a, z, l
<1>11. args \in Seq(S) /\ Len(args) \in Nat
  BY <1>1, <1>5
<1> HIDE DEF args, pos
<1>12. LaidOut(args, seqs, pos, n)
  BY <1>1, <1>8, <1>9, <1>10, <1>11 DEF LaidOut
<1>13. LaidOut(FlattenSeq(seqs), seqs, pos, Len(seqs))
  BY <1>3, <1>12 DEF args, n
<1> QED BY <1>3, <1>11, <1>13 DEF args

\* Every argument belongs to a piece.
Covered(args, seqs, pos, n) ==
  \A i \in 1 .. Len(args) :
    \E k \in 1 .. n : \E j \in 1 .. Len(seqs[k]) : i = pos[k] + j - 1

LEMMA PieceOf ==
  ASSUME NEW args, NEW seqs, NEW pos, NEW n, LaidOut(args, seqs, pos, n)
  PROVE  Covered(args, seqs, pos, n)
<1> SUFFICES ASSUME NEW i \in 1 .. Len(args)
             PROVE  \E k \in 1 .. n : \E j \in 1 .. Len(seqs[k]) : i = pos[k] + j - 1
  BY DEF Covered
<1> DEFINE K == {k \in 1 .. n + 1 : pos[k] <= i}
<1>1. /\ n \in Nat /\ Len(args) \in Nat
      /\ pos[1] = 1 /\ pos[n + 1] = Len(args) + 1
      /\ \A k \in 1 .. n + 1 : pos[k] \in 1 .. Len(args) + 1
      /\ \A k \in 1 .. n : Len(seqs[k]) \in Nat /\ pos[k + 1] = pos[k] + Len(seqs[k])
  BY DEF LaidOut
<1>2. 1 \in K /\ K \subseteq 0 .. n + 1
  BY <1>1
<1>3. PICK k \in K : \A x \in K : x <= k
  <2> HIDE DEF K
  <2>1. n + 1 \in Nat
    BY <1>1
  <2> QED BY <1>2, <2>1, GreatestOf
<1>4. k \in 1 .. n + 1 /\ pos[k] <= i
  OBVIOUS
<1>5. k \in 1 .. n
  BY <1>1, <1>4
<1>6. k + 1 \notin K /\ k + 1 \in 1 .. n + 1
  BY <1>1, <1>3, <1>5
<1>7. i < pos[k + 1] /\ pos[k + 1] = pos[k] + Len(seqs[k])
  BY <1>1, <1>5, <1>6
<1>8. \E j \in 1 .. Len(seqs[k]) : i = pos[k] + j - 1
  <2> DEFINE a == pos[k]
             l == Len(seqs[k])
             j == i - a + 1
  <2>1. a \in Nat /\ l \in Nat /\ a <= i /\ i < a + l
    BY <1>1, <1>4, <1>5, <1>7
  <2> HIDE DEF a, l
  <2>2. j \in 1 .. l /\ i = a + j - 1
    BY <2>1
  <2> HIDE DEF j
  <2> QED BY <2>2 DEF a, l
<1> QED BY <1>5, <1>8

\* Without one argument the others stand as before, those behind it one
\* place further to the front.
LEMMA WithoutOne ==
  ASSUME NEW S, NEW args \in Seq(S), NEW P, NEW q \in 1 .. Len(args) + 1,
         \A i \in 1 .. Len(args) : i \in P <=> i = q
  PROVE  /\ Len(Without(args, P)) = IF q <= Len(args) THEN Len(args) - 1 ELSE Len(args)
         /\ \A i \in 1 .. Len(args) : /\ i < q => Without(args, P)[i] = args[i]
                                      /\ i > q => Without(args, P)[i - 1] = args[i]
<1> DEFINE n    == Len(args)
           seqs == [i \in DOMAIN args |-> IF i \in P THEN << >> ELSE <<args[i]>>]
           W    == Without(args, P)
<1>1. n \in Nat /\ DOMAIN args = 1 .. n
  OBVIOUS
<1>2. seqs \in Seq(Seq(S)) /\ Len(seqs) = n
  <2>1. \A i \in 1 .. n : << >> \in Seq(S) /\ <<args[i]>> \in Seq(S)
    OBVIOUS
  <2> HIDE DEF n
  <2> QED BY <1>1, <2>1
<1>3. \A i \in 1 .. n : /\ i = q => Len(seqs[i]) = 0
                        /\ i # q => Len(seqs[i]) = 1 /\ seqs[i][1] = args[i]
  <2>1. \A i \in 1 .. n : seqs[i] = IF i = q THEN << >> ELSE <<args[i]>>
    BY <1>1
  <2>2. Len(<< >>) = 0 /\ \A x : Len(<<x>>) = 1 /\ <<x>>[1] = x
    OBVIOUS
  <2> HIDE DEF n, seqs
  <2> QED BY <2>1, <2>2
<1>4. W = FlattenSeq(seqs)
  BY DEF Without
<1> HIDE DEF W, seqs
<1>5. PICK pos : LaidOut(W, seqs, pos, n)
  BY <1>2, <1>4, LaidByFlatten
<1>q. q \in 1 .. n + 1
  OBVIOUS
<1> HIDE DEF n
<1>6. /\ Len(W) \in Nat /\ pos[1] = 1 /\ pos[n + 1] = Len(W) + 1
      /\ \A k \in 1 .. n : /\ pos[k + 1] = pos[k] + Len(seqs[k])
                           /\ \A j \in 1 .. Len(seqs[k]) : W[pos[k] + j - 1] = seqs[k][j]
  BY <1>5 DEF LaidOut
<1> DEFINE Good == {k \in Nat : k <= n => pos[k + 1] = IF k + 1 <= q THEN k + 1 ELSE k}
<1>7. 0 \in Good
  BY <1>6, <1>q
<1>8. ASSUME NEW k \in Nat, k \in Good PROVE k + 1 \in Good
  <2> SUFFICES ASSUME k + 1 <= n
               PROVE  pos[(k + 1) + 1] = IF (k + 1) + 1 <= q THEN (k + 1) + 1 ELSE k + 1
    OBVIOUS
  <2>1. k + 1 \in 1 .. n /\ k <= n
    BY <1>1
  <2>2. pos[k + 1] = IF k + 1 <= q THEN k + 1 ELSE k
    BY <1>8, <2>1
  <2>3. pos[(k + 1) + 1] = pos[k + 1] + Len(seqs[k + 1])
    BY <1>6, <2>1
  <2>4. (k + 1 = q => Len(seqs[k + 1]) = 0) /\ (k + 1 # q => Len(seqs[k + 1]) = 1)
    BY <1>3, <2>1
  <2> DEFINE a == pos[k + 1]
             z == pos[(k + 1) + 1]
             l == Len(seqs[k + 1])
  <2>5. /\ z = a + l /\ (a = IF k + 1 <= q THEN k + 1 ELSE k)
        /\ (k + 1 = q => l = 0) /\ (k + 1 # q => l = 1)
    BY <2>2, <2>3, <2>4
  <2> HIDE DEF a, z, l
  <2>6. z = IF (k + 1) + 1 <= q THEN (k + 1) + 1 ELSE k + 1
    BY <1>q, <1>1, <2>5
  <2> QED BY <2>6 DEF z
<1> HIDE DEF Good
<1>9. \A k \in Nat : k \in Good
  BY <1>7, <1>8, SetInduction
<1>10. ASSUME NEW k \in Nat, k <= n PROVE pos[k + 1] = IF k + 1 <= q THEN k + 1 ELSE k
  BY <1>9, <1>10 DEF Good
<1>11. Len(W) = IF q <= n THEN n - 1 ELSE n
  <2>1. pos[n + 1] = IF n + 1 <= q THEN n + 1 ELSE n
    BY <1>1, <1>10
  <2> QED BY <1>1, <1>6, <1>q, <2>1
<1>12. ASSUME NEW i \in 1 .. n
       PROVE  (i < q => W[i] = args[i]) /\ (i > q => W[i - 1] = args[i])
  <2>1. i - 1 \in Nat /\ i - 1 <= n /\ (i - 1) + 1 = i
    BY <1>1
  <2>2. pos[(i - 1) + 1] = IF (i - 1) + 1 <= q THEN (i - 1) + 1 ELSE i - 1
    BY <1>10, <2>1
  <2>3. pos[i] = IF i <= q THEN i ELSE i - 1
    BY <2>1, <2>2
  <2>4. i # q => W[pos[i] + 1 - 1] = args[i]
    <3>1. i # q => Len(seqs[i]) = 1 /\ seqs[i][1] = args[i]
      BY <1>3
    <3>2. 1 \in 1 .. 1
      OBVIOUS
    <3> QED BY <1>6, <3>1, <3>2
  <2>5. i < q => pos[i] + 1 - 1 = i
    BY <2>3, <1>q, <1>1
  <2>6. i > q => pos[i] + 1 - 1 = i - 1
    BY <2>3, <1>q, <1>1
  <2> QED BY <1>1, <1>q, <2>4, <2>5, <2>6
<1> QED BY <1>11, <1>12 DEF W, n

\* What a user may ask for: each setting once, with a value that is not empty.
ConfigItem(i) ==
  /\ i.key \in Valued \cup Switches \cup {"yaml"}
  /\ i.value # Empty /\ i.split \in BOOLEAN
  /\ i.key = "yaml" => i.value = YamlFile
  /\ i.key \in Switches => i.value \in {"true", "false"}
  /\ i.key \in Switches /\ i.split => i.value = "true"
  /\ i.key = "level" => i.value \in Levels \cup {"loud"}
  /\ i.key \in {"url", "output"} => i.value # "negative"
  /\ i.key = "timeout" => i.value # "unparsable"

ConfigItemsOf(items) ==
  /\ \E S : items \in Seq(S)
  /\ \A k \in 1 .. Len(items) : ConfigItem(items[k])
  /\ \A j, k \in 1 .. Len(items) : items[j].key = items[k].key => j = k

\* The arguments of an item, whose first is a flag, unless it is the file.
Shaped(i, a) ==
  /\ Len(a) \in {1, 2}
  /\ Len(a) = 2 <=> i.split /\ i.key \in Valued
  /\ i.key = "yaml" => a[1].flag = Empty /\ a[1].value = YamlFile
  /\ i.key # "yaml" => a[1].flag = i.key /\ a[1].flag # Empty
  /\ Len(a) = 2 => a[1].value = Empty /\ a[2].flag = Empty /\ a[2].value = i.value
  /\ Len(a) = 1 /\ i.key # "yaml" =>
       a[1].value = IF i.split THEN Empty ELSE i.value

LEMMA KeysDiffer ==
  /\ "yaml" \notin Valued /\ "yaml" \notin Switches
  /\ Empty \notin Valued /\ Empty \notin Switches
  /\ \A k \in Valued : k \notin Switches
  /\ YamlFile # Empty
BY DEF Valued, Switches, Empty, YamlFile

LEMMA ItemShape ==
  ASSUME NEW i, ConfigItem(i)
  PROVE  Shaped(i, ItemArguments(i))
<1> DEFINE a == ItemArguments(i)
<1>1. CASE i.key = "yaml"
  <2>1. a = <<[flag |-> Empty, value |-> i.value]>>
    BY <1>1 DEF ItemArguments
  <2>2. i.value = YamlFile /\ i.key \notin Valued
    BY <1>1, KeysDiffer DEF ConfigItem
  <2> QED BY <1>1, <2>1, <2>2 DEF Shaped
<1>2. CASE i.key # "yaml" /\ ~(i.split /\ i.key \in Valued)
  <2>1. i.key \in Valued \cup Switches /\ i.key # Empty
    BY <1>2, KeysDiffer DEF ConfigItem
  <2>2. i.split => i.key \in Switches
    BY <1>2, <2>1
  <2>3. a = <<[flag |-> i.key, value |-> IF i.split THEN Empty ELSE i.value]>>
    BY <1>2, <2>2 DEF ItemArguments
  <2>4. Len(a) = 1 /\ a[1].flag = i.key /\ a[1].value = IF i.split THEN Empty ELSE i.value
    BY <2>3
  <2> HIDE DEF a
  <2> QED BY <1>2, <2>1, <2>4 DEF Shaped, a
<1>3. CASE i.key # "yaml" /\ i.split /\ i.key \in Valued
  <2>1. i.key \notin Switches /\ i.key # Empty
    BY <1>3, KeysDiffer
  <2>2. a = <<[flag |-> i.key, value |-> Empty], [flag |-> Empty, value |-> i.value]>>
    BY <1>3, <2>1 DEF ItemArguments
  <2>3. /\ Len(a) = 2 /\ a[1].flag = i.key /\ a[1].value = Empty
        /\ a[2].flag = Empty /\ a[2].value = i.value
    BY <2>2
  <2> HIDE DEF a
  <2> QED BY <1>3, <2>1, <2>3 DEF Shaped, a
<1>4. i.split \in BOOLEAN
  BY DEF ConfigItem
<1> QED BY <1>1, <1>2, <1>3, <1>4

\* Where the file is recognised, and where it is missed.
FoundAt(items) ==
  {k \in 1 .. Len(items) : /\ items[k].key = "yaml"
                           /\ k = 1 \/ Len(ItemArguments(items[k - 1])) = 2}
MissedAt(items) ==
  {k \in 1 .. Len(items) : /\ items[k].key = "yaml"
                           /\ k # 1 /\ Len(ItemArguments(items[k - 1])) = 1}
Pieces(items) == [k \in DOMAIN items |-> ItemArguments(items[k])]

\* The file is looked for where it is recognised only.
LEMMA FileFound ==
  ASSUME NEW items, ConfigItemsOf(items), NEW args, NEW pos,
         LaidOut(args, Pieces(items), pos, Len(items)), DOMAIN args = 1 .. Len(args)
  PROVE  YamlArguments(args) = {pos[k] : k \in FoundAt(items)}
<1> DEFINE n    == Len(items)
           seqs == Pieces(items)
<1>1. /\ n \in Nat
      /\ \A k \in 1 .. n : ConfigItem(items[k]) /\ seqs[k] = ItemArguments(items[k])
      /\ \A j, k \in 1 .. n : items[j].key = items[k].key => j = k
  BY DEF ConfigItemsOf, Pieces
<1>2. \A k \in 1 .. n : Shaped(items[k], seqs[k])
  BY <1>1, ItemShape
<1>f. \A k \in 1 .. n : k \in FoundAt(items) <=>
         items[k].key = "yaml" /\ (k = 1 \/ Len(ItemArguments(items[k - 1])) = 2)
  BY DEF FoundAt
<1>g. \A k \in FoundAt(items) : k \in 1 .. n
  BY DEF FoundAt
<1> HIDE DEF n, seqs
<1>3. /\ Len(args) \in Nat /\ pos[1] = 1 /\ pos[n + 1] = Len(args) + 1
      /\ \A k \in 1 .. n + 1 : pos[k] \in 1 .. Len(args) + 1
      /\ \A k \in 1 .. n : /\ Len(seqs[k]) \in Nat /\ pos[k + 1] = pos[k] + Len(seqs[k])
                           /\ \A j \in 1 .. Len(seqs[k]) : args[pos[k] + j - 1] = seqs[k][j]
  BY DEF LaidOut, n, seqs
<1>4. ASSUME NEW k \in 1 .. n
      PROVE  /\ pos[k] \in 1 .. Len(args) /\ args[pos[k]] = seqs[k][1]
             /\ Len(seqs[k]) = 2 => args[pos[k] + 1] = seqs[k][2]
             /\ k # 1 => /\ k - 1 \in 1 .. n /\ pos[k] # 1
                         /\ args[pos[k] - 1] = seqs[k - 1][Len(seqs[k - 1])]
  <2>1. Len(seqs[k]) \in {1, 2}
    BY <1>2 DEF Shaped
  <2>2. k \in 1 .. n + 1 /\ k + 1 \in 1 .. n + 1
    BY <1>1
  <2>3. pos[k] \in 1 .. Len(args)
    <3> DEFINE l == Len(seqs[k])
               a == pos[k]
               z == pos[k + 1]
    <3>1. l \in {1, 2} /\ z = a + l /\ a \in 1 .. Len(args) + 1 /\ z \in 1 .. Len(args) + 1
      BY <1>3, <2>1, <2>2
    <3> HIDE DEF l, a, z
    <3>2. a \in 1 .. Len(args)
      BY <1>3, <3>1
    <3> QED BY <3>2 DEF a
  <2>4. 1 \in 1 .. Len(seqs[k]) /\ (Len(seqs[k]) = 2 => 2 \in 1 .. Len(seqs[k]))
    BY <2>1
  <2>5. args[pos[k] + 1 - 1] = seqs[k][1]
    BY <1>3, <2>4
  <2>6. Len(seqs[k]) = 2 => args[pos[k] + 2 - 1] = seqs[k][2]
    BY <1>3, <2>4
  <2>7. pos[k] + 1 - 1 = pos[k] /\ pos[k] + 2 - 1 = pos[k] + 1
    BY <2>3
  <2>8. ASSUME k # 1
        PROVE  /\ k - 1 \in 1 .. n /\ pos[k] # 1
               /\ args[pos[k] - 1] = seqs[k - 1][Len(seqs[k - 1])]
    <3> DEFINE m == k - 1
               l == Len(seqs[m])
    <3>1. m \in 1 .. n /\ m + 1 = k /\ m \in 1 .. n + 1
      BY <1>1, <2>8
    <3> HIDE DEF m
    <3>2. l \in {1, 2}
      BY <1>2, <3>1 DEF Shaped
    <3>3. pos[m + 1] = pos[m] + l /\ pos[m] \in 1 .. Len(args) + 1
      BY <1>3, <3>1
    <3>4. pos[k] = pos[m] + l
      BY <3>1, <3>3
    <3>5. \A j \in 1 .. l : args[pos[m] + j - 1] = seqs[m][j]
      BY <1>3, <3>1
    <3> HIDE DEF l
    <3>6. args[pos[m] + l - 1] = seqs[m][l]
      <4>1. l \in 1 .. l
        BY <3>2
      <4> QED BY <3>5, <4>1
    <3>7. pos[k] # 1 /\ pos[k] - 1 = pos[m] + l - 1
      BY <1>3, <3>2, <3>3, <3>4
    <3> QED BY <3>1, <3>6, <3>7 DEF m, l
  <2> QED BY <2>3, <2>5, <2>6, <2>7, <2>8
<1>5. ASSUME NEW k \in FoundAt(items) PROVE pos[k] \in YamlArguments(args)
  <2>1. k \in 1 .. n /\ items[k].key = "yaml" /\ (k = 1 \/ Len(ItemArguments(items[k - 1])) = 2)
    BY <1>f, <1>g
  <2>2. args[pos[k]].flag = Empty /\ args[pos[k]].value = YamlFile
    BY <1>2, <1>4, <2>1 DEF Shaped
  <2>3. pos[k] = 1 \/ args[pos[k] - 1].flag = Empty
    <3>1. CASE k = 1
      BY <1>3, <3>1
    <3>2. CASE k # 1
      <4>1. k - 1 \in 1 .. n /\ args[pos[k] - 1] = seqs[k - 1][Len(seqs[k - 1])]
        BY <1>4, <2>1, <3>2
      <4>2. Len(seqs[k - 1]) = 2
        BY <1>1, <2>1, <3>2, <4>1
      <4>3. seqs[k - 1][2].flag = Empty
        BY <1>2, <4>1, <4>2 DEF Shaped
      <4> QED BY <4>1, <4>2, <4>3
    <3> QED BY <3>1, <3>2
  <2>4. pos[k] \in DOMAIN args
    BY <1>4, <2>1
  <2> QED BY <2>2, <2>3, <2>4 DEF YamlArguments, IsFlag, isYAMLFile
<1>6. ASSUME NEW i \in YamlArguments(args) PROVE \E k \in FoundAt(items) : i = pos[k]
  <2>1. /\ i \in 1 .. Len(args) /\ args[i].flag = Empty /\ args[i].value = YamlFile
        /\ i = 1 \/ args[i - 1].flag = Empty
    BY DEF YamlArguments, IsFlag, isYAMLFile
  <2>2. LaidOut(args, seqs, pos, n)
    BY DEF n, seqs
  <2>3p. PICK k \in 1 .. n : \E j \in 1 .. Len(seqs[k]) : i = pos[k] + j - 1
    <3>1. i \in 1 .. Len(args)
      BY <2>1
    <3> HIDE DEF n, seqs
    <3>2. Covered(args, seqs, pos, n)
      BY <2>2, PieceOf
    <3> QED BY <3>1, <3>2 DEF Covered
  <2>3. PICK j \in 1 .. Len(seqs[k]) : i = pos[k] + j - 1
    BY <2>3p
  <2>4. Shaped(items[k], seqs[k])
    BY <1>2
  <2> DEFINE l == Len(seqs[k])
  <2>l. l \in {1, 2} /\ j \in 1 .. l
    BY <2>4 DEF Shaped
  <2> HIDE DEF l
  <2>5. j \in {1, 2} /\ (j = 2 => l = 2)
    BY <2>l
  <2>6. pos[k] \in 1 .. Len(args)
    BY <1>4
  <2>7. CASE j = 2
    <3>1. Len(seqs[k]) = 2 /\ i # 1 /\ i - 1 = pos[k]
      <4>1. i # 1 /\ i - 1 = pos[k]
        BY <2>3, <2>6, <2>7
      <4> QED BY <2>5, <2>7, <4>1 DEF l
    <3>2. items[k].key # "yaml"
      <4>1. items[k].key \in Valued
        BY <2>4, <3>1 DEF Shaped
      <4> QED BY <4>1, KeysDiffer
    <3>3. args[i - 1].flag # Empty
      BY <1>4, <2>4, <3>1, <3>2 DEF Shaped
    <3> QED BY <2>1, <3>1, <3>3
  <2>8. CASE j = 1
    <3>1. i = pos[k]
      BY <2>3, <2>6, <2>8
    <3>2. items[k].key = "yaml"
      BY <1>4, <2>1, <2>4, <3>1 DEF Shaped
    <3>3. k = 1 \/ Len(ItemArguments(items[k - 1])) = 2
      <4> SUFFICES ASSUME k # 1 PROVE Len(ItemArguments(items[k - 1])) = 2
        OBVIOUS
      <4>1. k - 1 \in 1 .. n /\ pos[k] # 1 /\ args[pos[k] - 1] = seqs[k - 1][Len(seqs[k - 1])]
        BY <1>4
      <4>2. seqs[k - 1][Len(seqs[k - 1])].flag = Empty
        BY <2>1, <3>1, <4>1
      <4>3. items[k - 1].key # "yaml"
        <5>1. k - 1 # k
          OBVIOUS
        <5> QED BY <1>1, <3>2, <4>1, <5>1
      <4>4. Shaped(items[k - 1], seqs[k - 1])
        BY <1>2, <4>1
      <4>5. Len(seqs[k - 1]) # 1 /\ Len(seqs[k - 1]) \in {1, 2}
        BY <4>2, <4>3, <4>4 DEF Shaped
      <4> QED BY <1>1, <4>1, <4>5
    <3> QED BY <1>f, <3>1, <3>2, <3>3
  <2> QED BY <2>5, <2>7, <2>8
<1> QED BY <1>5, <1>6

\* A later piece stands further behind.
LEMMA LaidRises ==
  ASSUME NEW args, NEW seqs, NEW pos, NEW n, LaidOut(args, seqs, pos, n),
         NEW a \in 1 .. n + 1, NEW b \in 1 .. n + 1, a <= b
  PROVE  pos[a] <= pos[b]
<1> DEFINE Good == {d \in Nat : a + d <= n + 1 => pos[a] <= pos[a + d]}
<1>1. /\ n \in Nat /\ \A k \in 1 .. n + 1 : pos[k] \in Nat
      /\ \A k \in 1 .. n : Len(seqs[k]) \in Nat /\ pos[k + 1] = pos[k] + Len(seqs[k])
  <2>1. \A k \in 1 .. n : Len(seqs[k]) \in Nat /\ pos[k + 1] = pos[k] + Len(seqs[k])
    BY DEF LaidOut
  <2>2. /\ n \in Nat /\ Len(args) \in Nat
        /\ \A k \in 1 .. n + 1 : pos[k] \in 1 .. Len(args) + 1
    BY DEF LaidOut
  <2> QED BY <2>1, <2>2
<1>2. 0 \in Good
  <2>1. a + 0 = a /\ pos[a] \in Nat
    BY <1>1
  <2> QED BY <2>1
<1>3. ASSUME NEW d \in Nat, d \in Good PROVE d + 1 \in Good
  <2> SUFFICES ASSUME a + (d + 1) <= n + 1 PROVE pos[a] <= pos[a + (d + 1)]
    OBVIOUS
  <2> DEFINE k == a + d
             x == pos[a]
             y == pos[k]
             z == pos[k + 1]
             l == Len(seqs[k])
  <2>1. k \in 1 .. n /\ a + (d + 1) = k + 1 /\ k \in 1 .. n + 1 /\ k + 1 \in 1 .. n + 1
    BY <1>1
  <2>2. x <= y
    BY <1>1, <1>3, <2>1
  <2> HIDE DEF k
  <2>3. l \in Nat /\ z = y + l /\ x \in Nat /\ y \in Nat
    BY <1>1, <2>1
  <2> HIDE DEF x, y, z, l
  <2>4. x <= z
    BY <2>2, <2>3
  <2> QED BY <2>1, <2>4 DEF x, z
<1> HIDE DEF Good
<1>4. \A d \in Nat : d \in Good
  BY <1>2, <1>3, SetInduction
<1>5. b - a \in Nat /\ a + (b - a) = b /\ b <= n + 1
  BY <1>1
<1>6. b - a \in Good
  BY <1>4, <1>5
<1>7. a + (b - a) <= n + 1 => pos[a] <= pos[a + (b - a)]
  BY <1>6 DEF Good
<1> QED BY <1>5, <1>7

ArgumentsOver(V) == [flag : {Empty} \cup Valued \cup Switches, value : V]

LEMMA ItemTyped ==
  ASSUME NEW i, ConfigItem(i), NEW V, Empty \in V, i.value \in V
  PROVE  ItemArguments(i) \in Seq(ArgumentsOver(V))
<1> DEFINE F == {Empty} \cup Valued \cup Switches
           S == ArgumentsOver(V)
<1>1. \A f \in F, v \in V : [flag |-> f, value |-> v] \in S
  BY DEF ArgumentsOver
<1>2. Empty \in F /\ (i.key # "yaml" => i.key \in F)
  BY DEF ConfigItem
<1> HIDE DEF F, S
<1>3. \A x, y \in S : <<x>> \in Seq(S) /\ <<x, y>> \in Seq(S)
  OBVIOUS
<1>4. CASE i.key = "yaml"
  BY <1>1, <1>2, <1>3, <1>4 DEF ItemArguments, S
<1>5. CASE i.key # "yaml"
  BY <1>1, <1>2, <1>3, <1>5 DEF ItemArguments, S
<1> QED BY <1>4, <1>5

\* The arguments of the items, and where they stand.
LEMMA ArgumentsLaid ==
  ASSUME NEW items, ConfigItemsOf(items)
  PROVE  /\ \E S : Arguments(items) \in Seq(S)
         /\ \E pos : LaidOut(Arguments(items), Pieces(items), pos, Len(items))
<1> DEFINE n    == Len(items)
           V    == {Empty} \cup {items[k].value : k \in 1 .. n}
           S    == ArgumentsOver(V)
           seqs == Pieces(items)
<1>1. n \in Nat /\ DOMAIN items = 1 .. n /\ \A k \in 1 .. n : ConfigItem(items[k])
  BY DEF ConfigItemsOf
<1>2. \A k \in 1 .. n : ItemArguments(items[k]) \in Seq(S)
  BY <1>1, ItemTyped
<1> HIDE DEF n, S
<1>3. seqs \in Seq(Seq(S)) /\ Len(seqs) = n
  BY <1>1, <1>2 DEF Pieces
<1>4. Arguments(items) = FlattenSeq(seqs)
  BY DEF Arguments, Pieces
<1> HIDE DEF seqs
<1>5. /\ Arguments(items) \in Seq(S)
      /\ \E pos : LaidOut(Arguments(items), seqs, pos, n)
  BY <1>3, <1>4, LaidByFlatten
<1> QED BY <1>5 DEF seqs, n

KeptPieces(items) ==
  [k \in DOMAIN items |-> IF k \in FoundAt(items) THEN << >> ELSE ItemArguments(items[k])]

\* What flag.Parse gets are the pieces without the file.
LEMMA KeptLaid ==
  ASSUME NEW items, ConfigItemsOf(items), NEW args, args = Arguments(items)
  PROVE  /\ YamlArguments(args) = {} <=> FoundAt(items) = {}
         /\ \E pos : LaidOut(Without(args, YamlArguments(args)), KeptPieces(items), pos, Len(items))
<1> DEFINE n    == Len(items)
           seqs == Pieces(items)
           kept == KeptPieces(items)
           P    == YamlArguments(args)
           W    == Without(args, P)
           L    == Len(args)
<1>1. PICK S : args \in Seq(S)
  BY ArgumentsLaid
<1>2. PICK pos : LaidOut(args, Pieces(items), pos, Len(items))
  BY ArgumentsLaid
<1>3. P = {pos[k] : k \in FoundAt(items)}
  <2>1. DOMAIN args = 1 .. Len(args)
    BY <1>1
  <2> QED BY <1>2, <2>1, FileFound
<1>4. PICK y \in 1 .. n + 1 : FoundAt(items) = IF y <= n THEN {y} ELSE {}
  <2>1. n \in Nat /\ \A j, k \in 1 .. n : items[j].key = items[k].key => j = k
    BY DEF ConfigItemsOf
  <2>2. FoundAt(items) \subseteq 1 .. n /\ \A k \in FoundAt(items) : items[k].key = "yaml"
    BY DEF FoundAt
  <2>3. CASE FoundAt(items) = {}
    <3>1. n + 1 \in 1 .. n + 1 /\ ~(n + 1 <= n)
      BY <2>1
    <3> QED BY <2>3, <3>1
  <2>4. CASE FoundAt(items) # {}
    <3>1. PICK y \in FoundAt(items) : TRUE
      BY <2>4
    <3>2. FoundAt(items) = {y}
      BY <2>1, <2>2, <3>1
    <3>3. y \in 1 .. n + 1 /\ y <= n
      BY <2>1, <2>2, <3>1
    <3> QED BY <3>2, <3>3
  <2> QED BY <2>3, <2>4
<1>5. /\ n \in Nat
      /\ \A k \in 1 .. n : /\ Shaped(items[k], seqs[k])
                           /\ kept[k] = IF k = y THEN << >> ELSE seqs[k]
      /\ y <= n => items[y].key = "yaml"
  <2>1. /\ n \in Nat /\ DOMAIN items = 1 .. n
        /\ \A k \in 1 .. n : ConfigItem(items[k])
    BY DEF ConfigItemsOf
  <2>2. \A k \in 1 .. n : Shaped(items[k], seqs[k])
    BY <2>1, ItemShape DEF Pieces
  <2>3. y <= n => items[y].key = "yaml"
    <3>1. y <= n => y \in FoundAt(items)
      BY <1>4
    <3> QED BY <3>1 DEF FoundAt
  <2>4. ASSUME NEW k \in 1 .. n PROVE kept[k] = IF k = y THEN << >> ELSE seqs[k]
    <3>1. kept[k] = IF k \in FoundAt(items) THEN << >> ELSE seqs[k]
      BY <2>1 DEF KeptPieces, Pieces
    <3>2. k \in FoundAt(items) <=> k = y
      BY <1>4, <2>1
    <3> QED BY <3>1, <3>2
  <2> QED BY <2>1, <2>2, <2>3, <2>4
<1>l. \A k \in 1 .. n : Len(seqs[k]) \in {1, 2} /\ (k = y => Len(seqs[k]) = 1)
  <2> SUFFICES ASSUME NEW k \in 1 .. n
               PROVE  Len(seqs[k]) \in {1, 2} /\ (k = y => Len(seqs[k]) = 1)
    OBVIOUS
  <2>1. Shaped(items[k], seqs[k])
    BY <1>5
  <2>2. k = y => items[k].key \notin Valued
    BY <1>5, KeysDiffer
  <2> QED BY <2>1, <2>2 DEF Shaped
<1>L. L \in Nat
  BY <1>1
<1>p. LaidOut(args, seqs, pos, n)
  BY <1>2
<1> HIDE DEF n, seqs, kept
<1>6. /\ pos[1] = 1 /\ pos[n + 1] = L + 1
      /\ \A k \in 1 .. n + 1 : pos[k] \in 1 .. L + 1
      /\ \A k \in 1 .. n : /\ pos[k + 1] = pos[k] + Len(seqs[k])
                           /\ \A j \in 1 .. Len(seqs[k]) : args[pos[k] + j - 1] = seqs[k][j]
  BY <1>p DEF LaidOut
<1>7. \A a, b \in 1 .. n + 1 : a <= b => pos[a] <= pos[b]
  BY <1>p, LaidRises
<1> DEFINE q == pos[y]
<1>8. q \in 1 .. L + 1 /\ (q <= L <=> y <= n)
  <2>1. q \in 1 .. L + 1
    BY <1>6
  <2>2. CASE y <= n
    <3> DEFINE z == pos[y + 1]
    <3>1. y \in 1 .. n /\ y + 1 \in 1 .. n + 1
      BY <1>5, <2>2
    <3>2. z = q + 1 /\ z \in 1 .. L + 1
      BY <1>6, <1>l, <3>1
    <3> HIDE DEF q, z
    <3> QED BY <1>L, <2>1, <2>2, <3>2
  <2>3. CASE ~(y <= n)
    <3>1. y = n + 1
      BY <1>5, <2>3
    <3>2. q = L + 1
      BY <1>6, <3>1
    <3> HIDE DEF q
    <3> QED BY <1>L, <2>1, <2>3, <3>2
  <2> QED BY <2>2, <2>3
<1>9. \A i \in 1 .. L : i \in P <=> i = q
  <2> SUFFICES ASSUME NEW i \in 1 .. L PROVE i \in P <=> i = q
    OBVIOUS
  <2>1. CASE y <= n
    <3>1. P = {q}
      BY <1>3, <1>4, <2>1
    <3> QED BY <3>1
  <2>2. CASE ~(y <= n)
    <3>1. P = {}
      BY <1>3, <1>4, <2>2
    <3>2. i # q
      BY <1>8, <1>L, <2>2
    <3> QED BY <3>1, <3>2
  <2> QED BY <2>1, <2>2
<1>10. P = {} <=> FoundAt(items) = {}
  BY <1>3
<1> HIDE DEF P, q
<1>11. /\ Len(W) = IF q <= L THEN L - 1 ELSE L
       /\ \A i \in 1 .. L : (i < q => W[i] = args[i]) /\ (i > q => W[i - 1] = args[i])
  <2>1. args \in Seq(S) /\ q \in 1 .. Len(args) + 1
    BY <1>1, <1>8
  <2>2. \A i \in 1 .. Len(args) : i \in P <=> i = q
    BY <1>9
  <2> QED BY <2>1, <2>2, WithoutOne
<1> HIDE DEF W, L
<1>12. LaidOut(W, kept, [k \in 1 .. n + 1 |-> IF k <= y THEN pos[k] ELSE pos[k] - 1], n)
  <2> DEFINE new == [k \in 1 .. n + 1 |-> IF k <= y THEN pos[k] ELSE pos[k] - 1]
             M1  == Len(W)
  <2>1. \A k \in 1 .. n + 1 : new[k] = IF k <= y THEN pos[k] ELSE pos[k] - 1
    OBVIOUS
  <2>2. M1 = (IF y <= n THEN L - 1 ELSE L) /\ (y <= n => L >= 1) /\ M1 \in Nat
    BY <1>8, <1>11, <1>L
  <2> HIDE DEF M1, new
  <2>3. new[1] = 1
    <3>1. 1 \in 1 .. n + 1 /\ 1 <= y
      BY <1>5
    <3> QED BY <1>6, <2>1, <3>1
  <2>4. new[n + 1] = M1 + 1
    <3>1. n + 1 \in 1 .. n + 1 /\ (n + 1 <= y <=> ~(y <= n))
      BY <1>5
    <3>2. new[n + 1] = IF n + 1 <= y THEN L + 1 ELSE (L + 1) - 1
      BY <1>6, <2>1, <3>1
    <3> QED BY <1>L, <2>2, <3>1, <3>2
  <2>5. ASSUME NEW k \in 1 .. n + 1 PROVE new[k] \in 1 .. M1 + 1
    <3> DEFINE a == pos[k]
    <3>1. a \in 1 .. L + 1 /\ (new[k] = IF k <= y THEN a ELSE a - 1)
      BY <1>6, <2>1
    <3>2. a <= q \/ y <= k
      BY <1>5, <1>7 DEF q
    <3>3. k <= y => a <= q
      BY <1>7 DEF q
    <3>4. ~(k <= y) => a # 1 /\ y <= n
      <4> SUFFICES ASSUME ~(k <= y) PROVE a # 1 /\ y <= n
        OBVIOUS
      <4> DEFINE m == k - 1
                 l == Len(seqs[m])
                 b == pos[m]
      <4>1. m \in 1 .. n /\ m + 1 = k /\ m \in 1 .. n + 1 /\ y <= n
        BY <1>5
      <4> HIDE DEF m
      <4>2. pos[m + 1] = b + l /\ l \in {1, 2} /\ b \in 1 .. L + 1
        BY <1>6, <1>l, <4>1
      <4> HIDE DEF l, b
      <4>3. a = b + l
        BY <4>1, <4>2
      <4> HIDE DEF a
      <4> QED BY <4>1, <4>2, <4>3
    <3> HIDE DEF a
    <3>5. q \in 1 .. L + 1 /\ (q <= L <=> y <= n)
      BY <1>8
    <3> QED BY <1>L, <2>2, <3>1, <3>3, <3>4, <3>5
  <2>6. ASSUME NEW k \in 1 .. n
        PROVE  /\ Len(kept[k]) \in Nat /\ new[k + 1] = new[k] + Len(kept[k])
               /\ \A j \in 1 .. Len(kept[k]) : W[new[k] + j - 1] = kept[k][j]
    <3> DEFINE a == pos[k]
               z == pos[k + 1]
               l == Len(seqs[k])
    <3>1. k \in 1 .. n + 1 /\ k + 1 \in 1 .. n + 1
      BY <1>5
    <3>2. /\ a \in 1 .. L + 1 /\ z \in 1 .. L + 1 /\ z = a + l /\ l \in {1, 2}
          /\ k = y => l = 1
          /\ \A j \in 1 .. l : args[a + j - 1] = seqs[k][j]
      BY <1>6, <1>l, <3>1
    <3>3. /\ new[k] = IF k <= y THEN a ELSE a - 1
          /\ new[k + 1] = IF k + 1 <= y THEN z ELSE z - 1
      BY <2>1, <3>1
    <3>4. kept[k] = IF k = y THEN << >> ELSE seqs[k]
      BY <1>5
    <3>5. (k < y => z <= q) /\ (y < k => pos[y + 1] <= a)
      <4>1. k < y => k + 1 <= y
        BY <1>5
      <4>2. y < k => y + 1 <= k /\ y + 1 \in 1 .. n + 1
        BY <1>5
      <4> QED BY <1>7, <3>1, <4>1, <4>2 DEF q
    <3>6. y < k => pos[y + 1] = q + 1
      <4>1. y < k => y \in 1 .. n
        BY <1>5
      <4> QED BY <1>6, <1>l, <4>1 DEF q
    <3> HIDE DEF a, z
    <3>7. CASE k = y
      <4>1. kept[k] = << >>
        BY <3>4, <3>7
      <4>2. Len(kept[k]) = 0
        BY <4>1
      <4>3. new[k + 1] = new[k] + 0
        <5> HIDE DEF l
        <5> QED BY <1>5, <3>2, <3>3, <3>7
      <4> QED BY <4>2, <4>3
    <3>8. CASE k < y
      <4>1. kept[k] = seqs[k] /\ new[k] = a
        BY <1>5, <3>3, <3>4, <3>8
      <4>2. Len(kept[k]) = l
        BY <4>1
      <4> HIDE DEF l
      <4>3. new[k + 1] = a + l /\ l \in Nat
        BY <1>5, <3>2, <3>3, <3>8
      <4>4. ASSUME NEW j \in 1 .. l PROVE W[a + j - 1] = seqs[k][j]
        <5>1. a + j - 1 \in 1 .. L /\ a + j - 1 < q
          BY <1>8, <1>L, <3>2, <3>5, <3>8
        <5> QED BY <1>11, <3>2, <5>1
      <4> QED BY <4>1, <4>2, <4>3, <4>4
    <3>9. CASE y < k
      <4>1. kept[k] = seqs[k] /\ new[k] = a - 1
        BY <1>5, <3>3, <3>4, <3>9
      <4>2. Len(kept[k]) = l
        BY <4>1
      <4> HIDE DEF l
      <4>3. new[k + 1] = (a - 1) + l /\ l \in Nat
        BY <1>5, <3>2, <3>3, <3>9
      <4>4. ASSUME NEW j \in 1 .. l PROVE W[(a - 1) + j - 1] = seqs[k][j]
        <5> DEFINE x == a + j - 1
        <5>1. x \in 1 .. L /\ x > q /\ x - 1 = (a - 1) + j - 1
          BY <1>8, <1>L, <3>2, <3>5, <3>6, <3>9
        <5>2. W[x - 1] = args[x] /\ args[x] = seqs[k][j]
          BY <1>11, <3>2, <5>1
        <5> HIDE DEF x
        <5> QED BY <5>1, <5>2
      <4> QED BY <4>1, <4>2, <4>3, <4>4
    <3> QED BY <1>5, <3>7, <3>8, <3>9
  <2> QED BY <1>5, <2>2, <2>3, <2>4, <2>5, <2>6 DEF LaidOut, M1, new
<1> QED BY <1>10, <1>12 DEF P, W, kept, n

\* What flag.Parse makes of one flag, from what it makes of the arguments
\* behind it.
ArgumentValue(args, i) ==
  IF args[i].value # Empty THEN args[i].value
  ELSE IF args[i].flag \in Switches THEN "true"
  ELSE IF IsFlag(args[i + 1]) THEN "-" ELSE args[i + 1].value

NextFlag(args, i) ==
  IF args[i].flag \in Valued /\ args[i].value = Empty THEN i + 2 ELSE i + 1

FlagOf(args, i) == [flag |-> args[i].flag, value |-> ArgumentValue(args, i)]

ParseStep(args, i, f) ==
  IF i > Len(args) THEN << >>
  ELSE IF ~IsFlag(args[i]) THEN << >>
  ELSE <<FlagOf(args, i)>> \o f[NextFlag(args, i)]

SetBy(set) ==
  [k \in {s.flag : s \in ToSet(set)} |-> set[Max({i \in DOMAIN set : set[i].flag = k})].value]

LEMMA NextFlagIs ==
  ASSUME NEW args, NEW i \in Nat
  PROVE  NextFlag(args, i) \in {i + 1, i + 2}
BY DEF NextFlag

\* flag.Parse is defined everywhere, and step by step.
LEMMA ParseUnrolls ==
  ASSUME NEW args, Len(args) \in Nat
  PROVE  \E from : /\ Parse(args) = SetBy(from[1])
                   /\ \A i \in 1 .. Len(args) + 2 : from[i] = ParseStep(args, i, from)
<1> DEFINE N    == Len(args) + 2
           V    == Seq({FlagOf(args, i) : i \in 1 .. Len(args)})
           step(i, f) == IF i = 0 THEN << >> ELSE ParseStep(args, i, f)
           h    == [i \in 0 .. N |-> [f \in [0 .. N -> V] |-> step(i, f)]]
           P(p) == p = [i \in 1 .. N |-> ParseStep(args, i, p)]
           none == << >>
           from == CHOOSE p : P(p)
<1>1. N \in Nat /\ Len(args) \in Nat /\ Len(args) + 2 = N
  OBVIOUS
<1>2. none \in V
  OBVIOUS
<1>3. \A i \in 1 .. N : ~(i > Len(args)) => NextFlag(args, i) \in 0 .. N /\ NextFlag(args, i) \in 1 .. N
                                            /\ i < NextFlag(args, i)
  <2> SUFFICES ASSUME NEW i \in 1 .. N, ~(i > Len(args))
               PROVE  NextFlag(args, i) \in 0 .. N /\ NextFlag(args, i) \in 1 .. N
                      /\ i < NextFlag(args, i)
    OBVIOUS
  <2>1. i \in Nat
    OBVIOUS
  <2>2. NextFlag(args, i) \in {i + 1, i + 2}
    BY <2>1, NextFlagIs
  <2> HIDE DEF N
  <2> QED BY <1>1, <2>2
<1>4. ASSUME NEW i \in 0 .. N, NEW f \in [0 .. N -> V] PROVE step(i, f) \in V
  <2>1. CASE i = 0 \/ i > Len(args) \/ ~IsFlag(args[i])
    BY <1>2, <2>1 DEF ParseStep
  <2>2. CASE ~(i = 0) /\ ~(i > Len(args)) /\ IsFlag(args[i])
    <3>1. i \in 1 .. N /\ i \in 1 .. Len(args)
      BY <1>1, <2>2
    <3>2. f[NextFlag(args, i)] \in V
      BY <1>3, <2>2, <3>1
    <3>3. <<FlagOf(args, i)>> \in V
      BY <3>1
    <3>4. <<FlagOf(args, i)>> \o f[NextFlag(args, i)] \in V
      BY <3>2, <3>3, ConcatProperties
    <3>5. step(i, f) = <<FlagOf(args, i)>> \o f[NextFlag(args, i)]
      BY <2>2 DEF ParseStep
    <3> QED BY <3>4, <3>5
  <2> QED BY <2>1, <2>2
<1>5. h \in [0 .. N -> [[0 .. N -> V] -> V]]
  <2> HIDE DEF N, V, step
  <2> QED BY <1>4
<1>6. ASSUME NEW i \in 0 .. N, NEW e \in [0 .. N -> V], NEW f \in [0 .. N -> V],
             \A x \in 0 .. N : i < x => e[x] = f[x]
      PROVE  h[i][e] = h[i][f]
  <2>1. step(i, e) = step(i, f)
    <3>1. CASE i = 0 \/ i > Len(args)
      BY <3>1 DEF ParseStep
    <3>2. CASE ~(i = 0) /\ ~(i > Len(args))
      <4>1. i \in 1 .. N
        BY <1>1, <3>2
      <4>2. e[NextFlag(args, i)] = f[NextFlag(args, i)]
        BY <1>3, <1>6, <3>2, <4>1
      <4> QED BY <4>2 DEF ParseStep
    <3> QED BY <3>1, <3>2
  <2> HIDE DEF N, V, step
  <2> QED BY <2>1
<1>7. PICK f \in [0 .. N -> V] : \A i \in 0 .. N : f[i] = h[i][f]
  <2>1. \A i \in 0 .. N : \A e, f \in [0 .. N -> V] :
            (\A x \in 0 .. N : i < x => e[x] = f[x]) => h[i][e] = h[i][f]
    BY <1>6
  <2> HIDE DEF N, V, h, none, step
  <2>2. StepsDownwards(N, V, h)
    BY <1>5, <2>1 DEF StepsDownwards
  <2>3. \E f : Settles(f, N, V, h)
    BY <1>1, <1>2, <2>2, Downwards
  <2> QED BY <2>3 DEF Settles
<1>8. P([i \in 1 .. N |-> f[i]])
  <2> DEFINE w == [i \in 1 .. N |-> f[i]]
  <2>1. ASSUME NEW i \in 1 .. N PROVE f[i] = ParseStep(args, i, w)
    <3>1. i \in 0 .. N /\ i # 0
      BY <1>1
    <3>2. f[i] = ParseStep(args, i, f)
      <4>1. h[i][f] = step(i, f)
        <5> HIDE DEF N, V, step
        <5> QED BY <3>1
      <4> HIDE DEF N, V, h
      <4> QED BY <1>7, <3>1, <4>1
    <3>3. ~(i > Len(args)) => w[NextFlag(args, i)] = f[NextFlag(args, i)]
      <4>1. \A x \in 1 .. N : w[x] = f[x]
        OBVIOUS
      <4> HIDE DEF w, N
      <4> QED BY <1>3, <4>1
    <3> HIDE DEF w
    <3> QED BY <3>2, <3>3 DEF ParseStep
  <2> HIDE DEF N
  <2> QED BY <2>1
<1>9. P(from)
  <2> HIDE DEF P
  <2> QED BY <1>8
<1>10. Parse(args) = SetBy(from[1])
  BY DEF Parse, SetBy, ParseStep, FlagOf, NextFlag, ArgumentValue
<1> HIDE DEF from
<1>11. \A i \in 1 .. N : from[i] = ParseStep(args, i, from)
  <2> HIDE DEF N
  <2> QED BY <1>9
<1> QED BY <1>10, <1>11

\* The flags of the items, as flag.Parse hands them on, and which of them count.
FlagsOf(items, D) == {[flag |-> items[j].key, value |-> items[j].value] : j \in D}
Given(items) == {j \in 1 .. Len(items) : /\ j \notin FoundAt(items)
                                         /\ \A m \in MissedAt(items) : j < m}

\* The function from flags to values that the items D make.
Sets(set, items, D) ==
  /\ DOMAIN set = {items[j].key : j \in D}
  /\ \A j \in D : set[items[j].key] = items[j].value

LEMMA SetIs ==
  ASSUME NEW S, NEW s \in Seq(S), NEW items, ConfigItemsOf(items),
         NEW D, D \subseteq 1 .. Len(items), ToSet(s) = FlagsOf(items, D)
  PROVE  Sets(SetBy(s), items, D)
<1>1. \A a, b \in 1 .. Len(items) : items[a].key = items[b].key => a = b
  BY DEF ConfigItemsOf
<1>2. ToSet(s) = {s[i] : i \in DOMAIN s}
  BY DEF ToSet
<1>3. {x.flag : x \in ToSet(s)} = {items[j].key : j \in D}
  <2>1. ASSUME NEW j \in D PROVE items[j].key \in {x.flag : x \in ToSet(s)}
    <3>1. [flag |-> items[j].key, value |-> items[j].value] \in ToSet(s)
      BY DEF FlagsOf
    <3> QED BY <3>1
  <2>2. ASSUME NEW x \in ToSet(s) PROVE x.flag \in {items[j].key : j \in D}
    <3>1. PICK j \in D : x = [flag |-> items[j].key, value |-> items[j].value]
      BY DEF FlagsOf
    <3> QED BY <3>1
  <2> QED BY <2>1, <2>2
<1>4. ASSUME NEW j \in D PROVE SetBy(s)[items[j].key] = items[j].value
  <2> DEFINE key == items[j].key
             K   == {i \in DOMAIN s : s[i].flag = key}
  <2>1. [flag |-> key, value |-> items[j].value] \in ToSet(s)
    BY DEF FlagsOf
  <2>2. K \subseteq 0 .. Len(s) /\ Len(s) \in Nat
    OBVIOUS
  <2>3. PICK i \in K : TRUE
    BY <1>2, <2>1
  <2>4. PICK m \in K : \A x \in K : x <= m
    <3> HIDE DEF K
    <3> QED BY <2>2, <2>3, GreatestOf
  <2>5. Max(K) \in K
    <3>1. m \in K /\ \A x \in K : m >= x
      BY <2>2, <2>4
    <3> HIDE DEF K
    <3> QED BY <3>1 DEF Max
  <2>6. s[Max(K)] \in ToSet(s) /\ s[Max(K)].flag = key
    BY <1>2, <2>5
  <2> HIDE DEF K
  <2>7. PICK d \in D : s[Max(K)] = [flag |-> items[d].key, value |-> items[d].value]
    BY <2>6 DEF FlagsOf
  <2>8. d = j
    BY <1>1, <2>6, <2>7
  <2>9. s[Max(K)].value = items[j].value
    BY <2>7, <2>8
  <2>10. key \in {x.flag : x \in ToSet(s)}
    BY <1>3
  <2> HIDE DEF key
  <2>11. SetBy(s)[key] = s[Max({x \in DOMAIN s : s[x].flag = key})].value
    BY <2>10 DEF SetBy
  <2> QED BY <2>9, <2>11 DEF K, key
<1>5. DOMAIN SetBy(s) = {x.flag : x \in ToSet(s)}
  BY DEF SetBy
<1> QED BY <1>3, <1>4, <1>5 DEF Sets

LEMMA AheadOfAll ==
  ASSUME NEW S, NEW x \in S, NEW s \in Seq(S)
  PROVE  /\ << x >> \o s \in Seq(S)
         /\ ToSet(<< x >> \o s) = {x} \cup ToSet(s)
<1> DEFINE t == << x >> \o s
           n == Len(s)
<1>1. t \in Seq(S) /\ n \in Nat /\ DOMAIN t = 1 .. n + 1 /\ DOMAIN s = 1 .. n
  OBVIOUS
<1>2. t[1] = x /\ \A i \in 1 .. n : t[i + 1] = s[i]
  OBVIOUS
<1> HIDE DEF t, n
<1>3. \A i \in 1 .. n + 1 : i = 1 \/ (i - 1 \in 1 .. n /\ (i - 1) + 1 = i)
  BY <1>1
<1>4. 1 \in 1 .. n + 1 /\ \A i \in 1 .. n : i + 1 \in 1 .. n + 1
  BY <1>1
<1>5. {t[i] : i \in 1 .. n + 1} = {x} \cup {s[i] : i \in 1 .. n}
  <2>1. ASSUME NEW i \in 1 .. n + 1 PROVE t[i] \in {x} \cup {s[j] : j \in 1 .. n}
    <3>1. CASE i = 1
      BY <1>2, <3>1
    <3>2. CASE i - 1 \in 1 .. n /\ (i - 1) + 1 = i
      <4>1. t[(i - 1) + 1] = s[i - 1]
        BY <1>2, <3>2
      <4> QED BY <3>2, <4>1
    <3> QED BY <1>3, <3>1, <3>2
  <2>2. x \in {t[i] : i \in 1 .. n + 1}
    BY <1>2, <1>4
  <2>3. ASSUME NEW i \in 1 .. n PROVE s[i] \in {t[j] : j \in 1 .. n + 1}
    BY <1>2, <1>4
  <2> QED BY <2>1, <2>2, <2>3
<1>6. ToSet(t) = {t[i] : i \in DOMAIN t} /\ ToSet(s) = {s[i] : i \in DOMAIN s}
  BY DEF ToSet
<1>7. ToSet(t) = {x} \cup ToSet(s)
  BY <1>1, <1>5, <1>6
<1> QED BY <1>1, <1>7 DEF t

\* At the flag of an item: its value, and where the next item stands.
LEMMA FlagRead ==
  ASSUME NEW i, ConfigItem(i), i.key # "yaml", NEW args, NEW at \in Nat,
         NEW a, Shaped(i, a), args[at] = a[1], Len(a) = 2 => args[at + 1] = a[2]
  PROVE  /\ IsFlag(args[at])
         /\ FlagOf(args, at) = [flag |-> i.key, value |-> i.value]
         /\ NextFlag(args, at) = at + Len(a)
<1>1. args[at].flag = i.key /\ i.key # Empty /\ i.value # Empty /\ Len(a) \in {1, 2}
  BY DEF Shaped, ConfigItem
<1>2. CASE Len(a) = 2
  <2>1. i.key \in Valued /\ i.key \notin Switches
    BY <1>2, KeysDiffer DEF Shaped
  <2>2. /\ args[at].value = Empty /\ ~IsFlag(args[at + 1])
        /\ args[at + 1].value = i.value
    BY <1>2 DEF Shaped, IsFlag
  <2>3. ArgumentValue(args, at) = i.value /\ NextFlag(args, at) = at + 2
    BY <1>1, <2>1, <2>2 DEF ArgumentValue, NextFlag
  <2> QED BY <1>1, <1>2, <2>3 DEF IsFlag, FlagOf
<1>3. CASE Len(a) = 1 /\ ~i.split
  <2>1. args[at].value = i.value
    BY <1>3 DEF Shaped
  <2>2. ArgumentValue(args, at) = i.value /\ NextFlag(args, at) = at + 1
    BY <1>1, <2>1 DEF ArgumentValue, NextFlag
  <2> QED BY <1>1, <1>3, <2>2 DEF IsFlag, FlagOf
<1>4. CASE Len(a) = 1 /\ i.split
  <2>1. i.key \notin Valued
    BY <1>4 DEF Shaped
  <2>2. i.key \in Switches /\ i.value = "true"
    BY <1>4, <2>1 DEF ConfigItem
  <2>3. args[at].value = Empty
    BY <1>4 DEF Shaped
  <2>4. ArgumentValue(args, at) = i.value /\ NextFlag(args, at) = at + 1
    BY <1>1, <2>1, <2>2, <2>3 DEF ArgumentValue, NextFlag
  <2> QED BY <1>1, <1>4, <2>4 DEF IsFlag, FlagOf
<1>5. i.split \in BOOLEAN
  BY DEF ConfigItem
<1> QED BY <1>1, <1>2, <1>3, <1>4, <1>5

\* flag.Parse reads the flags of the items in front of a file that was missed.
LEMMA ItemsParsed ==
  ASSUME NEW items, ConfigItemsOf(items), NEW args, NEW pos,
         LaidOut(args, KeptPieces(items), pos, Len(items))
  PROVE  Sets(Parse(args), items, Given(items))
<1> DEFINE n    == Len(items)
           kept == KeptPieces(items)
           L    == Len(args)
           R    == FlagsOf(items, 1 .. n)
<1>1. /\ n \in Nat /\ DOMAIN items = 1 .. n
      /\ \A k \in 1 .. n : ConfigItem(items[k])
      /\ \A j, k \in 1 .. n : items[j].key = items[k].key => j = k
  BY DEF ConfigItemsOf
<1>2. \A k \in 1 .. n : Shaped(items[k], ItemArguments(items[k]))
  BY <1>1, ItemShape
<1>3. \A k \in 1 .. n :
        kept[k] = IF k \in FoundAt(items) THEN << >> ELSE ItemArguments(items[k])
  BY <1>1 DEF KeptPieces
<1>4. \A k \in 1 .. n :
        /\ k \in FoundAt(items) <=>
             items[k].key = "yaml" /\ (k = 1 \/ Len(ItemArguments(items[k - 1])) = 2)
        /\ k \in MissedAt(items) <=>
             items[k].key = "yaml" /\ k # 1 /\ Len(ItemArguments(items[k - 1])) = 1
  BY DEF FoundAt, MissedAt
<1>5. MissedAt(items) \subseteq 1 .. n /\ \A k \in MissedAt(items) : items[k].key = "yaml"
  BY DEF MissedAt
<1>p. LaidOut(args, kept, pos, n)
  OBVIOUS
<1> HIDE DEF n, kept
<1>6. PICK e \in 1 .. n + 1 : MissedAt(items) = IF e <= n THEN {e} ELSE {}
  <2>1. CASE MissedAt(items) = {}
    <3>1. n + 1 \in 1 .. n + 1 /\ ~(n + 1 <= n)
      BY <1>1
    <3> QED BY <2>1, <3>1
  <2>2. CASE MissedAt(items) # {}
    <3>1. PICK y \in MissedAt(items) : TRUE
      BY <2>2
    <3>2. MissedAt(items) = {y}
      BY <1>1, <1>5, <3>1
    <3>3. y \in 1 .. n + 1 /\ y <= n
      BY <1>1, <1>5, <3>1
    <3> QED BY <3>2, <3>3
  <2> QED BY <2>1, <2>2
<1>7. ASSUME NEW k \in 1 .. n, k \notin FoundAt(items), k # e PROVE items[k].key # "yaml"
  <2>1. k \notin MissedAt(items)
    BY <1>6, <1>7
  <2>2. k # 1 => Len(ItemArguments(items[k - 1])) \in {1, 2}
    <3>1. k # 1 => k - 1 \in 1 .. n
      BY <1>1
    <3> QED BY <1>2, <3>1 DEF Shaped
  <2> QED BY <1>4, <1>7, <2>1, <2>2
<1>8. /\ L \in Nat /\ pos[1] = 1 /\ pos[n + 1] = L + 1
      /\ \A k \in 1 .. n + 1 : pos[k] \in 1 .. L + 1
      /\ \A k \in 1 .. n : /\ pos[k + 1] = pos[k] + Len(kept[k])
                           /\ \A j \in 1 .. Len(kept[k]) : args[pos[k] + j - 1] = kept[k][j]
  BY <1>p DEF LaidOut
<1>9. PICK from : /\ Parse(args) = SetBy(from[1])
                  /\ \A i \in 1 .. L + 2 : from[i] = ParseStep(args, i, from)
  <2>1. Len(args) \in Nat
    BY <1>8
  <2> QED BY <2>1, ParseUnrolls
\* What stands at an item that is an argument.
<1>10. ASSUME NEW k \in 1 .. n, k \notin FoundAt(items)
       PROVE  LET a == ItemArguments(items[k])
              IN  /\ Len(a) \in {1, 2} /\ pos[k] \in 1 .. L /\ pos[k + 1] = pos[k] + Len(a)
                  /\ args[pos[k]] = a[1]
                  /\ Len(a) = 2 => args[pos[k] + 1] = a[2]
  <2> DEFINE a == ItemArguments(items[k])
             l == Len(a)
             p == pos[k]
             z == pos[k + 1]
  <2>1. l \in {1, 2}
    BY <1>2 DEF Shaped
  <2>2. kept[k] = a
    BY <1>3, <1>10
  <2>3. k \in 1 .. n + 1 /\ k + 1 \in 1 .. n + 1
    BY <1>1
  <2>4. /\ z = p + l /\ p \in 1 .. L + 1 /\ z \in 1 .. L + 1
        /\ \A j \in 1 .. l : args[p + j - 1] = a[j]
    BY <1>8, <2>2, <2>3
  <2> HIDE DEF l, p, z, a
  <2>5. args[p + 1 - 1] = a[1] /\ (l = 2 => args[p + 2 - 1] = a[2])
    <3>1. 1 \in 1 .. l /\ (l = 2 => 2 \in 1 .. l)
      BY <2>1
    <3> QED BY <2>4, <3>1
  <2>6. p + 1 - 1 = p /\ p + 2 - 1 = p + 1 /\ p \in 1 .. L
    BY <1>8, <2>1, <2>4
  <2> QED BY <2>1, <2>4, <2>5, <2>6 DEF a, l, p, z
<1> DEFINE Ahead(k) == {j \in k .. e - 1 : j \notin FoundAt(items)}
           Right(k) == from[pos[k]] \in Seq(R) /\ ToSet(from[pos[k]]) = FlagsOf(items, Ahead(k))
<1>11. Right(e)
  <2>1. pos[e] \in 1 .. L + 2 /\ pos[e] \in 1 .. L + 1
    BY <1>8
  <2>2. from[pos[e]] = << >>
    <3>1. CASE e <= n
      <4>1. e \in 1 .. n /\ e \in MissedAt(items)
        BY <1>6, <3>1
      <4>2. e \notin FoundAt(items) /\ items[e].key = "yaml"
        <5>1. items[e].key = "yaml" /\ e # 1 /\ Len(ItemArguments(items[e - 1])) = 1
          BY <1>4, <4>1
        <5>2. e \in FoundAt(items) => e = 1 \/ Len(ItemArguments(items[e - 1])) = 2
          BY <1>4, <4>1
        <5> QED BY <5>1, <5>2
      <4>3. args[pos[e]].flag = Empty
        <5>1. args[pos[e]] = ItemArguments(items[e])[1]
          BY <1>10, <4>1, <4>2
        <5>2. Shaped(items[e], ItemArguments(items[e]))
          BY <1>2, <4>1
        <5> QED BY <4>2, <5>1, <5>2 DEF Shaped
      <4> QED BY <1>9, <2>1, <4>3 DEF ParseStep, IsFlag
    <3>2. CASE ~(e <= n)
      <4>1. e = n + 1
        BY <1>1, <3>2
      <4>2. pos[e] > L
        BY <1>8, <4>1
      <4> QED BY <1>9, <2>1, <4>2 DEF ParseStep
    <3> QED BY <3>1, <3>2
  <2>3. Ahead(e) = {}
    <3>1. e .. e - 1 = {}
      BY <1>1
    <3> QED BY <3>1
  <2>4. FlagsOf(items, Ahead(e)) = {}
    <3> HIDE DEF Ahead
    <3> QED BY <2>3 DEF FlagsOf
  <2>5. << >> \in Seq(R) /\ ToSet(<< >>) = {}
    <3> HIDE DEF R
    <3> QED BY DEF ToSet
  <2> HIDE DEF Ahead, R
  <2> QED BY <2>2, <2>4, <2>5
<1>12. ASSUME NEW k \in 1 .. n, k < e, Right(k + 1) PROVE Right(k)
  <2>1. k \in 1 .. n + 1 /\ pos[k] \in 1 .. L + 2
    <3>1. k \in 1 .. n + 1
      BY <1>1
    <3> QED BY <1>8, <3>1
  <2>2. CASE k \in FoundAt(items)
    <3>1. kept[k] = << >>
      BY <1>3, <2>2
    <3>2. pos[k + 1] = pos[k] + 0
      BY <1>8, <3>1
    <3>3. pos[k + 1] = pos[k]
      BY <2>1, <3>2
    <3>4. Ahead(k) = Ahead(k + 1)
      BY <1>1, <2>2
    <3> HIDE DEF Ahead, R
    <3> QED BY <1>12, <3>3, <3>4
  <2>3. CASE k \notin FoundAt(items)
    <3> DEFINE a == ItemArguments(items[k])
               f == [flag |-> items[k].key, value |-> items[k].value]
    <3>1. items[k].key # "yaml"
      BY <1>7, <1>12, <2>3
    <3>2. /\ pos[k] \in 1 .. L /\ pos[k + 1] = pos[k] + Len(a)
          /\ args[pos[k]] = a[1] /\ (Len(a) = 2 => args[pos[k] + 1] = a[2])
      BY <1>10, <2>3
    <3>3. ConfigItem(items[k]) /\ Shaped(items[k], a) /\ pos[k] \in Nat
      BY <1>1, <1>2, <3>2
    <3>4. IsFlag(args[pos[k]]) /\ FlagOf(args, pos[k]) = f /\ NextFlag(args, pos[k]) = pos[k + 1]
      <4> DEFINE i  == items[k]
                 at == pos[k]
      <4>1. /\ ConfigItem(i) /\ i.key # "yaml" /\ at \in Nat /\ Shaped(i, a)
            /\ args[at] = a[1] /\ (Len(a) = 2 => args[at + 1] = a[2])
        BY <3>1, <3>2, <3>3
      <4>2. f = [flag |-> i.key, value |-> i.value]
        OBVIOUS
      <4> HIDE DEF a, i, at, f
      <4>3. /\ IsFlag(args[at]) /\ FlagOf(args, at) = [flag |-> i.key, value |-> i.value]
            /\ NextFlag(args, at) = at + Len(a)
        BY <4>1, FlagRead
      <4> QED BY <3>2, <4>2, <4>3 DEF at
    <3>5. from[pos[k]] = << f >> \o from[pos[k + 1]]
      <4>1. ~(pos[k] > L)
        BY <1>8, <3>2
      <4> HIDE DEF f, a
      <4> QED BY <1>9, <2>1, <3>4, <4>1 DEF ParseStep
    <3>6. f \in R
      BY DEF FlagsOf
    <3>7. Ahead(k) = {k} \cup Ahead(k + 1)
      BY <1>1, <1>12, <2>3
    <3>8. FlagsOf(items, Ahead(k)) = {f} \cup FlagsOf(items, Ahead(k + 1))
      <4> HIDE DEF Ahead
      <4> QED BY <3>7 DEF FlagsOf
    <3> HIDE DEF Ahead, R, f
    <3>9. /\ << f >> \o from[pos[k + 1]] \in Seq(R)
          /\ ToSet(<< f >> \o from[pos[k + 1]]) = {f} \cup ToSet(from[pos[k + 1]])
      BY <1>12, <3>6, AheadOfAll
    <3> QED BY <1>12, <3>5, <3>8, <3>9
  <2> QED BY <2>2, <2>3
<1> HIDE DEF Right
<1> DEFINE Good == {d \in Nat : d < e => Right(e - d)}
<1>13. 0 \in Good
  <2>1. e - 0 = e
    BY <1>1
  <2> QED BY <1>11, <2>1
<1>14. ASSUME NEW d \in Nat, d \in Good PROVE d + 1 \in Good
  <2> SUFFICES ASSUME d + 1 < e PROVE Right(e - (d + 1))
    OBVIOUS
  <2>1. e - (d + 1) \in 1 .. n /\ e - (d + 1) < e /\ (e - (d + 1)) + 1 = e - d /\ d < e
    BY <1>1
  <2>2. Right((e - (d + 1)) + 1)
    BY <1>14, <2>1
  <2> QED BY <1>12, <2>1, <2>2
<1> HIDE DEF Good
<1>15. \A d \in Nat : d \in Good
  BY <1>13, <1>14, SetInduction
<1>16. Right(1)
  <2>1. e - 1 \in Nat /\ e - 1 < e /\ e - (e - 1) = 1
    BY <1>1
  <2>2. e - 1 \in Good
    BY <1>15, <2>1
  <2>3. e - 1 < e => Right(e - (e - 1))
    BY <2>2 DEF Good
  <2> QED BY <2>1, <2>3
<1>17. Ahead(1) = Given(items)
  <2>1. \A j \in 1 .. n : j <= e - 1 <=> (\A m \in MissedAt(items) : j < m)
    <3> SUFFICES ASSUME NEW j \in 1 .. n
                 PROVE  j <= e - 1 <=> (\A m \in MissedAt(items) : j < m)
      OBVIOUS
    <3>1. CASE e <= n
      <4>1. MissedAt(items) = {e}
        BY <1>6, <3>1
      <4>2. (j <= e - 1) <=> (j < e)
        BY <1>1
      <4> QED BY <4>1, <4>2
    <3>2. CASE ~(e <= n)
      <4>1. MissedAt(items) = {}
        BY <1>6, <3>2
      <4>2. j <= e - 1
        BY <1>1, <3>2
      <4> QED BY <4>1, <4>2
    <3> QED BY <3>1, <3>2
  <2>2. \A j : j \in 1 .. e - 1 <=> j \in 1 .. n /\ j <= e - 1
    BY <1>1
  <2>3. \A j : j \in Given(items) <=> /\ j \in 1 .. n /\ j \notin FoundAt(items)
                                     /\ \A m \in MissedAt(items) : j < m
    BY DEF Given, n
  <2>4. \A j : j \in Ahead(1) <=> j \in 1 .. e - 1 /\ j \notin FoundAt(items)
    OBVIOUS
  <2> HIDE DEF Ahead
  <2>5. \A j : j \in Ahead(1) <=> j \in Given(items)
    BY <2>1, <2>2, <2>3, <2>4
  <2> QED BY <2>5
<1>18. from[1] \in Seq(R) /\ ToSet(from[1]) = FlagsOf(items, Given(items))
  <2> HIDE DEF Ahead, R
  <2> QED BY <1>8, <1>16, <1>17 DEF Right
<1>19. Given(items) \subseteq 1 .. Len(items)
  BY DEF Given
<1> HIDE DEF R
<1>20. Sets(SetBy(from[1]), items, Given(items))
  BY <1>18, <1>19, SetIs
<1> QED BY <1>9, <1>20

KeysOf(is)      == {is[k].key : k \in DOMAIN is}
FlagIn(is, key) == (CHOOSE i \in ToSet(is) : i.key = key).value

\* What Meant finds in the heeded items is what flag.Parse has found.
HeedsAs(is, set, yaml) ==
  /\ DOMAIN set \subseteq Valued \cup Switches
  /\ \A key \in Valued \cup Switches : key \in KeysOf(is) <=> key \in DOMAIN set
  /\ "yaml" \in KeysOf(is) <=> yaml
  /\ \A key \in DOMAIN set :
       /\ FlagIn(is, key) = set[key] /\ set[key] # Empty
       /\ key \in Switches => set[key] \in {"true", "false"}
       /\ key = "level" => set[key] \in Levels \cup {"loud"}
       /\ key \in {"url", "output"} => set[key] # "negative"

LEMMA HeededFound ==
  ASSUME NEW items, ConfigItemsOf(items), NEW set, Sets(set, items, Given(items))
  PROVE  HeedsAs(Heeded(items), set, FoundAt(items) # {})
<1> DEFINE n  == Len(items)
           is == Heeded(items)
           G  == Given(items)
<1>1. /\ n \in Nat /\ DOMAIN items = 1 .. n
      /\ \A k \in 1 .. n : ConfigItem(items[k])
      /\ \A j, k \in 1 .. n : items[j].key = items[k].key => j = k
  BY DEF ConfigItemsOf
<1>2. \A k \in 1 .. n : Shaped(items[k], ItemArguments(items[k]))
  BY <1>1, ItemShape
<1>4. \A k \in 1 .. n :
        /\ k \in FoundAt(items) <=>
             items[k].key = "yaml" /\ (k = 1 \/ Len(ItemArguments(items[k - 1])) = 2)
        /\ k \in MissedAt(items) <=>
             items[k].key = "yaml" /\ k # 1 /\ Len(ItemArguments(items[k - 1])) = 1
  BY DEF FoundAt, MissedAt
<1>5. /\ MissedAt(items) \subseteq 1 .. n /\ FoundAt(items) \subseteq 1 .. n
      /\ \A k \in MissedAt(items) \cup FoundAt(items) : items[k].key = "yaml"
  BY DEF FoundAt, MissedAt
<1>6. \A k \in 1 .. n : items[k].key = "yaml" => k \in FoundAt(items) \cup MissedAt(items)
  <2> SUFFICES ASSUME NEW k \in 1 .. n, items[k].key = "yaml"
               PROVE  k \in FoundAt(items) \cup MissedAt(items)
    OBVIOUS
  <2>1. k # 1 => Len(ItemArguments(items[k - 1])) \in {1, 2}
    <3>1. k # 1 => k - 1 \in 1 .. n
      BY <1>1
    <3> QED BY <1>2, <3>1 DEF Shaped
  <2> QED BY <1>4, <2>1
<1>7. \A k \in FoundAt(items), m \in MissedAt(items) : FALSE
  <2> SUFFICES ASSUME NEW k \in FoundAt(items), NEW m \in MissedAt(items) PROVE FALSE
    OBVIOUS
  <2>1. k = m /\ k \in 1 .. n
    BY <1>1, <1>5
  <2>2. k \in FoundAt(items) /\ k \in MissedAt(items)
    BY <2>1
  <2>3. k = 1 \/ Len(ItemArguments(items[k - 1])) = 2
    BY <1>4, <2>1, <2>2
  <2>4. k # 1 /\ Len(ItemArguments(items[k - 1])) = 1
    BY <1>4, <2>1, <2>2
  <2> QED BY <2>3, <2>4
<1>8. \A k : k \in G <=> k \in 1 .. n /\ k \notin FoundAt(items) /\ \A m \in MissedAt(items) : k < m
  BY DEF Given
<1>9. /\ DOMAIN set = {items[j].key : j \in G}
      /\ \A j \in G : set[items[j].key] = items[j].value
  BY DEF Sets
\* The heeded items are those in front of the missed file.
<1>10. PICK e \in 1 .. n + 1 : /\ MissedAt(items) = IF e <= n THEN {e} ELSE {}
                               /\ is = IF e <= n THEN SubSeq(items, 1, e - 1) ELSE items
  <2> DEFINE missed == {k \in DOMAIN items : /\ items[k].key = "yaml" /\ k > 1
                                             /\ Len(ItemArguments(items[k - 1])) = 1
                                             /\ items[k - 1].key # "yaml"}
  <2>1. missed = MissedAt(items)
    <3>1. ASSUME NEW k \in 1 .. n PROVE k > 1 <=> k # 1
      BY <1>1
    <3>2. ASSUME NEW k \in 1 .. n, k # 1, items[k].key = "yaml" PROVE items[k - 1].key # "yaml"
      <4>1. k - 1 \in 1 .. n /\ k - 1 # k
        BY <1>1, <3>2
      <4> QED BY <1>1, <3>2, <4>1
    <3> QED BY <1>1, <3>1, <3>2 DEF MissedAt
  <2>2. is = IF missed = {} THEN items
             ELSE SubSeq(items, 1, (CHOOSE k \in missed : \A j \in missed : k <= j) - 1)
    BY DEF Heeded
  <2> HIDE DEF missed, is, n
  <2>3. CASE MissedAt(items) = {}
    <3>1. n + 1 \in 1 .. n + 1 /\ ~(n + 1 <= n)
      BY <1>1
    <3> QED BY <2>1, <2>2, <2>3, <3>1
  <2>4. CASE MissedAt(items) # {}
    <3>1. PICK y \in MissedAt(items) : TRUE
      BY <2>4
    <3>2. MissedAt(items) = {y} /\ y \in 1 .. n
      BY <1>1, <1>5, <3>1
    <3>3. (CHOOSE k \in missed : \A j \in missed : k <= j) = y
      BY <2>1, <3>2
    <3>4. y \in 1 .. n + 1 /\ y <= n
      BY <1>1, <3>2
    <3> QED BY <2>1, <2>2, <2>4, <3>2, <3>3, <3>4
  <2> QED BY <2>3, <2>4
<1>11. DOMAIN is = 1 .. e - 1 /\ \A k \in 1 .. e - 1 : is[k] = items[k] /\ k \in 1 .. n
  <2>1. PICK S : items \in Seq(S)
    BY DEF ConfigItemsOf
  <2>2. CASE e <= n
    <3>1. is = SubSeq(items, 1, e - 1)
      BY <1>10, <2>2
    <3> HIDE DEF is
    <3>2. e - 1 <= n /\ e - 1 \in Nat
      BY <1>1, <2>2
    <3> DEFINE z == e - 1
    <3>3. z \in Nat /\ z <= Len(items) /\ is = SubSeq(items, 1, z)
      BY <3>1, <3>2
    <3> HIDE DEF z
    <3>4. DOMAIN is = 1 .. z /\ \A k \in 1 .. z : is[k] = items[k] /\ k \in 1 .. n
      BY <1>1, <2>1, <3>3
    <3> QED BY <3>4 DEF z
  <2>3. CASE ~(e <= n)
    <3>1. e - 1 = n /\ is = items
      BY <1>1, <1>10, <2>3
    <3> HIDE DEF is, n
    <3> QED BY <1>1, <3>1
  <2> QED BY <2>2, <2>3
<1>12. \A k : k \in G <=> k \in 1 .. e - 1 /\ k \notin FoundAt(items)
  <2> SUFFICES ASSUME NEW k PROVE k \in G <=> k \in 1 .. e - 1 /\ k \notin FoundAt(items)
    OBVIOUS
  <2> HIDE DEF G, n, is
  <2>1. CASE e <= n
    <3>1. MissedAt(items) = {e}
      BY <1>10, <2>1
    <3>2. k \in 1 .. e - 1 <=> k \in 1 .. n /\ k < e
      BY <1>1, <2>1
    <3> QED BY <1>8, <3>1, <3>2
  <2>2. CASE ~(e <= n)
    <3>1. MissedAt(items) = {} /\ e - 1 = n
      BY <1>1, <1>10, <2>2
    <3> QED BY <1>8, <3>1
  <2> QED BY <2>1, <2>2
<1>13. \A k \in FoundAt(items) : k \in 1 .. e - 1
  <2> SUFFICES ASSUME NEW k \in FoundAt(items) PROVE k \in 1 .. e - 1
    OBVIOUS
  <2>1. MissedAt(items) = {}
    BY <1>7
  <2>2. ~(e <= n)
    BY <1>10, <2>1
  <2>3. e - 1 = n
    BY <1>1, <2>2
  <2> QED BY <1>5, <2>3
<1>14. \A k \in 1 .. e - 1 : items[k].key = "yaml" => k \in FoundAt(items)
  <2> SUFFICES ASSUME NEW k \in 1 .. e - 1, items[k].key = "yaml" PROVE k \in FoundAt(items)
    OBVIOUS
  <2>1. k \notin MissedAt(items)
    <3>1. k \in MissedAt(items) => k = e
      BY <1>10
    <3>2. k # e
      BY <1>1
    <3> QED BY <3>1, <3>2
  <2> QED BY <1>6, <1>11, <2>1
<1>15. KeysOf(is) = {items[k].key : k \in 1 .. e - 1}
  BY <1>11 DEF KeysOf
<1>16. \A x : x \in ToSet(is) <=> \E k \in 1 .. e - 1 : x = items[k]
  BY <1>11 DEF ToSet
<1> HIDE DEF n, is, G
<1>17. ASSUME NEW j \in G
       PROVE  /\ items[j].key \in Valued \cup Switches /\ items[j].key \in KeysOf(is)
              /\ FlagIn(is, items[j].key) = items[j].value
              /\ ConfigItem(items[j])
  <2>1. j \in 1 .. e - 1 /\ j \in 1 .. n /\ j \notin FoundAt(items) /\ ConfigItem(items[j])
    BY <1>1, <1>11, <1>12
  <2>2. items[j].key # "yaml"
    BY <1>14, <2>1
  <2>3. items[j].key \in Valued \cup Switches
    BY <2>1, <2>2 DEF ConfigItem
  <2>4. (CHOOSE i \in ToSet(is) : i.key = items[j].key) = items[j]
    <3> DEFINE c == CHOOSE i \in ToSet(is) : i.key = items[j].key
    <3>1. items[j] \in ToSet(is)
      BY <1>16, <2>1
    <3>2. c \in ToSet(is) /\ c.key = items[j].key
      BY <3>1
    <3> HIDE DEF c
    <3>3. PICK k \in 1 .. e - 1 : c = items[k]
      BY <1>16, <3>2
    <3>4. k = j
      BY <1>1, <1>11, <2>1, <3>2, <3>3
    <3>5. c = items[j]
      BY <3>3, <3>4
    <3> QED BY <3>5 DEF c
  <2> QED BY <1>15, <2>1, <2>3, <2>4 DEF FlagIn
<1>18. ASSUME NEW key \in Valued \cup Switches, key \in KeysOf(is) PROVE key \in DOMAIN set
  <2>1. PICK k \in 1 .. e - 1 : key = items[k].key
    BY <1>15, <1>18
  <2>2. key # "yaml"
    BY KeysDiffer
  <2>3. k \notin FoundAt(items)
    BY <1>5, <2>1, <2>2
  <2>4. k \in G
    BY <1>12, <2>3
  <2> QED BY <1>9, <2>1, <2>4
<1>19. "yaml" \in KeysOf(is) <=> FoundAt(items) # {}
  <2>1. ASSUME "yaml" \in KeysOf(is) PROVE FoundAt(items) # {}
    <3>1. PICK k \in 1 .. e - 1 : items[k].key = "yaml"
      BY <1>15, <2>1
    <3> QED BY <1>14, <3>1
  <2>2. ASSUME NEW k \in FoundAt(items) PROVE "yaml" \in KeysOf(is)
    BY <1>5, <1>13, <1>15
  <2> QED BY <2>1, <2>2
<1>20. ASSUME NEW key \in DOMAIN set
       PROVE  /\ key \in Valued \cup Switches /\ key \in KeysOf(is)
              /\ FlagIn(is, key) = set[key] /\ set[key] # Empty
              /\ key \in Switches => set[key] \in {"true", "false"}
              /\ key = "level" => set[key] \in Levels \cup {"loud"}
              /\ key \in {"url", "output"} => set[key] # "negative"
  <2>1. PICK j \in G : key = items[j].key
    BY <1>9
  <2>2. set[key] = items[j].value
    BY <1>9, <2>1
  <2> QED BY <1>17, <2>1, <2>2 DEF ConfigItem
<1>21. HeedsAs(is, set, FoundAt(items) # {})
  BY <1>18, <1>19, <1>20 DEF HeedsAs
<1> QED BY <1>21 DEF is

\* A file as it may be: what it says of a switch is true or false.
ConfigFile(file) ==
  /\ file.text["level"] \in Levels \cup {Empty, "loud"}
  /\ file.text["url"] # "negative" /\ file.text["output"] # "negative"
  /\ \A k \in DOMAIN file.on : file.on[k] \in BOOLEAN

\* What the settings are when the flags are merged over the file.
TextBy(set, yaml, file, key) ==
  IF key \in DOMAIN set THEN set[key]
  ELSE IF key = "level" /\ "verbose" \in DOMAIN set /\ set["verbose"] = "true" THEN "debug"
  ELSE IF yaml /\ file.text[key] # Empty THEN file.text[key]
  ELSE DefaultText[key]

VerboseBy(set, yaml, file) ==
  IF "level" \in DOMAIN set THEN FALSE
  ELSE IF "verbose" \in DOMAIN set THEN set["verbose"] = "true"
  ELSE yaml /\ "verbose" \in DOMAIN file.on /\ file.on["verbose"]

ConfigBy(set, yaml, file) ==
  IF \/ yaml /\ file.text["timeout"] = "unparsable"
     \/ TextBy(set, yaml, file, "url") = Empty
     \/ TextBy(set, yaml, file, "level") = "loud"
  THEN Invalid
  ELSE [text |-> [k \in Valued |-> IF TextBy(set, yaml, file, k) = "negative" THEN "10s"
                                   ELSE TextBy(set, yaml, file, k)],
        on   |-> [k \in Switches |-> k # "verbose" \/ VerboseBy(set, yaml, file)]]

LEMMA MeansBy ==
  ASSUME NEW is, NEW set, NEW yaml \in BOOLEAN, HeedsAs(is, set, yaml), NEW file,
         ConfigFile(file)
  PROVE  Meant(is, file) = ConfigBy(set, yaml, file)
<1> DEFINE given     == KeysOf(is)
           has       == "yaml" \in given
           text(key) == IF key \in given THEN FlagIn(is, key)
                        ELSE IF key = "level" /\ "verbose" \in given
                                /\ FlagIn(is, "verbose") = "true"
                        THEN "debug"
                        ELSE IF has /\ file.text[key] # Empty THEN file.text[key]
                        ELSE DefaultText[key]
           verbose   == IF "level" \in given THEN FALSE
                        ELSE IF "verbose" \in given THEN FlagIn(is, "verbose") = "true"
                        ELSE has /\ "verbose" \in DOMAIN file.on /\ file.on.verbose
           on        == [jpeg |-> TRUE, continuous |-> TRUE, verbose |-> verbose]
<1>1. Meant(is, file) =
        IF \/ has /\ file.text["timeout"] = "unparsable"
           \/ text("url") = Empty
           \/ text("level") = "loud"
        THEN Invalid
        ELSE [text |-> [k \in Valued |-> IF text(k) = "negative" THEN "10s" ELSE text(k)],
              on   |-> on]
  BY DEF Meant, KeysOf, FlagIn
<1>2. /\ \A key \in Valued \cup Switches : key \in given <=> key \in DOMAIN set
      /\ \A key \in DOMAIN set : FlagIn(is, key) = set[key]
      /\ has <=> yaml
  BY DEF HeedsAs
<1>3. "verbose" \in Switches /\ "url" \in Valued /\ "level" \in Valued
  BY DEF Valued, Switches
<1>4. \A key \in Valued : text(key) = TextBy(set, yaml, file, key)
  <2> SUFFICES ASSUME NEW key \in Valued PROVE text(key) = TextBy(set, yaml, file, key)
    OBVIOUS
  <2>1. key \in given <=> key \in DOMAIN set
    BY <1>2
  <2>2. key \in DOMAIN set => FlagIn(is, key) = set[key]
    BY <1>2
  <2>3. /\ "verbose" \in given <=> "verbose" \in DOMAIN set
        /\ "verbose" \in DOMAIN set => FlagIn(is, "verbose") = set["verbose"]
    BY <1>2, <1>3
  <2> HIDE DEF given
  <2> QED BY <1>2, <2>1, <2>2, <2>3 DEF TextBy
<1>5. verbose = VerboseBy(set, yaml, file) /\ verbose \in BOOLEAN
  <2>1. /\ "verbose" \in given <=> "verbose" \in DOMAIN set
        /\ "level" \in given <=> "level" \in DOMAIN set
        /\ "verbose" \in DOMAIN set => FlagIn(is, "verbose") = set["verbose"]
    BY <1>2, <1>3
  <2>2. "verbose" \in DOMAIN file.on => file.on["verbose"] \in BOOLEAN
    BY DEF ConfigFile
  <2>3. file.on.verbose = file.on["verbose"]
    OBVIOUS
  <2> HIDE DEF given
  <2> QED BY <1>2, <2>1, <2>2, <2>3 DEF VerboseBy
<1> HIDE DEF given, text, verbose, has
<1>6. on = [k \in Switches |-> k # "verbose" \/ VerboseBy(set, yaml, file)]
  <2>1. DOMAIN on = {"jpeg", "continuous", "verbose"}
    OBVIOUS
  <2>2. on["jpeg"] = TRUE /\ on["continuous"] = TRUE /\ on["verbose"] = verbose
    OBVIOUS
  <2>3. on = [k \in DOMAIN on |-> on[k]]
    OBVIOUS
  <2> HIDE DEF on
  <2>4. \A k \in Switches : on[k] = (k # "verbose" \/ VerboseBy(set, yaml, file))
    <3> SUFFICES ASSUME NEW k \in Switches
                 PROVE  on[k] = (k # "verbose" \/ VerboseBy(set, yaml, file))
      OBVIOUS
    <3>1. CASE k = "verbose"
      BY <1>5, <2>2, <3>1
    <3>2. CASE k # "verbose"
      <4>1. on[k] = TRUE
        BY <2>2, <3>2 DEF Switches
      <4> QED BY <3>2, <4>1
    <3> QED BY <3>1, <3>2
  <2>5. DOMAIN on = Switches
    BY <2>1 DEF Switches
  <2> QED BY <2>3, <2>4, <2>5
<1> HIDE DEF on
<1> QED BY <1>1, <1>2, <1>3, <1>4, <1>6 DEF ConfigBy

LEMMA ParsedBy ==
  ASSUME NEW set, NEW yaml \in BOOLEAN, NEW is, HeedsAs(is, set, yaml), NEW file,
         ConfigFile(file)
  PROVE  (IF yaml /\ LoadFails(file) THEN Invalid
          ELSE Validate(setDefaults(mergeFlags(IF yaml THEN merge(setDefaults(NoConfig), file)
                                               ELSE setDefaults(NoConfig), set))))
           = ConfigBy(set, yaml, file)
<1> DEFINE loaded  == IF yaml THEN merge(setDefaults(NoConfig), file)
                      ELSE setDefaults(NoConfig)
           flagged == mergeFlags(loaded, set)
           full    == setDefaults(flagged)
           T0(k)   == TextBy(set, yaml, file, k)
           V0      == VerboseBy(set, yaml, file)
<1>1. /\ "verbose" \in Switches /\ "level" \in Valued /\ "url" \in Valued /\ "timeout" \in Valued
      /\ \A k \in Valued : DefaultText[k] # Empty <=> k # "url"
      /\ DefaultText["url"] = Empty /\ DefaultText["level"] = "info"
      /\ DefaultText["timeout"] = "10s" /\ DefaultText["output"] # "negative"
  BY DEF Valued, Switches, DefaultText, Empty
<1>2. /\ \A k \in Valued : setDefaults(NoConfig).text[k] = DefaultText[k]
      /\ \A k \in Switches : setDefaults(NoConfig).on[k] = (k # "verbose")
  BY <1>1 DEF setDefaults, NoConfig
<1>3. /\ \A k \in Valued : loaded.text[k] = IF yaml /\ file.text[k] # Empty THEN file.text[k]
                                             ELSE DefaultText[k]
      /\ \A k \in Switches : loaded.on[k] = IF yaml /\ k \in DOMAIN file.on THEN file.on[k]
                                            ELSE k # "verbose"
  <2>1. CASE yaml
    BY <1>2, <2>1 DEF merge
  <2>2. CASE ~yaml
    BY <1>2, <2>2
  <2> QED BY <2>1, <2>2
<1>4. \A key \in DOMAIN set :
       /\ set[key] # Empty
       /\ key \in Switches => set[key] \in {"true", "false"}
       /\ key = "level" => set[key] \in Levels \cup {"loud"}
       /\ key \in {"url", "output"} => set[key] # "negative"
  BY DEF HeedsAs
<1>h. /\ file.text["level"] \in Levels \cup {Empty, "loud"}
      /\ file.text["url"] # "negative" /\ file.text["output"] # "negative"
      /\ \A k \in DOMAIN file.on : file.on[k] \in BOOLEAN
  BY DEF ConfigFile
<1> HIDE DEF loaded
<1>5. /\ \A k \in Valued : flagged.text[k] = T0(k)
      /\ flagged.on["verbose"] = V0
      /\ \A k \in Switches : flagged.on[k] \in BOOLEAN
  <2>1. ASSUME NEW k \in Valued PROVE flagged.text[k] = T0(k)
    BY <1>3, <1>4 DEF mergeFlags, TextBy
  <2>2. flagged.on["verbose"] = V0
    BY <1>1, <1>3, <1>4, <1>h DEF mergeFlags, VerboseBy
  <2>3. ASSUME NEW k \in Switches PROVE flagged.on[k] \in BOOLEAN
    <3>1. loaded.on[k] \in BOOLEAN
      BY <1>3, <1>h
    <3> QED BY <3>1 DEF mergeFlags
  <2> QED BY <2>1, <2>2, <2>3
<1>6. \A k \in Valued : T0(k) = Empty => k = "url"
  BY <1>1, <1>4 DEF TextBy, Empty
<1>7. T0("level") \in Levels \/ T0("level") = "loud"
  BY <1>1, <1>4, <1>h DEF TextBy, Levels, Empty
<1>8. T0("url") # "negative" /\ T0("output") # "negative" /\ T0("level") # "negative"
  <2>1. T0("level") # "negative"
    BY <1>7 DEF Levels
  <2>2. DefaultText["url"] # "negative"
    BY <1>1 DEF Empty
  <2>3. T0("url") # "negative" /\ T0("output") # "negative"
    BY <1>1, <1>4, <1>h, <2>2 DEF TextBy
  <2> QED BY <2>1, <2>3
<1> HIDE DEF T0, V0, flagged
<1>9. full = [text |-> [k \in Valued |-> T0(k)],
              on   |-> [k \in Switches |-> k # "verbose" \/ V0]]
  <2>1. full = [text |-> [k \in Valued |->
                    IF flagged.text[k] # Empty THEN flagged.text[k]
                    ELSE IF k = "level" /\ flagged.on["verbose"] THEN "debug"
                    ELSE DefaultText[k]],
                on |-> [k \in Switches |-> flagged.on[k] \/ k # "verbose"]]
    BY DEF setDefaults
  <2>2. ASSUME NEW k \in Valued
        PROVE  (IF flagged.text[k] # Empty THEN flagged.text[k]
                ELSE IF k = "level" /\ flagged.on["verbose"] THEN "debug"
                ELSE DefaultText[k]) = T0(k)
    BY <1>1, <1>5, <1>6
  <2>3. ASSUME NEW k \in Switches
        PROVE  (flagged.on[k] \/ k # "verbose") = (k # "verbose" \/ V0)
    <3>1. CASE k = "verbose"
      BY <1>5, <3>1
    <3>2. CASE k # "verbose"
      BY <3>2
    <3> QED BY <3>1, <3>2
  <2> HIDE DEF full
  <2> QED BY <2>1, <2>2, <2>3
<1> DEFINE text == [k \in Valued |-> T0(k)]
           on   == [k \in Switches |-> k # "verbose" \/ V0]
<1>10. Validate(full) = IF T0("url") = Empty \/ T0("level") = "loud" THEN Invalid
                        ELSE [text |-> [k \in Valued |-> IF T0(k) = "negative" THEN "10s"
                                                         ELSE T0(k)],
                              on   |-> on]
  <2>1. full.text = text /\ full.on = on /\ full = [text |-> text, on |-> on]
    BY <1>9
  <2>2. text["url"] = T0("url") /\ text["level"] = T0("level") /\ text["timeout"] = T0("timeout")
    BY <1>1
  <2>3. T0("level") \notin Levels <=> T0("level") = "loud"
    BY <1>7 DEF Levels
  <2> HIDE DEF full, on
  <2>4. CASE T0("url") = Empty \/ T0("level") = "loud"
    BY <2>1, <2>2, <2>3, <2>4 DEF Validate
  <2>5. CASE ~(T0("url") = Empty \/ T0("level") = "loud")
    <3>1. CASE T0("timeout") = "negative"
      <4>1. Validate(full) = [full EXCEPT !.text["timeout"] = "10s"]
        BY <1>1, <2>1, <2>2, <2>3, <2>5, <3>1 DEF Validate
      <4>2. Validate(full) = [text |-> [text EXCEPT !["timeout"] = "10s"], on |-> on]
        <5> HIDE DEF text
        <5> QED BY <2>1, <4>1
      <4>3. [text EXCEPT !["timeout"] = "10s"]
              = [k \in Valued |-> IF T0(k) = "negative" THEN "10s" ELSE T0(k)]
        <5>1. \A k \in Valued : (IF k = "timeout" THEN "10s" ELSE T0(k))
                                  = IF T0(k) = "negative" THEN "10s" ELSE T0(k)
          BY <1>8, <3>1 DEF Valued
        <5> QED BY <5>1
      <4> HIDE DEF text
      <4> QED BY <2>5, <4>2, <4>3
    <3>2. CASE T0("timeout") # "negative"
      <4>1. Validate(full) = [text |-> text, on |-> on]
        BY <2>1, <2>2, <2>3, <2>5, <3>2 DEF Validate
      <4>2. text = [k \in Valued |-> IF T0(k) = "negative" THEN "10s" ELSE T0(k)]
        <5>1. \A k \in Valued : T0(k) = IF T0(k) = "negative" THEN "10s" ELSE T0(k)
          BY <1>8, <3>2 DEF Valued
        <5> QED BY <5>1
      <4> HIDE DEF text
      <4> QED BY <2>5, <4>1, <4>2
    <3> QED BY <3>1, <3>2
  <2> QED BY <2>4, <2>5
<1>11. LoadFails(file) <=> file.text["timeout"] = "unparsable"
  BY DEF LoadFails
<1> HIDE DEF full
<1>12. (IF yaml /\ LoadFails(file) THEN Invalid ELSE Validate(full)) = ConfigBy(set, yaml, file)
  BY <1>10, <1>11 DEF ConfigBy, T0, V0
<1> QED BY <1>12 DEF full, flagged, loaded

\* Whatever settings a user gives, in whatever order and notation, each once,
\* and whatever the file holds, the configuration is the one they mean: flags
\* over file over defaults, with the exceptions of Meant and Heeded
\* (config.go:153 ParseFlags).
THEOREM NumbersHeedConfig ==
  ASSUME NEW items, ConfigItemsOf(items), NEW file, ConfigFile(file)
  PROVE  ParseFlags(Arguments(items), file) = Meant(Heeded(items), file)
<1> DEFINE args == Arguments(items)
           P    == YamlArguments(args)
           W    == Without(args, P)
           set  == Parse(W)
           yaml == FoundAt(items) # {}
<1>1. (P = {} <=> FoundAt(items) = {})
      /\ \E pos : LaidOut(W, KeptPieces(items), pos, Len(items))
  BY KeptLaid
<1>2. PICK pos : LaidOut(W, KeptPieces(items), pos, Len(items))
  BY <1>1
<1>3. Sets(set, items, Given(items))
  <2> HIDE DEF W
  <2> QED BY <1>2, ItemsParsed
<1>4. ParseFlags(args, file) =
        IF P # {} /\ LoadFails(file) THEN Invalid
        ELSE Validate(setDefaults(mergeFlags(IF P = {} THEN setDefaults(NoConfig)
                                             ELSE merge(setDefaults(NoConfig), file), set)))
  BY DEF ParseFlags
<1> HIDE DEF args, P, W, set
<1>5. HeedsAs(Heeded(items), set, yaml)
  BY <1>3, HeededFound
<1>6. yaml \in BOOLEAN /\ (yaml <=> P # {})
  BY <1>1
<1> HIDE DEF yaml
<1>7. Meant(Heeded(items), file) = ConfigBy(set, yaml, file)
  BY <1>5, <1>6, MeansBy
<1>8. (IF yaml /\ LoadFails(file) THEN Invalid
       ELSE Validate(setDefaults(mergeFlags(IF yaml THEN merge(setDefaults(NoConfig), file)
                                            ELSE setDefaults(NoConfig), set))))
        = ConfigBy(set, yaml, file)
  BY <1>5, <1>6, ParsedBy
<1>9. ParseFlags(args, file) =
        IF yaml /\ LoadFails(file) THEN Invalid
        ELSE Validate(setDefaults(mergeFlags(IF yaml THEN merge(setDefaults(NoConfig), file)
                                             ELSE setDefaults(NoConfig), set)))
  BY <1>4, <1>6
<1> QED BY <1>7, <1>8, <1>9 DEF args

LEMMA ItemsMeant == \A i \in ConfigItems : ConfigItem(i)
<1> SUFFICES ASSUME NEW i \in ConfigItems PROVE ConfigItem(i)
  OBVIOUS
<1>1. /\ i.split \in BOOLEAN
      /\ \/ i.key = "yaml" /\ i.value = YamlFile
         \/ i.key = "url" /\ i.value = "rtsp"
         \/ i.key = "timeout" /\ i.value = "negative"
         \/ i.key = "level" /\ i.value \in {"warn", "loud"}
         \/ i.key = "verbose" /\ i.value = "true"
         \/ i.key \in {"verbose", "jpeg"} /\ i.value = "false" /\ ~i.split
  <2>1. i.split \in BOOLEAN
    <3>1. i.split = TRUE \/ i.split = FALSE
      BY DEF ConfigItems
    <3> QED BY <3>1
  <2>2. \/ i.key = "yaml" /\ i.value = YamlFile
        \/ i.key = "url" /\ i.value = "rtsp"
        \/ i.key = "timeout" /\ i.value = "negative"
        \/ i.key = "level" /\ i.value \in {"warn", "loud"}
        \/ i.key = "verbose" /\ i.value = "true"
        \/ i.key \in {"verbose", "jpeg"} /\ i.value = "false" /\ i.split = FALSE
    BY DEF ConfigItems
  <2> QED BY <2>1, <2>2
<1>2. CASE i.key = "yaml" /\ i.value = YamlFile
  BY <1>1, <1>2, KeysDiffer DEF ConfigItem
<1>3. CASE i.key \in Valued /\ i.key # "yaml"
  <2>1. i.key \notin Switches
    BY <1>3, KeysDiffer
  <2>2. i.value \in {"rtsp", "negative", "warn", "loud"} /\ i.value # Empty
    BY <1>1, <1>3 DEF Valued, Empty
  <2> QED BY <1>1, <1>3, <2>1, <2>2 DEF ConfigItem, Levels
<1>4. CASE i.key \in Switches /\ i.key # "yaml"
  <2>1. i.key \notin Valued
    BY <1>4, KeysDiffer
  <2>2. /\ i.value \in {"true", "false"} /\ i.value # Empty
        /\ i.split => i.value = "true"
        /\ i.key # "level" /\ i.key \notin {"url", "output"} /\ i.key # "timeout"
    BY <1>1, <1>4 DEF Switches, Empty
  <2> QED BY <1>1, <1>4, <2>1, <2>2 DEF ConfigItem
<1> QED BY <1>1, <1>2, <1>3, <1>4 DEF Valued, Switches

LEMMA FilesAsked == \A file \in ConfigFiles : ConfigFile(file)
<1> DEFINE Switched(on) == \A k \in DOMAIN on : on[k] \in BOOLEAN
<1>1. ASSUME NEW url, url # "negative", NEW timeout,
             NEW level \in Levels \cup {Empty}, NEW on, Switched(on)
      PROVE  ConfigFile(File(url, timeout, level, on))
  <2>1. /\ File(url, timeout, level, on).text["level"] = level
        /\ File(url, timeout, level, on).text["url"] = url
        /\ File(url, timeout, level, on).text["output"] = "pictures"
        /\ File(url, timeout, level, on).on = on
    BY DEF File
  <2> QED BY <1>1, <2>1 DEF ConfigFile
<1>2. Switched(<< >>)
  OBVIOUS
<1>3. Switched([jpeg |-> FALSE])
  <2> DEFINE on == [jpeg |-> FALSE]
  <2>1. DOMAIN on = {"jpeg"} /\ on["jpeg"] = FALSE
    OBVIOUS
  <2> HIDE DEF on
  <2>2. Switched(on)
    BY <2>1
  <2> QED BY <2>2 DEF on
<1>4. Switched([verbose |-> FALSE])
  <2> DEFINE on == [verbose |-> FALSE]
  <2>1. DOMAIN on = {"verbose"} /\ on["verbose"] = FALSE
    OBVIOUS
  <2> HIDE DEF on
  <2>2. Switched(on)
    BY <2>1
  <2> QED BY <2>2 DEF on
<1>5. Switched([verbose |-> TRUE, continuous |-> FALSE])
  <2> DEFINE on == [verbose |-> TRUE, continuous |-> FALSE]
  <2>1. DOMAIN on = {"verbose", "continuous"} /\ on["verbose"] = TRUE /\ on["continuous"] = FALSE
    OBVIOUS
  <2> HIDE DEF on
  <2>2. Switched(on)
    BY <2>1
  <2> QED BY <2>2 DEF on
<1> HIDE DEF Switched
<1>6. "" \in Levels \cup {Empty} /\ "error" \in Levels \cup {Empty}
  BY DEF Levels, Empty
<1> QED BY <1>1, <1>2, <1>3, <1>4, <1>5, <1>6 DEF ConfigFiles

\* The configuration is what flags, file and defaults say, in this order of
\* priority, in every run (config.go:153).
THEOREM NumbersConfigPriority == Spec => []ConfigPriority
<1>1. ASSUME QuestionInv PROVE ConfigPriority
  <2> SUFFICES ASSUME question.about = "config"
               PROVE  ParseFlags(Arguments(question.items), question.file)
                        = Meant(Heeded(question.items), question.file)
    BY DEF ConfigPriority
  <2>1. PICK items \in Seqs(ConfigItems, 3), file \in ConfigFiles :
          /\ \A j, k \in DOMAIN items : items[j].key = items[k].key => j = k
          /\ question = [about |-> "config", items |-> items, file |-> file]
    BY <1>1 DEF QuestionInv, Init
  <2>2. items \in Seq(ConfigItems)
    BY BoundedSeqs
  <2>3. ConfigItemsOf(items)
    BY <2>1, <2>2, ItemsMeant DEF ConfigItemsOf
  <2>4. ConfigFile(file)
    BY FilesAsked
  <2>5. question.items = items /\ question.file = file
    BY <2>1
  <2> QED BY <2>3, <2>4, <2>5, NumbersHeedConfig
<1> QED BY <1>1, Questions, PTL

-----------------------------------------------------------------------------
(* The keep-alive.  A keep-alive at the computed interval keeps the session *)
(* alive because the ticker bounds the silence: what has passed since the   *)
(* server last heard of the session and what is left to the next tick are   *)
(* together no more than an interval and the gap that late starts and lost  *)
(* keep-alives have opened.                                                 *)

\* The ticker's promise, as long as the session is not given up.
SilenceBounded ==
  interval > 0 /\ session = "live" => silence + untilTick <= gap + interval

\* A session that has expired was silent for its timeout.
ExpiredInTime ==
  interval > 0 /\ session = "expired" => Limit <= gap + interval

ClockInv == ClockTypeOK /\ SilenceBounded /\ ExpiredInTime

\* The interval is positive, and no longer than the timeout unless the
\* timeout is below the smallest interval (keepalive.go:32).
LEMMA IntervalFits ==
  ASSUME NEW timeout \in Timeouts \cup {0, ServerDefault}
  PROVE  /\ calculateKeepAliveInterval(timeout) \in Nat \ {0}
         /\ timeout > MinInterval => calculateKeepAliveInterval(timeout) < timeout
<1>1. timeout \in Nat  BY ClockAssumption
<1>2. /\ timeout \div 2 \in Nat
      /\ timeout > 0 => timeout \div 2 < timeout
  BY <1>1
<1> QED  BY <1>1, <1>2, ClockAssumption DEF calculateKeepAliveInterval

LEMMA LimitIsNat == ClockTypeOK => Limit \in Nat
BY ClockAssumption DEF ClockTypeOK, Limit

LEMMA InitClock == ClockInit => ClockInv
BY ClockAssumption DEF ClockInit, ClockInv, ClockTypeOK, SilenceBounded, ExpiredInTime

LEMMA NextClock == ClockInv /\ [ClockNext]_vars => ClockInv'
<1> SUFFICES ASSUME ClockInv, [ClockNext]_vars PROVE ClockInv'
  OBVIOUS
<1> USE ClockAssumption DEF ClockInv, ClockTypeOK, SilenceBounded, ExpiredInTime
<1>1. ASSUME session # "expired", NEW timeout \in Timeouts, Setup(timeout)
      PROVE  ClockInv'
  BY <1>1 DEF Setup
<1>2. ASSUME session # "expired", StartKeepAlive PROVE ClockInv'
  <2>1. interval' \in Nat \ {0}  BY <1>2, IntervalFits DEF StartKeepAlive
  <2> QED  BY <1>2, <2>1 DEF StartKeepAlive
<1>3. ASSUME session # "expired", StopKeepAlive PROVE ClockInv'
  BY <1>3 DEF StopKeepAlive
<1>4. ASSUME session # "expired", Heard PROVE ClockInv'
  BY <1>4 DEF Heard
<1>5. ASSUME session # "expired", LosesKeepAlive PROVE ClockInv'
  BY <1>5 DEF LosesKeepAlive
<1>6. ASSUME session # "expired", Expire PROVE ClockInv'
  <2>1. Limit \in Nat /\ Limit' = Limit  BY <1>6, LimitIsNat DEF Expire, Limit
  <2> QED  BY <1>6, <2>1 DEF Expire
<1>7. ASSUME session # "expired", Pass PROVE ClockInv'
  BY <1>7 DEF Pass
<1>8. CASE UNCHANGED vars
  BY <1>8 DEF vars, Limit
<1> QED
  BY <1>1, <1>2, <1>3, <1>4, <1>5, <1>6, <1>7, <1>8 DEF ClockNext

LEMMA ClockInvariant == ClockSpec => []ClockInv
BY InitClock, NextClock, PTL DEF ClockSpec

\* Types hold, and no tick is further away than an interval, for every set of
\* timeouts and every bound of the interval (keepalive.go:172).
THEOREM ClockTypes == ClockSpec => []ClockTypeOK
<1>1. ClockInv => ClockTypeOK  BY DEF ClockInv
<1> QED  BY <1>1, ClockInvariant, PTL

\* What an expired session leaves as its cause: when nothing was late or lost
\* the timeout fits the interval, so it was short, or changed afterwards.
LEMMA InvKeeps == ClockInv => SessionKept
<1> SUFFICES ASSUME ClockInv, session = "expired", interval > 0,
                    sessionTimeout \notin 1 .. MinInterval,
                    interval = calculateKeepAliveInterval(sessionTimeout)
             PROVE  gap > 0 /\ gap + interval >= Limit
  BY DEF SessionKept
<1>1. /\ sessionTimeout \in Nat /\ interval \in Nat /\ gap \in Nat
      /\ Limit \in Nat /\ Limit <= gap + interval
  BY LimitIsNat, ClockAssumption DEF ClockInv, ClockTypeOK, ExpiredInTime
<1>2. interval < Limit
  <2>1. CASE sessionTimeout = 0
    BY <2>1, ClockAssumption DEF Limit, calculateKeepAliveInterval
  <2>2. CASE sessionTimeout # 0
    <3>1. sessionTimeout > MinInterval  BY <1>1, <2>2, ClockAssumption
    <3>2. interval < sessionTimeout
      BY <3>1, IntervalFits DEF ClockInv, ClockTypeOK
    <3> QED  BY <3>2, <2>2 DEF Limit
  <2> QED  BY <2>1, <2>2
<1> QED  BY <1>1, <1>2

\* A session ends under a running keep-alive for the reasons of SessionKept
\* only, for every set of timeouts, every smallest and largest interval, and
\* any number of SETUPs and lost keep-alives (keepalive.go:42, 179).
THEOREM ClockKeepsSession == ClockSpec => []SessionKept
BY ClockInvariant, InvKeeps, PTL
=============================================================================
