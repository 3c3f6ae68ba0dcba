-------------------------- MODULE SynchronyProofs --------------------------
(***************************************************************************)
(* How far a measurement on a clock of whole seconds can be off, and the   *)
(* delay that is made of such measurements.                                *)
(***************************************************************************)
EXTENDS Synchrony, SequenceTheorems,
        NaturalsInduction, WellFoundedInduction, TLAPS

\* The clock shows the second that has begun.
LEMMA NowBegun ==
    ASSUME NEW t \in Nat
    PROVE  /\ now(t) \in Nat
           /\ now(t) * Second <= t
           /\ t < now(t) * Second + Second
  <1>1. Second \in Nat /\ Second > 0
    BY SynchronyAssumption
  <1>2. t \div Second \in Nat
    BY <1>1, SMT
  <1>3. t = Second * (t \div Second) + (t % Second) /\ t % Second \in 0..Second - 1
    BY <1>1, SMT
  <1>4. ASSUME NEW q \in Nat, NEW r \in 0..Second - 1, t = Second * q + r
        PROVE  q * Second <= t /\ t < q * Second + Second
    BY <1>1, <1>4, SMT
  <1> QED BY <1>2, <1>3, <1>4 DEF now

LEMMA DifferenceOff ==
    ASSUME NEW t \in Nat, NEW d \in Nat
    PROVE  /\ Measured(t, t + d) \in Nat
           /\ Measured(t, t + d) * Second < d + Second
           /\ Measured(t, t + d) * Second > d - Second
  <1>1. Second \in Nat /\ Second > 0 /\ t + d \in Nat
    BY SynchronyAssumption
  <1> DEFINE a == now(t)
             b == now(t + d)
  <1>2. a \in Nat /\ a * Second <= t /\ t < a * Second + Second
    BY NowBegun
  <1>3. b \in Nat /\ b * Second <= t + d /\ t + d < b * Second + Second
    BY NowBegun, <1>1
  <1> HIDE DEF a, b
  <1>4. a <= b
    <2>1. SUFFICES ASSUME b + 1 <= a PROVE FALSE
      BY <1>2, <1>3
    <2>2. (b + 1) * Second <= a * Second
      BY <1>1, <1>2, <1>3, <2>1, SMT
    <2>3. (b + 1) * Second = b * Second + Second
      BY <1>1, <1>3, SMT
    <2> QED BY <1>1, <1>2, <1>3, <2>2, <2>3, SMT
  <1>5. (b - a) * Second = b * Second - a * Second /\ b - a \in Nat
    BY <1>1, <1>2, <1>3, <1>4, SMT
  <1>6. /\ (b - a) * Second < d + Second
        /\ (b - a) * Second > d - Second
    BY <1>1, <1>2, <1>3, <1>5, SMT
  <1> QED BY <1>5, <1>6 DEF Measured, a, b

-----------------------------------------------------------------------------
(* Induction and recursion over the natural numbers, for sets and functions *)

\* A pair of natural numbers, the lower one first.
Lower == {pair \in Nat \X Nat : pair[1] < pair[2]}

\* A set with 0, and with the successor of each of its numbers, has them all.
LEMMA SetInduction ==
    ASSUME NEW S, 0 \in S, \A k \in Nat : k \in S => k + 1 \in S
    PROVE  Nat \subseteq S
<1> SUFFICES ASSUME Nat \ S # {} PROVE FALSE
  OBVIOUS
<1>1. IsWellFoundedOn(Lower, Nat)
  BY NatLessThanWellFounded DEF Lower, OpToRel
<1>2. PICK x \in Nat \ S : \A y \in Nat \ S : ~(<<y, x>> \in Lower)
  <2> DEFINE T == Nat \ S
  <2>1. T \subseteq Nat /\ T # {}
    OBVIOUS
  <2> HIDE DEF T
  <2>2. \E x \in T : \A y \in T : ~(<<y, x>> \in Lower)
    BY <1>1, <2>1, WFMin
  <2> QED BY <2>2 DEF T
<1>3. x - 1 \in Nat /\ <<x - 1, x>> \in Lower
  BY DEF Lower
<1>4. x - 1 \in S
  BY <1>2, <1>3
<1> QED BY <1>3, <1>4

\* f starts with base and goes on by step, up to n.
Goes(f, base, step, n) ==
    f[0] = base /\ \A k \in 1..n : f[k] = step[<<k, f[k - 1]>>]

\* The recursion f[0] = base, f[k] = step[<<k, f[k - 1]>>] defines a function on
\* 0..top, with values in V if the base and every step have theirs there.
LEMMA RecursionExists ==
    ASSUME NEW V, NEW base \in V, NEW top \in Nat, NEW step \in [(1..top) \X V -> V]
    PROVE  \E f \in [0..top -> V] : Goes(f, base, step, top)
<1> DEFINE S == {n \in Nat : n <= top => \E f \in [0..n -> V] : Goes(f, base, step, n)}
<1>1. 0 \in S
  <2> DEFINE f == [l \in 0..0 |-> base]
  <2>1. f \in [0..0 -> V] /\ f[0] = base /\ 1..0 = {}
    OBVIOUS
  <2> HIDE DEF f
  <2>2. Goes(f, base, step, 0)
    BY <2>1 DEF Goes
  <2> QED BY <2>1, <2>2
<1>2. ASSUME NEW n \in Nat, n \in S, n + 1 <= top
      PROVE  \E g \in [0..(n + 1) -> V] : Goes(g, base, step, n + 1)
  <2>1. PICK f \in [0..n -> V] : Goes(f, base, step, n)
    BY <1>2
  <2>2. f[0] = base /\ \A k \in 1..n : f[k] = step[<<k, f[k - 1]>>]
    BY <2>1 DEF Goes
  <2> DEFINE v == step[<<n + 1, f[n]>>]
  <2>3. v \in V
    <3>1. n + 1 \in 1..top /\ n \in 0..n
      BY <1>2
    <3>2. <<n + 1, f[n]>> \in (1..top) \X V
      BY <2>1, <3>1
    <3> QED BY <3>2
  <2> HIDE DEF v
  <2> DEFINE g == [l \in 0..(n + 1) |-> IF l = n + 1 THEN v ELSE f[l]]
  <2>4. g \in [0..(n + 1) -> V] /\ g[n + 1] = v /\ \A l \in 0..n : g[l] = f[l]
    BY <2>1, <2>3
  <2> HIDE DEF g
  <2>5. ASSUME NEW k \in 1..(n + 1) PROVE g[k] = step[<<k, g[k - 1]>>]
    <3>1. k - 1 \in 0..n /\ (k = n + 1 => k - 1 = n) /\ (k # n + 1 => k \in 1..n /\ k \in 0..n)
      OBVIOUS
    <3>2. g[k - 1] = f[k - 1]
      BY <2>4, <3>1
    <3>3. CASE k = n + 1
      BY <2>4, <3>1, <3>2, <3>3 DEF v
    <3>4. CASE k # n + 1
      BY <2>2, <2>4, <3>1, <3>2, <3>4
    <3> QED BY <3>3, <3>4
  <2>6. 0 \in 0..n
    OBVIOUS
  <2>7. Goes(g, base, step, n + 1)
    BY <2>2, <2>4, <2>5, <2>6 DEF Goes
  <2> QED BY <2>4, <2>7
<1>3. \A n \in Nat : n \in S => n + 1 \in S
  BY <1>2
<1> HIDE DEF S
<1>4. Nat \subseteq S
  BY <1>1, <1>3, SetInduction
<1>5. top \in S
  BY <1>4
<1> QED BY <1>5 DEF S

\* What a function starts with and keeps at every step, all its values are.
LEMMA RecursionTyped ==
    ASSUME NEW V, NEW top \in Nat, NEW f, f[0] \in V,
           \A k \in 1..top : f[k - 1] \in V => f[k] \in V
    PROVE  \A k \in 0..top : f[k] \in V
<1> DEFINE S == {k \in Nat : k <= top => f[k] \in V}
<1>1. 0 \in S
  OBVIOUS
<1>2. ASSUME NEW k \in Nat, k \in S, k + 1 <= top PROVE f[k + 1] \in V
  <2>1. k + 1 \in 1..top /\ (k + 1) - 1 = k /\ f[k] \in V
    BY <1>2
  <2> HIDE DEF S
  <2> QED BY <2>1
<1>3. \A k \in Nat : k \in S => k + 1 \in S
  BY <1>2
<1> HIDE DEF S
<1>4. Nat \subseteq S
  BY <1>1, <1>3, SetInduction
<1> QED BY <1>4 DEF S

-----------------------------------------------------------------------------
(* The sum of the measurements *)

\* sum[k] is what the first k numbers of s make together.
IsSum(sum, s, n) ==
    sum = [k \in 0..n |-> IF k = 0 THEN 0 ELSE sum[k - 1] + s[k]]

\* accumulate adds up any sequence of numbers.
LEMMA AccumulateUnfolds ==
    ASSUME NEW s \in Seq(Nat)
    PROVE  \E sum \in [0..Len(s) -> Nat] :
                /\ accumulate(s) = sum[Len(s)]
                /\ sum[0] = 0
                /\ \A k \in 1..Len(s) : sum[k] = sum[k - 1] + s[k]
<1> DEFINE n == Len(s)
           step == [p \in (1..n) \X Nat |-> p[2] + s[p[1]]]
<1>1. n \in Nat /\ \A k \in 1..n : s[k] \in Nat
  BY LenProperties
<1> HIDE DEF n
<1>2. step \in [(1..n) \X Nat -> Nat]
  BY <1>1
<1>3. \A k \in 1..n : \A x \in Nat : step[<<k, x>>] = x + s[k]
  OBVIOUS
<1> HIDE DEF step
<1>4. PICK f \in [0..n -> Nat] : Goes(f, 0, step, n)
  BY <1>1, <1>2, RecursionExists
<1>5. \A k \in 1..n : k - 1 \in 0..n /\ k # 0 /\ f[k] = f[k - 1] + s[k]
  <2> TAKE k \in 1..n
  <2>1. k - 1 \in 0..n /\ k # 0
    BY <1>1
  <2>2. f[k - 1] \in Nat /\ f[k] = step[<<k, f[k - 1]>>]
    BY <1>4, <2>1 DEF Goes
  <2> QED BY <1>3, <2>1, <2>2
<1>6. f[0] = 0
  BY <1>4 DEF Goes
<1>7. IsSum(f, s, n)
  <2>1. \A k \in 0..n : f[k] = IF k = 0 THEN 0 ELSE f[k - 1] + s[k]
    <3> TAKE k \in 0..n
    <3>1. k = 0 \/ k \in 1..n
      BY <1>1
    <3> QED BY <1>5, <1>6, <3>1
  <2> QED BY <2>1 DEF IsSum
<1> DEFINE sum == CHOOSE g : IsSum(g, s, n)
<1>8. IsSum(sum, s, n)
  BY <1>7
<1>9. accumulate(s) = sum[n]
  BY DEF accumulate, IsSum, n
<1> HIDE DEF sum
<1>10. sum[0] = 0 /\ \A k \in 1..n : sum[k] = sum[k - 1] + s[k]
  <2>1. \A k \in 0..n : sum[k] = IF k = 0 THEN 0 ELSE sum[k - 1] + s[k]
    BY <1>8 DEF IsSum
  <2>2. 0 \in 0..n /\ \A k \in 1..n : k \in 0..n /\ k # 0
    BY <1>1
  <2> QED BY <2>1, <2>2
<1>11. ASSUME NEW k \in 1..n, sum[k - 1] \in Nat PROVE sum[k] \in Nat
  <2>1. sum[k] = sum[k - 1] + s[k] /\ s[k] \in Nat
    BY <1>1, <1>10
  <2> QED BY <1>11, <2>1
<1>12. \A k \in 0..n : sum[k] \in Nat
  <2>1. sum[0] \in Nat
    BY <1>10
  <2> QED BY <1>1, <1>11, <2>1, RecursionTyped
<1>13. sum \in [0..n -> Nat]
  <2>1. sum = [k \in 0..n |-> sum[k]]
    BY <1>8 DEF IsSum
  <2> QED BY <1>12, <2>1
<1> QED BY <1>9, <1>10, <1>13 DEF n

\* A sum of numbers that are each below a bound, in seconds.
LEMMA SumBounded ==
    ASSUME NEW s \in Seq(Nat), NEW bound \in Nat,
           \A k \in 1..Len(s) : s[k] * Second <= bound
    PROVE  accumulate(s) \in Nat /\ accumulate(s) * Second <= Len(s) * bound
<1>1. Len(s) \in Nat /\ Second \in Nat /\ \A k \in 1..Len(s) : s[k] \in Nat
  BY LenProperties, SynchronyAssumption
<1>2. PICK sum \in [0..Len(s) -> Nat] :
            /\ accumulate(s) = sum[Len(s)]
            /\ sum[0] = 0
            /\ \A k \in 1..Len(s) : sum[k] = sum[k - 1] + s[k]
  BY AccumulateUnfolds
<1> DEFINE S == {k \in Nat : k <= Len(s) => sum[k] * Second <= k * bound}
<1>3. 0 \in S
  BY <1>1, <1>2
<1>4. ASSUME NEW k \in Nat, k \in S, k + 1 <= Len(s)
      PROVE  sum[k + 1] * Second <= (k + 1) * bound
  <2>1. /\ k + 1 \in 1..Len(s) /\ (k + 1) - 1 = k /\ k \in 0..Len(s)
        /\ sum[k] * Second <= k * bound
    BY <1>1, <1>4
  <2> HIDE DEF S
  <2>2. sum[k + 1] = sum[k] + s[k + 1] /\ sum[k] \in Nat /\ s[k + 1] \in Nat
    BY <1>1, <1>2, <2>1
  <2>3. s[k + 1] * Second <= bound
    BY <2>1
  <2>4. ASSUME NEW a \in Nat, NEW b \in Nat, a * Second <= k * bound, b * Second <= bound
        PROVE  (a + b) * Second <= (k + 1) * bound
    <3>1. (a + b) * Second = a * Second + b * Second /\ (k + 1) * bound = k * bound + bound
      BY <1>1, SMT
    <3>2. a * Second \in Nat /\ b * Second \in Nat /\ k * bound \in Nat
      BY <1>1, SMT
    <3> QED BY <2>4, <3>1, <3>2
  <2> QED BY <2>1, <2>2, <2>3, <2>4
<1>5. \A k \in Nat : k \in S => k + 1 \in S
  BY <1>4
<1> HIDE DEF S
<1>6. Nat \subseteq S
  BY <1>3, <1>5, SetInduction
<1>7. sum[Len(s)] * Second <= Len(s) * bound
  <2>1. Len(s) \in S /\ Len(s) <= Len(s)
    BY <1>1, <1>6
  <2> QED BY ONLY <2>1 DEF S
<1> QED BY <1>1, <1>2, <1>7

\* What is left of the measurements without the first.
LEMMA WithoutFirst ==
    ASSUME NEW s \in Seq(Nat), s # <<>>
    PROVE  /\ Len(s) \in Nat \ {0}
           /\ Summed(s) \in Seq(Nat) /\ Len(Summed(s)) = Len(s) - 1
           /\ \A k \in 1..Len(Summed(s)) : k + 1 \in 2..Len(s) /\ Summed(s)[k] = s[k + 1]
<1>1. /\ Tail(s) \in Seq(Nat) /\ Len(Tail(s)) = Len(s) - 1 /\ Len(s) \in Nat /\ Len(s) # 0
      /\ \A k \in 1..Len(Tail(s)) : Tail(s)[k] = s[k + 1]
  BY HeadTailProperties, LenProperties, EmptySeq
<1> QED BY <1>1 DEF Summed

\* Multiplying keeps the order.
LEMMA TimesMonotonic ==
    ASSUME NEW x \in Nat, NEW y \in Nat, NEW z \in Nat, x <= y
    PROVE  z * x <= z * y /\ x * z <= y * z
<1>1. PICK d \in Nat : y = x + d
  <2>1. y - x \in Nat /\ y = x + (y - x)
    OBVIOUS
  <2> QED BY <2>1
<1>2. z * y = z * x + z * d /\ y * z = x * z + d * z
  BY <1>1, SMT
<1>3. z * x \in Nat /\ z * d \in Nat /\ x * z \in Nat /\ d * z \in Nat
  BY SMT
<1> QED BY <1>2, <1>3

\* The mean of the measurements, one of them left out of the sum, is below the
\* bound that all the others are below.
LEMMA MeanBounded ==
    ASSUME NEW s \in Seq(Nat), s # <<>>, NEW bound \in Nat \ {0},
           \A k \in 2..Len(s) : s[k] * Second < bound
    PROVE  mean_rtt(s) \in Nat /\ mean_rtt(s) * Second < bound
<1> DEFINE a == accumulate(Summed(s))
           n == Len(s)
<1>1. /\ n \in Nat \ {0} /\ Summed(s) \in Seq(Nat) /\ Len(Summed(s)) = n - 1
      /\ \A k \in 1..Len(Summed(s)) : k + 1 \in 2..n /\ Summed(s)[k] = s[k + 1]
  BY WithoutFirst
<1>2. Second \in Nat /\ Second > 0 /\ \A k \in 1..n : s[k] \in Nat
  BY SynchronyAssumption, LenProperties
<1>3. \A k \in 1..Len(Summed(s)) : Summed(s)[k] * Second <= bound - 1
  <2> TAKE k \in 1..Len(Summed(s))
  <2>1. k + 1 \in 2..n /\ Summed(s)[k] = s[k + 1] /\ s[k + 1] \in Nat
    <3>1. k + 1 \in 2..n /\ Summed(s)[k] = s[k + 1]
      BY <1>1
    <3>2. \A x \in 2..n : x \in 1..n
      BY ONLY <1>1
    <3> QED BY ONLY <1>2, <3>1, <3>2
  <2>2. s[k + 1] * Second < bound /\ s[k + 1] * Second \in Nat
    BY <1>2, <2>1, SMT
  <2> QED BY <2>1, <2>2
<1>4. a \in Nat /\ a * Second <= (n - 1) * (bound - 1)
  <2> DEFINE r == Summed(s)
             c == bound - 1
  <2>1. r \in Seq(Nat) /\ c \in Nat /\ Len(r) = n - 1 /\ \A k \in 1..Len(r) : r[k] * Second <= c
    BY <1>1, <1>3
  <2> HIDE DEF r, c, n
  <2>2. accumulate(r) \in Nat /\ accumulate(r) * Second <= Len(r) * c
    BY <2>1, SumBounded
  <2> QED BY <2>1, <2>2 DEF r, c
<1>5. mean_rtt(s) = a \div n
  BY DEF mean_rtt
<1> HIDE DEF a, n
<1>6. a \div n \in Nat /\ n * (a \div n) <= a
  <2>1. n \in Nat /\ n > 0 /\ a \in Nat
    BY <1>1, <1>4
  <2>2. a \div n \in Nat
    BY <2>1, SMT
  <2>3. a = n * (a \div n) + (a % n) /\ a % n \in 0..n - 1
    BY <2>1, SMT
  <2>4. ASSUME NEW q \in Nat, NEW x \in 0..n - 1, a = n * q + x PROVE n * q <= a
    BY <2>1, <2>4, SMT
  <2> QED BY <2>2, <2>3, <2>4
<1>7. ASSUME NEW q \in Nat, n * q <= a, ~(q * Second < bound) PROVE FALSE
  <2>1. n * (q * Second) = (n * q) * Second /\ q * Second \in Nat /\ n * q \in Nat
    BY <1>1, <1>2, SMT
  <2>2. (n * q) * Second <= a * Second
    BY <1>2, <1>4, <1>7, <2>1, TimesMonotonic
  <2>3. n * bound <= n * (q * Second)
    <3>1. n \in Nat /\ bound \in Nat /\ bound <= q * Second
      BY <1>1, <1>7, <2>1
    <3> QED BY <2>1, <3>1, TimesMonotonic
  <2>4. (n - 1) * (bound - 1) < n * bound
    <3>1. (n - 1) * (bound - 1) = n * bound - n - bound + 1
      BY <1>1, SMT
    <3> QED BY <1>1, <3>1, SMT
  <2> DEFINE u == n * bound
             v == n * (q * Second)
             w == a * Second
             x == (n - 1) * (bound - 1)
  <2>5. u \in Int /\ v \in Int /\ w \in Int /\ x \in Int
    BY <1>1, <1>2, <1>4, <2>1, SMT
  <2>6. u <= v /\ v <= w /\ w <= x /\ x < u
    BY <1>4, <2>1, <2>2, <2>3, <2>4
  <2> HIDE DEF u, v, w, x
  <2> QED BY <2>5, <2>6
<1> QED BY <1>5, <1>6, <1>7

\* The types of what a measurement is made of.
Timed ==
    /\ latency \in [Clients -> Nat]
    /\ time \in Nat
    /\ round \in Nat
    /\ turn \in Clients
    /\ rtts \in [Clients -> Seq(Nat)]
    /\ DOMAIN first = Clients

Inv == Timed /\ MeasuredWithin

\* A ping measures two latencies; what a first ping waits is counted as first.
LEMMA PingMeasures ==
    ASSUME Inv, Ping
    PROVE  Inv'
  <1>1. PICK wait \in (IF round = 0 THEN Waits ELSE {0}) :
            /\ time' = time + 2 * latency[turn] + wait
            /\ rtts' = [rtts EXCEPT ![turn] =
                          Append(@, Measured(time, time + 2 * latency[turn] + wait))]
    BY Zenon DEF Ping
  <1> DEFINE d == 2 * latency[turn] + wait
             m == Measured(time, time + d)
  <1>2. /\ N \in Nat /\ turn \in Clients /\ time \in Nat /\ latency[turn] \in Nat
        /\ wait \in Nat /\ (round # 0 => wait = 0) /\ d \in Nat
    BY <1>1, SynchronyAssumption DEF Inv, Timed
  <1>3. time + 2 * latency[turn] + wait = time + d
    BY <1>2
  <1>4. /\ m \in Nat
        /\ m * Second < d + Second
        /\ m * Second > d - Second
    BY <1>2, DifferenceOff
  <1>5. time' = time + d /\ rtts' = [rtts EXCEPT ![turn] = Append(@, m)]
    BY <1>1, <1>3
  <1>6. /\ latency' = latency
        /\ first' = [first EXCEPT ![turn] =
                       IF round = 0 THEN @ \cup {Len(rtts[turn]) + 1} ELSE @]
        /\ Advance
    BY DEF Ping
  <1> HIDE DEF m, d
  <1>7. rtts[turn] \in Seq(Nat)
    BY <1>2 DEF Inv, Timed
  <1>8. /\ rtts'[turn] = Append(rtts[turn], m)
        /\ \A c \in Clients : c # turn => rtts'[c] = rtts[c] /\ first'[c] = first[c]
        /\ first'[turn] = IF round = 0 THEN first[turn] \cup {Len(rtts[turn]) + 1}
                          ELSE first[turn]
    BY <1>2, <1>5, <1>6 DEF Inv, Timed
  <1>9. Timed'
    <2>1. rtts' \in [Clients -> Seq(Nat)]
      <3>1. Append(rtts[turn], m) \in Seq(Nat)
        BY <1>4, <1>7, AppendProperties
      <3> QED BY <1>2, <1>5, <3>1 DEF Inv, Timed
    <2>2. turn' \in Clients /\ round' \in Nat
      <3>1. round \in Nat /\ turn \in 1..N
        BY <1>2 DEF Inv, Timed, Clients
      <3>2. CASE turn < N
        BY <1>2, <1>6, <3>1, <3>2 DEF Advance, Clients
      <3>3. CASE ~(turn < N)
        BY <1>2, <1>6, <3>1, <3>3 DEF Advance, Clients
      <3> QED BY <3>2, <3>3
    <2>3. time' \in Nat /\ DOMAIN first' = Clients /\ latency' \in [Clients -> Nat]
      BY <1>2, <1>5, <1>6 DEF Inv, Timed
    <2> QED BY <2>1, <2>2, <2>3 DEF Timed
  <1>10. ASSUME NEW c \in Clients, NEW k \in DOMAIN rtts'[c] \ first'[c]
         PROVE  /\ rtts'[c][k] * Second < 2 * latency[c] + Second
                /\ rtts'[c][k] * Second > 2 * latency[c] - Second
    <2>1. CASE c # turn
      BY <1>8, <1>10, <2>1 DEF Inv, MeasuredWithin
    <2>2. CASE c = turn
      <3>1. /\ DOMAIN rtts'[c] = 1..Len(rtts[c]) + 1
            /\ DOMAIN rtts[c] = 1..Len(rtts[c]) /\ Len(rtts[c]) \in Nat
            /\ \A l \in 1..Len(rtts[c]) : rtts'[c][l] = rtts[c][l]
            /\ rtts'[c][Len(rtts[c]) + 1] = m
        <4> DEFINE s == rtts[turn]
        <4>1. s \in Seq(Nat) /\ m \in Nat
          BY <1>4, <1>7
        <4> HIDE DEF s
        <4>2. /\ Append(s, m) \in Seq(Nat) /\ Len(Append(s, m)) = Len(s) + 1
              /\ \A l \in 1..Len(s) : Append(s, m)[l] = s[l]
              /\ Append(s, m)[Len(s) + 1] = m
          BY <4>1, AppendProperties
        <4>3. DOMAIN s = 1..Len(s) /\ Len(s) \in Nat
          BY <4>1, LenProperties
        <4>4. DOMAIN Append(s, m) = 1..Len(Append(s, m))
          BY <4>2, LenProperties
        <4> QED BY <1>8, <2>2, <4>2, <4>3, <4>4 DEF s
      <3>2. CASE k \in 1..Len(rtts[c])
        BY <1>8, <1>10, <2>2, <3>1, <3>2 DEF Inv, MeasuredWithin
      <3>3. CASE k = Len(rtts[c]) + 1
        <4>1. round # 0
          BY <1>8, <1>10, <2>2, <3>3
        <4>2. d = 2 * latency[c]
          BY <1>2, <2>2, <4>1 DEF d
        <4> QED BY <1>4, <3>1, <3>3, <4>2
      <3> QED BY <3>1, <3>2, <3>3, <1>10
    <2> QED BY <2>1, <2>2
  <1> QED BY <1>6, <1>9, <1>10 DEF Inv, MeasuredWithin

-----------------------------------------------------------------------------
(* The pace of the measurements *)

\* Whether the client has been pinged in this round.
Served(c) == IF c < turn THEN 1 ELSE 0

\* By the time orders are sent there is a measurement of every client, and over
\* the first countdown only the oldest one is of a first ping.
Paced ==
    /\ TypeOK
    /\ round = PingN => turn = 1
    /\ (round = 0 /\ turn = 1) \/ countdowns < MaxCountdowns
    /\ \A c \in Clients :
        /\ Len(rtts[c]) >= round + Served(c)
        /\ countdowns = 0 => /\ Len(rtts[c]) = round + Served(c)
                             /\ first[c] \subseteq {1}

\* No measurement is made of a client before the first round.
LEMMA StartsPaced == Init => Inv /\ Paced
<1> SUFFICES ASSUME Init PROVE Inv /\ Paced
  OBVIOUS
<1>1. Timed
  <2>1. /\ turn \in Clients /\ round \in Nat /\ DOMAIN first = Clients
        /\ rtts \in [Clients -> Seq(Nat)]
    BY SynchronyAssumption, EmptySeq DEF Init, Clients
  <2>2. latency \in [Clients -> Nat] /\ time \in Nat
    <3>1. Latencies \subseteq Nat /\ Second \in Nat
      BY SynchronyAssumption
    <3>2. latency \in [Clients -> Latencies] /\ time \in 0..Second - 1
      BY DEF Init
    <3>3. latency \in [Clients -> Nat]
      BY <3>1, <3>2
    <3>4. time \in Nat
      BY <3>1, <3>2
    <3> QED BY <3>3, <3>4
  <2> QED BY <2>1, <2>2 DEF Timed
<1>2. \A c \in Clients : DOMAIN rtts[c] = {} /\ Len(rtts[c]) = 0 /\ first[c] = {}
  BY EmptySeq DEF Init
<1>3. Inv
  BY <1>1, <1>2 DEF Inv, MeasuredWithin
<1>4. TypeOK
  <2>1. spoken \in [Clients -> Nat] /\ latency \in [Clients -> Latencies]
    BY DEF Init
  <2>2. round \in 0..PingN /\ countdowns \in 0..MaxCountdowns
    BY SynchronyAssumption DEF Init
  <2>3. \A c \in Clients : first[c] \subseteq DOMAIN rtts[c]
    BY <1>2
  <2> QED BY <1>1, <2>1, <2>2, <2>3 DEF TypeOK, Timed
<1>5. \A c \in Clients : Served(c) = 0 /\ round = 0 /\ turn = 1
  BY DEF Init, Served, Clients
<1>6. Paced
  <2>1. PingN # 0 /\ turn = 1 /\ round = 0
    BY SynchronyAssumption DEF Init
  <2>2. \A c \in Clients : /\ Len(rtts[c]) >= round + Served(c)
                           /\ Len(rtts[c]) = round + Served(c) /\ first[c] \subseteq {1}
    BY <1>2, <1>5
  <2> QED BY <1>4, <2>1, <2>2 DEF Paced
<1> QED BY <1>3, <1>6

\* The delay made of the measurements is a number.
LEMMA DelayIsNumber ==
    ASSUME NEW s \in Seq(Nat), s # <<>>
    PROVE  estimate_send_t(s) \in Nat
<1>1. mean_rtt(s) \in Nat
  <2>1. Summed(s) \in Seq(Nat) /\ Len(s) \in Nat \ {0}
    BY WithoutFirst
  <2>2. accumulate(Summed(s)) \in Nat
    <3>1. PICK sum \in [0..Len(Summed(s)) -> Nat] : accumulate(Summed(s)) = sum[Len(Summed(s))]
      BY <2>1, AccumulateUnfolds
    <3>2. Len(Summed(s)) \in 0..Len(Summed(s))
      BY <2>1, LenProperties
    <3> QED BY <3>1, <3>2
  <2>3. \A a \in Nat, n \in Nat \ {0} : a \div n \in Nat
    BY SMT
  <2> QED BY <2>1, <2>2, <2>3 DEF mean_rtt
<1>2. Second \div 2 \in Nat
  BY SynchronyAssumption
<1>3. \A x \in Nat, y \in Nat : x * y \in Nat
  BY SMT
<1> QED BY <1>1, <1>2, <1>3 DEF estimate_send_t

\* A ping goes to the next client, or to the first of the next round.
LEMMA PingPaces ==
    ASSUME Inv, Paced, Ping
    PROVE  Paced'
<1>1. /\ TypeOK /\ Inv' /\ N \in Nat /\ PingN \in Nat /\ turn \in 1..N /\ round \in 0..PingN - 1
      /\ countdowns < MaxCountdowns /\ countdowns \in 0..MaxCountdowns /\ turn \in Clients
      /\ MaxCountdowns \in Nat
  <2>1. Inv' /\ TypeOK /\ round < PingN /\ countdowns < MaxCountdowns
    BY PingMeasures DEF Paced, Ping
  <2>2. round \in 0..PingN /\ turn \in Clients /\ countdowns \in 0..MaxCountdowns
    BY <2>1 DEF TypeOK
  <2>3. N \in Nat /\ PingN \in Nat /\ MaxCountdowns \in Nat
    BY SynchronyAssumption
  <2> QED BY <2>1, <2>2, <2>3 DEF Clients
<1>2. UNCHANGED <<latency, spoken, countdowns>>
  BY DEF Ping
<1>3. \/ turn < N /\ turn' = turn + 1 /\ round' = round
      \/ turn = N /\ turn' = 1 /\ round' = round + 1
  BY <1>1 DEF Ping, Advance
<1>4. /\ turn' \in 1..N /\ round' \in 0..PingN /\ (round' = PingN => turn' = 1)
      /\ ~(round' = 0 /\ turn' = 1)
  BY <1>1, <1>3
<1>5. \A c \in Clients : /\ Len(rtts'[c]) = Len(rtts[c]) + (IF c = turn THEN 1 ELSE 0)
                         /\ rtts[c] \in Seq(Nat) /\ Len(rtts[c]) \in Nat
                         /\ DOMAIN rtts[c] = 1..Len(rtts[c])
                         /\ DOMAIN rtts'[c] = 1..Len(rtts'[c])
                         /\ first'[c] = IF c = turn /\ round = 0
                                        THEN first[c] \cup {Len(rtts[c]) + 1} ELSE first[c]
  <2> TAKE c \in Clients
  <2>1. rtts[c] \in Seq(Nat) /\ rtts'[c] \in Seq(Nat) /\ DOMAIN first = Clients
    BY <1>1 DEF TypeOK, Inv, Timed
  <2>2. PICK m \in Nat : rtts' = [rtts EXCEPT ![turn] = Append(@, m)]
    <3>1. PICK wait \in (IF round = 0 THEN Waits ELSE {0}) :
              rtts' = [rtts EXCEPT ![turn] =
                          Append(@, Measured(time, time + 2 * latency[turn] + wait))]
      BY Zenon DEF Ping
    <3> DEFINE d == 2 * latency[turn] + wait
    <3>2. /\ time \in Nat /\ wait \in Nat /\ latency[turn] \in Nat
      BY <1>1, <3>1, SynchronyAssumption DEF Inv, Timed
    <3>3. d \in Nat /\ time + 2 * latency[turn] + wait = time + d
      BY <3>2
    <3> HIDE DEF d
    <3>4. Measured(time, time + d) \in Nat
      BY <3>2, <3>3, DifferenceOff
    <3> QED BY <3>1, <3>3, <3>4
  <2>3. rtts'[c] = IF c = turn THEN Append(rtts[c], m) ELSE rtts[c]
    BY <1>1, <2>2 DEF TypeOK
  <2>4. Len(rtts'[c]) = Len(rtts[c]) + (IF c = turn THEN 1 ELSE 0) /\ Len(rtts[c]) \in Nat
    <3>1. PICK r : r = rtts[c]
      OBVIOUS
    <3>2. Len(r) \in Nat /\ Len(Append(r, m)) = Len(r) + 1
      BY <2>1, <3>1, AppendProperties, LenProperties
    <3>3. CASE c = turn
      BY <2>3, <3>1, <3>2, <3>3
    <3>4. CASE c # turn
      BY <2>3, <3>1, <3>2, <3>4
    <3> QED BY <3>3, <3>4
  <2>5. first'[c] = IF c = turn /\ round = 0 THEN first[c] \cup {Len(rtts[c]) + 1} ELSE first[c]
    BY <1>1, <2>1 DEF Ping
  <2>6. DOMAIN rtts[c] = 1..Len(rtts[c]) /\ DOMAIN rtts'[c] = 1..Len(rtts'[c])
    BY <2>1, LenProperties
  <2> QED BY <2>1, <2>4, <2>5, <2>6
<1>6. \A c \in Clients : round' + Served(c)' = round + Served(c) + (IF c = turn THEN 1 ELSE 0)
  BY <1>1, <1>3 DEF Served, Clients
<1>7. TypeOK'
  <2>1. \A c \in Clients : first'[c] \subseteq DOMAIN rtts'[c]
    <3> TAKE c \in Clients
    <3>1. PICK l, m, f, g : /\ l = Len(rtts[c]) /\ m = Len(rtts'[c])
                            /\ f = first[c] /\ g = first'[c]
      OBVIOUS
    <3>2. /\ m = l + (IF c = turn THEN 1 ELSE 0) /\ l \in Nat
          /\ g = IF c = turn /\ round = 0 THEN f \cup {l + 1} ELSE f
          /\ DOMAIN rtts[c] = 1..l /\ DOMAIN rtts'[c] = 1..m
      BY <1>5, <3>1
    <3>3. f \subseteq 1..l
      BY <1>1, <3>1, <3>2 DEF TypeOK
    <3>4. g \subseteq 1..m
      BY <3>2, <3>3
    <3> QED BY <3>1, <3>2, <3>4
  <2>2. time' \in Nat /\ rtts' \in [Clients -> Seq(Nat)] /\ turn' \in Clients
    BY <1>1 DEF Inv, Timed
  <2> QED BY <1>1, <1>2, <1>4, <2>1, <2>2 DEF TypeOK
<1>8. \A c \in Clients :
        /\ Len(rtts'[c]) >= round' + Served(c)'
        /\ countdowns' = 0 => /\ Len(rtts'[c]) = round' + Served(c)'
                              /\ first'[c] \subseteq {1}
  <2> TAKE c \in Clients
  <2>1. /\ Len(rtts[c]) >= round + Served(c)
        /\ countdowns = 0 => Len(rtts[c]) = round + Served(c) /\ first[c] \subseteq {1}
    BY DEF Paced
  <2>2. Served(c) \in 0..1 /\ (c = turn => Served(c) = 0) /\ round \in Nat
    BY <1>1 DEF Served, Clients
  <2>c. /\ Len(rtts'[c]) = Len(rtts[c]) + (IF c = turn THEN 1 ELSE 0) /\ Len(rtts[c]) \in Nat
        /\ round' + Served(c)' = round + Served(c) + (IF c = turn THEN 1 ELSE 0)
        /\ first'[c] = IF c = turn /\ round = 0 THEN first[c] \cup {Len(rtts[c]) + 1} ELSE first[c]
    BY <1>5, <1>6
  <2>3. Len(rtts'[c]) >= round' + Served(c)'
    <3>1. ASSUME NEW l \in Nat, NEW p \in Nat, NEW q \in 0..1, NEW x \in 0..1, l >= p + q
          PROVE  l + x >= p + q + x
      BY <3>1
    <3>2. (IF c = turn THEN 1 ELSE 0) \in 0..1
      OBVIOUS
    <3> QED BY <2>1, <2>2, <2>c, <3>1, <3>2
  <2>4. ASSUME countdowns = 0 PROVE Len(rtts'[c]) = round' + Served(c)' /\ first'[c] \subseteq {1}
    <3>1. Len(rtts'[c]) = round' + Served(c)'
      BY <2>1, <2>2, <2>4, <2>c
    <3>2. c = turn /\ round = 0 => Len(rtts[c]) = 0
      BY <2>1, <2>2, <2>4
    <3>3. first'[c] \subseteq {1}
      BY <2>1, <2>4, <2>c, <3>2
    <3> QED BY <3>1, <3>3
  <2> QED BY <1>2, <2>3, <2>4
<1> QED BY <1>1, <1>2, <1>4, <1>7, <1>8 DEF Paced

\* The orders leave the measurements alone.
LEMMA OrdersPace ==
    ASSUME Inv, Paced, Orders
    PROVE  Paced'
<1>1. /\ TypeOK /\ turn = 1 /\ round = PingN /\ PingN \in Nat \ {0} /\ 1 \in Clients
      /\ countdowns < MaxCountdowns /\ countdowns \in 0..MaxCountdowns /\ MaxCountdowns \in Nat
  BY SynchronyAssumption DEF Paced, TypeOK, Orders, Clients
<1>2. /\ UNCHANGED <<latency, time, turn, rtts, first>>
      /\ round' = 0 /\ countdowns' = countdowns + 1
      /\ spoken' = [c \in Clients |-> Begins(time + latency[c], estimate_send_t(rtts[c]))]
  BY DEF Orders
<1>3. ASSUME NEW c \in Clients
      PROVE  Begins(time + latency[c], estimate_send_t(rtts[c])) \in Nat /\ Served(c)' = 0
             /\ Len(rtts[c]) \in Nat
  <2>1. rtts[c] \in Seq(Nat) /\ latency[c] \in Nat /\ time \in Nat /\ Served(c) = 0
    <3>1. rtts[c] \in Seq(Nat) /\ latency[c] \in Nat /\ time \in Nat
      BY DEF Inv, Timed
    <3>2. ~(c < turn)
      BY <1>1, SynchronyAssumption DEF Clients
    <3> QED BY <3>1, <3>2 DEF Served
  <2>2. Len(rtts[c]) >= PingN /\ Len(rtts[c]) \in Nat
    BY <1>1, <2>1, LenProperties DEF Paced
  <2>3. rtts[c] # <<>>
    BY <1>1, <2>2, EmptySeq
  <2>4. estimate_send_t(rtts[c]) \in Nat
    BY <2>1, <2>3, DelayIsNumber
  <2> QED BY <1>1, <1>2, <2>1, <2>2, <2>4 DEF Begins, Served, Clients
<1>4. TypeOK'
  BY <1>1, <1>2, <1>3 DEF TypeOK
<1>5. \A c \in Clients : Len(rtts'[c]) >= round' + Served(c)'
  BY <1>2, <1>3
<1> QED BY <1>1, <1>2, <1>4, <1>5 DEF Paced

\* Every step keeps the pace and the measurements.
LEMMA PacedInvariant == Spec => [](Inv /\ Paced)
<1>1. Inv /\ Paced /\ [Next]_vars => Inv' /\ Paced'
  <2> SUFFICES ASSUME Inv, Paced, [Next]_vars PROVE Inv' /\ Paced'
    OBVIOUS
  <2>1. CASE Ping
    BY <2>1, PingMeasures, PingPaces
  <2>2. CASE Orders
    <3>1. Inv'
      BY <2>2 DEF Orders, Inv, Timed, MeasuredWithin
    <3> QED BY <2>2, <3>1, OrdersPace
  <2>3. CASE UNCHANGED vars
    BY <2>3 DEF vars, Inv, Timed, MeasuredWithin, Paced, TypeOK, Served
  <2> QED BY <2>1, <2>2, <2>3 DEF Next
<1> QED BY StartsPaced, <1>1, PTL DEF Spec

\* For every length of a second, all latencies and waits, and any number of
\* countdowns: the difference of two whole seconds is less than a second away
\* from the round trip it stands for (the measurement in the ping loop of
\* interact); only a first ping may take in what its client did before.
THEOREM MeasuresWithin == Spec => []MeasuredWithin
<1>1. Inv => MeasuredWithin
  BY DEF Inv
<1> QED BY PacedInvariant, <1>1, PTL

\* The state keeps its types; in particular estimate_send_t is only asked for
\* when there is a measurement, and its delays are not negative.
THEOREM DelaysTyped == Spec => []TypeOK
<1>1. Paced => TypeOK
  BY DEF Paced
<1> QED BY PacedInvariant, <1>1, PTL

\* Over the first countdown no client is told to wait half a second longer than
\* a message takes to it, or more: estimate_send_t leaves out the one
\* measurement that may take in what the client did before.
THEOREM DelaysBounded == Spec => []DelayBounded
<1>1. Inv /\ Paced => DelayBounded
  <2> SUFFICES ASSUME Inv, Paced, NEW c \in Clients, rtts[c] # <<>>, countdowns = 0
               PROVE  2 * Delay(c) < 2 * latency[c] + Second
    BY DEF DelayBounded
  <2>1. PICK s : s = rtts[c]
    OBVIOUS
  <2> DEFINE bound == 2 * latency[c] + Second
  <2>2. /\ Second \in Nat \ {0} /\ Second % 2 = 0 /\ latency[c] \in Nat /\ s \in Seq(Nat)
        /\ first[c] \subseteq {1} /\ DOMAIN s = 1..Len(s) /\ Len(s) \in Nat
    BY <2>1, SynchronyAssumption, LenProperties DEF Inv, Timed, Paced
  <2>3. bound \in Nat \ {0}
    BY <2>2
  <2>4. ASSUME NEW k \in 2..Len(s) PROVE s[k] * Second < bound
    <3>1. k \in DOMAIN s \ first[c]
      BY <2>2, <2>4
    <3> QED BY <2>1, <3>1 DEF Inv, MeasuredWithin
  <2> HIDE DEF bound
  <2>5. mean_rtt(s) \in Nat /\ mean_rtt(s) * Second < bound
    BY <2>1, <2>2, <2>3, <2>4, MeanBounded
  <2>6. Second = 2 * (Second \div 2) /\ Second \div 2 \in Nat
    BY <2>2
  <2>7. ASSUME NEW x \in Nat, NEW y \in Nat PROVE x * (2 * y) = 2 * (x * y)
    BY SMT
  <2>8. 2 * Delay(c) = mean_rtt(s) * Second
    BY <2>1, <2>5, <2>6, <2>7 DEF Delay, estimate_send_t
  <2> QED BY <2>5, <2>8 DEF bound
<1> QED BY PacedInvariant, <1>1, PTL
=============================================================================
