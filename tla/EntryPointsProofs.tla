-------------------------- MODULE EntryPointsProofs --------------------------
(***************************************************************************)
(* What ParseResult::parse makes of a command line, whatever is typed: no  *)
(* argument is overwritten before it is read, the words that are left are  *)
(* the right ones, an option has the meaning of the last text it was given *)
(* and only what is wrong is refused.  Hence main finds every value that   *)
(* it takes.                                                               *)
(***************************************************************************)
EXTENDS EntryPoints, SequenceTheorems, FiniteSetTheorems,
        NaturalsInduction, WellFoundedInduction, TLAPS

\* UnreadIntact is inductive once the arrays are known to hold words and argc,
\* where the reading ends, to be that of the line as typed until the array is
\* cut at the very end.
Inv ==
    /\ typed \in Seq(Words)
    /\ argv \in Seq(Words)
    /\ argc \in Nat /\ current \in Nat /\ nextKeep \in Nat
    /\ phase # "parsed" => argc = Len(typed) + 1
    /\ UnreadIntact

\* Nothing is read or written before the first step: the array is the line as
\* typed (ParseResult::parse, current and nextKeep start at 1).
LEMMA InitInv == MainInit => Inv
  BY CommandLinesAssumption, SMT DEF MainInit, Init, Inv, UnreadIntact

\* argv[nextKeep] = argv[current] writes at a place already read, because no
\* more words were kept than read.
LEMMA KeepInv ==
    ASSUME Inv, current # argc, phase # "parsed", Keep,
           UNCHANGED <<typed, argc>>, phase' # "parsed"
    PROVE  Inv'
  <1>1. current \in 1..Len(argv) /\ nextKeep \in 1..Len(argv)
    BY SMT DEF Inv, UnreadIntact
  <1>2. Word \in Words
    BY <1>1, SMT DEF Inv, Word
  <1>3. argv' \in Seq(Words) /\ Len(argv') = Len(argv)
    BY <1>1, <1>2, SMT DEF Inv, Keep
  <1>4. ASSUME NEW k \in (current + 1)..Len(typed)
        PROVE  argv'[k] = typed[k]
    BY <1>1, <1>4, SMT DEF Inv, UnreadIntact, Keep
  <1>5. QED
    BY <1>1, <1>3, <1>4, SMT DEF Inv, UnreadIntact, Keep

\* An option reads one word or, if the word after it is its argument, two; in
\* the second case checked_parse_arg has seen that there is one.
LEMMA ReadInv == ASSUME Inv, ReadOption PROVE Inv'
  <1>1. /\ Unread /\ Accepted(Word)
        /\ current' = current + (IF TakesNext(Word) THEN 2 ELSE 1)
        /\ UNCHANGED <<phase, typed, argv, argc, nextKeep>>
    BY Zenon DEF ReadOption
  <1>2. current' \in {current + 1, current + 2} /\ current' <= argc
    <2>1. CASE TakesNext(Word)
      <3>1. ~NoneLeft
        BY <1>1, <2>1, Zenon DEF Accepted
      <3>2. current' = current + 2
        BY <1>1, <2>1
      <3>3. QED
        BY <3>1, <3>2, SMT DEF Inv, NoneLeft
    <2>2. CASE ~TakesNext(Word)
      <3>1. current' = current + 1
        BY <1>1, <2>2
      <3>2. QED
        BY <1>1, <3>1, SMT DEF Unread, Inv, UnreadIntact
    <2>3. QED
      BY <2>1, <2>2
  <1>3. QED
    BY <1>1, <1>2, SMT DEF Unread, Inv, UnreadIntact

\* Every step of either program keeps Inv.
LEMMA StepInv == ASSUME Inv, [Next]_vars PROVE Inv'
  <1>1. CASE ReadOption
    BY <1>1, ReadInv
  <1>2. CASE RefuseWord
    BY <1>2, SMT DEF RefuseWord, Unread, Inv, UnreadIntact
  <1>3. CASE KeepPlain
    BY <1>3, KeepInv DEF KeepPlain, Unread
  <1>4. CASE Stop
    BY <1>4, SMT DEF Stop, PastStop, Unread, Inv, UnreadIntact
  <1>5. CASE Defaults
    BY <1>5, SMT DEF Defaults, Inv, UnreadIntact
  <1>6. CASE KeepRest
    BY <1>6, KeepInv DEF KeepRest
  <1>7. CASE Shrink
    BY <1>7, SMT DEF Shrink, Inv, UnreadIntact
  <1>8. CASE Main
    BY <1>8, SMT DEF Main, parserVars, Inv, UnreadIntact
  <1>9. CASE UNCHANGED vars
    BY <1>9, SMT DEF vars, parserVars, Inv, UnreadIntact
  <1>10. QED
    BY <1>1, <1>2, <1>3, <1>4, <1>5, <1>6, <1>7, <1>8, <1>9 DEF Next, Parse

\* No word is overwritten before ParseResult::parse has read it, the kept words
\* fit below those read, and current never goes past argc.
THEOREM NoWordOverwritten == Spec => []UnreadIntact
  <1>1. Inv => UnreadIntact
    BY DEF Inv
  <1>2. QED
    BY InitInv, StepInv, <1>1, PTL DEF Spec

-----------------------------------------------------------------------------
(* Induction and recursion over the natural numbers, for sets and functions *)

\* A pair of natural numbers, the lower one first.
Lower == {pair \in Nat \X Nat : pair[1] < pair[2]}

\* A set with 0, and with the successor of each of its numbers, has them all.
LEMMA SetInduction ==
    ASSUME NEW S, 0 \in S, \A k \in Nat : k \in S => k + 1 \in S
    PROVE  Nat \subseteq S
<1> SUFFICES ASSUME Nat \ S # {} PROVE FALSE
  OBVIOUS
<1>1. IsWellFoundedOn(Lower, Nat)
  BY NatLessThanWellFounded DEF Lower, OpToRel
<1>2. PICK x \in Nat \ S : \A y \in Nat \ S : ~(<<y, x>> \in Lower)
  <2> DEFINE T == Nat \ S
  <2>1. T \subseteq Nat /\ T # {}
    OBVIOUS
  <2> HIDE DEF T
  <2>2. \E x \in T : \A y \in T : ~(<<y, x>> \in Lower)
    BY <1>1, <2>1, WFMin
  <2> QED BY <2>2 DEF T
<1>3. x - 1 \in Nat /\ <<x - 1, x>> \in Lower
  BY DEF Lower
<1>4. x - 1 \in S
  BY <1>2, <1>3
<1> QED BY <1>3, <1>4

\* f starts with base and goes on by step, up to n.
Goes(f, base, step, n) ==
    f[0] = base /\ \A k \in 1..n : f[k] = step[<<k, f[k - 1]>>]

\* The recursion f[0] = base, f[k] = step[<<k, f[k - 1]>>] defines a function on
\* 0..top, with values in V if the base and every step have theirs there.
LEMMA RecursionExists ==
    ASSUME NEW V, NEW base \in V, NEW top \in Nat, NEW step \in [(1..top) \X V -> V]
    PROVE  \E f \in [0..top -> V] : Goes(f, base, step, top)
<1> DEFINE S == {n \in Nat : n <= top => \E f \in [0..n -> V] : Goes(f, base, step, n)}
<1>1. 0 \in S
  <2> DEFINE f == [l \in 0..0 |-> base]
  <2>1. f \in [0..0 -> V] /\ f[0] = base /\ 1..0 = {}
    OBVIOUS
  <2> HIDE DEF f
  <2>2. Goes(f, base, step, 0)
    BY <2>1 DEF Goes
  <2> QED BY <2>1, <2>2
<1>2. ASSUME NEW n \in Nat, n \in S, n + 1 <= top
      PROVE  \E g \in [0..(n + 1) -> V] : Goes(g, base, step, n + 1)
  <2>1. PICK f \in [0..n -> V] : Goes(f, base, step, n)
    BY <1>2
  <2>2. f[0] = base /\ \A k \in 1..n : f[k] = step[<<k, f[k - 1]>>]
    BY <2>1 DEF Goes
  <2> DEFINE v == step[<<n + 1, f[n]>>]
  <2>3. v \in V
    <3>1. n + 1 \in 1..top /\ n \in 0..n
      BY <1>2
    <3>2. <<n + 1, f[n]>> \in (1..top) \X V
      BY <2>1, <3>1
    <3> QED BY <3>2
  <2> HIDE DEF v
  <2> DEFINE g == [l \in 0..(n + 1) |-> IF l = n + 1 THEN v ELSE f[l]]
  <2>4. g \in [0..(n + 1) -> V] /\ g[n + 1] = v /\ \A l \in 0..n : g[l] = f[l]
    BY <2>1, <2>3
  <2> HIDE DEF g
  <2>5. ASSUME NEW k \in 1..(n + 1) PROVE g[k] = step[<<k, g[k - 1]>>]
    <3>1. k - 1 \in 0..n /\ (k = n + 1 => k - 1 = n) /\ (k # n + 1 => k \in 1..n /\ k \in 0..n)
      OBVIOUS
    <3>2. g[k - 1] = f[k - 1]
      BY <2>4, <3>1
    <3>3. CASE k = n + 1
      BY <2>4, <3>1, <3>2, <3>3 DEF v
    <3>4. CASE k # n + 1
      BY <2>2, <2>4, <3>1, <3>2, <3>4
    <3> QED BY <3>3, <3>4
  <2>6. 0 \in 0..n
    OBVIOUS
  <2>7. Goes(g, base, step, n + 1)
    BY <2>2, <2>4, <2>5, <2>6 DEF Goes
  <2> QED BY <2>4, <2>7
<1>3. \A n \in Nat : n \in S => n + 1 \in S
  BY <1>2
<1> HIDE DEF S
<1>4. Nat \subseteq S
  BY <1>1, <1>3, SetInduction
<1>5. top \in S
  BY <1>4
<1> QED BY <1>5 DEF S

\* What a function starts with and keeps at every step, all its values are.
LEMMA RecursionTyped ==
    ASSUME NEW V, NEW top \in Nat, NEW f, f[0] \in V,
           \A k \in 1..top : f[k - 1] \in V => f[k] \in V
    PROVE  \A k \in 0..top : f[k] \in V
<1> DEFINE S == {k \in Nat : k <= top => f[k] \in V}
<1>1. 0 \in S
  OBVIOUS
<1>2. ASSUME NEW k \in Nat, k \in S, k + 1 <= top PROVE f[k + 1] \in V
  <2>1. k + 1 \in 1..top /\ (k + 1) - 1 = k /\ f[k] \in V
    BY <1>2
  <2> HIDE DEF S
  <2> QED BY <2>1
<1>3. \A k \in Nat : k \in S => k + 1 \in S
  BY <1>2
<1> HIDE DEF S
<1>4. Nat \subseteq S
  BY <1>1, <1>3, SetInduction
<1> QED BY <1>4 DEF S

-----------------------------------------------------------------------------
(* Numbers *)

\* up[k] is the number that the first k digits stand for.
IsNumber(up, digits, base) ==
    up = [k \in 0..Len(digits) |->
            IF k = 0 THEN 0 ELSE up[k - 1] * base + digits[k]]

\* What a text is made of.
LEMMA TextFacts ==
    ASSUME NEW text \in Texts
    PROVE  /\ Base(text) \in {10, 16}
           /\ text.digits \in Seq(0..35) /\ text.negative \in BOOLEAN
           /\ Len(text.digits) \in Nat
           /\ \A k \in 1..Len(text.digits) : text.digits[k] \in 0..35
           /\ DOMAIN text.digits = 1..Len(text.digits)
<1>1. text.digits \in Seq(0..35) /\ text.negative \in BOOLEAN
  BY DEF Texts
<1>2. Base(text) \in {10, 16}
  BY DEF Base
<1> QED BY <1>1, <1>2, LenProperties

\* Number counts up through the digits.
LEMMA NumberUnfolds ==
    ASSUME NEW text \in Texts
    PROVE  \E up \in [0..Len(text.digits) -> Nat] :
                /\ up[0] = 0
                /\ \A k \in 1..Len(text.digits) :
                        up[k] = up[k - 1] * Base(text) + text.digits[k]
                /\ Number(text) = IF text.negative THEN -up[Len(text.digits)]
                                  ELSE up[Len(text.digits)]
<1> DEFINE d == text.digits
           b == Base(text)
           n == Len(text.digits)
           step == [p \in (1..n) \X Nat |-> p[2] * b + d[p[1]]]
<1>1. n \in Nat /\ b \in Nat /\ \A k \in 1..n : d[k] \in Nat
  <2>1. n \in Nat /\ b \in {10, 16} /\ \A k \in 1..n : d[k] \in 0..35
    BY TextFacts
  <2> HIDE DEF n, b, d
  <2> QED BY <2>1
<1> HIDE DEF n, b, d
<1>2. step \in [(1..n) \X Nat -> Nat]
  <2>1. ASSUME NEW k \in 1..n, NEW x \in Nat PROVE x * b + d[k] \in Nat
    <3>1. x * b \in Nat
      BY <1>1, SMT
    <3> QED BY <1>1, <3>1
  <2> QED BY <2>1
<1>3. \A k \in 1..n : \A x \in Nat : step[<<k, x>>] = x * b + d[k]
  OBVIOUS
<1> HIDE DEF step
<1>4. PICK f \in [0..n -> Nat] : Goes(f, 0, step, n)
  BY <1>1, <1>2, RecursionExists
<1>5. \A k \in 1..n : f[k] = f[k - 1] * b + d[k]
  <2> TAKE k \in 1..n
  <2>1. f[k - 1] \in Nat /\ f[k] = step[<<k, f[k - 1]>>]
    BY <1>1, <1>4 DEF Goes
  <2> QED BY <1>3, <2>1
<1>6. IsNumber(f, d, b)
  <2>1. \A k \in 0..n : f[k] = IF k = 0 THEN 0 ELSE f[k - 1] * b + d[k]
    <3> TAKE k \in 0..n
    <3>1. k = 0 \/ k \in 1..n
      BY <1>1
    <3>2. f[0] = 0 /\ \A l \in 1..n : l # 0
      BY <1>1, <1>4 DEF Goes
    <3> QED BY <1>5, <3>1, <3>2
  <2> QED BY <2>1 DEF IsNumber, n, d
<1> DEFINE up == CHOOSE g : IsNumber(g, d, b)
<1>7. IsNumber(up, d, b)
  BY <1>6
<1>8. Number(text) = IF text.negative THEN -up[n] ELSE up[n]
  BY DEF Number, IsNumber, n, d, b
<1> HIDE DEF up
<1>9. up = [k \in 0..n |-> up[k]] /\ \A k \in 0..n : up[k] = IF k = 0 THEN 0 ELSE up[k - 1] * b + d[k]
  BY <1>7 DEF IsNumber, n, d
<1>10. up[0] = 0 /\ \A k \in 1..n : up[k] = up[k - 1] * b + d[k]
  <2>1. 0 \in 0..n /\ \A k \in 1..n : k \in 0..n /\ k # 0
    BY <1>1
  <2> QED BY <1>9, <2>1
<1>11. ASSUME NEW k \in 1..n, up[k - 1] \in Nat PROVE up[k] \in Nat
  <2>1. up[k] = up[k - 1] * b + d[k] /\ d[k] \in Nat
    BY <1>1, <1>10
  <2>2. up[k - 1] * b \in Nat
    BY <1>1, <1>11, SMT
  <2> QED BY <2>1, <2>2
<1>12. \A k \in 0..n : up[k] \in Nat
  <2>1. up[0] \in Nat
    BY <1>10
  <2> QED BY <1>1, <1>11, <2>1, RecursionTyped
<1>13. up \in [0..n -> Nat]
  BY <1>9, <1>12
<1> QED BY <1>8, <1>10, <1>13 DEF n, d, b

\* result[k] is what integer_parser holds after the first k digits.
IsResult(result, digits, base) ==
    result = [k \in 0..Len(digits) |->
                IF k = 0 THEN 0 ELSE NextDigit(base, result[k - 1], digits[k])]

\* The loop of integer_parser goes from digit to digit.
LEMMA MagnitudeUnfolds ==
    ASSUME NEW text \in Texts
    PROVE  \E result : /\ result[0] = 0
                       /\ \A k \in 1..Len(text.digits) :
                            result[k] = NextDigit(Base(text), result[k - 1], text.digits[k])
                       /\ Magnitude(text) = result[Len(text.digits)]
<1> DEFINE d == text.digits
           b == Base(text)
           n == Len(text.digits)
           step == [p \in (1..n) \X Int |-> NextDigit(b, p[2], d[p[1]])]
<1>1. n \in Nat /\ b \in Nat /\ \A k \in 1..n : d[k] \in Nat
  <2>1. n \in Nat /\ b \in {10, 16} /\ \A k \in 1..n : d[k] \in 0..35
    BY TextFacts
  <2> HIDE DEF n, b, d
  <2> QED BY <2>1
<1> HIDE DEF n, b, d
<1>2. step \in [(1..n) \X Int -> Int]
  <2>1. ASSUME NEW k \in 1..n, NEW x \in Int PROVE NextDigit(b, x, d[k]) \in Int
    <3>1. x * b + d[k] \in Int /\ UMax + 1 \in Nat /\ UMax + 1 > 0
      <4>1. x * b \in Int
        BY <1>1, SMT
      <4> QED BY <1>1, <4>1, IntMaxAssumption DEF UMax
    <3>2. \A u \in Int : \A v \in Nat : v > 0 => u % v \in Int
      BY SMT
    <3> QED BY <3>1, <3>2 DEF NextDigit
  <2> QED BY <2>1
<1>3. \A k \in 1..n : \A x \in Int : step[<<k, x>>] = NextDigit(b, x, d[k])
  OBVIOUS
<1> HIDE DEF step
<1>4. PICK f \in [0..n -> Int] : Goes(f, 0, step, n)
  <2>1. 0 \in Int
    OBVIOUS
  <2> QED BY ONLY <1>1, <1>2, <2>1, RecursionExists
<1>5. \A k \in 1..n : f[k] = NextDigit(b, f[k - 1], d[k])
  <2> TAKE k \in 1..n
  <2>1. f[k - 1] \in Int /\ f[k] = step[<<k, f[k - 1]>>]
    BY <1>1, <1>4 DEF Goes
  <2> QED BY <1>3, <2>1
<1>6. IsResult(f, d, b)
  <2>1. \A k \in 0..n : f[k] = IF k = 0 THEN 0 ELSE NextDigit(b, f[k - 1], d[k])
    <3> TAKE k \in 0..n
    <3>1. k = 0 \/ k \in 1..n
      BY <1>1
    <3>2. f[0] = 0 /\ \A l \in 1..n : l # 0
      BY <1>1, <1>4 DEF Goes
    <3> QED BY <1>5, <3>1, <3>2
  <2> QED BY <2>1 DEF IsResult, n, d
<1> DEFINE result == CHOOSE g : IsResult(g, d, b)
<1>7. IsResult(result, d, b)
  BY <1>6
<1>8. Magnitude(text) = result[n]
  BY DEF Magnitude, IsResult, n, d, b
<1> HIDE DEF result
<1>9. \A k \in 0..n : result[k] = IF k = 0 THEN 0 ELSE NextDigit(b, result[k - 1], d[k])
  BY <1>7 DEF IsResult, n, d
<1>10. result[0] = 0 /\ \A k \in 1..n : result[k] = NextDigit(b, result[k - 1], d[k])
  <2>1. 0 \in 0..n /\ \A k \in 1..n : k \in 0..n /\ k # 0
    BY <1>1
  <2> QED BY <1>9, <2>1
<1> QED BY <1>8, <1>10 DEF n, d, b

\* The number read so far, with d the digits to the base b.
Reading(n, b, d, up) ==
    /\ n \in Nat /\ b \in {10, 16} /\ up \in [0..n -> Nat]
    /\ \A k \in 1..n : d[k] \in Nat /\ up[k] = up[k - 1] * b + d[k]

\* A number only grows from digit to digit.
LEMMA NumberGrows ==
    ASSUME NEW n, NEW b, NEW d, NEW up, Reading(n, b, d, up)
    PROVE  \A k \in 0..n : up[k] <= up[n]
<1> USE DEF Reading
<1> DEFINE S == {k \in Nat : k <= n => up[n - k] <= up[n]}
<1>1. 0 \in S
  <2>1. n - 0 = n /\ up[n] \in Nat
    OBVIOUS
  <2> QED BY <2>1
<1>2. ASSUME NEW k \in Nat, k \in S, k + 1 <= n PROVE up[n - (k + 1)] <= up[n]
  <2>1. n - k \in 1..n /\ n - (k + 1) = (n - k) - 1 /\ n - (k + 1) \in 0..n
    BY <1>2
  <2>2. up[n - k] <= up[n]
    BY <1>2
  <2> HIDE DEF S
  <2>3. up[n - k] = up[n - (k + 1)] * b + d[n - k] /\ d[n - k] \in Nat
    BY <2>1
  <2>4. up[n - k] \in Nat /\ up[n - (k + 1)] \in Nat /\ up[n] \in Nat
    BY <2>1
  <2>5. up[n - (k + 1)] <= up[n - (k + 1)] * b
    BY <2>4
  <2> QED BY <2>2, <2>3, <2>4, <2>5
<1>3. \A k \in Nat : k \in S => k + 1 \in S
  BY <1>2
<1> HIDE DEF S
<1>4. Nat \subseteq S
  BY <1>1, <1>3, SetInduction
<1>5. ASSUME NEW k \in 0..n PROVE up[k] <= up[n]
  <2>1. n - k \in Nat /\ n - k <= n /\ n - (n - k) = k
    OBVIOUS
  <2>2. n - k \in S
    BY <1>4, <2>1
  <2> QED BY <2>1, <2>2 DEF S
<1> QED BY <1>5

\* Digits are numbers.
LEMMA DigitsAreNumbers == \A x \in 0..35 : x \in Nat
  OBVIOUS

\* The overflow check multiplies in the type it guards, but a number that an
\* int can hold never comes near its end: it is read as it stands.
LEMMA IntegersRead ==
    ASSUME NEW text \in Texts, text.digits # <<>>,
           \A k \in DOMAIN text.digits : text.digits[k] < Base(text),
           Number(text) \in -IntMax - 1..IntMax
    PROVE  integer_parser(text) = {Number(text)}
<1> DEFINE d == text.digits
           b == Base(text)
           n == Len(text.digits)
<1>1. /\ n \in Nat /\ b \in {10, 16} /\ \A k \in 1..n : d[k] \in 0..35 /\ d[k] < b
      /\ n \in 0..n /\ IntMax \in Nat /\ text.negative \in BOOLEAN
  BY TextFacts, IntMaxAssumption
<1>2. PICK up \in [0..n -> Nat] :
            /\ up[0] = 0
            /\ \A k \in 1..n : up[k] = up[k - 1] * b + d[k]
            /\ Number(text) = IF text.negative THEN -up[n] ELSE up[n]
  BY NumberUnfolds
<1>3. PICK result : /\ result[0] = 0
                    /\ \A k \in 1..n : result[k] = NextDigit(b, result[k - 1], d[k])
                    /\ Magnitude(text) = result[n]
  BY MagnitudeUnfolds
<1>4. up[n] \in Nat /\ up[n] <= IF text.negative THEN IntMax + 1 ELSE IntMax
  BY <1>1, <1>2
<1> HIDE DEF n, b, d
<1>digit. \A k \in 1..n : d[k] \in Nat /\ d[k] < b
  <2> TAKE k \in 1..n
  <2>1. d[k] \in 0..35 /\ d[k] < b
    BY ONLY <1>1, k \in 1..n
  <2> QED BY ONLY <2>1, DigitsAreNumbers
<1>5. \A k \in 0..n : up[k] \in Nat /\ up[k] <= UMax
  <2>1. \A k \in 0..n : up[k] <= up[n]
    <3>1. \A k \in 1..n : d[k] \in Nat /\ up[k] = up[k - 1] * b + d[k]
      BY ONLY <1>digit, <1>2, Zenon
    <3>2. n \in Nat /\ b \in {10, 16} /\ up \in [0..n -> Nat]
      BY ONLY <1>1, up \in [0..n -> Nat]
    <3>3. Reading(n, b, d, up)
      BY ONLY <3>1, <3>2 DEF Reading
    <3> QED BY ONLY <3>3, NumberGrows
  <2>2. up[n] <= UMax
    BY <1>1, <1>4 DEF UMax
  <2>3. UMax \in Nat
    BY <1>1 DEF UMax
  <2> QED BY <1>2, <1>4, <2>1, <2>2, <2>3
<1>6. ASSUME NEW k \in 1..n, result[k - 1] = up[k - 1] PROVE result[k] = up[k]
  <2>1. /\ k - 1 \in 0..n /\ k \in 0..n
        /\ result[k] = NextDigit(b, up[k - 1], d[k])
        /\ up[k] = up[k - 1] * b + d[k]
    BY <1>1, <1>2, <1>3, <1>6
  <2>2. /\ up[k - 1] \in Nat /\ up[k] \in Nat /\ up[k] <= UMax /\ d[k] \in Nat /\ d[k] < b
        /\ UMax \in Nat
    <3>1. d[k] \in Nat /\ d[k] < b
      BY ONLY <1>digit, k \in 1..n
    <3>2. UMax \in Nat
      BY <1>1 DEF UMax
    <3>3. up[k - 1] \in Nat /\ up[k] \in Nat /\ up[k] <= UMax
      BY ONLY <1>5, <2>1
    <3> QED BY ONLY <3>1, <3>2, <3>3
  <2>3. PICK x, y, z : x = up[k - 1] * b /\ y = up[k] /\ z = d[k]
    OBVIOUS
  <2>4. x \in Nat
    <3>1. \A u \in Nat, v \in {10, 16} : u * v \in Nat
      OBVIOUS
    <3> QED BY <1>1, <2>2, <2>3, <3>1
  <2>5. y = x + z /\ y \in Nat /\ z \in Nat /\ y <= UMax
    BY <2>1, <2>2, <2>3
  <2>6. x % (UMax + 1) = x /\ y % (UMax + 1) = y
    <3>1. \A u \in Nat : \A v \in Nat : u < v => u % v = u
      BY SMT
    <3>2. UMax + 1 \in Nat /\ x < UMax + 1 /\ y < UMax + 1
      BY <2>2, <2>4, <2>5
    <3> QED BY <2>4, <2>5, <3>1, <3>2
  <2>7. ~(up[k - 1] = -1) /\ ~(d[k] >= b) /\ ~(UMax - z < x)
    <3>1. \A u \in Nat : u # -1
      OBVIOUS
    <3>2. \A u, v \in Nat : u < v => ~(u >= v)
      OBVIOUS
    <3>3. \A u, v, w, m \in Nat : w = u + v /\ w <= m => ~(m - v < u)
      OBVIOUS
    <3>4. b \in Nat
      BY ONLY <1>1
    <3>5. ~(up[k - 1] = -1) /\ ~(d[k] >= b)
      BY ONLY <2>2, <3>1, <3>2, <3>4
    <3>6. ~(UMax - z < x)
      BY ONLY <2>2, <2>4, <2>5, <3>3
    <3> QED BY <3>5, <3>6
  <2> QED BY <2>1, <2>3, <2>5, <2>6, <2>7 DEF NextDigit
<1>7. \A k \in 0..n : result[k] = up[k]
  <2> DEFINE S == {k \in Nat : k <= n => result[k] = up[k]}
  <2>1. 0 \in S
    BY <1>2, <1>3
  <2>2. ASSUME NEW k \in Nat, k \in S, k + 1 <= n PROVE result[k + 1] = up[k + 1]
    <3>1. k + 1 \in 1..n /\ (k + 1) - 1 = k /\ result[k] = up[k]
      BY <1>1, <2>2
    <3> HIDE DEF S
    <3> QED BY <1>6, <3>1
  <2>3. \A k \in Nat : k \in S => k + 1 \in S
    BY <2>2
  <2> HIDE DEF S
  <2>4. Nat \subseteq S
    BY <2>1, <2>3, SetInduction
  <2> QED BY <1>1, <2>4 DEF S
<1>8. Magnitude(text) = up[n]
  BY <1>1, <1>3, <1>7
<1>9. text.digits # <<>> /\ up[n] # -1 /\ InSignedRange(text.negative, up[n])
  BY <1>4 DEF InSignedRange
<1> QED BY <1>2, <1>8, <1>9 DEF integer_parser

\* A text that the type of an option can hold is given its meaning.
LEMMA ParseMeans ==
    ASSUME NEW o \in OptionDetails, NEW text \in Texts, Fits(o, text)
    PROVE  parse_value(o.type, text) = {Meaning(o, text)}
<1>1. o.type \in {"int", "bool", "string"}
  BY DEF OptionDetails
<1>2. CASE o.type = "int"
  <2>1. /\ text.digits # <<>> /\ \A k \in DOMAIN text.digits : text.digits[k] < Base(text)
        /\ Number(text) \in -IntMax - 1..IntMax
    BY <1>2 DEF Fits
  <2>2. integer_parser(text) = {Number(text)}
    BY <2>1, IntegersRead
  <2> QED BY <1>2, <2>2 DEF parse_value, Meaning
<1>3. CASE o.type = "bool"
  BY <1>3 DEF Fits, parse_value, Meaning
<1>4. CASE o.type = "string"
  BY <1>4 DEF parse_value, Meaning
<1> QED BY <1>1, <1>2, <1>3, <1>4

-----------------------------------------------------------------------------
(* Words and what they are *)

\* What the words of a command line are made of.
LEMMA WordFacts ==
    ASSUME Inv, NEW k \in 1..Len(typed)
    PROVE  /\ typed[k] \in Words
           /\ typed[k].form \in {"plain", "short", "long", "stop"}
           /\ typed[k].names \in Seq(STRING \ {""}) /\ typed[k].argument \in Seq(Texts)
           /\ typed[k].text \in Texts
           /\ Len(typed[k].names) \in Nat /\ DOMAIN typed[k].names = 1..Len(typed[k].names)
           /\ \A i \in 1..Len(typed[k].names) : typed[k].names[i] \in STRING \ {""}
           /\ typed[k].form \in {"short", "long"} => Len(typed[k].names) \in 1..Len(typed[k].names)
           /\ typed[k].argument # <<>> => typed[k].argument[1] \in Texts
<1>1. PICK w : w = typed[k]
  OBVIOUS
<1>2. w \in Words
  BY <1>1, ElementOfSeq DEF Inv
<1>3. /\ w.form \in {"plain", "short", "long", "stop"}
      /\ w.names \in Seq(STRING \ {""}) /\ w.argument \in Seq(Texts) /\ w.text \in Texts
      /\ w.form \in {"short", "long"} => w.names # <<>>
  BY <1>2 DEF Words
<1>4. /\ Len(w.names) \in Nat /\ DOMAIN w.names = 1..Len(w.names)
      /\ \A i \in 1..Len(w.names) : w.names[i] \in STRING \ {""}
  BY <1>3, LenProperties, ElementOfSeq
<1>5. w.names # <<>> => Len(w.names) \in 1..Len(w.names)
  <2>1. w.names # <<>> => Len(w.names) # 0
    BY <1>3, EmptySeq
  <2>2. \A n \in Nat : n # 0 => n \in 1..n
    OBVIOUS
  <2> QED BY <1>4, <2>1, <2>2
<1>6. w.argument # <<>> => w.argument[1] \in Texts
  <2>1. w.argument # <<>> => Len(w.argument) # 0 /\ Len(w.argument) \in Nat
    BY <1>3, EmptySeq, LenProperties
  <2>2. w.argument # <<>> => 1 \in 1..Len(w.argument)
    BY <2>1
  <2> QED BY <1>3, <2>2, ElementOfSeq
<1> QED BY <1>1, <1>2, <1>3, <1>4, <1>5, <1>6

\* No two options answer to one name.
LEMMA NamedOne ==
    ASSUME declared \in Programs, NEW name, name # "", NEW o \in Named(name)
    PROVE  Named(name) = {o} /\ o \in declared /\ o \in OptionDetails
<1>1. \A p \in Named(name) : p \in declared /\ name \in {p.short, p.long}
  BY DEF Named
<1>2. o \in OptionDetails
  BY <1>1, ProgramsAssumption
<1>3. ASSUME NEW p \in Named(name) PROVE p = o
  <2>1. name \in ({o.short, o.long} \cap {p.short, p.long}) \ {""}
    BY <1>1
  <2> QED BY <1>1, <2>1, ProgramsAssumption
<1> QED BY <1>1, <1>2, <1>3

Roles == {"start", "flag", "argument", "plain", "stop", "rest"}

\* What the word is when it is not taken for an argument, before the "--".
Own(w) == IF w.form \in {"short", "long"} THEN "flag" ELSE w.form

\* The flag at k needs the word after it.
Needs(k) == /\ typed[k].argument = <<>>
            /\ \E o \in Named(Last(typed[k].names)) : o.implicit = <<>>

\* What a word is depends on the one before it.
After(before, k) ==
    IF before \in {"stop", "rest"} THEN "rest"
    ELSE IF before = "flag" /\ Needs(k - 1) THEN "argument"
    ELSE Own(typed[k])

\* Role, written with After.
LEMMA RoleMeans ==
    ASSUME NEW f
    PROVE  f = [k \in 0..Len(typed) |->
                  CASE k = 0 -> "start"
                    [] k > 0 /\ f[k - 1] \in {"stop", "rest"} -> "rest"
                    [] k > 0 /\ f[k - 1] = "flag" /\ typed[k - 1].argument = <<>>
                             /\ \E o \in Named(Last(typed[k - 1].names)) : o.implicit = <<>>
                       -> "argument"
                    [] OTHER -> IF typed[k].form \in {"short", "long"} THEN "flag"
                                ELSE typed[k].form]
           <=> f = [k \in 0..Len(typed) |-> IF k = 0 THEN "start" ELSE After(f[k - 1], k)]
<1>1. ASSUME NEW k \in 0..Len(typed)
      PROVE  (CASE k = 0 -> "start"
                [] k > 0 /\ f[k - 1] \in {"stop", "rest"} -> "rest"
                [] k > 0 /\ f[k - 1] = "flag" /\ typed[k - 1].argument = <<>>
                         /\ \E o \in Named(Last(typed[k - 1].names)) : o.implicit = <<>>
                   -> "argument"
                [] OTHER -> IF typed[k].form \in {"short", "long"} THEN "flag"
                            ELSE typed[k].form)
             = IF k = 0 THEN "start" ELSE After(f[k - 1], k)
  <2>1. CASE k = 0
    BY <2>1
  <2>2. CASE k # 0
    BY <2>2 DEF After, Needs, Own
  <2> QED BY <2>1, <2>2
<1> QED BY <1>1

\* Role follows After from word to word.
LEMMA RoleFacts ==
    ASSUME Inv
    PROVE  /\ Role[0] = "start"
           /\ \A k \in 1..Len(typed) : Role[k] = After(Role[k - 1], k)
           /\ \A k \in 0..Len(typed) : Role[k] \in Roles
<1> DEFINE n == Len(typed)
           step == [p \in (1..n) \X Roles |-> After(p[2], p[1])]
<1>1. n \in Nat /\ \A k \in 1..n : typed[k].form \in {"plain", "short", "long", "stop"}
  BY WordFacts, LenProperties DEF Inv
<1>2. \A k \in 1..n : \A x \in Roles : After(x, k) \in Roles
  BY <1>1 DEF After, Own, Roles
<1> HIDE DEF n
<1>3. step \in [(1..n) \X Roles -> Roles]
  BY <1>2
<1>4. \A k \in 1..n : \A x \in Roles : step[<<k, x>>] = After(x, k)
  OBVIOUS
<1> HIDE DEF step
<1>5. PICK f \in [0..n -> Roles] : Goes(f, "start", step, n)
  <2>1. "start" \in Roles
    BY DEF Roles
  <2> QED BY ONLY <1>1, <1>3, <2>1, RecursionExists
<1>6. f = [k \in 0..n |-> IF k = 0 THEN "start" ELSE After(f[k - 1], k)]
  <2>1. ASSUME NEW k \in 1..n PROVE f[k] = After(f[k - 1], k)
    <3>1. f[k - 1] \in Roles /\ f[k] = step[<<k, f[k - 1]>>]
      BY <1>1, <1>5 DEF Goes
    <3> QED BY <1>4, <3>1
  <2>2. \A k \in 0..n : f[k] = IF k = 0 THEN "start" ELSE After(f[k - 1], k)
    <3> TAKE k \in 0..n
    <3>1. k = 0 \/ k \in 1..n
      BY <1>1
    <3>2. f[0] = "start" /\ \A l \in 1..n : l # 0
      BY <1>1, <1>5 DEF Goes
    <3> QED BY <2>1, <3>1, <3>2
  <2> QED BY <2>2
<1>7. \E g : g = [k \in 0..Len(typed) |->
                  CASE k = 0 -> "start"
                    [] k > 0 /\ g[k - 1] \in {"stop", "rest"} -> "rest"
                    [] k > 0 /\ g[k - 1] = "flag" /\ typed[k - 1].argument = <<>>
                             /\ \E o \in Named(Last(typed[k - 1].names)) : o.implicit = <<>>
                       -> "argument"
                    [] OTHER -> IF typed[k].form \in {"short", "long"} THEN "flag"
                                ELSE typed[k].form]
  BY <1>6, RoleMeans DEF n
<1>8. Role = [k \in 0..Len(typed) |->
                  CASE k = 0 -> "start"
                    [] k > 0 /\ Role[k - 1] \in {"stop", "rest"} -> "rest"
                    [] k > 0 /\ Role[k - 1] = "flag" /\ typed[k - 1].argument = <<>>
                             /\ \E o \in Named(Last(typed[k - 1].names)) : o.implicit = <<>>
                       -> "argument"
                    [] OTHER -> IF typed[k].form \in {"short", "long"} THEN "flag"
                                ELSE typed[k].form]
  BY <1>7 DEF Role
<1>9. Role = [k \in 0..n |-> IF k = 0 THEN "start" ELSE After(Role[k - 1], k)]
  BY <1>8, RoleMeans DEF n
<1>10. PICK r : r = Role
  OBVIOUS
<1>11. \A k \in 0..n : r[k] = IF k = 0 THEN "start" ELSE After(r[k - 1], k)
  BY <1>9, <1>10
<1>12. r[0] = "start" /\ \A k \in 1..n : r[k] = After(r[k - 1], k)
  <2>1. 0 \in 0..n /\ \A k \in 1..n : k \in 0..n /\ k # 0
    BY <1>1
  <2> QED BY <1>11, <2>1
<1>13. \A k \in 0..n : r[k] \in Roles
  <2>1. r[0] \in Roles /\ \A k \in 1..n : r[k - 1] \in Roles => r[k] \in Roles
    BY <1>2, <1>12 DEF Roles
  <2> QED BY <1>1, <2>1, RecursionTyped
<1> QED BY <1>10, <1>12, <1>13 DEF n

\* The reference reads the line as it was typed, which does not change.
LEMMA ReferenceSame ==
    ASSUME UNCHANGED <<typed, declared>>
    PROVE  /\ Role' = Role /\ KeptWords' = KeptWords
           /\ \A k : KeptUpTo(k)' = KeptUpTo(k)
           /\ \A k : BadFlag(k)' = BadFlag(k)
           /\ \A o : Givers(o)' = Givers(o)
           /\ \A o, k : TextOf(o, k)' = TextOf(o, k)
<1>1. \A name : Named(name)' = Named(name)
  BY DEF Named
<1>2. Role' = Role
  BY DEF Role, Named
<1>3. KeptWords' = KeptWords
  BY <1>2 DEF KeptWords
<1>4. \A k : KeptUpTo(k)' = KeptUpTo(k)
  BY <1>3 DEF KeptUpTo
<1>5. \A o : Givers(o)' = Givers(o)
  BY <1>1, <1>2 DEF Givers
<1>6. \A o, k : TextOf(o, k)' = TextOf(o, k)
  BY DEF TextOf
<1>7. \A k : BadFlag(k)' = BadFlag(k)
  BY <1>1, <1>2, <1>6 DEF BadFlag
<1> QED BY <1>2, <1>3, <1>4, <1>5, <1>6, <1>7

-----------------------------------------------------------------------------
(* Where the parser is *)

\* Outside the words before the "--" nothing is an option, and before it the
\* next word is not the argument of one.
Placed ==
    /\ declared \in Programs
    /\ phase \in {"words", "defaults", "rest", "parsed", "thrown"}
    /\ phase = "words" /\ current <= Len(typed) => Role[current] = Own(typed[current])
    /\ phase \in {"defaults", "rest"} /\ current <= Len(typed) => Role[current] = "rest"

\* The word the parser looks at is still as it was typed.
LEMMA AtWord ==
    ASSUME Inv, Placed, current # argc, phase # "parsed"
    PROVE  /\ current \in 1..Len(typed) /\ Word = typed[current]
           /\ nextKeep \in 1..current /\ argc = Len(typed) + 1
           /\ Len(typed) \in Nat
           /\ phase = "words" => Role[current] = Own(Word)
           /\ phase = "rest" => Role[current] = "rest"
<1>1. /\ current \in 1..Len(typed) /\ argc = Len(typed) + 1 /\ nextKeep \in 1..current
      /\ Len(typed) \in Nat
  BY LenProperties DEF Inv, UnreadIntact
<1>2. Word = typed[current]
  BY <1>1 DEF Inv, UnreadIntact, Word
<1> QED BY <1>1, <1>2 DEF Placed

\* An option the word names is the one that is meant.
LEMMA OptionMeant ==
    ASSUME Inv, Placed, NEW k \in 1..Len(typed), NEW i \in 1..Len(typed[k].names),
           Named(typed[k].names[i]) # {}
    PROVE  /\ Named(typed[k].names[i]) = {Option(typed[k], i)}
           /\ Option(typed[k], i) \in declared
           /\ Option(typed[k], i) \in OptionDetails
<1>1. typed[k].names[i] \in STRING \ {""}
  BY WordFacts
<1>2. Option(typed[k], i) \in Named(typed[k].names[i])
  BY DEF Option
<1> QED BY <1>1, <1>2, NamedOne DEF Placed

\* checked_parse_arg goes on to the next word for exactly the flags that need it.
LEMMA NeedsNext ==
    ASSUME Inv, Placed, NEW k \in 1..Len(typed), typed[k].form \in {"short", "long"},
           Named(Last(typed[k].names)) # {}
    PROVE  TakesNext(typed[k]) <=> Needs(k)
<1>1. /\ Len(typed[k].names) \in 1..Len(typed[k].names)
      /\ Last(typed[k].names) = typed[k].names[Len(typed[k].names)]
  BY WordFacts DEF Last
<1>2. Named(Last(typed[k].names)) = {Option(typed[k], Len(typed[k].names))}
  BY <1>1, OptionMeant
<1> QED BY <1>2 DEF TakesNext, Needs

\* After an accepted flag, and its argument if it takes one, the next word is
\* what it is of its own.
LEMMA FlagPassed ==
    ASSUME Inv, Placed, Unread, Word.form \in {"short", "long"}, Accepted(Word)
    PROVE  /\ Role[current] = "flag"
           /\ TakesNext(Word) => /\ current + 1 \in 1..Len(typed)
                                 /\ Role[current + 1] = "argument"
                                 /\ current + 2 <= Len(typed) =>
                                        Role[current + 2] = Own(typed[current + 2])
           /\ ~TakesNext(Word) /\ current + 1 <= Len(typed) =>
                Role[current + 1] = Own(typed[current + 1])
<1>1. /\ current \in 1..Len(typed) /\ Word = typed[current] /\ argc = Len(typed) + 1
      /\ Role[current] = "flag" /\ Len(typed) \in Nat
  BY AtWord DEF Unread, Own
<1>2. TakesNext(Word) <=> Needs(current)
  <2>1. /\ Len(Word.names) \in 1..Len(Word.names) /\ DOMAIN Word.names = 1..Len(Word.names)
        /\ Last(Word.names) = Word.names[Len(Word.names)]
    BY <1>1, WordFacts DEF Last
  <2>2. Named(Last(Word.names)) # {}
    BY <2>1 DEF Accepted
  <2> QED BY <1>1, <2>2, NeedsNext
<1>3. ASSUME NEW k \in 1..Len(typed), k + 1 <= Len(typed)
      PROVE  k + 1 \in 1..Len(typed) /\ Role[k + 1] = After(Role[k], k + 1) /\ (k + 1) - 1 = k
  <2>1. k + 1 \in 1..Len(typed) /\ (k + 1) - 1 = k
    BY <1>1, <1>3
  <2> QED BY <2>1, RoleFacts
<1>4. CASE TakesNext(Word)
  <2>1. current + 1 \in 1..Len(typed) /\ current + 1 <= Len(typed)
    <3>1. ~(current + 1 >= argc)
      BY <1>4 DEF Accepted, NoneLeft
    <3> QED BY <1>1, <3>1
  <2>2. Role[current + 1] = "argument"
    BY <1>1, <1>2, <1>3, <1>4, <2>1 DEF After
  <2>3. ASSUME current + 2 <= Len(typed) PROVE Role[current + 2] = Own(typed[current + 2])
    <3>1. (current + 1) + 1 = current + 2
      BY <1>1
    <3>2. Role[current + 2] = After("argument", current + 2)
      BY <1>3, <2>1, <2>2, <2>3, <3>1
    <3> QED BY <3>2 DEF After
  <2> QED BY <1>1, <1>4, <2>1, <2>2, <2>3
<1>5. CASE ~TakesNext(Word)
  <2>1. ASSUME current + 1 <= Len(typed) PROVE Role[current + 1] = Own(typed[current + 1])
    <3>1. Role[current + 1] = After("flag", current + 1) /\ ~Needs((current + 1) - 1)
      BY <1>1, <1>2, <1>3, <1>5, <2>1
    <3> QED BY <3>1 DEF After
  <2> QED BY <1>1, <1>5, <2>1
<1> QED BY <1>4, <1>5

\* At the beginning no flag comes before.
LEMMA InitPlaced == MainInit => Placed
<1> SUFFICES ASSUME MainInit PROVE Placed
  OBVIOUS
<1>1. Inv /\ declared \in Programs /\ phase = "words" /\ current = 1
  BY InitInv DEF MainInit, Init
<1>2. current <= Len(typed) => Role[current] = Own(typed[current])
  <2>1. Len(typed) \in Nat
    BY <1>1, LenProperties DEF Inv
  <2>2. 1 <= Len(typed) => Role[1] = After(Role[1 - 1], 1) /\ Role[1 - 1] = "start"
    BY <1>1, <2>1, RoleFacts
  <2>3. After("start", 1) = Own(typed[1])
    BY DEF After
  <2> QED BY <1>1, <2>2, <2>3
<1> QED BY <1>1, <1>2 DEF Placed

\* Every step leaves the parser at such a place.
LEMMA StepPlaced == ASSUME Inv, Placed, [Next]_vars PROVE Placed'
<1>1. UNCHANGED <<typed, declared>> /\ Role' = Role
  <2>1. UNCHANGED <<typed, declared>>
    BY DEF Next, Parse, Main, ReadOption, RefuseWord, KeepPlain, Stop, Defaults, KeepRest,
           Shrink, vars, parserVars
  <2> QED BY <2>1, ReferenceSame
<1>2. \A k : Own(typed'[k]) = Own(typed[k])
  BY <1>1
<1>3. ASSUME NEW k \in 1..Len(typed), k + 1 <= Len(typed)
      PROVE  Role[k + 1] = After(Role[k], k + 1)
  <2>1. Len(typed) \in Nat
    BY LenProperties DEF Inv
  <2>2. k + 1 \in 1..Len(typed) /\ (k + 1) - 1 = k
    BY <1>3, <2>1
  <2> QED BY <2>2, RoleFacts
<1>4. CASE ReadOption
  <2>1. /\ Unread /\ Word.form \in {"short", "long"} /\ Accepted(Word)
        /\ current' = current + (IF TakesNext(Word) THEN 2 ELSE 1)
        /\ phase' = phase /\ phase = "words"
    BY <1>4, Zenon DEF ReadOption, Unread
  <2>2. current' <= Len(typed) => Role[current'] = Own(typed[current'])
    <3>1. CASE TakesNext(Word)
      BY <2>1, <3>1, FlagPassed
    <3>2. CASE ~TakesNext(Word)
      BY <2>1, <3>2, FlagPassed
    <3> QED BY <3>1, <3>2
  <2> QED BY <1>1, <2>1, <2>2 DEF Placed
<1>5. CASE KeepPlain
  <2>1. /\ current \in 1..Len(typed) /\ Role[current] = Own(Word) /\ Word.form = "plain"
        /\ phase = "words" /\ phase' = phase /\ current' = current + 1
    BY <1>5, AtWord DEF KeepPlain, Unread, Keep
  <2>2. current + 1 <= Len(typed) => Role[current + 1] = Own(typed[current + 1])
    <3>1. Role[current] = "plain"
      BY <2>1 DEF Own
    <3> QED BY <1>3, <2>1, <3>1 DEF After
  <2> QED BY <1>1, <2>1, <2>2 DEF Placed
<1>6. CASE Stop
  <2>1. /\ current \in 1..Len(typed) /\ Role[current] = Own(Word) /\ Word.form = "stop"
        /\ phase' = "defaults" /\ current' = current + 1
    BY <1>6, AtWord DEF Stop, PastStop, Unread
  <2>2. current + 1 <= Len(typed) => Role[current + 1] = "rest"
    <3>1. Role[current] = "stop"
      BY <2>1 DEF Own
    <3> QED BY <1>3, <2>1, <3>1 DEF After
  <2> QED BY <1>1, <2>1, <2>2 DEF Placed
<1>7. CASE KeepRest
  <2>1. /\ current \in 1..Len(typed) /\ Role[current] = "rest"
        /\ phase' = phase /\ phase = "rest" /\ current' = current + 1
    BY <1>7, AtWord DEF KeepRest, Keep
  <2>2. current + 1 <= Len(typed) => Role[current + 1] = "rest"
    BY <1>3, <2>1 DEF After
  <2> QED BY <1>1, <2>1, <2>2 DEF Placed
<1>8. CASE Defaults
  <2>1. /\ phase' = "rest" /\ current' = current
        /\ phase \in {"words", "defaults"}
        /\ phase = "words" => current = argc
    BY <1>8 DEF Defaults
  <2>2. phase = "words" => ~(current <= Len(typed))
    BY <2>1, LenProperties DEF Inv
  <2> QED BY <1>1, <2>1, <2>2 DEF Placed
<1>9. CASE RefuseWord \/ Shrink
  BY <1>1, <1>9 DEF RefuseWord, Shrink, Placed
<1>10. CASE Main \/ UNCHANGED vars
  BY <1>1, <1>10 DEF Main, vars, parserVars, Placed
<1> QED BY <1>4, <1>5, <1>6, <1>7, <1>8, <1>9, <1>10 DEF Next, Parse

-----------------------------------------------------------------------------
(* The words that are kept *)

\* Every number counts for itself, if it is in the set.
LEMMA CountsUp ==
    ASSUME NEW n \in Nat, NEW K \in SUBSET (1..n)
    PROVE  /\ Cardinality({l \in K : l <= 0}) = 0
           /\ \A k \in 0..n : Cardinality({l \in K : l <= k}) \in Nat
           /\ \A k \in 1..n : Cardinality({l \in K : l <= k}) =
                Cardinality({l \in K : l <= k - 1}) + (IF k \in K THEN 1 ELSE 0)
           /\ \A k, l \in 0..n : k <= l =>
                Cardinality({m \in K : m <= k}) <= Cardinality({m \in K : m <= l})
<1> DEFINE Up(k) == {l \in K : l <= k}
<1>1. \A x \in K : x \in 1..n /\ x \in Nat
  OBVIOUS
<1>2. \A k \in 0..n : IsFiniteSet(Up(k)) /\ Cardinality(Up(k)) \in Nat
  <2> TAKE k \in 0..n
  <2>1. Up(k) \in SUBSET (1..n)
    BY <1>1
  <2>2. IsFiniteSet(1..n)
    BY FS_Interval
  <2> HIDE DEF Up
  <2>3. IsFiniteSet(Up(k))
    BY <2>1, <2>2, FS_Subset
  <2> QED BY <2>3, FS_CardinalityType
<1>3. Cardinality(Up(0)) = 0
  <2>1. \A x \in 1..n : ~(x <= 0)
    OBVIOUS
  <2>2. Up(0) = {}
    BY <2>1
  <2> HIDE DEF Up
  <2> QED BY <2>2, FS_EmptySet
<1>4. ASSUME NEW k \in 1..n
      PROVE  Cardinality(Up(k)) = Cardinality(Up(k - 1)) + (IF k \in K THEN 1 ELSE 0)
  <2>1. k - 1 \in 0..n /\ k \notin Up(k - 1)
    OBVIOUS
  <2>2. \A x \in Nat : x <= k <=> x <= k - 1 \/ x = k
    OBVIOUS
  <2>3. Up(k) = {x \in K : x <= k - 1 \/ x = k}
    BY <1>1, <2>2
  <2>4. k \in K => Up(k) = Up(k - 1) \cup {k}
    BY <2>3
  <2>5. k \notin K => Up(k) = Up(k - 1)
    BY <2>3
  <2> HIDE DEF Up
  <2>6. IsFiniteSet(Up(k - 1)) /\ Cardinality(Up(k - 1)) \in Nat
    BY <1>2, <2>1
  <2>7. Cardinality(Up(k - 1) \cup {k}) = Cardinality(Up(k - 1)) + 1
    BY <2>1, <2>6, FS_AddElement
  <2>8. CASE k \in K
    BY <2>4, <2>7, <2>8
  <2>9. CASE k \notin K
    BY <2>5, <2>6, <2>9
  <2> QED BY <2>8, <2>9
<1>5. ASSUME NEW k \in 0..n, NEW l \in 0..n, k <= l
      PROVE  Cardinality(Up(k)) <= Cardinality(Up(l))
  <2>1. \A x \in Nat : x <= k => x <= l
    BY <1>5
  <2>2. Up(k) \in SUBSET Up(l)
    BY <1>1, <2>1
  <2> HIDE DEF Up
  <2> QED BY <1>2, <2>2, FS_Subset
<1> QED BY <1>2, <1>3, <1>4, <1>5

\* The words kept, up to each word of the line.
LEMMA KeptCounts ==
    ASSUME Inv
    PROVE  /\ KeptUpTo(0) = 0
           /\ \A k \in 0..Len(typed) : KeptUpTo(k) \in Nat
           /\ \A k \in 1..Len(typed) :
                KeptUpTo(k) = KeptUpTo(k - 1) + (IF k \in KeptWords THEN 1 ELSE 0)
           /\ \A k, l \in 0..Len(typed) : k <= l => KeptUpTo(k) <= KeptUpTo(l)
           /\ KeptWords \subseteq 1..Len(typed)
<1>1. Len(typed) \in Nat /\ KeptWords \in SUBSET (1..Len(typed))
  BY LenProperties DEF Inv, KeptWords
<1>2. PICK n, K : n = Len(typed) /\ K = KeptWords
  OBVIOUS
<1>3. \A k : KeptUpTo(k) = Cardinality({l \in K : l <= k})
  BY <1>2 DEF KeptUpTo
<1>4. n \in Nat /\ K \in SUBSET (1..n)
  BY <1>1, <1>2
<1>5. /\ KeptUpTo(0) = 0
      /\ \A k \in 0..n : KeptUpTo(k) \in Nat
      /\ \A k \in 1..n : KeptUpTo(k) = KeptUpTo(k - 1) + (IF k \in K THEN 1 ELSE 0)
      /\ \A k, l \in 0..n : k <= l => KeptUpTo(k) <= KeptUpTo(l)
  <2>1. /\ Cardinality({l \in K : l <= 0}) = 0
        /\ \A k \in 0..n : Cardinality({l \in K : l <= k}) \in Nat
        /\ \A k \in 1..n : Cardinality({l \in K : l <= k}) =
                Cardinality({l \in K : l <= k - 1}) + (IF k \in K THEN 1 ELSE 0)
        /\ \A k, l \in 0..n : k <= l =>
                Cardinality({m \in K : m <= k}) <= Cardinality({m \in K : m <= l})
    BY ONLY <1>4, CountsUp
  <2> QED BY <1>3, <2>1, Zenon
<1> QED BY <1>1, <1>2, <1>5

\* The words kept so far are at their places.
KeptOK ==
    /\ phase \in {"words", "defaults", "rest"} =>
        /\ nextKeep - 1 = KeptUpTo(current - 1)
        /\ \A k \in KeptWords : k < current => argv[KeptUpTo(k)] = typed[k]
    /\ KeptExact

\* A word that is kept goes to the place after those kept before.
LEMMA KeepKept ==
    ASSUME Inv, Placed, KeptOK, Keep, current # argc, phase \in {"words", "rest"},
           current \in KeptWords, UNCHANGED <<phase, typed, declared>>
    PROVE  KeptOK'
<1>1. /\ current \in 1..Len(typed) /\ Word = typed[current] /\ nextKeep \in 1..current
      /\ Len(typed) \in Nat /\ Len(argv) = Len(typed) /\ DOMAIN argv = 1..Len(argv)
  BY AtWord, LenProperties DEF Inv, UnreadIntact
<1>2. /\ argv' = [argv EXCEPT ![nextKeep] = typed[current]]
      /\ nextKeep' = nextKeep + 1 /\ current' = current + 1
  BY <1>1 DEF Keep
<1>3. /\ nextKeep - 1 = KeptUpTo(current - 1)
      /\ \A k \in KeptWords : k < current => argv[KeptUpTo(k)] = typed[k]
  BY DEF KeptOK
<1>4. KeptUpTo(current) = nextKeep /\ current' - 1 = current /\ nextKeep' - 1 = nextKeep
  <2>1. KeptUpTo(current) = KeptUpTo(current - 1) + 1
    BY <1>1, KeptCounts
  <2> QED BY <1>1, <1>2, <1>3, <2>1
<1>5. ASSUME NEW k \in KeptWords, k < current + 1
      PROVE  argv'[KeptUpTo(k)] = typed[k]
  <2>1. k \in 1..Len(typed) /\ k - 1 \in 0..Len(typed) /\ k \in 0..Len(typed)
    BY <1>1, KeptCounts
  <2>2. CASE k = current
    BY <1>1, <1>2, <1>4, <2>2
  <2>3. CASE k # current
    <3>1. k <= current - 1 /\ k < current /\ current - 1 \in 0..Len(typed)
      BY <1>1, <1>5, <2>1, <2>3
    <3>2. KeptUpTo(k) <= nextKeep - 1
      BY <1>3, <2>1, <3>1, KeptCounts
    <3>3. KeptUpTo(k) = KeptUpTo(k - 1) + 1 /\ KeptUpTo(k - 1) \in Nat
      BY <2>1, KeptCounts
    <3>4. KeptUpTo(k) \in 1..Len(argv) /\ KeptUpTo(k) # nextKeep
      BY <1>1, <3>2, <3>3
    <3>5. argv'[KeptUpTo(k)] = argv[KeptUpTo(k)]
      BY <1>1, <1>2, <3>4
    <3> QED BY <1>3, <3>1, <3>5
  <2> QED BY <2>2, <2>3
<1>6. KeptWords' = KeptWords /\ \A k : KeptUpTo(k)' = KeptUpTo(k)
  BY ReferenceSame
<1>7. \A k \in KeptWords' : k < current' => argv'[KeptUpTo(k)'] = typed'[k]
  BY <1>2, <1>5, <1>6
<1>8. nextKeep' - 1 = KeptUpTo(current - 1)'
  BY <1>2, <1>4, <1>6 DEF KeptUpTo
<1> QED BY <1>7, <1>8 DEF KeptOK, KeptExact

\* A word that is not kept moves nothing.
LEMMA PassKept ==
    ASSUME Inv, Placed, KeptOK, phase \in {"words", "defaults", "rest"},
           phase' \in {"words", "defaults", "rest"},
           UNCHANGED <<typed, declared, argv, nextKeep>>, current' \in Nat,
           current <= current', current' <= Len(typed) + 1,
           \A k \in current..(current' - 1) : k \notin KeptWords
    PROVE  KeptOK'
<1>1. current \in 1..Len(typed) + 1 /\ Len(typed) \in Nat
  BY LenProperties DEF Inv, UnreadIntact
<1>2. /\ nextKeep - 1 = KeptUpTo(current - 1)
      /\ \A k \in KeptWords : k < current => argv[KeptUpTo(k)] = typed[k]
  BY DEF KeptOK
<1>3. \A k \in KeptWords : k < current' <=> k < current
  <2> TAKE k \in KeptWords
  <2>1. k \in Nat
    BY KeptCounts
  <2>2. ~(k \in current..(current' - 1))
    OBVIOUS
  <2>3. \A a, b, n \in Nat : a <= b /\ n \notin a..(b - 1) => (n < b <=> n < a)
    OBVIOUS
  <2>4. current \in Nat
    BY <1>1
  <2> QED BY <2>1, <2>2, <2>3, <2>4
<1>4. KeptUpTo(current' - 1) = KeptUpTo(current - 1)
  <2>1. \A k \in KeptWords : k <= current' - 1 <=> k <= current - 1
    <3> TAKE k \in KeptWords
    <3>1. k \in Nat /\ current \in Nat
      BY <1>1, KeptCounts
    <3>2. \A a, n \in Nat : n <= a - 1 <=> n < a
      OBVIOUS
    <3> QED BY <1>3, <3>1, <3>2
  <2>2. {l \in KeptWords : l <= current' - 1} = {l \in KeptWords : l <= current - 1}
    BY <2>1
  <2> QED BY <2>2 DEF KeptUpTo
<1>5. KeptWords' = KeptWords /\ \A k : KeptUpTo(k)' = KeptUpTo(k)
  BY ReferenceSame
<1>6. \A k \in KeptWords' : k < current' => argv'[KeptUpTo(k)'] = typed'[k]
  BY <1>2, <1>3, <1>5
<1>7. nextKeep' - 1 = KeptUpTo(current - 1)'
  BY <1>2, <1>4, <1>5 DEF KeptUpTo
<1> QED BY <1>6, <1>7 DEF KeptOK, KeptExact

\* Nothing is kept at first.
LEMMA InitKept == MainInit => KeptOK
<1> SUFFICES ASSUME MainInit PROVE KeptOK
  OBVIOUS
<1>1. Inv /\ phase = "words" /\ current = 1 /\ nextKeep = 1
  BY InitInv DEF MainInit, Init
<1>2. KeptUpTo(current - 1) = 0 /\ \A k \in KeptWords : ~(k < current)
  BY <1>1, KeptCounts
<1> QED BY <1>1, <1>2 DEF KeptOK, KeptExact

\* Every step keeps what has to be kept, where it has to be.
LEMMA StepKept == ASSUME Inv, Placed, KeptOK, [Next]_vars PROVE KeptOK'
<1>1. UNCHANGED <<typed, declared>>
  BY DEF Next, Parse, Main, ReadOption, RefuseWord, KeepPlain, Stop, Defaults, KeepRest,
         Shrink, vars, parserVars
<1>2. Len(typed) \in Nat /\ current \in Nat /\ current <= Len(typed) + 1
  BY LenProperties DEF Inv, UnreadIntact
<1>3. \A k \in 1..Len(typed) : k \in KeptWords <=> Role[k] \in {"plain", "rest"}
  BY LenProperties DEF KeptWords, Inv
<1>4. CASE ReadOption
  <2>1. /\ Unread /\ Word.form \in {"short", "long"} /\ Accepted(Word)
        /\ current' = current + (IF TakesNext(Word) THEN 2 ELSE 1)
        /\ phase = "words" /\ UNCHANGED <<phase, argv, nextKeep>>
    BY <1>4, Zenon DEF ReadOption, Unread
  <2>2. current \in 1..Len(typed) /\ current \notin KeptWords
    BY <1>3, <2>1, AtWord, FlagPassed DEF Unread
  <2>3. CASE TakesNext(Word)
    <3>1. current + 1 \in 1..Len(typed) /\ current + 1 \notin KeptWords
      BY <1>3, <2>1, <2>3, FlagPassed
    <3>2. current' = current + 2
      BY <2>1, <2>3
    <3>3. \A k \in current..(current' - 1) : k = current \/ k = current + 1
      BY <2>2, <3>2
    <3>4. current' \in Nat /\ current <= current' /\ current' <= Len(typed) + 1
      BY <1>2, <3>1, <3>2
    <3> QED BY <1>1, <2>1, <2>2, <3>1, <3>3, <3>4, PassKept
  <2>4. CASE ~TakesNext(Word)
    <3>1. current' = current + 1
      BY <2>1, <2>4
    <3>2. \A k \in current..(current' - 1) : k = current
      BY <2>2, <3>1
    <3>3. current' \in Nat /\ current <= current' /\ current' <= Len(typed) + 1
      BY <1>2, <2>2, <3>1
    <3> QED BY <1>1, <2>1, <2>2, <3>2, <3>3, PassKept
  <2> QED BY <2>3, <2>4
<1>5. CASE KeepPlain
  <2>1. /\ Keep /\ current # argc /\ phase = "words" /\ phase' = phase /\ Word.form = "plain"
    BY <1>5 DEF KeepPlain, Unread
  <2>2. current \in KeptWords
    BY <1>3, <2>1, AtWord DEF Own
  <2> QED BY <1>1, <2>1, <2>2, KeepKept
<1>6. CASE KeepRest
  <2>1. /\ Keep /\ current # argc /\ phase = "rest" /\ phase' = phase
    BY <1>6 DEF KeepRest
  <2>2. current \in KeptWords
    BY <1>3, <2>1, AtWord
  <2> QED BY <1>1, <2>1, <2>2, KeepKept
<1>7. CASE Stop
  <2>1. /\ current \in 1..Len(typed) /\ Role[current] = "stop"
        /\ phase = "words" /\ phase' = "defaults" /\ current' = current + 1
        /\ UNCHANGED <<argv, nextKeep>>
    BY <1>7, AtWord DEF Stop, PastStop, Unread, Own
  <2>2. current \notin KeptWords
    BY <1>3, <2>1
  <2>3. \A k \in current..(current' - 1) : k = current
    BY <2>1
  <2>4. current' \in Nat /\ current <= current' /\ current' <= Len(typed) + 1
    BY <1>2, <2>1
  <2> QED BY <1>1, <2>1, <2>2, <2>3, <2>4, PassKept
<1>8. CASE Defaults
  <2>1. /\ phase \in {"words", "defaults"} /\ phase' = "rest" /\ current' = current
        /\ UNCHANGED <<argv, nextKeep>>
    BY <1>8 DEF Defaults
  <2>2. current..(current' - 1) = {}
    BY <1>2, <2>1
  <2> QED BY <1>1, <1>2, <2>1, <2>2, PassKept
<1>9. CASE Shrink
  <2>1. /\ phase = "rest" /\ current = argc /\ argc' = nextKeep /\ phase' = "parsed"
        /\ argv' = argv
    BY <1>9 DEF Shrink
  <2>2. current - 1 = Len(typed)
    BY <1>2, <2>1 DEF Inv
  <2>3. argc' - 1 = KeptUpTo(Len(typed)) /\ \A k \in KeptWords : argv[KeptUpTo(k)] = typed[k]
    <3>1. \A k \in KeptWords : k < current
      BY <1>2, <2>2, KeptCounts
    <3> QED BY <2>1, <2>2, <3>1 DEF KeptOK
  <2>4. KeptWords' = KeptWords /\ \A k : KeptUpTo(k)' = KeptUpTo(k)
    BY <1>1, ReferenceSame
  <2>5. KeptUpTo(Len(typed))' = KeptUpTo(Len(typed))
    BY <1>1, <2>4 DEF KeptUpTo
  <2> QED BY <1>1, <2>1, <2>3, <2>4, <2>5 DEF KeptOK, KeptExact
<1>10. CASE RefuseWord
  BY <1>10 DEF RefuseWord, KeptOK, KeptExact
<1>11. CASE Main \/ UNCHANGED vars
  <2>1. UNCHANGED parserVars
    BY <1>11 DEF Main, vars
  <2>2. KeptWords' = KeptWords /\ \A k : KeptUpTo(k)' = KeptUpTo(k)
    BY <1>1, ReferenceSame
  <2>3. KeptUpTo(Len(typed))' = KeptUpTo(Len(typed)) /\ KeptUpTo(current - 1)' = KeptUpTo(current - 1)
    BY <2>1, <2>2 DEF KeptUpTo, parserVars
  <2> QED BY <2>1, <2>2, <2>3 DEF KeptOK, KeptExact, parserVars
<1> QED BY <1>4, <1>5, <1>6, <1>7, <1>8, <1>9, <1>10, <1>11 DEF Next, Parse

-----------------------------------------------------------------------------
(* What is accepted and what is refused *)

\* An accepted flag gives each of its options the text it has in the line.
LEMMA GivenText ==
    ASSUME Inv, Placed, Unread, Word.form \in {"short", "long"}, Accepted(Word),
           NEW i \in 1..Len(Word.names)
    PROVE  LET o == Option(Word, i) IN
           /\ o \in declared /\ Named(Word.names[i]) = {o}
           /\ TextOf(o, current) # <<>>
           /\ Argument(Word, i) = TextOf(o, current)[1]
           /\ parse_value(o.type, TextOf(o, current)[1]) # {}
<1> DEFINE o == Option(Word, i)
           n == Len(Word.names)
<1>1. /\ current \in 1..Len(typed) /\ Word = typed[current] /\ argc = Len(typed) + 1
      /\ Len(typed) \in Nat /\ current # argc /\ phase = "words"
  BY AtWord DEF Unread
<1>2. n \in 1..n /\ DOMAIN Word.names = 1..n /\ n \in Nat
  BY <1>1, WordFacts
<1>3. Named(Word.names[i]) # {}
  BY <1>2 DEF Accepted
<1>4. o \in declared /\ Named(Word.names[i]) = {o}
  BY <1>1, <1>3, OptionMeant
<1>5. parse_value(o.type, Argument(Word, i)) # {}
  BY <1>2 DEF Accepted
<1>6. TextOf(o, current) # <<>> /\ Argument(Word, i) = TextOf(o, current)[1]
  <2>1. CASE Word.argument # <<>>
    BY <1>1, <2>1 DEF TextOf, Argument
  <2>2. CASE Word.argument = <<>> /\ o.implicit # <<>>
    BY <1>1, <2>2 DEF TextOf, Argument
  <2>3. CASE Word.argument = <<>> /\ o.implicit = <<>>
    <3>1. i = n
      <4>1. i \notin 1..(n - 1)
        BY <2>3 DEF Accepted
      <4> QED BY <1>2, <4>1
    <3>2. ~NoneLeft
      BY <2>3, <3>1 DEF Accepted, TakesNext
    <3>3. current + 1 \in current..Len(typed) /\ current < Len(typed)
      BY <1>1, <3>2 DEF NoneLeft
    <3>4. argv[current + 1] = typed[current + 1]
      BY <3>3 DEF Inv, UnreadIntact
    <3>5. TextOf(o, current) = <<typed[current + 1].text>>
      BY <1>1, <2>3, <3>3 DEF TextOf
    <3>6. Argument(Word, i) = argv[current + 1].text
      BY <2>3 DEF Argument
    <3> QED BY <3>4, <3>5, <3>6
  <2> QED BY <2>1, <2>2, <2>3
<1> QED BY <1>4, <1>5, <1>6

\* The text an option finds in the line, if there is one.
LEMMA TextIsText ==
    ASSUME Inv, Placed, NEW o \in declared, NEW k \in 1..Len(typed), TextOf(o, k) # <<>>
    PROVE  TextOf(o, k)[1] \in Texts
<1>1. o.implicit \in Seq(Texts)
  BY ProgramsAssumption DEF Placed, OptionDetails
<1>2. o.implicit # <<>> => o.implicit[1] \in Texts
  <2>1. PICK s : s = o.implicit
    OBVIOUS
  <2>2. s # <<>> => Len(s) # 0 /\ Len(s) \in Nat
    BY <1>1, <2>1, EmptySeq, LenProperties
  <2>3. s # <<>> => 1 \in 1..Len(s)
    BY <2>2
  <2> QED BY <1>1, <2>1, <2>3, ElementOfSeq
<1>3. typed[k].argument # <<>> => typed[k].argument[1] \in Texts
  BY WordFacts
<1>4. k < Len(typed) => typed[k + 1].text \in Texts
  <2>1. k < Len(typed) => k + 1 \in 1..Len(typed)
    BY LenProperties DEF Inv
  <2> QED BY <2>1, WordFacts
<1> QED BY <1>2, <1>3, <1>4 DEF TextOf

\* A flag that is not accepted is wrong by the line as it was typed.
LEMMA RefusalHasCause ==
    ASSUME Inv, Placed, Unread, Word.form \in {"short", "long"}, ~Accepted(Word)
    PROVE  current \in DOMAIN typed /\ BadFlag(current)
<1> DEFINE n == Len(Word.names)
<1>1. /\ current \in 1..Len(typed) /\ Word = typed[current] /\ argc = Len(typed) + 1
      /\ Len(typed) \in Nat /\ DOMAIN typed = 1..Len(typed) /\ Role[current] = "flag"
  BY AtWord, LenProperties DEF Unread, Inv, Own
<1>2. n \in 1..n /\ DOMAIN Word.names = 1..n /\ n \in Nat
  BY <1>1, WordFacts
<1> SUFFICES ASSUME ~BadFlag(current) PROVE FALSE
  BY <1>1
<1>3. ASSUME NEW i \in 1..n
      PROVE  /\ Named(Word.names[i]) = {Option(Word, i)}
             /\ Option(Word, i) \in declared /\ Option(Word, i) \in OptionDetails
             /\ TextOf(Option(Word, i), current) # <<>>
             /\ Option(Word, i).implicit = <<>> => i = n
             /\ Fits(Option(Word, i), TextOf(Option(Word, i), current)[1])
  <2>1. Named(Word.names[i]) # {}
    BY <1>1, <1>2 DEF BadFlag
  <2>2. /\ Named(Word.names[i]) = {Option(Word, i)}
        /\ Option(Word, i) \in declared /\ Option(Word, i) \in OptionDetails
    BY <1>1, <2>1, OptionMeant
  <2>3. Option(Word, i) \in Named(typed[current].names[i]) /\ i \in DOMAIN typed[current].names
    BY <1>1, <1>2, <2>2
  <2>4. /\ TextOf(Option(Word, i), current) # <<>>
        /\ Option(Word, i).implicit = <<>> => i = Len(typed[current].names)
        /\ Fits(Option(Word, i), TextOf(Option(Word, i), current)[1])
    BY <1>1, <2>3, Zenon DEF BadFlag
  <2> QED BY <1>1, <2>2, <2>4
<1>4. \A i \in 1..n - 1 : Option(Word, i).implicit # <<>>
  <2> TAKE i \in 1..n - 1
  <2>1. i \in 1..n /\ i # n
    BY <1>2
  <2> QED BY <1>3, <2>1
<1>5. TakesNext(Word) => ~NoneLeft
  <2> SUFFICES ASSUME TakesNext(Word) PROVE ~NoneLeft
    OBVIOUS
  <2>1. Word.argument = <<>> /\ Option(Word, n).implicit = <<>>
    BY DEF TakesNext
  <2>2. TextOf(Option(Word, n), current) # <<>>
    BY <1>2, <1>3
  <2>3. current < Len(typed)
    BY <1>1, <2>1, <2>2 DEF TextOf
  <2> QED BY <1>1, <2>3 DEF NoneLeft
<1>6. ASSUME NEW i \in 1..n PROVE parse_value(Option(Word, i).type, Argument(Word, i)) # {}
  <2> DEFINE o == Option(Word, i)
  <2>1. TextOf(o, current)[1] \in Texts
    BY <1>1, <1>3, TextIsText
  <2>2. parse_value(o.type, TextOf(o, current)[1]) # {}
    <3>1. o \in OptionDetails /\ Fits(o, TextOf(o, current)[1])
      BY <1>3
    <3> HIDE DEF o
    <3>2. parse_value(o.type, TextOf(o, current)[1]) = {Meaning(o, TextOf(o, current)[1])}
      BY ONLY <2>1, <3>1, ParseMeans
    <3> QED BY ONLY <3>2
  <2>3. Argument(Word, i) = TextOf(o, current)[1]
    <3>1. CASE Word.argument # <<>>
      BY <1>1, <3>1 DEF TextOf, Argument
    <3>2. CASE Word.argument = <<>> /\ o.implicit # <<>>
      BY <1>1, <3>2 DEF TextOf, Argument
    <3>3. CASE Word.argument = <<>> /\ o.implicit = <<>>
      <4>1. i = n /\ TakesNext(Word)
        BY <1>3, <3>3 DEF TakesNext
      <4>2. current + 1 \in current..Len(typed) /\ current < Len(typed)
        BY <1>1, <1>5, <4>1 DEF NoneLeft
      <4>3. argv[current + 1] = typed[current + 1]
        BY <4>2 DEF Inv, UnreadIntact
      <4>4. TextOf(o, current) = <<typed[current + 1].text>>
        BY <1>1, <3>3, <4>2 DEF TextOf
      <4>5. Argument(Word, i) = argv[current + 1].text
        BY <3>3 DEF Argument
      <4> QED BY <4>3, <4>4, <4>5
    <3> QED BY <3>1, <3>2, <3>3
  <2> QED BY <2>2, <2>3
<1>7. \A i \in DOMAIN Word.names : Named(Word.names[i]) # {}
  BY <1>2, <1>3
<1> QED BY <1>2, <1>4, <1>5, <1>6, <1>7 DEF Accepted

\* Outside the parser nothing but the outcome changes, and the line stays as it
\* was typed.
LEMMA LineStays == [Next]_vars => UNCHANGED <<typed, declared>>
  BY DEF Next, Parse, Main, ReadOption, RefuseWord, KeepPlain, Stop, Defaults, KeepRest,
         Shrink, vars, parserVars

\* The program is left exactly the words that are neither flags nor arguments
\* of flags nor the "--", in their order: argc and argv at the end of
\* ParseResult::parse.
THEOREM WordsLeft == Spec => []KeptExact
<1>1. Inv /\ Placed /\ KeptOK /\ [Next]_vars => Inv' /\ Placed' /\ KeptOK'
  BY StepInv, StepPlaced, StepKept
<1>2. KeptOK => KeptExact
  BY DEF KeptOK
<1> QED BY InitInv, InitPlaced, InitKept, <1>1, <1>2, PTL DEF Spec

\* What a refusal was for stays in the line.
LEMMA StepRefused ==
    ASSUME Inv, Placed, RefusedForCause, [Next]_vars
    PROVE  RefusedForCause'
<1>1. UNCHANGED <<typed, declared>>
  BY LineStays
<1>2. DOMAIN typed' = DOMAIN typed /\ \A k : BadFlag(k)' = BadFlag(k)
  BY <1>1, ReferenceSame
<1>3. ASSUME phase' = "thrown" PROVE \E k \in DOMAIN typed : BadFlag(k)
  <2>1. CASE phase = "thrown"
    BY <2>1 DEF RefusedForCause
  <2>2. CASE phase # "thrown"
    <3>1. RefuseWord
      BY <1>3, <2>2 DEF Next, Parse, Main, ReadOption, KeepPlain, Stop, Defaults,
                        KeepRest, Shrink, vars, parserVars
    <3> QED BY <3>1, RefusalHasCause DEF RefuseWord
  <2> QED BY <2>1, <2>2
<1> QED BY <1>2, <1>3 DEF RefusedForCause

\* Whatever is typed, an exception leaves ParseResult::parse only if a flag of
\* the line names no option, lacks its argument or has one of another type.
THEOREM RefusalsCaused == Spec => []RefusedForCause
<1>1. MainInit => RefusedForCause
  BY DEF MainInit, Init, RefusedForCause
<1>2. Inv /\ Placed /\ RefusedForCause /\ [Next]_vars => Inv' /\ Placed' /\ RefusedForCause'
  BY StepInv, StepPlaced, StepRefused
<1> QED BY InitInv, InitPlaced, <1>1, <1>2, PTL DEF Spec

-----------------------------------------------------------------------------
(* What the options are given *)

\* An option is given a value once more.
Giving(res, o, v) == [res EXCEPT ![o] = [count |-> @.count + 1, value |-> v]]

\* From f[0] = start on, opt[k] is given val[k], one after the other.
InTurn(D, A, n, start, opt, val, f) ==
    /\ n \in Nat /\ start \in [D -> [count : Nat, value : A]]
    /\ opt \in [1..n -> D] /\ val \in [1..n -> A]
    /\ \A i, j \in 1..n : opt[i] = opt[j] => val[i] = val[j]
    /\ f[0] = start
    /\ \A k \in 1..n : f[k] = Giving(f[k - 1], opt[k], val[k])

\* Options are given their values one after the other: in the end each that
\* was among them has the value that goes with it, and no other has changed.
LEMMA GivenInTurn ==
    ASSUME NEW D, NEW A, NEW n, NEW start, NEW opt, NEW val, NEW f,
           InTurn(D, A, n, start, opt, val, f)
    PROVE  /\ f[n] \in [D -> [count : Nat, value : A]]
           /\ \A i \in 1..n : f[n][opt[i]].count > 0 /\ f[n][opt[i]].value = val[i]
           /\ \A o \in D : (\A i \in 1..n : opt[i] # o) => f[n][o] = start[o]
<1> USE DEF InTurn
<1> DEFINE Done(k) ==
        /\ f[k] \in [D -> [count : Nat, value : A]]
        /\ \A i \in 1..k : f[k][opt[i]].count > 0 /\ f[k][opt[i]].value = val[i]
        /\ \A o \in D : (\A i \in 1..k : opt[i] # o) => f[k][o] = start[o]
    S == {k \in Nat : k <= n => Done(k)}
<1>1. 0 \in S
  <2>1. 1..0 = {}
    OBVIOUS
  <2> QED BY <2>1
<1>2. ASSUME NEW k \in Nat, k \in S, k + 1 <= n PROVE Done(k + 1)
  <2>1. k <= n /\ k + 1 \in 1..n /\ (k + 1) - 1 = k
    BY <1>2
  <2>2. Done(k)
    BY <1>2, <2>1
  <2> HIDE DEF S
  <2>3. PICK g, o, v : g = f[k] /\ o = opt[k + 1] /\ v = val[k + 1]
    OBVIOUS
  <2>4. /\ g \in [D -> [count : Nat, value : A]] /\ o \in D /\ v \in A
        /\ g[o] \in [count : Nat, value : A]
    BY <2>1, <2>2, <2>3
  <2>5. f[k + 1] = [g EXCEPT ![o] = [count |-> g[o].count + 1, value |-> v]]
    BY <2>1, <2>3 DEF Giving
  <2>6. g[o].count \in Nat /\ g[o].count + 1 \in Nat /\ g[o].count + 1 > 0
    <3>1. g[o].count \in Nat
      BY <2>4
    <3> QED BY <3>1
  <2>7. /\ f[k + 1] \in [D -> [count : Nat, value : A]]
        /\ f[k + 1][o] = [count |-> g[o].count + 1, value |-> v]
        /\ \A p \in D : p # o => f[k + 1][p] = g[p]
    <3>1. [count |-> g[o].count + 1, value |-> v] \in [count : Nat, value : A]
      BY <2>4, <2>6
    <3> QED BY <2>4, <2>5, <3>1
  <2>8. ASSUME NEW i \in 1..(k + 1)
        PROVE  f[k + 1][opt[i]].count > 0 /\ f[k + 1][opt[i]].value = val[i]
    <3>1. i \in 1..n /\ opt[i] \in D /\ (i = k + 1 \/ i \in 1..k)
      BY <2>1
    <3>2. CASE opt[i] = o
      <4>1. opt[i] = opt[k + 1] /\ i \in 1..n /\ k + 1 \in 1..n
        BY <2>1, <2>3, <3>1, <3>2
      <4>2. v = val[i]
        BY <2>3, <4>1
      <4>3. f[k + 1][o].count = g[o].count + 1 /\ f[k + 1][o].value = v
        BY ONLY <2>7
      <4> QED BY ONLY <2>6, <3>2, <4>2, <4>3
    <3>3. CASE opt[i] # o
      BY <2>2, <2>3, <2>7, <3>1, <3>3
    <3> QED BY <3>2, <3>3
  <2>9. ASSUME NEW p \in D, \A i \in 1..(k + 1) : opt[i] # p
        PROVE  f[k + 1][p] = start[p]
    <3>1. p # o /\ \A i \in 1..k : opt[i] # p
      <4>1. k + 1 \in 1..(k + 1) /\ \A i \in 1..k : i \in 1..(k + 1)
        OBVIOUS
      <4> QED BY <2>3, <2>9, <4>1
    <3> QED BY <2>2, <2>3, <2>7, <3>1
  <2> QED BY <2>7, <2>8, <2>9
<1>3. \A k \in Nat : k \in S => k + 1 \in S
  <2> TAKE k \in Nat
  <2> HAVE k \in S
  <2>1. k + 1 <= n => Done(k + 1)
    BY <1>2
  <2> HIDE DEF Done
  <2> QED BY <2>1
<1>4. n \in S
  <2> HIDE DEF S
  <2>1. Nat \subseteq S
    BY <1>1, <1>3, SetInduction
  <2> QED BY <2>1
<1> QED BY <1>4

\* after[i] are the results once the first i options of the word are parsed.
IsAfter(after, w) ==
    after = [i \in 0..Len(w.names) |->
               IF i = 0 THEN results
               ELSE ParseOption(after[i - 1], Option(w, i), Argument(w, i))]

\* The options m_results has an entry for, as they are counted.
Counted ==
    /\ results = [o \in declared |-> [count |-> results[o].count, value |-> results[o].value]]
    /\ \A o \in declared : results[o].count \in Nat

\* The results after an accepted flag: each option of the word, and no other,
\* has the value of the text it has in the line.
LEMMA ParsedMeans ==
    ASSUME Inv, Placed, Counted, Unread, Word.form \in {"short", "long"}, Accepted(Word)
    PROVE  /\ Parsed(Word) = [o \in declared |-> [count |-> Parsed(Word)[o].count,
                                                  value |-> Parsed(Word)[o].value]]
           /\ \A o \in declared : Parsed(Word)[o].count \in Nat
           /\ \A i \in 1..Len(Word.names) :
                 LET o == Option(Word, i) IN
                 /\ Parsed(Word)[o].count > 0
                 /\ Parsed(Word)[o].value = parse_value(o.type, TextOf(o, current)[1])
           /\ \A o \in declared :
                 (\A i \in 1..Len(Word.names) : Option(Word, i) # o) =>
                    Parsed(Word)[o] = results[o]
<1> DEFINE n == Len(Word.names)
           D == declared
           arg == [i \in 1..n |-> Argument(Word, i)]
           opt == [i \in 1..n |-> Option(Word, i)]
           val == [i \in 1..n |-> parse_value(Option(Word, i).type, Argument(Word, i))]
           A == {results[o].value : o \in D} \cup {val[i] : i \in 1..n}
           V == [D -> [count : Nat, value : A]]
           step == [p \in (1..n) \X V |-> ParseOption(p[2], opt[p[1]], arg[p[1]])]
<1>1. n \in Nat
  BY AtWord, WordFacts DEF Unread
<1>2. \A i \in 1..n : /\ Option(Word, i) \in D
                      /\ Argument(Word, i) = TextOf(Option(Word, i), current)[1]
  BY GivenText
<1>3. opt \in [1..n -> D] /\ val \in [1..n -> A]
  BY <1>2
<1>4. \A i, j \in 1..n : opt[i] = opt[j] => val[i] = val[j]
  BY <1>2
<1>5. results \in V
  <2>1. \A o \in D : [count |-> results[o].count, value |-> results[o].value]
                        \in [count : Nat, value : A]
    BY DEF Counted
  <2> HIDE DEF A
  <2>2. [o \in D |-> [count |-> results[o].count, value |-> results[o].value]] \in V
    BY <2>1
  <2> HIDE DEF V
  <2> QED BY <2>2 DEF Counted
<1>6. \A i \in 1..n : \A g \in V :
         /\ ParseOption(g, Option(Word, i), Argument(Word, i)) \in V
         /\ ParseOption(g, Option(Word, i), Argument(Word, i)) =
              Giving(g, opt[i], val[i])
  <2> TAKE i \in 1..n
  <2> TAKE g \in V
  <2>1. ParseOption(g, Option(Word, i), Argument(Word, i)) =
              Giving(g, opt[i], val[i])
    BY DEF ParseOption, Giving
  <2>2. PICK o, v : o = opt[i] /\ v = val[i]
    OBVIOUS
  <2>3. o \in D /\ v \in A
    BY <1>3, <2>2
  <2> HIDE DEF A, opt, val
  <2>4. g[o].count + 1 \in Nat
    <3>1. g[o].count \in Nat
      BY <2>3
    <3> QED BY <3>1
  <2>5. [g EXCEPT ![o] = [count |-> g[o].count + 1, value |-> v]] \in V
    BY <2>3, <2>4
  <2> QED BY <2>1, <2>2, <2>5 DEF Giving
<1>7. step \in [(1..n) \X V -> V] /\ \A i \in 1..n : \A g \in V :
         step[<<i, g>>] = ParseOption(g, Option(Word, i), Argument(Word, i))
  <2> HIDE DEF V
  <2>1. \A i \in 1..n : \A g \in V : ParseOption(g, opt[i], arg[i]) \in V
    BY <1>6
  <2>2. \A i \in 1..n : opt[i] = Option(Word, i) /\ arg[i] = Argument(Word, i)
    OBVIOUS
  <2> HIDE DEF opt, arg, n
  <2> QED BY <2>1, <2>2
<1> HIDE DEF step, V
<1>8. PICK f \in [0..n -> V] : Goes(f, results, step, n)
  BY <1>1, <1>5, <1>7, RecursionExists
<1>9. IsAfter(f, Word)
  <2>1. \A k \in 0..n : f[k] = IF k = 0 THEN results
                                ELSE ParseOption(f[k - 1], Option(Word, k), Argument(Word, k))
    <3> HIDE DEF n
    <3> TAKE k \in 0..n
    <3>1. CASE k = 0
      BY <1>8, <3>1 DEF Goes
    <3>2. CASE k # 0
      <4>1. k \in 1..n /\ k - 1 \in 0..n
        BY <1>1, <3>2
      <4>2. f[k - 1] \in V /\ f[k] = step[<<k, f[k - 1]>>]
        BY <1>8, <4>1 DEF Goes
      <4> QED BY <1>7, <3>2, <4>1, <4>2
    <3> QED BY <3>1, <3>2
  <2> QED BY <2>1 DEF IsAfter
<1> DEFINE after == CHOOSE g : IsAfter(g, Word)
<1>10. IsAfter(after, Word)
  BY <1>9
<1>11. Parsed(Word) = after[n]
  BY DEF Parsed, IsAfter
<1> HIDE DEF after
<1>12. \A k \in 0..n : after[k] = IF k = 0 THEN results
                                  ELSE ParseOption(after[k - 1], Option(Word, k), Argument(Word, k))
  BY <1>10 DEF IsAfter
<1>13. after[0] = results /\ \A k \in 1..n :
          after[k] = ParseOption(after[k - 1], Option(Word, k), Argument(Word, k))
  <2> HIDE DEF n
  <2>1. 0 \in 0..n /\ \A k \in 1..n : k \in 0..n /\ k # 0
    BY <1>1
  <2> QED BY <1>12, <2>1
<1>14. \A k \in 1..n : after[k] = Giving(after[k - 1], opt[k], val[k])
  <2>1. ASSUME NEW k \in 1..n, after[k - 1] \in V PROVE after[k] \in V
    <3> HIDE DEF opt, val, arg, n
    <3>1. ParseOption(after[k - 1], Option(Word, k), Argument(Word, k)) \in V
      BY ONLY <1>6, <2>1, k \in 1..n
    <3> QED BY <1>13, <3>1
  <2>2. \A k \in 0..n : after[k] \in V
    <3> HIDE DEF n
    <3> QED BY <1>1, <1>5, <1>13, <2>1, RecursionTyped
  <2>3. \A k \in 1..n : k - 1 \in 0..n
    BY <1>1
  <2> QED BY <1>6, <1>13, <2>2, <2>3
<1>15. /\ after[n] \in [D -> [count : Nat, value : A]]
       /\ \A i \in 1..n : after[n][opt[i]].count > 0 /\ after[n][opt[i]].value = val[i]
       /\ \A o \in D : (\A i \in 1..n : opt[i] # o) => after[n][o] = results[o]
  <2>1. results \in [D -> [count : Nat, value : A]]
    BY <1>5 DEF V
  <2>2. after[0] = results
    BY <1>13
  <2> HIDE DEF D, A, opt, val, n
  <2>3. InTurn(D, A, n, results, opt, val, after)
    BY ONLY <1>1, <1>3, <1>4, <1>14, <2>1, <2>2 DEF InTurn
  <2> QED BY ONLY <2>3, GivenInTurn
<1>16. \A i \in 1..n : /\ opt[i] = Option(Word, i)
                       /\ val[i] = parse_value(Option(Word, i).type, TextOf(Option(Word, i), current)[1])
  BY <1>2
<1>17. /\ after[n] = [o \in D |-> [count |-> after[n][o].count, value |-> after[n][o].value]]
       /\ \A o \in D : after[n][o].count \in Nat
  <2>1. PICK r : r = after[n]
    OBVIOUS
  <2> HIDE DEF A
  <2>2. r \in [D -> [count : Nat, value : A]]
    BY <1>15, <2>1
  <2>3. \A o \in D : r[o] = [count |-> r[o].count, value |-> r[o].value] /\ r[o].count \in Nat
    BY <2>2
  <2>4. r = [o \in D |-> r[o]]
    BY <2>2
  <2>5. r = [o \in D |-> [count |-> r[o].count, value |-> r[o].value]]
    BY <2>3, <2>4
  <2> QED BY <2>1, <2>3, <2>5
<1>18. \A i \in 1..n : LET o == Option(Word, i) IN
          /\ after[n][o].count > 0
          /\ after[n][o].value = parse_value(o.type, TextOf(o, current)[1])
  <2> HIDE DEF opt, val, n
  <2> QED BY <1>15, <1>16
<1>19. \A o \in D : (\A i \in 1..n : Option(Word, i) # o) => after[n][o] = results[o]
  <2> HIDE DEF opt, val, n
  <2> QED BY <1>15, <1>16
<1> HIDE DEF opt, val, arg, A
<1> QED BY <1>11, <1>17, <1>18, <1>19

\* The words read so far that give o.
GivenBefore(o) == {k \in Givers(o) : k < current}

\* The result of o: none or its default if no word read so far gives it, or the
\* value of the text that the last of those words gives it.
ResultOK(o) ==
    \/ /\ GivenBefore(o) = {}
       /\ results[o].count = 0
       /\ results[o].value = IF phase \in {"words", "defaults"} \/ o.default = <<>> THEN {}
                             ELSE parse_value(o.type, o.default[1])
    \/ /\ results[o].count > 0
       /\ \E m \in GivenBefore(o) :
            /\ \A k \in GivenBefore(o) : k <= m
            /\ TextOf(o, m) # <<>>
            /\ results[o].value = parse_value(o.type, TextOf(o, m)[1])
            /\ results[o].value # {}

\* The results, as far as the line has been read.
ResultsOK ==
    phase # "thrown" =>
        /\ Counted
        /\ \A o \in declared : ResultOK(o)
        /\ phase = "parsed" => current = Len(typed) + 1

\* What is not a flag, or does not name the option, gives it nothing.
LEMMA NoGiver ==
    ASSUME Inv, NEW k \in 1..Len(typed), NEW o
    PROVE  k \in Givers(o) <=> /\ Role[k] = "flag"
                               /\ \E i \in 1..Len(typed[k].names) : o \in Named(typed[k].names[i])
<1>1. DOMAIN typed = 1..Len(typed)
  BY LenProperties DEF Inv
<1> QED BY <1>1, WordFacts DEF Givers

\* Words that do not give o leave the words that gave it as they were.
LEMMA PassGivers ==
    ASSUME Inv, NEW o, current' \in Nat, current <= current', UNCHANGED <<typed, declared>>,
           \A k \in current..(current' - 1) : k \notin Givers(o)
    PROVE  GivenBefore(o)' = GivenBefore(o)
<1>1. current \in Nat /\ \A k \in Givers(o) : k \in Nat
  <2>1. DOMAIN typed = 1..Len(typed)
    BY LenProperties DEF Inv
  <2>2. \A k \in Givers(o) : k \in 1..Len(typed)
    BY <2>1 DEF Givers
  <2>3. \A k \in 1..Len(typed) : k \in Nat
    OBVIOUS
  <2> QED BY <2>2, <2>3 DEF Inv
<1>2. \A a, b, n \in Nat : a <= b /\ n \notin a..(b - 1) => (n < b <=> n < a)
  OBVIOUS
<1>3. \A k \in Givers(o) : k < current' <=> k < current
  BY <1>1, <1>2
<1>4. Givers(o)' = Givers(o)
  BY ReferenceSame
<1> QED BY <1>3, <1>4 DEF GivenBefore

\* A result that is not touched stays right.
LEMMA SameResult ==
    ASSUME UNCHANGED <<typed, declared>>, NEW o, ResultOK(o), results'[o] = results[o],
           GivenBefore(o)' = GivenBefore(o),
           phase' \in {"words", "defaults"} <=> phase \in {"words", "defaults"}
    PROVE  ResultOK(o)'
<1>1. \A k : TextOf(o, k)' = TextOf(o, k)
  BY ReferenceSame
<1> QED BY <1>1, Zenon DEF ResultOK

\* Counted is about the results alone.
LEMMA SameCounted == ASSUME Counted, UNCHANGED <<results, declared>> PROVE Counted'
  BY DEF Counted

\* An accepted flag gives its options what it says, and no other option.
LEMMA ReadResults ==
    ASSUME Inv, Placed, Counted, ReadOption, \A o \in declared : ResultOK(o)
    PROVE  Counted' /\ \A o \in declared : ResultOK(o)'
<1>1. /\ Unread /\ Word.form \in {"short", "long"} /\ Accepted(Word)
      /\ current' = current + (IF TakesNext(Word) THEN 2 ELSE 1)
      /\ results' = Parsed(Word)
      /\ UNCHANGED <<phase, typed, declared>>
  BY Zenon DEF ReadOption
<1>2. /\ current \in 1..Len(typed) /\ Word = typed[current] /\ Len(typed) \in Nat
      /\ Role[current] = "flag"
  BY <1>1, AtWord DEF Unread, Own
<1>3. /\ current' \in Nat /\ current < current'
      /\ \A k \in current..(current' - 1) :
            k # current => k = current + 1 /\ TakesNext(Word)
      /\ \A k \in Nat : k < current' => k <= current \/ (k = current + 1 /\ TakesNext(Word))
  <2>1. CASE TakesNext(Word)
    <3>1. current' = current + 2
      BY <1>1, <2>1
    <3>2. \A c \in Nat : /\ c + 2 \in Nat /\ c < c + 2
                         /\ \A k \in c..((c + 2) - 1) : k # c => k = c + 1
                         /\ \A k \in Nat : k < c + 2 => k <= c \/ k = c + 1
      OBVIOUS
    <3>3. current \in Nat
      BY <1>2
    <3> QED BY <2>1, <3>1, <3>2, <3>3
  <2>2. CASE ~TakesNext(Word)
    <3>1. current' = current + 1
      BY <1>1, <2>2
    <3>2. \A c \in Nat : /\ c + 1 \in Nat /\ c < c + 1
                         /\ \A k \in c..((c + 1) - 1) : k = c
                         /\ \A k \in Nat : k < c + 1 => k <= c
      OBVIOUS
    <3>3. current \in Nat
      BY <1>2
    <3> QED BY <2>2, <3>1, <3>2, <3>3
  <2> QED BY <2>1, <2>2
<1>4. TakesNext(Word) => \A o : current + 1 \notin Givers(o)
  BY <1>1, FlagPassed, NoGiver
<1>5. Counted'
  <2>1. /\ Parsed(Word) = [o \in declared |-> [count |-> Parsed(Word)[o].count,
                                               value |-> Parsed(Word)[o].value]]
        /\ \A o \in declared : Parsed(Word)[o].count \in Nat
    BY <1>1, ParsedMeans
  <2> QED BY ONLY <1>1, <2>1 DEF Counted
<1>6. ASSUME NEW p, NEW i \in 1..Len(Word.names), Option(Word, i) = p PROVE ResultOK(p)'
  <2>2. /\ p \in declared /\ Named(Word.names[i]) = {p} /\ TextOf(p, current) # <<>>
        /\ parse_value(p.type, TextOf(p, current)[1]) # {}
    BY <1>1, <1>6, GivenText
  <2>3. results'[p].count > 0 /\ results'[p].value = parse_value(p.type, TextOf(p, current)[1])
    BY <1>1, <1>6, ParsedMeans
  <2>4. current \in Givers(p)
    BY <1>2, <2>2, NoGiver
  <2>5. \A k \in Givers(p) : k < current' => k <= current
    <3>1. \A k \in Givers(p) : k \in Nat
      <4>1. DOMAIN typed = 1..Len(typed)
        BY LenProperties DEF Inv
      <4>2. \A k \in Givers(p) : k \in 1..Len(typed)
        BY <4>1 DEF Givers
      <4>3. \A k \in 1..Len(typed) : k \in Nat
        OBVIOUS
      <4> QED BY <4>2, <4>3
    <3> QED BY <1>3, <1>4, <3>1
  <2>6. Givers(p)' = Givers(p)
    BY <1>1, ReferenceSame
  <2>7. PICK c : c = current
    OBVIOUS
  <2>8. c \in GivenBefore(p)' /\ \A k \in GivenBefore(p)' : k <= c
    BY <1>3, <2>4, <2>5, <2>6, <2>7 DEF GivenBefore
  <2>9. TextOf(p, c)' = TextOf(p, c)
    BY <1>1, ReferenceSame
  <2> QED BY <2>2, <2>3, <2>7, <2>8, <2>9 DEF ResultOK
<1>7. ASSUME NEW p \in declared, \A i \in 1..Len(Word.names) : Option(Word, i) # p
      PROVE  ResultOK(p)'
  <2>1. results'[p] = results[p]
    BY <1>1, <1>7, ParsedMeans
  <2>2. current \notin Givers(p)
    <3>1. \A i \in 1..Len(Word.names) : p \notin Named(Word.names[i])
      BY <1>1, <1>7, GivenText
    <3> QED BY <1>2, <3>1, NoGiver
  <2>3. \A k \in current..(current' - 1) : k \notin Givers(p)
    BY <1>3, <1>4, <2>2
  <2>4. current <= current'
    BY <1>2, <1>3
  <2>5. GivenBefore(p)' = GivenBefore(p)
    BY <1>1, <1>3, <2>3, <2>4, PassGivers
  <2>6. ResultOK(p)
    OBVIOUS
  <2> QED BY <1>1, <2>1, <2>5, <2>6, SameResult
<1>8. ASSUME NEW p \in declared PROVE ResultOK(p)'
  <2>1. CASE \E i \in 1..Len(Word.names) : Option(Word, i) = p
    BY <1>6, <2>1
  <2>2. CASE \A i \in 1..Len(Word.names) : Option(Word, i) # p
    BY <1>7, <2>2
  <2> QED BY <2>1, <2>2
<1> QED BY <1>5, <1>8

\* Every step gives the options their texts, as the words come.
LEMMA StepResults == ASSUME Inv, Placed, ResultsOK, [Next]_vars PROVE ResultsOK'
<1>1. UNCHANGED <<typed, declared>>
  BY LineStays
<1>2. Len(typed) \in Nat /\ current \in Nat /\ current <= Len(typed) + 1
  BY LenProperties DEF Inv, UnreadIntact
<1>3. CASE ReadOption
  <2>1. phase = "words" /\ phase' = "words"
    BY <1>3 DEF ReadOption, Unread
  <2>2. Counted /\ \A o \in declared : ResultOK(o)
    BY <2>1 DEF ResultsOK
  <2>3. Counted' /\ \A o \in declared : ResultOK(o)'
    BY <1>3, <2>2, ReadResults
  <2> QED BY <1>1, <2>1, <2>3 DEF ResultsOK
<1>4. ASSUME phase \in {"words", "defaults", "rest"}, phase' \in {"words", "defaults", "rest"},
             results' = results, current # argc, current' = current + 1, Role[current] # "flag",
             phase' \in {"words", "defaults"} <=> phase \in {"words", "defaults"}
      PROVE  ResultsOK'
  <2>1. current \in 1..Len(typed)
    BY <1>4, AtWord
  <2>2. \A k \in current..(current' - 1) : k = current
    BY <1>4, <2>1
  <2>3. current' \in Nat /\ current <= current'
    BY <1>4, <2>1
  <2>4. ASSUME NEW o \in declared PROVE ResultOK(o)'
    <3>1. \A k \in current..(current' - 1) : k \notin Givers(o)
      BY <1>4, <2>1, <2>2, NoGiver
    <3>2. GivenBefore(o)' = GivenBefore(o)
      BY <1>1, <2>3, <3>1, PassGivers
    <3>3. ResultOK(o)
      BY <1>4 DEF ResultsOK
    <3> QED BY <1>1, <1>4, <3>2, <3>3, SameResult
  <2>5. Counted'
    BY <1>1, <1>4, SameCounted DEF ResultsOK
  <2> QED BY <1>1, <1>4, <2>4, <2>5 DEF ResultsOK
<1>5. CASE KeepPlain
  <2>1. /\ phase = "words" /\ phase' = phase /\ results' = results /\ current # argc
        /\ current' = current + 1 /\ Word.form = "plain"
    BY <1>5 DEF KeepPlain, Unread, Keep
  <2>2. Role[current] # "flag"
    BY <2>1, AtWord DEF Own
  <2> QED BY <1>4, <2>1, <2>2
<1>6. CASE KeepRest
  <2>1. /\ phase = "rest" /\ phase' = phase /\ results' = results /\ current # argc
        /\ current' = current + 1
    BY <1>6 DEF KeepRest, Keep
  <2>2. Role[current] # "flag"
    BY <2>1, AtWord
  <2> QED BY <1>4, <2>1, <2>2
<1>7. CASE Stop
  <2>1. /\ phase = "words" /\ phase' = "defaults" /\ results' = results /\ current # argc
        /\ current' = current + 1 /\ Word.form = "stop"
    BY <1>7 DEF Stop, Unread, PastStop
  <2>2. Role[current] # "flag"
    BY <2>1, AtWord DEF Own
  <2> QED BY <1>4, <2>1, <2>2
<1>8. CASE Defaults
  <2>1. /\ phase \in {"words", "defaults"} /\ phase' = "rest" /\ current' = current
        /\ results' = [o \in declared |->
              IF NeedsDefault(o)
              THEN [results[o] EXCEPT !.value = parse_value(o.type, o.default[1])]
              ELSE results[o]]
    BY <1>8 DEF Defaults
  <2>2. Counted /\ \A o \in declared : ResultOK(o)
    BY <2>1 DEF ResultsOK
  <2>3. ASSUME NEW o \in declared
        PROVE  /\ results'[o] = [count |-> results'[o].count, value |-> results'[o].value]
               /\ results'[o].count = results[o].count /\ results[o].count \in Nat
               /\ results'[o].value = IF NeedsDefault(o) THEN parse_value(o.type, o.default[1])
                                      ELSE results[o].value
    <3>1. PICK r, q : r = results[o] /\ q = results'[o]
      OBVIOUS
    <3>2. r = [count |-> r.count, value |-> r.value] /\ r.count \in Nat
      BY <2>2, <3>1 DEF Counted
    <3>3. q = IF NeedsDefault(o)
              THEN [r EXCEPT !.value = parse_value(o.type, o.default[1])] ELSE r
      BY <2>1, <3>1
    <3>4. PICK v : v = parse_value(o.type, o.default[1])
      OBVIOUS
    <3>5. [r EXCEPT !.value = v] = [count |-> r.count, value |-> v]
      BY ONLY <3>2
    <3>6. q = [count |-> r.count, value |-> IF NeedsDefault(o) THEN v ELSE r.value]
      BY <3>2, <3>3, <3>4, <3>5
    <3>7. /\ q = [count |-> q.count, value |-> q.value] /\ q.count = r.count
          /\ q.value = IF NeedsDefault(o) THEN v ELSE r.value
      BY ONLY <3>6
    <3> QED BY <3>1, <3>2, <3>4, <3>7
  <2>4. Counted'
    <3>1. PICK q : q = results'
      OBVIOUS
    <3>2. \A o \in declared : q[o] = [count |-> q[o].count, value |-> q[o].value] /\ q[o].count \in Nat
      BY ONLY <2>3, <3>1
    <3>3. q = [o \in declared |-> q[o]]
      BY <2>1, <3>1
    <3>4. q = [o \in declared |-> [count |-> q[o].count, value |-> q[o].value]]
      BY ONLY <3>2, <3>3
    <3> QED BY ONLY <1>1, <3>1, <3>2, <3>4 DEF Counted
  <2>5. ASSUME NEW o \in declared PROVE ResultOK(o)'
    <3>1. current..(current' - 1) = {} /\ current' \in Nat /\ current <= current'
      BY <1>2, <2>1
    <3>2. GivenBefore(o)' = GivenBefore(o)
      BY <1>1, <3>1, PassGivers
    <3>3. ResultOK(o)
      BY <2>2
    <3>4. CASE results[o].count = 0
      <4>1. GivenBefore(o) = {} /\ results[o].value = {}
        BY <2>1, <3>3, <3>4 DEF ResultOK
      <4>2. results'[o].count = 0
        BY <2>3, <3>4
      <4>3. results'[o].value = IF o.default = <<>> THEN {} ELSE parse_value(o.type, o.default[1])
        BY <2>3, <3>4, <4>1 DEF NeedsDefault
      <4> QED BY <2>1, <3>2, <4>1, <4>2, <4>3 DEF ResultOK
    <3>5. CASE results[o].count # 0
      <4>1. results[o].count > 0 /\ results'[o].count = results[o].count
            /\ results'[o].value = results[o].value
        <5>1. ~NeedsDefault(o)
          BY <3>5 DEF NeedsDefault
        <5>2. \A n \in Nat : n # 0 => n > 0
          OBVIOUS
        <5> QED BY <2>3, <3>5, <5>1, <5>2
      <4>2. PICK m \in GivenBefore(o) :
              /\ \A k \in GivenBefore(o) : k <= m
              /\ TextOf(o, m) # <<>>
              /\ results[o].value = parse_value(o.type, TextOf(o, m)[1])
              /\ results[o].value # {}
        BY <3>3, <3>5 DEF ResultOK
      <4>3. TextOf(o, m)' = TextOf(o, m)
        BY <1>1, ReferenceSame
      <4> QED BY <3>2, <4>1, <4>2, <4>3 DEF ResultOK
    <3> QED BY <3>4, <3>5
  <2> QED BY <1>1, <2>1, <2>4, <2>5 DEF ResultsOK
<1>9. ASSUME UNCHANGED <<results, current>>, phase # "thrown",
             phase' \in {"words", "defaults"} <=> phase \in {"words", "defaults"},
             phase' = "parsed" => current = Len(typed) + 1
      PROVE  ResultsOK'
  <2>1. current..(current' - 1) = {} /\ current' \in Nat /\ current <= current'
    BY <1>2, <1>9
  <2>2. ASSUME NEW o \in declared PROVE ResultOK(o)'
    <3>1. GivenBefore(o)' = GivenBefore(o)
      BY <1>1, <2>1, PassGivers
    <3>2. ResultOK(o)
      BY <1>9 DEF ResultsOK
    <3> QED BY <1>1, <1>9, <3>1, <3>2, SameResult
  <2>3. Counted'
    BY <1>1, <1>9, SameCounted DEF ResultsOK
  <2> QED BY <1>1, <1>9, <2>2, <2>3 DEF ResultsOK
<1>10. CASE Shrink
  <2>1. /\ phase = "rest" /\ phase' = "parsed" /\ UNCHANGED <<results, current>> /\ current = argc
    BY <1>10 DEF Shrink
  <2>2. current = Len(typed) + 1
    BY <2>1 DEF Inv
  <2> QED BY <1>9, <2>1, <2>2
<1>11. CASE RefuseWord
  BY <1>11 DEF RefuseWord, ResultsOK
<1>12. CASE Main \/ UNCHANGED vars
  <2>1. UNCHANGED <<results, current, phase>>
    BY <1>12 DEF Main, vars, parserVars
  <2>2. CASE phase = "thrown"
    BY <2>1, <2>2 DEF ResultsOK
  <2>3. CASE phase # "thrown"
    BY <1>9, <2>1, <2>3 DEF ResultsOK
  <2> QED BY <2>2, <2>3
<1> QED BY <1>3, <1>5, <1>6, <1>7, <1>8, <1>10, <1>11, <1>12 DEF Next, Parse

\* No option has been given anything at first.
LEMMA InitResults == MainInit => ResultsOK
<1> SUFFICES ASSUME MainInit PROVE ResultsOK
  OBVIOUS
<1>1. /\ phase = "words" /\ current = 1
      /\ results = [o \in declared |-> [count |-> 0, value |-> {}]]
  BY DEF MainInit, Init
<1>2. Inv
  BY InitInv
<1>3. Counted
  BY <1>1 DEF Counted
<1>4. ASSUME NEW o \in declared PROVE ResultOK(o)
  <2>1. GivenBefore(o) = {}
    <3>1. DOMAIN typed = 1..Len(typed)
      BY <1>2, LenProperties DEF Inv
    <3>2. \A k \in Givers(o) : k \in 1..Len(typed)
      BY <3>1 DEF Givers
    <3>3. \A k \in 1..Len(typed) : ~(k < 1)
      OBVIOUS
    <3> QED BY <1>1, <3>2, <3>3 DEF GivenBefore
  <2> QED BY <1>1, <2>1 DEF ResultOK
<1> QED BY <1>1, <1>3, <1>4 DEF ResultsOK

-----------------------------------------------------------------------------
(* What the values mean *)

\* What add_option is given as the default of an option is one text at most,
\* and of its type.
DefaultsFit ==
    \A options \in Programs : \A o \in options :
        o.default # <<>> => Len(o.default) = 1 /\ Fits(o, o.default[1])

\* Max is the number that no other exceeds.
LEMMA MaxIs ==
    ASSUME NEW S \in SUBSET Nat, NEW m \in S, \A k \in S : k <= m
    PROVE  Max(S) = m
<1>1. \E x \in S : \A y \in S : x >= y
  BY m \in Nat
<1>2. Max(S) \in S /\ \A y \in S : Max(S) >= y
  BY <1>1, Zenon DEF Max
<1>3. \A a, b \in Nat : a >= b /\ a <= b => a = b
  OBVIOUS
<1> QED BY <1>2, <1>3

\* At the end every word of the line has been read.
LEMMA AllGiven ==
    ASSUME Inv, ResultsOK, phase = "parsed", NEW o
    PROVE  GivenBefore(o) = Givers(o) /\ Givers(o) \in SUBSET (1..Len(typed))
<1>1. current = Len(typed) + 1 /\ Len(typed) \in Nat /\ DOMAIN typed = 1..Len(typed)
  BY LenProperties DEF Inv, ResultsOK
<1>2. Givers(o) \in SUBSET (1..Len(typed))
  BY <1>1 DEF Givers
<1>3. \A n \in Nat : \A k \in 1..n : k < n + 1
  OBVIOUS
<1>4. \A k \in Givers(o) : k < current
  BY <1>1, <1>2, <1>3
<1> QED BY <1>2, <1>4 DEF GivenBefore

\* The results are what the line means.
LEMMA ResultsMean ==
    ASSUME DefaultsFit, Inv, Placed, ResultsOK
    PROVE  ValueMeant
<1> SUFFICES ASSUME phase = "parsed", NEW o \in declared
             PROVE  /\ (results[o].count > 0) <=> (Givers(o) # {})
                    /\ IF Givers(o) = {}
                       THEN results[o].value = {Meaning(o, o.default[i]) : i \in DOMAIN o.default}
                       ELSE LET text == TextOf(o, Max(Givers(o)))[1] IN
                            Fits(o, text) => results[o].value = {Meaning(o, text)}
  BY Zenon DEF ValueMeant
<1>1. ResultOK(o) /\ GivenBefore(o) = Givers(o) /\ Givers(o) \in SUBSET (1..Len(typed))
  BY AllGiven DEF ResultsOK
<1>2. o \in OptionDetails /\ o.default \in Seq(Texts)
  BY ProgramsAssumption DEF Placed, OptionDetails
<1>3. CASE Givers(o) = {}
  <2>1. /\ results[o].count = 0
        /\ results[o].value = IF o.default = <<>> THEN {} ELSE parse_value(o.type, o.default[1])
    BY <1>1, <1>3 DEF ResultOK
  <2>2. CASE o.default = <<>>
    BY <1>3, <2>1, <2>2
  <2>3. CASE o.default # <<>>
    <3>1. Len(o.default) = 1 /\ Fits(o, o.default[1])
      BY <2>3 DEF Placed, DefaultsFit
    <3>2. PICK d : d = o.default
      OBVIOUS
    <3>3. DOMAIN d = 1..1 /\ d[1] \in Texts
      <4>1. DOMAIN d = 1..Len(d) /\ Len(d) = 1 /\ 1 \in 1..Len(d)
        BY <1>2, <3>1, <3>2, LenProperties
      <4> QED BY <1>2, <3>2, <4>1, ElementOfSeq
    <3>4. parse_value(o.type, d[1]) = {Meaning(o, d[1])}
      BY <1>2, <3>1, <3>2, <3>3, ParseMeans
    <3>5. {Meaning(o, d[i]) : i \in DOMAIN d} = {Meaning(o, d[1])}
      <4>1. DOMAIN d = {1}
        BY <3>3
      <4> QED BY <4>1
    <3> QED BY <1>3, <2>1, <2>3, <3>2, <3>4, <3>5
  <2> QED BY <2>2, <2>3
<1>4. CASE Givers(o) # {}
  <2>1. results[o].count > 0
    BY <1>1, <1>4 DEF ResultOK
  <2>2. PICK m \in Givers(o) : /\ \A k \in Givers(o) : k <= m
                               /\ TextOf(o, m) # <<>>
                               /\ results[o].value = parse_value(o.type, TextOf(o, m)[1])
    BY <1>1, <1>4 DEF ResultOK
  <2>3. \A k \in 1..Len(typed) : k \in Nat
    OBVIOUS
  <2>4. Max(Givers(o)) = m
    BY <1>1, <2>2, <2>3, MaxIs
  <2>5. TextOf(o, m)[1] \in Texts
    BY <1>1, <2>2, TextIsText
  <2>6. Fits(o, TextOf(o, m)[1]) => results[o].value = {Meaning(o, TextOf(o, m)[1])}
    BY <1>2, <2>2, <2>5, ParseMeans
  <2> QED BY <1>4, <2>1, <2>4, <2>6
<1> QED BY <1>3, <1>4

\* Whichever of its names is used and however often it is given, an option has
\* the meaning of the last text it was given, and its default if it was given
\* none, for all programs whose defaults are of the types of their options:
\* m_results at the end of ParseResult::parse.
THEOREM LastTextCounts == ASSUME DefaultsFit PROVE Spec => []ValueMeant
<1>1. Inv /\ Placed /\ ResultsOK /\ [Next]_vars => Inv' /\ Placed' /\ ResultsOK'
  BY StepInv, StepPlaced, StepResults
<1>2. Inv /\ Placed /\ ResultsOK => ValueMeant
  BY ResultsMean
<1> QED BY InitInv, InitPlaced, InitResults, <1>1, <1>2, PTL DEF Spec

-----------------------------------------------------------------------------
(* The two programs *)

\* Interact is called once the line is parsed, with a nickname if one is asked for.
Asked == outcome = "interact" => phase = "parsed" /\ ~Missing

\* Nothing is parsed once main has gone on.
LEMMA StepAsked == ASSUME Asked, [Next]_vars PROVE Asked'
<1>1. CASE outcome' = "interact" /\ outcome # "interact"
  <2>1. phase = "parsed" /\ ~Missing /\ UNCHANGED parserVars
    BY <1>1 DEF Next, Parse, Main, Uncaught, Complain, Help, Interact, vars
  <2>2. Missing' = Missing
    BY <2>1 DEF Missing, Named, Given, parserVars
  <2> QED BY <2>1, <2>2 DEF Asked, parserVars
<1>2. CASE outcome' = "interact" /\ outcome = "interact"
  <2>1. phase = "parsed" /\ ~Missing
    BY <1>2 DEF Asked
  <2>2. UNCHANGED parserVars
    BY <1>2, <2>1 DEF Next, Parse, Main, ReadOption, RefuseWord, KeepPlain, Stop, Defaults,
                      KeepRest, Shrink, Unread, vars
  <2>3. Missing' = Missing
    BY <2>2 DEF Missing, Named, Given, parserVars
  <2> QED BY <2>1, <2>2, <2>3 DEF Asked, parserVars
<1>3. CASE outcome' # "interact"
  BY <1>3 DEF Asked
<1> QED BY <1>1, <1>2, <1>3

\* Every option but the nickname has a default.
OnlyNameAsked ==
    \A options \in Programs : \A o \in options : o.default = <<>> => o.long = "nickname"

\* Every option has a value when interact is called.
LEMMA AllPresent ==
    ASSUME DefaultsFit, OnlyNameAsked, Inv, Placed, ResultsOK, Asked
    PROVE  ValuesPresent
<1> SUFFICES ASSUME outcome = "interact", NEW o \in declared PROVE results[o].value # {}
  BY DEF ValuesPresent
<1>1. phase = "parsed" /\ ~Missing
  BY DEF Asked
<1>2. ResultOK(o) /\ Counted
  BY <1>1 DEF ResultsOK
<1>3. o \in OptionDetails /\ o.default \in Seq(Texts)
  BY ProgramsAssumption DEF Placed, OptionDetails
<1>4. CASE results[o].count = 0
  <2>1. results[o].value = IF o.default = <<>> THEN {} ELSE parse_value(o.type, o.default[1])
    BY <1>1, <1>2, <1>4 DEF ResultOK
  <2>2. o.default # <<>>
    <3> SUFFICES ASSUME o.default = <<>> PROVE FALSE
      OBVIOUS
    <3>1. o \in Named("nickname")
      BY DEF OnlyNameAsked, Placed, Named
    <3>2. Named("nickname") = {o}
      <4>1. "nickname" # ""
        OBVIOUS
      <4> QED BY <3>1, <4>1, NamedOne DEF Placed
    <3>3. \E p \in Named("nickname") : results[p].count > 0
      BY <1>1, <3>1 DEF Missing, Given
    <3> QED BY <1>4, <3>2, <3>3
  <2>3. Len(o.default) = 1 /\ Fits(o, o.default[1])
    BY <2>2 DEF Placed, DefaultsFit
  <2>4. o.default[1] \in Texts
    <3>1. 1 \in 1..Len(o.default)
      BY <2>3
    <3> QED BY <1>3, <3>1, ElementOfSeq
  <2>5. parse_value(o.type, o.default[1]) = {Meaning(o, o.default[1])}
    BY <1>3, <2>3, <2>4, ParseMeans
  <2> QED BY <2>1, <2>2, <2>5
<1>5. CASE results[o].count # 0
  BY <1>2, <1>5 DEF ResultOK
<1> QED BY <1>4, <1>5

\* The number that one decimal digit, or two, stand for.
LEMMA DecimalIs ==
    ASSUME NEW t \in Texts, ~t.hex, t.negative = FALSE, NEW a \in 0..9, NEW b \in 0..9
    PROVE  /\ t.digits = <<a>> => Number(t) = a
           /\ t.digits = <<a, b>> => Number(t) = 10 * a + b
<1>1. a \in Nat /\ b \in Nat /\ Base(t) = 10
  BY DEF Base
<1>2. PICK d, n : d = t.digits /\ n = Len(d)
  OBVIOUS
<1>3. PICK up \in [0..n -> Nat] :
        /\ up[0] = 0
        /\ \A k \in 1..n : up[k] = up[k - 1] * 10 + d[k]
        /\ Number(t) = up[n]
  <2>1. \E up \in [0..Len(t.digits) -> Nat] :
          /\ up[0] = 0
          /\ \A k \in 1..Len(t.digits) : up[k] = up[k - 1] * Base(t) + t.digits[k]
          /\ Number(t) = IF t.negative THEN -up[Len(t.digits)] ELSE up[Len(t.digits)]
    BY NumberUnfolds
  <2> QED BY <1>1, <1>2, <2>1
<1>4. ASSUME d = <<a>> PROVE Number(t) = a
  <2>1. n = 1 /\ d[1] = a
    BY <1>2, <1>4
  <2>2. up[1] = up[0] * 10 + a
    BY <1>3, <2>1
  <2> QED BY <1>1, <1>3, <2>1, <2>2
<1>5. ASSUME d = <<a, b>> PROVE Number(t) = 10 * a + b
  <2>1. n = 2 /\ d[1] = a /\ d[2] = b
    BY <1>2, <1>5
  <2>2. up[1] = up[0] * 10 + a /\ up[2] = up[1] * 10 + b
    BY <1>3, <2>1
  <2> QED BY <1>1, <1>3, <2>1, <2>2
<1> QED BY <1>2, <1>4, <1>5

\* The defaults that the two programs declare.
LEMMA DefaultsAre ==
    ASSUME NEW o \in ServerOptions \cup ClientOptions
    PROVE  \/ o.type = "int" /\ o.default \in {<<Decimal(<<9, 5>>)>>, <<Decimal(<<3>>)>>}
           \/ o.type = "string" /\ o.default = <<Name("address")>>
           \/ o.type = "bool" /\ o.default = <<False>>
           \/ o.default = <<>> /\ o.long = "nickname"
<1>1. \A short, long, type, default :
         LET p == Declare(short, long, type, default) IN
         p.type = type /\ p.default = default /\ p.long = long
  BY DEF Declare
<1>2. CASE \/ o = Declare("p", "port", "int", <<Decimal(<<9, 5>>)>>)
           \/ o = Declare("n", "ping_n", "int", <<Decimal(<<3>>)>>)
  <2>1. o.type = "int" /\ o.default \in {<<Decimal(<<9, 5>>)>>, <<Decimal(<<3>>)>>}
    BY <1>1, <1>2
  <2> QED BY <2>1
<1>3. CASE o = Declare("s", "server", "string", <<Name("address")>>)
  <2>1. o.type = "string" /\ o.default = <<Name("address")>>
    BY <1>1, <1>3
  <2> QED BY <2>1
<1>4. CASE \/ o = Declare("", "help", "bool", <<False>>)
           \/ o = Declare("", "chatty", "bool", <<False>>)
  <2>1. CASE o = Declare("", "help", "bool", <<False>>)
    <3>1. PICK d : d = <<False>>
      OBVIOUS
    <3>2. o = Declare("", "help", "bool", d)
      BY <2>1, <3>1
    <3>3. o.type = "bool" /\ o.default = d
      BY ONLY <3>2 DEF Declare
    <3> QED BY <3>1, <3>3
  <2>2. CASE o = Declare("", "chatty", "bool", <<False>>)
    <3>1. PICK d : d = <<False>>
      OBVIOUS
    <3>2. o = Declare("", "chatty", "bool", d)
      BY <2>2, <3>1
    <3>3. o.type = "bool" /\ o.default = d
      BY ONLY <3>2 DEF Declare
    <3> QED BY <3>1, <3>3
  <2> QED BY <1>4, <2>1, <2>2
<1>5. CASE o = Declare("n", "nickname", "string", <<>>)
  <2>1. o.default = <<>> /\ o.long = "nickname"
    BY <1>1, <1>5
  <2> QED BY <2>1
<1> QED BY <1>2, <1>3, <1>4, <1>5, Zenon DEF ServerOptions, ClientOptions

\* An int that can hold a port can hold the defaults of the two programs.
LEMMA ProgramsFit ==
    ASSUME Programs \subseteq {ServerOptions, ClientOptions}, IntMax >= 95
    PROVE  DefaultsFit /\ OnlyNameAsked
<1>1. ASSUME NEW options \in Programs, NEW o \in options
      PROVE  /\ o.default # <<>> => Len(o.default) = 1 /\ Fits(o, o.default[1])
             /\ o.default = <<>> => o.long = "nickname"
  <2>1. o \in ServerOptions \cup ClientOptions
    OBVIOUS
  <2>2. o.default \in Seq(Texts)
    BY ProgramsAssumption DEF OptionDetails
  <2>3. ASSUME NEW t, o.default = <<t>>
        PROVE  o.default # <<>> /\ Len(o.default) = 1 /\ o.default[1] = t /\ t \in Texts
    <3>1. PICK d : d = o.default
      OBVIOUS
    <3>2. d # <<>> /\ Len(d) = 1 /\ d[1] = t /\ 1 \in 1..Len(d)
      BY <2>3, <3>1
    <3> QED BY <2>2, <3>1, <3>2, ElementOfSeq
  <2>4. CASE o.type = "int" /\ o.default \in {<<Decimal(<<9, 5>>)>>, <<Decimal(<<3>>)>>}
    <3>1. PICK t : o.default = <<t>> /\ t \in {Decimal(<<9, 5>>), Decimal(<<3>>)}
      BY <2>4
    <3>2. t \in Texts /\ o.default # <<>> /\ Len(o.default) = 1 /\ o.default[1] = t
      BY <2>3, <3>1
    <3>3. ~t.hex /\ t.negative = FALSE /\ t.digits \in {<<9, 5>>, <<3>>}
      BY <3>1 DEF Decimal, Text
    <3>4. Number(t) \in {95, 3}
      <4>1. 9 \in 0..9 /\ 5 \in 0..9 /\ 3 \in 0..9 /\ 10 * 9 + 5 = 95
        OBVIOUS
      <4>2. t.digits = <<9, 5>> => Number(t) = 10 * 9 + 5
        BY <3>2, <3>3, <4>1, DecimalIs
      <4>3. t.digits = <<3>> => Number(t) = 3
        BY <3>2, <3>3, <4>1, DecimalIs
      <4> QED BY <3>3, <4>1, <4>2, <4>3
    <3>5. t.digits # <<>> /\ \A i \in DOMAIN t.digits : t.digits[i] < Base(t)
      <4>1. Base(t) = 10
        BY <3>3 DEF Base
      <4>2. CASE t.digits = <<9, 5>>
        BY <4>1, <4>2
      <4>3. CASE t.digits = <<3>>
        BY <4>1, <4>3
      <4> QED BY <3>3, <4>2, <4>3
    <3>6. Number(t) \in -IntMax - 1..IntMax
      BY <3>4, IntMaxAssumption
    <3> QED BY <2>4, <3>2, <3>5, <3>6 DEF Fits
  <2>5. CASE o.type = "string" /\ o.default = <<Name("address")>>
    BY <2>3, <2>5 DEF Fits
  <2>6. CASE o.type = "bool" /\ o.default = <<False>>
    <3>1. False.truth # "neither"
      BY DEF False, Text
    <3> QED BY <2>3, <2>6, <3>1 DEF Fits
  <2>7. CASE o.default = <<>> /\ o.long = "nickname"
    BY <2>7
  <2> QED BY <2>1, <2>4, <2>5, <2>6, <2>7, DefaultsAre
<1> QED BY <1>1 DEF DefaultsFit, OnlyNameAsked

\* Neither program calls interact without a value for every option it declares,
\* so that no as<T>() of main dereferences a null pointer.  The port is declared
\* with two digits: an int that holds them is enough.
THEOREM NoValueMissing ==
    ASSUME Programs \subseteq {ServerOptions, ClientOptions}, IntMax >= 95
    PROVE  Spec => []ValuesPresent
<1>1. DefaultsFit /\ OnlyNameAsked
  BY ProgramsFit
<1>2. MainInit => Asked
  BY DEF MainInit, Asked
<1>3. /\ Inv /\ Placed /\ ResultsOK /\ Asked
      /\ [Next]_vars
      => Inv' /\ Placed' /\ ResultsOK' /\ Asked'
  BY StepInv, StepPlaced, StepResults, StepAsked
<1>4. Inv /\ Placed /\ ResultsOK /\ Asked => ValuesPresent
  BY <1>1, AllPresent
<1> QED BY InitInv, InitPlaced, InitResults, <1>2, <1>3, <1>4, PTL DEF Spec

=============================================================================
