------------------------------ MODULE TextProofs ------------------------------
(***************************************************************************)
(* Facts about the operators that read and write texts, for texts of any   *)
(* length: what digits make up and how numbers are written, that dates and *)
(* amounts print as they were read and read as they are printed, what the  *)
(* loop of from_decimal_string accepts and computes, and what replacing    *)
(* characters and joining texts makes.                                     *)
(*                                                                         *)
(* What a loop or a recursion over the characters of a text computes is    *)
(* proved by taking the least position at which it would go wrong          *)
(* (LeastNumber, EveryStep).                                               *)
(***************************************************************************)
EXTENDS RowPipeline, FiniteSetTheorems, SequenceTheorems, WellFoundedInduction, TLAPS

-----------------------------------------------------------------------------
(* The least number with a property, and functions given step by step. *)

\* Every set of natural numbers has a least element.
LEMMA LeastNumber ==
  ASSUME NEW T, T \subseteq Nat, T # {}
  PROVE  \E m \in T : \A n \in T : m <= n
<1> DEFINE less == OpToRel(<, Nat)
<1>1. IsWellFoundedOn(less, Nat)
  BY NatLessThanWellFounded
<1>2. \A m, n \in Nat : m < n => <<m, n>> \in less
  BY DEF OpToRel
<1> HIDE DEF less
<1>3. PICK m \in T : \A n \in T : ~(<<n, m>> \in less)
  BY <1>1, WFMin
<1>4. ASSUME NEW n \in T
      PROVE  m <= n
  <2>1. m \in Nat /\ n \in Nat /\ ~(n < m)
    BY <1>2, <1>3
  <2> QED BY <2>1
<1> QED BY <1>4

\* Induction over a set of numbers.
LEMMA EveryStep ==
  ASSUME NEW n \in Nat, NEW T, 0 \in T, \A k \in 1..n : k - 1 \in T => k \in T
  PROVE  \A k \in 0..n : k \in T
<1> DEFINE B == {k \in 0..n : k \notin T}
<1>1. SUFFICES ASSUME B # {} PROVE FALSE
  OBVIOUS
<1>2. PICK m \in B : \A k \in B : m <= k
  <2> HIDE DEF B
  <2>1. B \subseteq Nat
    BY DEF B
  <2> QED BY <1>1, <2>1, LeastNumber
<1>3. m \in 1..n /\ m - 1 \in 0..n /\ ~(m <= m - 1)
  OBVIOUS
<1>4. m - 1 \notin B
  BY <1>2, <1>3
<1> QED BY <1>3, <1>4

\* Recursion over an interval: the function that starts with b and takes step
\* st[k] at k.
Iterates(g, b, st, n) == g[0] = b /\ \A k \in 1..n : g[k] = st[k][g[k - 1]]

\* There is one.
LEMMA Recursion ==
  ASSUME NEW V, NEW b \in V, NEW n \in Nat, NEW st \in [1..n -> [V -> V]]
  PROVE  \E g \in [0..n -> V] : Iterates(g, b, st, n)
<1> DEFINE T == {m \in 0..n : \E g \in [0..m -> V] : Iterates(g, b, st, m)}
<1>1. 0 \in T
  <2> DEFINE g == [k \in 0..0 |-> b]
  <2>1. g \in [0..0 -> V] /\ g[0] = b
    OBVIOUS
  <2> HIDE DEF g
  <2>2. Iterates(g, b, st, 0)
    BY <2>1 DEF Iterates
  <2> QED BY <2>1, <2>2
<1>2. ASSUME NEW m \in 1..n, m - 1 \in T
      PROVE  m \in T
  <2>1. PICK h \in [0..(m - 1) -> V] : Iterates(h, b, st, m - 1)
    BY <1>2
  <2>2. h[m - 1] \in V /\ st[m] \in [V -> V]
    OBVIOUS
  <2> DEFINE g == [k \in 0..m |-> IF k = m THEN st[m][h[m - 1]] ELSE h[k]]
  <2>3. g \in [0..m -> V]
    BY <2>2
  <2>4. g[0] = b
    BY <2>1 DEF Iterates
  <2>5. ASSUME NEW k \in 1..m
        PROVE  g[k] = st[k][g[k - 1]]
    BY <2>1 DEF Iterates
  <2> HIDE DEF g
  <2>6. Iterates(g, b, st, m)
    BY <2>4, <2>5 DEF Iterates
  <2> QED BY <2>3, <2>6
<1> HIDE DEF T
<1>3. \A k \in 0..n : k \in T
  BY <1>1, <1>2, EveryStep
<1>4. n \in T
  BY <1>3
<1> QED BY <1>4 DEF T

\* There is only one.
LEMMA RecursionIsUnique ==
  ASSUME NEW b, NEW n \in Nat, NEW st, NEW g, NEW h,
         Iterates(g, b, st, n), Iterates(h, b, st, n)
  PROVE  \A k \in 0..n : g[k] = h[k]
<1> DEFINE T == {k \in 0..n : g[k] = h[k]}
<1>1. 0 \in T
  BY DEF Iterates
<1>2. ASSUME NEW k \in 1..n, k - 1 \in T
      PROVE  k \in T
  <2>1. g[k] = st[k][g[k - 1]] /\ h[k] = st[k][h[k - 1]] /\ g[k - 1] = h[k - 1]
    BY <1>2 DEF Iterates
  <2> QED BY <2>1
<1> HIDE DEF T
<1>3. \A k \in 0..n : k \in T
  BY <1>1, <1>2, EveryStep
<1> QED BY <1>3 DEF T

-----------------------------------------------------------------------------
(* Numbers and their digits. *)

\* What Leading computes on the way to k.
IsRest(f, n, k) == f = [j \in 0..k |-> IF j = 0 THEN n ELSE f[j - 1] \div 10]

\* The recursion of Leading has a solution: k digits less is k divisions by ten.
LEMMA LeadingIsRest ==
  ASSUME NEW n \in Nat, NEW k \in Nat
  PROVE  \E f \in [0..k -> Nat] : IsRest(f, n, k) /\ Leading(n, k) = f[k]
<1> DEFINE shift == [m \in Nat |-> m \div 10]
           st == [j \in 1..k |-> shift]
           f == CHOOSE h : IsRest(h, n, k)
<1>1. PICK g \in [0..k -> Nat] : Iterates(g, n, st, k)
  <2>1. shift \in [Nat -> Nat]
    OBVIOUS
  <2> HIDE DEF shift
  <2>2. st \in [1..k -> [Nat -> Nat]]
    BY <2>1
  <2> HIDE DEF st
  <2> QED BY <2>2, Recursion
<1>2. IsRest(g, n, k)
  <2>1. ASSUME NEW j \in 0..k
        PROVE  g[j] = IF j = 0 THEN n ELSE g[j - 1] \div 10
    <3>1. CASE j = 0
      BY <1>1, <3>1 DEF Iterates
    <3>2. CASE j # 0
      <4>1. j \in 1..k /\ g[j - 1] \in Nat
        BY <3>2
      <4>2. g[j] = st[j][g[j - 1]]
        BY <1>1, <4>1 DEF Iterates
      <4> QED BY <3>2, <4>1, <4>2
    <3> QED BY <3>1, <3>2
  <2>2. g = [j \in 0..k |-> g[j]]
    OBVIOUS
  <2> QED BY <2>1, <2>2 DEF IsRest
<1>3. IsRest(f, n, k)
  BY <1>2
<1>4. Leading(n, k) = f[k]
  BY DEF Leading, IsRest
<1> HIDE DEF f, st, shift
<1>5. f \in [0..k -> Nat]
  <2> DEFINE T == {j \in 0..k : f[j] \in Nat}
  <2>1. \A j \in 0..k : f[j] = IF j = 0 THEN n ELSE f[j - 1] \div 10
    BY <1>3 DEF IsRest
  <2>2. 0 \in T
    BY <2>1
  <2>3. ASSUME NEW j \in 1..k, j - 1 \in T
        PROVE  j \in T
    BY <2>1, <2>3
  <2> HIDE DEF T
  <2>4. \A j \in 0..k : j \in T
    BY <2>2, <2>3, EveryStep
  <2>5. \A j \in 0..k : f[j] \in Nat
    BY <2>4 DEF T
  <2>6. f = [j \in 0..k |-> f[j]]
    BY <1>3 DEF IsRest
  <2> QED BY <2>5, <2>6
<1> QED BY <1>3, <1>4, <1>5

\* Without none of its digits a number is itself.
LEMMA LeadingOfNone ==
  ASSUME NEW n \in Nat
  PROVE  Leading(n, 0) = n
<1>1. PICK f \in [0..0 -> Nat] : IsRest(f, n, 0) /\ Leading(n, 0) = f[0]
  BY LeadingIsRest
<1> QED BY <1>1 DEF IsRest

\* One digit less.
LEMMA LeadingStep ==
  ASSUME NEW n \in Nat, NEW k \in Nat
  PROVE  Leading(n, k) \in Nat /\ Leading(n, k + 1) = Leading(n, k) \div 10
<1>1. PICK f \in [0..k -> Nat] : IsRest(f, n, k) /\ Leading(n, k) = f[k]
  BY LeadingIsRest
<1>2. PICK h \in [0..(k + 1) -> Nat] : IsRest(h, n, k + 1) /\ Leading(n, k + 1) = h[k + 1]
  <2>1. k + 1 \in Nat
    OBVIOUS
  <2> QED BY <2>1, LeadingIsRest
<1>3. \A j \in 0..k : f[j] = IF j = 0 THEN n ELSE f[j - 1] \div 10
  BY <1>1 DEF IsRest
<1>4. \A j \in 0..(k + 1) : h[j] = IF j = 0 THEN n ELSE h[j - 1] \div 10
  BY <1>2 DEF IsRest
<1> DEFINE T == {j \in 0..k : f[j] = h[j]}
<1>5. 0 \in T
  BY <1>3, <1>4
<1>6. ASSUME NEW j \in 1..k, j - 1 \in T
      PROVE  j \in T
  <2>1. f[j] = f[j - 1] \div 10 /\ h[j] = h[j - 1] \div 10 /\ f[j - 1] = h[j - 1]
    BY <1>3, <1>4, <1>6
  <2> QED BY <2>1
<1> HIDE DEF T
<1>7. \A j \in 0..k : j \in T
  BY <1>5, <1>6, EveryStep
<1>8. f[k] = h[k]
  BY <1>7 DEF T
<1>9. h[k + 1] = h[k] \div 10
  BY <1>4
<1> QED BY <1>1, <1>2, <1>8, <1>9

\* The first divisions in terms of the number itself.
LEMMA FirstPlaces ==
  ASSUME NEW n \in Nat
  PROVE  /\ Leading(n, 0) = n \div 1 /\ Leading(n, 1) = n \div 10
         /\ Leading(n, 2) = n \div 100 /\ Leading(n, 3) = n \div 1000
<1>1. Leading(n, 0) = n
  BY LeadingOfNone
<1>2. /\ Leading(n, 0 + 1) = Leading(n, 0) \div 10
      /\ Leading(n, 1 + 1) = Leading(n, 1) \div 10
      /\ Leading(n, 2 + 1) = Leading(n, 2) \div 10
  BY LeadingStep
<1>3. Leading(n, 1) = n \div 10 /\ Leading(n, 2) = (n \div 10) \div 10
  BY <1>1, <1>2
<1>4. Leading(n, 3) = ((n \div 10) \div 10) \div 10
  BY <1>2, <1>3
<1>5. n = n \div 1 /\ (n \div 10) \div 10 = n \div 100
      /\ ((n \div 10) \div 10) \div 10 = n \div 1000
  OBVIOUS
<1> QED BY <1>1, <1>3, <1>4, <1>5

\* The number has no more digits than its value.
LEMMA LeadingVanishes ==
  ASSUME NEW n \in Nat
  PROVE  Leading(n, n + 1) = 0
<1> DEFINE T == {k \in 0..(n + 1) : Leading(n, k) + k <= n \/ Leading(n, k) = 0}
<1>1. \A k \in Nat : Leading(n, k) \in Nat /\ Leading(n, k + 1) = Leading(n, k) \div 10
  BY LeadingStep
<1>2. 0 \in T
  BY LeadingOfNone
<1>3. ASSUME NEW k \in 1..(n + 1), k - 1 \in T
      PROVE  k \in T
  <2>1. /\ k - 1 \in Nat /\ Leading(n, k - 1) \in Nat
        /\ Leading(n, (k - 1) + 1) = Leading(n, k - 1) \div 10
    BY <1>1
  <2>2. Leading(n, k) = Leading(n, k - 1) \div 10
    BY <2>1
  <2>3. Leading(n, k - 1) + (k - 1) <= n \/ Leading(n, k - 1) = 0
    BY <1>3
  <2> DEFINE a == Leading(n, k - 1)
             b == Leading(n, k)
  <2> HIDE DEF a, b
  <2>4. a \in Nat /\ b = a \div 10 /\ (a + (k - 1) <= n \/ a = 0)
    BY <2>1, <2>2, <2>3 DEF a, b
  <2>5. b + k <= n \/ b = 0
    BY <2>4
  <2> QED BY <2>5 DEF b
<1> HIDE DEF T
<1>4. \A k \in 0..(n + 1) : k \in T
  BY <1>2, <1>3, EveryStep
<1>5. n + 1 \in 0..(n + 1) /\ n + 1 \in Nat
  OBVIOUS
<1>6. Leading(n, n + 1) + (n + 1) <= n \/ Leading(n, n + 1) = 0
  BY <1>4, <1>5 DEF T
<1>7. Leading(n, n + 1) \in Nat
  BY <1>1, <1>5
<1> QED BY <1>6, <1>7

\* g holds the numbers that the digits of s from position lo on make up.
IsNumeral(g, s, lo, hi) ==
  g = [k \in (lo - 1)..hi |-> IF k < lo THEN 0 ELSE 10 * g[k - 1] + DecimalValue(s[k])]

\* The recursion of NumberAt has a solution: the least position up to which it
\* has none would have one.
LEMMA NumeralExists ==
  ASSUME NEW s, NEW lo \in Nat \ {0}, NEW hi \in Nat, hi >= lo - 1
  PROVE  \E g : IsNumeral(g, s, lo, hi)
<1> DEFINE T == {n \in Nat : n >= lo - 1 /\ ~\E g : IsNumeral(g, s, lo, n)}
<1>1. SUFFICES ASSUME T # {} PROVE FALSE
  OBVIOUS
<1>2. PICK m \in T : \A n \in T : m <= n
  <2> HIDE DEF T
  <2>1. T \subseteq Nat
    BY DEF T
  <2> QED BY <1>1, <2>1, LeastNumber
<1>3. m \in Nat /\ m >= lo - 1
  OBVIOUS
<1>4. CASE m = lo - 1
  <2> DEFINE g == [k \in (lo - 1)..m |-> 0]
  <2>1. IsNumeral(g, s, lo, m)
    BY <1>3, <1>4 DEF IsNumeral
  <2> QED BY <2>1
<1>5. CASE m # lo - 1
  <2>1. m - 1 \in Nat /\ m - 1 >= lo - 1 /\ m - 1 \notin T
    BY <1>2, <1>3, <1>5
  <2>2. PICK h : IsNumeral(h, s, lo, m - 1)
    BY <2>1
  <2> DEFINE g == [k \in (lo - 1)..m |-> IF k = m THEN 10 * h[m - 1] + DecimalValue(s[m]) ELSE h[k]]
  <2>3. \A k \in (lo - 1)..(m - 1) :
          h[k] = IF k < lo THEN 0 ELSE 10 * h[k - 1] + DecimalValue(s[k])
    BY <2>2 DEF IsNumeral
  <2>4. ASSUME NEW k \in (lo - 1)..m
        PROVE  g[k] = IF k < lo THEN 0 ELSE 10 * g[k - 1] + DecimalValue(s[k])
    <3>1. CASE k = m
      BY <1>3, <1>5, <3>1
    <3>2. CASE k # m
      <4>1. k \in (lo - 1)..(m - 1) /\ g[k] = h[k]
        BY <1>3, <3>2
      <4>2. k >= lo => k - 1 \in (lo - 1)..m /\ g[k - 1] = h[k - 1]
        BY <1>3, <3>2
      <4> HIDE DEF g
      <4> QED BY <2>3, <4>1, <4>2
    <3> QED BY <3>1, <3>2
  <2>5. g = [k \in (lo - 1)..m |-> g[k]]
    OBVIOUS
  <2> HIDE DEF g
  <2>6. IsNumeral(g, s, lo, m)
    BY <2>4, <2>5 DEF IsNumeral
  <2> QED BY <2>6 DEF T
<1> QED BY <1>4, <1>5

\* Two solutions agree as far as both go.
LEMMA NumeralUnique ==
  ASSUME NEW s, NEW lo \in Nat \ {0}, NEW m \in Nat, NEW n \in Nat, m <= n,
         NEW g, NEW h, IsNumeral(g, s, lo, m), IsNumeral(h, s, lo, n)
  PROVE  \A k \in (lo - 1)..m : g[k] = h[k]
<1> DEFINE T == {k \in (lo - 1)..m : g[k] # h[k]}
<1>1. SUFFICES ASSUME T # {} PROVE FALSE
  OBVIOUS
<1>2. PICK k \in T : \A l \in T : k <= l
  <2> HIDE DEF T
  <2>1. T \subseteq Nat
    BY DEF T
  <2> QED BY <1>1, <2>1, LeastNumber
<1>3. k \in (lo - 1)..m /\ k \in (lo - 1)..n
  OBVIOUS
<1>4. /\ g[k] = IF k < lo THEN 0 ELSE 10 * g[k - 1] + DecimalValue(s[k])
      /\ h[k] = IF k < lo THEN 0 ELSE 10 * h[k - 1] + DecimalValue(s[k])
  BY <1>3 DEF IsNumeral
<1>5. k >= lo => k - 1 \in (lo - 1)..m /\ g[k - 1] = h[k - 1]
  BY <1>2, <1>3
<1>6. g[k] = h[k]
  BY <1>3, <1>4, <1>5
<1> QED BY <1>6

\* What NumberAt takes from its recursion.
LEMMA NumberAtIsNumeral ==
  ASSUME NEW s, NEW lo \in Nat \ {0}, NEW hi \in Nat, hi >= lo
  PROVE  \E g : IsNumeral(g, s, lo, hi) /\ NumberAt(s, lo, hi) = g[hi]
<1> DEFINE g == CHOOSE h : IsNumeral(h, s, lo, hi)
<1>1. IsNumeral(g, s, lo, hi)
  <2>1. hi >= lo - 1
    OBVIOUS
  <2>2. \E h : IsNumeral(h, s, lo, hi)
    BY <2>1, NumeralExists
  <2> QED BY <2>2
<1>2. NumberAt(s, lo, hi) = g[hi]
  BY DEF NumberAt, IsNumeral
<1> QED BY <1>1, <1>2

\* One digit more.
LEMMA NumberStep ==
  ASSUME NEW s, NEW lo \in Nat \ {0}, NEW hi \in Nat, hi >= lo
  PROVE  NumberAt(s, lo, hi) = 10 * NumberAt(s, lo, hi - 1) + DecimalValue(s[hi])
<1>1. PICK g : IsNumeral(g, s, lo, hi) /\ NumberAt(s, lo, hi) = g[hi]
  BY NumberAtIsNumeral
<1>2. g[hi] = 10 * g[hi - 1] + DecimalValue(s[hi])
  BY <1>1 DEF IsNumeral
<1>3. g[hi - 1] = NumberAt(s, lo, hi - 1)
  <2>1. CASE hi = lo
    <3>1. g[hi - 1] = 0
      BY <1>1, <2>1 DEF IsNumeral
    <3>2. NumberAt(s, lo, hi - 1) = 0
      BY <2>1 DEF NumberAt
    <3> QED BY <3>1, <3>2
  <2>2. CASE hi # lo
    <3>1. hi - 1 \in Nat /\ hi - 1 >= lo /\ hi - 1 \in (lo - 1)..(hi - 1) /\ hi - 1 <= hi
      BY <2>2
    <3>2. PICK h : IsNumeral(h, s, lo, hi - 1) /\ NumberAt(s, lo, hi - 1) = h[hi - 1]
      BY <3>1, NumberAtIsNumeral
    <3>3. h[hi - 1] = g[hi - 1]
      BY <1>1, <3>1, <3>2, NumeralUnique
    <3> QED BY <3>2, <3>3
  <2> QED BY <2>1, <2>2
<1> QED BY <1>1, <1>2, <1>3

\* No digit.
LEMMA NumberOfNone ==
  ASSUME NEW s, NEW lo \in Nat, NEW hi \in Int, hi < lo
  PROVE  NumberAt(s, lo, hi) = 0
BY DEF NumberAt

\* What one digit may be, and a number below a power of ten.
OneDigit(n) == n \in 0..9

Below(n, p) == n \in Nat /\ n < p

\* Where the elements of a concatenation come from.
LEMMA Concatenated ==
  ASSUME NEW a \in Seq(Character), NEW b \in Seq(Character)
  PROVE  /\ a \o b \in Seq(Character) /\ Len(a \o b) = Len(a) + Len(b)
         /\ Len(a) \in Nat /\ Len(b) \in Nat
         /\ \A k \in 1..Len(a) : (a \o b)[k] = a[k]
         /\ \A k \in 1..Len(b) : (a \o b)[Len(a) + k] = b[k]
OBVIOUS

\* A function on 1..n is a sequence.
LEMMA FunctionIsSeq ==
  ASSUME NEW S, NEW n \in Nat, NEW f \in [1..n -> S]
  PROVE  f \in Seq(S) /\ Len(f) = n
OBVIOUS

\* The ten digits and their values.
LEMMA AsciiCharacters == \A k \in 1..10 : AsciiDigits[k] \in Character
BY PipelineAssumption DEF AsciiDigits, Range

\* The digit of a value, and the value of that digit.
LEMMA DigitOfValue ==
  ASSUME NEW n, OneDigit(n)
  PROVE  /\ IsAscii(AsciiDigits[n + 1]) /\ AsciiDigits[n + 1] \in Character
         /\ AsciiDigits[n + 1] # "arabic2" /\ AsciiDigits[n + 1] # "sup2"
         /\ AsciiValue(AsciiDigits[n + 1]) = n
<1>0. n \in 0..9
  BY DEF OneDigit
<1>1. \A l \in 0..9 : AsciiDigits[l + 1] = AsciiDigits[n + 1] => l = n
  BY <1>0 DEF AsciiDigits
<1>2. AsciiValue(AsciiDigits[n + 1]) = n
  BY <1>0, <1>1 DEF AsciiValue
<1>3. Len(AsciiDigits) = 10
  BY DEF AsciiDigits
<1>4. IsAscii(AsciiDigits[n + 1])
  BY <1>0, <1>3 DEF IsAscii, Contains
<1>5. /\ AsciiDigits[n + 1] \in Character
      /\ AsciiDigits[n + 1] # "arabic2" /\ AsciiDigits[n + 1] # "sup2"
  <2>1. \A k \in 1..10 : AsciiDigits[k] \in Character
    BY AsciiCharacters
  <2>2. \A k \in 1..10 : AsciiDigits[k] # "arabic2" /\ AsciiDigits[k] # "sup2"
    BY DEF AsciiDigits
  <2>3. n + 1 \in 1..10
    BY <1>0
  <2> QED BY <2>1, <2>2, <2>3
<1> QED BY <1>2, <1>4, <1>5

\* A digit is the one its value says.
LEMMA ValueOfDigit ==
  ASSUME NEW c, IsAscii(c)
  PROVE  OneDigit(AsciiValue(c)) /\ AsciiDigits[AsciiValue(c) + 1] = c
<1>1. Len(AsciiDigits) = 10
  BY DEF AsciiDigits
<1>2. PICK l \in 1..10 : AsciiDigits[l] = c
  BY <1>1 DEF IsAscii, Contains
<1>3. l - 1 \in 0..9 /\ AsciiDigits[(l - 1) + 1] = c
  BY <1>2
<1> QED BY <1>3 DEF AsciiValue, OneDigit

\* What int() accepts has a value of one digit.
LEMMA DecimalIsANumber ==
  ASSUME NEW c, IsDecimal(c)
  PROVE  OneDigit(DecimalValue(c))
BY ValueOfDigit DEF OneDigit, IsDecimal, DecimalValue

\* In ASCII it is the digit its value says.
LEMMA ValueOfAscii ==
  ASSUME NEW c, IsDecimal(c), c # "arabic2"
  PROVE  AsciiDigits[DecimalValue(c) + 1] = c /\ OneDigit(DecimalValue(c))
BY ValueOfDigit DEF IsDecimal, DecimalValue

\* int() accepts every digit the code writes.
LEMMA DecimalOfValue ==
  ASSUME NEW n, OneDigit(n)
  PROVE  IsDecimal(AsciiDigits[n + 1]) /\ DecimalValue(AsciiDigits[n + 1]) = n
BY DigitOfValue DEF IsDecimal, DecimalValue

\* Two and four digits as a number, and the digit of n that stands for p's.
Two(a, b) == 10 * a + b

Four(a, b, c, d) == 1000 * a + 100 * b + 10 * c + d

Place(n, p) == (n \div p) % 10

\* Every decimal place holds one digit.
LEMMA PlaceIsADigit ==
  ASSUME NEW n \in Nat
  PROVE  \A p \in {1, 10, 100, 1000} : OneDigit(Place(n, p))
BY DEF Place, OneDigit

\* A number below 100 is made up of its two places.
LEMMA NumberOfTwo ==
  ASSUME NEW n, Below(n, 100)
  PROVE  n = Two(Place(n, 10), Place(n, 1))
<1>1. n = 10 * ((n \div 10) % 10) + (n % 10) /\ n \div 1 = n
  BY DEF Below
<1> QED BY <1>1 DEF Two, Place

\* A number below 10000 is made up of its four places.
LEMMA NumberOfFour ==
  ASSUME NEW n, Below(n, 10000)
  PROVE  n = Four(Place(n, 1000), Place(n, 100), Place(n, 10), Place(n, 1))
<1>1. n = 1000 * ((n \div 1000) % 10) + 100 * ((n \div 100) % 10)
            + 10 * ((n \div 10) % 10) + (n % 10)
  BY SMTT(60) DEF Below
<1>2. n \div 1 = n
  BY DEF Below
<1> QED BY <1>1, <1>2 DEF Four, Place

\* Two digits are the places of their number.
LEMMA PlacesOfTwo ==
  ASSUME NEW a, NEW b, OneDigit(a), OneDigit(b)
  PROVE  Two(a, b) \in Nat /\ Place(Two(a, b), 10) = a /\ Place(Two(a, b), 1) = b
<1> DEFINE n == 10 * a + b
<1>1. n \in Nat /\ (n \div 10) % 10 = a /\ n % 10 = b /\ n \div 1 = n
  BY DEF OneDigit
<1> QED BY <1>1 DEF Two, Place

\* Four digits are the places of theirs.
LEMMA PlacesOfFour ==
  ASSUME NEW a, NEW b, NEW c, NEW d, OneDigit(a), OneDigit(b), OneDigit(c), OneDigit(d)
  PROVE  /\ Four(a, b, c, d) \in Nat
         /\ Place(Four(a, b, c, d), 1000) = a /\ Place(Four(a, b, c, d), 100) = b
         /\ Place(Four(a, b, c, d), 10) = c /\ Place(Four(a, b, c, d), 1) = d
<1> DEFINE n == 1000 * a + 100 * b + 10 * c + d
<1>1. /\ n \in Nat
      /\ (n \div 1000) % 10 = a /\ (n \div 100) % 10 = b
      /\ (n \div 10) % 10 = c /\ n % 10 = d /\ n \div 1 = n
  BY DEF OneDigit
<1> QED BY <1>1 DEF Four, Place

\* Two digits and four, read and written.
LEMMA TwoDigits ==
  ASSUME NEW s, NEW k \in Nat \ {0}, OneDigit(DecimalValue(s[k])), OneDigit(DecimalValue(s[k + 1]))
  PROVE  NumberAt(s, k, k + 1) = Two(DecimalValue(s[k]), DecimalValue(s[k + 1]))
<1>1. NumberAt(s, k, k + 1) = 10 * NumberAt(s, k, k) + DecimalValue(s[k + 1])
  <2>1. (k + 1) - 1 = k /\ k + 1 >= k /\ k + 1 \in Nat
    OBVIOUS
  <2> QED BY <2>1, NumberStep
<1>2. NumberAt(s, k, k) = 10 * NumberAt(s, k, k - 1) + DecimalValue(s[k])
  BY NumberStep
<1>3. NumberAt(s, k, k - 1) = 0
  BY NumberOfNone
<1> QED BY <1>1, <1>2, <1>3 DEF Two, OneDigit

\* The number in the first four characters.
LEMMA FourDigits ==
  ASSUME NEW s, \A k \in 1..4 : OneDigit(DecimalValue(s[k]))
  PROVE  NumberAt(s, 1, 4) = Four(DecimalValue(s[1]), DecimalValue(s[2]),
                                  DecimalValue(s[3]), DecimalValue(s[4]))
<1>1. NumberAt(s, 1, 2) = 10 * DecimalValue(s[1]) + DecimalValue(s[2])
  BY TwoDigits DEF Two
<1>2. NumberAt(s, 1, 3) = 10 * NumberAt(s, 1, 2) + DecimalValue(s[3])
  <2>1. 3 - 1 = 2 /\ 3 >= 1
    OBVIOUS
  <2> QED BY <2>1, NumberStep
<1>3. NumberAt(s, 1, 4) = 10 * NumberAt(s, 1, 3) + DecimalValue(s[4])
  <2>1. 4 - 1 = 3 /\ 4 >= 1
    OBVIOUS
  <2> QED BY <2>1, NumberStep
<1>4. 1 \in 1..4 /\ 2 \in 1..4 /\ 3 \in 1..4 /\ 4 \in 1..4
  OBVIOUS
<1> QED BY <1>1, <1>2, <1>3, <1>4 DEF Four, OneDigit

\* The characters of a number written in two digits.
LEMMA DigitsOfTwo ==
  ASSUME NEW n \in Nat
  PROVE  /\ Digits(n, 2) \in Seq(Character) /\ Len(Digits(n, 2)) = 2
         /\ Digits(n, 2)[1] = AsciiDigits[Place(n, 10) + 1]
         /\ Digits(n, 2)[2] = AsciiDigits[Place(n, 1) + 1]
<1>1. Leading(n, 2 - 1) = n \div 10 /\ Leading(n, 2 - 2) = n \div 1
  BY FirstPlaces
<1>2. /\ Digits(n, 2)[1] = AsciiDigits[Place(n, 10) + 1]
      /\ Digits(n, 2)[2] = AsciiDigits[Place(n, 1) + 1]
  BY <1>1 DEF Digits, Place
<1>3. OneDigit(Place(n, 10)) /\ OneDigit(Place(n, 1))
  BY PlaceIsADigit
<1>4. Digits(n, 2)[1] \in Character /\ Digits(n, 2)[2] \in Character
  BY <1>2, <1>3, DigitOfValue
<1>5. DOMAIN Digits(n, 2) = 1..2 /\ Digits(n, 2) = [k \in 1..2 |-> Digits(n, 2)[k]]
  BY DEF Digits
<1>6. \A k \in 1..2 : Digits(n, 2)[k] \in Character
  BY <1>4
<1>7. Digits(n, 2) \in Seq(Character) /\ Len(Digits(n, 2)) = 2
  <2>1. Digits(n, 2) \in [1..2 -> Character]
    BY <1>5, <1>6
  <2> QED BY <2>1, FunctionIsSeq
<1> QED BY <1>2, <1>7

\* The characters of a number written in four digits.
LEMMA DigitsOfFour ==
  ASSUME NEW n \in Nat
  PROVE  /\ Digits(n, 4) \in Seq(Character) /\ Len(Digits(n, 4)) = 4
         /\ Digits(n, 4)[1] = AsciiDigits[Place(n, 1000) + 1]
         /\ Digits(n, 4)[2] = AsciiDigits[Place(n, 100) + 1]
         /\ Digits(n, 4)[3] = AsciiDigits[Place(n, 10) + 1]
         /\ Digits(n, 4)[4] = AsciiDigits[Place(n, 1) + 1]
<1>1. /\ Leading(n, 4 - 1) = n \div 1000 /\ Leading(n, 4 - 2) = n \div 100
      /\ Leading(n, 4 - 3) = n \div 10 /\ Leading(n, 4 - 4) = n \div 1
  BY FirstPlaces
<1>2. /\ Digits(n, 4)[1] = AsciiDigits[Place(n, 1000) + 1]
      /\ Digits(n, 4)[2] = AsciiDigits[Place(n, 100) + 1]
      /\ Digits(n, 4)[3] = AsciiDigits[Place(n, 10) + 1]
      /\ Digits(n, 4)[4] = AsciiDigits[Place(n, 1) + 1]
  BY <1>1 DEF Digits, Place
<1>3. \A p \in {1, 10, 100, 1000} : OneDigit(Place(n, p))
  BY PlaceIsADigit
<1>4. \A k \in {1, 2, 3, 4} : Digits(n, 4)[k] \in Character
  BY <1>2, <1>3, DigitOfValue
<1>5. DOMAIN Digits(n, 4) = 1..4 /\ Digits(n, 4) = [k \in 1..4 |-> Digits(n, 4)[k]]
  BY DEF Digits
<1>6. \A k \in 1..4 : Digits(n, 4)[k] \in Character
  BY <1>4
<1>7. Digits(n, 4) \in Seq(Character) /\ Len(Digits(n, 4)) = 4
  <2>1. Digits(n, 4) \in [1..4 -> Character]
    BY <1>5, <1>6
  <2> QED BY <2>1, FunctionIsSeq
<1> QED BY <1>2, <1>7

-----------------------------------------------------------------------------
(* Dates. *)

\* The characters of a date's text.
LEMMA DateTextIs ==
  ASSUME NEW d \in Nat \X Nat \X Nat, NEW s, s = DateToString(d)
  PROVE  /\ s \in Seq(Character) /\ Len(s) = 10
         /\ \A k \in 1..4 : s[k] = Digits(d[1], 4)[k]
         /\ s[5] = "-" /\ s[8] = "-"
         /\ s[6] = Digits(d[2], 2)[1] /\ s[7] = Digits(d[2], 2)[2]
         /\ s[9] = Digits(d[3], 2)[1] /\ s[10] = Digits(d[3], 2)[2]
<1> DEFINE y == Digits(d[1], 4)
           m == Digits(d[2], 2)
           n == Digits(d[3], 2)
           dash == <<"-">>
<1>1. d[1] \in Nat /\ d[2] \in Nat /\ d[3] \in Nat
  OBVIOUS
<1>2. /\ y \in Seq(Character) /\ Len(y) = 4
      /\ m \in Seq(Character) /\ Len(m) = 2
      /\ n \in Seq(Character) /\ Len(n) = 2
  BY <1>1, DigitsOfTwo, DigitsOfFour
<1>3. dash \in Seq(Character) /\ Len(dash) = 1 /\ dash[1] = "-"
  BY PipelineAssumption, AsciiCharacters DEF AsciiDigits
<1>4. s = (((y \o dash) \o m) \o dash) \o n
  BY DEF DateToString
<1> HIDE DEF y, m, n, dash
<1> DEFINE a == y \o dash
           b == a \o m
           c == b \o dash
<1>5. /\ a \in Seq(Character) /\ Len(a) = 5 /\ a[4 + 1] = "-"
      /\ \A k \in 1..4 : a[k] = y[k]
  <2>1. /\ a \in Seq(Character) /\ Len(a) = Len(y) + Len(dash)
        /\ \A k \in 1..Len(y) : a[k] = y[k]
        /\ \A k \in 1..Len(dash) : a[Len(y) + k] = dash[k]
    BY <1>2, <1>3, Concatenated
  <2> HIDE DEF a
  <2> QED BY <1>2, <1>3, <2>1
<1> HIDE DEF a
<1>6. /\ b \in Seq(Character) /\ Len(b) = 7 /\ b[5 + 1] = m[1] /\ b[5 + 2] = m[2]
      /\ \A k \in 1..5 : b[k] = a[k]
  <2>1. /\ b \in Seq(Character) /\ Len(b) = Len(a) + Len(m)
        /\ \A k \in 1..Len(a) : b[k] = a[k]
        /\ \A k \in 1..Len(m) : b[Len(a) + k] = m[k]
    BY <1>2, <1>5, Concatenated
  <2> HIDE DEF b
  <2> QED BY <1>2, <1>5, <2>1
<1> HIDE DEF b
<1>7. /\ c \in Seq(Character) /\ Len(c) = 8 /\ c[7 + 1] = "-"
      /\ \A k \in 1..7 : c[k] = b[k]
  <2>1. /\ c \in Seq(Character) /\ Len(c) = Len(b) + Len(dash)
        /\ \A k \in 1..Len(b) : c[k] = b[k]
        /\ \A k \in 1..Len(dash) : c[Len(b) + k] = dash[k]
    BY <1>3, <1>6, Concatenated
  <2> HIDE DEF c
  <2> QED BY <1>3, <1>6, <2>1
<1> HIDE DEF c
<1>8. s = c \o n
  BY <1>4 DEF a, b, c
<1>9. /\ s \in Seq(Character) /\ Len(s) = 10 /\ s[8 + 1] = n[1] /\ s[8 + 2] = n[2]
      /\ \A k \in 1..8 : s[k] = c[k]
  <2> DEFINE e == c \o n
  <2>1. /\ e \in Seq(Character) /\ Len(e) = Len(c) + Len(n)
        /\ \A k \in 1..Len(c) : e[k] = c[k]
        /\ \A k \in 1..Len(n) : e[Len(c) + k] = n[k]
    BY <1>2, <1>7, Concatenated
  <2>2. e = s
    BY <1>8
  <2> HIDE DEF e
  <2> QED BY <1>2, <1>7, <2>1, <2>2
<1>10. /\ \A k \in 1..4 : s[k] = y[k]
       /\ s[5] = "-" /\ s[8] = "-" /\ s[6] = m[1] /\ s[7] = m[2]
  BY <1>5, <1>6, <1>7, <1>9
<1> QED BY <1>9, <1>10 DEF y, m, n

\* Digits that make up a number are those it is printed with, and what is
\* printed is read back.
LEMMA TwoDigitsPrint ==
  ASSUME NEW a, NEW b, OneDigit(a), OneDigit(b)
  PROVE  /\ Two(a, b) \in Nat
         /\ Digits(Two(a, b), 2)[1] = AsciiDigits[a + 1]
         /\ Digits(Two(a, b), 2)[2] = AsciiDigits[b + 1]
<1>1. Two(a, b) \in Nat /\ Place(Two(a, b), 10) = a /\ Place(Two(a, b), 1) = b
  BY PlacesOfTwo
<1> QED BY <1>1, DigitsOfTwo

\* The same of four digits.
LEMMA FourDigitsPrint ==
  ASSUME NEW a, NEW b, NEW c, NEW d, OneDigit(a), OneDigit(b), OneDigit(c), OneDigit(d)
  PROVE  /\ Four(a, b, c, d) \in Nat
         /\ Digits(Four(a, b, c, d), 4)[1] = AsciiDigits[a + 1]
         /\ Digits(Four(a, b, c, d), 4)[2] = AsciiDigits[b + 1]
         /\ Digits(Four(a, b, c, d), 4)[3] = AsciiDigits[c + 1]
         /\ Digits(Four(a, b, c, d), 4)[4] = AsciiDigits[d + 1]
<1>1. /\ Four(a, b, c, d) \in Nat
      /\ Place(Four(a, b, c, d), 1000) = a /\ Place(Four(a, b, c, d), 100) = b
      /\ Place(Four(a, b, c, d), 10) = c /\ Place(Four(a, b, c, d), 1) = d
  BY PlacesOfFour
<1> QED BY <1>1, DigitsOfFour

\* A number below 100 written in two digits is read back.
LEMMA TwoDigitsRead ==
  ASSUME NEW n, Below(n, 100)
  PROVE  /\ IsDecimal(Digits(n, 2)[1]) /\ IsDecimal(Digits(n, 2)[2])
         /\ n = Two(DecimalValue(Digits(n, 2)[1]), DecimalValue(Digits(n, 2)[2]))
<1>1. n \in Nat
  BY DEF Below
<1>2. OneDigit(Place(n, 10)) /\ OneDigit(Place(n, 1))
  BY <1>1, PlaceIsADigit
<1>3. /\ Digits(n, 2)[1] = AsciiDigits[Place(n, 10) + 1]
      /\ Digits(n, 2)[2] = AsciiDigits[Place(n, 1) + 1]
  BY <1>1, DigitsOfTwo
<1>4. /\ IsDecimal(Digits(n, 2)[1]) /\ DecimalValue(Digits(n, 2)[1]) = Place(n, 10)
      /\ IsDecimal(Digits(n, 2)[2]) /\ DecimalValue(Digits(n, 2)[2]) = Place(n, 1)
  BY <1>2, <1>3, DecimalOfValue
<1> QED BY <1>4, NumberOfTwo

\* A number below 10000 written in four digits is read back.
LEMMA FourDigitsRead ==
  ASSUME NEW n, Below(n, 10000)
  PROVE  /\ \A k \in 1..4 : IsDecimal(Digits(n, 4)[k])
         /\ n = Four(DecimalValue(Digits(n, 4)[1]), DecimalValue(Digits(n, 4)[2]),
                     DecimalValue(Digits(n, 4)[3]), DecimalValue(Digits(n, 4)[4]))
<1>1. n \in Nat
  BY DEF Below
<1>2. /\ OneDigit(Place(n, 1000)) /\ OneDigit(Place(n, 100))
      /\ OneDigit(Place(n, 10)) /\ OneDigit(Place(n, 1))
  BY <1>1, PlaceIsADigit
<1>3. /\ Digits(n, 4)[1] = AsciiDigits[Place(n, 1000) + 1]
      /\ Digits(n, 4)[2] = AsciiDigits[Place(n, 100) + 1]
      /\ Digits(n, 4)[3] = AsciiDigits[Place(n, 10) + 1]
      /\ Digits(n, 4)[4] = AsciiDigits[Place(n, 1) + 1]
  BY <1>1, DigitsOfFour
<1>4. /\ IsDecimal(Digits(n, 4)[1]) /\ DecimalValue(Digits(n, 4)[1]) = Place(n, 1000)
      /\ IsDecimal(Digits(n, 4)[2]) /\ DecimalValue(Digits(n, 4)[2]) = Place(n, 100)
      /\ IsDecimal(Digits(n, 4)[3]) /\ DecimalValue(Digits(n, 4)[3]) = Place(n, 10)
      /\ IsDecimal(Digits(n, 4)[4]) /\ DecimalValue(Digits(n, 4)[4]) = Place(n, 1)
  BY <1>2, <1>3, DecimalOfValue
<1>5. \A k \in 1..4 : IsDecimal(Digits(n, 4)[k])
  BY <1>4
<1>6. n = Four(Place(n, 1000), Place(n, 100), Place(n, 10), Place(n, 1))
  BY NumberOfFour
<1> QED BY <1>4, <1>5, <1>6

\* The parts of a text that has the shape of a date.
LEMMA PartsOfDate ==
  ASSUME NEW s, \A k \in DigitPositions : IsDecimal(s[k])
  PROVE  /\ DateParts(s) = <<Four(DecimalValue(s[1]), DecimalValue(s[2]), DecimalValue(s[3]),
            DecimalValue(s[4])),
                             Two(DecimalValue(s[6]), DecimalValue(s[7])),
                             Two(DecimalValue(s[9]), DecimalValue(s[10]))>>
         /\ \A k \in DigitPositions : OneDigit(DecimalValue(s[k]))
         /\ DateParts(s) \in Nat \X Nat \X Nat
<1>1. \A k \in DigitPositions : OneDigit(DecimalValue(s[k]))
  BY DecimalIsANumber
<1>2. \A k \in 1..4 : OneDigit(DecimalValue(s[k]))
  BY <1>1 DEF DigitPositions
<1>3. /\ OneDigit(DecimalValue(s[6])) /\ OneDigit(DecimalValue(s[7]))
      /\ OneDigit(DecimalValue(s[9])) /\ OneDigit(DecimalValue(s[10]))
  BY <1>1 DEF DigitPositions
<1>4. NumberAt(s, 6, 7) = Two(DecimalValue(s[6]), DecimalValue(s[7]))
  <2>1. 6 + 1 = 7 /\ 6 \in Nat \ {0}
    OBVIOUS
  <2> QED BY <1>3, <2>1, TwoDigits
<1>5. NumberAt(s, 9, 10) = Two(DecimalValue(s[9]), DecimalValue(s[10]))
  <2>1. 9 + 1 = 10 /\ 9 \in Nat \ {0}
    OBVIOUS
  <2> QED BY <1>3, <2>1, TwoDigits
<1>6. NumberAt(s, 1, 4) = Four(DecimalValue(s[1]), DecimalValue(s[2]), DecimalValue(s[3]),
      DecimalValue(s[4]))
  BY <1>2, FourDigits
<1>7. /\ Four(DecimalValue(s[1]), DecimalValue(s[2]), DecimalValue(s[3]),
         DecimalValue(s[4])) \in Nat
      /\ Two(DecimalValue(s[6]), DecimalValue(s[7])) \in Nat
      /\ Two(DecimalValue(s[9]), DecimalValue(s[10])) \in Nat
  BY <1>2, <1>3, PlacesOfTwo, PlacesOfFour
<1> QED BY <1>1, <1>4, <1>5, <1>6, <1>7 DEF DateParts

\* An ASCII text that Date.parse accepts is what isoformat prints of it.
LEMMA ParsedDatePrints ==
  ASSUME NEW s \in Seq(Character), DateParses(s), AsciiOnly(s)
  PROVE  DateToString(DateParts(s)) = s
<1>1. /\ Len(s) = 10 /\ s[5] = "-" /\ s[8] = "-"
      /\ \A k \in DigitPositions : IsDecimal(s[k])
  BY DEF DateParses, HasDateShape, DateRaises
<1>2. \A k \in DigitPositions : s[k] # "arabic2"
  BY <1>1 DEF DigitPositions, AsciiOnly
<1>3. \A k \in DigitPositions :
        OneDigit(DecimalValue(s[k])) /\ AsciiDigits[DecimalValue(s[k]) + 1] = s[k]
  BY <1>1, <1>2, ValueOfAscii
<1> DEFINE d == DateParts(s)
           v(k) == DecimalValue(s[k])
           t == DateToString(d)
<1>4. /\ d \in Nat \X Nat \X Nat
      /\ d[1] = Four(v(1), v(2), v(3), v(4))
      /\ d[2] = Two(v(6), v(7))
      /\ d[3] = Two(v(9), v(10))
  BY <1>1, PartsOfDate
<1>5. \A k \in {1, 2, 3, 4, 6, 7, 9, 10} : OneDigit(v(k)) /\ AsciiDigits[v(k) + 1] = s[k]
  BY <1>3 DEF DigitPositions
<1> HIDE DEF d, v, t
<1>6. /\ t \in Seq(Character) /\ Len(t) = 10
      /\ \A k \in 1..4 : t[k] = Digits(d[1], 4)[k]
      /\ t[5] = "-" /\ t[8] = "-"
      /\ t[6] = Digits(d[2], 2)[1] /\ t[7] = Digits(d[2], 2)[2]
      /\ t[9] = Digits(d[3], 2)[1] /\ t[10] = Digits(d[3], 2)[2]
  BY <1>4, DateTextIs DEF t
<1>7. /\ d[1] \in Nat /\ d[2] \in Nat /\ d[3] \in Nat
  BY <1>4
<1>8. /\ OneDigit(v(1)) /\ OneDigit(v(2)) /\ OneDigit(v(3)) /\ OneDigit(v(4))
      /\ OneDigit(v(6)) /\ OneDigit(v(7)) /\ OneDigit(v(9)) /\ OneDigit(v(10))
  BY <1>5
<1>9. /\ Digits(d[1], 4)[1] = AsciiDigits[v(1) + 1] /\ Digits(d[1], 4)[2] = AsciiDigits[v(2) + 1]
      /\ Digits(d[1], 4)[3] = AsciiDigits[v(3) + 1] /\ Digits(d[1], 4)[4] = AsciiDigits[v(4) + 1]
  BY <1>4, <1>8, FourDigitsPrint
<1>10. /\ Digits(d[2], 2)[1] = AsciiDigits[v(6) + 1] /\ Digits(d[2], 2)[2] = AsciiDigits[v(7) + 1]
       /\ Digits(d[3], 2)[1] = AsciiDigits[v(9) + 1] /\ Digits(d[3], 2)[2] = AsciiDigits[v(10) + 1]
  BY <1>4, <1>8, TwoDigitsPrint
<1>11. t[1] = s[1] /\ t[2] = s[2] /\ t[3] = s[3] /\ t[4] = s[4]
  <2>1. 1 \in 1..4 /\ 2 \in 1..4 /\ 3 \in 1..4 /\ 4 \in 1..4
    OBVIOUS
  <2> QED BY <1>5, <1>6, <1>9, <2>1
<1>12. t[6] = s[6] /\ t[7] = s[7] /\ t[9] = s[9] /\ t[10] = s[10]
  BY <1>5, <1>6, <1>10
<1>13. \A k \in 1..Len(t) : t[k] = s[k]
  BY <1>1, <1>6, <1>11, <1>12
<1>14. t = s
  BY <1>1, <1>6, <1>13, SeqEqual
<1> QED BY <1>14 DEF t, d

\* The years, months and days of the calendar fit their digits.
LEMMA RealDateBounds ==
  ASSUME NEW y \in Nat, NEW m \in Nat, NEW n \in Nat, RealDate(<<y, m, n>>)
  PROVE  Below(y, 10000) /\ Below(m, 100) /\ Below(n, 100)
<1>1. DaysInMonth(y, m) \in {28, 29, 30, 31}
  BY DEF DaysInMonth
<1>2. y <= 9999 /\ m <= 12 /\ n <= DaysInMonth(y, m)
  BY DEF RealDate
<1> QED BY <1>1, <1>2 DEF Below

\* What isoformat prints of a real date, Date.parse reads back.
LEMMA PrintedDateParses ==
  ASSUME NEW d \in Nat \X Nat \X Nat, RealDate(d)
  PROVE  /\ DateParses(DateToString(d)) /\ ~DateRaises(DateToString(d))
         /\ DateParts(DateToString(d)) = d
<1> DEFINE s == DateToString(d)
<1>1. Below(d[1], 10000) /\ Below(d[2], 100) /\ Below(d[3], 100)
  <2>1. PICK y \in Nat, m \in Nat, n \in Nat : d = <<y, m, n>>
    OBVIOUS
  <2>2. Below(y, 10000) /\ Below(m, 100) /\ Below(n, 100)
    BY <2>1, RealDateBounds
  <2> QED BY <2>1, <2>2
<1>2. /\ Len(s) = 10
      /\ \A k \in 1..4 : s[k] = Digits(d[1], 4)[k]
      /\ s[5] = "-" /\ s[8] = "-"
      /\ s[6] = Digits(d[2], 2)[1] /\ s[7] = Digits(d[2], 2)[2]
      /\ s[9] = Digits(d[3], 2)[1] /\ s[10] = Digits(d[3], 2)[2]
  BY DateTextIs
<1> HIDE DEF s
<1>3. /\ s[1] = Digits(d[1], 4)[1] /\ s[2] = Digits(d[1], 4)[2]
      /\ s[3] = Digits(d[1], 4)[3] /\ s[4] = Digits(d[1], 4)[4]
  BY <1>2
<1>6. /\ IsDecimal(s[1]) /\ IsDecimal(s[2]) /\ IsDecimal(s[3]) /\ IsDecimal(s[4])
      /\ Four(DecimalValue(s[1]), DecimalValue(s[2]), DecimalValue(s[3]), DecimalValue(s[4])) = d[1]
  <2>1. 1 \in 1..4 /\ 2 \in 1..4 /\ 3 \in 1..4 /\ 4 \in 1..4
    OBVIOUS
  <2> QED BY <1>1, <1>3, <2>1, FourDigitsRead
<1>7. /\ IsDecimal(s[6]) /\ IsDecimal(s[7])
      /\ Two(DecimalValue(s[6]), DecimalValue(s[7])) = d[2]
      /\ IsDecimal(s[9]) /\ IsDecimal(s[10])
      /\ Two(DecimalValue(s[9]), DecimalValue(s[10])) = d[3]
  BY <1>1, <1>2, TwoDigitsRead
<1>8. \A k \in DigitPositions : IsDecimal(s[k])
  BY <1>6, <1>7 DEF DigitPositions
<1>9. \A k \in DigitPositions : IsDigit(s[k])
  BY <1>8 DEF IsDecimal, IsDigit
<1>10. /\ DateParts(s) \in Nat \X Nat \X Nat
       /\ DateParts(s)[1] = Four(DecimalValue(s[1]), DecimalValue(s[2]), DecimalValue(s[3]),
          DecimalValue(s[4]))
       /\ DateParts(s)[2] = Two(DecimalValue(s[6]), DecimalValue(s[7]))
       /\ DateParts(s)[3] = Two(DecimalValue(s[9]), DecimalValue(s[10]))
  BY <1>8, PartsOfDate
<1>11. DateParts(s)[1] = d[1]
  BY <1>6, <1>10
<1>12. DateParts(s)[2] = d[2] /\ DateParts(s)[3] = d[3]
  BY <1>7, <1>10
<1>13. DateParts(s) = d
  BY <1>10, <1>11, <1>12
<1>14. HasDateShape(s) /\ ~DateRaises(s)
  BY <1>2, <1>8, <1>9 DEF HasDateShape, DateRaises
<1> QED BY <1>13, <1>14 DEF DateParses, s

-----------------------------------------------------------------------------
(* The loop of from_decimal_string, character by character. *)

\* The greatest of a set of numbers, known to be one.
LEMMA MaxIs ==
  ASSUME NEW S, NEW m \in S, S \subseteq Nat, \A k \in S : k <= m
  PROVE  Max(S) = m
<1>1. \A y \in S : m >= y
  OBVIOUS
<1>2. ASSUME NEW x \in S, \A y \in S : x >= y
      PROVE  x = m
  <2>1. x \in Nat /\ m \in Nat /\ x >= m /\ m >= x
    BY <1>1, <1>2
  <2> QED BY <2>1
<1> QED BY <1>1, <1>2 DEF Max

\* f is what FoldLeft builds of the loop over the first n characters of u: one
\* value for each set of positions.
FoldsReads(f, u, n) ==
  f = [S \in SUBSET (1..n) |->
        IF S = {} THEN StartOfLoop ELSE Read(f[S \ {Max(S)}], u[Max(S)])]

\* Such a function exists for every n: the least n without one has one.
LEMMA ReadsFold ==
  ASSUME NEW u, NEW n \in Nat
  PROVE  \E f : FoldsReads(f, u, n)
<1> DEFINE T == {m \in Nat : ~\E f : FoldsReads(f, u, m)}
<1>1. SUFFICES ASSUME T # {} PROVE FALSE
  OBVIOUS
<1>2. PICK m \in T : \A k \in T : m <= k
  <2> HIDE DEF T
  <2>1. T \subseteq Nat
    BY DEF T
  <2> QED BY <1>1, <2>1, LeastNumber
<1>3. m \in Nat
  OBVIOUS
<1>4. CASE m = 0
  <2> DEFINE f == [S \in SUBSET (1..m) |-> StartOfLoop]
  <2>1. \A S \in SUBSET (1..m) : S = {}
    BY <1>4
  <2>2. FoldsReads(f, u, m)
    BY <2>1 DEF FoldsReads
  <2> QED BY <2>2
<1>5. CASE m # 0
  <2>1. m - 1 \in Nat /\ m - 1 \notin T
    BY <1>2, <1>3, <1>5
  <2>2. PICK h : FoldsReads(h, u, m - 1)
    BY <2>1
  <2> DEFINE f == [S \in SUBSET (1..m) |-> IF m \in S THEN Read(h[S \ {m}], u[m]) ELSE h[S]]
  <2>3. \A S \in SUBSET (1..(m - 1)) :
          h[S] = IF S = {} THEN StartOfLoop ELSE Read(h[S \ {Max(S)}], u[Max(S)])
    BY <2>2 DEF FoldsReads
  <2>4. ASSUME NEW S \in SUBSET (1..m)
        PROVE  f[S] = IF S = {} THEN StartOfLoop ELSE Read(f[S \ {Max(S)}], u[Max(S)])
    <3>1. CASE m \in S
      <4>1. Max(S) = m
        <5>1. S \subseteq Nat /\ \A k \in S : k <= m
          BY <1>3
        <5> HIDE DEF T
        <5> QED BY <3>1, <5>1, MaxIs
      <4>2. S \ {m} \in SUBSET (1..m) /\ f[S \ {m}] = h[S \ {m}]
        OBVIOUS
      <4>3. f[S] = Read(h[S \ {m}], u[m])
        BY <3>1
      <4> HIDE DEF f
      <4> QED BY <3>1, <4>1, <4>2, <4>3
    <3>2. CASE m \notin S
      <4>1. S \in SUBSET (1..(m - 1))
        BY <1>3, <3>2
      <4>2. f[S] = h[S]
        BY <3>2
      <4>3. S \ {Max(S)} \in SUBSET (1..m) /\ f[S \ {Max(S)}] = h[S \ {Max(S)}]
        BY <3>2
      <4> HIDE DEF f
      <4> QED BY <2>3, <4>1, <4>2, <4>3
    <3> QED BY <3>1, <3>2
  <2>5. f = [S \in SUBSET (1..m) |-> f[S]]
    OBVIOUS
  <2> HIDE DEF f
  <2>6. FoldsReads(f, u, m)
    BY <2>4, <2>5 DEF FoldsReads
  <2> QED BY <2>6
<1> QED BY <1>4, <1>5

\* g holds the locals of the loop: g[k] after k characters of u.
IsLoop(g, u) ==
  /\ g[0] = StartOfLoop
  /\ \A k \in 1..Len(u) : g[k] = Read(g[k - 1], u[k])

\* The fold goes through the states of the loop.
LEMMA FoldIsLoop ==
  ASSUME NEW u \in Seq(Character)
  PROVE  \E g : IsLoop(g, u) /\ FoldLeft(Read, StartOfLoop, u) = g[Len(u)]
<1> DEFINE n == Len(u)
           f == CHOOSE h : FoldsReads(h, u, n)
           g == [k \in 0..n |-> f[1..k]]
<1>1. n \in Nat /\ DOMAIN u = 1..n
  OBVIOUS
<1>2. FoldsReads(f, u, n)
  <2>1. \E h : FoldsReads(h, u, n)
    BY <1>1, ReadsFold
  <2> HIDE DEF n
  <2> QED BY <2>1
<1>3. FoldLeft(Read, StartOfLoop, u) = f[1..n]
  BY <1>1 DEF FoldLeft, MapThenFoldSet, FoldsReads
<1> HIDE DEF f
<1>4. \A S \in SUBSET (1..n) :
        f[S] = IF S = {} THEN StartOfLoop ELSE Read(f[S \ {Max(S)}], u[Max(S)])
  BY <1>2 DEF FoldsReads
<1> HIDE DEF n
<1>5. ASSUME NEW k \in 1..n
      PROVE  g[k] = Read(g[k - 1], u[k])
  <2>1. Max(1..k) = k
    <3>1. 1..k \subseteq Nat /\ k \in 1..k /\ \A l \in 1..k : l <= k
      BY <1>1
    <3> DEFINE S == 1..k
    <3> HIDE DEF S
    <3>2. Max(S) = k
      BY <3>1, MaxIs DEF S
    <3> QED BY <3>2 DEF S
  <2>2. (1..k) \ {k} = 1..(k - 1) /\ 1..k # {} /\ 1..k \in SUBSET (1..n)
    BY <1>1
  <2>3. g[k] = f[1..k] /\ g[k - 1] = f[1..(k - 1)]
    BY <1>1
  <2> HIDE DEF g
  <2> QED BY <1>4, <2>1, <2>2, <2>3
<1>6. g[0] = StartOfLoop
  <2>1. 1..0 = {} /\ {} \in SUBSET (1..n) /\ g[0] = f[1..0]
    BY <1>1
  <2> HIDE DEF g
  <2> QED BY <1>4, <2>1
<1>7. g[n] = f[1..n]
  BY <1>1
<1> HIDE DEF g
<1> QED BY <1>3, <1>5, <1>6, <1>7 DEF IsLoop, n

\* The point is no digit.
LEMMA PointIsNoDigit == ~IsDigit(".")
<1>1. Len(AsciiDigits) = 10 /\ \A k \in 1..10 : AsciiDigits[k] # "."
  BY DEF AsciiDigits
<1> QED BY <1>1 DEF IsDigit, IsAscii, Contains

\* int() accepts no character that isdigit() does not.
LEMMA DecimalIsDigit ==
  ASSUME NEW c, IsDecimal(c)
  PROVE  IsDigit(c)
BY DEF IsDecimal, IsDigit

\* A digit's number; in ASCII it is the digit's value.
LEMMA OrdOfDigit ==
  ASSUME NEW c, IsDigit(c)
  PROVE  OrdMinusZero(c) \in Nat
<1>1. c \notin {"sup2", "arabic2"} => OneDigit(AsciiValue(c))
  BY ValueOfDigit DEF IsDigit
<1> QED BY <1>1 DEF OrdMinusZero, OneDigit

\* In ASCII, ord(c) - ord("0") is the value of the digit.
LEMMA OrdOfAscii ==
  ASSUME NEW c, IsDigit(c), c \notin {"sup2", "arabic2"}
  PROVE  OneDigit(DecimalValue(c)) /\ OrdMinusZero(c) = DecimalValue(c)
<1>1. IsAscii(c)
  BY DEF IsDigit
<1> QED BY <1>1, ValueOfDigit DEF OrdMinusZero, DecimalValue

\* The types of the locals.
Locals ==
  [malformed : BOOLEAN, whole_part : Nat, frac_part : Nat,
   saw_digit : BOOLEAN, saw_dot : BOOLEAN, frac_digits : 0..2]

\* One turn of the loop keeps the types.
LEMMA ReadTyped ==
  ASSUME NEW m \in Locals, NEW c
  PROVE  Read(m, c) \in Locals
<1>1. CASE c = "."
  BY <1>1 DEF Read, Locals
<1>2. CASE c # "." /\ ~IsDigit(c)
  BY <1>2 DEF Read, Locals
<1>3. CASE c # "." /\ IsDigit(c)
  <2>1. OrdMinusZero(c) \in Nat
    BY <1>3, OrdOfDigit
  <2>2. Read(m, c) = TakeDigit(m, OrdMinusZero(c))
    BY <1>3 DEF Read
  <2>3. ASSUME NEW d \in Nat
        PROVE  TakeDigit(m, d) \in Locals
    <3>1. /\ 10 * m.whole_part + d \in Nat /\ 10 * m.frac_part + d \in Nat
          /\ m.frac_digits < 2 => m.frac_digits + 1 \in 0..2
      BY DEF Locals
    <3> QED BY <3>1 DEF TakeDigit, Locals
  <2> QED BY <2>1, <2>2, <2>3
<1> QED BY <1>1, <1>2, <1>3

\* The loop keeps the types.
LEMMA LoopTyped ==
  ASSUME NEW u \in Seq(Character), NEW g, IsLoop(g, u)
  PROVE  \A k \in 0..Len(u) : g[k] \in Locals
<1> DEFINE n == Len(u)
           T == {k \in 0..n : g[k] \in Locals}
<1>1. n \in Nat
  OBVIOUS
<1>2. g[0] = StartOfLoop /\ \A k \in 1..n : g[k] = Read(g[k - 1], u[k])
  BY DEF IsLoop
<1> HIDE DEF n
<1>3. 0 \in T
  <2>1. StartOfLoop \in Locals
    BY DEF StartOfLoop, Locals
  <2>2. 0 \in 0..n
    BY <1>1
  <2> QED BY <1>2, <2>1, <2>2
<1>4. ASSUME NEW k \in 1..n, k - 1 \in T
      PROVE  k \in T
  BY <1>1, <1>2, <1>4, ReadTyped
<1> HIDE DEF T
<1>5. \A k \in 0..n : k \in T
  BY <1>1, <1>3, <1>4, EveryStep
<1> QED BY <1>5 DEF T, n

\* What the flags of one step become.
LEMMA FlagsStep ==
  ASSUME NEW m \in Locals, NEW c
  PROVE  /\ Read(m, c).malformed
              <=> (m.malformed \/ (c = "." /\ m.saw_dot) \/ (c # "." /\ ~IsDigit(c)))
         /\ Read(m, c).saw_dot <=> (m.saw_dot \/ c = ".")
         /\ Read(m, c).saw_digit <=> (m.saw_digit \/ (c # "." /\ IsDigit(c)))
<1>1. CASE c = "."
  <2>1. Read(m, c) = [m EXCEPT !.saw_dot = TRUE, !.malformed = m.malformed \/ m.saw_dot]
    BY <1>1 DEF Read
  <2>2. /\ Read(m, c).malformed = (m.malformed \/ m.saw_dot)
        /\ Read(m, c).saw_dot = TRUE /\ Read(m, c).saw_digit = m.saw_digit
    BY <2>1 DEF Locals
  <2> QED BY <1>1, <2>2
<1>2. CASE c # "." /\ ~IsDigit(c)
  <2>1. Read(m, c) = [m EXCEPT !.malformed = TRUE]
    BY <1>2 DEF Read
  <2>2. /\ Read(m, c).malformed = TRUE
        /\ Read(m, c).saw_dot = m.saw_dot /\ Read(m, c).saw_digit = m.saw_digit
    BY <2>1 DEF Locals
  <2> QED BY <1>2, <2>2
<1>3. CASE c # "." /\ IsDigit(c)
  <2>1. Read(m, c) = TakeDigit(m, OrdMinusZero(c))
    BY <1>3 DEF Read
  <2>2. ASSUME NEW d
        PROVE  /\ TakeDigit(m, d).malformed = m.malformed
               /\ TakeDigit(m, d).saw_dot = m.saw_dot /\ TakeDigit(m, d).saw_digit = TRUE
    BY DEF TakeDigit, Locals
  <2>3. /\ Read(m, c).malformed = m.malformed
        /\ Read(m, c).saw_dot = m.saw_dot /\ Read(m, c).saw_digit = TRUE
    BY <2>1, <2>2
  <2> QED BY <1>3, <2>3
<1> QED BY <1>1, <1>2, <1>3

\* What the flags say about the characters read.
PointWithin(u, k) == \E j \in 1..k : u[j] = "."

DigitWithin(u, k) == \E j \in 1..k : u[j] # "." /\ IsDigit(u[j])

StrangeWithin(u, k) == \E j \in 1..k : u[j] # "." /\ ~IsDigit(u[j])

TwoPointsWithin(u, k) == \E j \in 1..k : u[j] = "." /\ PointWithin(u, j - 1)

FlagsOf(m, u, k) ==
  /\ m.malformed <=> (StrangeWithin(u, k) \/ TwoPointsWithin(u, k))
  /\ m.saw_dot <=> PointWithin(u, k)
  /\ m.saw_digit <=> DigitWithin(u, k)

\* At any point of the loop, the flags say what the characters read were.
LEMMA FlagsOfLoop ==
  ASSUME NEW u \in Seq(Character), NEW g, IsLoop(g, u)
  PROVE  \A k \in 0..Len(u) : FlagsOf(g[k], u, k)
<1> DEFINE n == Len(u)
           T == {k \in 0..n : FlagsOf(g[k], u, k)}
<1>1. n \in Nat
  OBVIOUS
<1>2. g[0] = StartOfLoop /\ \A k \in 1..n : g[k] = Read(g[k - 1], u[k])
  BY DEF IsLoop
<1>3. \A k \in 0..n : g[k] \in Locals
  BY LoopTyped
<1> HIDE DEF n
<1>4. 0 \in T
  <2>1. \A j : j \notin 1..0
    OBVIOUS
  <2>2. ~PointWithin(u, 0) /\ ~DigitWithin(u, 0) /\ ~StrangeWithin(u, 0) /\ ~TwoPointsWithin(u, 0)
    BY <2>1 DEF PointWithin, DigitWithin, StrangeWithin, TwoPointsWithin
  <2>3. g[0].malformed = FALSE /\ g[0].saw_dot = FALSE /\ g[0].saw_digit = FALSE
    BY <1>2 DEF StartOfLoop
  <2>4. FlagsOf(g[0], u, 0)
    BY <2>2, <2>3 DEF FlagsOf
  <2> QED BY <1>1, <2>4
<1>5. ASSUME NEW k \in 1..n, k - 1 \in T
      PROVE  k \in T
  <2>1. g[k - 1] \in Locals /\ g[k] = Read(g[k - 1], u[k]) /\ FlagsOf(g[k - 1], u, k - 1)
    BY <1>1, <1>2, <1>3, <1>5
  <2>2. \A j : j \in 1..k <=> j \in 1..(k - 1) \/ j = k
    BY <1>1
  <2>3. /\ PointWithin(u, k) <=> (PointWithin(u, k - 1) \/ u[k] = ".")
        /\ DigitWithin(u, k) <=> (DigitWithin(u, k - 1) \/ (u[k] # "." /\ IsDigit(u[k])))
        /\ StrangeWithin(u, k) <=> (StrangeWithin(u, k - 1) \/ (u[k] # "." /\ ~IsDigit(u[k])))
    BY <2>2 DEF PointWithin, DigitWithin, StrangeWithin
  <2>4. TwoPointsWithin(u, k)
          <=> (TwoPointsWithin(u, k - 1) \/ (u[k] = "." /\ PointWithin(u, k - 1)))
    BY <2>2 DEF TwoPointsWithin
  <2>5. /\ g[k].malformed
             <=> (g[k - 1].malformed \/ (u[k] = "." /\ g[k - 1].saw_dot)
                                     \/ (u[k] # "." /\ ~IsDigit(u[k])))
        /\ g[k].saw_dot <=> (g[k - 1].saw_dot \/ u[k] = ".")
        /\ g[k].saw_digit <=> (g[k - 1].saw_digit \/ (u[k] # "." /\ IsDigit(u[k])))
    BY <2>1, FlagsStep
  <2>7. FlagsOf(g[k], u, k)
    BY <2>1, <2>3, <2>4, <2>5, Zenon DEF FlagsOf
  <2>6. k \in 0..n
    BY <1>1
  <2> QED BY <2>6, <2>7
<1> HIDE DEF T
<1>6. \A k \in 0..n : k \in T
  BY <1>1, <1>4, <1>5, EveryStep
<1> QED BY <1>6 DEF T, n

-----------------------------------------------------------------------------
(* The value of a decimal text. *)

\* The number up to a position depends on the digits up to it.
LEMMA NumberAgrees ==
  ASSUME NEW s, NEW t, NEW n \in Nat, \A k \in 1..n : s[k] = t[k]
  PROVE  NumberAt(s, 1, n) = NumberAt(t, 1, n)
<1> DEFINE T == {k \in 0..n : NumberAt(s, 1, k) = NumberAt(t, 1, k)}
<1>1. 0 \in T
  <2>1. NumberAt(s, 1, 0) = 0 /\ NumberAt(t, 1, 0) = 0
    BY NumberOfNone
  <2> QED BY <2>1
<1>2. ASSUME NEW k \in 1..n, k - 1 \in T
      PROVE  k \in T
  <2>1. k \in Nat /\ k >= 1
    OBVIOUS
  <2>2. NumberAt(s, 1, k) = 10 * NumberAt(s, 1, k - 1) + DecimalValue(s[k])
    BY <2>1, NumberStep
  <2>3. NumberAt(t, 1, k) = 10 * NumberAt(t, 1, k - 1) + DecimalValue(t[k])
    BY <2>1, NumberStep
  <2>4. NumberAt(s, 1, k - 1) = NumberAt(t, 1, k - 1) /\ s[k] = t[k]
    BY <1>2
  <2> QED BY <2>2, <2>3, <2>4
<1> HIDE DEF T
<1>3. \A k \in 0..n : k \in T
  BY <1>1, <1>2, EveryStep
<1>4. n \in 0..n
  OBVIOUS
<1> QED BY <1>3, <1>4 DEF T

\* Digits make up a number.
LEMMA NumberTyped ==
  ASSUME NEW s, NEW n \in Nat, \A k \in 1..n : OneDigit(DecimalValue(s[k]))
  PROVE  NumberAt(s, 1, n) \in Nat
<1> DEFINE T == {k \in 0..n : NumberAt(s, 1, k) \in Nat}
<1>1. 0 \in T
  <2>1. NumberAt(s, 1, 0) = 0
    BY NumberOfNone
  <2> QED BY <2>1
<1>2. ASSUME NEW k \in 1..n, k - 1 \in T
      PROVE  k \in T
  <2>1. k \in Nat /\ k >= 1
    OBVIOUS
  <2>2. NumberAt(s, 1, k) = 10 * NumberAt(s, 1, k - 1) + DecimalValue(s[k])
    BY <2>1, NumberStep
  <2>3. NumberAt(s, 1, k - 1) \in Nat /\ OneDigit(DecimalValue(s[k]))
    BY <1>2
  <2>4. NumberAt(s, 1, k) \in Nat
    BY <2>2, <2>3 DEF OneDigit
  <2> QED BY <2>4
<1> HIDE DEF T
<1>3. \A k \in 0..n : k \in T
  BY <1>1, <1>2, EveryStep
<1>4. n \in 0..n
  OBVIOUS
<1> QED BY <1>3, <1>4 DEF T

\* u is made up of ASCII digits but for position p, where its point is; without
\* a point p is behind u.
IsDecimalText(u, p) ==
  /\ p \in 1..(Len(u) + 1)
  /\ \A k \in 1..Len(u) : u[k] = "." <=> k = p
  /\ \A k \in 1..Len(u) : k # p => IsDigit(u[k]) /\ u[k] \notin {"sup2", "arabic2"}

\* What the locals hold after k characters of such a text.
PartsAt(m, u, p, k) ==
  /\ k < p => /\ m.saw_dot = FALSE /\ m.whole_part = NumberAt(u, 1, k)
              /\ m.frac_part = 0 /\ m.frac_digits = 0
  /\ k >= p => m.saw_dot = TRUE /\ m.whole_part = NumberAt(u, 1, p - 1)
  /\ k = p => m.frac_part = 0 /\ m.frac_digits = 0
  /\ k = p + 1 => m.frac_part = DecimalValue(u[p + 1]) /\ m.frac_digits = 1
  /\ k >= p + 2 => /\ m.frac_part = Two(DecimalValue(u[p + 1]), DecimalValue(u[p + 2]))
                   /\ m.frac_digits = 2

\* A point is noted.
LEMMA ReadPoint ==
  ASSUME NEW m \in Locals
  PROVE  /\ Read(m, ".").saw_dot = TRUE
         /\ Read(m, ".").whole_part = m.whole_part
         /\ Read(m, ".").frac_part = m.frac_part
         /\ Read(m, ".").frac_digits = m.frac_digits
BY DEF Read, Locals

\* A digit before the point.
LEMMA ReadWhole ==
  ASSUME NEW m \in Locals, NEW d, m.saw_dot = FALSE
  PROVE  /\ TakeDigit(m, d).saw_dot = FALSE
         /\ TakeDigit(m, d).whole_part = 10 * m.whole_part + d
         /\ TakeDigit(m, d).frac_part = m.frac_part
         /\ TakeDigit(m, d).frac_digits = m.frac_digits
BY DEF TakeDigit, Locals

\* One of the first two digits behind the point.
LEMMA ReadFraction ==
  ASSUME NEW m \in Locals, NEW d, m.saw_dot = TRUE, m.frac_digits < 2
  PROVE  /\ TakeDigit(m, d).saw_dot = TRUE
         /\ TakeDigit(m, d).whole_part = m.whole_part
         /\ TakeDigit(m, d).frac_part = 10 * m.frac_part + d
         /\ TakeDigit(m, d).frac_digits = m.frac_digits + 1
BY DEF TakeDigit, Locals

\* A digit further behind is dropped.
LEMMA ReadBelowACent ==
  ASSUME NEW m \in Locals, NEW d, m.saw_dot = TRUE, ~(m.frac_digits < 2)
  PROVE  /\ TakeDigit(m, d).saw_dot = TRUE
         /\ TakeDigit(m, d).whole_part = m.whole_part
         /\ TakeDigit(m, d).frac_part = m.frac_part
         /\ TakeDigit(m, d).frac_digits = m.frac_digits
BY DEF TakeDigit, Locals

\* One turn of the loop, in the five places a character can have.
LEMMA PartsStep ==
  ASSUME NEW u \in Seq(Character), NEW p, IsDecimalText(u, p), NEW k \in 1..Len(u),
         NEW m \in Locals, PartsAt(m, u, p, k - 1)
  PROVE  PartsAt(Read(m, u[k]), u, p, k)
<1>1. Len(u) \in Nat /\ p \in Nat /\ p >= 1 /\ k \in Nat /\ k >= 1 /\ k - 1 \in Nat
  BY DEF IsDecimalText
<1> DEFINE r == Read(m, u[k])
           v == DecimalValue(u[k])
<1>2. k # p => r = TakeDigit(m, v) /\ OneDigit(v)
  <2> SUFFICES ASSUME k # p PROVE r = TakeDigit(m, v) /\ OneDigit(v)
    OBVIOUS
  <2>1. IsDigit(u[k]) /\ u[k] \notin {"sup2", "arabic2"} /\ u[k] # "."
    BY DEF IsDecimalText
  <2>2. OneDigit(DecimalValue(u[k])) /\ OrdMinusZero(u[k]) = DecimalValue(u[k])
    BY <2>1, OrdOfAscii
  <2>3. r = TakeDigit(m, OrdMinusZero(u[k]))
    BY <2>1 DEF Read
  <2> QED BY <2>2, <2>3
<1>3. k = p => u[k] = "."
  BY DEF IsDecimalText
<1> HIDE DEF r, v
<1>4. CASE k < p
  <2>1. /\ m.saw_dot = FALSE /\ m.whole_part = NumberAt(u, 1, k - 1)
        /\ m.frac_part = 0 /\ m.frac_digits = 0
    BY <1>1, <1>4 DEF PartsAt
  <2>2. r = TakeDigit(m, v)
    BY <1>1, <1>2, <1>4
  <2>3. /\ r.saw_dot = FALSE /\ r.whole_part = 10 * m.whole_part + v
        /\ r.frac_part = m.frac_part /\ r.frac_digits = m.frac_digits
    BY <2>1, <2>2, ReadWhole
  <2>4. NumberAt(u, 1, k) = 10 * NumberAt(u, 1, k - 1) + DecimalValue(u[k])
    BY <1>1, NumberStep
  <2>5. r.whole_part = NumberAt(u, 1, k)
    BY <2>1, <2>3, <2>4 DEF v
  <2>6. ~(k >= p) /\ k # p /\ k # p + 1 /\ ~(k >= p + 2)
    BY <1>1, <1>4
  <2> QED BY <2>1, <2>3, <2>5, <2>6 DEF PartsAt, r
<1>5. CASE k = p
  <2>1. /\ m.saw_dot = FALSE /\ m.whole_part = NumberAt(u, 1, p - 1)
        /\ m.frac_part = 0 /\ m.frac_digits = 0
    BY <1>1, <1>5 DEF PartsAt
  <2>2. /\ r.saw_dot = TRUE /\ r.whole_part = m.whole_part
        /\ r.frac_part = m.frac_part /\ r.frac_digits = m.frac_digits
    BY <1>3, <1>5, ReadPoint DEF r
  <2>3. ~(k < p) /\ k # p + 1 /\ ~(k >= p + 2)
    BY <1>1, <1>5
  <2> QED BY <2>1, <2>2, <2>3 DEF PartsAt, r
<1>6. CASE k > p
  <2>1. m.saw_dot = TRUE /\ m.whole_part = NumberAt(u, 1, p - 1)
    BY <1>1, <1>6 DEF PartsAt
  <2>2. r = TakeDigit(m, v) /\ OneDigit(v)
    BY <1>1, <1>2, <1>6
  <2>3. ~(k < p) /\ k # p
    BY <1>1, <1>6
  <2>4. CASE k = p + 1
    <3>1. m.frac_part = 0 /\ m.frac_digits = 0
      BY <1>1, <2>4 DEF PartsAt
    <3>2. /\ r.saw_dot = TRUE /\ r.whole_part = m.whole_part
          /\ r.frac_part = 10 * m.frac_part + v /\ r.frac_digits = m.frac_digits + 1
      <4>1. m.frac_digits < 2
        BY <3>1
      <4> QED BY <2>1, <2>2, <4>1, ReadFraction
    <3>3. r.frac_part = v /\ r.frac_digits = 1
      BY <2>2, <3>1, <3>2 DEF OneDigit
    <3>4. v = DecimalValue(u[p + 1]) /\ ~(k >= p + 2)
      BY <1>1, <2>4 DEF v
    <3> QED BY <2>1, <2>3, <3>2, <3>3, <3>4 DEF PartsAt, r
  <2>5. CASE k = p + 2
    <3>1. m.frac_part = DecimalValue(u[p + 1]) /\ m.frac_digits = 1
      BY <1>1, <2>5 DEF PartsAt
    <3>2. /\ r.saw_dot = TRUE /\ r.whole_part = m.whole_part
          /\ r.frac_part = 10 * m.frac_part + v /\ r.frac_digits = m.frac_digits + 1
      <4>1. m.frac_digits < 2
        BY <3>1
      <4> QED BY <2>1, <2>2, <4>1, ReadFraction
    <3>3. r.frac_digits = 2
      BY <3>1, <3>2
    <3>4. v = DecimalValue(u[p + 2]) /\ k # p + 1
      BY <1>1, <2>5 DEF v
    <3>5. r.frac_part = Two(DecimalValue(u[p + 1]), DecimalValue(u[p + 2]))
      BY <3>1, <3>2, <3>4 DEF Two
    <3> QED BY <2>1, <2>3, <3>2, <3>3, <3>4, <3>5 DEF PartsAt, r
  <2>6. CASE k > p + 2
    <3>1. /\ m.frac_part = Two(DecimalValue(u[p + 1]), DecimalValue(u[p + 2]))
          /\ m.frac_digits = 2
      BY <1>1, <2>6 DEF PartsAt
    <3>2. /\ r.saw_dot = TRUE /\ r.whole_part = m.whole_part
          /\ r.frac_part = m.frac_part /\ r.frac_digits = m.frac_digits
      <4>1. ~(m.frac_digits < 2)
        BY <3>1
      <4> QED BY <2>1, <2>2, <4>1, ReadBelowACent
    <3>3. k # p + 1
      BY <1>1, <2>6
    <3> QED BY <2>1, <2>3, <3>1, <3>2, <3>3 DEF PartsAt, r
  <2> QED BY <1>1, <1>6, <2>4, <2>5, <2>6
<1> QED BY <1>1, <1>4, <1>5, <1>6

\* At the end of the loop, the parts are those of the whole text.
LEMMA PartsOfLoop ==
  ASSUME NEW u \in Seq(Character), NEW p, IsDecimalText(u, p), NEW g, IsLoop(g, u)
  PROVE  PartsAt(g[Len(u)], u, p, Len(u))
<1> DEFINE n == Len(u)
           T == {k \in 0..n : PartsAt(g[k], u, p, k)}
<1>1. n \in Nat /\ n \in 0..n /\ 0 \in 0..n
  OBVIOUS
<1>2. g[0] = StartOfLoop /\ \A k \in 1..n : g[k] = Read(g[k - 1], u[k])
  BY DEF IsLoop
<1>3. \A k \in 0..n : g[k] \in Locals
  BY LoopTyped
<1>4. \A k \in 1..n : \A m \in Locals : PartsAt(m, u, p, k - 1) => PartsAt(Read(m, u[k]), u, p, k)
  BY PartsStep
<1>5. p \in Nat /\ p >= 1
  BY DEF IsDecimalText
<1> HIDE DEF n
<1>6. 0 \in T
  <2>1. NumberAt(u, 1, 0) = 0
    BY NumberOfNone
  <2>2. ~(0 >= p) /\ 0 # p /\ 0 # p + 1 /\ ~(0 >= p + 2)
    BY <1>5
  <2>3. PartsAt(StartOfLoop, u, p, 0)
    BY <2>1, <2>2 DEF PartsAt, StartOfLoop
  <2> QED BY <1>1, <1>2, <2>3
<1>7. ASSUME NEW k \in 1..n, k - 1 \in T
      PROVE  k \in T
  BY <1>1, <1>2, <1>3, <1>4, <1>7
<1> HIDE DEF T
<1>8. \A k \in 0..n : k \in T
  BY <1>1, <1>6, <1>7, EveryStep
<1> QED BY <1>1, <1>8 DEF T, n

-----------------------------------------------------------------------------
(* from_decimal_string. *)

\* Without its sign a text is a text.
LEMMA UnsignedIsText ==
  ASSUME NEW s \in Seq(Character)
  PROVE  Unsigned(s) \in Seq(Character)
<1>1. CASE s = <<>>
  BY <1>1 DEF Unsigned
<1>2. CASE s # <<>>
  <2>1. Tail(s) \in Seq(Character)
    BY <1>2, HeadTailProperties
  <2> QED BY <2>1 DEF Unsigned
<1> QED BY <1>1, <1>2

\* What makes the loop accept a text.
LEMMA Accepted ==
  ASSUME NEW s \in Seq(Character), NEW u, u = Unsigned(s)
  PROVE  MoneyParses(s) <=> /\ ~StrangeWithin(u, Len(u)) /\ ~TwoPointsWithin(u, Len(u))
                            /\ DigitWithin(u, Len(u))
<1>1. u \in Seq(Character)
  BY UnsignedIsText
<1>2. PICK g : IsLoop(g, u) /\ FoldLeft(Read, StartOfLoop, u) = g[Len(u)]
  BY <1>1, FoldIsLoop
<1>3. Len(u) \in 0..Len(u)
  BY <1>1
<1>4. FlagsOf(g[Len(u)], u, Len(u))
  BY <1>1, <1>2, <1>3, FlagsOfLoop
<1>5. EndOfLoop(s) = g[Len(u)]
  BY <1>2 DEF EndOfLoop
<1> QED BY <1>4, <1>5 DEF MoneyParses, FlagsOf

\* Every text that denotes a number is accepted.
LEMMA NumberIsAccepted ==
  ASSUME NEW s \in Seq(Character), IsNumber(s)
  PROVE  MoneyParses(s)
<1> DEFINE u == Unsigned(s)
<1>1. u \in Seq(Character)
  BY UnsignedIsText
<1>2. DOMAIN u = 1..Len(u) /\ Len(u) \in Nat
  BY <1>1
<1>3. /\ \A k \in 1..Len(u) : u[k] = "." \/ IsDecimal(u[k])
      /\ \E k \in 1..Len(u) : IsDecimal(u[k])
      /\ \A k, l \in 1..Len(u) : u[k] = "." /\ u[l] = "." => k = l
  BY <1>2 DEF IsNumber
<1> HIDE DEF u
<1>4. ~StrangeWithin(u, Len(u))
  BY <1>3, DecimalIsDigit DEF StrangeWithin
<1>5. DigitWithin(u, Len(u))
  BY <1>3, DecimalIsDigit, PointIsNoDigit DEF DigitWithin
<1>6. ~TwoPointsWithin(u, Len(u))
  <2> SUFFICES ASSUME NEW j \in 1..Len(u), u[j] = ".", NEW l \in 1..(j - 1), u[l] = "."
               PROVE  FALSE
    BY DEF TwoPointsWithin, PointWithin
  <2>1. l \in 1..Len(u) /\ l # j
    BY <1>2
  <2> QED BY <1>3, <2>1
<1> QED BY <1>4, <1>5, <1>6, Accepted DEF u

\* An accepted ASCII text is digits around at most one point.
LEMMA AcceptedIsDecimal ==
  ASSUME NEW s \in Seq(Character), MoneyParses(s), AsciiOnly(s)
  PROVE  \E p : IsDecimalText(Unsigned(s), p)
<1> DEFINE u == Unsigned(s)
<1>1. u \in Seq(Character) /\ Len(u) \in Nat
  BY UnsignedIsText
<1>2. \A k \in 1..Len(u) : u[k] \notin {"sup2", "arabic2"}
  <2>1. CASE s # <<>> /\ s[1] \in {"-", "+"}
    <3>1. u = Tail(s)
      BY <2>1 DEF Unsigned
    <3>2. Len(u) = Len(s) - 1 /\ \A k \in 1..Len(u) : u[k] = s[k + 1]
      BY <2>1, <3>1, HeadTailProperties
    <3>3. \A k \in 1..Len(u) : k + 1 \in DOMAIN s
      BY <3>2
    <3> QED BY <3>2, <3>3 DEF AsciiOnly
  <2>2. CASE ~(s # <<>> /\ s[1] \in {"-", "+"})
    <3>1. u = s /\ DOMAIN s = 1..Len(s)
      BY <2>2 DEF Unsigned
    <3> QED BY <3>1 DEF AsciiOnly
  <2> QED BY <2>1, <2>2
<1>3. ~StrangeWithin(u, Len(u)) /\ ~TwoPointsWithin(u, Len(u))
  BY Accepted
<1> HIDE DEF u
<1>4. \A k \in 1..Len(u) : u[k] # "." => IsDigit(u[k])
  BY <1>3 DEF StrangeWithin
<1>5. ASSUME NEW j \in 1..Len(u), NEW l \in 1..Len(u), u[j] = ".", u[l] = "."
      PROVE  j = l
  <2>1. ~(l < j)
    <3> SUFFICES ASSUME l < j PROVE FALSE
      OBVIOUS
    <3>1. l \in 1..(j - 1)
      BY <1>1
    <3> QED BY <1>3, <1>5, <3>1 DEF TwoPointsWithin, PointWithin
  <2>2. ~(j < l)
    <3> SUFFICES ASSUME j < l PROVE FALSE
      OBVIOUS
    <3>1. j \in 1..(l - 1)
      BY <1>1
    <3> QED BY <1>3, <1>5, <3>1 DEF TwoPointsWithin, PointWithin
  <2> QED BY <1>1, <2>1, <2>2
<1>6. CASE \E p \in 1..Len(u) : u[p] = "."
  <2>1. PICK p \in 1..Len(u) : u[p] = "."
    BY <1>6
  <2>2. p \in 1..(Len(u) + 1)
    BY <1>1
  <2>3. \A k \in 1..Len(u) : u[k] = "." <=> k = p
    BY <1>5, <2>1
  <2>4. IsDecimalText(u, p)
    BY <1>2, <1>4, <2>2, <2>3 DEF IsDecimalText
  <2> QED BY <2>4 DEF u
<1>7. CASE ~\E p \in 1..Len(u) : u[p] = "."
  <2> DEFINE p == Len(u) + 1
  <2>1. p \in 1..(Len(u) + 1) /\ \A k \in 1..Len(u) : k # p
    BY <1>1
  <2> HIDE DEF p
  <2>2. p = Len(u) + 1 => IsDecimalText(u, p)
    BY <1>2, <1>4, <1>7, <2>1 DEF IsDecimalText
  <2> QED BY <2>2 DEF u, p
<1> QED BY <1>6, <1>7

\* The digit at position k, or the 0 put behind the text.
DigitOr0(u, k) == IF k <= Len(u) THEN DecimalValue(u[k]) ELSE 0

\* Behind the point there are digits, written or put there.
LEMMA DigitOr0IsADigit ==
  ASSUME NEW u \in Seq(Character), NEW p, IsDecimalText(u, p), NEW k \in Nat, k > p
  PROVE  OneDigit(DigitOr0(u, k))
<1>1. p \in Nat /\ p >= 1 /\ Len(u) \in Nat
  BY DEF IsDecimalText
<1>2. CASE k <= Len(u)
  <2>1. k \in 1..Len(u) /\ k # p
    BY <1>1, <1>2
  <2>2. IsDigit(u[k]) /\ u[k] \notin {"sup2", "arabic2"}
    BY <2>1 DEF IsDecimalText
  <2>3. OneDigit(DecimalValue(u[k]))
    BY <2>2, OrdOfAscii
  <2> QED BY <1>2, <2>3 DEF DigitOr0
<1>3. CASE ~(k <= Len(u))
  BY <1>3 DEF DigitOr0, OneDigit
<1> QED BY <1>2, <1>3

\* The cents the loop reads.
CentsAt(u, p) ==
  10 * (10 * NumberAt(u, 1, p - 1) + DigitOr0(u, p + 1)) + DigitOr0(u, p + 2)

\* Before the point there is a number, 0 if there is nothing.
LEMMA WholeIsANumber ==
  ASSUME NEW u \in Seq(Character), NEW p, IsDecimalText(u, p)
  PROVE  NumberAt(u, 1, p - 1) \in Nat
<1>1. p \in Nat /\ p - 1 \in Nat /\ Len(u) \in Nat /\ p <= Len(u) + 1
  BY DEF IsDecimalText
<1>2. ASSUME NEW k \in 1..(p - 1)
      PROVE  OneDigit(DecimalValue(u[k]))
  <2>1. k \in 1..Len(u) /\ k # p
    BY <1>1
  <2>2. IsDigit(u[k]) /\ u[k] \notin {"sup2", "arabic2"}
    BY <2>1 DEF IsDecimalText
  <2> QED BY <2>2, OrdOfAscii
<1> QED BY <1>1, <1>2, NumberTyped

\* The second loop of from_decimal_string scales what the first has read.
LEMMA CentsRead ==
  ASSUME NEW u \in Seq(Character), NEW p, IsDecimalText(u, p),
         NEW m, PartsAt(m, u, p, Len(u))
  PROVE  CentsOfParts(m) = CentsAt(u, p)
<1> DEFINE n == Len(u)
           w == NumberAt(u, 1, p - 1)
           d == DigitOr0(u, p + 1)
           e == DigitOr0(u, p + 2)
<1>1. n \in Nat /\ p \in Nat /\ p >= 1 /\ p <= n + 1
  BY DEF IsDecimalText
<1>2. w \in Nat
  BY WholeIsANumber
<1>3. d \in Nat /\ e \in Nat
  <2>1. OneDigit(d) /\ OneDigit(e)
    <3>1. p + 1 \in Nat /\ p + 2 \in Nat /\ p + 1 > p /\ p + 2 > p
      BY <1>1
    <3> QED BY <3>1, DigitOr0IsADigit
  <2> QED BY <2>1 DEF OneDigit
<1>4. CentsAt(u, p) = 100 * w + 10 * d + e
  <2>1. CentsAt(u, p) = 10 * (10 * w + d) + e
    BY DEF CentsAt
  <2> HIDE DEF w, d, e
  <2> QED BY <1>2, <1>3, <2>1
<1>5. 10 ^ 0 = 1 /\ 10 ^ 1 = 10 /\ 10 ^ 2 = 100
  OBVIOUS
<1>6. CASE n = p - 1
  <2>1. m.whole_part = NumberAt(u, 1, n) /\ m.frac_part = 0 /\ m.frac_digits = 0
    BY <1>1, <1>6 DEF PartsAt
  <2>2. m.whole_part = w
    BY <1>6, <2>1
  <2>3. d = 0 /\ e = 0
    BY <1>1, <1>6 DEF DigitOr0
  <2>4. CentsOfParts(m) = w * 100 + 0 * 10 ^ (2 - 0)
    BY <2>1, <2>2 DEF CentsOfParts
  <2> HIDE DEF w, d, e
  <2>5. 2 - 0 = 2
    OBVIOUS
  <2> QED BY <1>2, <1>4, <1>5, <2>3, <2>4, <2>5
<1>7. CASE n = p
  <2>1. m.whole_part = w /\ m.frac_part = 0 /\ m.frac_digits = 0
    BY <1>1, <1>7 DEF PartsAt
  <2>2. d = 0 /\ e = 0
    BY <1>1, <1>7 DEF DigitOr0
  <2>3. CentsOfParts(m) = w * 100 + 0 * 10 ^ (2 - 0)
    BY <2>1 DEF CentsOfParts
  <2> HIDE DEF w, d, e
  <2>4. 2 - 0 = 2
    OBVIOUS
  <2> QED BY <1>2, <1>4, <1>5, <2>2, <2>3, <2>4
<1>8. CASE n = p + 1
  <2>1. m.whole_part = w /\ m.frac_part = DecimalValue(u[p + 1]) /\ m.frac_digits = 1
    BY <1>1, <1>8 DEF PartsAt
  <2>2. d = DecimalValue(u[p + 1]) /\ e = 0
    BY <1>1, <1>8 DEF DigitOr0
  <2>3. CentsOfParts(m) = w * 100 + d * 10 ^ (2 - 1)
    BY <2>1, <2>2 DEF CentsOfParts
  <2> HIDE DEF w, d, e
  <2>4. 2 - 1 = 1
    OBVIOUS
  <2> QED BY <1>2, <1>3, <1>4, <1>5, <2>2, <2>3, <2>4
<1>9. CASE n >= p + 2
  <2>1. /\ m.whole_part = w /\ m.frac_digits = 2
        /\ m.frac_part = Two(DecimalValue(u[p + 1]), DecimalValue(u[p + 2]))
    BY <1>1, <1>9 DEF PartsAt
  <2>2. d = DecimalValue(u[p + 1]) /\ e = DecimalValue(u[p + 2])
    BY <1>1, <1>9 DEF DigitOr0
  <2>3. m.frac_part = 10 * d + e
    BY <2>1, <2>2 DEF Two
  <2>4. CentsOfParts(m) = w * 100 + (10 * d + e) * 10 ^ (2 - 2)
    BY <2>1, <2>3 DEF CentsOfParts
  <2> HIDE DEF w, d, e
  <2>5. 2 - 2 = 0
    OBVIOUS
  <2> QED BY <1>2, <1>3, <1>4, <1>5, <2>4, <2>5
<1> QED BY <1>1, <1>6, <1>7, <1>8, <1>9

\* Where CentsDenoted finds the point, and the text it makes up.
PointOf(u) == IF Contains(u, ".") THEN SelectInSeq(u, LAMBDA c : c = ".") ELSE Len(u) + 1

Padded(u, p) == SubSeq(u, 1, p - 1) \o SubSeq(u, p + 1, Len(u)) \o <<"0", "0">>

\* CentsDenoted in these words.
LEMMA DenotedByPadded ==
  ASSUME NEW s
  PROVE  LET u == Unsigned(s)
             cents == NumberAt(Padded(u, PointOf(u)), 1, PointOf(u) + 1)
         IN CentsDenoted(s) = IF s[1] = "-" THEN -cents ELSE cents
BY DEF CentsDenoted, Padded, PointOf

\* The least of a single number.
LEMMA MinOfOne ==
  ASSUME NEW p \in Nat
  PROVE  Min({p}) = p
BY DEF Min

\* The point is where the text has its own.
LEMMA PointFound ==
  ASSUME NEW u \in Seq(Character), NEW p, IsDecimalText(u, p)
  PROVE  PointOf(u) = p
<1>1. p \in Nat /\ p >= 1 /\ Len(u) \in Nat /\ p <= Len(u) + 1
  BY DEF IsDecimalText
<1>2. \A k \in 1..Len(u) : u[k] = "." <=> k = p
  BY DEF IsDecimalText
<1>3. CASE p <= Len(u)
  <2>1. p \in 1..Len(u)
    BY <1>1, <1>3
  <2>2. {k \in 1..Len(u) : u[k] = "."} = {p}
    BY <1>2, <2>1
  <2>3. Contains(u, ".")
    BY <1>2, <2>1 DEF Contains
  <2>4. SelectInSeq(u, LAMBDA c : c = ".") = Min({p})
    BY <2>2 DEF SelectInSeq
  <2> QED BY <1>1, <2>3, <2>4, MinOfOne DEF PointOf
<1>4. CASE ~(p <= Len(u))
  <2>1. ~Contains(u, ".")
    BY <1>1, <1>2, <1>4 DEF Contains
  <2> QED BY <1>1, <1>4, <2>1 DEF PointOf
<1> QED BY <1>3, <1>4

\* The digits of the padded text.
LEMMA PaddedDigits ==
  ASSUME NEW u \in Seq(Character), NEW p, IsDecimalText(u, p)
  PROVE  /\ \A k \in 1..(p - 1) : Padded(u, p)[k] = u[k]
         /\ DecimalValue(Padded(u, p)[p]) = DigitOr0(u, p + 1)
         /\ DecimalValue(Padded(u, p)[p + 1]) = DigitOr0(u, p + 2)
<1> DEFINE n == Len(u)
           a == SubSeq(u, 1, p - 1)
           b == SubSeq(u, p + 1, n)
           z == <<"0", "0">>
           ab == a \o b
<1>1. p \in Nat /\ p >= 1 /\ n \in Nat /\ p <= n + 1
  BY DEF IsDecimalText
<1>2. \A k \in 1..n : u[k] \in Character
  OBVIOUS
<1> HIDE DEF n
<1>3. a \in Seq(Character) /\ Len(a) = p - 1 /\ \A k \in 1..(p - 1) : a[k] = u[k]
  <2>1. \A k \in 1..(p - 1) : u[k] \in Character
    BY <1>1, <1>2
  <2>2. 1 \in Int /\ p - 1 \in Int
    BY <1>1
  <2>3. /\ a \in Seq(Character) /\ Len(a) = IF 1 <= p - 1 THEN (p - 1) - 1 + 1 ELSE 0
        /\ \A k \in 1..((p - 1) - 1 + 1) : a[k] = u[1 + k - 1]
    BY <2>1, <2>2, SubSeqProperties
  <2> HIDE DEF a
  <2>4. Len(a) = p - 1
    BY <1>1, <2>3
  <2>5. ASSUME NEW k \in 1..(p - 1)
        PROVE  a[k] = u[k]
    <3>1. k \in 1..((p - 1) - 1 + 1) /\ 1 + k - 1 = k
      BY <1>1
    <3> QED BY <2>3, <3>1
  <2> QED BY <2>3, <2>4, <2>5
<1>4. /\ b \in Seq(Character) /\ Len(b) = IF p + 1 <= n THEN n - p ELSE 0
      /\ \A k \in 1..(n - p) : b[k] = u[p + k]
  <2>1. \A k \in (p + 1)..n : u[k] \in Character
    BY <1>1, <1>2
  <2>2. p + 1 \in Int /\ n \in Int
    BY <1>1
  <2>3. /\ b \in Seq(Character) /\ Len(b) = IF p + 1 <= n THEN n - (p + 1) + 1 ELSE 0
        /\ \A k \in 1..(n - (p + 1) + 1) : b[k] = u[(p + 1) + k - 1]
    BY <2>1, <2>2, SubSeqProperties
  <2> HIDE DEF b
  <2>4. Len(b) = IF p + 1 <= n THEN n - p ELSE 0
    BY <1>1, <2>3
  <2>5. ASSUME NEW k \in 1..(n - p)
        PROVE  b[k] = u[p + k]
    <3>1. k \in 1..(n - (p + 1) + 1) /\ (p + 1) + k - 1 = p + k
      BY <1>1
    <3> QED BY <2>3, <3>1
  <2> QED BY <2>3, <2>4, <2>5
<1>5. z \in Seq(Character) /\ Len(z) = 2 /\ z[1] = "0" /\ z[2] = "0"
  BY PipelineAssumption, AsciiCharacters DEF AsciiDigits
<1> DEFINE t == Padded(u, p)
<1>6. t = ab \o z
  BY DEF Padded, n
<1>7. /\ ab \in Seq(Character) /\ Len(ab) = (p - 1) + Len(b)
      /\ \A k \in 1..(p - 1) : ab[k] = a[k]
      /\ \A k \in 1..Len(b) : ab[(p - 1) + k] = b[k]
  <2> HIDE DEF a, b
  <2>1. /\ ab \in Seq(Character) /\ Len(ab) = Len(a) + Len(b)
        /\ \A k \in 1..Len(a) : ab[k] = a[k]
        /\ \A k \in 1..Len(b) : ab[Len(a) + k] = b[k]
    BY <1>3, <1>4, Concatenated
  <2> HIDE DEF ab
  <2> QED BY <1>3, <2>1
<1>8. Len(b) \in Nat
  BY <1>1, <1>4
<1> HIDE DEF a, b, ab, z
<1>9. /\ \A k \in 1..Len(ab) : (ab \o z)[k] = ab[k]
      /\ \A k \in 1..Len(z) : (ab \o z)[Len(ab) + k] = z[k]
  BY <1>5, <1>7, Concatenated
<1>10. /\ \A k \in 1..Len(ab) : t[k] = ab[k]
       /\ t[Len(ab) + 1] = "0" /\ t[Len(ab) + 2] = "0"
  <2>1. 1 \in 1..Len(z) /\ 2 \in 1..Len(z)
    BY <1>5
  <2>2. (ab \o z)[Len(ab) + 1] = "0" /\ (ab \o z)[Len(ab) + 2] = "0"
    BY <1>5, <1>9, <2>1
  <2>3. \A k \in 1..Len(ab) : t[k] = (ab \o z)[k]
    BY <1>6
  <2>4. t[Len(ab) + 1] = (ab \o z)[Len(ab) + 1] /\ t[Len(ab) + 2] = (ab \o z)[Len(ab) + 2]
    BY <1>6
  <2> HIDE DEF t
  <2> QED BY <1>9, <2>2, <2>3, <2>4
<1> HIDE DEF t
<1>11. DecimalValue("0") = 0
  <2>1. OneDigit(0) /\ AsciiDigits[0 + 1] = "0"
    BY DEF OneDigit, AsciiDigits
  <2> QED BY <2>1, DecimalOfValue
<1>12. ASSUME NEW k \in 1..(p - 1)
       PROVE  t[k] = u[k]
  <2>1. k \in 1..Len(ab)
    BY <1>1, <1>7, <1>8
  <2> QED BY <1>3, <1>7, <1>10, <2>1
<1>13. ASSUME NEW k \in {1, 2}
       PROVE  DecimalValue(t[(p - 1) + k]) = DigitOr0(u, p + k)
  <2>1. CASE p + k <= n
    <3>1. k \in 1..Len(b) /\ k \in 1..(n - p)
      BY <1>1, <1>4, <2>1
    <3>2. (p - 1) + k \in 1..Len(ab)
      BY <1>1, <1>7, <1>8, <3>1
    <3>3. t[(p - 1) + k] = u[p + k]
      BY <1>4, <1>7, <1>10, <3>1, <3>2
    <3> QED BY <2>1, <3>3 DEF DigitOr0, n
  <2>2. CASE ~(p + k <= n)
    <3>1. DigitOr0(u, p + k) = 0
      BY <2>2 DEF DigitOr0, n
    <3>2. \E j \in {1, 2} : (p - 1) + k = Len(ab) + j
      <4>1. Len(b) = 0 \/ (Len(b) = 1 /\ k = 2)
        BY <1>1, <1>4, <2>2
      <4>2. CASE Len(b) = 0
        <5>1. (p - 1) + k = Len(ab) + k
          BY <1>1, <1>7, <4>2
        <5> QED BY <5>1
      <4>3. CASE Len(b) = 1 /\ k = 2
        <5>1. (p - 1) + k = Len(ab) + 1
          BY <1>1, <1>7, <4>3
        <5> QED BY <5>1
      <4> QED BY <4>1, <4>2, <4>3
    <3>3. t[(p - 1) + k] = "0"
      BY <1>10, <3>2
    <3> QED BY <1>11, <3>1, <3>3
  <2> QED BY <2>1, <2>2
<1>14. (p - 1) + 1 = p /\ (p - 1) + 2 = p + 1
  BY <1>1
<1>15. DecimalValue(t[p]) = DigitOr0(u, p + 1) /\ DecimalValue(t[p + 1]) = DigitOr0(u, p + 2)
  BY <1>13, <1>14
<1> QED BY <1>12, <1>15 DEF t

\* The number denoted is what the loop makes of the same digits.
LEMMA DenotedCents ==
  ASSUME NEW u \in Seq(Character), NEW p, IsDecimalText(u, p)
  PROVE  NumberAt(Padded(u, p), 1, p + 1) = CentsAt(u, p)
<1> DEFINE t == Padded(u, p)
<1>1. p \in Nat /\ p >= 1
  BY DEF IsDecimalText
<1>2. /\ \A k \in 1..(p - 1) : t[k] = u[k]
      /\ DecimalValue(t[p]) = DigitOr0(u, p + 1)
      /\ DecimalValue(t[p + 1]) = DigitOr0(u, p + 2)
  BY PaddedDigits
<1> HIDE DEF t
<1>3. NumberAt(t, 1, p + 1) = 10 * NumberAt(t, 1, p) + DecimalValue(t[p + 1])
  <2>1. (p + 1) - 1 = p /\ p + 1 >= 1 /\ p + 1 \in Nat
    BY <1>1
  <2> QED BY <2>1, NumberStep
<1>4. NumberAt(t, 1, p) = 10 * NumberAt(t, 1, p - 1) + DecimalValue(t[p])
  BY <1>1, NumberStep
<1>5. NumberAt(t, 1, p - 1) = NumberAt(u, 1, p - 1)
  <2>1. p - 1 \in Nat
    BY <1>1
  <2> QED BY <1>2, <2>1, NumberAgrees
<1> QED BY <1>2, <1>3, <1>4, <1>5 DEF CentsAt, t

\* An accepted ASCII text is read as the cents it denotes.
LEMMA AcceptedIsDenoted ==
  ASSUME NEW s \in Seq(Character), MoneyParses(s), AsciiOnly(s)
  PROVE  FromDecimalString(s) = CentsDenoted(s)
<1> DEFINE u == Unsigned(s)
<1>1. u \in Seq(Character)
  BY UnsignedIsText
<1>2. PICK p : IsDecimalText(u, p)
  BY AcceptedIsDecimal
<1>3. PICK g : IsLoop(g, u) /\ FoldLeft(Read, StartOfLoop, u) = g[Len(u)]
  BY <1>1, FoldIsLoop
<1>4. EndOfLoop(s) = g[Len(u)]
  BY <1>3 DEF EndOfLoop
<1> DEFINE cents == CentsAt(u, p)
<1>5. CentsOfParts(EndOfLoop(s)) = cents
  <2>1. PartsAt(g[Len(u)], u, p, Len(u))
    BY <1>1, <1>2, <1>3, PartsOfLoop
  <2> HIDE DEF u
  <2> QED BY <1>1, <1>2, <1>4, <2>1, CentsRead
<1>6. NumberAt(Padded(u, PointOf(u)), 1, PointOf(u) + 1) = cents
  <2> HIDE DEF u
  <2> QED BY <1>1, <1>2, PointFound, DenotedCents
<1>7. CentsDenoted(s) = IF s[1] = "-" THEN -cents ELSE cents
  BY <1>6, DenotedByPadded
<1>8. FromDecimalString(s) = IF s[1] = "-" THEN -cents ELSE cents
  BY <1>5 DEF FromDecimalString
<1> QED BY <1>7, <1>8

\* The parts of an amount make up a number of cents.
LEMMA CentsAreNatural ==
  ASSUME NEW m \in Locals
  PROVE  CentsOfParts(m) \in Nat
<1> DEFINE w == m.whole_part
           f == m.frac_part
<1>1. w \in Nat /\ f \in Nat /\ m.frac_digits \in 0..2
  BY DEF Locals
<1>2. CentsOfParts(m) = w * 100 + f * 10 ^ (2 - m.frac_digits)
  BY DEF CentsOfParts
<1> HIDE DEF w, f
<1>3. CASE m.frac_digits = 0
  <2>1. 10 ^ (2 - m.frac_digits) = 100
    BY <1>3
  <2> QED BY <1>1, <1>2, <2>1
<1>4. CASE m.frac_digits = 1
  <2>1. 10 ^ (2 - m.frac_digits) = 10
    BY <1>4
  <2> QED BY <1>1, <1>2, <2>1
<1>5. CASE m.frac_digits = 2
  <2>1. 10 ^ (2 - m.frac_digits) = 1
    BY <1>5
  <2> QED BY <1>1, <1>2, <2>1
<1> QED BY <1>1, <1>3, <1>4, <1>5

\* An amount that is not negative is a number of cents.
LEMMA AmountIsNatural ==
  ASSUME NEW s \in Text, ~Negative(FromDecimalString(s))
  PROVE  FromDecimalString(s) \in Nat
<1> DEFINE u == Unsigned(s)
<1>1. u \in Seq(Character)
  BY UnsignedIsText DEF Text
<1> HIDE DEF u
<1>2. PICK g : IsLoop(g, u) /\ FoldLeft(Read, StartOfLoop, u) = g[Len(u)]
  BY <1>1, FoldIsLoop
<1>3. g[Len(u)] \in Locals
  <2>1. Len(u) \in 0..Len(u)
    BY <1>1
  <2> QED BY <1>1, <1>2, <2>1, LoopTyped
<1>4. CentsOfParts(EndOfLoop(s)) \in Nat
  BY <1>2, <1>3, CentsAreNatural DEF EndOfLoop, u
<1> DEFINE c == CentsOfParts(EndOfLoop(s))
<1>5. FromDecimalString(s) = IF s[1] = "-" THEN -c ELSE c
  BY DEF FromDecimalString
<1> HIDE DEF c
<1>6. c \in Nat
  BY <1>4 DEF c
<1> QED BY <1>5, <1>6 DEF Negative

-----------------------------------------------------------------------------
(* Numbers printed and read back. *)

\* The last digit of n without its last k.
LastDigit(n, k) == Leading(n, k) % 10

\* It is one digit, and with it the rest makes up the number.
LEMMA LastDigitIsOne ==
  ASSUME NEW n \in Nat, NEW k \in Nat
  PROVE  OneDigit(LastDigit(n, k)) /\ Leading(n, k) = 10 * Leading(n, k + 1) + LastDigit(n, k)
<1> DEFINE a == Leading(n, k)
           b == Leading(n, k + 1)
<1>1. a \in Nat /\ b = a \div 10
  BY LeadingStep
<1> HIDE DEF a, b
<1>2. OneDigit(a % 10) /\ a = 10 * b + (a % 10)
  BY <1>1 DEF OneDigit
<1> QED BY <1>2 DEF a, b, LastDigit

\* The digits that are written.
LEMMA DigitsText ==
  ASSUME NEW n \in Nat, NEW w \in Nat
  PROVE  /\ Digits(n, w) \in Text /\ Len(Digits(n, w)) = w
         /\ \A k \in 1..w : Digits(n, w)[k] = AsciiDigits[LastDigit(n, w - k) + 1]
<1> DEFINE s == Digits(n, w)
<1>1. s = [k \in 1..w |-> AsciiDigits[LastDigit(n, w - k) + 1]]
  BY DEF Digits, LastDigit
<1> HIDE DEF s
<1>2. ASSUME NEW k \in 1..w
      PROVE  AsciiDigits[LastDigit(n, w - k) + 1] \in Character
  <2>1. w - k \in Nat
    OBVIOUS
  <2>2. OneDigit(LastDigit(n, w - k))
    BY <2>1, LastDigitIsOne
  <2> QED BY <2>2, DigitOfValue
<1>3. s \in [1..w -> Character]
  BY <1>1, <1>2
<1>4. s \in Seq(Character) /\ Len(s) = w
  BY <1>3, FunctionIsSeq
<1>5. \A k \in 1..w : s[k] = AsciiDigits[LastDigit(n, w - k) + 1]
  BY <1>1
<1> QED BY <1>4, <1>5 DEF s, Text

\* As many digits as there are make up the number.
LEMMA NumberOfDigits ==
  ASSUME NEW n \in Nat, NEW w \in Nat, Leading(n, w) = 0
  PROVE  NumberAt(Digits(n, w), 1, w) = n
<1> DEFINE s == Digits(n, w)
           T == {k \in 0..w : NumberAt(s, 1, k) = Leading(n, w - k)}
<1>1. \A k \in 1..w : s[k] = AsciiDigits[LastDigit(n, w - k) + 1]
  BY DigitsText
<1> HIDE DEF s
<1>2. 0 \in T
  <2>1. NumberAt(s, 1, 0) = 0
    BY NumberOfNone
  <2>2. w - 0 = w /\ 0 \in 0..w
    OBVIOUS
  <2> QED BY <2>1, <2>2
<1>3. ASSUME NEW k \in 1..w, k - 1 \in T
      PROVE  k \in T
  <2>1. w - k \in Nat /\ (w - k) + 1 = w - (k - 1) /\ k \in Nat /\ k >= 1 /\ k \in 0..w
    OBVIOUS
  <2>2. NumberAt(s, 1, k - 1) = Leading(n, w - (k - 1))
    BY <1>3
  <2>3. NumberAt(s, 1, k) = 10 * NumberAt(s, 1, k - 1) + DecimalValue(s[k])
    BY <2>1, NumberStep
  <2>4. OneDigit(LastDigit(n, w - k))
        /\ Leading(n, w - k) = 10 * Leading(n, (w - k) + 1) + LastDigit(n, w - k)
    BY <2>1, LastDigitIsOne
  <2>5. DecimalValue(s[k]) = LastDigit(n, w - k)
    BY <1>1, <2>4, DecimalOfValue
  <2>6. NumberAt(s, 1, k) = Leading(n, w - k)
    BY <2>1, <2>2, <2>3, <2>4, <2>5
  <2> QED BY <2>1, <2>6
<1> HIDE DEF T
<1>4. \A k \in 0..w : k \in T
  BY <1>2, <1>3, EveryStep
<1>5. w \in 0..w /\ w - w = 0
  OBVIOUS
<1>6. NumberAt(s, 1, w) = Leading(n, 0)
  BY <1>4, <1>5 DEF T
<1> QED BY <1>6, LeadingOfNone DEF s

\* str prints all the digits of a number.
LEMMA DecimalIs ==
  ASSUME NEW n \in Nat
  PROVE  \E w \in 1..(n + 1) : Leading(n, w) = 0 /\ Decimal(n) = Digits(n, w)
<1> DEFINE T == {w \in Nat : w >= 1 /\ Leading(n, w) = 0}
           IsWidth(w) == Leading(n, w) = 0 /\ (w > 1 => Leading(n, w - 1) # 0)
<1>1. n + 1 \in T
  BY LeadingVanishes
<1>2. PICK m \in T : \A k \in T : m <= k
  <2>1. T \subseteq Nat /\ T # {}
    BY <1>1
  <2> HIDE DEF T
  <2> QED BY <2>1, LeastNumber
<1>3. m \in Nat /\ m >= 1 /\ m <= n + 1 /\ Leading(n, m) = 0
  BY <1>1, <1>2
<1>4. m \in 1..(n + 1)
  BY <1>3
<1>5. m > 1 => Leading(n, m - 1) # 0
  <2> SUFFICES ASSUME m > 1, Leading(n, m - 1) = 0 PROVE FALSE
    OBVIOUS
  <2>1. m - 1 \in Nat /\ m - 1 >= 1 /\ ~(m <= m - 1)
    BY <1>3
  <2> QED BY <1>2, <2>1
<1>6. IsWidth(m)
  BY <1>3, <1>5
<1> HIDE DEF T
<1> DEFINE w == CHOOSE w \in 1..(n + 1) : IsWidth(w)
<1>7. w \in 1..(n + 1) /\ IsWidth(w)
  <2> HIDE DEF IsWidth
  <2> QED BY <1>4, <1>6
<1>8. Decimal(n) = Digits(n, w)
  BY DEF Decimal
<1> HIDE DEF w
<1> QED BY <1>7, <1>8

\* str(n), read as COPY reads a number, is n.
LEMMA DecimalReadsBack ==
  ASSUME NEW n \in Nat
  PROVE  Decimal(n) \in Text /\ NumberAt(Decimal(n), 1, Len(Decimal(n))) = n
<1>1. PICK w \in 1..(n + 1) : Leading(n, w) = 0 /\ Decimal(n) = Digits(n, w)
  BY DecimalIs
<1>2. w \in Nat
  OBVIOUS
<1>3. Digits(n, w) \in Text /\ Len(Digits(n, w)) = w
  BY <1>2, DigitsText
<1>4. NumberAt(Digits(n, w), 1, w) = n
  BY <1>1, <1>2, NumberOfDigits
<1> QED BY <1>1, <1>3, <1>4

-----------------------------------------------------------------------------
(* Money.to_string and back. *)

\* A text without quotes and commas.
Plain(u) == \A k \in 1..Len(u) : u[k] # Quote /\ u[k] # Comma

\* A digit that str writes.
Written(c) == \E d : OneDigit(d) /\ c = AsciiDigits[d + 1]

\* No digit is a comma or a quote.
LEMMA DigitsAreNoMarks == \A k \in 1..10 : AsciiDigits[k] # Comma /\ AsciiDigits[k] # Quote
<1>1. /\ Comma # "0" /\ Comma # "1" /\ Comma # "2" /\ Comma # "3" /\ Comma # "4"
      /\ Comma # "5" /\ Comma # "6" /\ Comma # "7" /\ Comma # "8" /\ Comma # "9"
  BY DEF Comma
<1>2. /\ Quote # "0" /\ Quote # "1" /\ Quote # "2" /\ Quote # "3" /\ Quote # "4"
      /\ Quote # "5" /\ Quote # "6" /\ Quote # "7" /\ Quote # "8" /\ Quote # "9"
  BY DEF Quote
<1> QED BY <1>1, <1>2 DEF AsciiDigits

\* It is a digit to all functions of the code, and no mark.
LEMMA WrittenIs ==
  ASSUME NEW c, Written(c)
  PROVE  /\ IsDecimal(c) /\ IsDigit(c) /\ OneDigit(DecimalValue(c))
         /\ c # "sup2" /\ c # "arabic2" /\ c # "." /\ c # "-" /\ c # "+" /\ c # Quote /\ c # Comma
<1>1. PICK d : OneDigit(d) /\ c = AsciiDigits[d + 1]
  BY DEF Written
<1>2. IsDecimal(c) /\ OneDigit(DecimalValue(c)) /\ IsDigit(c) /\ c # "sup2" /\ c # "arabic2"
  BY <1>1, DigitOfValue, DecimalOfValue, DecimalIsDigit
<1>3. \A k \in 1..10 : AsciiDigits[k] # "." /\ AsciiDigits[k] # "-" /\ AsciiDigits[k] # "+"
  BY DEF AsciiDigits
<1>4. d + 1 \in 1..10
  BY <1>1 DEF OneDigit
<1> QED BY <1>1, <1>2, <1>3, <1>4, DigitsAreNoMarks

\* Digits are written by digits.
LEMMA DigitsWritten ==
  ASSUME NEW n \in Nat, NEW w \in Nat
  PROVE  \A k \in 1..w : Written(Digits(n, w)[k])
<1> SUFFICES ASSUME NEW k \in 1..w PROVE Written(Digits(n, w)[k])
  OBVIOUS
<1>1. Digits(n, w)[k] = AsciiDigits[LastDigit(n, w - k) + 1]
  BY DigitsText
<1>2. w - k \in Nat
  OBVIOUS
<1>3. OneDigit(LastDigit(n, w - k))
  BY <1>2, LastDigitIsOne
<1> QED BY <1>1, <1>3 DEF Written

\* str(n) is one digit or more.
LEMMA DecimalWritten ==
  ASSUME NEW n \in Nat
  PROVE  /\ Decimal(n) \in Text /\ Len(Decimal(n)) \in Nat /\ Len(Decimal(n)) >= 1
         /\ \A k \in 1..Len(Decimal(n)) : Written(Decimal(n)[k])
<1>1. PICK w \in 1..(n + 1) : Leading(n, w) = 0 /\ Decimal(n) = Digits(n, w)
  BY DecimalIs
<1>2. w \in Nat /\ w >= 1
  OBVIOUS
<1>3. Digits(n, w) \in Text /\ Len(Digits(n, w)) = w
  BY <1>2, DigitsText
<1>4. \A k \in 1..w : Written(Digits(n, w)[k])
  BY <1>2, DigitsWritten
<1> QED BY <1>1, <1>2, <1>3, <1>4

\* The two digits behind the point.
LEMMA CentsWritten ==
  ASSUME NEW m, Below(m, 100)
  PROVE  LET s == Digits(m, 2)
         IN /\ s \in Text /\ Len(s) = 2 /\ Written(s[1]) /\ Written(s[2])
            /\ 10 * DecimalValue(s[1]) + DecimalValue(s[2]) = m
<1> DEFINE s == Digits(m, 2)
<1>1. m \in Nat /\ m < 100
  BY DEF Below
<1>2. s \in Text /\ Len(s) = 2
  BY <1>1, DigitsText
<1>3. Written(s[1]) /\ Written(s[2])
  BY <1>1, DigitsWritten
<1>4. Leading(m, 2) = 0
  <2>1. Leading(m, 0) = m
    BY <1>1, LeadingOfNone
  <2>2. Leading(m, 0 + 1) = m \div 10
    BY <1>1, <2>1, LeadingStep
  <2>3. Leading(m, 1 + 1) = Leading(m, 1) \div 10
    BY <1>1, LeadingStep
  <2>4. Leading(m, 1) = m \div 10 /\ Leading(m, 2) = Leading(m, 1) \div 10
    BY <2>2, <2>3
  <2>5. (m \div 10) \div 10 = 0
    BY <1>1
  <2> QED BY <2>4, <2>5
<1>5. NumberAt(s, 1, 2) = m
  BY <1>1, <1>4, NumberOfDigits
<1> HIDE DEF s
<1>6. OneDigit(DecimalValue(s[1])) /\ OneDigit(DecimalValue(s[1 + 1]))
  BY <1>3, WrittenIs
<1>7. NumberAt(s, 1, 1 + 1) = Two(DecimalValue(s[1]), DecimalValue(s[1 + 1]))
  BY <1>6, TwoDigits
<1>8. Two(DecimalValue(s[1]), DecimalValue(s[2])) = m
  BY <1>5, <1>7
<1> QED BY <1>2, <1>3, <1>8 DEF Two, s

\* n cents written: whole euros of w digits, the point, two digits.
MoneyWritten(s, n, w) ==
  /\ s \in Text /\ w \in Nat /\ w >= 1 /\ Len(s) = w + 3
  /\ \A k \in 1..(w + 3) : k # w + 1 => Written(s[k])
  /\ s[w + 1] = "."
  /\ NumberAt(s, 1, w) = n \div 100
  /\ 10 * DecimalValue(s[w + 2]) + DecimalValue(s[w + 3]) = n % 100

\* Money.to_string writes it so.
LEMMA MoneyIsWritten ==
  ASSUME NEW n \in Nat
  PROVE  \E w : MoneyWritten(MoneyToString(n), n, w)
<1> DEFINE a == Decimal(n \div 100)
           w == Len(a)
           b == <<".">>
           e == Digits(n % 100, 2)
           ab == a \o b
           s == ab \o e
<1>1. n \div 100 \in Nat /\ Below(n % 100, 100)
  BY DEF Below
<1>2. /\ a \in Text /\ w \in Nat /\ w >= 1 /\ \A k \in 1..w : Written(a[k])
      /\ NumberAt(a, 1, w) = n \div 100
  BY <1>1, DecimalWritten, DecimalReadsBack
<1>3. /\ e \in Text /\ Len(e) = 2 /\ Written(e[1]) /\ Written(e[2])
      /\ 10 * DecimalValue(e[1]) + DecimalValue(e[2]) = n % 100
  BY <1>1, CentsWritten
<1>4. b \in Text /\ Len(b) = 1 /\ b[1] = "."
  BY PipelineAssumption DEF Text
<1>5. MoneyToString(n) = s
  <2>1. MoneyToString(n) = ((<<>> \o a) \o b) \o e
    BY DEF MoneyToString
  <2>2. <<>> \o a = a
    BY <1>2, ConcatEmptySeq DEF Text
  <2> QED BY <2>1, <2>2
<1> HIDE DEF a, b, e, w, s, ab
<1>6. /\ ab \in Seq(Character) /\ Len(ab) = Len(a) + Len(b)
      /\ \A k \in 1..Len(a) : ab[k] = a[k]
      /\ \A k \in 1..Len(b) : ab[Len(a) + k] = b[k]
  BY <1>2, <1>4, Concatenated DEF ab, Text
<1>7. /\ s \in Seq(Character) /\ Len(s) = Len(ab) + Len(e)
      /\ \A k \in 1..Len(ab) : s[k] = ab[k]
      /\ \A k \in 1..Len(e) : s[Len(ab) + k] = e[k]
  BY <1>3, <1>6, Concatenated DEF s, Text
<1>8. Len(a) = w
  BY DEF w
<1>9. Len(ab) = w + 1 /\ Len(s) = w + 3
  BY <1>2, <1>3, <1>4, <1>6, <1>7, <1>8
<1>10. \A k \in 1..w : s[k] = a[k]
  <2> SUFFICES ASSUME NEW k \in 1..w PROVE s[k] = a[k]
    OBVIOUS
  <2>1. k \in 1..Len(a) /\ k \in 1..Len(ab)
    BY <1>2, <1>8, <1>9
  <2> QED BY <1>6, <1>7, <2>1
<1>11. s[w + 1] = "."
  <2>1. 1 \in 1..Len(b) /\ w + 1 \in 1..Len(ab)
    BY <1>2, <1>4, <1>9
  <2>2. ab[Len(a) + 1] = b[1]
    BY <1>6, <2>1
  <2> QED BY <1>4, <1>7, <1>8, <2>1, <2>2
<1>12. s[w + 2] = e[1] /\ s[w + 3] = e[2]
  <2>1. 1 \in 1..Len(e) /\ 2 \in 1..Len(e)
    BY <1>3
  <2>2. s[Len(ab) + 1] = e[1] /\ s[Len(ab) + 2] = e[2]
    BY <1>7, <2>1
  <2>3. Len(ab) + 1 = w + 2 /\ Len(ab) + 2 = w + 3
    BY <1>2, <1>9
  <2> QED BY <2>2, <2>3
<1>13. ASSUME NEW k \in 1..(w + 3), k # w + 1
       PROVE  Written(s[k])
  <2>1. k \in 1..w \/ k = w + 2 \/ k = w + 3
    BY <1>2, <1>13
  <2> QED BY <1>2, <1>3, <1>10, <1>12, <2>1
<1>14. NumberAt(s, 1, w) = n \div 100
  <2>1. NumberAt(s, 1, w) = NumberAt(a, 1, w)
    BY <1>2, <1>10, NumberAgrees
  <2> QED BY <1>2, <2>1
<1>15. MoneyWritten(s, n, w)
  BY <1>2, <1>3, <1>7, <1>9, <1>11, <1>12, <1>13, <1>14 DEF MoneyWritten, Text
<1> QED BY <1>5, <1>15

\* It parses back to the cents.
LEMMA MoneyReadsBack ==
  ASSUME NEW n \in Nat
  PROVE  /\ MoneyParses(MoneyToString(n)) /\ FromDecimalString(MoneyToString(n)) = n
         /\ Plain(MoneyToString(n))
<1> DEFINE s == MoneyToString(n)
<1>1. PICK w : MoneyWritten(s, n, w)
  BY MoneyIsWritten
<1> HIDE DEF s
<1>2. /\ s \in Seq(Character) /\ w \in Nat /\ w >= 1 /\ Len(s) = w + 3 /\ DOMAIN s = 1..(w + 3)
      /\ s[w + 1] = "." /\ w + 1 \in 1..(w + 3) /\ 1 \in 1..(w + 3) /\ 1 # w + 1
  BY <1>1 DEF MoneyWritten, Text
<1>3. \A k \in 1..(w + 3) : k # w + 1 => Written(s[k])
  BY <1>1 DEF MoneyWritten
<1>4. s[1] # "-" /\ s[1] # "+"
  BY <1>2, <1>3, WrittenIs
<1>5. Unsigned(s) = s
  BY <1>4 DEF Unsigned
<1>6. \A k \in 1..(w + 3) : s[k] = "." <=> k = w + 1
  BY <1>2, <1>3, WrittenIs
<1>7. IsNumber(s)
  <2>1. \A k \in 1..(w + 3) : s[k] = "." \/ IsDecimal(s[k])
    BY <1>2, <1>3, WrittenIs
  <2>2. \E k \in 1..(w + 3) : IsDecimal(s[k])
    BY <1>2, <1>3, WrittenIs
  <2>3. \A k, l \in 1..(w + 3) : s[k] = "." /\ s[l] = "." => k = l
    BY <1>6
  <2> QED BY <1>2, <1>5, <2>1, <2>2, <2>3 DEF IsNumber
<1>8. MoneyParses(s)
  BY <1>2, <1>7, NumberIsAccepted
<1>9. AsciiOnly(s)
  BY <1>2, <1>3, WrittenIs DEF AsciiOnly
<1>10. IsDecimalText(s, w + 1)
  <2>1. w + 1 \in 1..(Len(s) + 1)
    BY <1>2
  <2>2. \A k \in 1..(w + 3) : k # w + 1 => IsDigit(s[k]) /\ s[k] \notin {"sup2", "arabic2"}
    BY <1>3, WrittenIs
  <2> QED BY <1>2, <1>6, <2>1, <2>2 DEF IsDecimalText
<1>11. FromDecimalString(s) = CentsAt(s, w + 1)
  <2>1. FromDecimalString(s) = CentsDenoted(s)
    BY <1>2, <1>8, <1>9, AcceptedIsDenoted
  <2>2. PointOf(s) = w + 1 /\ NumberAt(Padded(s, w + 1), 1, (w + 1) + 1) = CentsAt(s, w + 1)
    BY <1>2, <1>10, PointFound, DenotedCents
  <2>3. CentsDenoted(s) = NumberAt(Padded(s, PointOf(s)), 1, PointOf(s) + 1)
    BY <1>4, <1>5, DenotedByPadded
  <2> QED BY <2>1, <2>2, <2>3
<1>12. CentsAt(s, w + 1) = n
  <2> DEFINE d == DecimalValue(s[w + 2])
             e == DecimalValue(s[w + 3])
             q == n \div 100
  <2>1. OneDigit(d) /\ OneDigit(e)
    <3>1. w + 2 \in 1..(w + 3) /\ w + 3 \in 1..(w + 3) /\ w + 2 # w + 1 /\ w + 3 # w + 1
      BY <1>2
    <3> QED BY <1>3, <3>1, WrittenIs
  <2>2. NumberAt(s, 1, (w + 1) - 1) = q
    <3>1. (w + 1) - 1 = w
      BY <1>2
    <3> QED BY <1>1, <3>1 DEF MoneyWritten
  <2>3. DigitOr0(s, (w + 1) + 1) = d /\ DigitOr0(s, (w + 1) + 2) = e
    <3>1. (w + 1) + 1 = w + 2 /\ (w + 1) + 2 = w + 3 /\ w + 2 <= w + 3
      BY <1>2
    <3> QED BY <1>2, <3>1 DEF DigitOr0
  <2>4. 10 * d + e = n % 100
    BY <1>1 DEF MoneyWritten
  <2>5. CentsAt(s, w + 1) = 10 * (10 * q + d) + e
    BY <2>2, <2>3 DEF CentsAt
  <2>6. n = 100 * q + (n % 100) /\ q \in Nat
    OBVIOUS
  <2> HIDE DEF d, e, q
  <2> QED BY <2>1, <2>4, <2>5, <2>6 DEF OneDigit
<1>13. Plain(s)
  <2>1. "." # Quote /\ "." # Comma
    BY DEF Quote, Comma
  <2> QED BY <1>2, <1>3, <2>1, WrittenIs DEF Plain
<1> QED BY <1>8, <1>11, <1>12, <1>13 DEF s

-----------------------------------------------------------------------------
(* Texts put together. *)

\* Induction over the texts: P is a set of texts with the empty one, and with
\* every text the text one character longer.
LEMMA EveryText ==
  ASSUME NEW S, NEW P, <<>> \in P, \A s \in Seq(S), c \in S : s \in P => Append(s, c) \in P
  PROVE  \A s \in Seq(S) : s \in P
<1> SUFFICES ASSUME NEW s \in Seq(S) PROVE s \in P
  OBVIOUS
<1> DEFINE n == Len(s)
           T == {k \in 0..n : SubSeq(s, 1, k) \in P}
<1>1. n \in Nat
  OBVIOUS
<1>2. 0 \in T
  <2>1. SubSeq(s, 1, 0) = <<>>
    BY SubSeqEmpty
  <2>2. SubSeq(s, 1, 0) \in P
    BY <2>1
  <2>3. 0 \in 0..n
    BY <1>1
  <2> QED BY <2>2, <2>3
<1>3. ASSUME NEW k \in 1..n, k - 1 \in T
      PROVE  k \in T
  <2> DEFINE p == SubSeq(s, 1, k - 1)
  <2>1. 1 \in 1..n /\ k \in 1..n /\ k \in 0..n /\ k \in Nat
    BY <1>1
  <2>2. p \in Seq(S) /\ s[k] \in S
    <3>1. \A j \in 1..(k - 1) : s[j] \in S
      BY <1>1
    <3>2. 1 \in Int /\ k - 1 \in Int
      BY <2>1
    <3> QED BY <3>1, <3>2, SubSeqProperties
  <2>3. SubSeq(s, 1, k) = p \o <<s[k]>>
    <3>1. 1 \in 1..Len(s) /\ k \in 1..Len(s)
      BY <2>1
    <3> HIDE DEF n, T
    <3> QED BY <3>1, SubSeqRecursiveSecond
  <2>4. SubSeq(s, 1, k) = Append(p, s[k])
    BY <2>2, <2>3, AppendIsConcat
  <2>5. p \in P
    BY <1>3
  <2> HIDE DEF p
  <2>6. SubSeq(s, 1, k) \in P
    BY <2>2, <2>4, <2>5
  <2> QED BY <2>1, <2>6
<1> HIDE DEF T
<1>4. \A k \in 0..n : k \in T
  BY <1>1, <1>2, <1>3, EveryStep
<1>5. n \in T
  BY <1>1, <1>4
<1> QED BY <1>5, SubSeqFull DEF T

\* What FlattenSeq has put together after each of the texts.
Appends(F) == [k \in 1..Len(F) |-> [x \in Text |-> x \o F[k]]]

\* The steps of FlattenSeq make texts of texts.
LEMMA AppendsTyped ==
  ASSUME NEW F \in Seq(Text)
  PROVE  Appends(F) \in [1..Len(F) -> [Text -> Text]]
<1>1. ASSUME NEW k \in 1..Len(F)
      PROVE  [x \in Text |-> x \o F[k]] \in [Text -> Text]
  <2>1. F[k] \in Text
    OBVIOUS
  <2>2. \A x \in Text : x \o F[k] \in Text
    BY <2>1 DEF Text
  <2> HIDE DEF Text
  <2> QED BY <2>2
<1> QED BY <1>1 DEF Appends

\* The first of the texts to be put together.
LEMMA FirstPiece ==
  ASSUME NEW n \in Nat, NEW F, NEW g, g[0] = <<>>, \A k \in 1..n : g[k] = g[k - 1] \o F[k],
         1 \in 1..n
  PROVE  g[1] = <<>> \o F[1]
<1>1. ASSUME NEW k \in 1..n, k = 1
      PROVE  g[k] = <<>> \o F[k]
  <2>1. g[k] = g[k - 1] \o F[k]
    OBVIOUS
  <2>2. g[k - 1] = <<>>
    BY <1>1
  <2> QED BY <2>1, <2>2
<1> QED BY <1>1

\* The fold of FlattenSeq, text after text.
LEMMA FlattenIs ==
  ASSUME NEW F \in Seq(Text)
  PROVE  \E g \in [0..Len(F) -> Text] :
           Iterates(g, <<>>, Appends(F), Len(F)) /\ FlattenSeq(F) = g[Len(F)]
<1> DEFINE n == Len(F)
           Flat(h) == h = [k \in 1..n |-> IF k = 1 THEN F[k] ELSE h[k - 1] \o F[k]]
           f == CHOOSE h : Flat(h)
<1>1. n \in Nat /\ \A k \in 1..n : F[k] \in Text
  OBVIOUS
<1>2. PICK g \in [0..n -> Text] : Iterates(g, <<>>, Appends(F), n)
  <2>1. Appends(F) \in [1..n -> [Text -> Text]]
    BY AppendsTyped
  <2>2. <<>> \in Text
    BY DEF Text
  <2> HIDE DEF n
  <2> QED BY <1>1, <2>1, <2>2, Recursion
<1> HIDE DEF n
<1>3. g[0] = <<>> /\ \A k \in 1..n : g[k] = g[k - 1] \o F[k]
  <2>1. ASSUME NEW k \in 1..n
        PROVE  g[k] = g[k - 1] \o F[k]
    <3>1. g[k] = Appends(F)[k][g[k - 1]] /\ g[k - 1] \in Text
      <4>1. k - 1 \in 0..n
        BY <1>1
      <4> QED BY <1>2, <4>1 DEF Iterates
    <3>2. Appends(F)[k] = [x \in Text |-> x \o F[k]]
      BY DEF Appends, n
    <3> QED BY <3>1, <3>2
  <2> QED BY <1>2, <2>1 DEF Iterates
<1>4. Flat([k \in 1..n |-> g[k]])
  <2> DEFINE h == [k \in 1..n |-> g[k]]
  <2>1. ASSUME NEW k \in 1..n
        PROVE  h[k] = IF k = 1 THEN F[k] ELSE h[k - 1] \o F[k]
    <3>1. CASE k = 1
      <4>1. g[1] = <<>> \o F[1] /\ F[1] \in Text
        BY <1>1, <1>3, <3>1, FirstPiece
      <4>2. <<>> \o F[1] = F[1]
        BY <4>1, ConcatEmptySeq DEF Text
      <4> QED BY <3>1, <4>1, <4>2
    <3>2. CASE k # 1
      <4>1. k - 1 \in 1..n
        BY <1>1, <3>2
      <4> QED BY <1>3, <3>2, <4>1
    <3> QED BY <3>1, <3>2
  <2>2. h = [k \in 1..n |-> h[k]]
    OBVIOUS
  <2> HIDE DEF h
  <2>3. Flat(h)
    BY <2>1, <2>2
  <2> QED BY <2>3 DEF h
<1>5. Flat(f)
  BY <1>4
<1>6. FlattenSeq(F) = IF n = 0 THEN F ELSE f[n]
  BY DEF FlattenSeq, n
<1> HIDE DEF f
<1>7. \A k \in 1..n : f[k] = IF k = 1 THEN F[k] ELSE f[k - 1] \o F[k]
  BY <1>5
<1> DEFINE T == {k \in 0..n : k = 0 \/ f[k] = g[k]}
<1>8. ASSUME NEW k \in 1..n, k - 1 \in T
      PROVE  k \in T
  <2>1. ASSUME k = 1 PROVE f[k] = g[k]
    <3>1. g[1] = <<>> \o F[1] /\ F[1] \in Text
      BY <1>1, <1>3, <2>1, FirstPiece
    <3>2. <<>> \o F[1] = F[1]
      BY <3>1, ConcatEmptySeq DEF Text
    <3>3. f[1] = g[1]
      BY <1>7, <2>1, <3>1, <3>2
    <3> HIDE DEF T
    <3> QED BY <2>1, <3>3
  <2>2. ASSUME k # 1 PROVE f[k] = g[k]
    <3>1. f[k - 1] = g[k - 1]
      BY <1>8, <2>2
    <3>2. f[k] = f[k - 1] \o F[k] /\ g[k] = g[k - 1] \o F[k]
      BY <1>3, <1>7, <2>2
    <3> HIDE DEF T
    <3> QED BY <3>1, <3>2
  <2>3. k \in 0..n
    BY <1>1
  <2>4. k = 0 \/ f[k] = g[k]
    BY <2>1, <2>2
  <2> QED BY <2>3, <2>4
<1>9. 0 \in T
  BY <1>1
<1> HIDE DEF T
<1>10. \A k \in 0..n : k \in T
  BY <1>1, <1>8, <1>9, EveryStep
<1>11. n # 0 => f[n] = g[n]
  BY <1>1, <1>10 DEF T
<1>12. n = 0 => F = g[n]
  <2>1. n = 0 => F = <<>>
    BY DEF n
  <2> QED BY <1>3, <2>1
<1>13. FlattenSeq(F) = g[n]
  BY <1>6, <1>11, <1>12
<1> QED BY <1>2, <1>13 DEF n

\* Nothing, and one text more.
LEMMA FlattenOfNone == FlattenSeq(<<>>) = <<>>
BY DEF FlattenSeq

\* One text more.
LEMMA FlattenStep ==
  ASSUME NEW F \in Seq(Text), NEW x \in Text
  PROVE  FlattenSeq(F) \in Text /\ FlattenSeq(Append(F, x)) = FlattenSeq(F) \o x
<1> DEFINE G == Append(F, x)
           n == Len(F)
<1>1. /\ n \in Nat /\ G \in Seq(Text) /\ Len(G) = n + 1
      /\ G[n + 1] = x /\ \A k \in 1..n : G[k] = F[k]
  BY AppendProperties
<1>2. PICK g \in [0..n -> Text] : Iterates(g, <<>>, Appends(F), n) /\ FlattenSeq(F) = g[n]
  BY FlattenIs
<1>3. PICK h \in [0..Len(G) -> Text] :
        Iterates(h, <<>>, Appends(G), Len(G)) /\ FlattenSeq(G) = h[Len(G)]
  <2> HIDE DEF G
  <2> QED BY <1>1, FlattenIs
<1> HIDE DEF G
<1>4. \A k \in 1..n : Appends(G)[k] = Appends(F)[k]
  <2> SUFFICES ASSUME NEW k \in 1..n PROVE Appends(G)[k] = Appends(F)[k]
    OBVIOUS
  <2>1. k \in 1..Len(G) /\ G[k] = F[k]
    BY <1>1
  <2>2. Appends(G)[k] = [y \in Text |-> y \o G[k]]
    BY <2>1 DEF Appends
  <2>3. Appends(F)[k] = [y \in Text |-> y \o F[k]]
    BY DEF Appends
  <2> QED BY <2>1, <2>2, <2>3
<1>5. Appends(G)[n + 1] = [y \in Text |-> y \o x]
  <2>1. n + 1 \in 1..Len(G)
    BY <1>1
  <2>2. Appends(G)[n + 1] = [y \in Text |-> y \o G[n + 1]]
    BY <2>1 DEF Appends
  <2> QED BY <1>1, <2>2
<1>6. h \in [0..(n + 1) -> Text] /\ FlattenSeq(G) = h[n + 1]
  BY <1>1, <1>3
<1>7. h[0] = <<>> /\ \A k \in 1..(n + 1) : h[k] = Appends(G)[k][h[k - 1]]
  BY <1>1, <1>3 DEF Iterates
<1> HIDE DEF n
<1>8. Iterates(h, <<>>, Appends(F), n)
  <2>1. \A k \in 1..n : k \in 1..(n + 1)
    BY <1>1
  <2> QED BY <1>4, <1>7, <2>1 DEF Iterates
<1>9. g[n] = h[n]
  <2>1. \A k \in 0..n : g[k] = h[k]
    BY <1>1, <1>2, <1>8, RecursionIsUnique
  <2>2. n \in 0..n
    BY <1>1
  <2> QED BY <2>1, <2>2
<1>10. h[n + 1] = Appends(G)[n + 1][h[n]] /\ h[n] \in Text
  <2>1. n + 1 \in 1..(n + 1) /\ (n + 1) - 1 = n /\ n \in 0..(n + 1)
    BY <1>1
  <2> QED BY <1>6, <1>7, <2>1
<1>11. h[n + 1] = h[n] \o x
  BY <1>5, <1>10
<1>12. g[n] \in Text
  BY <1>9, <1>10
<1> QED BY <1>2, <1>6, <1>9, <1>11, <1>12 DEF G, n

\* Texts put together make a text, whichever are put together first.
LEMMA TextsJoin ==
  ASSUME NEW a \in Text, NEW b \in Text, NEW e \in Text
  PROVE  /\ a \o b \in Text /\ (a \o b) \o e = a \o (b \o e)
<1> USE DEF Text
<1>1. (a \o b) \o e = a \o (b \o e)
  BY ConcatAssociative
<1>2. a \o b \in Text
  BY ConcatProperties
<1> QED BY <1>1, <1>2

\* The same for all texts at once.
LEMMA TextsAssociate == \A u, v, w \in Text : (u \o v) \o w = u \o (v \o w)
BY TextsJoin

\* The empty text adds nothing.
LEMMA EmptyJoins ==
  ASSUME NEW a \in Text
  PROVE  a \o <<>> = a /\ <<>> \o a = a /\ <<>> \in Text
BY ConcatEmptySeq DEF Text

\* What two texts make, to be reasoned about without its definition.
Cat(a, b) == a \o b

\* Two texts make a text,
LEMMA CatText ==
  ASSUME NEW a \in Text, NEW b \in Text
  PROVE  Cat(a, b) \in Text
BY TextsJoin DEF Cat

\* three of them in either way,
LEMMA CatAssociates ==
  ASSUME NEW a \in Text, NEW b \in Text, NEW e \in Text
  PROVE  Cat(Cat(a, b), e) = Cat(a, Cat(b, e))
BY TextsAssociate DEF Cat

\* and the empty one adds nothing.
LEMMA CatEmpty ==
  ASSUME NEW a \in Text
  PROVE  Cat(a, <<>>) = a /\ Cat(<<>>, a) = a /\ <<>> \in Text
BY EmptyJoins DEF Cat

\* To append a character is to put a text of one character behind.
LEMMA CatOne ==
  ASSUME NEW a \in Text, NEW x \in Character
  PROVE  Append(a, x) = Cat(a, <<x>>) /\ Append(a, x) \in Text /\ <<x>> \in Text
<1>1. a \in Seq(Character)
  BY DEF Text
<1>2. Append(a, x) \in Seq(Character) /\ <<x>> \in Seq(Character)
  BY <1>1, AppendProperties
<1>3. Append(a, x) = a \o <<x>>
  BY <1>1, AppendIsConcat
<1> QED BY <1>2, <1>3 DEF Cat, Text

\* One character and another one are a pair.
LEMMA PairIs ==
  ASSUME NEW x \in Character, NEW y \in Character
  PROVE  Append(<<x>>, y) = <<x, y>>
<1> DEFINE o == <<x>>
           p == <<x, y>>
           q == Append(o, y)
<1>1. o \in Seq(Character) /\ p \in Seq(Character)
  OBVIOUS
<1>2. Len(o) = 1 /\ o[1] = x /\ Len(p) = 2 /\ p[1] = x /\ p[2] = y
  OBVIOUS
<1> HIDE DEF o, p
<1>3. /\ q \in Seq(Character) /\ Len(q) = Len(o) + 1 /\ q[Len(o) + 1] = y
      /\ \A k \in 1..Len(o) : q[k] = o[k]
  BY <1>1, AppendProperties
<1> HIDE DEF q
<1>4. Len(q) = 2 /\ q[1] = x /\ q[2] = y
  BY <1>2, <1>3
<1>5. \A k \in 1..Len(q) : q[k] = p[k]
  BY <1>2, <1>4
<1>6. q = p
  BY <1>1, <1>2, <1>3, <1>4, <1>5, SeqEqual
<1> QED BY <1>6 DEF o, p, q

\* The same of two characters.
LEMMA CatTwo ==
  ASSUME NEW a \in Text, NEW x \in Character, NEW y \in Character
  PROVE  Cat(a, <<x, y>>) = Append(Append(a, x), y) /\ <<x, y>> \in Text
<1>1. <<x>> \in Text /\ <<y>> \in Text /\ Append(a, x) \in Text /\ <<>> \in Text
  BY CatOne, CatEmpty
<1>2. Append(<<x>>, y) = Cat(<<x>>, <<y>>) /\ Append(<<x>>, y) \in Text
  BY <1>1, CatOne
<1>3. Append(Append(a, x), y) = Cat(Append(a, x), <<y>>) /\ Append(a, x) = Cat(a, <<x>>)
  BY <1>1, CatOne
<1>4. Cat(Cat(a, <<x>>), <<y>>) = Cat(a, Cat(<<x>>, <<y>>))
  BY <1>1, CatAssociates
<1> QED BY <1>2, <1>3, <1>4, PairIs

-----------------------------------------------------------------------------
(* str.replace and str.join. *)

\* What becomes of one character.
Piece(x, c, t) == IF x = c THEN t ELSE <<x>>

\* One character more to be replaced.
LEMMA ReplaceStep ==
  ASSUME NEW s \in Text, NEW x \in Character, NEW c, NEW t \in Text
  PROVE  /\ Replace(s, c, t) \in Text
         /\ Replace(Append(s, x), c, t) = Replace(s, c, t) \o Piece(x, c, t)
<1> DEFINE F(u) == [k \in DOMAIN u |-> IF u[k] = c THEN t ELSE <<u[k]>>]
           p == Piece(x, c, t)
<1>1. p \in Text
  BY DEF Piece, Text
<1>2. ASSUME NEW u \in Text
      PROVE  F(u) \in Seq(Text) /\ Len(F(u)) = Len(u)
             /\ \A k \in 1..Len(u) : F(u)[k] = Piece(u[k], c, t)
  <2>1. DOMAIN u = 1..Len(u) /\ Len(u) \in Nat /\ \A k \in 1..Len(u) : u[k] \in Character
    BY DEF Text
  <2>2. \A k \in 1..Len(u) : F(u)[k] = Piece(u[k], c, t)
    BY <2>1 DEF Piece
  <2>3. \A y \in Character : Piece(y, c, t) \in Text
    BY DEF Piece, Text
  <2>4. F(u) \in [1..Len(u) -> Text]
    <3>1. F(u) = [k \in 1..Len(u) |-> F(u)[k]]
      BY <2>1
    <3>2. \A k \in 1..Len(u) : F(u)[k] \in Text
      BY <2>1, <2>2, <2>3
    <3> HIDE DEF F
    <3> QED BY <3>1, <3>2
  <2>5. F(u) \in Seq(Text) /\ Len(F(u)) = Len(u)
    <3> HIDE DEF F
    <3> QED BY <2>1, <2>4, FunctionIsSeq
  <2> QED BY <2>2, <2>5
<1>3. \A u : Replace(u, c, t) = FlattenSeq(F(u))
  BY DEF Replace
<1> HIDE DEF F
<1> DEFINE u == Append(s, x)
<1>4. /\ u \in Text /\ Len(u) = Len(s) + 1 /\ u[Len(s) + 1] = x
      /\ \A k \in 1..Len(s) : u[k] = s[k]
  BY AppendProperties DEF Text
<1> HIDE DEF u
<1>5. F(s) \in Seq(Text) /\ Len(F(s)) = Len(s) /\ \A k \in 1..Len(s) : F(s)[k] = Piece(s[k], c, t)
  BY <1>2
<1>6. F(u) \in Seq(Text) /\ Len(F(u)) = Len(u) /\ \A k \in 1..Len(u) : F(u)[k] = Piece(u[k], c, t)
  BY <1>2, <1>4
<1>7. F(u) = Append(F(s), p)
  <2> DEFINE G == Append(F(s), p)
  <2>1. /\ G \in Seq(Text) /\ Len(G) = Len(F(s)) + 1 /\ G[Len(F(s)) + 1] = p
        /\ \A k \in 1..Len(F(s)) : G[k] = F(s)[k]
    BY <1>1, <1>5, AppendProperties
  <2> HIDE DEF G
  <2>2. Len(s) \in Nat
    BY DEF Text
  <2>3. ASSUME NEW k \in 1..Len(F(u))
        PROVE  F(u)[k] = G[k]
    <3>1. CASE k \in 1..Len(s)
      BY <1>4, <1>5, <1>6, <2>1, <3>1
    <3>2. CASE k = Len(s) + 1
      <4>1. F(u)[k] = Piece(x, c, t)
        BY <1>4, <1>6, <3>2
      <4>2. G[k] = p
        BY <1>5, <2>1, <3>2
      <4> QED BY <4>1, <4>2
    <3> QED BY <1>4, <1>6, <2>2, <3>1, <3>2
  <2>4. Len(F(u)) = Len(G)
    BY <1>4, <1>5, <1>6, <2>1
  <2>5. F(u) = G
    BY <1>6, <2>1, <2>3, <2>4, SeqEqual
  <2> QED BY <2>5 DEF G
<1>8. FlattenSeq(F(s)) \in Text /\ FlattenSeq(Append(F(s), p)) = FlattenSeq(F(s)) \o p
  <2> HIDE DEF p
  <2> QED BY <1>1, <1>5, FlattenStep
<1> QED BY <1>3, <1>7, <1>8 DEF u

\* Nothing to replace, a single character, and one more behind two texts.
LEMMA ReplaceOfNone ==
  ASSUME NEW c, NEW t
  PROVE  Replace(<<>>, c, t) = <<>>
<1>1. [k \in DOMAIN <<>> |-> IF <<>>[k] = c THEN t ELSE <<<<>>[k]>>] = <<>>
  OBVIOUS
<1> QED BY <1>1, FlattenOfNone DEF Replace

\* A single character becomes its piece.
LEMMA ReplaceOfOne ==
  ASSUME NEW x \in Character, NEW c, NEW t \in Text
  PROVE  Replace(<<x>>, c, t) = Piece(x, c, t) /\ Piece(x, c, t) \in Text
<1>0. ASSUME NEW e \in Text
      PROVE  Replace(Append(e, x), c, t) = Replace(e, c, t) \o Piece(x, c, t)
  BY ReplaceStep
<1>1. <<>> \in Text /\ Append(<<>>, x) = <<x>> /\ Piece(x, c, t) \in Text
  BY DEF Text, Piece
<1>2. Replace(Append(<<>>, x), c, t) = Replace(<<>>, c, t) \o Piece(x, c, t)
  BY <1>0, <1>1
<1>3. <<>> \o Piece(x, c, t) = Piece(x, c, t)
  BY <1>1, ConcatEmptySeq DEF Text
<1> QED BY <1>1, <1>2, <1>3, ReplaceOfNone

\* If replacing goes through two texts piece by piece, it does with one character more.
LEMMA ReplaceGoesOn ==
  ASSUME NEW a \in Text, NEW s \in Text, NEW x \in Character, NEW c, NEW t \in Text,
         Replace(a \o s, c, t) = Replace(a, c, t) \o Replace(s, c, t)
  PROVE  Replace(a \o Append(s, x), c, t) = Replace(a, c, t) \o Replace(Append(s, x), c, t)
<1> DEFINE p == Piece(x, c, t)
           ra == Replace(a, c, t)
           rs == Replace(s, c, t)
<1>1. p \in Text
  BY ReplaceOfOne
<1>2. a \o s \in Text
  BY TextsJoin
<1>3. a \o Append(s, x) = Append(a \o s, x)
  <2>1. Append(s, x) = s \o <<x>> /\ Append(a \o s, x) = (a \o s) \o <<x>>
    BY <1>2, AppendIsConcat DEF Text
  <2>2. <<x>> \in Text
    BY DEF Text
  <2> QED BY <2>1, <2>2, TextsAssociate
<1>4. Replace(Append(s, x), c, t) = rs \o p
  BY ReplaceStep
<1>5. Replace(Append(a \o s, x), c, t) = Replace(a \o s, c, t) \o p
  BY <1>2, ReplaceStep
<1>7. ra \in Text /\ rs \in Text
  BY ReplaceStep
<1> HIDE DEF p
<1>8. (ra \o rs) \o p = ra \o (rs \o p)
  <2> HIDE DEF ra, rs
  <2> QED BY <1>1, <1>7, TextsAssociate
<1> QED BY <1>3, <1>4, <1>5, <1>8

\* Two texts can be gone through one after the other.
LEMMA ReplaceOfTwo ==
  ASSUME NEW a \in Text, NEW b \in Text, NEW c, NEW t \in Text
  PROVE  Replace(a \o b, c, t) = Replace(a, c, t) \o Replace(b, c, t)
<1> DEFINE P == {s \in Text : Replace(a \o s, c, t) = Replace(a, c, t) \o Replace(s, c, t)}
<1>1. \A s \in Text : Replace(s, c, t) \in Text
  <2> SUFFICES ASSUME NEW s \in Text PROVE Replace(s, c, t) \in Text
    OBVIOUS
  <2>1. Tab \in Character
    BY PipelineAssumption DEF Tab
  <2> QED BY <2>1, ReplaceStep
<1>2. <<>> \in P
  <2>1. a \o <<>> = a /\ <<>> \in Text
    BY ConcatEmptySeq DEF Text
  <2>2. Replace(a, c, t) \o <<>> = Replace(a, c, t)
    BY <1>1, ConcatEmptySeq DEF Text
  <2> QED BY <2>1, <2>2, ReplaceOfNone
<1>3. ASSUME NEW s \in Text, NEW x \in Character, s \in P
      PROVE  Append(s, x) \in P
  <2>1. Append(s, x) \in Text
    BY AppendProperties DEF Text
  <2> QED BY <1>3, <2>1, ReplaceGoesOn
<1> HIDE DEF P
<1>4. \A s \in Text : s \in P
  BY <1>2, <1>3, EveryText DEF Text
<1>5. b \in P
  BY <1>4
<1> QED BY <1>5 DEF P

\* Replacing in two texts put together is replacing in each.
LEMMA ReplaceCat ==
  ASSUME NEW a \in Text, NEW b \in Text, NEW c, NEW t \in Text
  PROVE  Replace(Cat(a, b), c, t) = Cat(Replace(a, c, t), Replace(b, c, t))
BY ReplaceOfTwo DEF Cat

\* The characters that COPY treats specially are told apart.
LEMMA SpecialCharacters ==
  /\ Tab \in Character /\ Backslash \in Character /\ NewLine \in Character
  /\ "t" \in Character /\ "n" \in Character
  /\ Tab # Backslash /\ NewLine # Backslash /\ Tab # NewLine
  /\ "t" # Backslash /\ "t" # Tab /\ "t" # NewLine
  /\ "n" # Backslash /\ "n" # Tab /\ "n" # NewLine
BY PipelineAssumption DEF Tab, Backslash, NewLine

\* Replacing makes a text.
LEMMA ReplaceText ==
  ASSUME NEW s \in Text, NEW c, NEW t \in Text
  PROVE  Replace(s, c, t) \in Text
BY SpecialCharacters, ReplaceStep

\* What is not replaced stays.
LEMMA ReplaceKeepsPair ==
  ASSUME NEW x \in Character, NEW y \in Character, NEW c, NEW t \in Text, x # c, y # c
  PROVE  Replace(<<x, y>>, c, t) = <<x, y>>
<1>1. Piece(x, c, t) = <<x>> /\ Piece(y, c, t) = <<y>>
  BY DEF Piece
<1>2. <<>> \in Text
  BY DEF Text
<1>3. <<x>> \in Text /\ <<y>> \in Text
  BY <1>2, CatOne
<1>4. Cat(<<x>>, <<y>>) = <<x, y>>
  BY <1>3, CatOne, PairIs
<1>5. Replace(<<x>>, c, t) = <<x>> /\ Replace(<<y>>, c, t) = <<y>>
  BY <1>1, ReplaceOfOne
<1>6. Replace(Cat(<<x>>, <<y>>), c, t) = Cat(Replace(<<x>>, c, t), Replace(<<y>>, c, t))
  BY <1>3, ReplaceCat
<1> QED BY <1>4, <1>5, <1>6

\* What Join puts behind the first text.
Rest(sep, ts) == [k \in 1..(Len(ts) - 1) |-> Cat(<<sep>>, ts[k + 1])]

\* str.join is the first text and each further one behind a separator.
LEMMA JoinIs ==
  ASSUME NEW sep, NEW ts
  PROVE  Join(sep, ts) = Cat(ts[1], FlattenSeq(Rest(sep, ts)))
BY DEF Join, Rest, Cat

\* The further ones, separators included.
LEMMA RestTyped ==
  ASSUME NEW sep \in Character, NEW ts \in Seq(Text), ts # <<>>
  PROVE  /\ Rest(sep, ts) \in Seq(Text) /\ Len(Rest(sep, ts)) = Len(ts) - 1
         /\ \A k \in 1..(Len(ts) - 1) : Rest(sep, ts)[k] = Cat(<<sep>>, ts[k + 1])
         /\ ts[1] \in Text
<1> DEFINE n == Len(ts) - 1
           R == Rest(sep, ts)
<1>1. n \in Nat /\ \A k \in 1..(n + 1) : ts[k] \in Text
  BY EmptySeq
<1>2. 1 \in 1..(n + 1)
  BY <1>1
<1>3. ASSUME NEW k \in 1..n
      PROVE  Cat(<<sep>>, ts[k + 1]) \in Text
  <2>1. k + 1 \in 1..(n + 1)
    BY <1>1
  <2>2. ts[k + 1] \in Text
    BY <1>1, <2>1
  <2>3. <<sep>> \in Text
    BY DEF Text
  <2> QED BY <2>2, <2>3, CatText
<1>4. R = [k \in 1..n |-> Cat(<<sep>>, ts[k + 1])]
  BY DEF Rest
<1> HIDE DEF n, R
<1>5. R \in [1..n -> Text]
  BY <1>3, <1>4
<1>6. R \in Seq(Text) /\ Len(R) = n
  BY <1>1, <1>5, FunctionIsSeq
<1>7. \A k \in 1..n : R[k] = Cat(<<sep>>, ts[k + 1])
  BY <1>4
<1>8. ts[1] \in Text
  BY <1>1, <1>2
<1> QED BY <1>6, <1>7, <1>8 DEF n, R

\* One text more to be joined.
LEMMA JoinStep ==
  ASSUME NEW sep \in Character, NEW ts \in Seq(Text), ts # <<>>, NEW x \in Text
  PROVE  /\ Join(sep, ts) \in Text
         /\ Join(sep, Append(ts, x)) = Cat(Join(sep, ts), Cat(<<sep>>, x))
<1> DEFINE us == Append(ts, x)
           n == Len(ts)
           F == Rest(sep, ts)
           G == Rest(sep, us)
           p == Cat(<<sep>>, x)
<1>1. /\ us \in Seq(Text) /\ Len(us) = n + 1 /\ us[n + 1] = x /\ us # <<>>
      /\ \A k \in 1..n : us[k] = ts[k]
  BY AppendProperties
<1>2. n \in Nat /\ n # 0
  BY EmptySeq
<1> HIDE DEF us
<1>3. /\ F \in Seq(Text) /\ Len(F) = n - 1 /\ ts[1] \in Text
      /\ \A k \in 1..(n - 1) : F[k] = Cat(<<sep>>, ts[k + 1])
  BY RestTyped
<1>4. /\ G \in Seq(Text) /\ Len(G) = n /\ \A k \in 1..n : G[k] = Cat(<<sep>>, us[k + 1])
  <2>1. /\ G \in Seq(Text) /\ Len(G) = Len(us) - 1
        /\ \A k \in 1..(Len(us) - 1) : G[k] = Cat(<<sep>>, us[k + 1])
    BY <1>1, RestTyped
  <2>2. Len(us) - 1 = n
    BY <1>1, <1>2
  <2> QED BY <2>1, <2>2
<1>5. p \in Text /\ <<sep>> \in Text
  <2>1. <<sep>> \in Text
    BY DEF Text
  <2> QED BY <2>1, CatText
<1> HIDE DEF n, F, G
<1>6. G = Append(F, p)
  <2> DEFINE H == Append(F, p)
  <2>1. /\ H \in Seq(Text) /\ Len(H) = Len(F) + 1 /\ H[Len(F) + 1] = p
        /\ \A k \in 1..Len(F) : H[k] = F[k]
    BY <1>3, <1>5, AppendProperties
  <2> HIDE DEF H
  <2>2. Len(H) = n /\ H[n] = p /\ \A k \in 1..(n - 1) : H[k] = F[k]
    BY <1>2, <1>3, <2>1
  <2>3. ASSUME NEW k \in 1..n
        PROVE  G[k] = H[k]
    <3>1. G[k] = Cat(<<sep>>, us[k + 1])
      BY <1>4
    <3>2. CASE k = n
      BY <1>1, <2>2, <3>1, <3>2
    <3>3. CASE k # n
      <4>1. k \in 1..(n - 1) /\ k + 1 \in 1..n
        BY <1>2, <3>3
      <4>2. us[k + 1] = ts[k + 1]
        BY <1>1, <4>1
      <4>3. H[k] = Cat(<<sep>>, ts[k + 1])
        BY <1>3, <2>2, <4>1
      <4> QED BY <3>1, <4>2, <4>3
    <3> QED BY <3>2, <3>3
  <2>4. G = H
    BY <1>4, <2>1, <2>2, <2>3, SeqEqual
  <2> QED BY <2>4 DEF H
<1> HIDE DEF p
<1>7. FlattenSeq(F) \in Text /\ FlattenSeq(G) = Cat(FlattenSeq(F), p)
  BY <1>3, <1>5, <1>6, FlattenStep DEF Cat
<1>8. us[1] = ts[1]
  <2>1. 1 \in 1..n
    BY <1>2
  <2> QED BY <1>1, <2>1
<1>9. Join(sep, ts) = Cat(ts[1], FlattenSeq(F)) /\ Join(sep, us) = Cat(ts[1], FlattenSeq(G))
  BY <1>8, JoinIs DEF F, G
<1>10. Cat(Cat(ts[1], FlattenSeq(F)), p) = Cat(ts[1], Cat(FlattenSeq(F), p))
  BY <1>3, <1>5, <1>7, CatAssociates
<1>11. Join(sep, ts) \in Text
  BY <1>3, <1>7, <1>9, CatText
<1> QED BY <1>7, <1>9, <1>10, <1>11 DEF us, p

\* A single text is joined with nothing.
LEMMA JoinOfOne ==
  ASSUME NEW sep, NEW x \in Text
  PROVE  Join(sep, <<x>>) = x
<1>1. Rest(sep, <<x>>) = <<>>
  <2>1. 1..(Len(<<x>>) - 1) = {}
    OBVIOUS
  <2> QED BY <2>1 DEF Rest
<1>2. Join(sep, <<x>>) = Cat(x, <<>>)
  BY <1>1, JoinIs, FlattenOfNone
<1> QED BY <1>2, CatEmpty

\* Joining makes a text.
LEMMA JoinText ==
  ASSUME NEW sep \in Character, NEW ts \in Seq(Text), ts # <<>>
  PROVE  Join(sep, ts) \in Text
<1>1. <<>> \in Text
  BY CatEmpty
<1> QED BY <1>1, JoinStep
=============================================================================
