-------------------------- MODULE ShareCode_proofs --------------------------
(***************************************************************************)
(* Proofs about ShareCode, for a dictionary, a length and fields of any    *)
(* size: what the loops of the decoder and of the encoder compute.         *)
(***************************************************************************)
EXTENDS ShareCode, SequenceTheorems, FiniteSetTheorems, WellFoundedInduction,
        TLAPS

(* Induction over a set of numbers, and functions defined by recursion.    *)

LEMMA Smallest ==
  ASSUME NEW S \in SUBSET Nat, S # {}
  PROVE  \E n \in S : \A m \in S : n <= m
<1> DEFINE Segments == {0..n : n \in S}
<1>1. Segments \subseteq FiniteSubsetsOf(Nat) /\ Segments # {}
  <2>1. ASSUME NEW n \in S PROVE IsFiniteSet(0..n) /\ 0..n \in SUBSET Nat
    BY FS_Interval
  <2> QED
    BY <2>1 DEF FiniteSubsetsOf
<1>2. IsWellFoundedOn(StrictSubsetOrdering(Nat), FiniteSubsetsOf(Nat))
  BY FS_StrictSubsetOrderingWellFounded
<1>3. PICK X \in Segments :
        \A Y \in Segments : ~(<<Y, X>> \in StrictSubsetOrdering(Nat))
  <2> HIDE DEF Segments
  <2> QED
    BY <1>1, <1>2, WFMin
<1>4. PICK n \in S : X = 0..n
  OBVIOUS
<1>5. ASSUME NEW m \in S, m < n PROVE FALSE
  <2>1. 0..m \subseteq 0..n /\ 0..m # 0..n /\ 0..n \subseteq Nat
    BY <1>5
  <2>2. <<0..m, 0..n>> \in StrictSubsetOrdering(Nat)
    BY <2>1 DEF StrictSubsetOrdering
  <2> QED
    BY <1>3, <1>4, <2>2
<1> QED
  BY <1>5

LEMMA Induction ==
  ASSUME NEW n \in Nat, NEW S, 0 \in S,
         \A i \in 1..n : i - 1 \in S => i \in S
  PROVE  0..n \subseteq S
<1> DEFINE Missing == {i \in 0..n : i \notin S}
<1>1. SUFFICES ASSUME Missing # {} PROVE FALSE
  OBVIOUS
<1>2. Missing \in SUBSET Nat
  OBVIOUS
<1>3. PICK i \in Missing : \A j \in Missing : i <= j
  BY <1>1, <1>2, Smallest
<1>4. i \in 1..n /\ i - 1 \in 0..n /\ i - 1 \notin Missing
  BY <1>3
<1> QED
  BY <1>3, <1>4

\* A function over 0..n that is given by its first value and, step by step,
\* by the value before.
Unrolls(f, n, S, first, next) ==
  /\ f \in [0..n -> S]
  /\ f[0] = first
  /\ \A i \in 1..n : f[i] = next[i][f[i - 1]]

LEMMA RecursiveFunction ==
  ASSUME NEW n \in Nat, NEW S, NEW first \in S, NEW next \in [1..n -> [S -> S]]
  PROVE  \E f : Unrolls(f, n, S, first, next)
<1> DEFINE Upto(k, f) == f[0] = first /\ \A i \in 1..k : f[i] = next[i][f[i - 1]]
           Reached == {k \in 0..n : \E f \in [0..n -> S] : Upto(k, f)}
<1>1. 0 \in Reached
  <2> DEFINE f == [i \in 0..n |-> first]
  <2>1. f \in [0..n -> S] /\ Upto(0, f)
    OBVIOUS
  <2> HIDE DEF Upto, f
  <2> QED
    BY <2>1
<1>2. ASSUME NEW k \in 1..n, k - 1 \in Reached PROVE k \in Reached
  <2>1. PICK f \in [0..n -> S] : Upto(k - 1, f)
    BY <1>2
  <2> DEFINE v == next[k][f[k - 1]]
             g == [f EXCEPT ![k] = v]
  <2>2. k - 1 \in 0..n /\ v \in S
    OBVIOUS
  <2>3. /\ g \in [0..n -> S] /\ g[0] = f[0] /\ g[k] = v
        /\ \A i \in 0..n : i # k => g[i] = f[i]
    BY <2>2
  <2>4. ASSUME NEW i \in 1..k PROVE g[i] = next[i][g[i - 1]]
    <3>1. g[i - 1] = f[i - 1]
      BY <2>3
    <3>2. CASE i = k
      BY <3>1, <3>2, <2>3
    <3>3. CASE i # k
      <4>1. i \in 1..(k - 1) /\ i \in 0..n
        BY <3>3
      <4> QED
        BY <4>1, <3>1, <3>3, <2>1, <2>3
    <3> QED
      BY <3>2, <3>3
  <2>5. Upto(k, g)
    BY <2>1, <2>3, <2>4
  <2> HIDE DEF Upto, g
  <2> QED
    BY <2>3, <2>5
<1>3. n \in Reached
  <2> HIDE DEF Reached
  <2>1. 0..n \subseteq Reached
    BY <1>1, <1>2, Induction
  <2> QED
    BY <2>1
<1> QED
  BY <1>3 DEF Unrolls

(* Peeling a digit off and putting it back.                                *)

LEMMA Division ==
  ASSUME NEW a \in Nat, NEW b \in Nat \ {0}
  PROVE  a \div b \in Nat /\ a % b \in 0..(b - 1) /\ a = (a \div b) * b + (a % b)
OBVIOUS

LEMMA QuotientType ==
  ASSUME NEW a \in Nat, NEW b \in Nat \ {0}
  PROVE  a \div b \in Nat
BY Division

LEMMA DigitPeeled ==
  ASSUME NEW a \in Nat, NEW b \in Nat \ {0}, NEW d \in 0..(b - 1)
  PROVE  (a * b + d) \div b = a /\ (a * b + d) % b = d
OBVIOUS

LEMMA DivisionMonotonic ==
  ASSUME NEW x \in Nat, NEW y \in Nat, x <= y, NEW b \in Nat \ {0}
  PROVE  x \div b <= y \div b
OBVIOUS

LEMMA HornerMonotonic ==
  ASSUME NEW x \in Nat, NEW y \in Nat, x <= y, NEW b \in Nat,
         NEW d \in Nat, NEW e \in Nat, d <= e
  PROVE  x * b + d \in Nat /\ x * b + d <= y * b + e
OBVIOUS

(* What the loops compute.                                                 *)

LEMMA SequenceLength ==
  ASSUME NEW n \in Nat, NEW S, NEW s \in [1..n -> S]
  PROVE  s \in Seq(S) /\ Len(s) = n
<1>1. s \in Seq(S)
  BY SeqDef
<1>2. 1..Len(s) = 1..n /\ Len(s) \in Nat
  BY <1>1, LenProperties
<1> QED
  BY <1>1, <1>2

\* The accumulator of the decoder, digit by digit.
Accumulates(acc, base, n, digits) ==
  /\ acc \in [0..n -> Nat] /\ acc[0] = 0
  /\ \A i \in 1..n : acc[i] = acc[i - 1] * base + digits[i]

LEMMA ValueSteps ==
  ASSUME NEW base \in Nat, NEW n \in Nat, NEW digits \in [1..n -> Nat]
  PROVE  \E acc : Accumulates(acc, base, n, digits) /\ acc[n] = Value(base, digits)
<1> DEFINE step == [i \in 1..n |-> [x \in Nat |-> x * base + digits[i]]]
           Of(f)  == [i \in 0..n |-> IF i = 0 THEN 0 ELSE f[i - 1] * base + digits[i]]
           acc    == CHOOSE f : f = Of(f)
<1>1. step \in [1..n -> [Nat -> Nat]]
  OBVIOUS
<1>2. PICK f : Unrolls(f, n, Nat, 0, step)
  <2>1. 0 \in Nat
    OBVIOUS
  <2> HIDE DEF step
  <2> QED
    BY <1>1, <2>1, RecursiveFunction
<1>3. ASSUME NEW i \in 1..n PROVE f[i] = f[i - 1] * base + digits[i]
  <2>1. i - 1 \in 0..n
    OBVIOUS
  <2> QED
    BY <1>2, <2>1 DEF Unrolls
<1>4. f = Of(f)
  BY <1>2, <1>3 DEF Unrolls
<1>5. acc = Of(acc)
  <2> HIDE DEF Of
  <2> QED
    BY <1>4
<1>6. Value(base, digits) = acc[n]
  BY SequenceLength DEF Value
<1> HIDE DEF acc
<1>7. DOMAIN acc = 0..n /\ acc[0] = 0
      /\ \A i \in 1..n : acc[i] = acc[i - 1] * base + digits[i]
  BY <1>5
<1> DEFINE Good == {i \in 0..n : acc[i] \in Nat}
<1>8. 0..n \subseteq Good
  <2>1. 0 \in Good
    BY <1>7
  <2>2. ASSUME NEW i \in 1..n, i - 1 \in Good PROVE i \in Good
    <3>1. acc[i - 1] * base \in Nat /\ digits[i] \in Nat /\ i \in 0..n
      BY <2>2
    <3> QED
      BY <3>1, <1>7
  <2> HIDE DEF Good
  <2> QED
    BY <2>1, <2>2, Induction
<1>9. acc \in [0..n -> Nat]
  BY <1>5, <1>8
<1> QED
  BY <1>6, <1>7, <1>9 DEF Accumulates

\* What the encoder has left, and what is left of a number's bytes.
Peels(left, number, base, n) ==
  /\ left \in [0..n -> Nat] /\ left[0] = number
  /\ \A i \in 1..n : left[i] = left[i - 1] \div base

LEMMA QuotientSteps ==
  ASSUME NEW number \in Nat, NEW base \in Nat \ {0}, NEW n \in Nat
  PROVE  Peels(Quotients(number, base, n), number, base, n)
<1> DEFINE step == [i \in 1..n |-> [x \in Nat |-> x \div base]]
           Of(f)  == [i \in 0..n |-> IF i = 0 THEN number ELSE f[i - 1] \div base]
           left   == CHOOSE f : f = Of(f)
<1>1. step \in [1..n -> [Nat -> Nat]]
  BY Division
<1>2. PICK f : Unrolls(f, n, Nat, number, step)
  <2> HIDE DEF step
  <2> QED
    BY <1>1, RecursiveFunction
<1>3. ASSUME NEW i \in 1..n PROVE f[i] = f[i - 1] \div base
  <2>1. i - 1 \in 0..n
    OBVIOUS
  <2> QED
    BY <1>2, <2>1 DEF Unrolls
<1>4. f = Of(f)
  BY <1>2, <1>3 DEF Unrolls
<1>5. left = Of(left)
  <2> HIDE DEF Of
  <2> QED
    BY <1>4
<1>6. Quotients(number, base, n) = left
  BY DEF Quotients
<1> HIDE DEF left
<1>7. DOMAIN left = 0..n /\ left[0] = number
      /\ \A i \in 1..n : left[i] = left[i - 1] \div base
  BY <1>5
<1> DEFINE Good == {i \in 0..n : left[i] \in Nat}
<1>8. 0..n \subseteq Good
  <2>1. 0 \in Good
    BY <1>7
  <2>2. ASSUME NEW i \in 1..n, i - 1 \in Good PROVE i \in Good
    <3>1. left[i - 1] \in Nat /\ left[i] = left[i - 1] \div base /\ i \in 0..n
      BY <2>2, <1>7
    <3> QED
      BY <3>1, QuotientType
  <2> HIDE DEF Good
  <2> QED
    BY <2>1, <2>2, Induction
<1>9. left \in [0..n -> Nat]
  BY <1>5, <1>8
<1> QED
  BY <1>6, <1>7, <1>9 DEF Peels

LEMMA ValueType ==
  ASSUME NEW base \in Nat, NEW n \in Nat, NEW digits \in [1..n -> Nat]
  PROVE  Value(base, digits) \in Nat
<1>1. PICK acc : Accumulates(acc, base, n, digits) /\ acc[n] = Value(base, digits)
  BY ValueSteps
<1> QED
  BY <1>1 DEF Accumulates

LEMMA DigitsType ==
  ASSUME NEW number \in Nat, NEW base \in Nat \ {0}, NEW n \in Nat
  PROVE  /\ Digits(number, base, n) \in [1..n -> 0..(base - 1)]
         /\ \A i \in 1..n : Digits(number, base, n)[i] =
                                Quotients(number, base, n)[i - 1] % base
<1> DEFINE left == Quotients(number, base, n)
<1>1. \A i \in 1..n : left[i - 1] \in Nat
  BY QuotientSteps DEF Peels
<1> HIDE DEF left
<1>2. \A i \in 1..n : left[i - 1] % base \in 0..(base - 1)
  BY <1>1, Division
<1>3. Digits(number, base, n) = [i \in 1..n |-> left[i - 1] % base]
  BY DEF Digits, left
<1> QED
  BY <1>2, <1>3 DEF left

\* One sequence is the other in reverse.
Reverses(r, s, n) == DOMAIN r = 1..n /\ \A i \in 1..n : r[i] = s[n + 1 - i]

LEMMA BackwardsType ==
  ASSUME NEW n \in Nat, NEW S, NEW s \in [1..n -> S]
  PROVE  Backwards(s) \in [1..n -> S] /\ Reverses(Backwards(s), s, n)
<1>1. Len(s) = n
  BY SequenceLength
<1>2. \A i \in 1..n : n + 1 - i \in 1..n
  OBVIOUS
<1> QED
  BY <1>1, <1>2 DEF Backwards, Reverses

LEMMA BackwardsTwice ==
  ASSUME NEW n \in Nat, NEW S, NEW s \in [1..n -> S]
  PROVE  Backwards(Backwards(s)) = s
<1> DEFINE b == Backwards(s)
           c == Backwards(b)
<1>1. b \in [1..n -> S] /\ Reverses(b, s, n)
  BY BackwardsType
<1>2. c \in [1..n -> S] /\ Reverses(c, b, n)
  <2> HIDE DEF b
  <2> QED
    BY <1>1, BackwardsType
<1> HIDE DEF b, c
<1>3. \A i \in 1..n : n + 1 - i \in 1..n /\ n + 1 - (n + 1 - i) = i
  OBVIOUS
<1>4. \A i \in 1..n : c[i] = s[i]
  BY <1>1, <1>2, <1>3 DEF Reverses
<1>5. c = s
  BY <1>2, <1>4
<1> QED
  BY <1>5 DEF b, c

(* The two loops undo each other.                                          *)

\* The digits of the number that digits make are those digits, and nothing is
\* left after them.
LEMMA DigitsOfValue ==
  ASSUME NEW base \in Nat \ {0}, NEW n \in Nat, NEW digits \in [1..n -> 0..(base - 1)]
  PROVE  /\ Digits(Value(base, digits), base, n) = Backwards(digits)
         /\ Quotients(Value(base, digits), base, n)[n] = 0
<1>1. digits \in [1..n -> Nat]
  OBVIOUS
<1>2. PICK acc : Accumulates(acc, base, n, digits) /\ acc[n] = Value(base, digits)
  BY <1>1, ValueSteps
<1> DEFINE number == Value(base, digits)
           left   == Quotients(number, base, n)
           D      == Digits(number, base, n)
<1>3. number \in Nat /\ number = acc[n]
  BY <1>1, <1>2, ValueType
<1> HIDE DEF number
<1>4. Peels(left, number, base, n)
  BY <1>3, QuotientSteps
<1>5. /\ D \in [1..n -> 0..(base - 1)]
      /\ \A i \in 1..n : D[i] = left[i - 1] % base
  BY <1>3, DigitsType
<1> HIDE DEF left, D
<1>6. ASSUME NEW i \in 1..n
      PROVE  acc[n + 1 - i] \div base = acc[n - i] /\ acc[n + 1 - i] % base = digits[n + 1 - i]
  <2>1. n + 1 - i \in 1..n /\ (n + 1 - i) - 1 = n - i /\ n - i \in 0..n
    OBVIOUS
  <2>2. acc[n + 1 - i] = acc[n - i] * base + digits[n + 1 - i]
    BY <1>2, <2>1 DEF Accumulates
  <2>3. acc[n - i] \in Nat /\ digits[n + 1 - i] \in 0..(base - 1)
    BY <1>2, <2>1 DEF Accumulates
  <2> DEFINE a == acc[n - i]
             d == digits[n + 1 - i]
  <2>4. (a * base + d) \div base = a /\ (a * base + d) % base = d
    <3> HIDE DEF a, d
    <3> QED
      BY <2>3, DigitPeeled DEF a, d
  <2> QED
    BY <2>2, <2>4
<1> DEFINE Same == {i \in 0..n : left[i] = acc[n - i]}
<1>7. 0..n \subseteq Same
  <2>1. 0 \in Same
    BY <1>3, <1>4 DEF Peels
  <2>2. ASSUME NEW i \in 1..n, i - 1 \in Same PROVE i \in Same
    <3>1. left[i - 1] = acc[n - (i - 1)] /\ n - (i - 1) = n + 1 - i
      BY <2>2
    <3>2. left[i] = acc[n - i]
      BY <3>1, <1>4, <1>6 DEF Peels
    <3> QED
      BY <3>2
  <2> HIDE DEF Same
  <2> QED
    BY <2>1, <2>2, Induction
<1>8. left[n] = 0
  <2>1. n \in 0..n /\ n - n = 0
    OBVIOUS
  <2> QED
    BY <2>1, <1>2, <1>7 DEF Accumulates
<1>9. ASSUME NEW i \in 1..n PROVE D[i] = digits[n + 1 - i]
  <2>1. i - 1 \in 0..n /\ n - (i - 1) = n + 1 - i
    OBVIOUS
  <2>2. left[i - 1] = acc[n + 1 - i]
    BY <2>1, <1>7
  <2> QED
    BY <2>2, <1>5, <1>6
<1>10. D = Backwards(digits)
  <2>1. Backwards(digits) \in [1..n -> 0..(base - 1)] /\ Reverses(Backwards(digits), digits, n)
    BY BackwardsType
  <2> QED
    BY <2>1, <1>5, <1>9 DEF Reverses
<1> QED
  BY <1>8, <1>10 DEF D, left, number

\* A number of which nothing is left after n digits is what these digits make.
LEMMA ValueOfDigits ==
  ASSUME NEW base \in Nat \ {0}, NEW n \in Nat, NEW number \in Nat,
         Quotients(number, base, n)[n] = 0
  PROVE  Value(base, Backwards(Digits(number, base, n))) = number
<1> DEFINE left   == Quotients(number, base, n)
           D      == Digits(number, base, n)
           digits == Backwards(D)
<1>1. Peels(left, number, base, n)
  BY QuotientSteps
<1>2. /\ D \in [1..n -> 0..(base - 1)]
      /\ \A i \in 1..n : D[i] = left[i - 1] % base
  BY DigitsType
<1>3. left[n] = 0
  OBVIOUS
<1> HIDE DEF left, D
<1>4. digits \in [1..n -> 0..(base - 1)] /\ Reverses(digits, D, n)
  BY <1>2, BackwardsType
<1> HIDE DEF digits
<1>5. PICK acc : Accumulates(acc, base, n, digits) /\ acc[n] = Value(base, digits)
  <2>1. digits \in [1..n -> Nat]
    BY <1>4
  <2> QED
    BY <2>1, ValueSteps
<1> DEFINE Same == {i \in 0..n : acc[i] = left[n - i]}
<1>6. 0..n \subseteq Same
  <2>1. 0 \in Same
    BY <1>3, <1>5 DEF Accumulates
  <2>2. ASSUME NEW i \in 1..n, i - 1 \in Same PROVE i \in Same
    <3>1. /\ n + 1 - i \in 1..n /\ n - (i - 1) = n + 1 - i
          /\ (n + 1 - i) - 1 = n - i /\ n - i \in 0..n
      OBVIOUS
    <3>2. acc[i - 1] = left[n - i] \div base
      BY <2>2, <3>1, <1>1 DEF Peels
    <3>3. digits[i] = left[n - i] % base
      BY <3>1, <1>2, <1>4 DEF Reverses
    <3>4. left[n - i] \in Nat
      BY <3>1, <1>1 DEF Peels
    <3>5. acc[i] = acc[i - 1] * base + digits[i]
      BY <1>5 DEF Accumulates
    <3>6. acc[i] = left[n - i]
      BY <3>2, <3>3, <3>4, <3>5, Division
    <3> QED
      BY <3>6
  <2> HIDE DEF Same
  <2> QED
    BY <2>1, <2>2, Induction
<1>7. acc[n] = number
  <2>1. n \in 0..n /\ n - n = 0
    OBVIOUS
  <2> QED
    BY <2>1, <1>1, <1>6 DEF Peels
<1> QED
  BY <1>5, <1>7 DEF digits, D

(* What has room.                                                          *)

LEMMA ValueMonotonic ==
  ASSUME NEW base \in Nat, NEW n \in Nat,
         NEW s \in [1..n -> Nat], NEW t \in [1..n -> Nat], \A i \in 1..n : s[i] <= t[i]
  PROVE  Value(base, s) <= Value(base, t)
<1>1. PICK f : Accumulates(f, base, n, s) /\ f[n] = Value(base, s)
  BY ValueSteps
<1>2. PICK g : Accumulates(g, base, n, t) /\ g[n] = Value(base, t)
  BY ValueSteps
<1> DEFINE Below == {i \in 0..n : f[i] <= g[i]}
<1>3. 0..n \subseteq Below
  <2>1. 0 \in Below
    BY <1>1, <1>2 DEF Accumulates
  <2>2. ASSUME NEW i \in 1..n, i - 1 \in Below PROVE i \in Below
    <3>1. /\ f[i - 1] \in Nat /\ g[i - 1] \in Nat /\ f[i - 1] <= g[i - 1]
          /\ s[i] \in Nat /\ t[i] \in Nat /\ s[i] <= t[i]
      BY <2>2, <1>1, <1>2 DEF Accumulates
    <3>2. f[i - 1] * base + s[i] <= g[i - 1] * base + t[i]
      BY <3>1, HornerMonotonic
    <3> QED
      BY <3>2, <1>1, <1>2 DEF Accumulates
  <2> HIDE DEF Below
  <2> QED
    BY <2>1, <2>2, Induction
<1>4. f[n] <= g[n]
  BY <1>3
<1> QED
  BY <1>1, <1>2, <1>4

LEMMA QuotientsMonotonic ==
  ASSUME NEW base \in Nat \ {0}, NEW n \in Nat, NEW x \in Nat, NEW y \in Nat, x <= y,
         Quotients(y, base, n)[n] = 0
  PROVE  Quotients(x, base, n)[n] = 0
<1> DEFINE f == Quotients(x, base, n)
           g == Quotients(y, base, n)
<1>1. Peels(f, x, base, n)
  BY QuotientSteps
<1>2. Peels(g, y, base, n)
  BY QuotientSteps
<1> HIDE DEF f, g
<1> DEFINE Below == {i \in 0..n : f[i] <= g[i]}
<1>3. 0..n \subseteq Below
  <2>1. 0 \in Below
    BY <1>1, <1>2 DEF Peels
  <2>2. ASSUME NEW i \in 1..n, i - 1 \in Below PROVE i \in Below
    <3>1. f[i - 1] \in Nat /\ g[i - 1] \in Nat /\ f[i - 1] <= g[i - 1]
      BY <2>2, <1>1, <1>2 DEF Peels
    <3>2. f[i - 1] \div base <= g[i - 1] \div base
      BY <3>1, DivisionMonotonic
    <3> QED
      BY <3>2, <1>1, <1>2 DEF Peels
  <2> HIDE DEF Below
  <2> QED
    BY <2>1, <2>2, Induction
<1>4. f[n] <= g[n] /\ f[n] \in Nat
  BY <1>1, <1>3 DEF Peels
<1> QED
  BY <1>4 DEF f, g

(* Bytes and fields.                                                       *)

LEMMA Sizes ==
  /\ Base \in Nat \ {0} /\ Byte \in Nat \ {0, 1} /\ Length \in Nat \ {0} /\ Chars \in Nat
  /\ MatchBytes \in Nat \ {0} /\ ReservationBytes \in Nat \ {0} /\ PortBytes \in Nat \ {0}
  /\ Bytes \in Nat
BY ShareCodeAssumption DEF Bytes

LEMMA FieldOfBytes ==
  ASSUME NEW n \in Nat, NEW bytes \in [1..n -> 0..(Byte - 1)]
  PROVE  /\ LittleEndian(bytes) \in Nat
         /\ Quotients(LittleEndian(bytes), Byte, n)[n] = 0
         /\ Digits(LittleEndian(bytes), Byte, n) = bytes
<1> DEFINE be == Backwards(bytes)
<1>1. be \in [1..n -> 0..(Byte - 1)] /\ Backwards(be) = bytes
  BY BackwardsType, BackwardsTwice
<1>2. Byte \in Nat \ {0}
  BY Sizes
<1> HIDE DEF be
<1>3. be \in [1..n -> Nat]
  BY <1>1
<1>4. LittleEndian(bytes) = Value(Byte, be)
  BY DEF LittleEndian, be
<1>5. Value(Byte, be) \in Nat
  BY <1>2, <1>3, ValueType
<1> QED
  BY <1>1, <1>2, <1>4, <1>5, DigitsOfValue

LEMMA BytesOfField ==
  ASSUME NEW n \in Nat, NEW field \in Held(n)
  PROVE  /\ field \in Nat
         /\ Digits(field, Byte, n) \in [1..n -> 0..(Byte - 1)]
         /\ LittleEndian(Digits(field, Byte, n)) = field
<1>1. PICK bytes \in [1..n -> 0..(Byte - 1)] : field = LittleEndian(bytes)
  BY DEF Held
<1> QED
  BY <1>1, FieldOfBytes

\* One sequence follows the other; a part of a sequence.
Follows(ab, A, B, a, b) ==
  (\A i \in 1..a : ab[i] = A[i]) /\ (\A i \in 1..b : ab[a + i] = B[i])
LiesIn(part, s, first, k) == \A i \in 1..k : part[i] = s[first + i - 1]

LEMMA Concatenated ==
  ASSUME NEW S, NEW a \in Nat, NEW b \in Nat, NEW A \in [1..a -> S], NEW B \in [1..b -> S]
  PROVE  A \o B \in [1..(a + b) -> S] /\ Follows(A \o B, A, B, a, b)
<1>1. /\ A \in Seq(S) /\ Len(A) = a
      /\ B \in Seq(S) /\ Len(B) = b
  BY SequenceLength
<1>2. A \o B \in Seq(S) /\ Len(A \o B) = a + b
  BY <1>1, ConcatProperties
<1>3. A \o B \in [1..(a + b) -> S]
  BY <1>2, LenProperties
<1>4. ASSUME NEW i \in 1..a PROVE (A \o B)[i] = A[i]
  BY <1>1
<1>5. ASSUME NEW i \in 1..b PROVE (A \o B)[a + i] = B[i]
  BY <1>1
<1> QED
  BY <1>3, <1>4, <1>5 DEF Follows

LEMMA Part ==
  ASSUME NEW S, NEW n \in Nat, NEW s \in [1..n -> S], NEW first \in Nat \ {0}, NEW k \in Nat,
         first + k - 1 <= n
  PROVE  /\ SubSeq(s, first, first + k - 1) \in [1..k -> S]
         /\ LiesIn(SubSeq(s, first, first + k - 1), s, first, k)
<1> DEFINE last == first + k - 1
           part == SubSeq(s, first, last)
<1>1. \A i \in first..last : s[i] \in S
  OBVIOUS
<1>2. /\ first \in Int /\ last \in Int /\ last - first + 1 = k
      /\ (IF first <= last THEN last - first + 1 ELSE 0) = k
  OBVIOUS
<1> HIDE DEF last
<1>3. part \in Seq(S) /\ Len(part) = k
  BY <1>1, <1>2, SubSeqProperties
<1>4. part \in [1..k -> S]
  BY <1>3, LenProperties
<1>5. ASSUME NEW i \in 1..k PROVE part[i] = s[first + i - 1]
  BY <1>1, <1>2
<1> QED
  BY <1>4, <1>5 DEF last, LiesIn

\* Three fields one after the other, cut where they were joined.
LEMMA Joined ==
  ASSUME NEW S, NEW a \in Nat, NEW b \in Nat, NEW c \in Nat,
         NEW A \in [1..a -> S], NEW B \in [1..b -> S], NEW C \in [1..c -> S]
  PROVE  /\ A \o B \o C \in [1..(a + b + c) -> S]
         /\ SubSeq(A \o B \o C, 1, 1 + a - 1) = A
         /\ SubSeq(A \o B \o C, 1 + a, 1 + a + b - 1) = B
         /\ SubSeq(A \o B \o C, 1 + a + b, 1 + a + b + c - 1) = C
<1> DEFINE AB  == A \o B
           ABC == AB \o C
<1>sizes. /\ a + b \in Nat /\ a + b + c \in Nat
          /\ 1 + a \in Nat \ {0} /\ 1 + a + b \in Nat \ {0} /\ 1 \in Nat \ {0}
          /\ 1 + a - 1 <= a + b + c /\ 1 + a + b - 1 <= a + b + c
          /\ 1 + a + b + c - 1 <= a + b + c
  OBVIOUS
<1>1. AB \in [1..(a + b) -> S] /\ Follows(AB, A, B, a, b)
  BY Concatenated
<1> HIDE DEF AB
<1>2. ABC \in [1..(a + b + c) -> S] /\ Follows(ABC, AB, C, a + b, c)
  <2>1. a + b \in Nat
    OBVIOUS
  <2> QED
    BY <1>1, <2>1, Concatenated
<1> HIDE DEF ABC
<1> DEFINE first  == SubSeq(ABC, 1, 1 + a - 1)
           second == SubSeq(ABC, 1 + a, 1 + a + b - 1)
           third  == SubSeq(ABC, 1 + a + b, 1 + a + b + c - 1)
<1>3. first \in [1..a -> S] /\ LiesIn(first, ABC, 1, a)
  BY <1>2, <1>sizes, Part
<1>4. second \in [1..b -> S] /\ LiesIn(second, ABC, 1 + a, b)
  BY <1>2, <1>sizes, Part
<1>5. third \in [1..c -> S] /\ LiesIn(third, ABC, 1 + a + b, c)
  BY <1>2, <1>sizes, Part
<1> HIDE DEF first, second, third
<1>6. ASSUME NEW i \in 1..a PROVE first[i] = A[i]
  BY <1>1, <1>2, <1>3 DEF Follows, LiesIn
<1>7. ASSUME NEW i \in 1..b PROVE second[i] = B[i]
  <2>1. 1 + a + i - 1 = a + i /\ a + i \in 1..(a + b)
    OBVIOUS
  <2> QED
    BY <2>1, <1>1, <1>2, <1>4 DEF Follows, LiesIn
<1>8. ASSUME NEW i \in 1..c PROVE third[i] = C[i]
  <2>1. 1 + a + b + i - 1 = a + b + i
    OBVIOUS
  <2> QED
    BY <2>1, <1>2, <1>5 DEF Follows, LiesIn
<1>9. first = A /\ second = B /\ third = C
  BY <1>3, <1>4, <1>5, <1>6, <1>7, <1>8
<1> QED
  BY <1>2, <1>9 DEF first, second, third, ABC, AB

\* And three fields that are cut out, joined again.
LEMMA Cut ==
  ASSUME NEW S, NEW a \in Nat, NEW b \in Nat, NEW c \in Nat,
         NEW s \in [1..(a + b + c) -> S]
  PROVE  /\ SubSeq(s, 1, 1 + a - 1) \in [1..a -> S]
         /\ SubSeq(s, 1 + a, 1 + a + b - 1) \in [1..b -> S]
         /\ SubSeq(s, 1 + a + b, 1 + a + b + c - 1) \in [1..c -> S]
         /\ SubSeq(s, 1, 1 + a - 1) \o SubSeq(s, 1 + a, 1 + a + b - 1)
               \o SubSeq(s, 1 + a + b, 1 + a + b + c - 1) = s
<1> DEFINE A == SubSeq(s, 1, 1 + a - 1)
           B == SubSeq(s, 1 + a, 1 + a + b - 1)
           C == SubSeq(s, 1 + a + b, 1 + a + b + c - 1)
           AB  == A \o B
           ABC == AB \o C
<1>sizes. /\ a + b \in Nat /\ a + b + c \in Nat
          /\ 1 + a \in Nat \ {0} /\ 1 + a + b \in Nat \ {0} /\ 1 \in Nat \ {0}
          /\ 1 + a - 1 <= a + b + c /\ 1 + a + b - 1 <= a + b + c
          /\ 1 + a + b + c - 1 <= a + b + c
  OBVIOUS
<1>1. A \in [1..a -> S] /\ LiesIn(A, s, 1, a)
  BY <1>sizes, Part
<1>2. B \in [1..b -> S] /\ LiesIn(B, s, 1 + a, b)
  BY <1>sizes, Part
<1>3. C \in [1..c -> S] /\ LiesIn(C, s, 1 + a + b, c)
  BY <1>sizes, Part
<1> HIDE DEF A, B, C
<1>4. AB \in [1..(a + b) -> S] /\ Follows(AB, A, B, a, b)
  BY <1>1, <1>2, Concatenated
<1> HIDE DEF AB
<1>5. ABC \in [1..(a + b + c) -> S] /\ Follows(ABC, AB, C, a + b, c)
  <2>1. a + b \in Nat
    OBVIOUS
  <2> QED
    BY <1>3, <1>4, <2>1, Concatenated
<1> HIDE DEF ABC
<1>6. ASSUME NEW i \in 1..(a + b + c) PROVE ABC[i] = s[i]
  <2>1. CASE i \in 1..a
    BY <2>1, <1>1, <1>4, <1>5 DEF Follows, LiesIn
  <2>2. CASE i - a \in 1..b
    <3>1. i = a + (i - a) /\ 1 + a + (i - a) - 1 = i /\ i \in 1..(a + b)
      BY <2>2
    <3> QED
      BY <3>1, <2>2, <1>2, <1>4, <1>5 DEF Follows, LiesIn
  <2>3. CASE i - a - b \in 1..c
    <3>1. i = a + b + (i - a - b) /\ 1 + a + b + (i - a - b) - 1 = i
      BY <2>3
    <3> QED
      BY <3>1, <2>3, <1>3, <1>5 DEF Follows, LiesIn
  <2> QED
    BY <2>1, <2>2, <2>3
<1>7. ABC = s
  BY <1>5, <1>6
<1> QED
  BY <1>1, <1>2, <1>3, <1>7 DEF A, B, C, ABC, AB

(* The decoder.                                                            *)

\* The bytes of a number, as the fields are cut from them.
LEMMA BytesOfNumber ==
  ASSUME NEW number \in Nat
  PROVE  /\ Digits(number, Byte, Bytes) \in [1..Bytes -> 0..(Byte - 1)]
         /\ Backwards(BigEndian(number)) = Digits(number, Byte, Bytes)
<1>1. Byte \in Nat \ {0} /\ Bytes \in Nat
  BY Sizes
<1>2. Digits(number, Byte, Bytes) \in [1..Bytes -> 0..(Byte - 1)]
  BY <1>1, DigitsType
<1> QED
  BY <1>1, <1>2, BackwardsTwice DEF BigEndian

\* Whatever the bytes, the number they make has room in a sharecode.
LEMMA BytesHaveRoom ==
  ASSUME NEW bytes \in [1..Bytes -> 0..(Byte - 1)]
  PROVE  Value(Byte, bytes) \in Nat /\ Quotients(Value(Byte, bytes), Base, Length)[Length] = 0
<1> DEFINE full == [i \in 1..Bytes |-> Byte - 1]
<1>1. /\ Byte \in Nat \ {0} /\ Bytes \in Nat
      /\ Base \in Nat \ {0} /\ Length \in Nat
  BY Sizes
<1>2. bytes \in [1..Bytes -> Nat] /\ full \in [1..Bytes -> Nat]
  BY <1>1
<1>3. \A i \in 1..Bytes : bytes[i] <= full[i]
  BY <1>1
<1>4. Quotients(Value(Byte, full), Base, Length)[Length] = 0
  BY ShareCodeAssumption
<1> HIDE DEF full
<1>5. Value(Byte, bytes) \in Nat /\ Value(Byte, full) \in Nat
  BY <1>1, <1>2, ValueType
<1>6. Value(Byte, bytes) <= Value(Byte, full)
  BY <1>1, <1>2, <1>3, ValueMonotonic
<1> QED
  BY <1>1, <1>4, <1>5, <1>6, QuotientsMonotonic

\* Decoding undoes encoding: three fields come back from the sharecode that
\* the test's encoder makes of them.
THEOREM DecodeUndoesEncode ==
  ASSUME NEW id \in Ids
  PROVE  DecodeShareCode(Encode(id)) = id
<1> DEFINE A == Digits(id.matchID, Byte, MatchBytes)
           B == Digits(id.reservationID, Byte, ReservationBytes)
           C == Digits(id.tvPort, Byte, PortBytes)
           le == A \o B \o C
           be == Backwards(le)
           number == Value(Byte, be)
           word == Encode(id)
<1>1. /\ Base \in Nat \ {0} /\ Byte \in Nat \ {0} /\ Length \in Nat /\ Bytes \in Nat
      /\ MatchBytes \in Nat /\ ReservationBytes \in Nat /\ PortBytes \in Nat
  BY Sizes
<1>2. /\ id = [matchID |-> id.matchID, reservationID |-> id.reservationID, tvPort |-> id.tvPort]
      /\ id.matchID \in Held(MatchBytes)
      /\ id.reservationID \in Held(ReservationBytes)
      /\ id.tvPort \in Held(PortBytes)
  BY DEF Ids
<1>3. /\ A \in [1..MatchBytes -> 0..(Byte - 1)] /\ LittleEndian(A) = id.matchID
      /\ B \in [1..ReservationBytes -> 0..(Byte - 1)] /\ LittleEndian(B) = id.reservationID
      /\ C \in [1..PortBytes -> 0..(Byte - 1)] /\ LittleEndian(C) = id.tvPort
  BY <1>1, <1>2, BytesOfField
<1> HIDE DEF A, B, C
<1>4. /\ le \in [1..Bytes -> 0..(Byte - 1)]
      /\ SubSeq(le, 1, 1 + MatchBytes - 1) = A
      /\ SubSeq(le, 1 + MatchBytes, 1 + MatchBytes + ReservationBytes - 1) = B
      /\ SubSeq(le, 1 + MatchBytes + ReservationBytes,
                1 + MatchBytes + ReservationBytes + PortBytes - 1) = C
  <2> DEFINE S == 0..(Byte - 1)
  <2>1. /\ A \in [1..MatchBytes -> S] /\ B \in [1..ReservationBytes -> S]
        /\ C \in [1..PortBytes -> S]
    BY <1>3
  <2> HIDE DEF S
  <2>2. le \in [1..(MatchBytes + ReservationBytes + PortBytes) -> S]
    BY <1>1, <2>1, Joined
  <2>3. /\ SubSeq(le, 1, 1 + MatchBytes - 1) = A
        /\ SubSeq(le, 1 + MatchBytes, 1 + MatchBytes + ReservationBytes - 1) = B
        /\ SubSeq(le, 1 + MatchBytes + ReservationBytes,
                  1 + MatchBytes + ReservationBytes + PortBytes - 1) = C
    BY <1>1, <2>1, Joined
  <2> QED
    BY <2>2, <2>3 DEF S, Bytes
<1>5. word = Digits(number, Base, Length)
  BY DEF Encode, A, B, C
<1> HIDE DEF le, word
<1>6. be \in [1..Bytes -> 0..(Byte - 1)] /\ Backwards(be) = le
  <2> DEFINE S == 0..(Byte - 1)
  <2>1. le \in [1..Bytes -> S]
    BY <1>4
  <2> HIDE DEF S
  <2>2. be \in [1..Bytes -> S] /\ Backwards(be) = le
    BY <1>1, <2>1, BackwardsType, BackwardsTwice
  <2> QED
    BY <2>2 DEF S
<1> HIDE DEF be
<1>7. /\ number \in Nat
      /\ Quotients(number, Base, Length)[Length] = 0
      /\ Digits(number, Byte, Bytes) = le
      /\ Fits(number)
  BY <1>1, <1>6, BytesHaveRoom, DigitsOfValue DEF Fits
<1> HIDE DEF number
<1>8. word \in [1..Length -> 0..(Base - 1)]
  BY <1>1, <1>5, <1>7, DigitsType
<1>9. Number(word) = number
  BY <1>1, <1>5, <1>7, ValueOfDigits DEF Number
<1>10. Backwards(BigEndian(number)) = le
  BY <1>7, BytesOfNumber
<1>11. \A i \in 1..Length : word[i] < Base
  BY <1>1, <1>8
<1>12. DecodeShareCode(word) =
         [matchID |-> LittleEndian(A), reservationID |-> LittleEndian(B),
          tvPort |-> LittleEndian(C)]
  BY <1>4, <1>7, <1>9, <1>10, <1>11 DEF DecodeShareCode
<1> QED
  BY <1>2, <1>3, <1>12 DEF word

\* Encoding undoes decoding: what decodes is the sharecode of its fields, so
\* that no two sharecodes stand for one match.
THEOREM EncodeUndoesDecode ==
  ASSUME NEW word \in Words, DecodeShareCode(word) # Malformed
  PROVE  Encode(DecodeShareCode(word)) = word
<1> DEFINE digits == Backwards(word)
           number == Number(word)
           le == Digits(number, Byte, Bytes)
           A == SubSeq(le, 1, 1 + MatchBytes - 1)
           B == SubSeq(le, 1 + MatchBytes, 1 + MatchBytes + ReservationBytes - 1)
           C == SubSeq(le, 1 + MatchBytes + ReservationBytes,
                       1 + MatchBytes + ReservationBytes + PortBytes - 1)
           id == DecodeShareCode(word)
<1>1. /\ Base \in Nat \ {0} /\ Byte \in Nat \ {0} /\ Length \in Nat /\ Bytes \in Nat
      /\ MatchBytes \in Nat /\ ReservationBytes \in Nat /\ PortBytes \in Nat /\ Chars \in Nat
  BY Sizes
<1>2. (\A i \in 1..Length : word[i] < Base) /\ Fits(number)
  BY DEF DecodeShareCode
<1>3. word \in [1..Length -> 0..(Base - 1)]
  BY <1>1, <1>2 DEF Words
<1>4. digits \in [1..Length -> 0..(Base - 1)] /\ Backwards(digits) = word
  <2> DEFINE S == 0..(Base - 1)
  <2>1. word \in [1..Length -> S]
    BY <1>3
  <2> HIDE DEF S
  <2>2. digits \in [1..Length -> S] /\ Backwards(digits) = word
    BY <1>1, <2>1, BackwardsType, BackwardsTwice
  <2> QED
    BY <2>2 DEF S
<1>5. number = Value(Base, digits)
  BY DEF Number
<1> HIDE DEF digits
<1>6. number \in Nat /\ Digits(number, Base, Length) = word
  <2>1. digits \in [1..Length -> Nat]
    BY <1>1, <1>4
  <2> QED
    BY <1>1, <1>4, <1>5, <2>1, DigitsOfValue, ValueType
<1> HIDE DEF number
<1>7. /\ le \in [1..Bytes -> 0..(Byte - 1)]
      /\ Backwards(BigEndian(number)) = le
      /\ Value(Byte, Backwards(le)) = number
  BY <1>1, <1>2, <1>6, BytesOfNumber, ValueOfDigits DEF Fits
<1>8. id = [matchID |-> LittleEndian(A), reservationID |-> LittleEndian(B),
            tvPort |-> LittleEndian(C)]
  <2> HIDE DEF le
  <2> QED
    BY <1>2, <1>7 DEF DecodeShareCode, number
<1> HIDE DEF le, id
<1>9. /\ A \in [1..MatchBytes -> 0..(Byte - 1)]
      /\ B \in [1..ReservationBytes -> 0..(Byte - 1)]
      /\ C \in [1..PortBytes -> 0..(Byte - 1)]
      /\ A \o B \o C = le
  <2> DEFINE S == 0..(Byte - 1)
  <2>1. le \in [1..(MatchBytes + ReservationBytes + PortBytes) -> S]
    BY <1>7 DEF Bytes
  <2> HIDE DEF S
  <2>2. A \in [1..MatchBytes -> S]
    BY <1>1, <2>1, Cut
  <2>3. B \in [1..ReservationBytes -> S]
    BY <1>1, <2>1, Cut
  <2>4. C \in [1..PortBytes -> S]
    BY <1>1, <2>1, Cut
  <2>5. A \o B \o C = le
    BY <1>1, <2>1, Cut
  <2> QED
    BY <2>2, <2>3, <2>4, <2>5 DEF S
<1> HIDE DEF A, B, C
<1>10. /\ Digits(LittleEndian(A), Byte, MatchBytes) = A
       /\ Digits(LittleEndian(B), Byte, ReservationBytes) = B
       /\ Digits(LittleEndian(C), Byte, PortBytes) = C
  BY <1>1, <1>9, FieldOfBytes
<1>11. /\ id.matchID = LittleEndian(A) /\ id.reservationID = LittleEndian(B)
       /\ id.tvPort = LittleEndian(C)
  BY <1>8
<1>12. Encode(id) = Digits(Value(Byte, Backwards(le)), Base, Length)
  BY <1>9, <1>10, <1>11 DEF Encode
<1> QED
  BY <1>6, <1>7, <1>12 DEF id

\* The codec loses nothing, whatever the sizes: the two halves as the runs
\* check them.
THEOREM CodecIsExact == DecodeIsExact
BY DecodeUndoesEncode, EncodeUndoesDecode DEF DecodeIsExact
=============================================================================
