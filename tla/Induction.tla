----------------------------- MODULE Induction ------------------------------
(***************************************************************************)
(* Induction over the natural numbers, in a form that the proofs of the    *)
(* other modules can use: over sets instead of predicates, and recursion   *)
(* with a step that is a function instead of an operator; and some         *)
(* arithmetic.                                                             *)
(***************************************************************************)
EXTENDS Integers, WellFoundedInduction, TLAPS

\* A set of natural numbers has a least element.
LEMMA Least ==
    ASSUME NEW S, S \subseteq Nat, S # {}
    PROVE  \E x \in S : \A y \in S : x <= y
  <1> DEFINE R == {ss \in Nat \X Nat : ss[1] < ss[2]}
  <1>1. IsWellFoundedOn(R, Nat)
      BY NatLessThanWellFounded DEF OpToRel
  <1>2. \A x, y \in Nat : y < x => <<y, x>> \in R
      OBVIOUS
  <1> HIDE DEF R
  <1>3. PICK x \in S : \A y \in S : ~ (<<y, x>> \in R)
      BY <1>1, WFMin
  <1>4. \A y \in S : ~ (y < x)
      BY <1>2, <1>3
  <1> QED BY <1>4

\* A bounded set of natural numbers has a greatest element.
LEMMA Greatest ==
    ASSUME NEW S, S \subseteq Nat, S # {}, NEW bound \in Nat, \A y \in S : y <= bound
    PROVE  \E x \in S : \A y \in S : x >= y
  <1> DEFINE T == {bound - y : y \in S}
  <1>1. T \subseteq Nat /\ T # {}
    <2>1. \A y \in S : bound - y \in Nat
        OBVIOUS
    <2> QED BY <2>1
  <1>2. PICK z \in T : \A y \in T : z <= y
      BY <1>1, Least
  <1>3. PICK x \in S : z = bound - x
      OBVIOUS
  <1>4. \A y \in S : bound - x <= bound - y
      BY <1>2, <1>3
  <1> QED BY <1>4

\* What holds for 0 and carries over to the next number holds for every one.
LEMMA SetInduction ==
    ASSUME NEW S, 0 \in S, \A k \in Nat : k \in S => k + 1 \in S
    PROVE  Nat \subseteq S
  <1> SUFFICES ASSUME Nat \ S # {} PROVE FALSE
      OBVIOUS
  <1>1. PICK x \in Nat \ S : \A y \in Nat \ S : x <= y
      BY Least
  <1>2. x # 0 /\ x - 1 \in Nat
      BY <1>1
  <1>3. x - 1 \in S
      BY <1>1, <1>2
  <1>4. (x - 1) + 1 \in S
      BY <1>2, <1>3
  <1> QED BY <1>4

\* The first m + 1 values of the function that starts with b and steps with h.
Segments(S, b, h, m) ==
    {g \in [0..m -> S] : g[0] = b /\ \A k \in 0..(m - 1) : g[k + 1] = h[<<k, g[k]>>]}

\* There are such values, ...
LEMMA SegmentExists ==
    ASSUME NEW S, NEW b \in S, NEW h \in [Nat \X S -> S], NEW m \in Nat
    PROVE  Segments(S, b, h, m) # {}
  <1> DEFINE good == {k \in Nat : Segments(S, b, h, k) # {}}
  <1>1. 0 \in good
    <2>1. [k \in 0..0 |-> b] \in Segments(S, b, h, 0)
        BY DEF Segments
    <2> QED BY <2>1
  <1>2. ASSUME NEW k \in Nat, k \in good PROVE k + 1 \in good
    <2>1. PICK g \in Segments(S, b, h, k) : TRUE
        BY <1>2
    <2>2. g \in [0..k -> S] /\ g[0] = b /\ \A i \in 0..(k - 1) : g[i + 1] = h[<<i, g[i]>>]
        BY <2>1 DEF Segments
    <2> DEFINE new == h[<<k, g[k]>>]
               more == [i \in 0..(k + 1) |-> IF i = k + 1 THEN new ELSE g[i]]
    <2>3. new \in S
        BY <2>2
    <2> HIDE DEF new
    <2>4. (\A i \in 0..k : more[i] = g[i]) /\ more[k + 1] = new
        OBVIOUS
    <2>5. more \in [0..(k + 1) -> S]
        BY <2>2, <2>3
    <2> HIDE DEF more
    <2>6. \A i \in 0..k : more[i + 1] = h[<<i, more[i]>>]
      <3> TAKE i \in 0..k
      <3>1. CASE i = k
          BY <2>4, <3>1 DEF new
      <3>2. CASE i # k
        <4>1. i \in 0..(k - 1) /\ i + 1 \in 0..k
            BY <3>2
        <4> QED BY <2>2, <2>4, <4>1
      <3> QED BY <3>1, <3>2
    <2>7. more[0] = b /\ (k + 1) - 1 = k
        BY <2>2, <2>4
    <2>8. more \in Segments(S, b, h, k + 1)
        BY <2>5, <2>6, <2>7 DEF Segments
    <2> QED BY <2>8
  <1> HIDE DEF good
  <1>3. Nat \subseteq good
      BY <1>1, <1>2, SetInduction
  <1> QED BY <1>3 DEF good

\* ... and they agree with each other.
LEMMA SegmentsAgree ==
    ASSUME NEW S, NEW b \in S, NEW h \in [Nat \X S -> S], NEW m \in Nat, NEW n \in Nat, m <= n,
           NEW f \in Segments(S, b, h, m), NEW g \in Segments(S, b, h, n)
    PROVE  \A k \in 0..m : f[k] = g[k]
  <1> DEFINE good == {k \in Nat : k \in 0..m => f[k] = g[k]}
  <1>1. 0 \in good
      BY DEF Segments
  <1>2. ASSUME NEW k \in Nat, k \in good PROVE k + 1 \in good
    <2> SUFFICES ASSUME k + 1 \in 0..m PROVE f[k + 1] = g[k + 1]
        OBVIOUS
    <2>1. k \in 0..m /\ k \in 0..(m - 1) /\ k \in 0..(n - 1)
        OBVIOUS
    <2>2. f[k] = g[k]
        BY <1>2, <2>1
    <2> QED BY <2>1, <2>2 DEF Segments
  <1> HIDE DEF good
  <1>3. Nat \subseteq good
      BY <1>1, <1>2, SetInduction
  <1> QED BY <1>3 DEF good

\* The steps from the value at n to the value at n + 1, and the functions that
\* start with b and step with h.
StepFunctions(S) == [Nat \X S -> S]
Iterates(S, b, h) ==
    {f \in [Nat -> S] : f[0] = b /\ \A n \in Nat : f[n + 1] = h[<<n, f[n]>>]}

\* A function is defined by its first value and its steps.
LEMMA RecursionExists ==
    ASSUME NEW S, NEW b \in S, NEW h \in StepFunctions(S)
    PROVE  \E f : f \in Iterates(S, b, h)
  <1> DEFINE seg(n) == CHOOSE g : g \in Segments(S, b, h, n)
             f == [n \in Nat |-> seg(n)[n]]
  <1>1. \A n \in Nat : seg(n) \in Segments(S, b, h, n)
      BY SegmentExists DEF StepFunctions
  <1> HIDE DEF seg
  <1>2. \A n \in Nat : seg(n)[n] \in S
      BY <1>1 DEF Segments
  <1>3. f \in [Nat -> S]
      BY <1>2
  <1>4. f[0] = b
      BY <1>1 DEF Segments
  <1>5. ASSUME NEW n \in Nat PROVE f[n + 1] = h[<<n, f[n]>>]
    <2>1. n + 1 \in Nat /\ n <= n + 1 /\ n \in 0..((n + 1) - 1) /\ n \in 0..n
        OBVIOUS
    <2>2. seg(n)[n] = seg(n + 1)[n]
        BY <1>1, <2>1, SegmentsAgree DEF StepFunctions
    <2>3. seg(n + 1)[n + 1] = h[<<n, seg(n + 1)[n]>>]
        BY <1>1, <2>1 DEF Segments
    <2> QED BY <2>1, <2>2, <2>3
  <1> HIDE DEF f
  <1> QED BY <1>3, <1>4, <1>5 DEF Iterates

-----------------------------------------------------------------------------
(* Division, products and powers                                           *)

\* The quotient, for integers.
LEMMA Quotient ==
    ASSUME NEW a \in Int, NEW b \in Int, b > 0
    PROVE  b * (a \div b) <= a /\ a < b * (a \div b) + b
  <1>1. a >= b * (a \div b)
      BY SMTT(60)
  <1>2. a < b * (a \div b) + b
      BY SMTT(60)
  <1> QED BY <1>1, <1>2

\* The remainder, for integers.
LEMMA Remainder ==
    ASSUME NEW a \in Int, NEW b \in Int, b > 0
    PROVE  a = b * (a \div b) + (a % b)
  BY SMTT(60)

\* Division with remainder.
LEMMA DivMod ==
    ASSUME NEW a \in Nat, NEW b \in Nat \ {0}
    PROVE  /\ a \div b \in Nat /\ a % b \in 0..(b - 1)
           /\ a = b * (a \div b) + (a % b)
  <1>1. a % b \in 0..(b - 1)
      OBVIOUS
  <1>2. a = b * (a \div b) + (a % b)
      BY Remainder
  <1>3. PICK q : q = a \div b /\ q \in Int
      OBVIOUS
  <1>4. a < b * q + b
      BY <1>3, Quotient
  <1>5. ASSUME q <= -1 PROVE b * q <= -b
      BY <1>3, <1>5
  <1>6. q >= 0
      BY <1>3, <1>4, <1>5
  <1>7. q \in Nat
      BY <1>3, <1>6
  <1>8. a \div b \in Nat
      BY ONLY <1>3, <1>7, Zenon
  <1> QED BY ONLY <1>1, <1>2, <1>8, Zenon

\* Products of natural numbers.
LEMMA Products ==
    /\ \A a, b \in Nat : a * b \in Nat
    /\ \A a, b, c \in Nat : a <= b => a * c <= b * c
    /\ \A a, b, c \in Nat : a * b * c = a * (b * c)
    /\ \A a, b \in Nat : (a + 1) * b = a * b + b
    /\ \A a, b \in Nat \ {0} : a * b # 0
  OBVIOUS

\* Powers, as functions define them that multiply the value before.
LEMMA Powers ==
    ASSUME NEW b \in Nat, b >= 2,
           NEW p, p = CHOOSE g : g = [n \in Nat |-> IF n = 0 THEN 1 ELSE b * g[n - 1]]
    PROVE  /\ p[0] = 1
           /\ \A n \in Nat : p[n] \in Nat \ {0} /\ n < p[n] /\ p[n + 1] = b * p[n]
  <1> DEFINE h == [x \in Nat \X Nat |-> b * x[2]]
             F(f) == f = [n \in Nat |-> IF n = 0 THEN 1 ELSE b * f[n - 1]]
  <1>1. h \in [Nat \X Nat -> Nat]
      BY Products
  <1>2. PICK f \in [Nat -> Nat] : f[0] = 1 /\ \A n \in Nat : f[n + 1] = h[<<n, f[n]>>]
    <2>1. 1 \in Nat /\ h \in StepFunctions(Nat)
        BY <1>1 DEF StepFunctions
    <2> HIDE DEF h
    <2>2. PICK f : f \in Iterates(Nat, 1, h)
        BY <2>1, RecursionExists
    <2> QED BY <2>2 DEF Iterates
  <1>3. \A n \in Nat : f[n + 1] = b * f[n]
      BY <1>2
  <1> HIDE DEF h
  <1>4. F(f)
    <2>1. \A n \in Nat : f[n] = IF n = 0 THEN 1 ELSE b * f[n - 1]
      <3> TAKE n \in Nat
      <3>1. CASE n = 0
          BY <1>2, <3>1
      <3>2. CASE n # 0
        <4>1. n - 1 \in Nat /\ (n - 1) + 1 = n
            BY <3>2
        <4> QED BY <1>3, <3>2, <4>1
      <3> QED BY <3>1, <3>2
    <2> QED BY <1>2, <2>1
  <1>5. F(p)
    <2>1. p = CHOOSE g : F(g)
        OBVIOUS
    <2> HIDE DEF F
    <2> QED BY <1>4, <2>1
  <1>6. \A g : F(g) => g[0] = 1 /\ \A n \in Nat : g[n + 1] = b * g[n]
      OBVIOUS
  <1>7. p[0] = 1 /\ \A n \in Nat : p[n + 1] = b * p[n]
    <2> HIDE DEF F
    <2> QED BY <1>5, <1>6
  <1> DEFINE S == {n \in Nat : p[n] \in Nat \ {0} /\ n < p[n]}
  <1> HIDE DEF F
  <1>8. 0 \in S /\ \A k \in Nat : k \in S => k + 1 \in S
    <2>1. 0 \in S
        BY <1>7
    <2>2. ASSUME NEW k \in Nat, NEW y \in Nat, k < y PROVE b * y \in Nat /\ k + 1 < b * y
      <3>1. b - 2 \in Nat /\ (b - 2) * y \in Nat
          BY Products
      <3>2. b * y = (b - 2) * y + 2 * y
          OBVIOUS
      <3> QED BY <2>2, <3>1, <3>2
    <2>3. ASSUME NEW k \in Nat, k \in S PROVE k + 1 \in S
      <3>1. p[k] \in Nat /\ k < p[k] /\ p[k + 1] = b * p[k]
          BY <1>7, <2>3
      <3>2. b * p[k] \in Nat /\ k + 1 < b * p[k]
          BY <2>2, <3>1
      <3> QED BY <3>1, <3>2
    <2> QED BY <2>1, <2>3
  <1>9. Nat \subseteq S
    <2> HIDE DEF S
    <2> QED BY <1>8, SetInduction
  <1> QED BY <1>7, <1>9

\* The powers of 2.
LEMMA Doubling ==
    ASSUME NEW p, p = CHOOSE g : g = [n \in Nat |-> IF n = 0 THEN 1 ELSE 2 * g[n - 1]]
    PROVE  /\ p[0] = 1
           /\ \A n \in Nat : p[n] \in Nat \ {0} /\ n < p[n] /\ p[n + 1] = 2 * p[n]
  BY Powers
=============================================================================
