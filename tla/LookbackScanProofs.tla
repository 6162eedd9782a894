------------------------- MODULE LookbackScanProofs -------------------------
(***************************************************************************)
(* Safety of LookbackScan for every operation that is associative, every   *)
(* number and size of groups, and every device.  First the pure part: the  *)
(* scans inside of a group compute sums, and the reference is their        *)
(* combination.  Then the inductive invariant, one lemma for each step,    *)
(* and the results.                                                        *)
(***************************************************************************)
EXTENDS LookbackScan, FiniteSetTheorems, Induction

\* What the algorithm expects of the operation and of the call.  Exclusive
\* scans in place are left out: a group loads the last element of the group
\* before, which that one may have overwritten.
OpAssociative ==
    \A a, b \in Elem : Op(a, b) \in Elem /\ \A c \in Elem : Op(a, Op(b, c)) = Op(Op(a, b), c)

InPlaceInclusive == \A c \in Configs : c.inPlace => c.inclusive

\* update_exclusive_prefix combines from the right, the prefix is defined from
\* the left.
LEMMA Regroup ==
    ASSUME OpAssociative
    PROVE  \A a, b, c \in Elem : Op(a, Op(b, c)) = Op(Op(a, b), c)
  BY Zenon DEF OpAssociative

-----------------------------------------------------------------------------
(* Sums                                                                    *)

\* Sum(e, a, b): the elements a to b of e, combined from left to right.
SumStep(e, a) == [p \in Nat \X Elem |-> Op(p[2], e[a + p[1] + 1])]
Sums(e, a) == CHOOSE f : f \in Iterates(Elem, e[a], SumStep(e, a))
Sum(e, a, b) == Sums(e, a)[b - a]
Elements == [Nat -> Elem]

\* A sum is extended at its end.
LEMMA SumFacts ==
    ASSUME OpAssociative, NEW e \in Elements, NEW a \in Nat
    PROVE  /\ Sum(e, a, a) = e[a]
           /\ \A b \in Nat : a <= b => /\ Sum(e, a, b) \in Elem
                                       /\ Sum(e, a, b + 1) = Op(Sum(e, a, b), e[b + 1])
  <1>1. e[a] \in Elem /\ SumStep(e, a) \in StepFunctions(Elem)
      BY DEF SumStep, StepFunctions, Elements, OpAssociative
  <1>2. Sums(e, a) \in Iterates(Elem, e[a], SumStep(e, a))
    <2>1. \E f : f \in Iterates(Elem, e[a], SumStep(e, a))
        BY <1>1, RecursionExists, Zenon
    <2> QED BY <2>1, Zenon DEF Sums
  <1>3. /\ Sums(e, a) \in [Nat -> Elem] /\ Sums(e, a)[0] = e[a]
        /\ \A n \in Nat : Sums(e, a)[n + 1] = SumStep(e, a)[<<n, Sums(e, a)[n]>>]
      BY <1>2, Zenon DEF Iterates
  <1>4. ASSUME NEW n \in Nat PROVE Sums(e, a)[n + 1] = Op(Sums(e, a)[n], e[a + n + 1])
    <2>1. <<n, Sums(e, a)[n]>> \in Nat \X Elem
        BY <1>3, Zenon
    <2> QED BY <1>3, <2>1, Zenon DEF SumStep
  <1>5. a - a = 0
      OBVIOUS
  <1>6. ASSUME NEW b \in Nat, a <= b
        PROVE  /\ Sum(e, a, b) \in Elem
               /\ Sum(e, a, b + 1) = Op(Sum(e, a, b), e[b + 1])
    <2>1. b - a \in Nat /\ (b + 1) - a = (b - a) + 1 /\ a + (b - a) + 1 = b + 1
        BY <1>6
    <2> QED BY <1>3, <1>4, <2>1, Zenon DEF Sum
  <1> QED BY <1>3, <1>5, <1>6, Zenon DEF Sum

\* Adjacent sums are combined to one.
LEMMA SumJoin ==
    ASSUME OpAssociative, NEW e \in Elements, NEW a \in Nat, NEW b \in Nat, NEW c \in Nat,
           a <= b, b < c
    PROVE  Op(Sum(e, a, b), Sum(e, b + 1, c)) = Sum(e, a, c)
  <1> DEFINE S == {n \in Nat : Op(Sum(e, a, b), Sum(e, b + 1, b + 1 + n)) = Sum(e, a, b + 1 + n)}
  <1>1. Sum(e, a, b) \in Elem
      BY SumFacts, Zenon
  <1>2. 0 \in S
    <2>1. Sum(e, b + 1, b + 1) = e[b + 1] /\ Sum(e, a, b + 1) = Op(Sum(e, a, b), e[b + 1])
        BY SumFacts
    <2>2. b + 1 + 0 = b + 1
        OBVIOUS
    <2> QED BY <2>1, <2>2, Zenon
  <1>3. ASSUME NEW n \in Nat, n \in S PROVE n + 1 \in S
    <2> DEFINE m == b + 1 + n
    <2>1. m \in Nat /\ b + 1 <= m /\ a <= m /\ b + 1 + (n + 1) = m + 1 /\ b + 1 \in Nat
        OBVIOUS
    <2>2. Op(Sum(e, a, b), Sum(e, b + 1, m)) = Sum(e, a, m)
        BY <1>3, Zenon
    <2> HIDE DEF m
    <2>3. /\ Sum(e, b + 1, m) \in Elem /\ Sum(e, b + 1, m + 1) = Op(Sum(e, b + 1, m), e[m + 1])
          /\ Sum(e, a, m + 1) = Op(Sum(e, a, m), e[m + 1])
        BY <2>1, SumFacts
    <2>4. e[m + 1] \in Elem
        BY <2>1 DEF Elements
    <2>5. Op(Sum(e, a, b), Op(Sum(e, b + 1, m), e[m + 1])) = Op(Op(Sum(e, a, b), Sum(e, b + 1, m)), e[m + 1])
        BY <1>1, <2>3, <2>4, Regroup, Zenon
    <2>6. Op(Sum(e, a, b), Sum(e, b + 1, m + 1)) = Sum(e, a, m + 1)
        BY <2>2, <2>3, <2>5, Zenon
    <2> QED BY <2>1, <2>6
  <1>4. Nat \subseteq S
    <2> HIDE DEF S
    <2> QED BY <1>2, <1>3, SetInduction, Zenon
  <1>5. c - (b + 1) \in Nat /\ b + 1 + (c - (b + 1)) = c
      OBVIOUS
  <1>6. c - (b + 1) \in S
      BY <1>4, <1>5, Zenon
  <1> QED BY <1>5, <1>6, Zenon

-----------------------------------------------------------------------------
(* Arithmetic of the sizes                                                 *)

\* Ids below the number of values of the type are not truncated.
LEMMA SmallMod ==
    ASSUME NEW a \in Nat, NEW b \in Nat, a < b
    PROVE  a % b = a
  OBVIOUS

\* CeilDiv(a, b) times b is enough.
LEMMA CeilDivEnough ==
    ASSUME NEW a \in Nat \ {0}, NEW b \in Nat \ {0}
    PROVE  CeilDiv(a, b) \in Nat \ {0} /\ a <= CeilDiv(a, b) * b
  <1>1. PICK n \in Nat : n = a + b - 1
      OBVIOUS
  <1>2. PICK q, m : q = n \div b /\ m = n % b
      BY Zenon
  <1>3. q \in Nat /\ m \in 0..(b - 1) /\ n = b * q + m
      BY ONLY <1>2, b \in Nat \ {0}, n \in Nat, DivMod, Zenon
  <1>4. a <= b * q /\ b * q = q * b
      BY <1>1, <1>3
  <1>5. q # 0
      BY <1>4
  <1>6. CeilDiv(a, b) = q
      BY <1>1, <1>2, Zenon DEF CeilDiv
  <1> QED BY <1>3, <1>4, <1>5, <1>6, Zenon

\* One group less would not be enough.
LEMMA CeilDivLeast ==
    ASSUME NEW a \in Nat \ {0}, NEW b \in Nat \ {0}
    PROVE  (CeilDiv(a, b) - 1) * b < a
  <1>1. PICK n \in Nat : n = a + b - 1
      OBVIOUS
  <1>2. PICK q, m : q = n \div b /\ m = n % b
      BY Zenon
  <1>3. q \in Nat /\ m \in 0..(b - 1) /\ n = b * q + m
      BY ONLY <1>2, b \in Nat \ {0}, n \in Nat, DivMod, Zenon
  <1>4. (q - 1) * b = b * q - b
      BY <1>3
  <1>5. CeilDiv(a, b) = q
      BY <1>1, <1>2, Zenon DEF CeilDiv
  <1> QED BY <1>1, <1>3, <1>4, <1>5

\* The strides are the powers of 2.
LEMMA Strides ==
    /\ Stride[0] = 1
    /\ \A k \in Nat : Stride[k] \in Nat \ {0} /\ k < Stride[k] /\ Stride[k + 1] = 2 * Stride[k]
  <1>1. Stride = CHOOSE g : g = [k \in Nat |-> IF k = 0 THEN 1 ELSE 2 * g[k - 1]]
      BY Zenon DEF Stride
  <1> QED BY <1>1, Doubling, Zenon

-----------------------------------------------------------------------------
(* The scans inside of a group                                             *)

\* n elements of e from o on, and their sums.
Slice(e, o, n) == [i \in 1..n |-> e[o + i - 1]]
ScanOf(e, o, n) == [i \in 1..n |-> Sum(e, o, o + i - 1)]

\* What the elements and the sums are.
LEMMA Slices ==
    ASSUME OpAssociative, NEW e \in Elements, NEW o \in Nat, NEW n \in Nat
    PROVE  /\ Slice(e, o, n) \in [1..n -> Elem] /\ ScanOf(e, o, n) \in [1..n -> Elem]
           /\ \A i \in 1..n : /\ Slice(e, o, n)[i] = e[o + i - 1]
                              /\ ScanOf(e, o, n)[i] = Sum(e, o, o + i - 1)
           /\ n # 0 => ScanOf(e, o, n)[1] = Slice(e, o, n)[1]
           /\ \A i \in 1..n : i # 1 => ScanOf(e, o, n)[i] = Op(ScanOf(e, o, n)[i - 1], Slice(e, o, n)[i])
  <1>1. ASSUME NEW i \in 1..n PROVE e[o + i - 1] \in Elem /\ Sum(e, o, o + i - 1) \in Elem
    <2>1. o + i - 1 \in Nat /\ o <= o + i - 1
        OBVIOUS
    <2> QED BY <2>1, SumFacts, Zenon DEF Elements
  <1>2. Slice(e, o, n) \in [1..n -> Elem] /\ ScanOf(e, o, n) \in [1..n -> Elem]
      BY <1>1, Zenon DEF Slice, ScanOf
  <1>3. \A i \in 1..n : /\ Slice(e, o, n)[i] = e[o + i - 1]
                        /\ ScanOf(e, o, n)[i] = Sum(e, o, o + i - 1)
      BY Zenon DEF Slice, ScanOf
  <1>4. ASSUME n # 0 PROVE ScanOf(e, o, n)[1] = Slice(e, o, n)[1]
    <2>1. 1 \in 1..n /\ o + 1 - 1 = o
        BY <1>4
    <2>2. Sum(e, o, o) = e[o]
        BY SumFacts, Zenon
    <2> QED BY <1>3, <2>1, <2>2, Zenon
  <1>5. ASSUME NEW i \in 1..n, i # 1
        PROVE  ScanOf(e, o, n)[i] = Op(ScanOf(e, o, n)[i - 1], Slice(e, o, n)[i])
    <2>1. PICK b \in Nat : b = o + i - 2
        BY <1>5
    <2>2. /\ i - 1 \in 1..n /\ o + i - 1 = b + 1 /\ o + (i - 1) - 1 = b /\ o <= b
        BY <1>5, <2>1
    <2>3. Sum(e, o, b + 1) = Op(Sum(e, o, b), e[b + 1])
        BY <2>2, SumFacts, Zenon
    <2> QED BY <1>3, <2>2, <2>3, Zenon
  <1> QED BY <1>2, <1>3, <1>4, <1>5, Zenon

\* sequential_scan and iterate_host_and_inclusive_group_scan add up from the left.
LEMMA SequentialScanCorrect ==
    ASSUME OpAssociative, NEW e \in Elements, NEW o \in Nat, NEW n \in Nat \ {0}
    PROVE  SequentialScan(Slice(e, o, n)) = ScanOf(e, o, n)
  <1>1. PICK elems, sums : elems = Slice(e, o, n) /\ sums = ScanOf(e, o, n)
      BY Zenon
  <1>2. /\ elems \in [1..n -> Elem] /\ sums \in [1..n -> Elem] /\ sums[1] = elems[1]
        /\ \A i \in 1..n : i # 1 => sums[i] = Op(sums[i - 1], elems[i])
    <2>1. n \in Nat /\ n # 0
        BY Zenon
    <2>2. /\ Slice(e, o, n) \in [1..n -> Elem] /\ ScanOf(e, o, n) \in [1..n -> Elem]
          /\ ScanOf(e, o, n)[1] = Slice(e, o, n)[1]
          /\ \A i \in 1..n : i # 1 => ScanOf(e, o, n)[i] = Op(ScanOf(e, o, n)[i - 1], Slice(e, o, n)[i])
        BY ONLY OpAssociative, e \in Elements, o \in Nat, <2>1, Slices, Zenon
    <2> QED BY ONLY <1>1, <2>2, Zenon
  <1> DEFINE Loop(f) == [i \in 1..n |-> IF i = 1 THEN elems[1] ELSE Op(f[i - 1], elems[i])]
             F(f) == f = Loop(f)
             current == CHOOSE f : F(f)
  <1>3. SequentialScan(elems) = current
    <2>1. DOMAIN elems = 1..n
        BY <1>2, Zenon
    <2> QED BY <2>1, Zenon DEF SequentialScan
  <1>4. F(sums)
      BY <1>2, Zenon
  <1>5. F(current)
    <2> HIDE DEF F
    <2> QED BY <1>4, Zenon
  <1> HIDE DEF current
  <1>6. /\ current[1] = elems[1]
        /\ \A i \in 1..n : i # 1 => current[i] = Op(current[i - 1], elems[i])
    <2>1. /\ Loop(current)[1] = elems[1]
          /\ \A i \in 1..n : i # 1 => Loop(current)[i] = Op(current[i - 1], elems[i])
        OBVIOUS
    <2> HIDE DEF Loop
    <2> QED BY <1>5, <2>1, Zenon
  <1>7. current = [i \in 1..n |-> current[i]]
      BY <1>5, Zenon
  <1> DEFINE S == {k \in Nat : k + 1 <= n => current[k + 1] = sums[k + 1]}
  <1> HIDE DEF F
  <1>8. 0 \in S
      BY <1>2, <1>6
  <1>9. ASSUME NEW k \in Nat, k \in S PROVE k + 1 \in S
    <2> SUFFICES ASSUME (k + 1) + 1 <= n PROVE current[(k + 1) + 1] = sums[(k + 1) + 1]
        OBVIOUS
    <2>1. (k + 1) + 1 \in 1..n /\ (k + 1) + 1 # 1 /\ ((k + 1) + 1) - 1 = k + 1 /\ k + 1 <= n
        OBVIOUS
    <2>2. current[k + 1] = sums[k + 1]
        BY <1>9, <2>1, Zenon
    <2> QED BY <1>2, <1>6, <2>1, <2>2, Zenon
  <1>10. Nat \subseteq S
    <2> HIDE DEF S
    <2> QED BY <1>8, <1>9, SetInduction, Zenon
  <1>11. ASSUME NEW i \in 1..n PROVE current[i] = sums[i]
    <2>1. i - 1 \in S /\ (i - 1) + 1 = i
        BY <1>10
    <2> QED BY <2>1
  <1> HIDE DEF S
  <1>12. current = sums
      BY <1>2, <1>7, <1>11, Zenon
  <1> QED BY <1>1, <1>3, <1>12, Zenon

\* Sums of the last s elements up to each one, fewer at the beginning: the
\* local memory of kogge_stone_scan before the round with stride s.
From(l, s) == IF l > s THEN l - s ELSE 0
Partial(e, o, n, s) == [l \in 1..n |-> Sum(e, o + From(l, s), o + l - 1)]

\* It starts with the elements and ends with the sums.
LEMMA Partials ==
    ASSUME OpAssociative, NEW e \in Elements, NEW o \in Nat, NEW n \in Nat
    PROVE  /\ Partial(e, o, n, 1) = Slice(e, o, n)
           /\ \A s \in Nat : n <= s => Partial(e, o, n, s) = ScanOf(e, o, n)
  <1>1. ASSUME NEW l \in 1..n PROVE Sum(e, o + From(l, 1), o + l - 1) = e[o + l - 1]
    <2>1. o + From(l, 1) = o + l - 1 /\ o + l - 1 \in Nat
        BY DEF From
    <2> QED BY <2>1, SumFacts, Zenon
  <1>2. ASSUME NEW s \in Nat, n <= s, NEW l \in 1..n
        PROVE  Sum(e, o + From(l, s), o + l - 1) = Sum(e, o, o + l - 1)
    <2>1. o + From(l, s) = o
        BY <1>2 DEF From
    <2> QED BY <2>1, Zenon
  <1> QED BY <1>1, <1>2, Zenon DEF Partial, Slice, ScanOf

\* A round doubles the number of elements that are combined.
LEMMA KoggeStoneRounds ==
    ASSUME OpAssociative, NEW e \in Elements, NEW o \in Nat, NEW n \in Nat, NEW s \in Nat \ {0}
    PROVE  KoggeStoneRound(Partial(e, o, n, s), s) = Partial(e, o, n, 2 * s)
  <1>1. PICK mem : mem = Partial(e, o, n, s)
      BY Zenon
  <1>2. DOMAIN mem = 1..n /\ \A l \in 1..n : mem[l] = Sum(e, o + From(l, s), o + l - 1)
      BY <1>1, Zenon DEF Partial
  <1>3. ASSUME NEW l \in 1..n
        PROVE  (IF l > s THEN Op(mem[l - s], mem[l]) ELSE mem[l])
                   = Sum(e, o + From(l, 2 * s), o + l - 1)
    <2>1. CASE l > s
      <3>1. PICK a, b \in Nat : a = o + From(l, 2 * s) /\ b = o + (l - s) - 1
        <4>1. o + From(l, 2 * s) \in Nat
            BY DEF From
        <4>2. o + (l - s) - 1 \in Nat
            BY <2>1
        <4> QED BY <4>1, <4>2, Zenon
      <3>2. PICK c \in Nat : c = o + l - 1
          OBVIOUS
      <3>3. /\ l - s \in 1..n /\ o + From(l - s, s) = a /\ o + From(l, s) = b + 1
            /\ a <= b /\ b < c
          BY <2>1, <3>1, <3>2 DEF From
      <3>4. Op(Sum(e, a, b), Sum(e, b + 1, c)) = Sum(e, a, c)
          BY <3>3, SumJoin
      <3>5. mem[l - s] = Sum(e, a, b) /\ mem[l] = Sum(e, b + 1, c)
          BY <1>2, <3>1, <3>2, <3>3, Zenon
      <3> QED BY <2>1, <3>1, <3>2, <3>4, <3>5, Zenon
    <2>2. CASE ~ (l > s)
      <3>1. From(l, s) = 0 /\ From(l, 2 * s) = 0
          BY <2>2 DEF From
      <3> QED BY <1>2, <2>2, <3>1, Zenon
    <2> QED BY <2>1, <2>2, Zenon
  <1>4. KoggeStoneRound(mem, s) = Partial(e, o, n, 2 * s)
      BY <1>2, <1>3, Zenon DEF KoggeStoneRound, Partial
  <1> QED BY <1>1, <1>4, Zenon

\* kogge_stone_scan computes the sums of its elements for every size of a
\* group, whether or not it is a power of 2.
LEMMA KoggeStoneScanCorrect ==
    ASSUME OpAssociative, NEW e \in Elements, NEW o \in Nat, NEW n \in Nat \ {0},
           NEW elems, elems = Slice(e, o, n), Len(elems) = n
    PROVE  KoggeStoneScan(elems) = ScanOf(e, o, n)
  <1> DEFINE Loop(f) == [k \in 0..n |->
                 IF k = 0 THEN elems
                 ELSE IF Stride[k - 1] < n THEN KoggeStoneRound(f[k - 1], Stride[k - 1])
                 ELSE f[k - 1]]
             F(f) == f = Loop(f)
             mem == CHOOSE f : F(f)
             sums == [k \in 0..n |-> Partial(e, o, n, Stride[k])]
  <1>1. KoggeStoneScan(elems) = mem[n]
      BY DEF KoggeStoneScan
  <1>2. sums[0] = elems /\ sums[n] = ScanOf(e, o, n)
    <2>0. n \in Nat /\ n < Stride[n] /\ Stride[n] \in Nat \ {0} /\ Stride[0] = 1
        BY Strides, Zenon
    <2>1. n \in Nat /\ n <= Stride[n] /\ Stride[n] \in Nat /\ Stride[0] = 1
        BY <2>0
    <2>2. Partial(e, o, n, 1) = Slice(e, o, n)
        BY <2>1, Partials, Zenon
    <2>3. Partial(e, o, n, Stride[n]) = ScanOf(e, o, n)
        BY <2>1, Partials, Zenon
    <2> QED BY <2>1, <2>2, <2>3
  <1>3. ASSUME NEW k \in 0..n, k # 0
        PROVE  sums[k] = IF Stride[k - 1] < n THEN KoggeStoneRound(sums[k - 1], Stride[k - 1])
                         ELSE sums[k - 1]
    <2>1. PICK j \in Nat : j = k - 1
        BY <1>3
    <2>2. PICK s : s = Stride[j]
        BY Zenon
    <2>3. s \in Nat \ {0} /\ Stride[j + 1] = 2 * s
        BY <2>2, Strides, Zenon
    <2>7. j \in 0..n /\ j + 1 = k
        BY <1>3, <2>1
    <2>4. sums[k] = Partial(e, o, n, 2 * s) /\ sums[k - 1] = Partial(e, o, n, s)
        BY <2>1, <2>2, <2>3, <2>7, Zenon
    <2>5. CASE s < n
      <3>1. KoggeStoneRound(Partial(e, o, n, s), s) = Partial(e, o, n, 2 * s)
          BY <2>3, KoggeStoneRounds, Zenon
      <3> QED BY <2>1, <2>2, <2>4, <2>5, <3>1, Zenon
    <2>6. CASE ~ (s < n)
      <3>1. n \in Nat /\ n <= s /\ n <= 2 * s /\ 2 * s \in Nat /\ s \in Nat
          BY <2>3, <2>6
      <3>2. Partial(e, o, n, 2 * s) = Partial(e, o, n, s)
          BY <3>1, Partials
      <3> QED BY <2>1, <2>2, <2>4, <2>6, <3>2, Zenon
    <2> QED BY <2>5, <2>6, Zenon
  <1> HIDE DEF sums
  <1>4. F(sums)
    <2>1. sums = [k \in 0..n |-> sums[k]]
        BY Zenon DEF sums
    <2>2. \A k \in 0..n : sums[k] = Loop(sums)[k]
        BY <1>2, <1>3, Zenon
    <2>3. Loop(sums) = [k \in 0..n |-> Loop(sums)[k]]
        BY Zenon
    <2> HIDE DEF Loop
    <2> QED BY <2>1, <2>2, <2>3, Zenon
  <1>5. F(mem)
    <2> HIDE DEF F
    <2> QED BY <1>4, Zenon
  <1> HIDE DEF mem
  <1>6. /\ mem[0] = elems
        /\ \A k \in 0..n : k # 0 =>
               mem[k] = IF Stride[k - 1] < n THEN KoggeStoneRound(mem[k - 1], Stride[k - 1])
                        ELSE mem[k - 1]
    <2>1. /\ Loop(mem)[0] = elems
          /\ \A k \in 0..n : k # 0 =>
                 Loop(mem)[k] = IF Stride[k - 1] < n
                                THEN KoggeStoneRound(mem[k - 1], Stride[k - 1])
                                ELSE mem[k - 1]
        OBVIOUS
    <2> HIDE DEF Loop
    <2> QED BY <1>5, <2>1, Zenon
  <1> DEFINE S == {k \in Nat : k <= n => mem[k] = sums[k]}
  <1> HIDE DEF F
  <1>7. 0 \in S
      BY <1>2, <1>6, Zenon
  <1>8. ASSUME NEW k \in Nat, k \in S PROVE k + 1 \in S
    <2> SUFFICES ASSUME k + 1 <= n PROVE mem[k + 1] = sums[k + 1]
        OBVIOUS
    <2>1. k + 1 \in 0..n /\ k + 1 # 0 /\ (k + 1) - 1 = k
        OBVIOUS
    <2>2. mem[k] = sums[k]
        BY <1>8
    <2> QED BY <1>3, <1>6, <2>1, <2>2, Zenon
  <1>9. Nat \subseteq S
    <2> HIDE DEF S
    <2> QED BY <1>7, <1>8, SetInduction, Zenon
  <1>10. mem[n] = sums[n]
      BY <1>9
  <1> QED BY <1>1, <1>2, <1>10, Zenon

\* Slices as sequences.
LEMMA SliceLen ==
    ASSUME NEW e \in Elements, NEW o \in Nat, NEW n \in Nat
    PROVE  Slice(e, o, n) \in Seq(Elem) /\ Len(Slice(e, o, n)) = n
  <1>1. Slice(e, o, n) \in [1..n -> Elem]
      BY DEF Slice, Elements
  <1> QED BY <1>1

\* A part of a slice.
Part(s, m, k) == SubSeq(s, m + 1, m + k)

\* A part of a slice is a slice.
LEMMA SubSlice ==
    ASSUME NEW e \in Elements, NEW o \in Nat, NEW n \in Nat, NEW m \in Nat, NEW k \in Nat, m + k <= n
    PROVE  Part(Slice(e, o, n), m, k) = Slice(e, o + m, k)
  <1>1. PICK s : s = Slice(e, o, n)
      BY Zenon
  <1>2. s \in Seq(Elem) /\ Len(s) = n
      BY <1>1, SliceLen, Zenon
  <1>3. \A i \in 1..n : s[i] = e[o + i - 1]
      BY <1>1, Zenon DEF Slice
  <1>4. SubSeq(s, m + 1, m + k) = [i \in 1..k |-> s[m + i]]
    <2>1. SubSeq(s, m + 1, m + k) = [i \in 1..((m + k) - (m + 1) + 1) |-> s[i + (m + 1) - 1]]
        BY <1>2
    <2>2. (m + k) - (m + 1) + 1 = k /\ \A i \in 1..k : i + (m + 1) - 1 = m + i
        OBVIOUS
    <2> QED BY <2>1, <2>2, Zenon
  <1>5. \A i \in 1..k : m + i \in 1..n /\ o + (m + i) - 1 = (o + m) + i - 1
      OBVIOUS
  <1> QED BY <1>1, <1>3, <1>4, <1>5, Zenon DEF Slice, Part

\* collective_inclusive_group_scan, on the host and on devices.
LEMMA CollectiveScanCorrect ==
    ASSUME OpAssociative, NEW c, NEW e \in Elements, NEW o \in Nat, NEW n \in Nat \ {0}
    PROVE  CollectiveScan(c, Slice(e, o, n)) = ScanOf(e, o, n)
  <1>1. SequentialScan(Slice(e, o, n)) = ScanOf(e, o, n)
      BY SequentialScanCorrect, Zenon
  <1>2. Len(Slice(e, o, n)) = n
      BY SliceLen, Zenon
  <1>3. KoggeStoneScan(Slice(e, o, n)) = ScanOf(e, o, n)
      BY <1>2, KoggeStoneScanCorrect, Zenon
  <1> QED BY <1>1, <1>3, Zenon DEF CollectiveScan

\* iterate_and_inclusive_group_scan carries the last sum of an invocation over
\* to the next one.
LEMMA IteratedScanCorrect ==
    ASSUME OpAssociative, NEW c, c.work \in Nat \ {0}, GroupSize \in Nat \ {0},
           NEW e \in Elements, NEW o \in Nat
    PROVE  IteratedScan(c, Slice(e, o, GroupSize * c.work)) = ScanOf(e, o, GroupSize * c.work)
  <1>1. PICK size, work : size = GroupSize /\ work = c.work
      BY Zenon
  <1>2. size \in Nat \ {0} /\ work \in Nat \ {0} /\ size * work \in Nat
      BY <1>1, Products, Zenon
  <1>3. PICK elems : elems = Slice(e, o, size * work)
      BY Zenon
  <1> DEFINE part(k) == CollectiveScan(c, SubSeq(elems, k * size + 1, (k + 1) * size))
             Loop(f) == [k \in 0..(work - 1) |->
                            IF k = 0 THEN part(k)
                            ELSE [l \in DOMAIN part(k) |-> Op(f[k - 1][size], part(k)[l])]]
             F(f) == f = Loop(f)
             result == CHOOSE f : F(f)
             sums == [k \in 0..(work - 1) |-> [l \in 1..size |-> Sum(e, o, o + k * size + l - 1)]]
  <1>4. IteratedScan(c, elems) =
            [i \in 1..(size * work) |-> result[(i - 1) \div size][((i - 1) % size) + 1]]
      BY <1>1 DEF IteratedScan, Items
  <1>5. \A k \in 0..(work - 1) : k * size \in Nat /\ k * size + size <= size * work
    <2> TAKE k \in 0..(work - 1)
    <2>1. k * size \in Nat /\ (k + 1) * size = k * size + size
        BY <1>2, Products
    <2>2. (k + 1) * size <= work * size /\ work * size = size * work
        BY <1>2, Products
    <2> QED BY <2>1, <2>2, Zenon
  <1>6. ASSUME NEW k \in 0..(work - 1) PROVE part(k) = ScanOf(e, o + k * size, size)
    <2>1. PICK m \in Nat : m = k * size /\ (k + 1) * size = m + size /\ m + size <= size * work
      <3>1. (k + 1) * size = k * size + size
          BY <1>2, Products
      <3> QED BY <1>5, <3>1, Zenon
    <2>2. SubSeq(elems, m + 1, m + size) = Slice(e, o + m, size)
      <3>1. PICK n \in Nat : n = size * work
          BY <1>2, Zenon
      <3>2. m + size <= n /\ size \in Nat
          BY ONLY <1>2, <2>1, <3>1, Zenon
      <3>3. Part(Slice(e, o, n), m, size) = Slice(e, o + m, size)
          BY ONLY e \in Elements, o \in Nat, n \in Nat, m \in Nat, <3>2, SubSlice
      <3> QED BY ONLY <1>3, <3>1, <3>3, Zenon DEF Part
    <2>3. CollectiveScan(c, Slice(e, o + m, size)) = ScanOf(e, o + m, size)
        BY <1>2, CollectiveScanCorrect
    <2> QED BY <2>1, <2>2, <2>3, Zenon
  <1> HIDE DEF part
  <1>7. sums[0] = part(0)
    <2>1. 0 \in 0..(work - 1) /\ 0 * size = 0 /\ o + 0 = o
        BY <1>2
    <2>2. part(0) = ScanOf(e, o, size)
        BY <1>6, <2>1, Zenon
    <2> QED BY <2>1, <2>2, Zenon DEF ScanOf
  <1>8. ASSUME NEW k \in 0..(work - 1), k # 0
        PROVE  sums[k] = [l \in DOMAIN part(k) |-> Op(sums[k - 1][size], part(k)[l])]
    <2>1. PICK m \in Nat : m = k * size
        BY <1>5, Zenon
    <2>2. PICK j \in Nat : j = k - 1
        BY <1>8
    <2>3. j \in 0..(work - 1) /\ j * size + size = m /\ size \in 1..size
      <3>1. j \in 0..(work - 1) /\ size \in 1..size /\ k = j + 1
          BY <1>2, <1>8, <2>2
      <3>2. (j + 1) * size = j * size + size
          BY <1>2, Products, Zenon
      <3> QED BY <2>1, <3>1, <3>2, Zenon
    <2>4. PICK b \in Nat : b = o + m - 1 /\ o <= b
      <3>1. m >= size /\ j * size \in Nat
          BY <1>2, <1>5, <2>3
      <3>2. o + m - 1 \in Nat /\ o <= o + m - 1
          BY <1>2, <3>1
      <3> QED BY <3>2, Zenon
    <2>5. sums[k - 1][size] = Sum(e, o, b)
      <3>1. sums[j][size] = Sum(e, o, o + j * size + size - 1)
          BY <2>3, Zenon
      <3>2. o + j * size + size - 1 = b
          BY <1>2, <1>5, <2>3, <2>4
      <3> QED BY <2>2, <3>1, <3>2, Zenon
    <2>6. DOMAIN part(k) = 1..size
          /\ \A l \in 1..size : part(k)[l] = Sum(e, o + m, (o + m) + l - 1)
        BY <1>6, <2>1, Zenon DEF ScanOf
    <2>7. ASSUME NEW l \in 1..size PROVE Op(Sum(e, o, b), part(k)[l]) = Sum(e, o, o + m + l - 1)
      <3>1. PICK x \in Nat : x = o + m + l - 1
          OBVIOUS
      <3>2. o + m = b + 1 /\ b < x /\ (o + m) + l - 1 = x
          BY <2>4, <3>1
      <3>3. Op(Sum(e, o, b), Sum(e, b + 1, x)) = Sum(e, o, x)
          BY <2>4, <3>2, SumJoin
      <3> QED BY <2>6, <3>1, <3>2, <3>3, Zenon
    <2>8. sums[k] = [l \in 1..size |-> Sum(e, o, o + m + l - 1)]
        BY <2>1, Zenon
    <2> HIDE DEF sums
    <2> QED BY <2>5, <2>6, <2>7, <2>8, Zenon
  <1> HIDE DEF sums
  <1>9. F(sums)
    <2>1. sums = [k \in 0..(work - 1) |-> sums[k]]
        BY Zenon DEF sums
    <2>2. \A k \in 0..(work - 1) : sums[k] = Loop(sums)[k]
        BY <1>7, <1>8, Zenon
    <2>3. Loop(sums) = [k \in 0..(work - 1) |-> Loop(sums)[k]]
        BY Zenon
    <2> HIDE DEF Loop
    <2> QED BY <2>1, <2>2, <2>3, Zenon
  <1>10. F(result)
    <2> HIDE DEF F
    <2> QED BY <1>9, Zenon
  <1> HIDE DEF result
  <1>11. /\ result[0] = part(0)
         /\ \A k \in 0..(work - 1) : k # 0 =>
                result[k] = [l \in DOMAIN part(k) |-> Op(result[k - 1][size], part(k)[l])]
    <2>1. /\ Loop(result)[0] = part(0)
          /\ \A k \in 0..(work - 1) : k # 0 =>
                 Loop(result)[k] = [l \in DOMAIN part(k) |-> Op(result[k - 1][size], part(k)[l])]
        BY <1>2
    <2> HIDE DEF Loop
    <2> QED BY <1>10, <2>1, Zenon
  <1> DEFINE S == {k \in Nat : k <= work - 1 => result[k] = sums[k]}
  <1> HIDE DEF F
  <1>12. 0 \in S
      BY <1>7, <1>11, Zenon
  <1>13. ASSUME NEW k \in Nat, k \in S PROVE k + 1 \in S
    <2> SUFFICES ASSUME k + 1 <= work - 1 PROVE result[k + 1] = sums[k + 1]
        OBVIOUS
    <2>1. k + 1 \in 0..(work - 1) /\ k + 1 # 0 /\ (k + 1) - 1 = k /\ k <= work - 1
        BY <1>2
    <2>2. result[k] = sums[k]
        BY <1>13, <2>1, Zenon
    <2>3. result[k + 1] = [l \in DOMAIN part(k + 1) |-> Op(result[k][size], part(k + 1)[l])]
        BY ONLY <1>11, <2>1, Zenon
    <2>4. sums[k + 1] = [l \in DOMAIN part(k + 1) |-> Op(sums[k][size], part(k + 1)[l])]
        BY ONLY <1>8, <2>1, Zenon
    <2> QED BY ONLY <2>2, <2>3, <2>4, Zenon
  <1>14. Nat \subseteq S
    <2> HIDE DEF S
    <2> QED BY <1>12, <1>13, SetInduction, Zenon
  <1>15. ASSUME NEW i \in 1..(size * work)
         PROVE  result[(i - 1) \div size][((i - 1) % size) + 1] = Sum(e, o, o + i - 1)
    <2>1. PICK x \in Nat : x = i - 1
        OBVIOUS
    <2>2. PICK q, m : q = x \div size /\ m = x % size
        BY Zenon
    <2>3. q \in Nat /\ m \in 0..(size - 1) /\ x = size * q + m
        BY ONLY <1>2, <2>1, <2>2, x \in Nat, DivMod, Zenon
    <2>4. q \in 0..(work - 1)
      <3>1. size * q < size * work
          BY <1>2, <2>1, <2>3
      <3>2. ASSUME work <= q PROVE work * size <= q * size
          BY <1>2, <2>3, <3>2, Products, Zenon
      <3>3. work * size = size * work /\ q * size = size * q
          BY <1>2, <2>3
      <3>4. q < work
          BY <1>2, <2>3, <3>1, <3>2, <3>3
      <3> QED BY <1>2, <2>3, <3>4
    <2>5. result[q] = sums[q]
        BY <1>14, <2>4
    <2>6. m + 1 \in 1..size
        BY <1>2, <2>3
    <2>7. sums[q][m + 1] = Sum(e, o, o + q * size + (m + 1) - 1)
        BY <2>4, <2>6, Zenon DEF sums
    <2>8. o + q * size + (m + 1) - 1 = o + i - 1
        BY <1>2, <2>1, <2>3
    <2> QED BY <2>1, <2>2, <2>5, <2>7, <2>8, Zenon
  <1>16. IteratedScan(c, elems) = ScanOf(e, o, size * work)
      BY <1>4, <1>15, Zenon DEF ScanOf
  <1> QED BY <1>1, <1>3, <1>16, Zenon

-----------------------------------------------------------------------------
(* Groups and their elements                                               *)

\* Elements per group, and the elements of a call with those beyond its end.
Width(c) == GroupSize * c.work
Loaded(c) == [id \in Nat |-> LoadDataElement(c, Input, id)]

\* Sizes of a call.
LEMMA Sizes ==
    ASSUME NEW c \in Configs
    PROVE  /\ GroupSize \in Nat \ {0} /\ c.work \in Nat \ {0} /\ c.size \in Nat \ {0}
           /\ Width(c) \in Nat \ {0} /\ Items(c) = 1..Width(c)
           /\ NumGroups(c) \in Nat \ {0} /\ GroupsOf(c) = 0..(NumGroups(c) - 1)
           /\ c.size <= NumGroups(c) * Width(c)
           /\ \A g \in GroupsOf(c) : g * Width(c) \in Nat
           /\ \A g \in GroupsOf(c) : g * Width(c) + Width(c) <= NumGroups(c) * Width(c)
  <1>1. GroupSize \in Nat \ {0} /\ c.work \in Nat \ {0} /\ c.size \in Nat \ {0}
      BY ScanAssumption, Zenon
  <1>2. Width(c) \in Nat \ {0}
      BY <1>1, Products, Zenon DEF Width
  <1>3. PICK q : q = CeilDiv(c.size, c.work)
      BY Zenon
  <1>4. q \in Nat \ {0} /\ c.size <= q * c.work
      BY <1>1, <1>3, CeilDivEnough, Zenon
  <1>5. PICK n : n = CeilDiv(q, GroupSize)
      BY Zenon
  <1>6. n \in Nat \ {0} /\ q <= n * GroupSize
      BY <1>1, <1>4, <1>5, CeilDivEnough, Zenon
  <1>7. n = NumGroups(c)
      BY <1>3, <1>5, Zenon DEF NumGroups
  <1>8. c.size <= n * Width(c)
    <2>1. n * GroupSize \in Nat
        BY <1>1, <1>6, Products, Zenon
    <2>2. q * c.work <= (n * GroupSize) * c.work
        BY <1>1, <1>4, <1>6, <2>1, Products, Zenon
    <2>3. (n * GroupSize) * c.work = n * (GroupSize * c.work)
        BY <1>1, <1>6, Products
    <2>4. q * c.work \in Nat /\ n * (GroupSize * c.work) \in Nat
        BY <1>1, <1>2, <1>4, <1>6, Products, Zenon DEF Width
    <2> QED BY <1>1, <1>4, <2>2, <2>3, <2>4 DEF Width
  <1>9. PICK w : w = Width(c)
      BY Zenon
  <1>10. ASSUME NEW g \in 0..(n - 1) PROVE g * w \in Nat /\ g * w + w <= n * w
    <2>1. g \in Nat /\ g + 1 \in Nat /\ g + 1 <= n /\ n \in Nat /\ w \in Nat
        BY <1>2, <1>6, <1>9
    <2>2. (g + 1) * w <= n * w /\ (g + 1) * w = g * w + w /\ g * w \in Nat
        BY <2>1, Products, Zenon
    <2> QED BY <2>2, Zenon
  <1> QED BY <1>1, <1>2, <1>6, <1>7, <1>8, <1>9, <1>10, Zenon DEF Items, GroupsOf, Width

\* Every group has an element of the input.
LEMMA NoEmptyGroup ==
    ASSUME NEW c \in Configs, NEW g \in GroupsOf(c)
    PROVE  g * Width(c) < c.size
  <1>1. PICK q, n : q = CeilDiv(c.size, c.work) /\ n = CeilDiv(q, GroupSize)
      BY Zenon
  <1>2. GroupSize \in Nat \ {0} /\ c.work \in Nat \ {0} /\ c.size \in Nat \ {0}
      BY Sizes, Zenon
  <1>3. q \in Nat \ {0}
      BY <1>1, <1>2, CeilDivEnough, Zenon
  <1>4. n \in Nat \ {0} /\ g \in Nat /\ g <= n - 1
      BY <1>1, <1>2, <1>3, CeilDivEnough DEF GroupsOf, NumGroups
  <1>5. (q - 1) * c.work < c.size
      BY <1>1, <1>2, CeilDivLeast, Zenon
  <1>6. (n - 1) * GroupSize < q
      BY <1>1, <1>2, <1>3, CeilDivLeast, Zenon
  <1>7. g * GroupSize <= (n - 1) * GroupSize
      BY <1>2, <1>4, Products
  <1>8. PICK p \in Nat : p = g * GroupSize
      BY <1>2, <1>4, Products, Zenon
  <1>9. p <= q - 1
      BY <1>2, <1>3, <1>4, <1>6, <1>7, <1>8
  <1>10. p * c.work <= (q - 1) * c.work
      BY <1>2, <1>3, <1>8, <1>9, Products
  <1>11. g * Width(c) = p * c.work
      BY <1>2, <1>4, <1>8, Products DEF Width
  <1>12. p * c.work \in Nat /\ (q - 1) * c.work \in Nat
      BY <1>2, <1>3, <1>8, Products
  <1> QED BY <1>2, <1>5, <1>10, <1>11, <1>12

\* Both kernels number the elements without gaps.
LEMMA GlobalIds ==
    ASSUME NEW c \in Configs, NEW g \in GroupsOf(c), NEW i \in Items(c)
    PROVE  GlobalId(c, g, i) = g * Width(c) + i - 1
  <1>1. /\ GroupSize \in Nat /\ c.work \in Nat /\ Width(c) \in Nat \ {0} /\ i \in 1..Width(c)
        /\ NumGroups(c) \in Nat /\ g \in Nat /\ g * Width(c) \in Nat
        /\ g * Width(c) + Width(c) <= NumGroups(c) * Width(c)
      BY Sizes
  <1>2. CASE c.flat
    <2>1. c.work = 1
        BY <1>2, ScanAssumption, Zenon
    <2>2. Width(c) = GroupSize
        BY <1>1, <2>1 DEF Width
    <2> QED BY <1>2, <2>2, Zenon DEF GlobalId
  <1>3. CASE ~ c.flat
    <2>1. NumGroups(c) * Width(c) <= WordSize /\ WordSize \in Nat
        BY <1>3, ScanAssumption, Zenon DEF Width
    <2>2. PICK m, p \in Nat : m = g * Width(c) /\ p = NumGroups(c) * Width(c)
        BY <1>1, Products, Zenon
    <2>3. g * GroupSize * c.work = m
        BY <1>1, <2>2, Products DEF Width
    <2>4. m + i - 1 \in Nat /\ m + i - 1 < WordSize
        BY <1>1, <2>1, <2>2
    <2>5. (m + i - 1) % WordSize = m + i - 1
        BY <2>1, <2>4, SmallMod, Zenon
    <2> QED BY <1>3, <2>2, <2>3, <2>5, Zenon DEF GlobalId
  <1> QED BY <1>2, <1>3, Zenon

\* Work items beyond the end load elements as well.
LEMMA LoadedElements ==
    ASSUME OpAssociative, NEW c \in Configs
    PROVE  Loaded(c) \in Elements
  <1>1. ASSUME NEW id \in Nat PROVE Gen(c, Input, id) \in Elem
    <2>1. c.size \in Nat \ {0} /\ 0..(c.size - 1) \subseteq DOMAIN Input
        BY ScanAssumption, Zenon
    <2>2. (IF id >= c.size THEN c.size - 1 ELSE id) \in 0..(c.size - 1)
        BY <2>1
    <2> QED BY <2>1, <2>2, ScanAssumption, Zenon DEF Gen
  <1>2. ASSUME NEW id \in Nat PROVE LoadDataElement(c, Input, id) \in Elem
    <2>1. InitValue \in Elem
        BY ScanAssumption, Zenon
    <2>2. Op(InitValue, Gen(c, Input, id)) \in Elem
        BY <1>1, <2>1, Zenon DEF OpAssociative
    <2>3. CASE id = 0
        BY <1>1, <2>1, <2>2, <2>3, Zenon DEF LoadDataElement
    <2>4. CASE id # 0
      <3>1. Gen(c, Input, id - 1) \in Elem /\ Gen(c, Input, id) \in Elem
          BY <1>1, <2>4
      <3> QED BY <2>4, <3>1, Zenon DEF LoadDataElement
    <2> QED BY <2>3, <2>4, Zenon
  <1> QED BY <1>2, Zenon DEF Loaded, Elements

\* A group computes the sums of its own elements, whichever kernel scans them.
LEMMA LocalScanCorrect ==
    ASSUME OpAssociative, NEW c \in Configs, NEW g \in GroupsOf(c)
    PROVE  LocalScan(c, Input, g) = ScanOf(Loaded(c), g * Width(c), Width(c))
  <1>1. PICK e, o, n : e = Loaded(c) /\ o = g * Width(c) /\ n = Width(c)
      BY Zenon
  <1>2. /\ o \in Nat /\ n \in Nat \ {0} /\ Items(c) = 1..n
        /\ GroupSize \in Nat \ {0} /\ c.work \in Nat \ {0}
      BY <1>1, Sizes, Zenon
  <1>3. e \in Elements
      BY <1>1, LoadedElements, Zenon
  <1>4. PICK elems : elems = [i \in Items(c) |-> LoadDataElement(c, Input, GlobalId(c, g, i))]
      BY Zenon
  <1>5. elems = Slice(e, o, n)
    <2>1. ASSUME NEW i \in 1..n PROVE LoadDataElement(c, Input, GlobalId(c, g, i)) = e[o + i - 1]
      <3>1. GlobalId(c, g, i) = o + i - 1 /\ o + i - 1 \in Nat
          BY <1>1, <1>2, GlobalIds
      <3> QED BY <1>1, <3>1, Zenon DEF Loaded
    <2> QED BY <1>2, <1>4, <2>1, Zenon DEF Slice
  <1>6. SequentialScan(elems) = ScanOf(e, o, n)
      BY <1>2, <1>3, <1>5, SequentialScanCorrect, Zenon
  <1>7. IteratedScan(c, elems) = ScanOf(e, o, n)
    <2>1. n = GroupSize * c.work
        BY <1>1, Zenon DEF Width
    <2> QED BY <1>2, <1>3, <1>5, <2>1, IteratedScanCorrect, Zenon
  <1>8. LocalScan(c, Input, g) = IF c.host /\ ~c.flat THEN SequentialScan(elems) ELSE IteratedScan(c, elems)
      BY <1>4, Zenon DEF LocalScan
  <1> QED BY <1>1, <1>6, <1>7, <1>8, Zenon

\* The aggregate of a group is the sum of its elements.
LEMMA AggregateCorrect ==
    ASSUME OpAssociative, NEW c \in Configs, NEW g \in GroupsOf(c)
    PROVE  /\ GroupAggregate(c, g) = Sum(Loaded(c), g * Width(c), g * Width(c) + Width(c) - 1)
           /\ GroupAggregate(c, g) \in Elem
           /\ \A i \in Items(c) : LocalScan(c, Input, g)[i] \in Elem
  <1>1. PICK e, o, n : e = Loaded(c) /\ o = g * Width(c) /\ n = Width(c)
      BY Zenon
  <1>2. o \in Nat /\ n \in Nat \ {0} /\ Items(c) = 1..n
      BY <1>1, Sizes, Zenon
  <1>3. e \in Elements
      BY <1>1, LoadedElements, Zenon
  <1>4. LocalScan(c, Input, g) = ScanOf(e, o, n)
      BY <1>1, LocalScanCorrect, Zenon
  <1>5. /\ ScanOf(e, o, n) \in [1..n -> Elem]
        /\ \A i \in 1..n : ScanOf(e, o, n)[i] = Sum(e, o, o + i - 1)
    <2>1. n \in Nat
        BY <1>2, Zenon
    <2>2. o \in Nat
        BY <1>2, Zenon
    <2> QED BY ONLY OpAssociative, <1>3, <2>1, <2>2, Slices, ZenonT(30)
  <1>6. n \in 1..n
      BY <1>2
  <1>7. GroupAggregate(c, g) = ScanOf(e, o, n)[n]
      BY <1>1, <1>4, Zenon DEF GroupAggregate, Width
  <1> QED BY <1>1, <1>2, <1>4, <1>5, <1>6, <1>7

\* The prefix of a group is the sum of all elements up to its last.
LEMMA PrefixIsSum ==
    ASSUME OpAssociative, NEW c \in Configs
    PROVE  /\ GroupPrefix[c][0] = GroupAggregate(c, 0)
           /\ \A g \in GroupsOf(c) \ {0} :
                  GroupPrefix[c][g] = Op(GroupPrefix[c][g - 1], GroupAggregate(c, g))
           /\ \A g \in GroupsOf(c) :
                  GroupPrefix[c][g] = Sum(Loaded(c), 0, g * Width(c) + Width(c) - 1)
  <1>1. PICK e, w, n : e = Loaded(c) /\ w = Width(c) /\ n = NumGroups(c)
      BY Zenon
  <1>2. /\ w \in Nat \ {0} /\ n \in Nat \ {0} /\ GroupsOf(c) = 0..(n - 1)
        /\ \A g \in GroupsOf(c) : g * w \in Nat
      BY <1>1, Sizes, Zenon
  <1>3. e \in Elements
      BY <1>1, LoadedElements, Zenon
  <1> DEFINE Loop(f) == [g \in GroupsOf(c) |-> IF g = 0 THEN GroupAggregate(c, 0)
                                               ELSE Op(f[g - 1], GroupAggregate(c, g))]
             F(f) == f = Loop(f)
             p == CHOOSE f : F(f)
             sums == [g \in GroupsOf(c) |-> Sum(e, 0, g * w + w - 1)]
  <1>4. GroupPrefix[c] = p
      BY Zenon DEF GroupPrefix
  <1>5. 0 \in GroupsOf(c) /\ sums[0] = GroupAggregate(c, 0)
    <2>1. 0 \in GroupsOf(c) /\ 0 * w = 0 /\ 0 + w - 1 = w - 1
        BY <1>2
    <2>2. GroupAggregate(c, 0) = Sum(e, 0 * w, 0 * w + w - 1)
        BY <1>1, <2>1, AggregateCorrect, Zenon
    <2> QED BY <2>1, <2>2, Zenon
  <1>6. ASSUME NEW g \in GroupsOf(c) \ {0}
        PROVE  sums[g] = Op(sums[g - 1], GroupAggregate(c, g))
    <2>1. PICK h \in Nat : h = g - 1
        BY <1>2
    <2>2. PICK m \in Nat : m = g * w
        BY <1>2, Zenon
    <2>3. h \in GroupsOf(c) /\ h * w + w = m /\ h * w \in Nat
      <3>1. h \in GroupsOf(c) /\ g = h + 1 /\ w \in Nat
          BY <1>2, <2>1
      <3>2. (h + 1) * w = h * w + w
          BY <3>1, Products, Zenon
      <3> QED BY <1>2, <2>2, <3>1, <3>2, Zenon
    <2>4. PICK b, d \in Nat : b = m - 1 /\ d = m + w - 1
      <3>1. m - 1 \in Nat /\ m + w - 1 \in Nat
          BY <1>2, <2>3
      <3> QED BY <3>1, Zenon
    <2>5. b + 1 = m /\ b < d /\ 0 <= b
        BY <1>2, <2>4
    <2>6. sums[h] = Sum(e, 0, b)
      <3>1. sums[h] = Sum(e, 0, h * w + w - 1)
          BY <2>3, Zenon
      <3>2. PICK x \in Nat : x = h * w
          BY <2>3, Zenon
      <3>3. x + w = m /\ w \in Nat
          BY <1>2, <2>3, <3>2, Zenon
      <3>4. x + w - 1 = b
          BY <2>4, <3>3
      <3> QED BY <3>1, <3>2, <3>4, Zenon
    <2>7. GroupAggregate(c, g) = Sum(e, b + 1, d)
      <3>1. GroupAggregate(c, g) = Sum(e, m, m + w - 1)
          BY <1>1, <2>2, AggregateCorrect, Zenon
      <3> QED BY <2>4, <2>5, <3>1, Zenon
    <2>8. sums[g] = Sum(e, 0, d)
        BY <2>2, <2>4, Zenon
    <2>9. Op(Sum(e, 0, b), Sum(e, b + 1, d)) = Sum(e, 0, d)
        BY <1>3, <2>5, SumJoin, Zenon
    <2> HIDE DEF sums
    <2> QED BY <2>1, <2>6, <2>7, <2>8, <2>9, Zenon
  <1>7. F(sums)
    <2>1. \A g \in GroupsOf(c) : sums[g] = Loop(sums)[g]
      <3> HIDE DEF sums
      <3> QED BY <1>5, <1>6, Zenon
    <2>2. sums = [g \in GroupsOf(c) |-> sums[g]] /\ Loop(sums) = [g \in GroupsOf(c) |-> Loop(sums)[g]]
        OBVIOUS
    <2> HIDE DEF Loop, sums
    <2> QED BY <2>1, <2>2, Zenon
  <1>8. F(p)
    <2> HIDE DEF F
    <2> QED BY <1>7, Zenon
  <1> HIDE DEF p, sums
  <1>9. /\ p[0] = GroupAggregate(c, 0)
        /\ \A g \in GroupsOf(c) \ {0} : p[g] = Op(p[g - 1], GroupAggregate(c, g))
    <2>1. /\ Loop(p)[0] = GroupAggregate(c, 0)
          /\ \A g \in GroupsOf(c) \ {0} : Loop(p)[g] = Op(p[g - 1], GroupAggregate(c, g))
        BY <1>5, Zenon
    <2> HIDE DEF Loop
    <2> QED BY <1>8, <2>1, Zenon
  <1> DEFINE S == {g \in Nat : g <= n - 1 => p[g] = sums[g]}
  <1> HIDE DEF F
  <1>10. 0 \in S
      BY <1>5, <1>9, Zenon
  <1>11. ASSUME NEW g \in Nat, g \in S PROVE g + 1 \in S
    <2> SUFFICES ASSUME g + 1 <= n - 1 PROVE p[g + 1] = sums[g + 1]
        OBVIOUS
    <2>1. g + 1 \in GroupsOf(c) \ {0} /\ (g + 1) - 1 = g /\ g <= n - 1
        BY <1>2
    <2>2. p[g] = sums[g]
        BY <1>11, <2>1, Zenon
    <2> QED BY <1>6, <1>9, <2>1, <2>2, Zenon
  <1>12. Nat \subseteq S
    <2> HIDE DEF S
    <2> QED BY <1>10, <1>11, SetInduction, Zenon
  <1>13. ASSUME NEW g \in GroupsOf(c) PROVE p[g] = Sum(e, 0, g * w + w - 1)
    <2>1. g \in S /\ g <= n - 1
        BY <1>2, <1>12
    <2>2. sums[g] = Sum(e, 0, g * w + w - 1)
        BY Zenon DEF sums
    <2> QED BY <2>1, <2>2, Zenon
  <1> QED BY <1>1, <1>4, <1>9, <1>13, Zenon

\* The result of a group for its i-th element, combined with what precedes it.
LEMMA ResultIsSum ==
    ASSUME OpAssociative, NEW c \in Configs, NEW g \in GroupsOf(c), NEW i \in Items(c)
    PROVE  (IF g = 0 THEN LocalScan(c, Input, g)[i]
            ELSE Op(GroupPrefix[c][g - 1], LocalScan(c, Input, g)[i]))
               = Sum(Loaded(c), 0, GlobalId(c, g, i))
  <1>1. PICK e, w, o : e = Loaded(c) /\ w = Width(c) /\ o = g * Width(c)
      BY Zenon
  <1>2. w \in Nat \ {0} /\ o \in Nat /\ i \in 1..w /\ g \in Nat /\ GroupsOf(c) = 0..(NumGroups(c) - 1)
        /\ NumGroups(c) \in Nat
      BY <1>1, Sizes
  <1>3. e \in Elements
      BY <1>1, LoadedElements, Zenon
  <1>4. LocalScan(c, Input, g)[i] = Sum(e, o, o + i - 1)
      BY <1>1, <1>2, LocalScanCorrect, Zenon DEF ScanOf
  <1>5. GlobalId(c, g, i) = o + i - 1
      BY <1>1, GlobalIds, Zenon
  <1>6. CASE g = 0
    <2>1. o = 0
        BY <1>1, <1>2, <1>6
    <2> QED BY <1>1, <1>4, <1>5, <1>6, <2>1, Zenon
  <1>7. CASE g # 0
    <2>1. PICK h \in GroupsOf(c) : h = g - 1
        BY <1>2, <1>7
    <2>2. h * w + w = o /\ h * w \in Nat
      <3>1. h \in Nat /\ g = h + 1 /\ w \in Nat
          BY <1>2, <2>1
      <3>2. (h + 1) * w = h * w + w /\ h * w \in Nat
          BY <3>1, Products, Zenon
      <3> QED BY <1>1, <3>1, <3>2, Zenon
    <2>3. PICK b, d \in Nat : b = o - 1 /\ d = o + i - 1
      <3>1. o - 1 \in Nat /\ o + i - 1 \in Nat
          BY <1>2, <2>2
      <3> QED BY <3>1, Zenon
    <2>4. b + 1 = o /\ b < d /\ 0 <= b
        BY <1>2, <2>3
    <2>5. GroupPrefix[c][h] = Sum(e, 0, b)
      <3>1. GroupPrefix[c][h] = Sum(e, 0, h * w + w - 1)
          BY <1>1, PrefixIsSum, Zenon
      <3>2. PICK x \in Nat : x = h * w
          BY <2>2, Zenon
      <3>3. x + w = o /\ w \in Nat
          BY <1>2, <2>2, <3>2, Zenon
      <3>4. x + w - 1 = b
          BY <2>3, <3>3
      <3> QED BY <3>1, <3>2, <3>4, Zenon
    <2>6. Op(Sum(e, 0, b), Sum(e, b + 1, d)) = Sum(e, 0, d)
        BY <1>3, <2>4, SumJoin, Zenon
    <2> QED BY <1>1, <1>4, <1>5, <1>7, <2>1, <2>3, <2>4, <2>5, <2>6, Zenon
  <1> QED BY <1>6, <1>7, Zenon

\* What the elements of a call are.
LEMMA LoadedFacts ==
    ASSUME NEW c \in Configs
    PROVE  /\ Loaded(c)[0] = IF c.inclusive /\ ~c.init THEN Input[0]
                             ELSE IF c.inclusive THEN Op(InitValue, Input[0]) ELSE InitValue
           /\ \A id \in 1..(c.size - 1) :
                  Loaded(c)[id] = Input[IF c.inclusive THEN id ELSE id - 1]
  <1>1. c.size \in Nat \ {0}
      BY ScanAssumption, Zenon
  <1>2. Loaded(c)[0] = LoadDataElement(c, Input, 0) /\ Gen(c, Input, 0) = Input[0]
      BY <1>1 DEF Loaded, Gen
  <1>3. ASSUME NEW id \in 1..(c.size - 1)
        PROVE  Loaded(c)[id] = Input[IF c.inclusive THEN id ELSE id - 1]
    <2>1. /\ id \in Nat /\ id # 0 /\ id - 1 \in Nat
          /\ Gen(c, Input, id) = Input[id] /\ Gen(c, Input, id - 1) = Input[id - 1]
        BY <1>1 DEF Gen
    <2>2. Loaded(c)[id] = LoadDataElement(c, Input, id)
        BY <2>1, Zenon DEF Loaded
    <2> QED BY <2>1, <2>2, Zenon DEF LoadDataElement
  <1> QED BY <1>2, <1>3, Zenon DEF LoadDataElement

\* The sequential definition is the sum of the elements that the groups load.
LEMMA ReferenceIsSum ==
    ASSUME OpAssociative, config \in Configs
    PROVE  \A id \in 0..(config.size - 1) : Reference[id] = Sum(Loaded(config), 0, id)
  <1>1. PICK c, e, n : c = config /\ e = Loaded(config) /\ n = config.size
      BY Zenon
  <1>2. n \in Nat \ {0} /\ c \in Configs
      BY <1>1, ScanAssumption, Zenon
  <1>3. e \in Elements
      BY <1>1, LoadedElements, Zenon
  <1> DEFINE first == IF config.inclusive /\ ~config.init THEN Input[0]
                      ELSE IF config.inclusive THEN Op(InitValue, Input[0]) ELSE InitValue
             elem(id) == Input[IF config.inclusive THEN id ELSE id - 1]
             Loop(f) == [id \in 0..(config.size - 1) |->
                            IF id = 0 THEN first ELSE Op(f[id - 1], elem(id))]
             F(f) == f = Loop(f)
             sum == CHOOSE f : F(f)
             sums == [id \in 0..(config.size - 1) |-> Sum(e, 0, id)]
  <1>4. Reference = sum
      BY Zenon DEF Reference
  <1>5. e[0] = first /\ \A id \in 1..(n - 1) : e[id] = elem(id)
      BY <1>1, <1>2, LoadedFacts, Zenon
  <1> HIDE DEF first, elem
  <1>6. sums[0] = first
    <2>1. Sum(e, 0, 0) = e[0]
        BY <1>3, SumFacts, Zenon
    <2> QED BY <1>1, <1>2, <1>5, <2>1
  <1>7. ASSUME NEW id \in 0..(n - 1), id # 0 PROVE sums[id] = Op(sums[id - 1], elem(id))
    <2>1. PICK b \in Nat : b = id - 1
        BY <1>7
    <2>2. b \in 0..(n - 1) /\ id = b + 1 /\ id \in 1..(n - 1) /\ 0 <= b
        BY <1>2, <1>7, <2>1
    <2>3. Sum(e, 0, b + 1) = Op(Sum(e, 0, b), e[b + 1])
        BY <1>3, <2>2, SumFacts, Zenon
    <2>4. sums[id] = Sum(e, 0, b + 1) /\ sums[b] = Sum(e, 0, b)
        BY <1>1, <2>2, Zenon
    <2> QED BY <1>5, <2>1, <2>2, <2>3, <2>4, Zenon
  <1> HIDE DEF sums
  <1>8. F(sums)
    <2>1. \A id \in 0..(config.size - 1) : sums[id] = Loop(sums)[id]
        BY <1>1, <1>6, <1>7, Zenon
    <2>2. /\ sums = [id \in 0..(config.size - 1) |-> sums[id]]
          /\ Loop(sums) = [id \in 0..(config.size - 1) |-> Loop(sums)[id]]
        BY DEF sums
    <2> HIDE DEF Loop
    <2> QED BY <2>1, <2>2, Zenon
  <1>9. F(sum)
    <2> HIDE DEF F
    <2> QED BY <1>8, Zenon
  <1> HIDE DEF sum
  <1>10. sum[0] = first /\ \A id \in 0..(n - 1) : id # 0 => sum[id] = Op(sum[id - 1], elem(id))
    <2>1. /\ Loop(sum)[0] = first
          /\ \A id \in 0..(n - 1) : id # 0 => Loop(sum)[id] = Op(sum[id - 1], elem(id))
        BY <1>1, <1>2
    <2> HIDE DEF Loop
    <2> QED BY <1>9, <2>1, Zenon
  <1> DEFINE S == {k \in Nat : k <= n - 1 => sum[k] = sums[k]}
  <1> HIDE DEF F
  <1>11. 0 \in S
      BY <1>6, <1>10, Zenon
  <1>12. ASSUME NEW k \in Nat, k \in S PROVE k + 1 \in S
    <2> SUFFICES ASSUME k + 1 <= n - 1 PROVE sum[k + 1] = sums[k + 1]
        OBVIOUS
    <2>1. k + 1 \in 0..(n - 1) /\ k + 1 # 0 /\ (k + 1) - 1 = k /\ k <= n - 1
        BY <1>2
    <2>2. sum[k] = sums[k]
        BY <1>12, <2>1, Zenon
    <2> QED BY <1>7, <1>10, <2>1, <2>2, Zenon
  <1>13. Nat \subseteq S
    <2> HIDE DEF S
    <2> QED BY <1>11, <1>12, SetInduction, Zenon
  <1>14. ASSUME NEW id \in 0..(n - 1) PROVE sum[id] = Sum(e, 0, id)
    <2>1. id \in S /\ id <= n - 1
        BY <1>2, <1>13
    <2>2. sums[id] = Sum(e, 0, id)
        BY <1>1, Zenon DEF sums
    <2> QED BY <2>1, <2>2, Zenon
  <1> QED BY <1>1, <1>4, <1>14, Zenon

\* Every element belongs to a group.
LEMMA GroupOfElement ==
    ASSUME NEW c \in Configs, NEW id \in 0..(c.size - 1)
    PROVE  \E g \in GroupsOf(c) : \E i \in Items(c) : GlobalId(c, g, i) = id
  <1>1. PICK w, n : w = Width(c) /\ n = NumGroups(c)
      BY Zenon
  <1>2. /\ w \in Nat \ {0} /\ n \in Nat \ {0} /\ c.size \in Nat /\ c.size <= n * w
        /\ GroupsOf(c) = 0..(n - 1) /\ Items(c) = 1..w
      BY <1>1, Sizes, Zenon
  <1>3. PICK q, m : q = id \div w /\ m = id % w
      BY Zenon
  <1>4. id \in Nat
      BY <1>2
  <1>5. q \in Nat /\ m \in 0..(w - 1) /\ id = w * q + m
      BY ONLY <1>2, <1>3, <1>4, DivMod, Zenon
  <1>6. q \in 0..(n - 1)
    <2>1. q * w < n * w
        BY <1>2, <1>4, <1>5
    <2>2. ASSUME n <= q PROVE n * w <= q * w
        BY <1>2, <1>5, <2>2, Products, Zenon
    <2>3. q * w \in Nat /\ n * w \in Nat
        BY <1>2, <1>5, Products, Zenon
    <2>4. q < n
        BY <1>2, <1>5, <2>1, <2>2, <2>3
    <2> QED BY <1>2, <1>5, <2>4
  <1>7. m + 1 \in 1..w
      BY <1>2, <1>5
  <1>8. GlobalId(c, q, m + 1) = q * w + (m + 1) - 1
      BY <1>1, <1>2, <1>6, <1>7, GlobalIds, Zenon
  <1>9. q * w + (m + 1) - 1 = id
      BY <1>2, <1>5
  <1> QED BY <1>2, <1>6, <1>7, <1>8, <1>9, Zenon

\* An element belongs to one group.
LEMMA OneGroup ==
    ASSUME NEW c \in Configs, NEW g \in GroupsOf(c), NEW h \in GroupsOf(c),
           NEW i \in Items(c), NEW j \in Items(c), GlobalId(c, g, i) = GlobalId(c, h, j)
    PROVE  g = h
  <1>1. PICK w : w = Width(c)
      BY Zenon
  <1>2. w \in Nat \ {0} /\ g \in Nat /\ h \in Nat /\ i \in 1..w /\ j \in 1..w
    <2>1. /\ w \in Nat \ {0} /\ Items(c) = 1..w
          /\ NumGroups(c) \in Nat /\ GroupsOf(c) = 0..(NumGroups(c) - 1)
        BY <1>1, Sizes, Zenon
    <2> QED BY <2>1
  <1>3. g * w + i - 1 = h * w + j - 1
      BY <1>1, GlobalIds, Zenon
  <1>4. ASSUME NEW a \in Nat, NEW b \in Nat, a + 1 <= b PROVE a * w + w <= b * w
      BY <1>2, <1>4, Products
  <1>5. g * w \in Nat /\ h * w \in Nat
      BY <1>2, Products, Zenon
  <1>6. ~ (g + 1 <= h) /\ ~ (h + 1 <= g)
      BY <1>2, <1>3, <1>4, <1>5
  <1> QED BY <1>2, <1>6

\* A group scans the elements of the input if it finds these where it loads:
\* an inclusive scan loads elements of its group only, work items beyond the
\* end included.
LEMMA LocalLoads ==
    ASSUME NEW c \in Configs, NEW g \in GroupsOf(c), NEW d,
           \A i \in Items(c) : GlobalId(c, g, i) < c.size
                                   => d[GlobalId(c, g, i)] = Input[GlobalId(c, g, i)],
           c.inclusive \/ \A id \in DOMAIN Input : d[id] = Input[id]
    PROVE  LocalScan(c, d, g) = LocalScan(c, Input, g)
  <1>1. /\ c.size \in Nat \ {0} /\ 0..(c.size - 1) \subseteq DOMAIN Input
        /\ Width(c) \in Nat \ {0} /\ Items(c) = 1..Width(c) /\ g * Width(c) \in Nat
      BY Sizes, ScanAssumption, Zenon
  <1>2. ASSUME NEW i \in Items(c)
        PROVE  LoadDataElement(c, d, GlobalId(c, g, i)) = LoadDataElement(c, Input, GlobalId(c, g, i))
    <2>1. PICK id : id = GlobalId(c, g, i)
        BY Zenon
    <2>2. id = g * Width(c) + i - 1 /\ id \in Nat
        BY <1>1, <2>1, GlobalIds
    <2>3. CASE c.inclusive
      <3>1. CASE id < c.size
        <4>1. Gen(c, d, id) = Gen(c, Input, id)
          <5>1. d[id] = Input[id]
              BY <2>1, <3>1, Zenon
          <5>2. ~ (id >= c.size)
              BY <1>1, <2>2, <3>1
          <5> QED BY <5>1, <5>2, Zenon DEF Gen
        <4> QED BY <2>1, <2>3, <4>1, Zenon DEF LoadDataElement
      <3>2. CASE ~ (id < c.size)
        <4>1. g * Width(c) < c.size
            BY NoEmptyGroup, Zenon
        <4>2. PICK j \in Items(c) : g * Width(c) + j - 1 = c.size - 1
          <5>1. c.size - g * Width(c) \in Items(c)
              BY <1>1, <2>2, <3>2, <4>1
          <5> QED BY <1>1, <5>1
        <4>3. GlobalId(c, g, j) = c.size - 1
            BY <4>2, GlobalIds, Zenon
        <4>4. d[c.size - 1] = Input[c.size - 1]
            BY <1>1, <4>3
        <4>5. Gen(c, d, id) = Gen(c, Input, id)
            BY <1>1, <2>2, <3>2, <4>4 DEF Gen
        <4> QED BY <2>1, <2>3, <4>5, Zenon DEF LoadDataElement
      <3> QED BY <3>1, <3>2, Zenon
    <2>4. CASE ~ c.inclusive
      <3>1. ASSUME id # 0 PROVE Gen(c, d, id - 1) = Gen(c, Input, id - 1)
        <4>1. PICK k : k = IF id - 1 >= c.size THEN c.size - 1 ELSE id - 1
            BY Zenon
        <4>2. k \in 0..(c.size - 1)
            BY <1>1, <2>2, <3>1, <4>1
        <4> QED BY <1>1, <2>4, <4>1, <4>2, Zenon DEF Gen
      <3> QED BY <2>1, <2>4, <3>1, Zenon DEF LoadDataElement
    <2> QED BY <2>3, <2>4, Zenon
  <1>3. [i \in Items(c) |-> LoadDataElement(c, d, GlobalId(c, g, i))]
            = [i \in Items(c) |-> LoadDataElement(c, Input, GlobalId(c, g, i))]
      BY <1>2, Zenon
  <1> QED BY <1>3, Zenon DEF LocalScan

-----------------------------------------------------------------------------
(* The inductive invariant                                                 *)

Before == {"queued", "id"}
Active == {w \in Groups : pc[w] \notin Before}

InputInv ==
    /\ DOMAIN data = DOMAIN Input
    /\ DOMAIN out = DOMAIN Input
    /\ local = [w \in Groups |-> local[w]]

\* The input is modified in place only, by the groups that are done.
OwnElement(g, id) == \E i \in Items(config) : GlobalId(config, g, i) = id /\ id < config.size
DataInv ==
    \A id \in DOMAIN Input :
        \/ data[id] = Input[id]
        \/ config.inPlace /\ \E v \in Groups : pc[v] = "done" /\ OwnElement(eid[v], id)

LaunchInv == \A w \in Groups : pc[w] # "queued" => cleared = Groups

\* Every group that has started has an id of its own, below the counter.
IdInv ==
    /\ 0 \in cleared => counter = Cardinality(Active)
    /\ \A w \in Active : eid[w] < counter
    /\ \A v, w \in Active : eid[v] = eid[w] => v = w

LocalOf(w) ==
    /\ pc[w] \notin Before \cup {"scan"} => local[w] = LocalScan(config, Input, eid[w])
    /\ pc[w] = "aggregate" => Publisher(config, eid[w]) \in Items(config)

\* Nobody reads the entries of the last group.
AggregateRight(g) == g < NumGroups(config) - 1 => aggregate[g] = GroupAggregate(config, g)
InclusiveRight(g) == g < NumGroups(config) - 1 => inclusive[g] = GroupPrefix[config][g]

\* What is announced is right; only the owner announces.
EntryOf(g) ==
    /\ status[g] # "invalid" => AggregateRight(g)
    /\ status[g] = "prefix_available" => InclusiveRight(g)
    /\ (\A w \in Active : eid[w] # g) => status[g] = "invalid"

\* What the owner of an entry has announced, and what it is about to announce.
OwnerOf(w) ==
    /\ pc[w] \in {"scan", "aggregate", "status"} => status[eid[w]] = "invalid"
    /\ pc[w] \in {"lookback", "value", "prefix", "prefix status"}
           => status[eid[w]] # "prefix_available"
    /\ pc[w] \in {"status", "lookback", "value", "prefix", "prefix status"}
           => AggregateRight(eid[w])
    /\ pc[w] = "status" /\ eid[w] = 0 => InclusiveRight(0)
    /\ pc[w] = "prefix status" => InclusiveRight(eid[w])

\* Looking back: what has been combined lacks the groups up to look[w].
LookOf(w) ==
    /\ pc[w] \in {"aggregate", "status"} => look[w] = eid[w] - 1
    /\ pc[w] \in {"lookback", "value"} =>
         /\ look[w] \in 0..(eid[w] - 1)
         /\ \/ look[w] = eid[w] - 1
            \/ Op(GroupPrefix[config][look[w]], prefix[w]) = GroupPrefix[config][eid[w] - 1]
    /\ pc[w] = "value" =>
         AggregateRight(look[w]) /\ (seen[w] = "prefix_available" => InclusiveRight(look[w]))
    /\ pc[w] \in {"prefix", "prefix status"} => eid[w] # 0

PrefixOf(w) ==
    pc[w] \in {"prefix", "prefix status", "process", "done"} /\ eid[w] # 0
        => prefix[w] = GroupPrefix[config][eid[w] - 1]

GroupInv(w) == LocalOf(w) /\ OwnerOf(w) /\ LookOf(w) /\ PrefixOf(w)

Inv == /\ TypeOK /\ InputInv /\ LaunchInv /\ IdInv
       /\ \A g \in cleared : EntryOf(g)
       /\ \A w \in Groups : GroupInv(w)

-----------------------------------------------------------------------------

\* Every call has a group.
LEMMA GroupFacts ==
    ASSUME NEW c \in Configs
    PROVE  NumGroups(c) \in Nat \ {0} /\ 0 \in GroupsOf(c)
  BY Sizes

\* The reference for the prefixes, with its types.
LEMMA PrefixFacts ==
    ASSUME OpAssociative, NEW c \in Configs
    PROVE  /\ NumGroups(c) \in Nat \ {0}
           /\ 0 \in GroupsOf(c)
           /\ \A g \in GroupsOf(c) : GroupPrefix[c][g] \in Elem /\ GroupAggregate(c, g) \in Elem
           /\ GroupPrefix[c][0] = GroupAggregate(c, 0)
           /\ \A g \in GroupsOf(c) \ {0} :
                GroupPrefix[c][g] = Op(GroupPrefix[c][g - 1], GroupAggregate(c, g))
<1>1. ASSUME NEW g \in GroupsOf(c) PROVE GroupPrefix[c][g] \in Elem /\ GroupAggregate(c, g) \in Elem
  <2>1. PICK e, b : e = Loaded(c) /\ b = g * Width(c) + Width(c) - 1
      BY Zenon
  <2>2. b \in Nat /\ 0 <= b
      BY <2>1, Sizes
  <2>3. e \in Elements
      BY <2>1, LoadedElements, Zenon
  <2>4. Sum(e, 0, b) \in Elem
      BY <2>2, <2>3, SumFacts, Zenon
  <2> QED
      BY <2>1, <2>4, PrefixIsSum, AggregateCorrect, Zenon
<1> QED
    BY <1>1, GroupFacts, PrefixIsSum, Zenon

\* The aggregate that a group publishes, unless nobody reads it.
LEMMA PublisherFacts ==
    ASSUME NEW c \in Configs, NEW g, g # NumGroups(c) - 1
    PROVE  /\ Publisher(c, g) \in Items(c)
           /\ LocalScan(c, Input, g)[Publisher(c, g)] = GroupAggregate(c, g)
  BY Sizes DEF Publisher, GroupAggregate, Width

\* Before the kernels start no group has an id, and nothing is published.
LEMMA InitInv == Init => Inv
<1> SUFFICES ASSUME Init PROVE Inv
    BY Zenon
<1> USE DEF Init
<1>1. /\ NumGroups(config) \in Nat \ {0}
      /\ 0 \in Groups
    BY GroupFacts, Zenon DEF Groups
<1>2. TypeOK
    BY <1>1, ScanAssumption DEF TypeOK, Statuses, Labels, Groups, GroupsOf
<1>3. InputInv /\ LaunchInv /\ IdInv
    BY Zenon DEF InputInv, LaunchInv, IdInv, Active, Before
<1>4. \A w \in Groups : GroupInv(w)
    BY Zenon DEF GroupInv, LocalOf, OwnerOf, LookOf, PrefixOf, Before
<1> QED
    BY <1>2, <1>3, <1>4, Zenon DEF Inv

-----------------------------------------------------------------------------

\* What the constants and the call have in common in two states of a scan.
LEMMA SameCall ==
    ASSUME TypeOK, UNCHANGED config
    PROVE  /\ config \in Configs /\ Groups' = Groups
           /\ NumGroups(config') = NumGroups(config) /\ NumGroups(config) \in Nat \ {0}
           /\ Groups = 0..(NumGroups(config) - 1)
  BY GroupFacts, Zenon DEF Groups, GroupsOf, TypeOK

\* The steps of a group that already has its id.
LEMMA StepFacts ==
    ASSUME Inv, NEW w \in Groups, pc[w] \notin Before,
           NEW l \in Labels \ Before, pc' = [pc EXCEPT ![w] = l],
           UNCHANGED <<config, eid, counter, cleared>>
    PROVE  /\ cleared = Groups /\ eid \in [Groups -> Groups] /\ w \in Active /\ Active' = Active
           /\ pc' \in [Groups' -> Labels] /\ pc'[w] = l
           /\ \A v \in Groups \ {w} : pc'[v] = pc[v]
           /\ LaunchInv' /\ IdInv'
<1>1. Groups' = Groups
    BY SameCall, Zenon DEF Inv
<1>2. pc \in [Groups -> Labels] /\ eid \in [Groups -> Groups]
    BY Zenon DEF Inv, TypeOK
<1>3. cleared = Groups
    BY Zenon DEF Inv, LaunchInv, Before
<1>4. pc' \in [Groups' -> Labels] /\ pc'[w] = l /\ \A v \in Groups \ {w} : pc'[v] = pc[v]
    BY <1>1, <1>2, Zenon
<1>5. w \in Active /\ Active' = Active
    BY <1>1, <1>4, Zenon DEF Active
<1>6. LaunchInv'
    BY <1>1, <1>3, Zenon DEF LaunchInv
<1>7. IdInv'
    BY <1>5, Zenon DEF Inv, IdInv
<1> QED
    BY <1>2, <1>3, <1>4, <1>5, <1>6, <1>7, Zenon

\* Nothing that the invariant of group v depends on changes.
LEMMA OtherGroup ==
    ASSUME Inv, NEW v \in Groups, pc'[v] = pc[v], UNCHANGED config,
           eid'[v] = eid[v], local'[v] = local[v], look'[v] = look[v], seen'[v] = seen[v],
           prefix'[v] = prefix[v],
           pc[v] \notin Before => status'[eid[v]] = status[eid[v]],
           \A g \in Groups : (AggregateRight(g) => AggregateRight(g)')
                             /\ (InclusiveRight(g) => InclusiveRight(g)')
    PROVE  GroupInv(v)'
<1>1. GroupInv(v) /\ eid[v] \in Groups /\ 0 \in Groups
    BY GroupFacts, Zenon DEF Inv, TypeOK, Groups
<1>2. LocalOf(v)' /\ PrefixOf(v)'
    BY <1>1, ZenonT(60) DEF GroupInv, LocalOf, PrefixOf
<1>3. OwnerOf(v)'
    BY <1>1, ZenonT(60) DEF GroupInv, OwnerOf, Before
<1>4. LookOf(v)'
  <2>1. Groups = 0..(NumGroups(config) - 1) /\ NumGroups(config) \in Nat
      BY SameCall, Zenon DEF Inv
  <2>2. pc[v] = "value" => look[v] \in 0..(eid[v] - 1)
      BY <1>1, Zenon DEF GroupInv, LookOf
  <2>3. pc[v] = "value" => look[v] \in Groups
    <3>1. PICK k \in Nat : k = NumGroups(config)
        BY <2>1, Zenon
    <3>2. eid[v] \in 0..(k - 1) /\ Groups = 0..(k - 1)
        BY <1>1, <2>1, <3>1, Zenon
    <3> QED
        BY ONLY <2>2, <3>2, k \in Nat
  <2> QED
      BY <1>1, <2>3, ZenonT(60) DEF GroupInv, LookOf
<1> QED
    BY <1>2, <1>3, <1>4, Zenon DEF GroupInv

\* ClearStatus: the initialization kernel runs while nobody owns an entry.
LEMMA ClearStatusPreserves ==
    ASSUME Inv, NEW g \in Groups, ClearStatus(g) PROVE Inv'
<1>1. UNCHANGED <<config, data, out, aggregate, inclusive, pc, eid, local, look, seen, prefix>>
    BY Zenon DEF ClearStatus, private
<1>2. /\ Groups' = Groups /\ NumGroups(config') = NumGroups(config)
      /\ NumGroups(config) \in Nat \ {0}
    BY <1>1, SameCall, Zenon DEF Inv
<1>3. pc \in [Groups -> Labels] /\ \A w \in Groups : pc[w] = "queued"
    BY Zenon DEF Inv, LaunchInv, TypeOK, ClearStatus
<1>4. Active = {} /\ Active' = {}
    BY <1>1, <1>2, <1>3, Zenon DEF Active, Before
<1>5. TypeOK'
  <2>1. counter \in 0..NumGroups(config) /\ counter' \in {0, counter}
      BY Zenon DEF Inv, TypeOK, ClearStatus
  <2>2. counter' \in 0..NumGroups(config')
      BY <1>2, <2>1
  <2>3. status' \in [Groups' -> Statuses] /\ cleared' \subseteq Groups'
      BY <1>2, Zenon DEF Inv, TypeOK, ClearStatus, Statuses
  <2> QED
      BY <1>1, <1>2, <2>2, <2>3, Zenon DEF Inv, TypeOK
<1>6. InputInv' /\ LaunchInv'
    BY <1>1, <1>2, <1>3, Zenon DEF Inv, InputInv, LaunchInv
<1>7. IdInv'
  <2>1. 0 \in cleared' => counter' = 0
    <3>1. CASE g = 0
        BY <3>1, Zenon DEF ClearStatus
    <3>2. CASE g # 0
        BY <1>4, <3>2, FS_EmptySet, Zenon DEF ClearStatus, Inv, IdInv
    <3> QED
        BY <3>1, <3>2, Zenon
  <2> QED
      BY <1>4, <2>1, FS_EmptySet, Zenon DEF IdInv
<1>8. ASSUME NEW h \in cleared' PROVE EntryOf(h)'
  <2>1. status \in [Groups -> Statuses] /\ cleared \subseteq Groups
      BY Zenon DEF Inv, TypeOK
  <2>2. status'[h] = "invalid"
      BY <1>4, <1>8, <2>1, Zenon DEF ClearStatus, Inv, EntryOf
  <2> QED
      BY <2>2, Zenon DEF EntryOf
<1>9. ASSUME NEW w \in Groups' PROVE GroupInv(w)'
    BY <1>1, <1>2, <1>3, ZenonT(60) DEF GroupInv, LocalOf, OwnerOf, LookOf, PrefixOf, Before
<1> QED
    BY <1>5, <1>6, <1>7, <1>8, <1>9, Zenon DEF Inv

\* Launch: a group starts once all entries are clear.
LEMMA LaunchPreserves ==
    ASSUME Inv, NEW w \in Groups, Launch(w) PROVE Inv'
<1>1. /\ UNCHANGED <<config, data, out, status, aggregate, inclusive, counter, cleared, eid,
                     local, look, seen, prefix>>
      /\ pc[w] = "queued" /\ cleared = Groups /\ pc' = [pc EXCEPT ![w] = "id"]
    BY Zenon DEF Launch, scratch, private
<1>2. Groups' = Groups /\ NumGroups(config') = NumGroups(config)
    BY <1>1, SameCall, Zenon DEF Inv
<1>3. /\ pc \in [Groups -> Labels] /\ pc' \in [Groups' -> Labels] /\ pc'[w] = "id"
      /\ \A v \in Groups \ {w} : pc'[v] = pc[v]
    BY <1>1, <1>2, ZenonT(60) DEF Inv, TypeOK, Labels
<1>4. Active' = Active
    BY <1>1, <1>2, <1>3, Zenon DEF Active, Before
<1>5. TypeOK' /\ InputInv'
    BY <1>1, <1>2, <1>3, Zenon DEF Inv, TypeOK, InputInv
<1>6. LaunchInv' /\ IdInv'
    BY <1>1, <1>2, <1>4, Zenon DEF Inv, LaunchInv, IdInv
<1>7. ASSUME NEW h \in cleared' PROVE EntryOf(h)'
    BY <1>1, <1>2, <1>4, <1>7, Zenon DEF Inv, EntryOf, AggregateRight, InclusiveRight
<1>8. ASSUME NEW v \in Groups' PROVE GroupInv(v)'
  <2>1. CASE v = w
      BY <1>3, <2>1, Zenon DEF GroupInv, LocalOf, OwnerOf, LookOf, PrefixOf, Before
  <2>2. CASE v # w
      BY <1>1, <1>2, <1>3, <2>2, OtherGroup, Zenon DEF AggregateRight, InclusiveRight
  <2> QED
      BY <2>1, <2>2, Zenon
<1> QED
    BY <1>5, <1>6, <1>7, <1>8, Zenon DEF Inv

\* TakeId: the counter is below the number of groups while one has no id.
LEMMA TakeIdPreserves ==
    ASSUME Inv, NEW w \in Groups, TakeId(w) PROVE Inv'
<1>1. /\ UNCHANGED <<config, data, out, status, aggregate, inclusive, cleared, local, look,
                     seen, prefix>>
      /\ pc[w] = "id" /\ pc' = [pc EXCEPT ![w] = "scan"]
      /\ eid' = [eid EXCEPT ![w] = counter] /\ counter' = counter + 1
    BY Zenon DEF TakeId, scratch
<1>2. /\ Groups' = Groups /\ NumGroups(config') = NumGroups(config)
      /\ NumGroups(config) \in Nat \ {0} /\ Groups = 0..(NumGroups(config) - 1)
    BY <1>1, SameCall, Zenon DEF Inv
<1>3. /\ pc \in [Groups -> Labels] /\ pc' \in [Groups' -> Labels] /\ pc'[w] = "scan"
      /\ \A v \in Groups \ {w} : pc'[v] = pc[v]
    BY <1>1, <1>2, ZenonT(60) DEF Inv, TypeOK, Labels
<1>4. /\ eid \in [Groups -> Groups] /\ eid'[w] = counter
      /\ \A v \in Groups \ {w} : eid'[v] = eid[v]
    BY <1>1, Zenon DEF Inv, TypeOK
<1>5. w \notin Active /\ Active' = Active \cup {w} /\ Active \subseteq Groups
    BY <1>1, <1>2, <1>3, Zenon DEF Active, Before
<1>6. cleared = Groups /\ 0 \in cleared
    BY <1>1, <1>2 DEF Inv, LaunchInv
<1>7. /\ counter = Cardinality(Active) /\ counter + 1 = Cardinality(Active')
      /\ counter \in Groups
  <2>1. IsFiniteSet(Groups) /\ Cardinality(Groups) = NumGroups(config)
      BY <1>2, FS_Interval
  <2>2. IsFiniteSet(Active) /\ counter = Cardinality(Active) /\ Cardinality(Active) \in Nat
      BY <1>5, <1>6, <2>1, FS_Subset, FS_CardinalityType, Zenon DEF Inv, IdInv
  <2>3. Cardinality(Active') = Cardinality(Active) + 1
      BY <1>5, <2>2, FS_AddElement, Zenon
  <2>4. Cardinality(Active') <= NumGroups(config)
      BY <1>5, <2>1, FS_Subset, Zenon
  <2> QED
      BY <1>2, <2>2, <2>3, <2>4
<1>8. TypeOK' /\ InputInv'
  <2>1. counter' \in 0..NumGroups(config')
      BY <1>1, <1>2, <1>7
  <2>2. eid' \in [Groups' -> Groups']
      BY <1>1, <1>2, <1>4, <1>7, Zenon
  <2> QED
      BY <1>1, <1>2, <1>3, <2>1, <2>2 DEF Inv, TypeOK, InputInv
<1>9. LaunchInv'
    BY <1>1, <1>2, <1>6, Zenon DEF LaunchInv
<1>10. IdInv'
  <2>1. \A v \in Active : eid'[v] = eid[v] /\ eid[v] \in Groups /\ eid[v] < counter
      BY <1>4, <1>5, Zenon DEF Inv, IdInv
  <2>2. \A v \in Active' : eid'[v] < counter'
      BY <1>1, <1>2, <1>4, <1>5, <1>7, <2>1
  <2>3. \A u, v \in Active' : eid'[u] = eid'[v] => u = v
      BY <1>2, <1>4, <1>5, <1>7, <2>1 DEF Inv, IdInv
  <2> QED
      BY <1>1, <1>7, <2>2, <2>3, Zenon DEF IdInv
<1>11. status[counter] = "invalid"
    BY <1>2, <1>4, <1>5, <1>6, <1>7 DEF Inv, IdInv, EntryOf
<1>12. ASSUME NEW h \in cleared' PROVE EntryOf(h)'
  <2>1. EntryOf(h)
      BY <1>1, <1>12, Zenon DEF Inv
  <2>2. (\A v \in Active' : eid'[v] # h) => \A v \in Active : eid[v] # h
      BY <1>4, <1>5, Zenon
  <2> QED
      BY <1>1, <1>2, <2>1, <2>2, Zenon DEF EntryOf, AggregateRight, InclusiveRight
<1>13. ASSUME NEW v \in Groups' PROVE GroupInv(v)'
  <2>1. CASE v = w
      BY <1>1, <1>3, <1>4, <1>11, <2>1, Zenon DEF GroupInv, LocalOf, OwnerOf, LookOf,
         PrefixOf, Before
  <2>2. CASE v # w
      BY <1>1, <1>2, <1>3, <1>4, <2>2, OtherGroup, Zenon DEF AggregateRight, InclusiveRight
  <2> QED
      BY <2>1, <2>2, Zenon
<1> QED
    BY <1>8, <1>9, <1>10, <1>12, <1>13, Zenon DEF Inv

\* A group that has not finished finds its part of the input as it was.
LEMMA OwnDataIntact ==
    ASSUME InPlaceInclusive, DataInv, Inv, NEW w \in Groups, pc[w] = "scan"
    PROVE  LocalScan(config, data, eid[w]) = LocalScan(config, Input, eid[w])
<1>1. PICK c, g : c = config /\ g = eid[w]
    BY Zenon
<1>2. /\ c \in Configs /\ g \in GroupsOf(c) /\ eid \in [Groups -> Groups] /\ w \in Active
      /\ Groups = GroupsOf(c)
    BY <1>1, Zenon DEF Inv, TypeOK, Groups, Active, Before
<1>3. ASSUME NEW i \in Items(c), GlobalId(c, g, i) < c.size
      PROVE  data[GlobalId(c, g, i)] = Input[GlobalId(c, g, i)]
  <2>1. PICK id : id = GlobalId(c, g, i)
      BY Zenon
  <2>2. id \in DOMAIN Input
    <3>1. id = g * Width(c) + i - 1
        BY <1>2, <2>1, GlobalIds, Zenon
    <3>2. c.size \in Nat /\ g * Width(c) \in Nat /\ i \in Nat \ {0}
      <4>1. /\ c.size \in Nat \ {0} /\ g * Width(c) \in Nat
            /\ Width(c) \in Nat \ {0} /\ i \in 1..Width(c)
          BY <1>2, Sizes, Zenon
      <4> QED
          BY <4>1
    <3>3. id \in 0..(c.size - 1)
        BY <1>3, <2>1, <3>1, <3>2
    <3> QED
        BY <1>2, <3>3, ScanAssumption, Zenon
  <2>3. ASSUME NEW v \in Groups, pc[v] = "done", OwnElement(eid[v], id) PROVE FALSE
    <3>1. PICK j \in Items(c) : GlobalId(c, eid[v], j) = id
        BY <1>1, <2>3, Zenon DEF OwnElement
    <3>2. eid[v] \in GroupsOf(c)
        BY <1>2, Zenon
    <3>3. eid[v] = g
        BY <1>2, <2>1, <3>1, <3>2, OneGroup, Zenon
    <3>4. v \in Active
        BY <2>3, Zenon DEF Active, Before
    <3>5. v = w
        BY <1>1, <1>2, <3>3, <3>4, Zenon DEF Inv, IdInv
    <3> QED
        BY <2>3, <3>5, Zenon
  <2> QED
      BY <2>1, <2>2, <2>3, Zenon DEF DataInv
<1>4. c.inclusive \/ \A id \in DOMAIN Input : data[id] = Input[id]
    BY <1>1, <1>2, Zenon DEF DataInv, InPlaceInclusive
<1> QED
    BY <1>1, <1>2, <1>3, <1>4, LocalLoads, Zenon

\* ScanGroup: nobody has modified the input, so that the scan of a group is the
\* one of the reference.
LEMMA ScanGroupPreserves ==
    ASSUME InPlaceInclusive, DataInv, Inv, NEW w \in Groups, ScanGroup(w) PROVE Inv'
<1> DEFINE l == IF Publisher(config, eid[w]) \in Items(config)
                THEN "aggregate" ELSE AfterAggregate(eid[w])
<1>1. /\ UNCHANGED <<config, data, out, status, aggregate, inclusive, counter, cleared, eid,
                     seen, prefix>>
      /\ pc[w] = "scan" /\ pc' = [pc EXCEPT ![w] = l]
      /\ local' = [local EXCEPT ![w] = LocalScan(config, data, eid[w])]
      /\ look' = [look EXCEPT ![w] = eid[w] - 1]
      /\ local = [v \in Groups |-> local[v]] /\ look \in [Groups -> Groups \cup {-1}]
    BY Zenon DEF ScanGroup, scratch, Inv, InputInv, TypeOK
<1>2. /\ config \in Configs /\ Groups' = Groups /\ NumGroups(config') = NumGroups(config)
      /\ NumGroups(config) \in Nat \ {0} /\ Groups = 0..(NumGroups(config) - 1)
    BY <1>1, SameCall, Zenon DEF Inv
<1>3. /\ l \in {"aggregate", "lookback", "process"}
      /\ (l = "lookback" => eid[w] # 0)
      /\ (l = "process" => eid[w] = 0)
    BY Zenon DEF AfterAggregate
<1> HIDE DEF l
<1>4. /\ cleared = Groups /\ eid \in [Groups -> Groups] /\ w \in Active /\ Active' = Active
      /\ pc' \in [Groups' -> Labels] /\ pc'[w] = l /\ \A v \in Groups \ {w} : pc'[v] = pc[v]
      /\ LaunchInv' /\ IdInv'
    BY <1>1, <1>3, StepFacts, ZenonT(60) DEF Labels, Before
<1>5. /\ local'[w] = LocalScan(config, Input, eid[w]) /\ look'[w] = eid[w] - 1
      /\ \A v \in Groups \ {w} : local'[v] = local[v] /\ look'[v] = look[v]
  <2>1. eid[w] \in Groups
      BY <1>4, Zenon
  <2>2. LocalScan(config, data, eid[w]) = LocalScan(config, Input, eid[w])
      BY <1>1, <2>1, OwnDataIntact, Zenon
  <2> QED
      BY <1>1, <2>2, Zenon
<1>6. TypeOK' /\ InputInv'
  <2>1. eid[w] - 1 \in Groups \cup {-1}
      BY <1>2, <1>4
  <2>2. look' \in [Groups' -> Groups' \cup {-1}]
      BY <1>1, <1>2, <2>1, Zenon DEF Inv, TypeOK
  <2> QED
      BY <1>1, <1>2, <1>4, <2>2, ZenonT(60) DEF Inv, TypeOK, InputInv
<1>7. ASSUME NEW h \in cleared' PROVE EntryOf(h)'
    BY <1>1, <1>2, <1>4, <1>7, Zenon DEF Inv, EntryOf, AggregateRight, InclusiveRight
<1>8. GroupInv(w)'
  <2>1. LocalOf(w)'
      BY <1>1, <1>4, <1>5 DEF LocalOf, l, AfterAggregate
  <2>2. OwnerOf(w)'
    <3>1. l # "aggregate" => eid[w] = NumGroups(config) - 1
        BY <1>2, PublisherFacts, Zenon DEF l
    <3>2. l # "aggregate" => AggregateRight(eid[w])'
        BY <1>1, <1>2, <3>1 DEF AggregateRight
    <3>3. status[eid[w]] = "invalid"
        BY <1>1, ZenonT(60) DEF Inv, GroupInv, OwnerOf
    <3> QED
        BY <1>1, <1>3, <1>4, <3>2, <3>3, ZenonT(60) DEF OwnerOf
  <2>3. eid'[w] = eid[w] /\ (eid[w] # 0 => eid[w] - 1 \in 0..(eid[w] - 1))
      BY <1>1, <1>2, <1>4
  <2>4. LookOf(w)'
      BY <1>3, <1>4, <1>5, <2>3, ZenonT(60) DEF LookOf
  <2>5. PrefixOf(w)'
    <3>1. pc'[w] \in {"aggregate", "lookback"} \/ (pc'[w] = "process" /\ eid'[w] = 0)
        BY <1>3, <1>4, <2>3, Zenon
    <3>2. ~(pc'[w] \in {"prefix", "prefix status", "process", "done"} /\ eid'[w] # 0)
        BY <3>1, ZenonT(60)
    <3> QED
        BY <3>2, Zenon DEF PrefixOf
  <2> QED
      BY <2>1, <2>2, <2>4, <2>5, Zenon DEF GroupInv
<1>9. ASSUME NEW v \in Groups' \ {w} PROVE GroupInv(v)'
    BY <1>1, <1>2, <1>4, <1>5, <1>9, OtherGroup, Zenon DEF AggregateRight, InclusiveRight
<1> QED
    BY <1>2, <1>4, <1>6, <1>7, <1>8, <1>9, Zenon DEF Inv

-----------------------------------------------------------------------------
(* The publication of an aggregate, and the look-back                      *)

\* StoreAggregate: the values are in place before the status announces them.
LEMMA StoreAggregatePreserves ==
    ASSUME OpAssociative, Inv, NEW w \in Groups, StoreAggregate(w) PROVE Inv'
<1> DEFINE g == eid[w]
           x == local[w][Publisher(config, g)]
<1>1. /\ UNCHANGED <<config, data, out, status, counter, cleared, eid, local, look, seen, prefix>>
      /\ pc[w] = "aggregate" /\ pc' = [pc EXCEPT ![w] = "status"]
      /\ aggregate' = [aggregate EXCEPT ![g] = x]
      /\ inclusive' = IF g = 0 THEN [inclusive EXCEPT ![g] = x] ELSE inclusive
      /\ aggregate \in [Groups -> Elem] /\ inclusive \in [Groups -> Elem]
    BY Zenon DEF StoreAggregate, private, Inv, TypeOK
<1>2. /\ config \in Configs /\ Groups' = Groups /\ NumGroups(config') = NumGroups(config)
      /\ NumGroups(config) \in Nat \ {0} /\ Groups = 0..(NumGroups(config) - 1)
    BY <1>1, SameCall, ZenonT(60) DEF Inv
<1>3. /\ cleared = Groups /\ eid \in [Groups -> Groups] /\ w \in Active /\ Active' = Active
      /\ pc' \in [Groups' -> Labels] /\ pc'[w] = "status"
      /\ \A v \in Groups \ {w} : pc'[v] = pc[v]
      /\ LaunchInv' /\ IdInv'
    BY <1>1, StepFacts, ZenonT(60) DEF Labels, Before
<1>4. local[w] = LocalScan(config, Input, g) /\ Publisher(config, g) \in Items(config)
    BY <1>1, Zenon DEF Inv, GroupInv, LocalOf, Before
<1>5. /\ g \in Groups /\ x \in Elem
      /\ g < NumGroups(config) - 1 => x = GroupAggregate(config, g)
  <2>1. g \in GroupsOf(config)
      BY <1>3, Zenon DEF Groups
  <2>2. x \in Elem
      BY <1>2, <1>4, <2>1, AggregateCorrect, ZenonT(30)
  <2>3. ASSUME g < NumGroups(config) - 1 PROVE x = GroupAggregate(config, g)
    <3>1. g # NumGroups(config) - 1
        BY <1>2, <2>1, <2>3 DEF Groups
    <3> QED
        BY <1>2, <1>4, <3>1, PublisherFacts, Zenon
  <2> QED
      BY <1>3, <2>2, <2>3, Zenon
<1>6. /\ \A h \in Groups : AggregateRight(h) => AggregateRight(h)'
      /\ AggregateRight(g)'
    BY <1>1, <1>2, <1>5, Zenon DEF AggregateRight
<1>7. /\ \A h \in Groups : InclusiveRight(h) => InclusiveRight(h)'
      /\ g = 0 => InclusiveRight(0)'
  <2>1. g = 0 /\ g < NumGroups(config) - 1 => x = GroupPrefix[config][0]
      BY <1>2, <1>5, PrefixFacts, Zenon
  <2> QED
      BY <1>1, <1>2, <1>5, <2>1, Zenon DEF InclusiveRight
<1>8. TypeOK' /\ InputInv'
  <2>1. aggregate' \in [Groups' -> Elem] /\ inclusive' \in [Groups' -> Elem]
      BY <1>1, <1>2, <1>5, Zenon
  <2> QED
      BY <1>1, <1>2, <1>3, <2>1, Zenon DEF Inv, TypeOK, InputInv
<1>9. ASSUME NEW h \in cleared' PROVE EntryOf(h)'
    BY <1>1, <1>3, <1>6, <1>7, <1>9, Zenon DEF Inv, EntryOf
<1>10. GroupInv(w)'
  <2>1. LocalOf(w)' /\ PrefixOf(w)'
      BY <1>1, <1>3, <1>4, Zenon DEF LocalOf, PrefixOf
  <2>2. OwnerOf(w)'
      BY <1>1, <1>3, <1>6, <1>7, ZenonT(60) DEF Inv, GroupInv, OwnerOf
  <2>3. LookOf(w)'
      BY <1>1, <1>3, ZenonT(60) DEF Inv, GroupInv, LookOf
  <2> QED
      BY <2>1, <2>2, <2>3, Zenon DEF GroupInv
<1>11. ASSUME NEW v \in Groups' \ {w} PROVE GroupInv(v)'
    BY <1>1, <1>2, <1>3, <1>6, <1>7, <1>11, OtherGroup, Zenon
<1> QED
    BY <1>2, <1>3, <1>8, <1>9, <1>10, <1>11, Zenon DEF Inv

\* StoreStatus: the owner announces its aggregate; group 0 has its prefix.
LEMMA StoreStatusPreserves ==
    ASSUME Inv, NEW w \in Groups, StoreStatus(w) PROVE Inv'
<1> DEFINE g == eid[w]
           l == AfterAggregate(g)
           s == IF g = 0 THEN "prefix_available" ELSE "aggregate_available"
<1>1. /\ UNCHANGED <<config, data, out, aggregate, inclusive, counter, cleared, eid, local, look,
                     seen, prefix>>
      /\ pc[w] = "status" /\ pc' = [pc EXCEPT ![w] = l]
      /\ status' = [status EXCEPT ![g] = s] /\ status \in [Groups -> Statuses]
    BY Zenon DEF StoreStatus, private, Inv, TypeOK
<1>2. /\ config \in Configs /\ Groups' = Groups /\ NumGroups(config') = NumGroups(config)
      /\ NumGroups(config) \in Nat \ {0} /\ Groups = 0..(NumGroups(config) - 1)
    BY <1>1, SameCall, ZenonT(60) DEF Inv
<1>3. /\ g = 0 => l = "process" /\ s = "prefix_available"
      /\ g # 0 => l = "lookback" /\ s = "aggregate_available"
    BY Zenon DEF AfterAggregate
<1> HIDE DEF l, s
<1>4. /\ cleared = Groups /\ eid \in [Groups -> Groups] /\ w \in Active /\ Active' = Active
      /\ pc' \in [Groups' -> Labels] /\ pc'[w] = l /\ \A v \in Groups \ {w} : pc'[v] = pc[v]
      /\ LaunchInv' /\ IdInv'
    BY <1>1, <1>3, StepFacts, ZenonT(60) DEF Labels, Before
<1>5. /\ g \in Groups /\ status'[g] = s
      /\ \A h \in Groups \ {g} : status'[h] = status[h]
    BY <1>1, <1>4, ZenonT(60)
<1>6. \A h \in Groups : /\ AggregateRight(h)' <=> AggregateRight(h)
                        /\ InclusiveRight(h)' <=> InclusiveRight(h)
    BY <1>1, <1>2, Zenon DEF AggregateRight, InclusiveRight
<1>7. AggregateRight(g) /\ (g = 0 => InclusiveRight(g)) /\ look[w] = g - 1
    BY <1>1, ZenonT(60) DEF Inv, GroupInv, OwnerOf, LookOf
<1>8. TypeOK' /\ InputInv'
  <2>1. status' \in [Groups' -> Statuses]
      BY <1>1, <1>2, <1>3, <1>4, Zenon DEF Statuses
  <2> QED
      BY <1>1, <1>2, <1>4, <2>1, Zenon DEF Inv, TypeOK, InputInv
<1>9. ASSUME NEW h \in cleared' PROVE EntryOf(h)'
  <2>1. h \in Groups /\ EntryOf(h)
      BY <1>1, <1>4, <1>9, Zenon DEF Inv
  <2>2. CASE h = g
      BY <1>1, <1>3, <1>4, <1>5, <1>6, <1>7, <2>2, Zenon DEF EntryOf
  <2>3. CASE h # g
      BY <1>1, <1>4, <1>5, <1>6, <2>1, <2>3, Zenon DEF EntryOf
  <2> QED
      BY <2>2, <2>3, Zenon
<1>10. GroupInv(w)'
  <2>1. LocalOf(w)'
      BY <1>1, <1>3, <1>4, Zenon DEF Inv, GroupInv, LocalOf, Before
  <2>2. OwnerOf(w)'
      BY <1>1, <1>3, <1>4, <1>5, <1>6, <1>7, ZenonT(60) DEF OwnerOf
  <2>3. eid'[w] = g /\ look'[w] = g - 1 /\ (g # 0 => g - 1 \in 0..(g - 1))
      BY <1>1, <1>2, <1>5, <1>7
  <2>4. LookOf(w)'
      BY <1>3, <1>4, <2>3, ZenonT(60) DEF LookOf
  <2>5. PrefixOf(w)'
    <3>1. ~(pc'[w] \in {"prefix", "prefix status", "process", "done"} /\ eid'[w] # 0)
        BY <1>3, <1>4, <2>3, ZenonT(60)
    <3> QED
        BY <3>1, Zenon DEF PrefixOf
  <2> QED
      BY <2>1, <2>2, <2>4, <2>5, Zenon DEF GroupInv
<1>11. ASSUME NEW v \in Groups' \ {w} PROVE GroupInv(v)'
  <2>1. pc[v] \notin Before => eid[v] # g /\ eid[v] \in Groups
      BY <1>2, <1>4, <1>11, Zenon DEF Inv, IdInv, Active
  <2> QED
      BY <1>1, <1>2, <1>4, <1>5, <1>6, <1>11, <2>1, OtherGroup, ZenonT(60)
<1> QED
    BY <1>2, <1>4, <1>8, <1>9, <1>10, <1>11, Zenon DEF Inv

\* ReadStatus: a status that is not invalid announces values that are right.
LEMMA ReadStatusPreserves ==
    ASSUME Inv, NEW w \in Groups, ReadStatus(w) PROVE Inv'
<1> DEFINE h == look[w]
<1>1. /\ UNCHANGED <<config, data, out, status, aggregate, inclusive, counter, cleared, eid,
                     local, look, prefix>>
      /\ pc[w] = "lookback" /\ pc' = [pc EXCEPT ![w] = "value"]
      /\ status[h] # "invalid" /\ seen' = [seen EXCEPT ![w] = status[h]]
      /\ status \in [Groups -> Statuses] /\ seen \in [Groups -> Statuses]
    BY Zenon DEF ReadStatus, scratch, Inv, TypeOK
<1>2. /\ config \in Configs /\ Groups' = Groups /\ NumGroups(config') = NumGroups(config)
      /\ NumGroups(config) \in Nat \ {0} /\ Groups = 0..(NumGroups(config) - 1)
    BY <1>1, SameCall, ZenonT(60) DEF Inv
<1>3. /\ cleared = Groups /\ eid \in [Groups -> Groups] /\ w \in Active /\ Active' = Active
      /\ pc' \in [Groups' -> Labels] /\ pc'[w] = "value"
      /\ \A v \in Groups \ {w} : pc'[v] = pc[v]
      /\ LaunchInv' /\ IdInv'
    BY <1>1, StepFacts, ZenonT(60) DEF Labels, Before
<1>4. h \in 0..(eid[w] - 1)
    BY <1>1, ZenonT(60) DEF Inv, GroupInv, LookOf
<1>5. h \in Groups
    BY <1>2, <1>3, <1>4
<1>6. seen'[w] = status[h] /\ \A v \in Groups \ {w} : seen'[v] = seen[v]
    BY <1>1, ZenonT(60)
<1>7. \A k \in Groups : /\ AggregateRight(k)' <=> AggregateRight(k)
                        /\ InclusiveRight(k)' <=> InclusiveRight(k)
    BY <1>1, <1>2, Zenon DEF AggregateRight, InclusiveRight
<1>8. TypeOK' /\ InputInv'
  <2>1. seen' \in [Groups' -> Statuses]
      BY <1>1, <1>2, <1>5, Zenon
  <2> QED
      BY <1>1, <1>2, <1>3, <2>1, Zenon DEF Inv, TypeOK, InputInv
<1>9. ASSUME NEW k \in cleared' PROVE EntryOf(k)'
    BY <1>1, <1>3, <1>7, <1>9, ZenonT(60) DEF Inv, EntryOf
<1>10. GroupInv(w)'
  <2>1. LocalOf(w)' /\ OwnerOf(w)' /\ PrefixOf(w)'
      BY <1>1, <1>3, <1>7, ZenonT(60) DEF Inv, GroupInv, LocalOf, OwnerOf, PrefixOf, Before
  <2>2. AggregateRight(h) /\ (seen'[w] = "prefix_available" => InclusiveRight(h))
      BY <1>1, <1>3, <1>5, <1>6, ZenonT(60) DEF Inv, EntryOf
  <2>3. LookOf(w)'
      BY <1>1, <1>3, <1>5, <1>7, <2>2, ZenonT(60) DEF Inv, GroupInv, LookOf
  <2> QED
      BY <2>1, <2>3, Zenon DEF GroupInv
<1>11. ASSUME NEW v \in Groups' \ {w} PROVE GroupInv(v)'
    BY <1>1, <1>2, <1>3, <1>6, <1>7, <1>11, OtherGroup, Zenon
<1> QED
    BY <1>2, <1>3, <1>8, <1>9, <1>10, <1>11, Zenon DEF Inv

\* ReadValue: by associativity, what remains to be combined moves back by one
\* group, or is complete.
LEMMA ReadValuePreserves ==
    ASSUME OpAssociative, Inv, NEW w \in Groups, ReadValue(w) PROVE Inv'
<1> DEFINE h == look[w]
           P == GroupPrefix[config]
           complete == seen[w] = "prefix_available"
           x == IF complete THEN inclusive[h] ELSE aggregate[h]
           l == IF complete \/ h = 0 THEN AfterLookback(eid[w]) ELSE "lookback"
<1>1. /\ UNCHANGED <<config, data, out, status, aggregate, inclusive, counter, cleared, eid,
                     local, seen>>
      /\ pc[w] = "value" /\ pc' = [pc EXCEPT ![w] = l]
      /\ prefix' = [prefix EXCEPT ![w] = Extend(w, x)] /\ look' = [look EXCEPT ![w] = h - 1]
      /\ prefix \in [Groups -> Elem] /\ look \in [Groups -> Groups \cup {-1}]
    BY ZenonT(60) DEF ReadValue, scratch, Inv, TypeOK
<1>2. /\ config \in Configs /\ Groups' = Groups /\ NumGroups(config') = NumGroups(config)
      /\ NumGroups(config) \in Nat \ {0} /\ Groups = 0..(NumGroups(config) - 1)
    BY <1>1, SameCall, ZenonT(60) DEF Inv
<1>3. /\ l \in {"lookback", "prefix", "process"}
      /\ l = "lookback" <=> ~complete /\ h # 0
    BY Zenon DEF AfterLookback
<1> HIDE DEF l
<1>4. /\ cleared = Groups /\ eid \in [Groups -> Groups] /\ w \in Active /\ Active' = Active
      /\ pc' \in [Groups' -> Labels] /\ pc'[w] = l /\ \A v \in Groups \ {w} : pc'[v] = pc[v]
      /\ LaunchInv' /\ IdInv'
    BY <1>1, <1>3, StepFacts, ZenonT(60) DEF Labels, Before
<1>5. /\ h \in 0..(eid[w] - 1)
      /\ h = eid[w] - 1 \/ Op(P[h], prefix[w]) = P[eid[w] - 1]
      /\ AggregateRight(h) /\ (complete => InclusiveRight(h))
    BY <1>1, ZenonT(60) DEF Inv, GroupInv, LookOf
<1>6. /\ h \in Groups /\ h < NumGroups(config) - 1 /\ eid[w] # 0 /\ eid[w] \in Groups
      /\ eid[w] - 1 \in Groups /\ (h # 0 => h - 1 \in 0..(eid[w] - 1)) /\ h - 1 # eid[w] - 1
  <2>1. eid[w] \in Groups
      BY <1>4, Zenon
  <2>2. eid[w] \in 0..(NumGroups(config) - 1) /\ h \in 0..(eid[w] - 1)
      BY <1>2, <1>5, <2>1, Zenon
  <2>3. /\ h \in 0..(NumGroups(config) - 1) /\ h < NumGroups(config) - 1 /\ eid[w] # 0
        /\ eid[w] - 1 \in 0..(NumGroups(config) - 1)
        /\ (h # 0 => h - 1 \in 0..(eid[w] - 1)) /\ h - 1 # eid[w] - 1
    <3> HIDE DEF h
    <3> QED
        BY <1>2, <2>2
  <2> QED
      BY <1>2, <2>1, <2>3, Zenon
<1>7. complete => x = P[h]
    BY <1>5, <1>6, Zenon DEF InclusiveRight
<1>8. ~complete => x = GroupAggregate(config, h)
    BY <1>5, <1>6, Zenon DEF AggregateRight
<1>9. /\ \A k \in Groups : P[k] \in Elem
      /\ P[0] = GroupAggregate(config, 0)
      /\ h # 0 => P[h] = Op(P[h - 1], GroupAggregate(config, h)) /\ h - 1 \in Groups
      /\ GroupAggregate(config, h) \in Elem /\ prefix[w] \in Elem
  <2>1. /\ \A k \in Groups : P[k] \in Elem /\ GroupAggregate(config, k) \in Elem
        /\ P[0] = GroupAggregate(config, 0)
        /\ \A k \in Groups \ {0} : P[k] = Op(P[k - 1], GroupAggregate(config, k))
      BY <1>2, PrefixFacts, Zenon DEF Groups
  <2>2. h # 0 => h - 1 \in Groups
      BY <1>2, <1>6
  <2> QED
      BY <1>1, <1>6, <2>1, <2>2, ZenonT(60)
<1> HIDE DEF P, x, complete, h
<1>10. /\ Extend(w, x) = IF h = eid[w] - 1 THEN x ELSE Op(x, prefix[w])
       /\ prefix'[w] = Extend(w, x) /\ look'[w] = h - 1 /\ eid'[w] = eid[w]
       /\ \A v \in Groups \ {w} : prefix'[v] = prefix[v] /\ look'[v] = look[v]
    BY <1>1, Zenon DEF Extend, h
<1>11. Extend(w, x) \in Elem
    BY <1>6, <1>7, <1>8, <1>9, <1>10 DEF OpAssociative
<1>12. l # "lookback" => Extend(w, x) = P[eid[w] - 1]
  <2>1. l # "lookback" => x = P[h]
      BY <1>3, <1>7, <1>8, <1>9, Zenon
  <2> QED
      BY <1>5, <1>10, <2>1, Zenon
<1>13. l = "lookback" => Op(P[h - 1], Extend(w, x)) = P[eid[w] - 1]
  <2> SUFFICES ASSUME l = "lookback" PROVE Op(P[h - 1], Extend(w, x)) = P[eid[w] - 1]
      BY Zenon
  <2>1. x = GroupAggregate(config, h) /\ P[h] = Op(P[h - 1], x) /\ P[h - 1] \in Elem /\ x \in Elem
      BY <1>3, <1>8, <1>9, Zenon
  <2>2. CASE h = eid[w] - 1
      BY <1>10, <2>1, <2>2, Zenon
  <2>3. CASE h # eid[w] - 1
    <3>1. Op(P[h - 1], Op(x, prefix[w])) = Op(Op(P[h - 1], x), prefix[w])
      <4>1. P[h - 1] \in Elem /\ x \in Elem /\ prefix[w] \in Elem
          BY <1>9, <2>1, Zenon
      <4> QED
          BY <4>1, Regroup, ZenonT(60)
    <3> QED
        BY <1>5, <1>10, <2>1, <2>3, <3>1, Zenon
  <2> QED
      BY <2>2, <2>3, Zenon
<1>14. TypeOK' /\ InputInv'
  <2>1. h - 1 \in Groups \cup {-1}
      BY <1>9, <1>6
  <2>2. look' \in [Groups' -> Groups' \cup {-1}]
      BY <1>1, <1>2, <2>1, Zenon DEF h
  <2>3. prefix' \in [Groups' -> Elem]
      BY <1>1, <1>2, <1>11, Zenon
  <2> QED
      BY <1>1, <1>2, <1>4, <2>2, <2>3, Zenon DEF Inv, TypeOK, InputInv
<1>15. ASSUME NEW k \in cleared' PROVE EntryOf(k)'
    BY <1>1, <1>2, <1>4, <1>15, Zenon DEF Inv, EntryOf, AggregateRight, InclusiveRight
<1>16. GroupInv(w)'
  <2>1. LocalOf(w)' /\ OwnerOf(w)'
      BY <1>1, <1>2, <1>3, <1>4, ZenonT(60) DEF Inv, GroupInv, LocalOf, OwnerOf,
         AggregateRight, Before
  <2>2. GroupPrefix[config'] = P
      BY <1>1, Zenon DEF P
  <2>3. LookOf(w)'
      BY <1>3, <1>4, <1>6, <1>10, <1>13, <2>2, ZenonT(60) DEF LookOf
  <2>4. PrefixOf(w)'
      BY <1>3, <1>4, <1>10, <1>12, <2>2, ZenonT(60) DEF PrefixOf
  <2> QED
      BY <2>1, <2>3, <2>4, Zenon DEF GroupInv
<1>17. ASSUME NEW v \in Groups' \ {w} PROVE GroupInv(v)'
    BY <1>1, <1>2, <1>4, <1>10, <1>17, OtherGroup, Zenon DEF AggregateRight, InclusiveRight
<1> QED
    BY <1>2, <1>4, <1>14, <1>15, <1>16, <1>17, Zenon DEF Inv

-----------------------------------------------------------------------------
(* The last steps of a group, and the results                              *)

\* StorePrefix: the prefix of a group is that of its predecessor combined with
\* its own aggregate.
LEMMA StorePrefixPreserves ==
    ASSUME OpAssociative, Inv, NEW w \in Groups, StorePrefix(w) PROVE Inv'
<1> DEFINE g == eid[w]
           P == GroupPrefix[config]
           x == Op(prefix[w], local[w][GroupSize * config.work])
<1>1. /\ UNCHANGED <<config, data, out, status, aggregate, counter, cleared, eid, local, look,
                     seen, prefix>>
      /\ pc[w] = "prefix" /\ pc' = [pc EXCEPT ![w] = "prefix status"]
      /\ inclusive' = [inclusive EXCEPT ![g] = x] /\ inclusive \in [Groups -> Elem]
    BY ZenonT(60) DEF StorePrefix, private, Inv, TypeOK
<1>2. /\ config \in Configs /\ Groups' = Groups /\ NumGroups(config') = NumGroups(config)
      /\ NumGroups(config) \in Nat \ {0} /\ Groups = 0..(NumGroups(config) - 1)
    BY <1>1, SameCall, ZenonT(60) DEF Inv
<1>3. /\ cleared = Groups /\ eid \in [Groups -> Groups] /\ w \in Active /\ Active' = Active
      /\ pc' \in [Groups' -> Labels] /\ pc'[w] = "prefix status"
      /\ \A v \in Groups \ {w} : pc'[v] = pc[v]
      /\ LaunchInv' /\ IdInv'
    BY <1>1, StepFacts, ZenonT(60) DEF Labels, Before
<1>4. g \in Groups /\ g # 0 /\ prefix[w] = P[g - 1] /\ local[w] = LocalScan(config, Input, g)
    BY <1>1, <1>3, ZenonT(60) DEF Inv, GroupInv, LocalOf, LookOf, PrefixOf, Before
<1>5. x = P[g] /\ x \in Elem
  <2>1. local[w][GroupSize * config.work] = GroupAggregate(config, g)
      BY <1>4, Zenon DEF GroupAggregate
  <2> QED
      BY <1>2, <1>4, <2>1, PrefixFacts, ZenonT(60) DEF Groups
<1>6. /\ \A k \in Groups : /\ AggregateRight(k) => AggregateRight(k)'
                           /\ InclusiveRight(k) => InclusiveRight(k)'
      /\ InclusiveRight(g)'
    BY <1>1, <1>2, <1>4, <1>5, ZenonT(60) DEF AggregateRight, InclusiveRight
<1>7. TypeOK' /\ InputInv'
  <2>1. inclusive' \in [Groups' -> Elem]
      BY <1>1, <1>2, <1>5, ZenonT(60)
  <2> QED
      BY <1>1, <1>2, <1>3, <2>1, ZenonT(60) DEF Inv, TypeOK, InputInv
<1>8. ASSUME NEW k \in cleared' PROVE EntryOf(k)'
    BY <1>1, <1>3, <1>6, <1>8, ZenonT(60) DEF Inv, EntryOf
<1>9. GroupInv(w)'
  <2>1. LocalOf(w)' /\ LookOf(w)' /\ PrefixOf(w)'
      BY <1>1, <1>3, <1>4, ZenonT(60) DEF LocalOf, LookOf, PrefixOf
  <2>2. OwnerOf(w)'
      BY <1>1, <1>3, <1>6, ZenonT(60) DEF Inv, GroupInv, OwnerOf
  <2> QED
      BY <2>1, <2>2, Zenon DEF GroupInv
<1>10. ASSUME NEW v \in Groups' \ {w} PROVE GroupInv(v)'
    BY <1>1, <1>2, <1>3, <1>6, <1>10, OtherGroup, ZenonT(60)
<1> QED
    BY <1>2, <1>3, <1>7, <1>8, <1>9, <1>10, ZenonT(60) DEF Inv

\* StorePrefixStatus: the owner announces its prefix.
LEMMA StorePrefixStatusPreserves ==
    ASSUME Inv, NEW w \in Groups, StorePrefixStatus(w) PROVE Inv'
<1> DEFINE g == eid[w]
<1>1. /\ UNCHANGED <<config, data, out, aggregate, inclusive, counter, cleared, eid, local, look,
                     seen, prefix>>
      /\ pc[w] = "prefix status" /\ pc' = [pc EXCEPT ![w] = "process"]
      /\ status' = [status EXCEPT ![g] = "prefix_available"] /\ status \in [Groups -> Statuses]
    BY ZenonT(60) DEF StorePrefixStatus, private, Inv, TypeOK
<1>2. Groups' = Groups /\ NumGroups(config') = NumGroups(config)
    BY <1>1, SameCall, ZenonT(60) DEF Inv
<1>3. /\ cleared = Groups /\ eid \in [Groups -> Groups] /\ w \in Active /\ Active' = Active
      /\ pc' \in [Groups' -> Labels] /\ pc'[w] = "process"
      /\ \A v \in Groups \ {w} : pc'[v] = pc[v]
      /\ LaunchInv' /\ IdInv'
    BY <1>1, StepFacts, ZenonT(60) DEF Labels, Before
<1>4. /\ g \in Groups /\ status'[g] = "prefix_available"
      /\ \A h \in Groups \ {g} : status'[h] = status[h]
    BY <1>1, <1>3, ZenonT(60)
<1>5. \A h \in Groups : /\ AggregateRight(h)' <=> AggregateRight(h)
                        /\ InclusiveRight(h)' <=> InclusiveRight(h)
    BY <1>1, <1>2, ZenonT(60) DEF AggregateRight, InclusiveRight
<1>6. InclusiveRight(g) /\ AggregateRight(g)
    BY <1>1, <1>3, <1>4, ZenonT(60) DEF Inv, GroupInv, OwnerOf
<1>7. TypeOK' /\ InputInv'
  <2>1. status' \in [Groups' -> Statuses]
      BY <1>1, <1>2, <1>3, ZenonT(60) DEF Statuses
  <2> QED
      BY <1>1, <1>2, <1>3, <2>1, ZenonT(60) DEF Inv, TypeOK, InputInv
<1>8. ASSUME NEW h \in cleared' PROVE EntryOf(h)'
  <2>1. h \in Groups /\ EntryOf(h)
      BY <1>1, <1>3, <1>8, ZenonT(60) DEF Inv
  <2>2. CASE h = g
      BY <1>1, <1>3, <1>4, <1>5, <1>6, <2>2, ZenonT(60) DEF EntryOf
  <2>3. CASE h # g
      BY <1>1, <1>3, <1>4, <1>5, <2>1, <2>3, ZenonT(60) DEF EntryOf
  <2> QED
      BY <2>2, <2>3, Zenon
<1>9. GroupInv(w)'
    BY <1>1, <1>3, ZenonT(60) DEF Inv, GroupInv, LocalOf, OwnerOf, LookOf, PrefixOf, Before
<1>10. ASSUME NEW v \in Groups' \ {w} PROVE GroupInv(v)'
  <2>1. pc[v] \notin Before => eid[v] # g /\ eid[v] \in Groups
      BY <1>2, <1>3, <1>10, Zenon DEF Inv, IdInv, Active
  <2> QED
      BY <1>1, <1>2, <1>3, <1>4, <1>5, <1>10, <2>1, OtherGroup, ZenonT(60)
<1> QED
    BY <1>2, <1>3, <1>7, <1>8, <1>9, <1>10, Zenon DEF Inv

\* The results that a group writes are elements.
LEMMA WrittenFacts ==
    ASSUME OpAssociative, Inv, NEW w \in Groups, pc[w] = "process", NEW mem,
           DOMAIN mem = DOMAIN Input, \A id \in DOMAIN Input : mem[id] \in Elem
    PROVE  /\ DOMAIN Written(w, mem) = DOMAIN Input
           /\ \A id \in DOMAIN Input : Written(w, mem)[id] \in Elem
<1>1. \A i \in Items(config) : Result(w, i) \in Elem
  <2>1. /\ local[w] = LocalScan(config, Input, eid[w]) /\ prefix[w] \in Elem
        /\ config \in Configs /\ eid[w] \in GroupsOf(config)
      BY ZenonT(60) DEF Inv, TypeOK, GroupInv, LocalOf, Before, Groups
  <2>2. \A i \in Items(config) : local[w][i] \in Elem
      BY <2>1, AggregateCorrect, ZenonT(60)
  <2> QED
      BY <2>1, <2>2, Zenon DEF OpAssociative, Result
<1>2. ASSUME NEW id \in DOMAIN Input PROVE Written(w, mem)[id] \in Elem
  <2> DEFINE own(i) == GlobalId(config, eid[w], i) = id
  <2>1. CASE \E i \in Items(config) : own(i) /\ id < config.size
    <3>1. (CHOOSE i \in Items(config) : own(i)) \in Items(config)
        BY <2>1, Zenon
    <3> QED
        BY <1>1, <2>1, <3>1, Zenon DEF Written
  <2>2. CASE ~ \E i \in Items(config) : own(i) /\ id < config.size
      BY <2>2, Zenon DEF Written
  <2> QED
      BY <2>1, <2>2, Zenon
<1> QED
    BY <1>2, Zenon DEF Written

\* Process: results go to the destination.
LEMMA ProcessPreserves ==
    ASSUME OpAssociative, Inv, NEW w \in Groups, Process(w) PROVE Inv'
<1>1. /\ UNCHANGED <<config, status, aggregate, inclusive, counter, cleared, eid, local,
                     look, seen, prefix>>
      /\ pc[w] = "process" /\ pc' = [pc EXCEPT ![w] = "done"]
      /\ data' = data \/ data' = Written(w, data)
      /\ out' = out \/ out' = Written(w, out)
    BY Zenon DEF Process, scratch, private
<1>2. config \in Configs /\ Groups' = Groups /\ NumGroups(config') = NumGroups(config)
    BY <1>1, SameCall, Zenon DEF Inv
<1>3. /\ cleared = Groups /\ eid \in [Groups -> Groups] /\ w \in Active /\ Active' = Active
      /\ pc' \in [Groups' -> Labels] /\ pc'[w] = "done"
      /\ \A v \in Groups \ {w} : pc'[v] = pc[v]
      /\ LaunchInv' /\ IdInv'
    BY <1>1, StepFacts, ZenonT(60) DEF Labels, Before
<1>4. /\ DOMAIN data = DOMAIN Input /\ \A id \in DOMAIN Input : data[id] \in Elem
      /\ DOMAIN out = DOMAIN Input /\ \A id \in DOMAIN Input : out[id] \in Elem
    BY Zenon DEF Inv, InputInv, TypeOK
<1>5. DOMAIN data' = DOMAIN Input /\ \A id \in DOMAIN Input : data'[id] \in Elem
    BY <1>1, <1>4, WrittenFacts
<1>6. DOMAIN out' = DOMAIN Input /\ \A id \in DOMAIN Input : out'[id] \in Elem
    BY <1>1, <1>4, WrittenFacts
<1>7. TypeOK' /\ InputInv'
    BY <1>1, <1>2, <1>3, <1>5, <1>6, Zenon DEF Inv, TypeOK, InputInv
<1>8. ASSUME NEW k \in cleared' PROVE EntryOf(k)'
    BY <1>1, <1>2, <1>3, <1>8, ZenonT(60) DEF Inv, EntryOf, AggregateRight, InclusiveRight
<1>9. GroupInv(w)'
    BY <1>1, <1>3, ZenonT(60) DEF Inv, GroupInv, LocalOf, OwnerOf, LookOf, PrefixOf, Before
<1>10. ASSUME NEW v \in Groups' \ {w} PROVE GroupInv(v)'
    BY <1>1, <1>2, <1>3, <1>10, OtherGroup, ZenonT(60) DEF AggregateRight, InclusiveRight
<1> QED
    BY <1>2, <1>3, <1>7, <1>8, <1>9, <1>10, Zenon DEF Inv

\* A step finishes no group, and keeps the ids of those that are done.
DoneStays(w) ==
    /\ pc'[w] = "done" <=> pc[w] = "done"
    /\ pc[w] = "done" => eid'[w] = eid[w]

\* Steps other than Process write no results, and no ids of groups that are done.
LEMMA NotProcess ==
    ASSUME Inv, [Next]_vars, \A w \in Groups : ~ Process(w)
    PROVE  /\ UNCHANGED <<config, data, out>>
           /\ \A w \in Groups : DoneStays(w)
<1>0. pc \in [Groups -> Labels] /\ eid \in [Groups -> Groups]
    BY Zenon DEF Inv, TypeOK
<1>1. CASE UNCHANGED <<config, data, out, pc, eid>>
    BY <1>1, Zenon DEF DoneStays
<1>2. ASSUME NEW w \in Groups, Launch(w) \/ GroupStep(w)
      PROVE  /\ UNCHANGED <<config, data, out>>
             /\ \A v \in Groups : DoneStays(v)
  <2>1. ASSUME NEW l, l # "done", pc[w] # "done", UNCHANGED <<config, data, out>>, pc' = [pc EXCEPT ![w] = l],
               \A v \in Groups : v # w => eid'[v] = eid[v]
        PROVE  /\ UNCHANGED <<config, data, out>>
               /\ \A v \in Groups : DoneStays(v)
      BY <1>0, <2>1, Zenon DEF DoneStays
  <2>2. CASE Launch(w)
      BY <1>0, <2>1, <2>2, Zenon DEF Launch, private
  <2>3. CASE TakeId(w)
      BY <1>0, <2>1, <2>3, Zenon DEF TakeId
  <2>4. CASE ScanGroup(w)
    <3>1. PICK l : l # "done" /\ pc' = [pc EXCEPT ![w] = l]
        BY <2>4, Zenon DEF ScanGroup, AfterAggregate
    <3> QED BY <2>1, <2>4, <3>1, Zenon DEF ScanGroup
  <2>5. CASE StoreAggregate(w)
      BY <2>1, <2>5, Zenon DEF StoreAggregate, private
  <2>6. CASE StoreStatus(w)
    <3>1. PICK l : l # "done" /\ pc' = [pc EXCEPT ![w] = l]
        BY <2>6, Zenon DEF StoreStatus, AfterAggregate
    <3> QED BY <2>1, <2>6, <3>1, Zenon DEF StoreStatus, private
  <2>7. CASE Spin(w)
      BY <1>1, <2>7, Zenon DEF Spin, vars, private
  <2>8. CASE ReadStatus(w)
      BY <2>1, <2>8, Zenon DEF ReadStatus
  <2>9. CASE ReadValue(w)
    <3>1. PICK l : l # "done" /\ pc' = [pc EXCEPT ![w] = l]
        BY <2>9, Zenon DEF ReadValue, AfterLookback
    <3> QED BY <2>1, <2>9, <3>1, Zenon DEF ReadValue
  <2>10. CASE StorePrefix(w)
      BY <2>1, <2>10, Zenon DEF StorePrefix, private
  <2>11. CASE StorePrefixStatus(w)
      BY <2>1, <2>11, Zenon DEF StorePrefixStatus, private
  <2> QED
      BY <1>2, <2>2, <2>3, <2>4, <2>5, <2>6, <2>7, <2>8, <2>9, <2>10, <2>11, Zenon
         DEF GroupStep
<1>3. ASSUME NEW g \in Groups, ClearStatus(g) PROVE UNCHANGED <<config, data, out, pc, eid>>
    BY <1>3, Zenon DEF ClearStatus, private
<1>4. ASSUME Terminated \/ UNCHANGED vars PROVE UNCHANGED <<config, data, out, pc, eid>>
    BY <1>4, Zenon DEF Terminated, vars, private
<1> QED
    BY <1>1, <1>2, <1>3, <1>4, Zenon DEF Next

\* The input stays, but for the elements of groups that finish in place.
LEMMA DataPreserved ==
    ASSUME Inv, DataInv, [Next]_vars PROVE DataInv'
<1>1. CASE \A w \in Groups : ~ Process(w)
  <2>1. /\ UNCHANGED <<config, data, out>>
        /\ \A w \in Groups : DoneStays(w)
      BY <1>1, NotProcess, Zenon
  <2>2. Groups' = Groups /\ \A g, id : OwnElement(g, id)' <=> OwnElement(g, id)
      BY <2>1, Zenon DEF Groups, OwnElement
  <2> QED
      BY <2>1, <2>2, Zenon DEF DataInv, DoneStays
<1>2. ASSUME NEW w \in Groups, Process(w) PROVE DataInv'
  <2>1. /\ UNCHANGED <<config, eid>> /\ pc \in [Groups -> Labels] /\ DOMAIN data = DOMAIN Input
        /\ pc' = [pc EXCEPT ![w] = "done"]
        /\ data' = IF config.inPlace THEN Written(w, data) ELSE data
      BY <1>2, Zenon DEF Process, private, Inv, TypeOK, InputInv
  <2>2. Groups' = Groups /\ \A g, id : OwnElement(g, id)' <=> OwnElement(g, id)
      BY <2>1, Zenon DEF Groups, OwnElement
  <2>3. \A v \in Groups : pc[v] = "done" \/ v = w => pc'[v] = "done"
      BY <2>1, Zenon
  <2>4. ASSUME NEW id \in DOMAIN Input, config.inPlace, ~ OwnElement(eid[w], id)
        PROVE  data'[id] = data[id]
      BY <2>1, <2>4, Zenon DEF Written, OwnElement
  <2> QED
      BY <2>1, <2>2, <2>3, <2>4, Zenon DEF DataInv
<1> QED
    BY <1>1, <1>2, Zenon

-----------------------------------------------------------------------------

\* Everything that the results below rest on.
THEOREM Invariance ==
    ASSUME OpAssociative, InPlaceInclusive PROVE Spec => [](Inv /\ DataInv)
<1>1. Inv /\ DataInv /\ [Next]_vars => Inv'
  <2> SUFFICES ASSUME Inv, DataInv, [Next]_vars PROVE Inv'
      BY Zenon
  <2>1. CASE UNCHANGED vars
    <3>1. UNCHANGED <<config, data, out, status, aggregate, inclusive, counter, cleared, pc, eid,
                      local, look, seen, prefix>>
        BY <2>1, Zenon DEF vars, scratch, private
    <3>2. Groups' = Groups /\ Active' = Active
        BY <3>1, SameCall, Zenon DEF Inv, Active
    <3>3. TypeOK' /\ InputInv' /\ LaunchInv' /\ IdInv'
        BY <3>1, <3>2, Zenon DEF Inv, TypeOK, InputInv, LaunchInv, IdInv
    <3>4. \A g \in cleared' : EntryOf(g)'
        BY <3>1, <3>2, Zenon DEF Inv, EntryOf, AggregateRight, InclusiveRight
    <3>5. \A w \in Groups' : GroupInv(w)'
        BY <3>1, <3>2, OtherGroup, Zenon DEF AggregateRight, InclusiveRight
    <3> QED
        BY <3>3, <3>4, <3>5, Zenon DEF Inv
  <2>2. CASE \E g \in Groups : ClearStatus(g)
      BY <2>2, ClearStatusPreserves, Zenon
  <2>3. CASE \E w \in Groups : Launch(w)
      BY <2>3, LaunchPreserves, Zenon
  <2>4. ASSUME NEW w \in Groups, GroupStep(w) PROVE Inv'
    <3>1. CASE Spin(w)
        BY <2>1, <3>1, Zenon DEF Spin
    <3> QED
        BY <2>4, <3>1, TakeIdPreserves, ScanGroupPreserves, StoreAggregatePreserves,
           StoreStatusPreserves, ReadStatusPreserves, ReadValuePreserves,
           StorePrefixPreserves, StorePrefixStatusPreserves, ProcessPreserves, Zenon
           DEF GroupStep
  <2> QED
      BY <2>1, <2>2, <2>3, <2>4, Zenon DEF Next, Terminated
<1>2. Inv /\ DataInv /\ [Next]_vars => DataInv'
    BY DataPreserved, Zenon
<1>3. Init => DataInv
    BY Zenon DEF Init, DataInv
<1> QED
    BY <1>1, <1>2, <1>3, InitInv, PTL DEF Spec

\* The counters, ids and entries of a scan stay within its groups, whatever
\* the scratch memory contained before.
THEOREM TypeCorrect ==
    ASSUME OpAssociative, InPlaceInclusive PROVE Spec => []TypeOK
<1>1. Inv => TypeOK
    BY Zenon DEF Inv
<1> QED
    BY <1>1, Invariance, PTL

\* Look-back returns the combination of all groups before, for every number of
\* groups, every order in which the device starts them, and every mixture of
\* aggregates and prefixes that is found.
THEOREM LookbackCorrect ==
    ASSUME OpAssociative, InPlaceInclusive PROVE Spec => []PrefixCorrect
<1>1. Inv => PrefixCorrect
    BY ZenonT(60) DEF Inv, GroupInv, PrefixOf, PrefixCorrect
<1> QED
    BY <1>1, Invariance, PTL

\* The status and the values that a group has published do not change until the
\* end of the scan, which is why look-back may read them without a lock.
THEOREM PublicationFinal ==
    ASSUME OpAssociative, InPlaceInclusive PROVE Spec => PublishedIsFinal
<1>1. ASSUME Inv, [Next]_vars PROVE [\A w \in Groups : EntryStays(w)]_vars
  <2> SUFFICES ASSUME Next, NEW w \in Groups, pc[w] \notin Before \cup {"scan", "aggregate", "status"}
               PROVE  EntryStays(w)
      BY <1>1, ZenonT(60) DEF EntryStays, Before
  <2> DEFINE g == eid[w]
  <2>1. /\ eid \in [Groups -> Groups] /\ status \in [Groups -> Statuses]
        /\ aggregate \in [Groups -> Elem] /\ inclusive \in [Groups -> Elem]
        /\ cleared = Groups
      BY <1>1, Zenon DEF Inv, TypeOK, LaunchInv, Before
  <2>2. \A v \in Groups \ {w} : pc[v] \notin Before => eid[v] # g
      BY <1>1, Zenon DEF Inv, IdInv, Active
  <2>3. CASE UNCHANGED <<status, aggregate, inclusive>>
      BY <2>3, Zenon DEF EntryStays
  <2>4. ASSUME NEW v \in Groups, StoreAggregate(v) PROVE EntryStays(w)
    <3>1. v # w /\ eid[v] # g /\ eid[v] \in Groups
        BY <2>1, <2>2, <2>4, Zenon DEF StoreAggregate, Before
    <3> QED
        BY <2>1, <2>4, <3>1, Zenon DEF StoreAggregate, EntryStays
  <2>5. ASSUME NEW v \in Groups, StoreStatus(v) PROVE EntryStays(w)
    <3>1. v # w /\ eid[v] # g /\ eid[v] \in Groups
        BY <2>1, <2>2, <2>5, Zenon DEF StoreStatus, Before
    <3> QED
        BY <2>1, <2>5, <3>1, Zenon DEF StoreStatus, EntryStays
  <2>6. ASSUME NEW v \in Groups, StorePrefix(v) PROVE EntryStays(w)
    <3>1. v = w => status[g] # "prefix_available"
        BY <1>1, <2>6, ZenonT(60) DEF StorePrefix, Inv, GroupInv, OwnerOf
    <3>2. v # w => eid[v] # g
        BY <2>2, <2>6, ZenonT(60) DEF StorePrefix, Before
    <3> QED
        BY <2>1, <2>6, <3>1, <3>2, ZenonT(60) DEF StorePrefix, EntryStays
  <2>7. ASSUME NEW v \in Groups, StorePrefixStatus(v) PROVE EntryStays(w)
      BY <2>1, <2>7, ZenonT(60) DEF StorePrefixStatus, EntryStays
  <2>8. ~ \E v \in Groups : ClearStatus(v)
      BY <2>1, Zenon DEF ClearStatus
  <2> QED
      BY <2>3, <2>4, <2>5, <2>6, <2>7, <2>8, ZenonT(60) DEF Next, GroupStep, Terminated,
         Launch, TakeId, ScanGroup, Spin, ReadStatus, ReadValue, Process, vars, scratch
<1> QED
    BY <1>1, Invariance, PTL DEF Spec, PublishedIsFinal

-----------------------------------------------------------------------------
(* The results                                                             *)

\* What the groups that are done have written; nothing beyond the end.
Memory == IF config.inPlace THEN data ELSE out
OutInv ==
    \A id \in DOMAIN Input :
        /\ \A w \in Groups : \A i \in Items(config) :
               pc[w] = "done" /\ GlobalId(config, eid[w], i) = id /\ id < config.size
                   => Memory[id] = Sum(Loaded(config), 0, id)
        /\ ~ (id < config.size) => Memory[id] = Input[id]

\* A group hands the sums up to its elements to the processor.
LEMMA ResultFacts ==
    ASSUME OpAssociative, Inv, NEW w \in Groups, pc[w] = "process", NEW i \in Items(config)
    PROVE  Result(w, i) = Sum(Loaded(config), 0, GlobalId(config, eid[w], i))
<1>1. PICK c, g : c = config /\ g = eid[w]
    BY Zenon
<1>2. c \in Configs /\ g \in GroupsOf(c) /\ i \in Items(c)
    BY <1>1, Zenon DEF Inv, TypeOK, Groups
<1>3. local[w] = LocalScan(c, Input, g)
    BY <1>1, Zenon DEF Inv, GroupInv, LocalOf, Before
<1>4. g # 0 => prefix[w] = GroupPrefix[c][g - 1]
    BY <1>1, Zenon DEF Inv, GroupInv, PrefixOf
<1>5. (IF g = 0 THEN LocalScan(c, Input, g)[i] ELSE Op(GroupPrefix[c][g - 1], LocalScan(c, Input, g)[i]))
          = Sum(Loaded(c), 0, GlobalId(c, g, i))
    BY <1>2, ResultIsSum, Zenon
<1>6. Result(w, i) = IF g = 0 THEN local[w][i] ELSE Op(prefix[w], local[w][i])
    BY <1>1, Zenon DEF Result
<1> QED
    BY <1>1, <1>3, <1>4, <1>5, <1>6, Zenon

\* The processor writes the results of one group; a group writes its own ids.
LEMMA OutPreserved ==
    ASSUME OpAssociative, Inv, OutInv, [Next]_vars
    PROVE  OutInv'
<1>1. CASE \A w \in Groups : ~ Process(w)
  <2>1. /\ UNCHANGED <<config, data, out>>
        /\ \A w \in Groups : DoneStays(w)
      BY <1>1, NotProcess, Zenon
  <2>2. Groups' = Groups /\ Memory' = Memory
      BY <2>1, Zenon DEF Groups, Memory
  <2> QED
      BY <2>1, <2>2, Zenon DEF OutInv, DoneStays
<1>2. ASSUME NEW w \in Groups, Process(w) PROVE OutInv'
  <2>1. /\ UNCHANGED <<config, eid>> /\ pc[w] = "process" /\ pc' = [pc EXCEPT ![w] = "done"]
        /\ Memory' = Written(w, Memory)
      BY <1>2, Zenon DEF Process, private, Memory
  <2>2. Groups' = Groups /\ DOMAIN Memory = DOMAIN Input /\ pc \in [Groups -> Labels]
      BY <2>1, Zenon DEF Groups, Inv, InputInv, TypeOK, Memory
  <2>3. \A i \in Items(config) : Result(w, i) = Sum(Loaded(config), 0, GlobalId(config, eid[w], i))
      BY <2>1, ResultFacts, Zenon
  <2> SUFFICES ASSUME NEW id \in DOMAIN Input
               PROVE  /\ \A v \in Groups : \A i \in Items(config) :
                             pc'[v] = "done" /\ GlobalId(config, eid[v], i) = id /\ id < config.size
                                 => Memory'[id] = Sum(Loaded(config), 0, id)
                      /\ ~ (id < config.size) => Memory'[id] = Input[id]
      BY <2>1, <2>2, Zenon DEF OutInv, DoneStays
  <2> DEFINE own(i) == GlobalId(config, eid[w], i) = id
  <2>4. Memory'[id] = IF \E i \in Items(config) : own(i) /\ id < config.size
                   THEN Result(w, CHOOSE i \in Items(config) : own(i)) ELSE Memory[id]
      BY <2>1, <2>2, Zenon DEF Written
  <2>5. CASE \E i \in Items(config) : own(i) /\ id < config.size
    <3>1. PICK i \in Items(config) : i = CHOOSE j \in Items(config) : own(j)
        BY <2>5, Zenon
    <3>2. own(i)
        BY <2>5, <3>1, Zenon
    <3>3. Memory'[id] = Sum(Loaded(config), 0, id)
        BY <2>3, <2>4, <2>5, <3>1, <3>2, Zenon
    <3> QED
        BY <2>5, <3>3, Zenon
  <2>6. CASE ~ \E i \in Items(config) : own(i) /\ id < config.size
    <3>1. Memory'[id] = Memory[id]
        BY <2>4, <2>6, Zenon
    <3>2. \A v \in Groups : v # w /\ pc'[v] = "done" => pc[v] = "done"
        BY <2>1, <2>2, Zenon
    <3> QED
        BY <2>6, <3>1, <3>2, Zenon DEF OutInv
  <2> QED
      BY <2>5, <2>6, Zenon
<1> QED
    BY <1>1, <1>2, Zenon

\* Ids are handed out once, so that all of them are when all groups are done.
LEMMA AllIdsTaken ==
    ASSUME Inv, Finished
    PROVE  \A g \in Groups : \E w \in Groups : eid[w] = g
<1>1. eid \in [Groups -> Groups] /\ Active = Groups
    BY Zenon DEF Inv, TypeOK, Active, Finished, Before
<1>2. eid \in Injection(Groups, Groups)
    BY <1>1, Zenon DEF Inv, IdInv, Injection, IsInjective
<1>3. IsFiniteSet(Groups)
  <2>1. NumGroups(config) \in Nat \ {0} /\ Groups = 0..(NumGroups(config) - 1)
      BY GroupFacts, Zenon DEF Inv, TypeOK, Groups, GroupsOf
  <2> QED
      BY <2>1, FS_Interval
<1>4. eid \in Surjection(Groups, Groups)
    BY <1>2, <1>3, FS_Injection, Zenon
<1> QED
    BY <1>4, Zenon DEF Surjection

\* When the kernel has finished, the destination holds the result of the
\* sequential scan, and nothing else has been written: for every size of the
\* input and of the groups, every associative operation, every order of the
\* groups, and all variants of the scan inside of a group.
THEOREM ScanCorrect ==
    ASSUME OpAssociative, InPlaceInclusive PROVE Spec => []ResultIsReference
<1>1. ASSUME Init PROVE OutInv
    BY <1>1, Zenon DEF Init, OutInv, Memory
<1>2. Inv /\ OutInv /\ [Next]_vars => OutInv'
    BY OutPreserved, Zenon
<1>3. ASSUME Inv, OutInv PROVE ResultIsReference
  <2> SUFFICES ASSUME Finished, NEW id \in DOMAIN Input
               PROVE  Memory[id] = IF id < config.size THEN Reference[id] ELSE Input[id]
      BY <1>3, Zenon DEF ResultIsReference, Memory
  <2>1. config \in Configs /\ config.size \in Nat /\ id \in Nat
      BY <1>3, ScanAssumption, Zenon DEF Inv, TypeOK
  <2>2. ASSUME id < config.size PROVE Memory[id] = Reference[id]
    <3>1. id \in 0..(config.size - 1)
        BY <2>1, <2>2
    <3>2. PICK g \in Groups : \E i \in Items(config) : GlobalId(config, g, i) = id
        BY <2>1, <3>1, GroupOfElement, Zenon DEF Groups
    <3>3. PICK w \in Groups : eid[w] = g
        BY <1>3, AllIdsTaken, Zenon
    <3>4. Memory[id] = Sum(Loaded(config), 0, id)
        BY <1>3, <2>2, <3>2, <3>3, Zenon DEF OutInv, Finished
    <3> QED
        BY <2>1, <3>1, <3>4, ReferenceIsSum, Zenon
  <2> QED
      BY <1>3, <2>2, Zenon DEF OutInv
<1>4. Spec => []OutInv
    BY <1>1, <1>2, Invariance, PTL DEF Spec
<1> QED
    BY <1>3, <1>4, Invariance, PTL
=============================================================================
