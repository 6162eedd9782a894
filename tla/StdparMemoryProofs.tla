------------------------ MODULE StdparMemoryProofs --------------------------
(***************************************************************************)
(* Proofs about StdparMemory: malloc() and free() of a stdpar program on a *)
(* memory pool that free_space_map divides.  First the arithmetic of block *)
(* sizes and alignment, then what claim() and release() do with the free   *)
(* blocks, then the threads.                                               *)
(***************************************************************************)
EXTENDS StdparMemory, Induction

-----------------------------------------------------------------------------
(* Block sizes                                                             *)

\* get_block_size: each level has twice the size of the level below.
LEMMA PowersOf2 ==
    /\ PowerOf2[0] = 1
    /\ \A n \in Nat : PowerOf2[n] \in Nat \ {0} /\ PowerOf2[n + 1] = 2 * PowerOf2[n]
  <1>1. PowerOf2 = CHOOSE g : g = [n \in Nat |-> IF n = 0 THEN 1 ELSE 2 * g[n - 1]]
      BY Zenon DEF PowerOf2
  <1> QED BY <1>1, Doubling, Zenon

\* The same for the levels of free_space_map.
LEMMA BlockSizes ==
    /\ BlockSize(0) = 1
    /\ \A l \in Nat : BlockSize(l) \in Nat \ {0} /\ BlockSize(l + 1) = 2 * BlockSize(l)
  BY PowersOf2, Zenon DEF BlockSize

\* Blocks of a higher level are at least as large.
LEMMA BlockSizesGrow ==
    ASSUME NEW l \in Nat, NEW m \in Nat, l <= m
    PROVE  BlockSize(l) <= BlockSize(m)
  <1> DEFINE S == {k \in Nat : BlockSize(l) <= BlockSize(l + k)}
  <1>1. 0 \in S
      BY BlockSizes
  <1>2. \A k \in Nat : k \in S => k + 1 \in S
    <2> TAKE k \in Nat
    <2> HAVE k \in S
    <2> QED BY BlockSizes
  <1>3. Nat \subseteq S
    <2> HIDE DEF S
    <2> QED BY <1>1, <1>2, SetInduction, Zenon
  <1> QED BY <1>3

\* The numbers of the levels.
LEMMA Levels ==
    /\ MaxBits \in Nat \ {0} /\ MaxBits - 1 \in FreeLevels
    /\ \A l : l \in FreeLevels <=> (l \in Nat /\ l < MaxBits)
  BY SpaceAssumption DEF FreeLevels

-----------------------------------------------------------------------------
(* Alignment                                                               *)

\* A block of a level starts at a multiple of the level's size.
Aligned(a, l) == a \in Nat /\ a % BlockSize(l) = 0

\* A remainder of 0 in terms of a multiplier.
LEMMA Multiples ==
    ASSUME NEW s \in Nat \ {0}, NEW a \in Nat
    PROVE  a % s = 0 <=> \E k \in Nat : a = k * s
  <1>1. ASSUME a % s = 0 PROVE \E k \in Nat : a = k * s
      BY <1>1
  <1>2. ASSUME NEW k \in Nat, a = k * s PROVE a % s = 0
      BY <1>2
  <1> QED BY <1>1, <1>2, Zenon

\* Every number is even or odd.
LEMMA EvenOrOdd ==
    ASSUME NEW k \in Nat
    PROVE  \E j \in Nat : k = 2 * j \/ k = 2 * j + 1
  <1>1. k \div 2 \in Nat /\ (k = 2 * (k \div 2) \/ k = 2 * (k \div 2) + 1)
      OBVIOUS
  <1> QED BY <1>1, Zenon

\* Alignment in terms of a multiplier.
LEMMA AlignedMultiple ==
    ASSUME NEW l \in Nat, NEW a \in Nat
    PROVE  Aligned(a, l) <=> \E k \in Nat : a = k * BlockSize(l)
  <1> PICK s \in Nat \ {0} : s = BlockSize(l)
      BY BlockSizes, Zenon
  <1> QED BY Multiples, Zenon DEF Aligned

\* A block that is aligned to the next level consists of two aligned halves.
LEMMA AlignedHalves ==
    ASSUME NEW l \in Nat, NEW a, Aligned(a, l + 1)
    PROVE  Aligned(a, l) /\ Aligned(a + BlockSize(l), l)
  <1> PICK s \in Nat \ {0} : s = BlockSize(l) /\ BlockSize(l + 1) = 2 * s
      BY BlockSizes, Zenon
  <1>0. a \in Nat
      BY Zenon DEF Aligned
  <1>1. PICK k \in Nat : a = k * (2 * s)
      BY <1>0, AlignedMultiple
  <1>2. a = (2 * k) * s /\ a + s = (2 * k + 1) * s
      BY <1>1
  <1> QED BY <1>0, <1>2, AlignedMultiple

\* A block that is not aligned to the next level is the upper half of one.
LEMMA UpperHalf ==
    ASSUME NEW l \in Nat, NEW a, Aligned(a, l), ~ Aligned(a, l + 1)
    PROVE  a - BlockSize(l) \in Nat /\ Aligned(a - BlockSize(l), l + 1)
  <1> PICK s \in Nat \ {0} : s = BlockSize(l) /\ BlockSize(l + 1) = 2 * s
      BY BlockSizes, Zenon
  <1>0. a \in Nat
      BY Zenon DEF Aligned
  <1>1. PICK k \in Nat : a = k * s
      BY <1>0, AlignedMultiple, Zenon
  <1>2. PICK j \in Nat : k = 2 * j \/ k = 2 * j + 1
      BY EvenOrOdd, Zenon
  <1>3. k # 2 * j
    <2> SUFFICES ASSUME k = 2 * j PROVE FALSE
        BY Zenon
    <2>1. a = j * (2 * s)
        BY <1>1
    <2> QED BY <1>0, <2>1, AlignedMultiple
  <1>4. a = (2 * j + 1) * s
      BY <1>1, <1>2, <1>3, Zenon
  <1>6. a - s = j * (2 * s)
      BY <1>4
  <1>5. j * (2 * s) \in Nat
      OBVIOUS
  <1> QED BY <1>6, <1>5, AlignedMultiple

\* Two blocks of a level that are aligned are the same or do not overlap.
LEMMA AlignedApart ==
    ASSUME NEW l \in Nat, NEW a, NEW b, Aligned(a, l), Aligned(b, l), a < b
    PROVE  a + BlockSize(l) <= b
  <1> PICK s \in Nat \ {0} : s = BlockSize(l)
      BY BlockSizes, Zenon
  <1>0. a \in Nat /\ b \in Nat
      BY Zenon DEF Aligned
  <1>1. PICK j \in Nat : a = j * s
      BY <1>0, AlignedMultiple, Zenon
  <1>2. PICK k \in Nat : b = k * s
      BY <1>0, AlignedMultiple, Zenon
  <1>3. j < k
      BY <1>1, <1>2
  <1>4. PICK d \in Nat : k = j + 1 + d
      BY <1>3
  <1>5. b = a + s + d * s /\ d * s \in Nat
      BY <1>1, <1>2, <1>4
  <1> QED BY <1>0, <1>5

\* What is aligned to a level is aligned to the levels below, too.
LEMMA AlignedBelow ==
    ASSUME NEW l \in Nat, NEW m \in Nat, l <= m, NEW a, Aligned(a, m)
    PROVE  Aligned(a, l)
  <1> DEFINE S == {k \in Nat : \A b : Aligned(b, l + k) => Aligned(b, l)}
  <1>1. 0 \in S
      OBVIOUS
  <1>2. \A k \in Nat : k \in S => k + 1 \in S
    <2> TAKE k \in Nat
    <2> HAVE k \in S
    <2>2. \A b : Aligned(b, l + (k + 1)) => Aligned(b, l + k)
        BY AlignedHalves
    <2> QED BY <2>2
  <1>3. Nat \subseteq S
    <2> HIDE DEF S
    <2> QED BY <1>1, <1>2, SetInduction, Zenon
  <1> QED BY <1>3

-----------------------------------------------------------------------------
(* Free blocks                                                             *)

\* The first element of a sorted set of blocks, or the lowest level of some.
LEMMA MinOfSet ==
    ASSUME NEW S, S \subseteq Nat, S # {}
    PROVE  MinOf(S) \in S /\ \A y \in S : MinOf(S) <= y
  BY Least, Zenon DEF MinOf

\* The last element of a sorted set of blocks.
LEMMA MaxOfSet ==
    ASSUME NEW S, S \subseteq Nat, S # {}, NEW bound \in Nat, \A y \in S : y <= bound
    PROVE  MaxOf(S) \in S /\ \A y \in S : MaxOf(S) >= y
  BY Greatest, Zenon DEF MaxOf

\* get_desired_level returns the lowest level that is large enough, or the
\* highest one; larger requests have no lower levels.
LEMMA DesiredLevels ==
    ASSUME NEW size \in Nat
    PROVE  /\ DesiredLevel(size) \in FreeLevels
           /\ BlockSize(DesiredLevel(size)) >= size \/ DesiredLevel(size) = MaxBits - 1
           /\ \A n \in Nat : n <= size => DesiredLevel(n) <= DesiredLevel(size)
  <1> DEFINE large(n) == {l \in FreeLevels : BlockSize(l) >= n}
  <1>1. \A n \in Nat : DesiredLevel(n) = IF large(n) = {} THEN MaxBits - 1 ELSE MinOf(large(n))
      BY Zenon DEF DesiredLevel
  <1>2. \A n \in Nat : large(n) \subseteq Nat
      BY Levels, Zenon
  <1>3. ASSUME NEW n \in Nat, large(n) # {}
        PROVE  /\ DesiredLevel(n) \in large(n)
               /\ \A l \in large(n) : DesiredLevel(n) <= l
    <2> HIDE DEF large
    <2> QED BY <1>1, <1>2, <1>3, MinOfSet, Zenon
  <1>4. ASSUME NEW n \in Nat, n <= size PROVE large(size) \subseteq large(n)
      BY <1>4, Levels, BlockSizes
  <1>5. DesiredLevel(size) \in FreeLevels
      BY <1>1, <1>3, Levels, Zenon
  <1>6. BlockSize(DesiredLevel(size)) >= size \/ DesiredLevel(size) = MaxBits - 1
      BY <1>1, <1>3, Zenon
  <1>7. ASSUME NEW n \in Nat, n <= size PROVE DesiredLevel(n) <= DesiredLevel(size)
    <2>1. CASE large(size) = {}
      <3>1. DesiredLevel(size) = MaxBits - 1
          BY <1>1, <2>1, Zenon
      <3>2. DesiredLevel(n) \in FreeLevels
          BY <1>1, <1>3, Levels, Zenon
      <3> QED BY <3>1, <3>2, Levels
    <2>2. CASE large(size) # {}
      <3>1. DesiredLevel(size) \in large(n)
          BY <1>3, <1>4, <1>7, <2>2, Zenon
      <3> HIDE DEF large
      <3> QED BY <1>3, <3>1, Zenon
    <2> QED BY <2>1, <2>2, Zenon
  <1> QED BY <1>5, <1>6, <1>7, Zenon

\* Two blocks, given by address and level, do not overlap.
Apart(a, l, b, m) == a + BlockSize(l) <= b \/ b + BlockSize(m) <= a

\* An address lies in a block.
Within(x, a, l) == a <= x /\ x < a + BlockSize(l)

\* The sorted sets of free blocks, and the blocks of a set C that are in use:
\* free blocks are aligned, lie in the address space, and do not overlap.
FreeOK(f, C) ==
    /\ f \in [FreeLevels -> SUBSET Nat]
    /\ \A l \in FreeLevels : \A a \in f[l] :
           /\ Aligned(a, l) /\ a + BlockSize(l) <= BlockSize(MaxBits - 1)
           /\ \A c \in C : Apart(a, l, c[1], c[2])
           /\ \A m \in FreeLevels : \A b \in f[m] : <<a, l>> = <<b, m>> \/ Apart(a, l, b, m)

\* The address lies in a free block.
IsFree(f, x) == \E l \in FreeLevels : \E a \in f[l] : Within(x, a, l)

\* Both halves of a larger block are free, and the upper one begins in the pool.
Unmerged(f, a, l) ==
    /\ a \in f[l] /\ a + BlockSize(l) \in f[l] /\ Aligned(a, l + 1)
    /\ a + BlockSize(l) < MaxSpace

\* The block at an address is split down to a level: it is replaced by the two
\* halves of its lowest part, and by the upper halves in between.
SplitsBlock(f, g, level, from, address) ==
    /\ level < from /\ address \in f[from]
    /\ g \in [FreeLevels -> SUBSET Nat]
    /\ \A l \in FreeLevels : level <= l /\ l < from => f[l] = {}
    /\ g[from] = f[from] \ {address}
    /\ g[level] = {address, address + BlockSize(level)}
    /\ \A l \in FreeLevels : level < l /\ l < from => g[l] = {address + BlockSize(l)}
    /\ \A l \in FreeLevels : l < level \/ from < l => g[l] = f[l]

\* What generate_new_free_blocks makes of the free blocks.
LEMMA SplitBlocks ==
    ASSUME NEW C, NEW f, FreeOK(f, C), NEW level \in FreeLevels, f[level] = {},
           CanSplit(f, level)
    PROVE  \E from \in FreeLevels : \E address :
              SplitsBlock(f, Split(f, level), level, from, address)
  <1> DEFINE higher == {l \in FreeLevels : l > level /\ f[l] # {}}
             from == MinOf(higher)
             address == MinOf(f[from])
             g == [l \in FreeLevels |->
                      CASE l = from                -> f[l] \ {address}
                        [] l = level               -> {address, address + BlockSize(l)}
                        [] level < l /\ l < from   -> {address + BlockSize(l)}
                        [] OTHER                   -> f[l]]
  <1>1. Split(f, level) = g
      BY Zenon DEF Split
  <1>2. higher \subseteq Nat /\ higher # {}
      BY Levels, Zenon DEF CanSplit
  <1>3. from \in higher /\ \A l \in higher : from <= l
    <2> HIDE DEF higher
    <2> QED BY <1>2, MinOfSet, Zenon
  <1>4. from \in FreeLevels /\ from > level /\ f[from] # {}
      BY <1>3, Zenon
  <1>5. \A l \in FreeLevels : level <= l /\ l < from => f[l] = {}
    <2> SUFFICES ASSUME NEW l \in FreeLevels, level <= l, l < from, f[l] # {} PROVE FALSE
        BY Zenon
    <2>1. l > level
        BY Levels
    <2>2. l \in higher
        BY <2>1, Zenon
    <2> HIDE DEF higher, from
    <2> QED BY <1>3, <1>4, <2>2, Levels
  <1> HIDE DEF higher, from
  <1>6. f[from] \subseteq Nat
      BY <1>4, Zenon DEF FreeOK
  <1>7. address \in f[from]
      BY <1>4, <1>6, MinOfSet, Zenon
  <1> HIDE DEF address
  <1>8. \A l \in FreeLevels : address + BlockSize(l) \in Nat
      BY <1>6, <1>7, Levels, BlockSizes
  <1>9. \A l \in FreeLevels : f[l] \subseteq Nat
      BY Zenon DEF FreeOK
  <1>10. g[from] = f[from] \ {address}
      BY <1>4, Levels
  <1>11. g[level] = {address, address + BlockSize(level)}
      BY Levels
  <1>12. \A l \in FreeLevels : level < l /\ l < from => g[l] = {address + BlockSize(l)}
      OBVIOUS
  <1>13. \A l \in FreeLevels : l < level \/ from < l => g[l] = f[l]
      BY <1>4, Levels
  <1>14. g \in [FreeLevels -> SUBSET Nat]
    <2>2. \A l \in FreeLevels : g[l] \subseteq Nat
        BY <1>6, <1>7, <1>8, <1>9, Zenon
    <2> HIDE DEF g
    <2>3. g = [l \in FreeLevels |-> g[l]]
        BY DEF g
    <2> QED BY <2>2, <2>3, Zenon
  <1> HIDE DEF g
  <1>15. SplitsBlock(f, g, level, from, address)
      BY <1>4, <1>5, <1>7, <1>10, <1>11, <1>12, <1>13, <1>14, Zenon DEF SplitsBlock
  <1> QED BY <1>1, <1>4, <1>15, Zenon

\* Splitting a block keeps the free blocks apart from one another and from the
\* blocks in use, and no address is lost.
LEMMA SplitOK ==
    ASSUME NEW C \in SUBSET (Nat \X FreeLevels), NEW f, FreeOK(f, C),
           NEW level \in FreeLevels, f[level] = {}, CanSplit(f, level)
    PROVE  /\ FreeOK(Split(f, level), C)
           /\ \A x \in Nat : IsFree(f, x) => IsFree(Split(f, level), x)
  <1> PICK g : g = Split(f, level)
      BY Zenon
  <1>0. PICK from \in FreeLevels : \E address : SplitsBlock(f, g, level, from, address)
      BY SplitBlocks, Zenon
  <1>1. PICK address :
            /\ level < from /\ address \in f[from]
            /\ g \in [FreeLevels -> SUBSET Nat]
            /\ \A l \in FreeLevels : level <= l /\ l < from => f[l] = {}
            /\ g[from] = f[from] \ {address}
            /\ g[level] = {address, address + BlockSize(level)}
            /\ \A l \in FreeLevels : level < l /\ l < from => g[l] = {address + BlockSize(l)}
            /\ \A l \in FreeLevels : l < level \/ from < l => g[l] = f[l]
      BY <1>0, Zenon DEF SplitsBlock
  <1>2. /\ address \in Nat /\ Aligned(address, from)
        /\ address + BlockSize(from) <= BlockSize(MaxBits - 1)
      BY <1>1, Zenon DEF FreeOK
  \* The blocks of the result: old ones, upper halves, and the lowest part.
  <1> DEFINE Old(a, l) == a \in f[l] /\ <<a, l>> # <<address, from>>
             Half(a, l) == level <= l /\ l < from /\ a = address + BlockSize(l)
             Low(a, l) == l = level /\ a = address
  <1>3. \A l \in FreeLevels : \A a \in g[l] : Old(a, l) \/ Half(a, l) \/ Low(a, l)
    <2> TAKE l \in FreeLevels
    <2>1. l = from \/ l = level \/ (level < l /\ l < from) \/ l < level \/ from < l
        BY Levels
    <2>2. CASE l = from
        BY <1>1, <2>2, Zenon
    <2>3. CASE l = level
        BY <1>1, Levels
    <2>4. CASE level < l /\ l < from
        BY <1>1, Levels
    <2>5. CASE l < level \/ from < l
        BY <1>1, <2>5, Zenon
    <2> QED BY <2>1, <2>2, <2>3, <2>4, <2>5, Zenon
  <1>4. ASSUME NEW l \in FreeLevels, NEW a, Half(a, l) \/ Low(a, l)
        PROVE  /\ Aligned(a, l) /\ a \in Nat
               /\ address <= a /\ a + BlockSize(l) <= address + BlockSize(from)
    <2>1. l \in Nat /\ from \in Nat /\ l < from /\ l + 1 <= from /\ l + 1 \in Nat
        BY <1>1, <1>4, Levels
    <2>2. Aligned(address, l + 1)
        BY <1>2, <2>1, AlignedBelow, Zenon
    <2>3. BlockSize(l + 1) <= BlockSize(from)
        BY <2>1, BlockSizesGrow, Zenon
    <2>4. Aligned(address, l) /\ Aligned(address + BlockSize(l), l)
        BY <2>1, <2>2, AlignedHalves, Zenon
    <2>5. BlockSize(l) \in Nat /\ BlockSize(from) \in Nat /\ BlockSize(l + 1) = 2 * BlockSize(l)
        BY <2>1, BlockSizes, Zenon
    <2> QED BY <1>2, <1>4, <2>3, <2>4, <2>5
  <1>5. ASSUME NEW l \in FreeLevels, NEW m \in FreeLevels, NEW a, NEW b,
               Half(a, l) \/ Low(a, l), Half(b, m) \/ Low(b, m), <<a, l>> # <<b, m>>
        PROVE  Apart(a, l, b, m)
    <2>1. \A i, j \in Nat : i < j =>
              /\ BlockSize(i) \in Nat /\ BlockSize(j) \in Nat
              /\ 2 * BlockSize(i) <= BlockSize(j)
      <3> TAKE i, j \in Nat
      <3> HAVE i < j
      <3>1. i + 1 \in Nat /\ i + 1 <= j
          OBVIOUS
      <3> QED BY <3>1, BlockSizes, BlockSizesGrow, Zenon
    <2>2. l \in Nat /\ m \in Nat /\ BlockSize(l) \in Nat /\ BlockSize(m) \in Nat
        BY Levels, BlockSizes, Zenon
    <2>3. CASE l < m
        BY <1>2, <1>5, <2>1, <2>2 DEF Apart
    <2>4. CASE m < l
        BY <1>2, <1>5, <2>1, <2>2 DEF Apart
    <2>5. CASE l = m
        BY <1>2, <1>5, <2>2, <2>5 DEF Apart
    <2> QED BY <2>2, <2>3, <2>4, <2>5
  \* What is apart from the block that is split is apart from its parts.
  <1>6. ASSUME NEW l \in FreeLevels, NEW a, Half(a, l) \/ Low(a, l),
               NEW m \in FreeLevels, NEW b \in Nat, Apart(address, from, b, m)
        PROVE  Apart(a, l, b, m) /\ Apart(b, m, a, l)
                                                                               BY <1>4, <1>6,
                                                                                  Levels,
                                                                                  BlockSizes
                                                                                  DEF Apart
  <1>7. ASSUME NEW l \in FreeLevels, NEW a, Old(a, l)
        PROVE  /\ a \in Nat /\ Apart(address, from, a, l)
               /\ Aligned(a, l) /\ a + BlockSize(l) <= BlockSize(MaxBits - 1)
               /\ \A c \in C : Apart(a, l, c[1], c[2])
      BY <1>1, <1>7, Zenon DEF FreeOK
  <1>8. ASSUME NEW l \in FreeLevels, NEW a \in g[l]
        PROVE  /\ Aligned(a, l) /\ a + BlockSize(l) <= BlockSize(MaxBits - 1)
               /\ \A c \in C : Apart(a, l, c[1], c[2])
    <2>1. CASE Old(a, l)
        BY <1>7, <2>1, Zenon
    <2>2. CASE Half(a, l) \/ Low(a, l)
      <3>1. Aligned(a, l) /\ a \in Nat /\ a + BlockSize(l) <= address + BlockSize(from)
          BY <1>4, <2>2, Zenon
      <3>2. a + BlockSize(l) <= BlockSize(MaxBits - 1)
          BY <1>2, <3>1, Levels, BlockSizes
      <3>3. ASSUME NEW c \in C PROVE Apart(a, l, c[1], c[2])
        <4>2. Apart(address, from, c[1], c[2])
            BY <1>1, Zenon DEF FreeOK
        <4> HIDE DEF Half, Low
        <4> QED BY <1>6, <2>2, <4>2, Zenon
      <3> QED BY <3>1, <3>2, <3>3, Zenon
    <2> QED BY <1>3, <2>1, <2>2, Zenon
  <1>9. ASSUME NEW l \in FreeLevels, NEW a \in g[l], NEW m \in FreeLevels, NEW b \in g[m],
               <<a, l>> # <<b, m>>
        PROVE  Apart(a, l, b, m)
    <2>1. CASE Old(a, l) /\ Old(b, m)
        BY <1>9, <2>1, Zenon DEF FreeOK
    <2>2. CASE Old(a, l) /\ (Half(b, m) \/ Low(b, m))
      <3> HIDE DEF Old, Half, Low
      <3> QED BY <1>6, <1>7, <2>2, Zenon
    <2>3. CASE (Half(a, l) \/ Low(a, l)) /\ Old(b, m)
      <3> HIDE DEF Old, Half, Low
      <3> QED BY <1>6, <1>7, <2>3, Zenon
    <2>4. CASE (Half(a, l) \/ Low(a, l)) /\ (Half(b, m) \/ Low(b, m))
      <3> HIDE DEF Old, Half, Low
      <3> QED BY <1>5, <1>9, <2>4, Zenon
    <2> HIDE DEF Old, Half, Low
    <2> QED BY <1>3, <2>1, <2>2, <2>3, <2>4, Zenon
  <1>10. FreeOK(g, C)
      BY <1>1, <1>8, <1>9, Zenon DEF FreeOK
  <1>11. ASSUME NEW x \in Nat, IsFree(f, x) PROVE IsFree(g, x)
    <2>0. PICK l \in FreeLevels : \E a \in f[l] : Within(x, a, l)
        BY <1>11, Zenon DEF IsFree
    <2>1. PICK a \in f[l] : Within(x, a, l)
        BY <2>0, Zenon
    <2>2. CASE <<a, l>> # <<address, from>>
        BY <1>1, <2>1, <2>2, Levels DEF IsFree
    <2>3. CASE <<a, l>> = <<address, from>> /\ x < address + BlockSize(level)
        BY <1>1, <2>1, <2>3, Zenon DEF Within, IsFree
    <2>4. CASE <<a, l>> = <<address, from>> /\ ~ (x < address + BlockSize(level))
      <3> DEFINE S == {i \in FreeLevels : level <= i /\ i < from /\ address + BlockSize(i) <= x}
      <3>1. level \in S
          BY <1>1, <2>4, Levels
      <3>2. S \subseteq Nat /\ \A i \in S : i <= MaxBits
          BY Levels
      <3>3. PICK i \in S : \A j \in S : i >= j
        <4> HIDE DEF S
        <4> QED BY <3>1, <3>2, Greatest, Levels, Zenon
      <3>4. i \in Nat /\ i + 1 \in FreeLevels /\ i + 1 <= from /\ i + 1 > i
          BY Levels
      <3>5. x < address + BlockSize(i + 1)
        <4>1. CASE i + 1 = from
            BY <2>1, <2>4, <4>1, Zenon DEF Within
        <4>2. CASE i + 1 # from
            BY <1>2, <3>3, <3>4, <4>2, BlockSizes
        <4> QED BY <4>1, <4>2, Zenon
      <3>6. address + BlockSize(i) \in g[i]
          BY <1>1, Levels
      <3>7. Within(x, address + BlockSize(i), i)
          BY <1>2, <3>4, <3>5, BlockSizes DEF Within
      <3> QED BY <3>6, <3>7, Zenon DEF IsFree
    <2> QED BY <2>2, <2>3, <2>4, Zenon
  <1> QED BY <1>10, <1>11, Zenon

\* After a split the two lowest parts are the only halves that are both free,
\* if there were none before.
LEMMA SplitUnmerged ==
    ASSUME NEW C, NEW f, FreeOK(f, C),
           NEW level \in FreeLevels, f[level] = {}, CanSplit(f, level),
           \A l \in FreeLevels : \A a : ~ Unmerged(f, a, l),
           NEW l \in FreeLevels, NEW a, Unmerged(Split(f, level), a, l)
    PROVE  /\ l = level /\ level # MaxBits - 1
           /\ Split(f, level)[level] = {a, a + BlockSize(level)}
  <1> PICK g : g = Split(f, level)
      BY Zenon
  <1>0. PICK from \in FreeLevels : \E address : SplitsBlock(f, g, level, from, address)
      BY SplitBlocks, Zenon
  <1>1. PICK address : SplitsBlock(f, g, level, from, address)
      BY <1>0, Zenon
  <1>2. level < from /\ level # MaxBits - 1
      BY <1>1, Levels DEF SplitsBlock
  <1>3. ~ (g[l] \subseteq f[l])
      BY Zenon DEF Unmerged
  <1>4. level <= l /\ l < from
      BY <1>1, <1>3, Levels DEF SplitsBlock
  <1>5. /\ a \in g[l] /\ a + BlockSize(l) \in g[l]
        /\ a \in Nat /\ BlockSize(l) \in Nat \ {0}
      BY Levels, BlockSizes, Zenon DEF Unmerged, Aligned
  <1>6. l = level
      BY <1>1, <1>4, <1>5, Levels DEF SplitsBlock
  <1>7. g[level] = {address, address + BlockSize(level)}
      BY <1>1, Zenon DEF SplitsBlock
  <1>9. a = address
      BY <1>5, <1>6, <1>7
  <1> QED BY <1>2, <1>6, <1>7, <1>9, Zenon

\* claim() hands out a block that is free and fits into the pool, or nothing:
\* the block was apart from everything else, no other address is lost, and
\* halves that are both free remain only beyond the end of the pool.
LEMMA ClaimOK ==
    ASSUME NEW C \in SUBSET (Nat \X FreeLevels), NEW f, FreeOK(f, C), NEW size \in Nat,
           NEW level, level = DesiredLevel(size), NEW r, r = ClaimBlock(f, size)
    PROVE  /\ FreeOK(r.free, C)
           /\ \/ /\ r.address = -1
                 /\ \A x \in Nat : IsFree(f, x) => IsFree(r.free, x)
              \/ /\ r.address \in Nat
                 /\ FreeOK(r.free, C \cup {<<r.address, level>>})
                 /\ r.address + size < MaxSpace
                 /\ Aligned(r.address, level)
                 /\ r.address + BlockSize(level) <= BlockSize(MaxBits - 1)
                 /\ \A c \in C : Apart(r.address, level, c[1], c[2])
                 /\ \A x \in Nat : IsFree(f, x) => IsFree(r.free, x) \/ Within(x, r.address, level)
           /\ (\A l \in FreeLevels : \A a : ~ Unmerged(f, a, l))
                => \A l \in FreeLevels : \A a : ~ Unmerged(r.free, a, l)
  <1>1. level \in FreeLevels /\ (BlockSize(level) >= size \/ level = MaxBits - 1)
      BY DesiredLevels, Zenon
  <1>2. level \in Nat /\ BlockSize(level) \in Nat \ {0} /\ MaxSpace \in Nat
      BY <1>1, Levels, BlockSizes, SpaceAssumption, Zenon
  <1> PICK b : b = IF f[level] = {} /\ CanSplit(f, level) THEN Split(f, level) ELSE f
      BY Zenon
  <1> DEFINE fitting == {a \in b[level] : a + size < MaxSpace}
  <1>3. r = IF fitting = {} THEN [free |-> b, address |-> -1]
            ELSE [free |-> [b EXCEPT ![level] = @ \ {MaxOf(fitting)}], address |-> MaxOf(fitting)]
      BY Zenon DEF ClaimBlock
  <1>4. FreeOK(b, C) /\ \A x \in Nat : IsFree(f, x) => IsFree(b, x)
      BY <1>1, SplitOK, Zenon
  <1>5. ASSUME \A l \in FreeLevels : \A a : ~ Unmerged(f, a, l),
               NEW l \in FreeLevels, NEW a, Unmerged(b, a, l)
        PROVE  l = level /\ BlockSize(level) >= size /\ b[level] = {a, a + BlockSize(level)}
      BY <1>1, <1>5, SplitUnmerged
  <1>6. CASE fitting = {}
    <2>1. r.free = b /\ r.address = -1
        BY <1>3, <1>6
    <2>2. ASSUME \A l \in FreeLevels : \A a : ~ Unmerged(f, a, l),
                 NEW l \in FreeLevels, NEW a, Unmerged(b, a, l)
          PROVE  FALSE
        BY <1>2, <1>5, <1>6, <2>2 DEF Unmerged, Aligned
    <2> QED BY <1>4, <2>1, <2>2, Zenon
  <1>7. CASE fitting # {}
    <2> PICK y : y = MaxOf(fitting)
        BY Zenon
    <2>1. r.free = [b EXCEPT ![level] = @ \ {y}] /\ r.address = y
        BY <1>3, <1>7
    <2>2. b \in [FreeLevels -> SUBSET Nat]
        BY <1>4, Zenon DEF FreeOK
    <2>3. y \in fitting
      <3>1. fitting \subseteq Nat
          BY <1>1, <2>2, Zenon
      <3>2. \A a \in fitting : a <= MaxSpace
          BY <1>2, <3>1
      <3> HIDE DEF fitting
      <3> QED BY <1>2, <1>7, <3>1, <3>2, MaxOfSet, Zenon
    <2>4. y \in b[level] /\ y \in Nat /\ y + size < MaxSpace
        BY <1>1, <2>2, <2>3
    <2> HIDE DEF fitting
    <2>5. /\ r.free \in [FreeLevels -> SUBSET Nat]
          /\ r.free[level] = b[level] \ {y}
          /\ \A l \in FreeLevels : l # level => r.free[l] = b[l]
        BY <1>1, <2>1, <2>2
    <2>6. \A l \in FreeLevels : \A a \in r.free[l] : a \in b[l] /\ <<a, l>> # <<y, level>>
        BY <2>5, Zenon
    <2>7. /\ Aligned(y, level) /\ y + BlockSize(level) <= BlockSize(MaxBits - 1)
          /\ \A c \in C : Apart(y, level, c[1], c[2])
        BY <1>1, <1>4, <2>4, Zenon DEF FreeOK
    <2>8. FreeOK(r.free, C)
      <3> HIDE DEF Aligned
      <3> QED BY <1>4, <2>5 DEF FreeOK
    <2>9. \A l \in FreeLevels : \A a \in r.free[l] : Apart(a, l, y, level)
        BY <1>1, <1>4, <2>4, <2>6, Zenon DEF FreeOK
    <2>10. FreeOK(r.free, C \cup {<<y, level>>})
        BY <2>8, <2>9 DEF FreeOK
    <2>11. ASSUME NEW x \in Nat, IsFree(f, x) PROVE IsFree(r.free, x) \/ Within(x, y, level)
        BY <1>4, <2>5, <2>11 DEF IsFree
    <2>12. ASSUME \A l \in FreeLevels : \A a : ~ Unmerged(f, a, l),
                  NEW l \in FreeLevels, NEW a, Unmerged(r.free, a, l)
           PROVE  FALSE
        BY <1>5, <2>4, <2>6, <2>12 DEF Unmerged
    <2> QED BY <2>1, <2>4, <2>7, <2>8, <2>10, <2>11, <2>12
  <1> QED BY <1>6, <1>7, Zenon

\* The neighbour that try_merge_blocks looks at is the nearest free block of
\* the level on its side.
LEMMA NearestNeighbour ==
    ASSUME NEW f \in [FreeLevels -> SUBSET Nat], NEW l \in FreeLevels, NEW s \in Nat,
           Neighbours(f, s, l) # {}
    PROVE  /\ MergeCandidate(f, s, l) \in f[l]
           /\ Aligned(s, l + 1) => /\ MergeCandidate(f, s, l) > s
                                   /\ \A a \in f[l] : a > s => MergeCandidate(f, s, l) <= a
           /\ ~ Aligned(s, l + 1) => /\ MergeCandidate(f, s, l) < s
                                     /\ \A a \in f[l] : a < s => MergeCandidate(f, s, l) >= a
  <1> PICK S : S = Neighbours(f, s, l)
      BY Zenon
  <1>2. CASE Aligned(s, l + 1)
      BY <1>2, MinOfSet, Zenon DEF Neighbours, MergeCandidate, Aligned
  <1>3. CASE ~ Aligned(s, l + 1)
      BY <1>3, MaxOfSet DEF Neighbours, MergeCandidate, Aligned
  <1> QED BY <1>2, <1>3, Zenon

\* What try_merge_blocks merges are the two halves of a larger block.
LEMMA MergedHalves ==
    ASSUME NEW C, NEW f, FreeOK(f, C), NEW l \in FreeLevels, NEW s \in f[l], CanMerge(f, s, l)
    PROVE  \E low \in Nat :
              /\ Aligned(low, l + 1)
              /\ low \in f[l] /\ low + BlockSize(l) \in f[l]
              /\ {s, MergeCandidate(f, s, l)} = {low, low + BlockSize(l)}
              /\ MinOf({s, MergeCandidate(f, s, l)}) = low
  <1> PICK c : c = MergeCandidate(f, s, l)
      BY Zenon
  <1>1. f \in [FreeLevels -> SUBSET Nat] /\ s \in Nat /\ Aligned(s, l)
      BY Zenon DEF FreeOK
  <1>2. Neighbours(f, s, l) # {} /\ (c - s = BlockSize(l) \/ s - c = BlockSize(l))
      BY Zenon DEF CanMerge
  <1>3. l \in Nat /\ BlockSize(l) \in Nat \ {0}
      BY Levels, BlockSizes, Zenon
  <1>4. c \in f[l] /\ c \in Nat
      BY <1>1, <1>2, NearestNeighbour, Zenon
  <1>5. ASSUME NEW a \in Nat, NEW b \in Nat, a < b PROVE MinOf({a, b}) = a
      BY <1>5, MinOfSet
  <1>6. CASE Aligned(s, l + 1)
      BY <1>1, <1>2, <1>3, <1>5, <1>6, NearestNeighbour
  <1>7. CASE ~ Aligned(s, l + 1)
    <2>1. c < s
        BY <1>1, <1>2, <1>7, NearestNeighbour, Zenon
    <2>2. s = c + BlockSize(l) /\ c = s - BlockSize(l)
        BY <1>1, <1>2, <1>3, <1>4, <2>1
    <2>3. Aligned(c, l + 1)
        BY <1>1, <1>3, <1>7, <2>2, UpperHalf, Zenon
    <2>5. MinOf({s, c}) = c
        BY <1>1, <1>4, <1>5, <2>1
    <2> QED BY <1>4, <2>2, <2>3, <2>5, Zenon
  <1> QED BY <1>6, <1>7, Zenon

\* When try_merge_blocks finds nothing to merge, the other half of the larger
\* block is not free.
LEMMA NothingToMerge ==
    ASSUME NEW C, NEW f, FreeOK(f, C), NEW l \in FreeLevels, NEW s \in f[l], ~ CanMerge(f, s, l),
           NEW a \in f[l], a + BlockSize(l) \in f[l], Aligned(a, l + 1)
    PROVE  s # a /\ s # a + BlockSize(l)
  <1> PICK c : c = MergeCandidate(f, s, l)
      BY Zenon
  <1>1. /\ f \in [FreeLevels -> SUBSET Nat] /\ s \in Nat /\ a \in Nat
        /\ \A b \in f[l] : Aligned(b, l)
      BY Zenon DEF FreeOK
  <1>2. l \in Nat /\ BlockSize(l) \in Nat \ {0}
      BY Levels, BlockSizes, Zenon
  <1>3. Neighbours(f, s, l) # {} => c \in f[l] /\ c \in Nat
      BY <1>1, NearestNeighbour, Zenon
  <1>4. ASSUME s = a PROVE FALSE
    <2>1. a + BlockSize(l) \in Neighbours(f, s, l)
        BY <1>2, <1>4 DEF Neighbours, Aligned
    <2>2. c > s /\ c <= s + BlockSize(l)
        BY <1>1, <1>2, <1>4, <2>1, NearestNeighbour
    <2>3. s + BlockSize(l) <= c
        BY <1>1, <1>2, <1>3, <2>1, <2>2, AlignedApart, Zenon
    <2>4. c - s = BlockSize(l)
        BY <1>1, <1>2, <1>3, <2>1, <2>2, <2>3
    <2> QED BY <2>1, <2>4, Zenon DEF CanMerge
  <1>5. ASSUME s = a + BlockSize(l) PROVE FALSE
    <2>1. ~ Aligned(s, l + 1)
      <3> SUFFICES ASSUME Aligned(s, l + 1) PROVE FALSE
          BY Zenon
      <3>1. a + BlockSize(l + 1) <= s
          BY <1>1, <1>2, <1>5, AlignedApart
      <3> QED BY <1>1, <1>2, <1>5, <3>1, BlockSizes
    <2>2. a \in Neighbours(f, s, l)
        BY <1>2, <1>5, <2>1 DEF Neighbours, Aligned
    <2>3. c < s /\ c >= a
        BY <1>1, <1>2, <1>5, <2>1, <2>2, NearestNeighbour
    <2>4. c + BlockSize(l) <= s
        BY <1>1, <1>2, <1>3, <2>2, <2>3, AlignedApart, Zenon
    <2>5. s - c = BlockSize(l)
        BY <1>1, <1>2, <1>3, <1>5, <2>2, <2>3, <2>4
    <2> QED BY <2>2, <2>5, Zenon DEF CanMerge
  <1> QED BY <1>4, <1>5, Zenon

\* Two halves of a level are replaced by the larger block.
MergeHalves(f, l, low) ==
    [f EXCEPT ![l] = @ \ {low, low + BlockSize(l)}, ![l + 1] = @ \cup {low}]

\* Replacing two halves by the larger block keeps the free blocks apart from
\* one another and from the blocks in use, and no address is lost.
LEMMA MergeOK ==
    ASSUME NEW C \in SUBSET (Nat \X FreeLevels), NEW f, FreeOK(f, C),
           NEW l \in FreeLevels, l + 1 \in FreeLevels,
           NEW low \in f[l], low + BlockSize(l) \in f[l], Aligned(low, l + 1),
           NEW g, g = MergeHalves(f, l, low)
    PROVE  /\ FreeOK(g, C)
           /\ \A x \in Nat : IsFree(f, x) => IsFree(g, x)
  <1>1. f \in [FreeLevels -> SUBSET Nat] /\ low \in Nat
      BY Zenon DEF FreeOK
  <1>2. /\ l \in Nat /\ l + 1 # l
        /\ BlockSize(l) \in Nat \ {0} /\ BlockSize(l + 1) = 2 * BlockSize(l)
      BY Levels, BlockSizes
  <1>3. /\ g \in [FreeLevels -> SUBSET Nat]
        /\ g[l] = f[l] \ {low, low + BlockSize(l)}
        /\ g[l + 1] = f[l + 1] \cup {low}
        /\ \A m \in FreeLevels : m # l /\ m # l + 1 => g[m] = f[m]
      BY <1>1 DEF MergeHalves
  <1> DEFINE Old(a, m) == a \in f[m] /\ <<a, m>> # <<low, l>> /\ <<a, m>> # <<low + BlockSize(l), l>>
             New(a, m) == a = low /\ m = l + 1
  <1>4. \A m \in FreeLevels : \A a \in g[m] : Old(a, m) \/ New(a, m)
      BY <1>3, Zenon
  <1>5. \A m \in FreeLevels : BlockSize(m) \in Nat \ {0}
      BY Levels, BlockSizes, Zenon
  \* What is apart from both halves is apart from the whole.
  <1>6. ASSUME NEW m \in FreeLevels, NEW b \in Nat,
               Apart(low, l, b, m), Apart(low + BlockSize(l), l, b, m)
        PROVE  Apart(low, l + 1, b, m) /\ Apart(b, m, low, l + 1)
                                                                   BY <1>1, <1>2, <1>5, <1>6
                                                                      DEF Apart
  <1>7. ASSUME NEW m \in FreeLevels, NEW a, Old(a, m)
        PROVE  Apart(low, l + 1, a, m) /\ Apart(a, m, low, l + 1)
      BY <1>6, <1>7, Zenon DEF FreeOK
  <1>8. ASSUME NEW c \in C PROVE Apart(low, l + 1, c[1], c[2])
      BY <1>6, Zenon DEF FreeOK
  <1>9. low + BlockSize(l + 1) <= BlockSize(MaxBits - 1)
      BY <1>2 DEF FreeOK
  <1>10. ASSUME NEW m \in FreeLevels, NEW a \in g[m]
         PROVE  /\ Aligned(a, m) /\ a + BlockSize(m) <= BlockSize(MaxBits - 1)
                /\ \A c \in C : Apart(a, m, c[1], c[2])
      BY <1>4, <1>8, <1>9, Zenon DEF FreeOK
  <1>11. ASSUME NEW m \in FreeLevels, NEW a \in g[m], NEW n \in FreeLevels, NEW b \in g[n],
                <<a, m>> # <<b, n>>
         PROVE  Apart(a, m, b, n)
    <2>1. CASE Old(a, m) /\ Old(b, n)
        BY <1>11, <2>1, Zenon DEF FreeOK
    <2>2. CASE Old(a, m) /\ New(b, n)
        BY <1>7, <2>2, Zenon
    <2>3. CASE New(a, m) /\ Old(b, n)
        BY <1>7, <2>3, Zenon
    <2>4. ~ (New(a, m) /\ New(b, n))
        BY <1>11, Zenon
    <2> HIDE DEF Old, New
    <2> QED BY <1>4, <2>1, <2>2, <2>3, <2>4, Zenon
  <1>12. FreeOK(g, C)
      BY <1>3, <1>10, <1>11, Zenon DEF FreeOK
  <1>13. ASSUME NEW x \in Nat, IsFree(f, x) PROVE IsFree(g, x)
      BY <1>2, <1>3, <1>13 DEF IsFree, Within
  <1> QED BY <1>12, <1>13, Zenon

\* What release_block works on while it climbs from level to level.
MergeState == [free : [FreeLevels -> SUBSET Nat], address : Nat, merging : BOOLEAN]

\* One round of release_block's loop: from level l - 1 to level l.
MergeStep(s, l) ==
    LET buddy == MergeCandidate(s.free, s.address, l - 1)
        low == MinOf({s.address, buddy})
    IN  IF s.merging /\ CanMerge(s.free, s.address, l - 1)
        THEN [s EXCEPT !.free[l - 1] = @ \ {s.address, buddy},
                       !.free[l] = @ \cup {low},
                       !.address = low]
        ELSE [s EXCEPT !.merging = FALSE]

\* A round leaves a state of the same form.
LEMMA MergeStepType ==
    ASSUME NEW s \in MergeState, NEW l \in FreeLevels, l - 1 \in FreeLevels
    PROVE  MergeStep(s, l) \in MergeState
  <1> PICK buddy : buddy = MergeCandidate(s.free, s.address, l - 1)
      BY Zenon
  <1> PICK low : low = MinOf({s.address, buddy})
      BY Zenon
  <1>1. s.free \in [FreeLevels -> SUBSET Nat] /\ s.address \in Nat /\ s.merging \in BOOLEAN
      BY Zenon DEF MergeState
  <1>2. CASE s.merging /\ CanMerge(s.free, s.address, l - 1)
    <2>1. buddy \in Nat
        BY <1>1, <1>2, NearestNeighbour DEF CanMerge
    <2>2. {s.address, buddy} \subseteq Nat /\ {s.address, buddy} # {}
        BY <1>1, <2>1, Zenon
    <2>3. low \in Nat
        BY <2>2, MinOfSet, Zenon
    <2> PICK g : g = [s.free EXCEPT ![l - 1] = @ \ {s.address, buddy}, ![l] = @ \cup {low}]
        BY Zenon
    <2>4. MergeStep(s, l) = [free |-> g, address |-> low, merging |-> s.merging]
        BY <1>2, Zenon DEF MergeStep, MergeState
    <2>5. g \in [FreeLevels -> SUBSET Nat]
        BY <1>1, <2>3
    <2> QED BY <1>1, <2>3, <2>4, <2>5 DEF MergeState
  <1>3. CASE ~ (s.merging /\ CanMerge(s.free, s.address, l - 1))
      BY <1>3, Zenon DEF MergeStep, MergeState
  <1> QED BY <1>2, <1>3, Zenon

\* release_block computes the rounds of its loop one after another.
LEMMA ReleaseRounds ==
    ASSUME NEW f \in [FreeLevels -> SUBSET Nat], NEW address \in Nat, NEW size \in Nat,
           NEW level, level = DesiredLevel(size), address \notin f[level],
           NEW start, start = [free |-> [f EXCEPT ![level] = @ \cup {address}],
                               address |-> address, merging |-> TRUE]
    PROVE  \E after \in [level..(MaxBits - 1) -> MergeState] :
              /\ after[level] = start
              /\ \A l \in level..(MaxBits - 1) : l # level => after[l] = MergeStep(after[l - 1], l)
              /\ ReleaseBlock(f, address, size) = after[MaxBits - 1].free
  <1>1. level \in FreeLevels /\ level \in Nat /\ MaxBits \in Nat /\ level <= MaxBits - 1
      BY DesiredLevels, Levels
  <1>2. start \in MergeState
      BY <1>1, Zenon DEF MergeState
  <1> DEFINE Round(F) == [l \in level..(MaxBits - 1) |->
                             IF l = level THEN start ELSE MergeStep(F[l - 1], l)]
             Rounds(F) == F = Round(F)
             after == CHOOSE F : Rounds(F)
             h == [p \in Nat \X MergeState |->
                      IF level + p[1] + 1 \in FreeLevels THEN MergeStep(p[2], level + p[1] + 1)
                      ELSE p[2]]
  <1>3. ReleaseBlock(f, address, size) = after[MaxBits - 1].free
      BY DEF ReleaseBlock, MergeStep
  <1>4. h \in StepFunctions(MergeState)
    <2>1. ASSUME NEW n \in Nat, NEW s \in MergeState, level + n + 1 \in FreeLevels
          PROVE  MergeStep(s, level + n + 1) \in MergeState
      <3>1. (level + n + 1) - 1 \in FreeLevels
          BY <1>1, <2>1, Levels
      <3> QED BY <2>1, <3>1, MergeStepType, Zenon
    <2> QED BY <2>1, Zenon DEF StepFunctions
  <1>5. PICK it : it \in Iterates(MergeState, start, h)
    <2> HIDE DEF h
    <2> QED BY <1>2, <1>4, RecursionExists, Zenon
  <1>6. /\ it \in [Nat -> MergeState] /\ it[0] = start
        /\ \A n \in Nat : it[n + 1] = h[<<n, it[n]>>]
    <2> HIDE DEF h
    <2> QED BY <1>5, Zenon DEF Iterates
  <1>7. \A n \in Nat : level + n + 1 \in FreeLevels => it[n + 1] = MergeStep(it[n], level + n + 1)
      BY <1>6, Zenon
  <1> HIDE DEF h
  <1> DEFINE G == [l \in level..(MaxBits - 1) |-> it[l - level]]
  <1>8. Rounds(G)
    <2>1. ASSUME NEW l \in level..(MaxBits - 1)
          PROVE  G[l] = IF l = level THEN start ELSE MergeStep(G[l - 1], l)
      <3>1. CASE l = level
        <4>1. l - level = 0
            BY <1>1, <3>1
        <4>2. G[l] = it[l - level]
            BY Zenon
        <4> QED BY <1>6, <3>1, <4>1, <4>2, Zenon
      <3>2. CASE l # level
        <4>1. PICK n \in Nat : l = level + n + 1
          <5>1. l - level - 1 \in Nat /\ l = level + (l - level - 1) + 1
              BY <1>1, <3>2
          <5> QED BY <5>1, Zenon
        <4>2. /\ l \in FreeLevels /\ l - 1 \in level..(MaxBits - 1)
              /\ l - level = n + 1 /\ (l - 1) - level = n
            BY <1>1, <4>1, Levels
        <4>3. it[n + 1] = MergeStep(it[n], l)
            BY <1>7, <4>1, <4>2, Zenon
        <4>4. G[l] = it[n + 1] /\ G[l - 1] = it[n]
            BY <4>2, Zenon
        <4> QED BY <3>2, <4>3, <4>4, Zenon
      <3> QED BY <3>1, <3>2, Zenon
    <2> QED BY <2>1, Zenon
  <1>9. Rounds(after)
    <2> HIDE DEF Rounds, G
    <2> QED BY <1>8, Zenon
  <1> HIDE DEF after
  <1>10. /\ after[level] = start
         /\ \A l \in level..(MaxBits - 1) : l # level => after[l] = MergeStep(after[l - 1], l)
    <2>1. /\ Round(after)[level] = start
          /\ \A l \in level..(MaxBits - 1) : l # level => Round(after)[l] = MergeStep(after[l - 1], l)
        BY <1>1
    <2> HIDE DEF Round
    <2> QED BY <1>9, <2>1, Zenon
  <1>11. after = [l \in level..(MaxBits - 1) |-> after[l]]
      BY <1>9, Zenon
  <1> DEFINE S == {k \in Nat : level + k <= MaxBits - 1 => after[level + k] \in MergeState}
  <1>12. 0 \in S
      BY <1>1, <1>2, <1>10
  <1>13. ASSUME NEW k \in Nat, k \in S PROVE k + 1 \in S
    <2> SUFFICES ASSUME level + (k + 1) <= MaxBits - 1
                 PROVE  after[level + (k + 1)] \in MergeState
        OBVIOUS
    <2>1. /\ level + (k + 1) \in level..(MaxBits - 1) /\ level + (k + 1) # level
          /\ (level + (k + 1)) - 1 = level + k
          /\ level + (k + 1) \in FreeLevels /\ level + k \in FreeLevels
          /\ level + k <= MaxBits - 1
        BY <1>1, Levels
    <2>2. after[level + k] \in MergeState
        BY <1>13, <2>1, Zenon
    <2>3. after[level + (k + 1)] = MergeStep(after[level + k], level + (k + 1))
        BY <1>10, <2>1, Zenon
    <2> QED BY <2>1, <2>2, <2>3, MergeStepType, Zenon
  <1>14. Nat \subseteq S
    <2> HIDE DEF S
    <2> QED BY <1>12, <1>13, SetInduction, Zenon
  <1>15. ASSUME NEW l \in level..(MaxBits - 1) PROVE after[l] \in MergeState
    <2>1. l - level \in Nat /\ level + (l - level) = l /\ l <= MaxBits - 1
        BY <1>1
    <2>2. l - level \in S
        BY <1>14, <2>1, Zenon
    <2> QED BY <2>1, <2>2, Zenon
  <1>16. after \in [level..(MaxBits - 1) -> MergeState]
      BY <1>11, <1>15, Zenon
  <1> QED BY <1>3, <1>10, <1>16, Zenon

\* After the round of a level: only the block that was merged last can have a
\* free other half, and no address of the blocks in f is lost.
MergingOK(s, l, f, C) ==
    /\ FreeOK(s.free, C)
    /\ s.merging => s.address \in s.free[l]
    /\ \A m \in FreeLevels : \A a : Unmerged(s.free, a, m) =>
           s.merging /\ m = l /\ (s.address = a \/ s.address = a + BlockSize(m))
    /\ \A x \in Nat : IsFree(f, x) => IsFree(s.free, x)

\* A round of release_block's loop keeps this.
LEMMA MergeStepOK ==
    ASSUME NEW C \in SUBSET (Nat \X FreeLevels), NEW f, NEW s \in MergeState,
           NEW k \in FreeLevels, k + 1 \in FreeLevels, MergingOK(s, k, f, C)
    PROVE  MergingOK(MergeStep(s, k + 1), k + 1, f, C)
  <1> PICK r : r = MergeStep(s, k + 1)
      BY Zenon
  <1>1. /\ s.free \in [FreeLevels -> SUBSET Nat] /\ s.address \in Nat /\ s.merging \in BOOLEAN
        /\ s = [free |-> s.free, address |-> s.address, merging |-> s.merging]
      BY Zenon DEF MergeState
  <1>2. /\ k \in Nat /\ (k + 1) - 1 = k /\ k + 1 # k
      BY Levels
  <1>3. /\ FreeOK(s.free, C)
        /\ s.merging => s.address \in s.free[k]
        /\ \A m \in FreeLevels : \A a : Unmerged(s.free, a, m) =>
               s.merging /\ m = k /\ (s.address = a \/ s.address = a + BlockSize(m))
        /\ \A x \in Nat : IsFree(f, x) => IsFree(s.free, x)
      BY Zenon DEF MergingOK
  <1>4. CASE s.merging /\ CanMerge(s.free, s.address, k)
    <2> PICK buddy : buddy = MergeCandidate(s.free, s.address, k)
        BY Zenon
    <2>1. PICK low \in Nat :
              /\ Aligned(low, k + 1)
              /\ low \in s.free[k] /\ low + BlockSize(k) \in s.free[k]
              /\ {s.address, buddy} = {low, low + BlockSize(k)}
              /\ MinOf({s.address, buddy}) = low
        BY <1>3, <1>4, MergedHalves
    <2> PICK g : g = MergeHalves(s.free, k, low)
        BY Zenon
    <2>2. r = [free |-> g, address |-> low, merging |-> TRUE]
        BY <1>1, <1>2, <1>4, <2>1, Zenon DEF MergeStep, MergeHalves
    <2>3. /\ FreeOK(g, C)
          /\ g[k] = s.free[k] \ {low, low + BlockSize(k)}
          /\ g[k + 1] = s.free[k + 1] \cup {low}
          /\ \A m \in FreeLevels : m # k /\ m # k + 1 => g[m] = s.free[m]
          /\ \A x \in Nat : IsFree(s.free, x) => IsFree(g, x)
      <3> PICK fs : fs = s.free
          BY Zenon
      <3>1. /\ FreeOK(fs, C) /\ low \in fs[k] /\ low + BlockSize(k) \in fs[k]
            /\ Aligned(low, k + 1) /\ g = MergeHalves(fs, k, low)
            /\ C \in SUBSET (Nat \X FreeLevels) /\ k \in FreeLevels /\ k + 1 \in FreeLevels
          BY <1>3, <2>1, Zenon
      <3>2. FreeOK(g, C)
          BY ONLY <3>1, MergeOK, ZenonT(30)
      <3>3. \A x \in Nat : IsFree(fs, x) => IsFree(g, x)
          BY ONLY <3>1, MergeOK, ZenonT(30)
      <3>4. /\ g[k] = fs[k] \ {low, low + BlockSize(k)}
            /\ g[k + 1] = fs[k + 1] \cup {low}
            /\ \A m \in FreeLevels : m # k /\ m # k + 1 => g[m] = fs[m]
          BY <1>1 DEF MergeHalves
      <3> QED BY <3>2, <3>3, <3>4, Zenon
    <2>4. s.address \in {low, low + BlockSize(k)}
        BY <2>1, Zenon
    <2>5. ASSUME NEW m \in FreeLevels, NEW a, Unmerged(g, a, m)
          PROVE  m = k + 1 /\ (low = a \/ low = a + BlockSize(m))
        BY <1>3, <2>3, <2>4, <2>5 DEF Unmerged
    <2>6. r.free = g /\ r.address = low /\ r.merging = TRUE
        BY <2>2
    <2> QED BY <2>3, <2>5, <2>6 DEF MergingOK
  <1>5. CASE ~ (s.merging /\ CanMerge(s.free, s.address, k))
      BY <1>2, <1>5, NothingToMerge DEF MergeStep, Unmerged, MergingOK
  <1> QED BY <1>4, <1>5, Zenon

\* release() makes a block free that is apart from all others: the free blocks
\* stay apart, its addresses are free, and it is merged as far as possible.
LEMMA ReleaseOK ==
    ASSUME NEW C \in SUBSET (Nat \X FreeLevels), NEW f, FreeOK(f, C),
           \A l \in FreeLevels : \A a : ~ Unmerged(f, a, l),
           NEW address, NEW size \in Nat, NEW level, level = DesiredLevel(size),
           Aligned(address, level), address + BlockSize(level) <= BlockSize(MaxBits - 1),
           \A c \in C : Apart(address, level, c[1], c[2]),
           \A l \in FreeLevels : \A a \in f[l] : Apart(a, l, address, level)
    PROVE  LET g == ReleaseBlock(f, address, size)
           IN  /\ FreeOK(g, C)
               /\ \A l \in FreeLevels : \A a : ~ Unmerged(g, a, l)
               /\ \A x \in Nat : IsFree(f, x) \/ Within(x, address, level) => IsFree(g, x)
  <1>1. level \in FreeLevels /\ level \in Nat /\ MaxBits \in Nat /\ level <= MaxBits - 1
      BY DesiredLevels, Levels
  <1>2. address \in Nat /\ f \in [FreeLevels -> SUBSET Nat]
      BY Zenon DEF FreeOK, Aligned
  <1>3. \A l \in FreeLevels : BlockSize(l) \in Nat \ {0}
      BY Levels, BlockSizes, Zenon
  <1>4. address \notin f[level]
      BY <1>1, <1>2, <1>3 DEF Apart
  <1> PICK b : b = [f EXCEPT ![level] = @ \cup {address}]
      BY Zenon
  <1> PICK start : start = [free |-> b, address |-> address, merging |-> TRUE]
      BY Zenon
  <1>5. PICK after \in [level..(MaxBits - 1) -> MergeState] :
              /\ after[level] = start
              /\ \A l \in level..(MaxBits - 1) : l # level => after[l] = MergeStep(after[l - 1], l)
              /\ ReleaseBlock(f, address, size) = after[MaxBits - 1].free
      BY <1>2, <1>4, ReleaseRounds
  <1>6. /\ b \in [FreeLevels -> SUBSET Nat]
        /\ b[level] = f[level] \cup {address}
        /\ \A l \in FreeLevels : l # level => b[l] = f[l]
      BY <1>1, <1>2, Zenon
  <1>7. FreeOK(b, C)
      BY <1>6 DEF Apart, FreeOK
  <1>8. ASSUME NEW x \in Nat, IsFree(f, x) \/ Within(x, address, level) PROVE IsFree(b, x)
      BY <1>6, <1>8 DEF IsFree
  <1>9. ASSUME NEW m \in FreeLevels, NEW a, Unmerged(b, a, m)
        PROVE  m = level /\ (address = a \/ address = a + BlockSize(m))
      BY <1>9 DEF Unmerged
  <1>10. MergingOK(start, level, b, C)
      BY <1>6, <1>7, <1>9, Zenon DEF MergingOK
  <1> DEFINE S == {k \in Nat : level + k <= MaxBits - 1 =>
                                  MergingOK(after[level + k], level + k, b, C)}
  <1>11. 0 \in S
      BY <1>1, <1>5, <1>10
  <1>12. ASSUME NEW k \in Nat, k \in S PROVE k + 1 \in S
    <2> SUFFICES ASSUME level + (k + 1) <= MaxBits - 1
                 PROVE  MergingOK(after[level + (k + 1)], level + (k + 1), b, C)
        OBVIOUS
    <2> PICK j : j = level + k
        BY Zenon
    <2>0. /\ j \in Nat /\ j + 1 \in Nat /\ j + 1 < MaxBits /\ j < MaxBits
          /\ j + 1 = level + (k + 1) /\ (j + 1) - 1 = j
          /\ j \in level..(MaxBits - 1) /\ j + 1 \in level..(MaxBits - 1) /\ j + 1 # level
          /\ level + k <= MaxBits - 1
        BY <1>1
    <2>1. /\ j + 1 = level + (k + 1) /\ (j + 1) - 1 = j
          /\ j \in level..(MaxBits - 1) /\ j + 1 \in level..(MaxBits - 1) /\ j + 1 # level
          /\ j \in FreeLevels /\ j + 1 \in FreeLevels /\ level + k <= MaxBits - 1
        BY <2>0, Levels, Zenon
    <2>2. MergingOK(after[j], j, b, C)
        BY <1>12, <2>1, Zenon
    <2>3. after[j + 1] = MergeStep(after[j], j + 1) /\ after[j] \in MergeState
        BY <1>5, <2>1, Zenon
    <2>4. MergingOK(after[j + 1], j + 1, b, C)
        BY <2>1, <2>2, <2>3, MergeStepOK, Zenon
    <2> QED BY <2>1, <2>4, Zenon
  <1>13. Nat \subseteq S
    <2> HIDE DEF S
    <2> QED BY <1>11, <1>12, SetInduction, Zenon
  <1> PICK s : s = after[MaxBits - 1]
      BY Zenon
  <1>14. MergingOK(s, MaxBits - 1, b, C)
    <2> PICK k : k = (MaxBits - 1) - level
        BY Zenon
    <2>1. k \in Nat /\ level + k = MaxBits - 1 /\ level + k <= MaxBits - 1
        BY <1>1
    <2>2. k \in S
        BY <1>13, <2>1, Zenon
    <2>3. MergingOK(after[level + k], level + k, b, C)
        BY <2>1, <2>2, Zenon
    <2> QED BY <2>1, <2>3, Zenon
  <1>15. ASSUME NEW l \in FreeLevels, NEW a, Unmerged(s.free, a, l) PROVE FALSE
    <2>1. l = MaxBits - 1 /\ FreeOK(s.free, C)
        BY <1>14, <1>15, Zenon DEF MergingOK
    <2>2. a \in Nat /\ a + BlockSize(l) \in s.free[l]
        BY <1>15, Zenon DEF Unmerged, Aligned
    <2>3. (a + BlockSize(l)) + BlockSize(l) <= BlockSize(l)
        BY <2>1, <2>2, Zenon DEF FreeOK
    <2> QED BY <1>3, <2>2, <2>3
  <1>16. FreeOK(s.free, C) /\ \A x \in Nat : IsFree(b, x) => IsFree(s.free, x)
      BY <1>14, Zenon DEF MergingOK
  <1> QED BY <1>5, <1>8, <1>15, <1>16, Zenon

-----------------------------------------------------------------------------
(* The inductive invariant                                                 *)

Pointers == (0..(PoolSize - 1)) \cup Outside
Requests == {IF n = 0 THEN 1 ELSE n : n \in Sizes}
ThreadType ==
    [pc : {"idle", "init", "claim", "fallback", "track", "register", "erase", "release",
           "untrackPool", "untrack", "rawFree"},
     n : Nat, ptr : {-1} \cup Pointers]

\* Address and level of the blocks that are in use.
Level(b) == DesiredLevel(b.size)
UsedBlocks(S) == {<<b.ptr, Level(b)>> : b \in S}

\* The thread holds memory: it will return it to the program, or the program
\* has given it up.
Holds(t) == thr[t].pc \in {"track", "register", "erase", "release", "untrack", "rawFree"}
Held(t) == [ptr |-> thr[t].ptr, size |-> thr[t].n]

\* The backend or the pool has handed out the memory and not got it back.
Backed(b) ==
    IF b.ptr \in Outside THEN b.ptr \in outside
    ELSE /\ b.size < PoolSize \div 2
         /\ [ptr |-> b.ptr, size |-> PoolRequest(b.size)] \in claimed

TypeInv ==
    /\ ready \in BOOLEAN
    /\ allocated \subseteq [ptr : Pointers, size : Requests]
    /\ owned \subseteq [ptr : Pointers, size : Requests]
    /\ claimed \subseteq [ptr : Nat, size : Nat]
    /\ tracked \subseteq Pointers
    /\ outside \subseteq Outside
    /\ thr \in [Threads -> ThreadType]
    /\ \A t \in Threads : thr[t].pc # "idle" => thr[t].n \in Requests
    /\ \A t \in Threads : Holds(t) => thr[t].ptr \in Pointers

\* Blocks in use are aligned, lie in the pool, and do not overlap each other.
UsedOK(S) ==
    /\ \A b \in S : /\ Aligned(b.ptr, Level(b))
                    /\ b.ptr + BlockSize(Level(b)) <= BlockSize(MaxBits - 1)
                    /\ b.ptr + b.size < MaxSpace
    /\ \A b, c \in S : b = c \/ Apart(b.ptr, Level(b), c.ptr, Level(c))

\* The blocks of the pool, free or in use.
SpaceInv ==
    /\ FreeOK(free, UsedBlocks(claimed))
    /\ \A l \in FreeLevels : \A a : ~ Unmerged(free, a, l)
    /\ UsedOK(claimed)
    /\ ~ ready => free = AllFree /\ claimed = {}
    /\ \A t \in Threads : thr[t].pc = "claim" => ready

\* Memory has one owner: a thread, or the program.
OwnerInv ==
    /\ \A t \in Threads : Holds(t) => Backed(Held(t))
    /\ \A b \in owned : Backed(b)
    /\ \A t, u \in Threads : Holds(t) /\ Holds(u) /\ t # u => thr[t].ptr # thr[u].ptr
    /\ \A t \in Threads, b \in owned : Holds(t) => thr[t].ptr # b.ptr
    /\ \A b, c \in owned : b # c => b.ptr # c.ptr
    /\ \A t \in Threads : thr[t].pc \in {"untrack", "rawFree"} => thr[t].ptr \in Outside
    /\ \A t \in Threads : thr[t].pc = "release" => thr[t].ptr \notin Outside

\* The allocation map has the entries of the memory that the program owns or
\* is giving up.
EntriesInv ==
    /\ owned \subseteq allocated
    /\ \A t \in Threads : thr[t].pc = "erase" => Held(t) \in allocated
    /\ \A b \in allocated : b \in owned \/ \E t \in Threads : thr[t].pc = "erase" /\ b = Held(t)

MemoryInv == TypeInv /\ SpaceInv /\ OwnerInv /\ EntriesInv

\* Every address of the pool is free or in use.
SpaceCovered ==
    \A x \in 0..(BlockSize(MaxBits - 1) - 1) :
        IsFree(free, x) \/ \E b \in claimed : Within(x, b.ptr, Level(b))

-----------------------------------------------------------------------------
(* The steps of the threads                                                *)

\* What the backend returns lies outside of the pool.
LEMMA PointerFacts ==
    /\ PoolSize \in Nat /\ -1 \notin Pointers /\ Pointers \subseteq Nat
    /\ \A p \in Outside : p \in Nat /\ p > PoolSize
    /\ \A p : p \in 0..(PoolSize - 1) => p \in Pointers /\ p \notin Outside
    /\ Requests \subseteq Nat \ {0}
    /\ \A n \in Nat : PoolRequest(n) \in Nat /\ PoolRequest(n) >= n
  <1>1. MaxSpace \in Nat /\ MaxSpace <= BlockSize(MaxBits) /\ BlockSize(MaxBits) \in Nat
      BY SpaceAssumption, MemoryAssumption, BlockSizes, Zenon
  <1>2. \A p \in Outside : p \in Nat /\ p > MaxSpace
      BY <1>1, MemoryAssumption
  <1>3. Sizes \subseteq Nat /\ PageSize \in Nat
      BY MemoryAssumption, Zenon
  <1>4. PoolSize \in Nat /\ -1 \notin Pointers /\ Pointers \subseteq Nat
      BY <1>1, <1>2 DEF PoolSize, Pointers
  <1>5. \A p : p \in 0..(PoolSize - 1) => p \in Pointers /\ p \notin Outside
      BY <1>1, <1>2 DEF PoolSize, Pointers
  <1>6. Requests \subseteq Nat \ {0}
      BY <1>3 DEF Requests
  <1>7. \A n \in Nat : PoolRequest(n) \in Nat /\ PoolRequest(n) >= n
      BY <1>3 DEF PoolRequest
  <1> QED BY <1>2, <1>4, <1>5, <1>6, <1>7, Zenon DEF PoolSize

\* A thread goes on; the others stay where they are.
Moves(t, pc, n, ptr) == thr' = [thr EXCEPT ![t] = [pc |-> pc, n |-> n, ptr |-> ptr]]

\* Going to another place keeps the thread's size and pointer.
LEMMA GotoMoves ==
    ASSUME TypeInv, NEW t \in Threads, NEW pc, Goto(t, pc)
    PROVE  Moves(t, pc, thr[t].n, thr[t].ptr)
  <1>1. thr \in [Threads -> ThreadType] /\ thr[t] \in ThreadType
      BY Zenon DEF TypeInv
  <1>2. [thr[t] EXCEPT !.pc = pc] = [pc |-> pc, n |-> thr[t].n, ptr |-> thr[t].ptr]
      BY <1>1 DEF ThreadType
  <1> QED BY <1>2, Zenon DEF Goto, Moves

\* Getting a pointer keeps the thread's size.
LEMMA GotMoves ==
    ASSUME TypeInv, NEW t \in Threads, NEW pc, NEW ptr, Got(t, ptr, pc)
    PROVE  Moves(t, pc, thr[t].n, ptr)
  <1>1. thr \in [Threads -> ThreadType] /\ thr[t] \in ThreadType
      BY Zenon DEF TypeInv
  <1> PICK r : r = [thr[t] EXCEPT !.ptr = ptr]
      BY Zenon
  <1>2. r = [pc |-> thr[t].pc, n |-> thr[t].n, ptr |-> ptr]
      BY <1>1, Zenon DEF ThreadType
  <1>3. [r EXCEPT !.pc = pc] = [pc |-> pc, n |-> thr[t].n, ptr |-> ptr]
    <2> PICK A : A = {thr[t].pc}
        BY Zenon
    <2> PICK B : B = {thr[t].n}
        BY Zenon
    <2> PICK D : D = {ptr}
        BY Zenon
    <2>1. r \in [pc : A, n : B, ptr : D]
        BY <1>2, Zenon
    <2>2. [r EXCEPT !.pc = pc] = [pc |-> pc, n |-> r.n, ptr |-> r.ptr]
        BY ONLY <2>1
    <2> QED BY <2>2, Zenon
  <1> PICK h : h = [thr EXCEPT ![t] = r]
      BY Zenon
  <1>4. thr' = [h EXCEPT ![t] = [h[t] EXCEPT !.pc = pc]]
      BY Zenon DEF Got
  <1>6. thr' = [h EXCEPT ![t] = [pc |-> pc, n |-> thr[t].n, ptr |-> ptr]]
      BY <1>3, <1>4, Zenon
  <1> QED BY <1>6, Zenon DEF Moves

\* The threads after the step.
LEMMA ThreadsMoved ==
    ASSUME TypeInv, NEW t \in Threads, NEW pc, NEW n, NEW ptr, Moves(t, pc, n, ptr)
    PROVE  /\ thr'[t].pc = pc /\ thr'[t].n = n /\ thr'[t].ptr = ptr
           /\ \A u \in Threads : u # t => thr'[u] = thr[u]
  BY Zenon DEF TypeInv, Moves

\* Types of the threads after the step.
LEMMA ThreadsTyped ==
    ASSUME TypeInv, NEW t \in Threads, NEW pc, NEW n, NEW ptr, Moves(t, pc, n, ptr),
           [pc |-> pc, n |-> n, ptr |-> ptr] \in ThreadType,
           pc # "idle" => n \in Requests,
           pc \in {"track", "register", "erase", "release", "untrack", "rawFree"} => ptr \in Pointers
    PROVE  /\ thr' \in [Threads -> ThreadType]
           /\ \A u \in Threads : thr'[u].pc # "idle" => thr'[u].n \in Requests
           /\ \A u \in Threads : Holds(u)' => thr'[u].ptr \in Pointers
  <1>1. /\ thr'[t].pc = pc /\ thr'[t].n = n /\ thr'[t].ptr = ptr
        /\ \A u \in Threads : u # t => thr'[u] = thr[u]
      BY ThreadsMoved, Zenon
  <1>2. thr' \in [Threads -> ThreadType]
      BY Zenon DEF TypeInv, Moves
  <1>3. \A u \in Threads : thr'[u].pc # "idle" => thr'[u].n \in Requests
      BY <1>1, Zenon DEF TypeInv
  <1>4. \A u \in Threads : Holds(u)' => thr'[u].ptr \in Pointers
      BY <1>1, Zenon DEF TypeInv, Holds
  <1> QED BY <1>2, <1>3, <1>4, Zenon

\* While a thread holds memory, or the program owns it, the pool's part of it
\* can be told from the backend's: is_from_pool.
LEMMA FromPool ==
    ASSUME MemoryInv, NEW t \in Threads, Holds(t)
    PROVE  IsFromPool(thr[t].ptr) <=> thr[t].ptr \notin Outside
  <1>1. thr[t].ptr \in Pointers /\ Backed(Held(t))
      BY Zenon DEF MemoryInv, TypeInv, OwnerInv
  <1>2. CASE thr[t].ptr \in Outside
      BY <1>2, PointerFacts, Zenon DEF IsFromPool
  <1>3. CASE thr[t].ptr \notin Outside
      BY <1>1, <1>3, Zenon DEF Backed, Held, MemoryInv, SpaceInv, IsFromPool, Pointers
  <1> QED BY <1>2, <1>3, Zenon

\* A pointer in the allocation map has one entry, also while it is given up.
LEMMA EntriesUnique ==
    ASSUME MemoryInv, NEW b \in allocated
    PROVE  /\ \A c \in owned : c.ptr = b.ptr => c = b
           /\ \A t \in Threads : Holds(t) /\ thr[t].ptr = b.ptr => thr[t].pc = "erase" /\ b = Held(t)
  <1>1. CASE b \in owned
      BY <1>1, Zenon DEF MemoryInv, OwnerInv
  <1>2. ASSUME NEW u \in Threads, thr[u].pc = "erase", b = Held(u)
        PROVE  /\ \A c \in owned : c.ptr = b.ptr => c = b
               /\ \A t \in Threads : Holds(t) /\ thr[t].ptr = b.ptr => thr[t].pc = "erase" /\ b = Held(t)
      BY <1>2, Zenon DEF Holds, Held, MemoryInv, OwnerInv
  <1>3. b \in owned \/ \E u \in Threads : thr[u].pc = "erase" /\ b = Held(u)
      BY Zenon DEF MemoryInv, EntriesInv
  <1> QED BY <1>1, <1>2, <1>3, Zenon

\* What Claim does when the pool has a block: the block was apart from all
\* others, and the thread's pointer is its address.
ClaimsBlock(t, address) ==
    LET size == PoolRequest(thr[t].n)
        level == DesiredLevel(size)
    IN  /\ thr[t].n < PoolSize \div 2
        /\ address \in 0..(PoolSize - 1) /\ address + size < MaxSpace
        /\ Aligned(address, level)
        /\ address + BlockSize(level) <= BlockSize(MaxBits - 1)
        /\ \A c \in claimed : Apart(address, level, c.ptr, Level(c)) /\ c.ptr # address
        /\ FreeOK(free', UsedBlocks(claimed) \cup {<<address, level>>})
        /\ \A x \in Nat : IsFree(free, x) => IsFree(free', x) \/ Within(x, address, level)
        /\ claimed' = claimed \cup {[ptr |-> address, size |-> size]}
        /\ Moves(t, "track", thr[t].n, address)

\* What Claim does otherwise: at most blocks are split.
ClaimsNothing(t) ==
    /\ FreeOK(free', UsedBlocks(claimed))
    /\ \A x \in Nat : IsFree(free, x) => IsFree(free', x)
    /\ claimed' = claimed
    /\ Moves(t, "fallback", thr[t].n, thr[t].ptr)

\* The blocks in use are pairs of an address and a level.
LEMMA UsedBlocksType ==
    ASSUME NEW S \in SUBSET [ptr : Nat, size : Nat]
    PROVE  UsedBlocks(S) \in SUBSET (Nat \X FreeLevels)
  BY DesiredLevels DEF UsedBlocks, Level

\* memory_pool::claim takes one of the two ways.
LEMMA ClaimCases ==
    ASSUME MemoryInv, NEW t \in Threads, Claim(t)
    PROVE  /\ ClaimsNothing(t) \/ \E address : ClaimsBlock(t, address)
           /\ \A l \in FreeLevels : \A a : ~ Unmerged(free', a, l)
  <1> PICK n : n = thr[t].n
      BY Zenon
  <1> PICK size : size = PoolRequest(n)
      BY Zenon
  <1> PICK level : level = DesiredLevel(size)
      BY Zenon
  <1> PICK r : r = ClaimBlock(free, size)
      BY Zenon
  <1> PICK C : C = UsedBlocks(claimed)
      BY Zenon
  <1>0. TypeInv /\ SpaceInv
      BY Zenon DEF MemoryInv
  <1>1. n \in Nat /\ size \in Nat /\ PoolSize = MaxSpace
      BY <1>0, PointerFacts, Zenon DEF TypeInv, Claim, At, PoolSize
  <1>2. /\ FreeOK(free, C) /\ \A l \in FreeLevels : \A a : ~ Unmerged(free, a, l)
        /\ C \in SUBSET (Nat \X FreeLevels)
      BY <1>0, UsedBlocksType, Zenon DEF SpaceInv, TypeInv
  <1>3. CASE n < PoolSize \div 2
    <2>1. /\ free' = r.free
          /\ \/ /\ r.address >= 0
                /\ claimed' = claimed \cup {[ptr |-> r.address, size |-> size]}
                /\ Got(t, r.address, "track")
             \/ /\ r.address < 0 /\ Goto(t, "fallback") /\ claimed' = claimed
        BY <1>3, Zenon DEF Claim
    <2>2. /\ FreeOK(r.free, C)
          /\ \/ /\ r.address = -1
                /\ \A x \in Nat : IsFree(free, x) => IsFree(r.free, x)
             \/ /\ r.address \in Nat
                /\ FreeOK(r.free, C \cup {<<r.address, level>>})
                /\ r.address + size < MaxSpace
                /\ Aligned(r.address, level)
                /\ r.address + BlockSize(level) <= BlockSize(MaxBits - 1)
                /\ \A c \in C : Apart(r.address, level, c[1], c[2])
                /\ \A x \in Nat : IsFree(free, x) => IsFree(r.free, x) \/ Within(x, r.address, level)
        BY <1>1, <1>2, ClaimOK, Zenon
    <2>3. \A l \in FreeLevels : \A a : ~ Unmerged(r.free, a, l)
        BY <1>1, <1>2, ClaimOK, Zenon
    <2>4. CASE r.address = -1
        BY <1>0, <2>1, <2>2, <2>3, <2>4, GotoMoves DEF ClaimsNothing
    <2>5. CASE r.address \in Nat
      <3> PICK a : a = r.address
          BY Zenon
      <3>1. /\ claimed' = claimed \cup {[ptr |-> a, size |-> size]}
            /\ Moves(t, "track", n, a)
          BY <1>0, <2>1, <2>5, GotMoves
      <3>2. a \in Nat /\ r.address # -1
          BY <2>5
      <3>3. /\ FreeOK(free', C \cup {<<a, level>>})
            /\ a + size < MaxSpace /\ Aligned(a, level)
            /\ a + BlockSize(level) <= BlockSize(MaxBits - 1)
            /\ \A c \in C : Apart(a, level, c[1], c[2])
            /\ \A x \in Nat : IsFree(free, x) => IsFree(free', x) \/ Within(x, a, level)
          BY <2>1, <2>2, <3>2, Zenon
      <3>4. a \in 0..(PoolSize - 1)
          BY <1>1, <3>2, <3>3, SpaceAssumption
      <3>5. ASSUME NEW c \in claimed PROVE Apart(a, level, c.ptr, Level(c)) /\ c.ptr # a
        <4>1. <<c.ptr, Level(c)>> \in C
            BY Zenon DEF UsedBlocks
        <4>2. Apart(a, level, c.ptr, Level(c))
            BY <3>3, <4>1, Zenon
        <4>3. BlockSize(level) \in Nat \ {0} /\ BlockSize(Level(c)) \in Nat \ {0}
            BY <1>1, <1>2, <4>1, DesiredLevels, Levels, BlockSizes
        <4> QED BY <3>2, <4>2, <4>3 DEF Apart
      <3>6. ClaimsBlock(t, a)
          BY <1>3, <3>1, <3>3, <3>4, <3>5, Zenon DEF ClaimsBlock
      <3> QED BY <2>1, <2>3, <3>6, Zenon
    <2> QED BY <2>2, <2>4, <2>5, Zenon
  <1>4. CASE ~ (n < PoolSize \div 2)
      BY <1>0, <1>2, <1>4, GotoMoves, Zenon DEF Claim, ClaimsNothing
  <1> QED BY <1>3, <1>4, Zenon

\* What Release does: the thread's block is not in use any more, the others
\* still are, and its addresses are free if the size is not below a page.
ReleasesBlock(t) ==
    /\ FreeOK(free', UsedBlocks(claimed'))
    /\ \A l \in FreeLevels : \A a : ~ Unmerged(free', a, l)
    /\ \A x \in Nat : IsFree(free, x) => IsFree(free', x)
    /\ thr[t].n >= PageSize =>
           \A b \in claimed, x \in Nat : b.ptr = thr[t].ptr /\ Within(x, b.ptr, Level(b)) => IsFree(free', x)

\* memory_pool::release does this.
LEMMA ReleaseCases ==
    ASSUME MemoryInv, NEW t \in Threads, Release(t)
    PROVE  ReleasesBlock(t)
  <1> PICK n : n = thr[t].n
      BY Zenon
  <1> PICK p : p = thr[t].ptr
      BY Zenon
  <1> PICK b : b = [ptr |-> p, size |-> PoolRequest(n)]
      BY Zenon
  <1> PICK C : C = UsedBlocks(claimed')
      BY Zenon
  <1> PICK level : level = DesiredLevel(n)
      BY Zenon
  <1>0. TypeInv /\ SpaceInv /\ OwnerInv
      BY Zenon DEF MemoryInv
  <1>1. /\ thr[t].pc = "release" /\ free' = ReleaseBlock(free, p, n)
        /\ claimed' = {c \in claimed : c.ptr # p}
      BY Zenon DEF Release, At
  <1>2. n \in Nat /\ PoolRequest(n) \in Nat /\ n <= PoolRequest(n)
      BY <1>0, <1>1, PointerFacts, Zenon DEF TypeInv
  <1>3. b \in claimed
      BY <1>0, <1>1, Zenon DEF Holds, OwnerInv, Backed, Held
  <1>4. level \in FreeLevels /\ Level(b) \in FreeLevels /\ level <= Level(b)
      BY <1>2, DesiredLevels, Zenon DEF Level
  <1>5. /\ level \in Nat /\ Level(b) \in Nat /\ BlockSize(level) \in Nat \ {0}
        /\ BlockSize(Level(b)) \in Nat \ {0} /\ BlockSize(level) <= BlockSize(Level(b))
      BY <1>4, Levels, BlockSizes, BlockSizesGrow, Zenon
  <1>6. claimed \subseteq [ptr : Nat, size : Nat] /\ p \in Nat /\ b.ptr = p
      BY <1>0, <1>3, Zenon DEF TypeInv
  <1>7. \A c \in claimed : Level(c) \in FreeLevels /\ BlockSize(Level(c)) \in Nat \ {0} /\ c.ptr \in Nat
    <2> TAKE c \in claimed
    <2>1. c.size \in Nat /\ c.ptr \in Nat
        BY <1>6, Zenon
    <2> QED BY <2>1, DesiredLevels, Levels, BlockSizes, Zenon DEF Level
  <1>8. Aligned(p, level) /\ p + BlockSize(level) <= BlockSize(MaxBits - 1)
    <2>1. Aligned(p, Level(b)) /\ p + BlockSize(Level(b)) <= BlockSize(MaxBits - 1)
        BY <1>0, <1>3, Zenon DEF SpaceInv, UsedOK
    <2>2. Aligned(p, level)
        BY <1>4, <1>5, <2>1, AlignedBelow, Zenon
    <2> QED BY <1>5, <1>6, <2>1, <2>2, Levels, BlockSizes
  <1>9. C \in SUBSET (Nat \X FreeLevels) /\ C \subseteq UsedBlocks(claimed)
      BY <1>1, <1>6, UsedBlocksType, Zenon DEF UsedBlocks
  <1>10. FreeOK(free, UsedBlocks(claimed)) /\ \A l \in FreeLevels : \A a : ~ Unmerged(free, a, l)
      BY <1>0, Zenon DEF SpaceInv
  <1>11. FreeOK(free, C)
      BY <1>9, <1>10, Zenon DEF FreeOK
  <1>12. ASSUME NEW c \in C PROVE Apart(p, level, c[1], c[2])
    <2>1. PICK d \in claimed : d.ptr # p /\ c = <<d.ptr, Level(d)>>
        BY <1>1, Zenon DEF UsedBlocks
    <2>2. Apart(p, Level(b), d.ptr, Level(d))
        BY <1>0, <1>3, <1>6, <2>1, Zenon DEF SpaceInv, UsedOK
    <2>3. Apart(p, level, d.ptr, Level(d))
        BY <1>5, <1>6, <1>7, <2>2, SMTT(30) DEF Apart
    <2> QED BY <2>1, <2>3
  <1>13. ASSUME NEW l \in FreeLevels, NEW a \in free[l] PROVE Apart(a, l, p, level)
    <2>1. <<p, Level(b)>> \in UsedBlocks(claimed)
        BY <1>3, Zenon DEF UsedBlocks
    <2>2. Apart(a, l, p, Level(b)) /\ a \in Nat
        BY <1>10, <2>1, Zenon DEF FreeOK
    <2> QED BY <1>5, <1>6, <2>2 DEF Apart
  <1> PICK g : g = ReleaseBlock(free, p, n)
      BY Zenon
  <1>14. /\ FreeOK(g, C)
         /\ \A l \in FreeLevels : \A a : ~ Unmerged(g, a, l)
         /\ \A x \in Nat : IsFree(free, x) \/ Within(x, p, level) => IsFree(g, x)
      BY <1>2, <1>8, <1>9, <1>10, <1>11, <1>12, <1>13, ReleaseOK, Zenon
  <1>15. ASSUME n >= PageSize, NEW c \in claimed, NEW x \in Nat, c.ptr = p, Within(x, c.ptr, Level(c))
         PROVE  IsFree(g, x)
    <2>1. PoolRequest(n) = n
        BY <1>2, <1>15, SMTT(30) DEF PoolRequest
    <2>2. c = b
        BY <1>0, <1>3, <1>5, <1>7, <1>15 DEF SpaceInv, UsedOK, Apart
    <2>3. Level(c) = level
        BY <2>1, <2>2, Zenon DEF Level
    <2> QED BY <1>14, <1>15, <2>3, Zenon
  <1> QED BY <1>1, <1>14, <1>15, Zenon DEF ReleasesBlock

\* Register: the pointer has no entry yet, so that the block gets one.
LEMMA RegisterEffect ==
    ASSUME MemoryInv, NEW t \in Threads, Register(t)
    PROVE  allocated' = allocated \cup {Held(t)} /\ owned' = owned \cup {Held(t)}
  <1>1. Holds(t) /\ thr[t].pc # "erase" /\ Held(t).ptr = thr[t].ptr
      BY Zenon DEF Register, At, Holds, Held
  <1>2. \A b \in allocated : b.ptr # Held(t).ptr
      BY <1>1, EntriesUnique, Zenon
  <1> QED BY <1>2, Zenon DEF Register, Held

\* Free: the entry that is found is that of the block.
LEMMA FreeEffect ==
    ASSUME MemoryInv, NEW t \in Threads, NEW block \in owned, Free(t, block)
    PROVE  Moves(t, "erase", block.size, block.ptr)
  <1> DEFINE entries == {entry \in allocated : entry.ptr = block.ptr}
  <1>1. block \in entries
      BY Zenon DEF MemoryInv, EntriesInv
  <1>2. \A e \in entries : e = block
      BY EntriesUnique, Zenon
  <1>3. entries = {block}
      BY <1>1, <1>2, Zenon
  <1>5. thr' = [thr EXCEPT ![t] = IF entries = {} THEN Idle
                                  ELSE [pc |-> "erase", ptr |-> block.ptr,
                                        n |-> (CHOOSE entry \in entries : TRUE).size]]
      BY Zenon DEF Free
  <1> HIDE DEF entries
  <1> QED BY <1>3, <1>5, Zenon DEF Moves

\* How each action moves its thread.
LEMMA ActionMoves ==
    ASSUME MemoryInv, NEW t \in Threads
    PROVE  /\ \A n \in Sizes, aligned \in BOOLEAN : Malloc(t, n, aligned) =>
                  \E pc \in {"fallback", "claim", "init"} :
                      /\ pc = "claim" => ready
                      /\ Moves(t, pc, IF n = 0 THEN 1 ELSE n, -1)
           /\ InitMemPool(t) => Moves(t, "claim", thr[t].n, thr[t].ptr)
           /\ Fallback(t) => \/ \E ptr \in Outside \ outside :
                                    outside' = outside \cup {ptr} /\ Moves(t, "track", thr[t].n, ptr)
                             \/ outside' = outside /\ Moves(t, "idle", 0, -1)
           /\ Track(t) => Moves(t, "register", thr[t].n, thr[t].ptr)
           /\ Register(t) \/ UntrackPool(t) \/ RawFree(t) => Moves(t, "idle", 0, -1)
           /\ EraseEntry(t) =>
                  Moves(t, IF thr[t].ptr \in Outside THEN "untrack" ELSE "release", thr[t].n, thr[t].ptr)
           /\ Release(t) => Moves(t, "untrackPool", thr[t].n, thr[t].ptr)
           /\ Untrack(t) => Moves(t, "rawFree", thr[t].n, thr[t].ptr)
  <1>0. TypeInv /\ ready \in BOOLEAN
      BY Zenon DEF MemoryInv, TypeInv
  <1>1. ASSUME NEW n \in Sizes, NEW aligned \in BOOLEAN, Malloc(t, n, aligned)
        PROVE  \E pc \in {"fallback", "claim", "init"} :
                  /\ pc = "claim" => ready
                  /\ Moves(t, pc, IF n = 0 THEN 1 ELSE n, -1)
      BY <1>1, Zenon DEF Malloc, Moves
  <1>2. InitMemPool(t) => Moves(t, "claim", thr[t].n, thr[t].ptr)
      BY <1>0, GotoMoves, Zenon DEF InitMemPool
  <1>3. ASSUME Fallback(t)
        PROVE  \/ \E ptr \in Outside \ outside :
                      outside' = outside \cup {ptr} /\ Moves(t, "track", thr[t].n, ptr)
               \/ outside' = outside /\ Moves(t, "idle", 0, -1)
      BY <1>0, <1>3, GotMoves, Zenon DEF Moves, Idle, Fallback
  <1>4. Track(t) => Moves(t, "register", thr[t].n, thr[t].ptr)
      BY <1>0, GotoMoves, Zenon DEF Track
  <1>5. Register(t) \/ UntrackPool(t) \/ RawFree(t) => Moves(t, "idle", 0, -1)
      BY Zenon DEF Register, UntrackPool, RawFree, Moves, Idle
  <1>6. ASSUME EraseEntry(t)
        PROVE  Moves(t, IF thr[t].ptr \in Outside THEN "untrack" ELSE "release", thr[t].n, thr[t].ptr)
      BY <1>0, <1>6, FromPool, GotoMoves DEF EraseEntry, At, Holds
  <1>7. Release(t) => Moves(t, "untrackPool", thr[t].n, thr[t].ptr)
      BY <1>0, GotoMoves, Zenon DEF Release
  <1>8. Untrack(t) => Moves(t, "rawFree", thr[t].n, thr[t].ptr)
      BY <1>0, GotoMoves, Zenon DEF Untrack
  <1> QED BY <1>1, <1>2, <1>3, <1>4, <1>5, <1>6, <1>7, <1>8

-----------------------------------------------------------------------------
(* The invariant is inductive                                              *)

\* Initially nothing is handed out, and all address space is one free block.
LEMMA InitMemory == Init => MemoryInv
  <1> SUFFICES ASSUME Init PROVE MemoryInv
      BY Zenon
  <1>1. \A t \in Threads : thr[t] = [pc |-> "idle", n |-> 0, ptr |-> -1]
      BY Zenon DEF Init, Idle
  <1>2. TypeInv
      BY Zenon DEF ThreadType, Init, Idle, TypeInv, Holds
  <1>3. SpaceInv
      BY <1>1, Levels, BlockSizes DEF AllFree, Aligned, FreeOK, Unmerged, UsedBlocks, UsedOK,
         Init, SpaceInv
  <1>4. OwnerInv
      BY <1>1 DEF Init, OwnerInv, Holds
  <1>5. EntriesInv
      BY <1>1 DEF Init, EntriesInv
  <1> QED BY <1>2, <1>3, <1>4, <1>5 DEF MemoryInv

\* Types, for each action.
LEMMA TypePreserved ==
    ASSUME MemoryInv, Next
    PROVE  TypeInv'
  <1>0. TypeInv
      BY Zenon DEF MemoryInv
  <1> DEFINE Rest == /\ ready' \in BOOLEAN
                     /\ allocated' \subseteq [ptr : Pointers, size : Requests]
                     /\ owned' \subseteq [ptr : Pointers, size : Requests]
                     /\ claimed' \subseteq [ptr : Nat, size : Nat]
                     /\ tracked' \subseteq Pointers
                     /\ outside' \subseteq Outside
  \* The state without the threads.
  <1>1. ASSUME NEW t \in Threads, NEW pc, NEW n, NEW ptr, Moves(t, pc, n, ptr), Rest,
               pc \in {"idle", "init", "claim", "fallback", "track", "register", "erase",
                       "release", "untrackPool", "untrack", "rawFree"},
               n \in Nat, ptr \in {-1} \cup Pointers, pc # "idle" => n \in Requests,
               pc \in {"track", "register", "erase", "release", "untrack", "rawFree"} => ptr \in Pointers
        PROVE  TypeInv'
                                          BY <1>0, <1>1, ThreadsTyped DEF ThreadType, TypeInv
  <1>2. \A t \in Threads : thr[t].n \in Nat /\ thr[t].ptr \in {-1} \cup Pointers
    <2> TAKE t \in Threads
    <2>1. thr[t] \in ThreadType
        BY <1>0, Zenon DEF TypeInv
    <2> QED BY <2>1, Zenon DEF ThreadType
  <1>3. /\ \A t \in Threads : thr[t].pc # "idle" => thr[t].n \in Requests
        /\ \A t \in Threads : Holds(t) => thr[t].ptr \in Pointers
      BY <1>0, Zenon DEF TypeInv
  <1>4. /\ ready \in BOOLEAN
        /\ allocated \subseteq [ptr : Pointers, size : Requests]
        /\ owned \subseteq [ptr : Pointers, size : Requests]
        /\ claimed \subseteq [ptr : Nat, size : Nat]
        /\ tracked \subseteq Pointers
        /\ outside \subseteq Outside
      BY <1>0, Zenon DEF TypeInv
  <1> HIDE DEF Rest
  <1>5. ASSUME NEW t \in Threads, NEW n \in Sizes, NEW aligned \in BOOLEAN, Malloc(t, n, aligned)
        PROVE  TypeInv'
    <2>1. Rest
        BY <1>4, <1>5, Zenon DEF Rest, Malloc
    <2> PICK k : k = IF n = 0 THEN 1 ELSE n
        BY Zenon
    <2>2. k \in Requests /\ k \in Nat
        BY MemoryAssumption, Zenon DEF Requests
    <2>3. PICK pc \in {"fallback", "claim", "init"} : Moves(t, pc, k, -1)
        BY <1>5, ActionMoves, Zenon
    <2> QED BY <1>1, <2>1, <2>2, <2>3
  <1>6. ASSUME NEW t \in Threads, InitMemPool(t) PROVE TypeInv'
      BY <1>1, <1>2, <1>3, <1>4, <1>6, ActionMoves DEF Rest, InitMemPool, At
  <1>7. ASSUME NEW t \in Threads, Claim(t) PROVE TypeInv'
    <2>0. /\ thr[t].pc = "claim"
          /\ UNCHANGED <<ready, allocated, tracked, outside, owned>>
        BY <1>7, Zenon DEF Claim, At
    <2>1. CASE ClaimsNothing(t)
        BY <1>1, <1>2, <1>3, <1>4, <2>0, <2>1 DEF Rest, ClaimsNothing
    <2>2. ASSUME NEW address, ClaimsBlock(t, address) PROVE TypeInv'
      <3>1. /\ address \in 0..(PoolSize - 1) /\ Moves(t, "track", thr[t].n, address)
            /\ claimed' = claimed \cup {[ptr |-> address, size |-> PoolRequest(thr[t].n)]}
          BY <2>2, Zenon DEF ClaimsBlock
      <3>2. address \in Pointers /\ address \in Nat /\ PoolRequest(thr[t].n) \in Nat
          BY <1>2, <3>1, PointerFacts, Zenon
      <3>3. Rest
          BY <1>4, <2>0, <3>1, <3>2 DEF Rest
      <3>4. thr[t].n \in Nat /\ thr[t].n \in Requests
          BY <1>2, <1>3, <2>0, Zenon
      <3> QED BY <1>1, <3>1, <3>2, <3>3, <3>4, Zenon
    <2> QED BY <1>7, <2>1, <2>2, ClaimCases
  <1>8. ASSUME NEW t \in Threads, Fallback(t) PROVE TypeInv'
      BY <1>1, <1>2, <1>3, <1>4, <1>8, ActionMoves, Zenon DEF Fallback, At, Rest, Pointers
  <1>9. ASSUME NEW t \in Threads, Track(t) PROVE TypeInv'
      BY <1>1, <1>2, <1>3, <1>4, <1>9, ActionMoves, Zenon DEF Track, At, Holds, Rest
  <1>10. ASSUME NEW t \in Threads, Register(t) PROVE TypeInv'
    <2>0. thr[t].n \in Requests /\ thr[t].ptr \in Pointers
        BY <1>3, <1>10, Zenon DEF Register, At, Holds
    <2>1. Rest
        BY <1>4, <1>10, <2>0 DEF Rest, Register, Held
    <2>2. Moves(t, "idle", 0, -1)
        BY <1>10, ActionMoves, Zenon
    <2> QED BY <1>1, <2>1, <2>2, Zenon
  <1>11. ASSUME NEW t \in Threads, NEW block \in owned, Free(t, block) PROVE TypeInv'
      BY <1>1, <1>4, <1>11, FreeEffect, PointerFacts, Zenon DEF Rest, Free
  <1>12. ASSUME NEW t \in Threads, EraseEntry(t) PROVE TypeInv'
      BY <1>1, <1>2, <1>3, <1>4, <1>12, ActionMoves, Zenon DEF EraseEntry, At, Holds, Rest
  <1>13. ASSUME NEW t \in Threads, Release(t) PROVE TypeInv'
      BY <1>1, <1>2, <1>3, <1>4, <1>13, ActionMoves, Zenon DEF Release, At, Rest
  <1>14. ASSUME NEW t \in Threads, UntrackPool(t) \/ RawFree(t) PROVE TypeInv'
      BY <1>1, <1>4, <1>14, ActionMoves DEF Rest, UntrackPool, RawFree
  <1>15. ASSUME NEW t \in Threads, Untrack(t) PROVE TypeInv'
      BY <1>1, <1>2, <1>3, <1>4, <1>15, ActionMoves, Zenon DEF Untrack, At, Holds, Rest
  <1>16. ASSUME Terminated PROVE TypeInv'
      BY <1>0, <1>16, Zenon DEF Terminated, vars, TypeInv, Holds
  <1> QED BY <1>5, <1>6, <1>7, <1>8, <1>9, <1>10, <1>11, <1>12, <1>13, <1>14, <1>15, <1>16,
             Zenon DEF Next

\* The blocks of the pool, for each action.
LEMMA SpacePreserved ==
    ASSUME MemoryInv, Next
    PROVE  SpaceInv'
  <1>0. TypeInv /\ SpaceInv
      BY Zenon DEF MemoryInv
  <1> DEFINE Rest == /\ FreeOK(free', UsedBlocks(claimed'))
                     /\ \A l \in FreeLevels : \A a : ~ Unmerged(free', a, l)
                     /\ UsedOK(claimed')
                     /\ ready => ready'
                     /\ ~ ready' => free' = AllFree /\ claimed' = {}
  \* The state without the threads.
  <1>1. ASSUME NEW t \in Threads, NEW pc, NEW n, NEW ptr, Moves(t, pc, n, ptr), Rest,
               pc = "claim" => ready'
        PROVE  SpaceInv'
    <2>1. \A u \in Threads : thr'[u].pc = "claim" => ready'
      <3> TAKE u \in Threads
      <3>1. CASE u = t
          BY <1>0, <1>1, <3>1, ThreadsMoved, Zenon
      <3>2. CASE u # t
          BY <1>0, <1>1, ThreadsMoved DEF SpaceInv
      <3> QED BY <3>1, <3>2, Zenon
    <2> QED BY <1>1, <2>1, Zenon DEF SpaceInv
  <1>2. ASSUME UNCHANGED <<ready, free, claimed>> PROVE Rest
      BY <1>0, <1>2, Zenon DEF SpaceInv
  <1>3. ASSUME NEW t \in Threads, NEW n \in Sizes, NEW aligned \in BOOLEAN, Malloc(t, n, aligned)
        PROVE  SpaceInv'
    <2>1. UNCHANGED <<ready, free, claimed>>
        BY <1>3, Zenon DEF Malloc
    <2>2. PICK pc : (pc = "claim" => ready) /\ Moves(t, pc, IF n = 0 THEN 1 ELSE n, -1)
        BY <1>3, ActionMoves, Zenon
    <2> HIDE DEF Rest
    <2> QED BY <1>1, <1>2, <2>1, <2>2
  <1>4. ASSUME NEW t \in Threads, InitMemPool(t) PROVE SpaceInv'
    <2>1. ready' = TRUE /\ free' = free /\ claimed' = claimed
        BY <1>0, <1>4, Zenon DEF InitMemPool, SpaceInv
    <2>2. Rest
        BY <1>0, <2>1, Zenon DEF SpaceInv
    <2>3. Moves(t, "claim", thr[t].n, thr[t].ptr)
        BY <1>4, ActionMoves
    <2> HIDE DEF Rest
    <2> QED BY <1>1, <2>1, <2>2, <2>3
  <1>5. ASSUME NEW t \in Threads, Claim(t) PROVE SpaceInv'
    <2>0. ready /\ ready' = ready
        BY <1>0, <1>5, Zenon DEF SpaceInv, Claim, At
    <2>1. \A l \in FreeLevels : \A a : ~ Unmerged(free', a, l)
        BY <1>5, ClaimCases, Zenon
    <2>2. CASE ClaimsNothing(t)
      <3>1. Rest
          BY <1>0, <2>0, <2>1, <2>2 DEF ClaimsNothing, SpaceInv
      <3> HIDE DEF Rest
      <3> QED BY <1>1, <2>2, <3>1, SMTT(30) DEF ClaimsNothing
    <2>3. ASSUME NEW address, ClaimsBlock(t, address) PROVE SpaceInv'
      <3> PICK size : size = PoolRequest(thr[t].n)
          BY Zenon
      <3> PICK b : b = [ptr |-> address, size |-> size]
          BY Zenon
      <3>1. /\ claimed' = claimed \cup {b} /\ Moves(t, "track", thr[t].n, address)
            /\ FreeOK(free', UsedBlocks(claimed) \cup {<<address, DesiredLevel(size)>>})
            /\ address + size < MaxSpace /\ Aligned(address, DesiredLevel(size))
            /\ address + BlockSize(DesiredLevel(size)) <= BlockSize(MaxBits - 1)
            /\ \A c \in claimed : Apart(address, DesiredLevel(size), c.ptr, Level(c))
          BY <2>3, Zenon DEF ClaimsBlock
      <3>2. b.ptr = address /\ Level(b) = DesiredLevel(size) /\ b.size = size
          BY Zenon DEF Level
      <3>3. UsedBlocks(claimed') = UsedBlocks(claimed) \cup {<<address, DesiredLevel(size)>>}
          BY <3>1, <3>2, SMTT(30) DEF UsedBlocks
      <3>4. \A c \in claimed : Apart(b.ptr, Level(b), c.ptr, Level(c)) /\ Apart(c.ptr, Level(c), b.ptr, Level(b))
          BY <3>1, <3>2 DEF Apart
      <3>5. UsedOK(claimed)
          BY <1>0, Zenon DEF SpaceInv
      <3>6. UsedOK(claimed')
          BY <3>1, <3>2, <3>4, <3>5 DEF UsedOK
      <3>7. Rest
          BY <2>0, <2>1, <3>1, <3>3, <3>6, Zenon
      <3> HIDE DEF Rest
      <3> QED BY <1>1, <3>1, <3>7, Zenon
    <2> QED BY <1>5, <2>2, <2>3, ClaimCases, Zenon
  <1>6. ASSUME NEW t \in Threads, Fallback(t) PROVE SpaceInv'
    <2>1. UNCHANGED <<ready, free, claimed>>
        BY <1>6, Zenon DEF Fallback
    <2>2. PICK pc \in {"track", "idle"} : \E n, ptr : Moves(t, pc, n, ptr)
        BY <1>6, ActionMoves
    <2> HIDE DEF Rest
    <2> QED BY <1>1, <1>2, <2>1, <2>2
  <1>7. ASSUME NEW t \in Threads, Release(t) PROVE SpaceInv'
    <2>1. ReleasesBlock(t)
        BY <1>7, ReleaseCases, Zenon
    <2>2. claimed' \subseteq claimed /\ ready' = ready
        BY <1>7, Zenon DEF Release
    <2>3. claimed # {}
        BY <1>7, Zenon DEF Release, At, Holds, MemoryInv, OwnerInv, Backed, Held
    <2>4. ready
        BY <1>0, <2>3, Zenon DEF SpaceInv
    <2>5. UsedOK(claimed')
        BY <1>0, <2>2, Zenon DEF SpaceInv, UsedOK
    <2>6. Rest
        BY <2>1, <2>2, <2>4, <2>5 DEF ReleasesBlock
    <2>7. Moves(t, "untrackPool", thr[t].n, thr[t].ptr)
        BY <1>7, ActionMoves, Zenon
    <2> HIDE DEF Rest
    <2> QED BY <1>1, <2>6, <2>7
  <1>8. ASSUME NEW t \in Threads, NEW block \in owned, Free(t, block) PROVE SpaceInv'
    <2>1. UNCHANGED <<ready, free, claimed>>
        BY <1>8, Zenon DEF Free
    <2>2. Moves(t, "erase", block.size, block.ptr)
        BY <1>8, FreeEffect, Zenon
    <2> HIDE DEF Rest
    <2> QED BY <1>1, <1>2, <2>1, <2>2
  <1>9. ASSUME NEW t \in Threads,
               Track(t) \/ Register(t) \/ EraseEntry(t) \/ UntrackPool(t) \/ Untrack(t) \/ RawFree(t)
        PROVE  SpaceInv'
    <2>1. UNCHANGED <<ready, free, claimed>>
        BY <1>9, Zenon DEF Track, Register, EraseEntry, UntrackPool, Untrack, RawFree
    <2>2. PICK pc \in {"register", "idle", "untrack", "release", "rawFree"} : \E n, ptr : Moves(t, pc, n, ptr)
        BY <1>9, ActionMoves, Zenon
    <2> HIDE DEF Rest
    <2> QED BY <1>1, <1>2, <2>1, <2>2
  <1>10. ASSUME Terminated PROVE SpaceInv'
      BY <1>0, <1>10 DEF Terminated, vars, SpaceInv
  <1> QED BY <1>3, <1>4, <1>5, <1>6, <1>7, <1>8, <1>9, <1>10 DEF Next

\* What the threads hold after a step.
LEMMA HeldMoved ==
    ASSUME TypeInv, NEW t \in Threads, NEW pc, NEW n, NEW ptr, Moves(t, pc, n, ptr)
    PROVE  /\ Holds(t)' <=> pc \in {"track", "register", "erase", "release", "untrack", "rawFree"}
           /\ Held(t)' = [ptr |-> ptr, size |-> n]
           /\ \A u \in Threads : u # t => (Holds(u)' <=> Holds(u)) /\ Held(u)' = Held(u)
  BY ThreadsMoved DEF Holds, Held

\* Memory stays handed out while neither the backend nor the pool gets it back.
LEMMA StillBacked ==
    ASSUME NEW b, Backed(b), b.ptr \in Outside => b.ptr \in outside',
           \A c \in claimed : c.ptr = b.ptr => c \in claimed'
    PROVE  Backed(b)'
  BY Zenon DEF Backed

\* A pointer that is handed out now is not held or owned by anyone else.
LEMMA FreshPointer ==
    ASSUME MemoryInv, NEW ptr,
           \/ ptr \in Outside /\ ptr \notin outside
           \/ ptr \notin Outside /\ \A c \in claimed : c.ptr # ptr
    PROVE  /\ \A b : Backed(b) => b.ptr # ptr
           /\ \A t \in Threads : Holds(t) => thr[t].ptr # ptr
           /\ \A b \in owned : b.ptr # ptr
  <1>1. \A b : Backed(b) => b.ptr # ptr
      BY Zenon DEF Backed
  <1>2. \A t \in Threads : Holds(t) => Backed(Held(t)) /\ Held(t).ptr = thr[t].ptr
      BY Zenon DEF MemoryInv, OwnerInv, Held
  <1>3. \A b \in owned : Backed(b)
      BY Zenon DEF MemoryInv, OwnerInv
  <1> QED BY <1>1, <1>2, <1>3

\* A thread gets a pointer that nobody else has.
LEMMA OwnerOfFresh ==
    ASSUME MemoryInv, NEW t \in Threads, ~ Holds(t), NEW ptr, NEW n, Moves(t, "track", n, ptr),
           \/ ptr \in Outside /\ ptr \notin outside
           \/ ptr \notin Outside /\ \A c \in claimed : c.ptr # ptr,
           Backed([ptr |-> ptr, size |-> n])', owned' = owned,
           outside \subseteq outside', claimed \subseteq claimed'
    PROVE  OwnerInv'
  <1>0. TypeInv /\ OwnerInv
      BY Zenon DEF MemoryInv
  <1>1. /\ thr'[t].pc = "track" /\ thr'[t].n = n /\ thr'[t].ptr = ptr
        /\ \A u \in Threads : u # t => thr'[u] = thr[u]
      BY <1>0, ThreadsMoved, Zenon
  <1>2. /\ Holds(t)' /\ Held(t)' = [ptr |-> ptr, size |-> n]
        /\ \A u \in Threads : u # t => (Holds(u)' <=> Holds(u)) /\ Held(u)' = Held(u)
      BY <1>0, HeldMoved, Zenon
  <1>3. /\ \A u \in Threads : Holds(u) => thr[u].ptr # ptr
        /\ \A b \in owned : b.ptr # ptr
      BY FreshPointer, Zenon
  <1>4. ASSUME NEW b, Backed(b) PROVE Backed(b)'
      BY <1>4, Zenon DEF Backed
  <1>5. /\ \A u \in Threads : Holds(u) => Backed(Held(u))
        /\ \A b \in owned : Backed(b)
        /\ \A u, v \in Threads : Holds(u) /\ Holds(v) /\ u # v => thr[u].ptr # thr[v].ptr
        /\ \A u \in Threads, b \in owned : Holds(u) => thr[u].ptr # b.ptr
        /\ \A b, c \in owned : b # c => b.ptr # c.ptr
        /\ \A u \in Threads : thr[u].pc \in {"untrack", "rawFree"} => thr[u].ptr \in Outside
        /\ \A u \in Threads : thr[u].pc = "release" => thr[u].ptr \notin Outside
      BY <1>0, Zenon DEF OwnerInv
  <1>6. ASSUME NEW u \in Threads, Holds(u)' PROVE Backed(Held(u))'
      BY <1>2, <1>5, <1>6, SMTT(30) DEF Backed
  <1>7. \A b \in owned' : Backed(b)'
      BY <1>4, <1>5, SMTT(30)
  <1>8. \A u, v \in Threads : Holds(u)' /\ Holds(v)' /\ u # v => thr'[u].ptr # thr'[v].ptr
      BY <1>1, <1>2, <1>3, <1>5, SMTT(30)
  <1>9. \A u \in Threads, b \in owned' : Holds(u)' => thr'[u].ptr # b.ptr
      BY <1>1, <1>2, <1>3, <1>5
  <1>10. /\ \A u \in Threads : thr'[u].pc \in {"untrack", "rawFree"} => thr'[u].ptr \in Outside
         /\ \A u \in Threads : thr'[u].pc = "release" => thr'[u].ptr \notin Outside
      BY <1>1, <1>5, SMTT(30)
  <1> QED BY <1>5, <1>6, <1>7, <1>8, <1>9, <1>10 DEF OwnerInv

\* A thread keeps what it has, or gives it back.
LEMMA OwnerKept ==
    ASSUME MemoryInv, NEW t \in Threads, NEW pc, NEW n, NEW ptr, Moves(t, pc, n, ptr),
           pc \in {"track", "register", "erase", "release", "untrack", "rawFree"} =>
               Holds(t) /\ n = thr[t].n /\ ptr = thr[t].ptr,
           pc \in {"untrack", "rawFree"} => ptr \in Outside,
           pc = "release" => ptr \notin Outside,
           owned' = owned,
           \A b : Backed(b) /\ (Holds(t) /\ ~ Holds(t)' => b.ptr # thr[t].ptr) => Backed(b)'
    PROVE  OwnerInv'
  <1>0. TypeInv /\ OwnerInv
      BY Zenon DEF MemoryInv
  <1>1. /\ thr'[t].pc = pc /\ thr'[t].n = n /\ thr'[t].ptr = ptr
        /\ \A u \in Threads : u # t => thr'[u] = thr[u]
      BY <1>0, ThreadsMoved, Zenon
  <1>2. /\ Holds(t)' => Holds(t) /\ Held(t)' = Held(t) /\ thr'[t].ptr = thr[t].ptr
        /\ \A u \in Threads : u # t => (Holds(u)' <=> Holds(u)) /\ Held(u)' = Held(u)
      BY <1>0, <1>1, HeldMoved DEF Held
  <1>3. /\ \A u \in Threads : Holds(u) => Backed(Held(u))
        /\ \A b \in owned : Backed(b)
        /\ \A u, v \in Threads : Holds(u) /\ Holds(v) /\ u # v => thr[u].ptr # thr[v].ptr
        /\ \A u \in Threads, b \in owned : Holds(u) => thr[u].ptr # b.ptr
        /\ \A b, c \in owned : b # c => b.ptr # c.ptr
        /\ \A u \in Threads : thr[u].pc \in {"untrack", "rawFree"} => thr[u].ptr \in Outside
        /\ \A u \in Threads : thr[u].pc = "release" => thr[u].ptr \notin Outside
      BY <1>0, Zenon DEF OwnerInv
  <1>4. ASSUME NEW u \in Threads, Holds(u)' PROVE Backed(Held(u))'
    <2>0. Holds(u) /\ Held(u)' = Held(u) /\ Held(u).ptr = thr[u].ptr
        BY <1>2, <1>4, Zenon DEF Held
    <2>1. PICK h : h = Held(u) /\ h = Held(u)' /\ h.ptr = thr[u].ptr /\ Holds(u)
        BY <2>0, Zenon
    <2>2. Backed(h)
        BY <1>3, <2>1, Zenon
    <2>3. Holds(t) /\ ~ Holds(t)' => h.ptr # thr[t].ptr
        BY <1>3, <1>4, <2>1
    <2>4. Backed(h)'
        BY <2>2, <2>3, Zenon
    <2> QED BY <2>1, <2>4 DEF Backed
  <1>6. \A u, v \in Threads : Holds(u)' /\ Holds(v)' /\ u # v => thr'[u].ptr # thr'[v].ptr
      BY <1>1, <1>2, <1>3, SMTT(30)
  <1>7. \A u \in Threads, b \in owned' : Holds(u)' => thr'[u].ptr # b.ptr
      BY <1>1, <1>2, <1>3, SMTT(30)
  <1>8. /\ \A u \in Threads : thr'[u].pc \in {"untrack", "rawFree"} => thr'[u].ptr \in Outside
        /\ \A u \in Threads : thr'[u].pc = "release" => thr'[u].ptr \notin Outside
      BY <1>1, <1>3, SMTT(30)
  <1> QED BY <1>3, <1>4, <1>6, <1>7, <1>8 DEF OwnerInv

\* malloc() returns the memory to the program.
LEMMA OwnerByRegister ==
    ASSUME MemoryInv, NEW t \in Threads, Register(t)
    PROVE  OwnerInv'
  <1>0. TypeInv /\ OwnerInv
      BY Zenon DEF MemoryInv
  <1>1. /\ Moves(t, "idle", 0, -1) /\ owned' = owned \cup {Held(t)}
        /\ Holds(t) /\ Held(t).ptr = thr[t].ptr /\ outside' = outside /\ claimed' = claimed
      BY ActionMoves, Zenon DEF Register, At, Holds, Held
  <1>2. /\ thr'[t].pc = "idle" /\ \A u \in Threads : u # t => thr'[u] = thr[u]
      BY <1>0, <1>1, ThreadsMoved, Zenon
  <1>3. /\ ~ Holds(t)'
        /\ \A u \in Threads : u # t => (Holds(u)' <=> Holds(u)) /\ Held(u)' = Held(u)
      BY <1>0, <1>1, HeldMoved
  <1>4. \A b : Backed(b)' <=> Backed(b)
      BY <1>1, Zenon DEF Backed
  <1>5. /\ \A u \in Threads : Holds(u) => Backed(Held(u))
        /\ \A b \in owned : Backed(b)
        /\ \A u, v \in Threads : Holds(u) /\ Holds(v) /\ u # v => thr[u].ptr # thr[v].ptr
        /\ \A u \in Threads, b \in owned : Holds(u) => thr[u].ptr # b.ptr
        /\ \A b, c \in owned : b # c => b.ptr # c.ptr
        /\ \A u \in Threads : thr[u].pc \in {"untrack", "rawFree"} => thr[u].ptr \in Outside
        /\ \A u \in Threads : thr[u].pc = "release" => thr[u].ptr \notin Outside
      BY <1>0, Zenon DEF OwnerInv
  <1>6. ASSUME NEW u \in Threads, Holds(u)' PROVE Backed(Held(u))'
      BY <1>3, <1>4, <1>5, <1>6, SMTT(30) DEF Backed
  <1>7. \A b \in owned' : Backed(b)'
      BY <1>1, <1>4, <1>5, SMTT(30)
  <1>8. /\ \A u, v \in Threads : Holds(u)' /\ Holds(v)' /\ u # v => thr'[u].ptr # thr'[v].ptr
        /\ \A u \in Threads, b \in owned' : Holds(u)' => thr'[u].ptr # b.ptr
      BY <1>1, <1>2, <1>3, <1>5, SMTT(30)
  <1>9. \A b, c \in owned' : b # c => b.ptr # c.ptr
      BY <1>1, <1>5
  <1>10. /\ \A u \in Threads : thr'[u].pc \in {"untrack", "rawFree"} => thr'[u].ptr \in Outside
         /\ \A u \in Threads : thr'[u].pc = "release" => thr'[u].ptr \notin Outside
      BY <1>2, <1>5, Zenon
  <1> QED BY <1>6, <1>7, <1>8, <1>9, <1>10 DEF OwnerInv

\* free() takes the memory from the program.
LEMMA OwnerByFree ==
    ASSUME MemoryInv, NEW t \in Threads, NEW block \in owned, Free(t, block)
    PROVE  OwnerInv'
  <1>0. TypeInv /\ OwnerInv
      BY Zenon DEF MemoryInv
  <1>1. /\ Moves(t, "erase", block.size, block.ptr) /\ owned' = owned \ {block}
        /\ ~ Holds(t) /\ outside' = outside /\ claimed' = claimed
      BY FreeEffect, Zenon DEF Free, At, Holds
  <1>2. /\ thr'[t].pc = "erase" /\ thr'[t].ptr = block.ptr
        /\ \A u \in Threads : u # t => thr'[u] = thr[u]
      BY <1>0, <1>1, ThreadsMoved
  <1>3. /\ Held(t)' = [ptr |-> block.ptr, size |-> block.size]
        /\ \A u \in Threads : u # t => (Holds(u)' <=> Holds(u)) /\ Held(u)' = Held(u)
      BY <1>0, <1>1, HeldMoved, Zenon
  <1>4. \A b : Backed(b)' <=> Backed(b)
      BY <1>1, Zenon DEF Backed
  <1>5. /\ \A u \in Threads : Holds(u) => Backed(Held(u))
        /\ \A b \in owned : Backed(b)
        /\ \A u, v \in Threads : Holds(u) /\ Holds(v) /\ u # v => thr[u].ptr # thr[v].ptr
        /\ \A u \in Threads, b \in owned : Holds(u) => thr[u].ptr # b.ptr
        /\ \A b, c \in owned : b # c => b.ptr # c.ptr
        /\ \A u \in Threads : thr[u].pc \in {"untrack", "rawFree"} => thr[u].ptr \in Outside
        /\ \A u \in Threads : thr[u].pc = "release" => thr[u].ptr \notin Outside
      BY <1>0, Zenon DEF OwnerInv
  <1>7. ASSUME NEW u \in Threads, Holds(u)' PROVE Backed(Held(u))'
      BY <1>3, <1>4, <1>5, <1>7, SMTT(30) DEF Backed
  <1>8. \A b \in owned' : Backed(b)'
      BY <1>1, <1>4, <1>5, SMTT(30)
  <1>9. \A u, v \in Threads : Holds(u)' /\ Holds(v)' /\ u # v => thr'[u].ptr # thr'[v].ptr
      BY <1>2, <1>3, <1>5, SMTT(30)
  <1>10. \A u \in Threads, b \in owned' : Holds(u)' => thr'[u].ptr # b.ptr
      BY <1>1, <1>2, <1>3, <1>5, SMTT(30)
  <1>11. \A b, c \in owned' : b # c => b.ptr # c.ptr
      BY <1>1, <1>5
  <1>12. /\ \A u \in Threads : thr'[u].pc \in {"untrack", "rawFree"} => thr'[u].ptr \in Outside
         /\ \A u \in Threads : thr'[u].pc = "release" => thr'[u].ptr \notin Outside
      BY <1>2, <1>5
  <1> QED BY <1>7, <1>8, <1>9, <1>10, <1>11, <1>12 DEF OwnerInv

\* One owner, for each action.
LEMMA OwnerPreserved ==
    ASSUME MemoryInv, Next
    PROVE  OwnerInv'
  <1>0. TypeInv /\ OwnerInv
      BY Zenon DEF MemoryInv
  <1>1. ASSUME UNCHANGED <<outside, claimed>> PROVE \A b : Backed(b) => Backed(b)'
      BY <1>1, Zenon DEF Backed
  <1>2. ASSUME NEW t \in Threads, NEW n \in Sizes, NEW aligned \in BOOLEAN, Malloc(t, n, aligned)
        PROVE  OwnerInv'
      BY <1>1, <1>2, ActionMoves, OwnerKept, Zenon DEF Malloc
  <1>3. ASSUME NEW t \in Threads, InitMemPool(t) PROVE OwnerInv'
      BY <1>1, <1>3, ActionMoves, OwnerKept, Zenon DEF InitMemPool
  <1>4. ASSUME NEW t \in Threads, Claim(t) PROVE OwnerInv'
      BY <1>4, OwnerKept, PointerFacts, OwnerOfFresh, ClaimCases, Zenon DEF Claim, At, Holds,
         ClaimsNothing, ClaimsBlock, Backed
  <1>5. ASSUME NEW t \in Threads, Fallback(t) PROVE OwnerInv'
      BY <1>5, OwnerOfFresh, OwnerKept, ActionMoves, Zenon DEF Fallback, At, Holds, Backed
  <1>6. ASSUME NEW t \in Threads, Track(t) PROVE OwnerInv'
      BY <1>1, <1>6, ActionMoves, OwnerKept, Zenon DEF Track, At, Holds
  <1>7. ASSUME NEW t \in Threads, EraseEntry(t) PROVE OwnerInv'
      BY <1>1, <1>7, ActionMoves, OwnerKept, Zenon DEF EraseEntry, At, Holds
  <1>8. ASSUME NEW t \in Threads, Release(t) PROVE OwnerInv'
    <2>1. /\ outside' = outside /\ owned' = owned /\ Holds(t)
          /\ claimed' = {c \in claimed : c.ptr # thr[t].ptr}
        BY <1>8 DEF Release, At, Holds
    <2>2. Moves(t, "untrackPool", thr[t].n, thr[t].ptr)
        BY <1>8, ActionMoves, Zenon
    <2>3. ~ Holds(t)'
        BY <1>0, <2>2, HeldMoved
    <2>4. \A b : Backed(b) /\ b.ptr # thr[t].ptr => Backed(b)'
        BY <2>1 DEF Backed
    <2> QED BY <2>1, <2>2, <2>3, <2>4, OwnerKept
  <1>9. ASSUME NEW t \in Threads, UntrackPool(t) PROVE OwnerInv'
      BY <1>1, <1>9, ActionMoves, OwnerKept, Zenon DEF UntrackPool
  <1>10. ASSUME NEW t \in Threads, Untrack(t) PROVE OwnerInv'
      BY <1>0, <1>1, <1>10, ActionMoves, OwnerKept, Zenon DEF Untrack, At, Holds, OwnerInv
  <1>11. ASSUME NEW t \in Threads, RawFree(t) PROVE OwnerInv'
      BY <1>0, <1>11, ActionMoves, HeldMoved, OwnerKept, Zenon DEF RawFree, At, Holds, Backed
  <1>12. ASSUME Terminated PROVE OwnerInv'
      BY <1>0, <1>12, Zenon DEF Terminated, vars, OwnerInv, Holds, Held, Backed
  <1> QED BY <1>2, <1>3, <1>4, <1>5, <1>6, <1>7, <1>8, <1>9, <1>10, <1>11, <1>12,
             OwnerByRegister, OwnerByFree DEF Next

\* The entries of the allocation map, for each action.
LEMMA EntriesPreserved ==
    ASSUME MemoryInv, Next
    PROVE  EntriesInv'
  <1>0. /\ TypeInv /\ owned \subseteq allocated
        /\ \A t \in Threads : thr[t].pc = "erase" => Held(t) \in allocated
        /\ \A b \in allocated : b \in owned \/ \E t \in Threads : thr[t].pc = "erase" /\ b = Held(t)
      BY Zenon DEF MemoryInv, EntriesInv
  \* Steps of a thread that is not giving up memory, before and after.
  <1>1. ASSUME NEW t \in Threads, NEW pc, NEW n, NEW ptr, Moves(t, pc, n, ptr), pc # "erase",
               thr[t].pc # "erase", allocated' \ owned' = allocated \ owned, owned' \subseteq allocated',
               allocated \subseteq allocated'
        PROVE  EntriesInv'
    <2>1. \A u \in Threads : (thr'[u].pc = "erase" <=> thr[u].pc = "erase") /\ (u # t => Held(u)' = Held(u))
        BY <1>0, <1>1, ThreadsMoved, HeldMoved
    <2>2. \A u \in Threads : thr[u].pc = "erase" => u # t
        BY <1>1, Zenon
    <2>3. \A u \in Threads : thr'[u].pc = "erase" => Held(u)' \in allocated'
        BY <1>0, <1>1, <2>1, <2>2
    <2>4. ASSUME NEW b \in allocated', b \notin owned'
          PROVE  \E u \in Threads : thr'[u].pc = "erase" /\ b = Held(u)'
      <3>1. b \in allocated /\ b \notin owned
          BY <1>1, <2>4, Zenon
      <3>2. PICK u \in Threads : thr[u].pc = "erase" /\ b = Held(u)
          BY <1>0, <3>1
      <3> QED BY <2>1, <2>2, <3>2
    <2> QED BY <1>1, <2>3, <2>4, Zenon DEF EntriesInv
  <1>2. ASSUME NEW t \in Threads, NEW n \in Sizes, NEW aligned \in BOOLEAN, Malloc(t, n, aligned)
        PROVE  EntriesInv'
    <2>1. UNCHANGED <<allocated, owned>> /\ thr[t].pc = "idle"
        BY <1>2 DEF Malloc, At
    <2>2. PICK pc \in {"fallback", "claim", "init"} : Moves(t, pc, IF n = 0 THEN 1 ELSE n, -1)
        BY <1>2, ActionMoves, Zenon
    <2> QED BY <1>0, <1>1, <2>1, <2>2
  <1>3. ASSUME NEW t \in Threads, Claim(t) PROVE EntriesInv'
    <2>1. UNCHANGED <<allocated, owned>> /\ thr[t].pc = "claim"
        BY <1>3 DEF Claim, At
    <2>2. PICK pc \in {"track", "fallback"} : \E ptr : Moves(t, pc, thr[t].n, ptr)
        BY <1>3, ClaimCases, Zenon DEF ClaimsBlock, ClaimsNothing
    <2> QED BY <1>0, <1>1, <2>1, <2>2, SMTT(30)
  <1>4. ASSUME NEW t \in Threads,
               InitMemPool(t) \/ Fallback(t) \/ Track(t) \/ Release(t) \/ UntrackPool(t) \/ Untrack(t) \/ RawFree(t)
        PROVE  EntriesInv'
    <2>1. UNCHANGED <<allocated, owned>> /\ thr[t].pc # "erase"
        BY <1>4, Zenon DEF InitMemPool, Fallback, Track, Release, UntrackPool, Untrack,
           RawFree, At
    <2>2. PICK pc \in {"claim", "track", "idle", "register", "untrackPool", "rawFree"} :
              \E n, ptr : Moves(t, pc, n, ptr)
        BY <1>4, ActionMoves, Zenon
    <2> QED BY <1>0, <1>1, <2>1, <2>2
  <1>5. ASSUME NEW t \in Threads, Register(t) PROVE EntriesInv'
    <2>1. allocated' = allocated \cup {Held(t)} /\ owned' = owned \cup {Held(t)}
        BY <1>5, RegisterEffect
    <2>2. Moves(t, "idle", 0, -1)
        BY <1>5, ActionMoves, Zenon
    <2>3. thr[t].pc = "register" /\ Held(t) \notin allocated
      <3>1. thr[t].pc = "register" /\ Holds(t) /\ Held(t).ptr = thr[t].ptr
          BY <1>5, Zenon DEF Register, At, Holds, Held
      <3> QED BY <3>1, EntriesUnique, Zenon
    <2>4. allocated' \ owned' = allocated \ owned
        BY <2>1, <2>3, SMTT(30)
    <2> QED BY <1>0, <1>1, <2>1, <2>2, <2>3, <2>4
  <1>6. ASSUME NEW t \in Threads, NEW block \in owned, Free(t, block) PROVE EntriesInv'
    <2>1. /\ Moves(t, "erase", block.size, block.ptr) /\ owned' = owned \ {block}
          /\ allocated' = allocated /\ thr[t].pc = "idle"
        BY <1>6, FreeEffect DEF Free, At
    <2>2. [ptr |-> block.ptr, size |-> block.size] = block
      <3>1. block \in [ptr : Pointers, size : Requests]
          BY <1>0, Zenon DEF TypeInv
      <3> QED BY <3>1
    <2>3. /\ thr'[t].pc = "erase" /\ Held(t)' = block
          /\ \A u \in Threads : u # t => thr'[u] = thr[u] /\ Held(u)' = Held(u)
        BY <1>0, <2>1, <2>2, ThreadsMoved, HeldMoved
    <2>4. \A u \in Threads : thr'[u].pc = "erase" => Held(u)' \in allocated'
        BY <1>0, <2>1, <2>3
    <2>5. ASSUME NEW b \in allocated', b \notin owned'
          PROVE  \E u \in Threads : thr'[u].pc = "erase" /\ b = Held(u)'
      <3>1. CASE b = block
          BY <2>3, <3>1
      <3>2. CASE b # block
        <4>1. PICK u \in Threads : thr[u].pc = "erase" /\ b = Held(u)
            BY <1>0, <2>1, <2>5, <3>2
        <4> QED BY <2>1, <2>3, <4>1
      <3> QED BY <3>1, <3>2
    <2> QED BY <1>0, <2>1, <2>4, <2>5, SMTT(30) DEF EntriesInv
  <1>7. ASSUME NEW t \in Threads, EraseEntry(t) PROVE EntriesInv'
    <2>1. /\ owned' = owned /\ thr[t].pc = "erase" /\ Holds(t)
          /\ allocated' = {b \in allocated : b.ptr # thr[t].ptr}
        BY <1>7 DEF EraseEntry, At, Holds
    <2>2. PICK pc \in {"untrack", "release"} : Moves(t, pc, thr[t].n, thr[t].ptr)
        BY <1>7, ActionMoves, Zenon
    <2>3. /\ thr'[t].pc # "erase"
          /\ \A u \in Threads : u # t => thr'[u] = thr[u] /\ Held(u)' = Held(u)
        BY <1>0, <2>2, ThreadsMoved, HeldMoved
    <2>4. \A b \in owned : b.ptr # thr[t].ptr
        BY <2>1, Zenon DEF MemoryInv, OwnerInv
    <2>5. ASSUME NEW u \in Threads, thr'[u].pc = "erase" PROVE Held(u)' \in allocated'
      <3>1. u # t /\ thr[u].pc = "erase" /\ Holds(u) /\ Held(u)' = Held(u) /\ Held(u).ptr = thr[u].ptr
          BY <2>3, <2>5 DEF Holds, Held
      <3>2. thr[u].ptr # thr[t].ptr
          BY <2>1, <3>1, Zenon DEF MemoryInv, OwnerInv
      <3> QED BY <1>0, <2>1, <3>1, <3>2
    <2>6. ASSUME NEW b \in allocated', b \notin owned'
          PROVE  \E u \in Threads : thr'[u].pc = "erase" /\ b = Held(u)'
      <3>1. PICK u \in Threads : thr[u].pc = "erase" /\ b = Held(u)
          BY <1>0, <2>1, <2>6
      <3>2. u # t
          BY <2>1, <2>6, <3>1 DEF Held
      <3> QED BY <2>3, <3>1, <3>2
    <2> QED BY <1>0, <2>1, <2>4, <2>5, <2>6 DEF EntriesInv
  <1>8. ASSUME Terminated PROVE EntriesInv'
      BY <1>0, <1>8, Zenon DEF Terminated, vars, EntriesInv, Held
  <1> QED BY <1>2, <1>3, <1>4, <1>5, <1>6, <1>7, <1>8 DEF Next

\* Every step keeps the invariant.
LEMMA NextMemory ==
    ASSUME MemoryInv, [Next]_vars
    PROVE  MemoryInv'
  <1>1. CASE Next
      BY <1>1, TypePreserved, SpacePreserved, OwnerPreserved, EntriesPreserved DEF MemoryInv
  <1>2. CASE UNCHANGED vars
      BY <1>2, Zenon DEF vars, MemoryInv, TypeInv, SpaceInv, OwnerInv, EntriesInv, Holds,
         Held, Backed
  <1> QED BY <1>1, <1>2, Zenon

\* Requests are not smaller than a page: malloc() rounds them up for the pool,
\* free() releases them with the size of the entry, which is not rounded.
PageRequests == \A n \in Sizes : n >= PageSize

\* With such requests every address stays free or in use.
LEMMA NextCovered ==
    ASSUME PageRequests, MemoryInv, SpaceCovered, [Next]_vars
    PROVE  SpaceCovered'
  <1>0. TypeInv /\ SpaceInv
      BY Zenon DEF MemoryInv
  <1> SUFFICES ASSUME NEW x \in 0..(BlockSize(MaxBits - 1) - 1)
               PROVE  IsFree(free', x) \/ \E b \in claimed' : Within(x, b.ptr, Level(b))
      BY Zenon DEF SpaceCovered
  <1>1. x \in Nat
      BY Levels, BlockSizes
  <1>2. IsFree(free, x) \/ \E b \in claimed : Within(x, b.ptr, Level(b))
      BY Zenon DEF SpaceCovered
  <1>3. ASSUME free' = free, claimed' = claimed
        PROVE  IsFree(free', x) \/ \E b \in claimed' : Within(x, b.ptr, Level(b))
      BY <1>2, <1>3, Zenon
  <1>4. ASSUME NEW t \in Threads, Claim(t)
        PROVE  IsFree(free', x) \/ \E b \in claimed' : Within(x, b.ptr, Level(b))
    <2>1. CASE ClaimsNothing(t)
        BY <1>1, <1>2, <2>1 DEF ClaimsNothing
    <2>2. ASSUME NEW address, ClaimsBlock(t, address)
          PROVE  IsFree(free', x) \/ \E b \in claimed' : Within(x, b.ptr, Level(b))
      <3> PICK size : size = PoolRequest(thr[t].n)
          BY Zenon
      <3> PICK b : b = [ptr |-> address, size |-> size]
          BY Zenon
      <3>1. /\ claimed' = claimed \cup {b}
            /\ \A y \in Nat : IsFree(free, y) => IsFree(free', y) \/ Within(y, address, DesiredLevel(size))
          BY <2>2, Zenon DEF ClaimsBlock
      <3>2. b.ptr = address /\ Level(b) = DesiredLevel(size)
          BY Zenon DEF Level
      <3> QED BY <1>1, <1>2, <3>1, <3>2
    <2> QED BY <1>4, <2>1, <2>2, ClaimCases
  <1>5. ASSUME NEW t \in Threads, Release(t)
        PROVE  IsFree(free', x) \/ \E b \in claimed' : Within(x, b.ptr, Level(b))
    <2>1. thr[t].n >= PageSize
      <3>1. thr[t].n \in Requests
          BY <1>0, <1>5 DEF TypeInv, Release, At
      <3>2. \A n \in Sizes : n # 0 /\ n >= PageSize
          BY MemoryAssumption DEF PageRequests
      <3> QED BY <3>1, <3>2 DEF Requests
    <2>2. ReleasesBlock(t) /\ claimed' = {b \in claimed : b.ptr # thr[t].ptr}
        BY <1>5, ReleaseCases, Zenon DEF Release
    <2>3. CASE IsFree(free, x)
        BY <1>1, <2>2, <2>3, Zenon DEF ReleasesBlock
    <2>4. ASSUME NEW b \in claimed, Within(x, b.ptr, Level(b))
          PROVE  IsFree(free', x) \/ \E c \in claimed' : Within(x, c.ptr, Level(c))
      <3>1. CASE b.ptr = thr[t].ptr
          BY <1>1, <2>1, <2>2, <2>4, <3>1, Zenon DEF ReleasesBlock
      <3>2. CASE b.ptr # thr[t].ptr
          BY <2>2, <2>4, <3>2, SMTT(30)
      <3> QED BY <3>1, <3>2, Zenon
    <2> QED BY <1>2, <2>3, <2>4
  <1>6. ASSUME NEW t \in Threads, InitMemPool(t) PROVE free' = free /\ claimed' = claimed
      BY <1>0, <1>6 DEF InitMemPool, SpaceInv
  <1>7. ASSUME NEW t \in Threads,
               \/ \E n \in Sizes, aligned \in BOOLEAN : Malloc(t, n, aligned)
               \/ Fallback(t) \/ Track(t) \/ Register(t)
               \/ \E block \in owned : Free(t, block)
               \/ EraseEntry(t) \/ UntrackPool(t) \/ Untrack(t) \/ RawFree(t)
        PROVE  free' = free /\ claimed' = claimed
      BY <1>7 DEF Malloc, Fallback, Track, Register, Free, EraseEntry, UntrackPool, Untrack,
         RawFree
  <1>8. ASSUME Terminated \/ UNCHANGED vars PROVE free' = free /\ claimed' = claimed
      BY <1>8, Zenon DEF Terminated, vars
  <1> QED BY <1>3, <1>4, <1>5, <1>6, <1>7, <1>8, Zenon DEF Next

-----------------------------------------------------------------------------
(* Theorems                                                                *)

\* Everything that the results below rest on: free blocks and blocks in use do
\* not overlap, memory has one owner, and the allocation map has its entry.
THEOREM MemoryCorrect == Spec => []MemoryInv
  <1>1. MemoryInv /\ [Next]_vars => MemoryInv'
      BY NextMemory, Zenon
  <1> QED BY <1>1, InitMemory, PTL DEF Spec

\* Blocks are aligned to their size, and pointers come from the pool or from
\* the backend.
THEOREM MemoryTypeCorrect == Spec => []TypeOK
  <1>1. ASSUME MemoryInv PROVE TypeOK
    <2>0. TypeInv /\ SpaceInv
        BY <1>1, Zenon DEF MemoryInv
    <2>1. FreeOK(free, UsedBlocks(claimed))
        BY <2>0, Zenon DEF SpaceInv
    <2>2. ASSUME NEW l \in FreeLevels, NEW a \in free[l]
          PROVE  a \in 0..(BlockSize(MaxBits) - 1) /\ a % BlockSize(l) = 0
      <3>1. Aligned(a, l) /\ a + BlockSize(l) <= BlockSize(MaxBits - 1)
          BY <2>1, Zenon DEF FreeOK
      <3>2. a \in Nat /\ a % BlockSize(l) = 0
          BY <3>1, Zenon DEF Aligned
      <3>3. /\ BlockSize(l) \in Nat \ {0} /\ BlockSize(MaxBits) \in Nat
            /\ BlockSize(MaxBits - 1) \in Nat /\ MaxBits - 1 \in Nat /\ MaxBits \in Nat
          BY Levels, BlockSizes, Zenon
      <3>4. BlockSize(MaxBits - 1) <= BlockSize(MaxBits)
          BY <3>3, BlockSizesGrow
      <3> QED BY <3>1, <3>2, <3>3, <3>4
    <2>3. free \in [FreeLevels -> SUBSET (0..(BlockSize(MaxBits) - 1))]
        BY <2>1, <2>2, Zenon DEF FreeOK
    <2>4. \A t \in Threads : thr[t].ptr \in {-1} \cup Pointers
      <3> TAKE t \in Threads
      <3>1. thr[t] \in ThreadType
          BY <2>0 DEF TypeInv
      <3> QED BY <3>1, Zenon DEF ThreadType
    <2> QED BY <2>0, <2>2, <2>3, <2>4 DEF TypeOK, TypeInv, Pointers
  <1> QED BY <1>1, MemoryCorrect, PTL

\* Memory is handed out once, for any pool, sizes and number of threads: no
\* blocks that are free or in use overlap, and neither does what the program
\* may use.
THEOREM DisjointCorrect == Spec => []BlocksDisjoint
  <1>1. ASSUME MemoryInv PROVE BlocksDisjoint
    <2>0. TypeInv /\ SpaceInv /\ OwnerInv
        BY <1>1, Zenon DEF MemoryInv
    <2>1. FreeOK(free, UsedBlocks(claimed)) /\ UsedOK(claimed)
        BY <2>0, Zenon DEF SpaceInv
    <2>2. \A b \in claimed : /\ b.ptr \in Nat /\ b.size \in Nat /\ Level(b) \in FreeLevels
                             /\ BlockSize(Level(b)) \in Nat \ {0}
      <3> TAKE b \in claimed
      <3>1. b.ptr \in Nat /\ b.size \in Nat
          BY <2>0, Zenon DEF TypeInv
      <3> QED BY <3>1, DesiredLevels, Levels, BlockSizes, Zenon DEF Level
    <2>3. \A l \in FreeLevels : BlockSize(l) \in Nat \ {0} /\ \A a \in free[l] : a \in Nat
        BY <2>1, Levels, BlockSizes DEF FreeOK
    \* A range is that of a free block or of a block in use.
    <2>4. ASSUME NEW r \in FreeRanges PROVE \E l \in FreeLevels : \E a \in free[l] : r = <<a, BlockSize(l)>>
                                                                     BY Zenon DEF FreeRanges
    <2>5. ASSUME NEW r \in ClaimedRanges PROVE \E b \in claimed : r = <<b.ptr, BlockSize(Level(b))>>
        BY Zenon DEF ClaimedRanges, Level
    <2>6. ASSUME NEW l \in FreeLevels, NEW a \in free[l], NEW m \in FreeLevels, NEW d \in free[m],
                 <<a, BlockSize(l)>> # <<d, BlockSize(m)>>
          PROVE  ~ Overlap(<<a, BlockSize(l)>>, <<d, BlockSize(m)>>)
      <3>1. Apart(a, l, d, m)
          BY <2>1, <2>6, SMTT(30) DEF FreeOK
      <3> QED BY <2>3, <3>1 DEF Apart, Overlap
    <2>7. ASSUME NEW l \in FreeLevels, NEW a \in free[l], NEW b \in claimed
          PROVE  /\ ~ Overlap(<<a, BlockSize(l)>>, <<b.ptr, BlockSize(Level(b))>>)
                 /\ ~ Overlap(<<b.ptr, BlockSize(Level(b))>>, <<a, BlockSize(l)>>)
                 /\ a # b.ptr
      <3>1. <<b.ptr, Level(b)>> \in UsedBlocks(claimed)
          BY Zenon DEF UsedBlocks
      <3>2. Apart(a, l, b.ptr, Level(b))
          BY <2>1, <3>1 DEF FreeOK
      <3> QED BY <2>2, <2>3, <3>2 DEF Apart, Overlap
    <2>8. ASSUME NEW b \in claimed, NEW c \in claimed, b # c
          PROVE  ~ Overlap(<<b.ptr, BlockSize(Level(b))>>, <<c.ptr, BlockSize(Level(c))>>)
      <3>1. Apart(b.ptr, Level(b), c.ptr, Level(c))
          BY <2>1, <2>8 DEF UsedOK
      <3> QED BY <2>2, <3>1 DEF Apart, Overlap
    <2>9. ASSUME NEW r \in FreeRanges \cup ClaimedRanges, NEW s \in FreeRanges \cup ClaimedRanges, r # s
          PROVE  ~ Overlap(r, s)
      <3>1. CASE r \in FreeRanges /\ s \in FreeRanges
          BY <2>4, <2>6, <2>9, <3>1, SMTT(30)
      <3>2. CASE r \in FreeRanges /\ s \in ClaimedRanges
          BY <2>4, <2>5, <2>7, <3>2, SMTT(30)
      <3>3. CASE r \in ClaimedRanges /\ s \in FreeRanges
          BY <2>4, <2>5, <2>7, <3>3
      <3>4. CASE r \in ClaimedRanges /\ s \in ClaimedRanges
          BY <2>5, <2>8, <2>9, <3>4, Zenon
      <3> QED BY <3>1, <3>2, <3>3, <3>4
    <2>10. FreeRanges \cap ClaimedRanges = {}
      <3> SUFFICES ASSUME NEW r \in FreeRanges, r \in ClaimedRanges PROVE FALSE
          OBVIOUS
      <3>1. PICK l \in FreeLevels : \E a \in free[l] : r = <<a, BlockSize(l)>>
          BY <2>4
      <3>2. PICK a \in free[l] : r = <<a, BlockSize(l)>>
          BY <3>1
      <3>3. PICK b \in claimed : r = <<b.ptr, BlockSize(Level(b))>>
          BY <2>5, Zenon
      <3>4. a = b.ptr
          BY <3>2, <3>3
      <3> QED BY <2>7, <3>4, Zenon
    <2>11. \A b \in claimed : b.ptr + b.size <= PoolSize
        BY <2>1, <2>2, SpaceAssumption DEF UsedOK, PoolSize
    \* What the program owns lies in its block, or the backend keeps it apart.
    <2>12. ASSUME NEW b \in owned, b.ptr \notin Outside
           PROVE  \E d \in claimed : /\ d.ptr = b.ptr /\ b.size <= BlockSize(Level(d))
                                     /\ b.ptr + b.size <= PoolSize
      <3> PICK d : d = [ptr |-> b.ptr, size |-> PoolRequest(b.size)]
          BY Zenon
      <3>1. d \in claimed /\ b.size < PoolSize \div 2 /\ d.ptr = b.ptr /\ d.size = PoolRequest(b.size)
          BY <2>0, <2>12, Zenon DEF OwnerInv, Backed
      <3>2. b.size \in Nat /\ d.size \in Nat /\ d.size >= b.size
        <4>1. b.size \in Requests
            BY <2>0, Zenon DEF TypeInv
        <4> QED BY <3>1, <4>1, PointerFacts, Zenon
      <3>3. b.ptr + b.size <= PoolSize
          BY <2>2, <2>11, <3>1, <3>2, PointerFacts
      <3>4. b.size <= BlockSize(Level(d))
        <4>1. BlockSize(Level(d)) >= d.size \/ Level(d) = MaxBits - 1
            BY <3>2, DesiredLevels DEF Level
        <4>2. /\ MaxBits - 1 \in Nat /\ BlockSize(MaxBits - 1) \in Nat
              /\ BlockSize((MaxBits - 1) + 1) = 2 * BlockSize(MaxBits - 1)
            BY Levels, BlockSizes, Zenon
        <4>3. (MaxBits - 1) + 1 = MaxBits
            BY Levels
        <4>4. PoolSize <= 2 * BlockSize(MaxBits - 1) /\ PoolSize \in Nat
            BY <4>2, <4>3, MemoryAssumption, SpaceAssumption DEF PoolSize
        <4>5. b.size <= BlockSize(MaxBits - 1)
            BY <3>1, <3>2, <4>2, <4>4
        <4> QED BY <2>2, <3>1, <3>2, <4>1, <4>5
      <3> QED BY <3>1, <3>3, <3>4
    <2>13. \A b \in owned : b.ptr \in Nat /\ b.size \in Requests /\ b.size \in Nat
        BY <2>0, PointerFacts, Zenon DEF TypeInv
    <2>14. \A p \in Outside : p \in Nat /\ p > PoolSize
        BY PointerFacts, Zenon
    <2>15. \A p, q \in Outside : p < q => \A n \in Requests : p + n <= q
      <3> TAKE p, q \in Outside
      <3> HAVE p < q
      <3> TAKE n \in Requests
      <3>1. PICK k \in Sizes : n = IF k = 0 THEN 1 ELSE k
          BY Zenon DEF Requests
      <3>2. p + k <= q /\ p \in Nat /\ q \in Nat /\ k \in Nat
          BY MemoryAssumption, Zenon
      <3> QED BY <3>1, <3>2
    <2>16. ASSUME NEW b \in owned, NEW c \in owned, b # c
           PROVE  ~ Overlap(<<b.ptr, b.size>>, <<c.ptr, c.size>>)
      <3>0. b.ptr # c.ptr
          BY <2>0, <2>16 DEF OwnerInv
      <3>1. CASE b.ptr \in Outside /\ c.ptr \in Outside
        <4>1. b.ptr < c.ptr \/ c.ptr < b.ptr
            BY <2>13, <3>0
        <4>2. b.ptr + b.size <= c.ptr \/ c.ptr + c.size <= b.ptr
            BY <2>13, <2>15, <3>1, <4>1
        <4> QED BY <2>13, <4>2 DEF Overlap
      <3>2. CASE b.ptr \in Outside /\ c.ptr \notin Outside
          BY <2>12, <2>13, <2>14, <3>2, PointerFacts DEF Overlap
      <3>3. CASE b.ptr \notin Outside /\ c.ptr \in Outside
          BY <2>12, <2>13, <2>14, <3>3, PointerFacts DEF Overlap
      <3>4. CASE b.ptr \notin Outside /\ c.ptr \notin Outside
        <4>1. PICK d \in claimed : d.ptr = b.ptr /\ b.size <= BlockSize(Level(d))
            BY <2>12, <3>4, Zenon
        <4>2. PICK e \in claimed : e.ptr = c.ptr /\ c.size <= BlockSize(Level(e))
            BY <2>12, <3>4
        <4>3. Apart(d.ptr, Level(d), e.ptr, Level(e))
            BY <2>1, <3>0, <4>1, <4>2 DEF UsedOK
        <4>4. b.ptr + b.size <= c.ptr \/ c.ptr + c.size <= b.ptr
            BY <2>2, <2>13, <4>1, <4>2, <4>3 DEF Apart
        <4> QED BY <2>13, <4>4 DEF Overlap
      <3> QED BY <3>1, <3>2, <3>3, <3>4, SMTT(30)
    <2> QED BY <2>9, <2>10, <2>11, <2>16 DEF BlocksDisjoint
  <1> QED BY <1>1, MemoryCorrect, PTL

\* Released blocks are merged with their other halves, whatever the order.
THEOREM MergingCorrect == Spec => []BuddiesMerged
  <1>1. ASSUME MemoryInv PROVE BuddiesMerged
    <2> SUFFICES ASSUME NEW l \in FreeLevels, NEW a \in free[l],
                        a % BlockSize(l + 1) = 0, a + BlockSize(l) \in free[l]
                 PROVE  a + BlockSize(l) >= MaxSpace
        BY Zenon DEF BuddiesMerged
    <2>1. a \in Nat /\ BlockSize(l) \in Nat /\ MaxSpace \in Nat
        BY <1>1, Levels, BlockSizes, SpaceAssumption DEF MemoryInv, SpaceInv, FreeOK
    <2>2. ~ Unmerged(free, a, l)
        BY <1>1, Zenon DEF MemoryInv, SpaceInv
    <2> QED BY <2>1, <2>2 DEF Unmerged, Aligned
  <1> QED BY <1>1, MemoryCorrect, PTL

\* free() finds the entry of every pointer that the program owns.
THEOREM RegisteredCorrect == Spec => []OwnedIsRegistered
  <1>1. MemoryInv => OwnedIsRegistered
      BY Zenon DEF MemoryInv, EntriesInv, OwnedIsRegistered
  <1> QED BY <1>1, MemoryCorrect, PTL

\* No address of the pool is lost, for requests of at least a page.
THEOREM SpaceCorrect == ASSUME PageRequests PROVE Spec => []NoSpaceLost
  <1>1. ASSUME Init PROVE SpaceCovered
    <2> SUFFICES ASSUME NEW x \in 0..(BlockSize(MaxBits - 1) - 1) PROVE IsFree(free, x)
        BY Zenon DEF SpaceCovered
    <2>1. 0 \in free[MaxBits - 1] /\ MaxBits - 1 \in FreeLevels
        BY <1>1, Levels, Zenon DEF Init, AllFree
    <2>2. Within(x, 0, MaxBits - 1)
        BY Levels, BlockSizes DEF Within
    <2> QED BY <2>1, <2>2, Zenon DEF IsFree
  <1>2. MemoryInv /\ SpaceCovered /\ [Next]_vars => SpaceCovered'
      BY NextCovered, Zenon
  <1>3. ASSUME MemoryInv, SpaceCovered PROVE NoSpaceLost
    <2> SUFFICES ASSUME NEW x \in 0..(BlockSize(MaxBits - 1) - 1)
                 PROVE  \E r \in FreeRanges \cup ClaimedRanges : Overlap(<<x, 1>>, r)
        BY Zenon DEF NoSpaceLost
    <2>1. x \in Nat
        BY Levels, BlockSizes
    <2>2. ASSUME NEW l \in FreeLevels, NEW a \in free[l], Within(x, a, l)
          PROVE  \E r \in FreeRanges \cup ClaimedRanges : Overlap(<<x, 1>>, r)
      <3>1. a \in Nat /\ BlockSize(l) \in Nat
          BY <1>3, Levels, BlockSizes, Zenon DEF MemoryInv, SpaceInv, FreeOK
      <3>2. <<a, BlockSize(l)>> \in FreeRanges
          BY DEF FreeRanges
      <3>3. Overlap(<<x, 1>>, <<a, BlockSize(l)>>)
          BY <2>1, <2>2, <3>1 DEF Overlap, Within
      <3> QED BY <3>2, <3>3, Zenon
    <2>3. ASSUME NEW b \in claimed, Within(x, b.ptr, Level(b))
          PROVE  \E r \in FreeRanges \cup ClaimedRanges : Overlap(<<x, 1>>, r)
      <3>1. b.ptr \in Nat /\ b.size \in Nat
          BY <1>3, Zenon DEF MemoryInv, TypeInv
      <3>2. BlockSize(Level(b)) \in Nat
          BY <3>1, DesiredLevels, Levels, BlockSizes, Zenon DEF Level
      <3>3. <<b.ptr, BlockSize(Level(b))>> \in ClaimedRanges
          BY Zenon DEF ClaimedRanges, Level
      <3>4. Overlap(<<x, 1>>, <<b.ptr, BlockSize(Level(b))>>)
          BY <2>1, <2>3, <3>1, <3>2 DEF Overlap, Within
      <3> QED BY <3>3, <3>4, Zenon
    <2> QED BY <1>3, <2>2, <2>3, Zenon DEF SpaceCovered, IsFree
  <1>4. Spec => []SpaceCovered
      BY <1>1, <1>2, MemoryCorrect, PTL DEF Spec
  <1> QED BY <1>3, <1>4, MemoryCorrect, PTL
=============================================================================
