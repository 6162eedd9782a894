---------------------- MODULE AllocationMapStepProofs -----------------------
(***************************************************************************)
(* The steps of AllocationMap, for trees of any number of levels and       *)
(* children, any disjoint allocations and any number of operations at a    *)
(* time: the arithmetic of addresses and nodes, the inductive invariant,   *)
(* what each step does to its thread, and how the steps of calls, lookups  *)
(* and insertions keep the invariant.  AllocationMapProofs completes the   *)
(* induction.  Two facts that need induction over levels are hypotheses    *)
(* here, Spanning and Paths, and are proved there.                         *)
(***************************************************************************)
EXTENDS AllocationMap, TLAPS

-----------------------------------------------------------------------------
(* Addresses                                                               *)

\* The part of an address from level l upwards.
Pre(l, x) == x \div Span[l]

\* A level spans Base times the addresses of the level below.
Spanning ==
    /\ Base \in Nat /\ Base >= 2 /\ Span[0] = 1
    /\ \A l \in Nat : Span[l] \in Nat \ {0} /\ Span[l + 1] = Base * Span[l]

\* Products of natural numbers, as in the prefixes of addresses.
LEMMA Multiplying ==
    /\ \A a, b \in Nat : a * b \in Nat
    /\ \A a, b, c \in Nat : a <= b => a * c <= b * c
    /\ \A a, b, c \in Nat : a * b * c = a * (b * c)
    /\ \A a, b \in Nat : (a + 1) * b = a * b + b
    /\ \A a, b \in Nat \ {0} : a * b # 0
  OBVIOUS

\* Division with remainder, which takes addresses apart.
LEMMA Dividing ==
    ASSUME NEW a \in Nat, NEW b \in Nat \ {0}
    PROVE  /\ a \div b \in Nat /\ a % b \in 0..(b - 1)
           /\ a = b * (a \div b) + (a % b)
  <1>1. a % b \in 0..(b - 1)
      OBVIOUS
  <1>2. a = b * (a \div b) + (a % b)
      BY SMTT(60)
  <1>3. PICK q : q = a \div b /\ q \in Int
      OBVIOUS
  <1>4. a < b * q + b
      BY <1>1, <1>2, <1>3
  <1>5. ASSUME q <= -1 PROVE b * q <= -b
      BY <1>3, <1>5
  <1>6. q \in Nat
      BY <1>3, <1>4, <1>5
  <1>7. a \div b \in Nat
      BY ONLY <1>3, <1>6, Zenon
  <1> QED BY ONLY <1>1, <1>2, <1>7, Zenon

\* The spans of the levels.
LEMMA Spans ==
    ASSUME Spanning
    PROVE  /\ Base \in Nat /\ Base >= 2 /\ Span[0] = 1
           /\ \A l \in Nat : Span[l] \in Nat \ {0} /\ Span[l + 1] = Base * Span[l]
  BY Zenon DEF Spanning

\* Multiples of s are at least s apart.
LEMMA Gap ==
    ASSUME NEW s \in Nat, NEW a \in Nat, NEW b \in Nat, a < b
    PROVE  s * a \in Nat /\ s * b \in Nat /\ s * a + s <= s * b
  <1>1. PICK d \in Nat : b = a + 1 + d
      OBVIOUS
  <1> QED OBVIOUS

\* The part of an address from level l is a number, and the address lies in
\* the range that it stands for.
LEMMA PreFacts ==
    ASSUME Spanning, NEW l \in Nat, NEW x \in Nat
    PROVE  Pre(l, x) \in Nat /\ Span[l] * Pre(l, x) <= x /\ x < Span[l] * Pre(l, x) + Span[l]
  <1>1. PICK s \in Nat \ {0} : s = Span[l]
      BY Spans, Zenon
  <1>3. PICK q \in Nat, r \in 0..(s - 1) : q = x \div s /\ r = x % s
      OBVIOUS
  <1>4. PICK m \in Nat : m = s * q
      OBVIOUS
  <1> QED BY <1>1 DEF Pre

\* The quotient is the only number whose range has the address.
LEMMA PreUnique ==
    ASSUME Spanning,
           NEW l \in Nat, NEW x \in Nat, NEW q \in Nat, Span[l] * q <= x, x < Span[l] * q + Span[l]
    PROVE  Pre(l, x) = q
  <1>1. PICK s \in Nat \ {0}, p \in Nat : s = Span[l] /\ p = Pre(l, x)
      BY Spans, PreFacts, Zenon
  <1>2. s * p <= x /\ x < s * p + s /\ s * q <= x /\ x < s * q + s
      BY <1>1, PreFacts, Zenon
  <1>4. PICK m \in Nat, n \in Nat : m = s * p /\ n = s * q
      OBVIOUS
  <1>5. ~ (p < q) /\ ~ (q < p)
      BY <1>2
  <1> QED BY <1>1, <1>5

\* Level by level: an index of a node and the part above it.
LEMMA PreStep ==
    ASSUME Spanning, NEW l \in Nat, NEW x \in Nat
    PROVE  /\ Pre(l + 1, x) = Pre(l, x) \div Base
           /\ Pre(l, x) % Base \in 0..(Base - 1)
           /\ Pre(l, x) = Pre(l + 1, x) * Base + (Pre(l, x) % Base)
           /\ IndexAt(l, x) = Pre(l, x) % Base
  <1>1. PICK s \in Nat \ {0}, p \in Nat, b \in Nat \ {0} : s = Span[l] /\ p = Pre(l, x) /\ b = Base
    <2>1. Span[l] \in Nat \ {0} /\ Pre(l, x) \in Nat
        BY Spans, PreFacts, Zenon
    <2>2. Base \in Nat \ {0}
        BY Spans
    <2> QED BY <2>1, <2>2, Zenon
  <1>2. Span[l + 1] = b * s /\ s * p <= x /\ x < s * p + s
      BY <1>1, Spans, PreFacts, Zenon
  <1>3. p \div b \in Nat /\ p % b \in 0..(b - 1) /\ p = b * (p \div b) + (p % b)
      OBVIOUS
  <1>4. PICK q \in Nat, r \in 0..(b - 1) : q = p \div b /\ r = p % b
      OBVIOUS
  <1>6. /\ s * p = (b * s) * q + s * r
        /\ s * r + s <= b * s
    <2>1. s * p = s * (b * q) + s * r
      <3>1. PICK m \in Nat : m = b * q
          OBVIOUS
      <3>2. p = m + r /\ r \in Nat
          BY <1>4, <3>1
      <3>3. s * p = s * m + s * r
          BY ONLY s \in Nat, m \in Nat, r \in Nat, <3>2
      <3> QED BY <3>1, <3>3, Zenon
    <2> QED BY <2>1
  <1>8. (b * s) * q <= x /\ x < (b * s) * q + b * s
      BY <1>2, <1>6
  <1>9. Pre(l + 1, x) = q
      BY <1>2, <1>8, PreUnique
  <1> QED BY <1>1, <1>3, <1>4, <1>9 DEF IndexAt, Pre

\* Larger addresses have larger parts.
LEMMA PreMonotone ==
    ASSUME Spanning, NEW l \in Nat, NEW x \in Nat, NEW y \in Nat, x <= y
    PROVE  Pre(l, x) <= Pre(l, y)
  <1>1. PICK s \in Nat \ {0}, p \in Nat, q \in Nat : s = Span[l] /\ p = Pre(l, x) /\ q = Pre(l, y)
      BY Spans, PreFacts, Zenon
  <1>2. s * p <= x /\ y < s * q + s
      BY <1>1, PreFacts, Zenon
  <1>4. PICK m \in Nat, n \in Nat : m = s * p /\ n = s * q
      OBVIOUS
  <1>5. ~ (q < p)
      BY <1>2
  <1> QED BY <1>1, <1>5

\* Nothing is left of an address above the root.
LEMMA PreTop ==
    ASSUME Spanning, NEW x \in Addresses
    PROVE  x \in Nat /\ Pre(Levels, x) = 0 /\ Pre(0, x) = x
  <1>1. Levels \in Nat /\ Span[Levels] \in Nat \ {0} /\ Span[0] = 1
      BY Spans, MapAssumption, Zenon
  <1>2. x \in Nat /\ x < Span[Levels]
      BY <1>1 DEF Addresses
  <1> QED BY <1>1, <1>2, PreUnique

\* What lies in front of a node, level by level.
LEMMA PreBelow ==
    ASSUME Spanning, NEW l \in Nat, NEW y \in Nat, NEW p \in Nat
    PROVE  Pre(l + 1, y) < p <=> Pre(l, y) < p * Base
  <1>1. PICK b \in Nat \ {0} : b = Base
      BY Spans
  <1>2. PICK u \in Nat, q \in Nat, r \in 0..(b - 1) : u = Pre(l, y) /\ q = Pre(l + 1, y) /\ r = u % b
    <2>1. Pre(l, y) \in Nat /\ Pre(l + 1, y) \in Nat
      <3>1. l + 1 \in Nat
          OBVIOUS
      <3> QED BY <3>1, PreFacts, Zenon
    <2> QED BY <2>1
  <1>3. u = q * b + r
      BY <1>1, <1>2, PreStep, Zenon
  <1> PICK m \in Nat, n \in Nat : m = b * q /\ n = b * p
      OBVIOUS
  <1>4. (q < p => m + b <= n) /\ (p < q => n + b <= m) /\ (p = q => m = n)
      OBVIOUS
  <1>5. u = m + r
      BY <1>3
  <1>6. q < p <=> u < n
      BY ONLY <1>4, <1>5, q \in Nat, p \in Nat, m \in Nat, n \in Nat, r \in 0..(b - 1),
         b \in Nat \ {0}
  <1>7. n = p * Base
      BY <1>1
  <1> QED BY <1>2, <1>6, <1>7, Zenon

\* Where a search begins in a node: at its last index, or at that of the
\* address, but never above the address.
LEMMA StartIndexFacts ==
    ASSUME Spanning, NEW l \in Nat, NEW prefix \in Nat, NEW x \in Nat, prefix <= Pre(l + 1, x)
    PROVE  /\ StartIndex(l, prefix, x) \in 0..(Base - 1)
           /\ prefix * Base + StartIndex(l, prefix, x) <= Pre(l, x)
           /\ \/ StartIndex(l, prefix, x) = Base - 1
              \/ prefix * Base + StartIndex(l, prefix, x) = Pre(l, x)
  <1>1. PICK s \in Nat \ {0}, b \in Nat \ {0}, p \in Nat, q \in Nat :
            s = Span[l] /\ b = Base /\ p = Pre(l, x) /\ q = Pre(l + 1, x)
    <2>1. Span[l] \in Nat \ {0} /\ Pre(l, x) \in Nat /\ Pre(l + 1, x) \in Nat
      <3>1. l + 1 \in Nat
          OBVIOUS
      <3> QED BY <3>1, Spans, PreFacts, Zenon
    <2>2. Base \in Nat \ {0}
        BY Spans
    <2> QED BY <2>1, <2>2, Zenon
  <1>2. Span[l + 1] = b * s /\ x < s * p + s /\ (b * s) * q <= x
    <2>1. Span[l + 1] = b * s
        BY <1>1, Spans, Zenon
    <2>2. Span[l] * Pre(l, x) <= x /\ x < Span[l] * Pre(l, x) + Span[l]
        BY PreFacts, Zenon
    <2>3. Span[l + 1] * Pre(l + 1, x) <= x
      <3>1. l + 1 \in Nat
          OBVIOUS
      <3> QED BY <3>1, PreFacts, Zenon
    <2> QED BY <1>1, <2>1, <2>2, <2>3, Zenon
  <1>3. PICK c \in Nat : c = (prefix + 1) * b
      OBVIOUS
  <1>5. (prefix + 1) * (b * s) = s * c
      BY <1>3
  <1>6. CASE (prefix + 1) * Span[l + 1] - 1 <= x
    <2>1. StartIndex(l, prefix, x) = b - 1
        BY <1>1, <1>6, Zenon DEF StartIndex
    <2>2. s * c - 1 <= x
        BY <1>2, <1>5, <1>6, Zenon
    <2>4. PICK m \in Nat, n \in Nat : m = s * c /\ n = s * p
        OBVIOUS
    <2>6. ~ (p + 1 < c)
        BY <1>2, <2>2
    <2>7. PICK k \in Nat : k = prefix * b
        OBVIOUS
    <2>8. k + (b - 1) <= p /\ b - 1 \in 0..(b - 1)
        BY <1>3, <2>6, <2>7
    <2> QED BY <1>1, <2>1, <2>7, <2>8, Zenon
  <1>7. CASE ~ ((prefix + 1) * Span[l + 1] - 1 <= x)
    <2>1. StartIndex(l, prefix, x) = IndexAt(l, x)
        BY <1>7, Zenon DEF StartIndex
    <2>2. PICK d \in Nat : d = b * s
        OBVIOUS
    <2>4. PICK m \in Nat, n \in Nat : m = d * (prefix + 1) /\ n = d * q
        BY <2>2
    <2>5. ~ (m - 1 <= x) /\ n <= x
        BY <1>2, <1>7, <2>2, <2>4
    <2>6. q = prefix
        BY <1>1, <2>4, <2>5
    <2>7. p = q * b + (p % b) /\ p % b \in 0..(b - 1) /\ IndexAt(l, x) = p % b
        BY <1>1, PreStep, Zenon
    <2> QED BY <1>1, <2>1, <2>6, <2>7
  <1> QED BY <1>6, <1>7, Zenon

-----------------------------------------------------------------------------
(* The inductive invariant                                                 *)

ThreadType ==
    [op : {"none", "insert", "erase", "get", "getRoot"},
     pc : {"idle", "enter", "descend", "exchange", "payload", "leave"},
     x : Addresses, b : Blocks \cup {NoBlock}, level : 0..Root, prefix : Nat,
     i : -1..(Base - 1), attempts : 0..1, stable : SUBSET Blocks,
     result : Addresses \cup {-1}]

TypeInv ==
    /\ present \subseteq AllNodes
    /\ count \in [AllNodes -> Int]
    /\ size \in [Addresses -> {0} \cup {b.size : b \in Blocks}]
    /\ payload \in [Addresses -> Blocks \cup {NoBlock}]
    /\ state \in [Blocks -> {"free", "inserting", "live", "erasing"}]
    /\ ops \in 0..MaxOps
    /\ thr \in [Threads -> ThreadType]
    /\ \A t \in Threads : t > ops => thr[t] = Idle

\* erase() is alone.
Erasing == \E t \in Inside : thr[t].op = "erase"

LockInv ==
    /\ inProgress = IF Erasing THEN -1 ELSE Cardinality(Inside)
    /\ \A t, u \in Inside : thr[t].op = "erase" => u = t

\* What an operation has been called with.
OpOf(t) ==
    /\ thr[t].op = "none" <=> thr[t].pc = "idle"
    /\ thr[t].pc = "idle" => thr[t] = Idle
    /\ thr[t].pc \in {"exchange", "payload"} => thr[t].op = "insert" /\ thr[t].b # NoBlock
    /\ thr[t].pc = "exchange" => thr[t].level > 0
    /\ thr[t].pc = "payload" => thr[t].level = 0
    /\ thr[t].op \in {"get", "getRoot"} => thr[t].b = NoBlock
    /\ thr[t].pc = "enter" => thr[t].level = Root /\ thr[t].prefix = 0 /\ thr[t].attempts = 0
    /\ thr[t].op = "insert" /\ thr[t].b # NoBlock =>
           thr[t].b.addr = thr[t].x /\ state[thr[t].b] = "inserting"
    /\ thr[t].op = "insert" /\ thr[t].b = NoBlock => \E c \in Live : c.addr = thr[t].x
    /\ thr[t].op = "insert" /\ thr[t].pc = "leave" => (thr[t].result >= 0 <=> thr[t].b # NoBlock)
    /\ thr[t].op = "erase" /\ thr[t].b # NoBlock =>
           thr[t].b.addr = thr[t].x /\ state[thr[t].b] = "erasing"
    /\ thr[t].op = "erase" /\ thr[t].b = NoBlock => thr[t].x \in Foreign

OpInv == \A t \in Threads : OpOf(t)

\* A block is inserted or erased by one operation at a time.
BlockInv ==
    /\ \A t, u \in Threads : thr[t].b = thr[u].b /\ thr[t].b # NoBlock => t = u
    /\ \A b \in Blocks : state[b] = "erasing" => \E t \in Threads : thr[t].b = b

\* The operations whose blocks have an entry, and the blocks with an entry.
HasEntry(t) ==
    \/ thr[t].op = "erase" /\ thr[t].pc \in {"enter", "descend"}
    \/ thr[t].op = "insert" /\ thr[t].pc \in {"payload", "leave"}

Stored == {b \in Blocks : state[b] = "live" \/ \E t \in Threads : thr[t].b = b /\ HasEntry(t)}

\* The entries with a size and no payload yet.
Writing(x) == \E t \in Threads : thr[t].pc = "payload" /\ thr[t].x = x

\* Entries and the blocks that they stand for.
EntryInv ==
    /\ \A b \in Stored : size[b.addr] = b.size /\ NodeAt(0, b.addr) \in present
    /\ \A b \in Stored : ~ Writing(b.addr) => payload[b.addr] = b
    /\ \A x \in Addresses : size[x] # 0 => \E b \in Stored : b.addr = x

\* insert() on its way down, and the blocks that have come to level l.
Descending(t) == thr[t].op = "insert" /\ thr[t].pc \in {"descend", "exchange"}

Arrived(l) ==
    {b \in Blocks : \E t \in Threads : Descending(t) /\ thr[t].b = b /\ thr[t].level <= l}

ParentOf(n) == <<n[1] + 1, n[2] \div Base>>

\* The tree has the paths to its nodes, and no node without a reason.
TreeInv ==
    /\ NodeAt(Root, 0) \in present
    /\ \A n \in present : n[1] < Root => ParentOf(n) \in present
    /\ \A n \in present : n[1] < Root =>
           \E b \in Stored \cup Arrived(n[1]) : NodeAt(n[1], b.addr) = n
    /\ \A t \in Threads : Descending(t) => NodeAt(thr[t].level, thr[t].x) \in present

\* The entries of a leaf and the children of another node.
Members(n) ==
    IF n[1] = 0 THEN {x \in Addresses : NodeAt(0, x) = n /\ size[x] # 0 /\ ~ Writing(x)}
    ELSE {m \in present : m[1] = n[1] - 1 /\ ParentOf(m) = n}

CountInv == \A n \in AllNodes : count[n] = Cardinality(Members(n))

\* What a lookup has to find is in the map.
WantedOf(t) ==
    thr[t].op \in {"get", "getRoot"} => \A b \in thr[t].stable :
        b \in Live /\ (IF thr[t].op = "get" THEN Covers(b, thr[t].x) ELSE b.addr = thr[t].x)

WantedInv == \A t \in Threads : WantedOf(t)

\* The node below or the address that get_entry looks at next.  Nothing that
\* it has to find lies above; and after a first leaf it is in front of the
\* leaf of the address.
Looking(t) == thr[t].prefix * Base + thr[t].i

SearchOf(t) ==
    /\ <<thr[t].level, thr[t].prefix>> \in present
    /\ thr[t].prefix <= Pre(thr[t].level + 1, thr[t].x)
    /\ Looking(t) <= Pre(thr[t].level, thr[t].x)
    /\ \A b \in thr[t].stable : Pre(thr[t].level, b.addr) <= Looking(t)
    /\ thr[t].attempts = 1 /\ thr[t].level = 0 => thr[t].prefix < Pre(1, thr[t].x)
    /\ thr[t].attempts = 1 /\ thr[t].level > 0 =>
           \A y \in Addresses : Pre(thr[t].level, y) <= Looking(t) => Pre(1, y) < Pre(1, thr[t].x)

SearchInv == \A t \in Threads : At(t, "get", "descend") => SearchOf(t)

\* What a lookup has found.
ResultOf(t) ==
    thr[t].op \in {"get", "getRoot"} /\ thr[t].pc = "leave" =>
        /\ \A b \in thr[t].stable : thr[t].result = b.addr
        /\ thr[t].result >= 0 =>
               \E b \in Stored : b.addr = thr[t].result /\ Covers(b, thr[t].x)

ResultInv == \A t \in Threads : ResultOf(t)

Inv == /\ TypeInv /\ LockInv /\ OpInv /\ BlockInv /\ EntryInv /\ TreeInv /\ CountInv
       /\ WantedInv /\ SearchInv /\ ResultInv

-----------------------------------------------------------------------------
(* Nodes and blocks                                                        *)

\* The constants.
LEMMA Sizes ==
    ASSUME Spanning
    PROVE  /\ Base \in Nat /\ Base >= 2 /\ Levels \in Nat /\ Root \in Nat /\ Root >= 1 /\ Root + 1 = Levels
           /\ Addresses \subseteq Nat /\ 0 \in Addresses /\ MaxOps \in Nat
           /\ \A y \in Addresses, x \in Nat : x <= y => x \in Addresses
  <1>1. Levels \in Nat /\ Levels >= 2 /\ Base \in Nat /\ Base >= 2 /\ MaxOps \in Nat
      BY MapAssumption
  <1>2. Span[Levels] \in Nat \ {0}
      BY <1>1, Spans, Zenon
  <1> QED BY <1>1, <1>2 DEF Root, Addresses

\* Blocks have addresses and sizes of their own.
LEMMA BlockFacts ==
    ASSUME Spanning
    PROVE  /\ NoBlock \notin Blocks
           /\ \A b \in Blocks : b.addr \in Addresses /\ b.addr \in Nat /\ b.size \in Nat /\ b.size # 0
           /\ \A b \in Blocks : b.addr \notin Foreign
  <1>1. \A b \in Blocks : b.addr \in Addresses /\ b.addr \in Nat /\ b.size \in Nat /\ b.size # 0
      BY MapAssumption, Sizes, Zenon
  <1>2. NoBlock.addr = -1
      BY Zenon DEF NoBlock
  <1>3. NoBlock \notin Blocks
      BY <1>1, <1>2
  <1> QED BY <1>1, <1>3, MapAssumption, Zenon

\* No block begins inside another.
LEMMA Disjoint ==
    ASSUME Spanning,
           NEW b \in Blocks, NEW c \in Blocks, b.addr <= c.addr, c.addr < b.addr + b.size
    PROVE  b = c
  <1>1. c.addr \in Addresses /\ Covers(b, c.addr)
      BY BlockFacts, Zenon DEF Covers
  <1>2. Covers(c, c.addr)
      BY BlockFacts DEF Covers
  <1> QED BY <1>1, <1>2, MapAssumption, Zenon

\* Blocks with the same address are the same.
LEMMA SameAddress ==
    ASSUME Spanning, NEW b \in Blocks, NEW c \in Blocks, b.addr = c.addr
    PROVE  b = c
  <1>1. b.addr \in Nat /\ b.size \in Nat /\ b.size # 0
      BY BlockFacts, Zenon
  <1>2. b.addr <= c.addr /\ c.addr < b.addr + b.size
      BY <1>1
  <1> QED BY <1>2, Disjoint, Zenon

\* The node of an address, and its parent.
LEMMA NodeFacts ==
    ASSUME Spanning, NEW l \in 0..Root, NEW x \in Addresses
    PROVE  /\ NodeAt(l, x) = <<l, Pre(l + 1, x)>>
           /\ NodeAt(l, x)[1] = l /\ NodeAt(l, x)[2] = Pre(l + 1, x) /\ Pre(l + 1, x) \in Nat
           /\ NodeAt(l, x) \in AllNodes
           /\ ParentOf(NodeAt(l, x)) = NodeAt(l + 1, x)
  <1>1. l \in Nat /\ x \in Nat /\ l + 1 \in Nat /\ (l + 1) + 1 = l + 2
      BY Sizes
  <1>2. NodeAt(l, x) = <<l, Pre(l + 1, x)>>
      BY Zenon DEF NodeAt, PrefixAt, Pre
  <1>3. Pre(l + 1, x) \in Nat
      BY <1>1, PreFacts, Zenon
  <1>4. NodeAt(l, x) \in AllNodes
      BY DEF AllNodes
  <1>5. Pre((l + 1) + 1, x) = Pre(l + 1, x) \div Base
      BY <1>1, PreStep, Zenon
  <1>6. NodeAt(l + 1, x) = <<l + 1, Pre((l + 1) + 1, x)>>
      BY Zenon DEF NodeAt, PrefixAt, Pre
  <1>7. ParentOf(NodeAt(l, x)) = NodeAt(l + 1, x)
      BY <1>2, <1>5, <1>6 DEF ParentOf
  <1> QED BY <1>2, <1>3, <1>4, <1>7

\* Every node is the node of an address.
LEMMA NodeCases ==
    ASSUME Spanning, NEW n \in AllNodes
    PROVE  /\ n[1] \in 0..Root /\ n[2] \in Nat /\ n = <<n[1], n[2]>>
           /\ \E x \in Addresses : n = NodeAt(n[1], x)
           /\ n[1] < Root => ParentOf(n) \in AllNodes
  <1>1. PICK l \in 0..Root, x \in Addresses : n = NodeAt(l, x)
      BY DEF AllNodes
  <1> n = <<l, Pre(l + 1, x)>> /\ Pre(l + 1, x) \in Nat /\ ParentOf(n) = NodeAt(l + 1, x)
      BY <1>1, NodeFacts, Zenon
  <1>2. l < Root => NodeAt(l + 1, x) \in AllNodes
      BY Sizes, NodeFacts
  <1>3. n[1] = l /\ n[2] = Pre(l + 1, x)
      BY Zenon
  <1>4. n = <<n[1], n[2]>> /\ n = NodeAt(n[1], x)
      BY <1>1, <1>3, Zenon
  <1> QED BY <1>2, <1>4, Zenon

\* The root is above every address.
LEMMA RootNode ==
    ASSUME Spanning, NEW x \in Addresses
    PROVE  NodeAt(Root, x) = NodeAt(Root, 0)
  <1> Root \in 0..Root /\ Root + 1 = Levels /\ 0 \in Addresses
      BY Sizes
  <1>1. NodeAt(Root, x) = <<Root, Pre(Root + 1, x)>> /\ NodeAt(Root, 0) = <<Root, Pre(Root + 1, 0)>>
      BY NodeFacts, Zenon
  <1>2. Pre(Levels, x) = 0 /\ Pre(Levels, 0) = 0
      BY PreTop, Zenon
  <1> QED BY <1>1, <1>2, Zenon

-----------------------------------------------------------------------------
(* What the steps of an operation do to its thread                         *)

Pcs == {"idle", "enter", "descend", "exchange", "payload", "leave"}

Moved(t, pc, level, prefix, i, attempts, result) ==
    /\ thr' \in [Threads -> ThreadType]
    /\ \A u \in Threads \ {t} : thr'[u] = thr[u]
    /\ thr'[t].op = thr[t].op /\ thr'[t].x = thr[t].x /\ thr'[t].b = thr[t].b
    /\ thr'[t].stable = thr[t].stable
    /\ thr'[t].pc = pc /\ thr'[t].level = level /\ thr'[t].prefix = prefix /\ thr'[t].i = i
    /\ thr'[t].attempts = attempts /\ thr'[t].result = result

\* The fields of a thread have their types.
LEMMA ThreadFacts ==
    ASSUME Spanning, TypeInv, NEW t \in Threads
    PROVE  /\ thr[t] \in ThreadType
           /\ thr[t].op \in {"none", "insert", "erase", "get", "getRoot"} /\ thr[t].pc \in Pcs
           /\ thr[t].x \in Addresses /\ thr[t].x \in Nat /\ thr[t].b \in Blocks \cup {NoBlock}
           /\ thr[t].level \in 0..Root /\ thr[t].prefix \in Nat /\ thr[t].i \in -1..(Base - 1)
           /\ thr[t].attempts \in 0..1 /\ thr[t].stable \subseteq Blocks
           /\ thr[t].result \in Addresses \cup {-1}
  BY Sizes, Zenon DEF TypeInv, ThreadType, Pcs

\* A thread with some fields replaced.
LEMMA MovedFacts ==
    ASSUME TypeInv, NEW t \in Threads, NEW pc \in Pcs, NEW level \in 0..Root, NEW prefix \in Nat,
           NEW i \in -1..(Base - 1), NEW attempts \in 0..1, NEW result \in Addresses \cup {-1},
           thr' = [thr EXCEPT ![t] = [thr[t] EXCEPT !.pc = pc, !.level = level, !.prefix = prefix,
                                                    !.i = i, !.attempts = attempts,
                                                    !.result = result]]
    PROVE  Moved(t, pc, level, prefix, i, attempts, result)
  <1> DEFINE r == [thr[t] EXCEPT !.pc = pc, !.level = level, !.prefix = prefix, !.i = i,
                                 !.attempts = attempts, !.result = result]
  <1>1. thr \in [Threads -> ThreadType] /\ thr[t] \in ThreadType
      BY Zenon DEF TypeInv
  <1>2. /\ r \in ThreadType
        /\ r.op = thr[t].op /\ r.x = thr[t].x /\ r.b = thr[t].b /\ r.stable = thr[t].stable
        /\ r.pc = pc /\ r.level = level /\ r.prefix = prefix /\ r.i = i
        /\ r.attempts = attempts /\ r.result = result
      BY <1>1, Zenon DEF ThreadType, Pcs
  <1> HIDE DEF r
  <1>3. thr' = [thr EXCEPT ![t] = r]
      BY Zenon DEF r
  <1>4. thr'[t] = r /\ (\A u \in Threads \ {t} : thr'[u] = thr[u]) /\ thr' \in [Threads -> ThreadType]
      BY <1>1, <1>2, <1>3
  <1> QED BY <1>4 DEF Moved

\* The program counter only.
LEMMA GotoFacts ==
    ASSUME Spanning, TypeInv, NEW t \in Threads, NEW pc \in Pcs, Goto(t, pc)
    PROVE  Moved(t, pc, thr[t].level, thr[t].prefix, thr[t].i, thr[t].attempts, thr[t].result)
  <1> DEFINE r == [thr[t] EXCEPT !.pc = pc, !.level = thr[t].level, !.prefix = thr[t].prefix,
                                 !.i = thr[t].i, !.attempts = thr[t].attempts,
                                 !.result = thr[t].result]
  <1>3. thr' = [thr EXCEPT ![t] = r]
      BY Zenon DEF Goto
  <1> QED BY <1>3, ThreadFacts, MovedFacts, Zenon

\* The operation is about to return.
LEMMA ReturnFacts ==
    ASSUME Spanning,
           TypeInv, NEW t \in Threads, NEW result \in Addresses \cup {-1}, Return(t, result)
    PROVE  Moved(t, "leave", thr[t].level, thr[t].prefix, thr[t].i, thr[t].attempts, result)
  <1> DEFINE r == [thr[t] EXCEPT !.pc = "leave", !.level = thr[t].level, !.prefix = thr[t].prefix,
                                 !.i = thr[t].i, !.attempts = thr[t].attempts, !.result = result]
  <1>3. thr' = [thr EXCEPT ![t] = r]
      BY Zenon DEF Return
  <1>4. "leave" \in Pcs
      BY Zenon DEF Pcs
  <1> QED BY <1>3, <1>4, ThreadFacts, MovedFacts, Zenon

\* One level down.
LEMMA DownFacts ==
    ASSUME Spanning, TypeInv, NEW t \in Threads, Down(t), thr[t].level > 0
    PROVE  Moved(t, "descend", thr[t].level - 1, thr[t].prefix, thr[t].i, thr[t].attempts,
                 thr[t].result)
  <1> DEFINE r == [thr[t] EXCEPT !.pc = "descend", !.level = thr[t].level - 1,
                                 !.prefix = thr[t].prefix, !.i = thr[t].i,
                                 !.attempts = thr[t].attempts, !.result = thr[t].result]
  <1>3. thr' = [thr EXCEPT ![t] = r]
      BY Zenon DEF Down
  <1>4. "descend" \in Pcs /\ thr[t].level - 1 \in 0..Root
      BY ThreadFacts, Sizes DEF Pcs
  <1> QED BY <1>3, <1>4, ThreadFacts, MovedFacts, Zenon

\* A search returns without a result ...
GivesUp(t) ==
    Moved(t, "leave", thr[t].level, thr[t].prefix, thr[t].i, thr[t].attempts, -1)

\* ... or goes on in the parent ...
GoesUp(t, attempts) ==
    /\ thr[t].level < Root
    /\ Moved(t, "descend", thr[t].level + 1, thr[t].prefix \div Base, (thr[t].prefix % Base) - 1,
             attempts, thr[t].result)

\* ... or to the left of where it looks ...
GoesLeft(t) ==
    Moved(t, "descend", thr[t].level, thr[t].prefix, thr[t].i - 1, thr[t].attempts, thr[t].result)

\* ... or in the child it looks at.
GoesDown(t) ==
    Moved(t, "descend", thr[t].level - 1, Looking(t),
          StartIndex(thr[t].level - 1, Looking(t), thr[t].x), thr[t].attempts, thr[t].result)

\* Upwards, until the root is left.
LEMMA BacktrackFacts ==
    ASSUME Spanning, TypeInv, NEW t \in Threads, thr[t].pc = "descend", NEW attempts \in 0..1,
           Backtrack(t, attempts)
    PROVE  (thr[t].level = Root /\ GivesUp(t)) \/ GoesUp(t, attempts)
  <1>2. CASE thr[t].level = Root
      BY <1>2, ReturnFacts, Zenon DEF Backtrack, GivesUp
  <1>3. CASE thr[t].level # Root
    <2>1. thr[t].level + 1 \in 0..Root /\ thr[t].level < Root
        BY <1>3, ThreadFacts, Sizes
    <2>2. thr[t].prefix \div Base \in Nat /\ (thr[t].prefix % Base) - 1 \in -1..(Base - 1)
      <3>1. thr[t].prefix \in Nat /\ Base \in Nat \ {0}
          BY ThreadFacts, Sizes
      <3> QED BY <3>1
    <2>3. PICK p \in Nat, k \in -1..(Base - 1) :
              p = thr[t].prefix \div Base /\ k = (thr[t].prefix % Base) - 1
        BY <2>2, Zenon
    <2> DEFINE r == [thr[t] EXCEPT !.pc = "descend", !.level = thr[t].level + 1, !.prefix = p,
                                   !.i = k, !.attempts = attempts, !.result = thr[t].result]
    <2>4. [thr[t] EXCEPT !.level = @ + 1, !.prefix = p, !.i = k, !.attempts = attempts] = r
        BY Zenon DEF ThreadType
    <2>5. thr' = [thr EXCEPT ![t] = r]
        BY <1>3, <2>3, <2>4, Zenon DEF Backtrack
    <2>7. Moved(t, "descend", thr[t].level + 1, p, k, attempts, thr[t].result)
        BY <2>1, <2>5, ThreadFacts, MovedFacts, Zenon
    <2> QED BY <2>1, <2>3, <2>7, Zenon DEF GoesUp
  <1> QED BY <1>2, <1>3, Zenon

\* To the left, within the node.
LEMMA LeftFacts ==
    ASSUME Spanning, TypeInv, NEW t \in Threads, thr[t].pc = "descend", thr[t].i >= 0,
           thr' = [thr EXCEPT ![t].i = @ - 1]
    PROVE  GoesLeft(t)
  <1> DEFINE r == [thr[t] EXCEPT !.pc = "descend", !.level = thr[t].level,
                                 !.prefix = thr[t].prefix, !.i = thr[t].i - 1,
                                 !.attempts = thr[t].attempts, !.result = thr[t].result]
  <1>4. "descend" \in Pcs /\ thr[t].i - 1 \in -1..(Base - 1)
      BY ThreadFacts, Sizes DEF Pcs
  <1> QED BY <1>4, ThreadFacts, MovedFacts, Zenon DEF GoesLeft

\* What a search looks at is a number, and an index of the level below that
\* precedes the address.
LEMMA LookingFacts ==
    ASSUME Spanning, TypeInv, NEW t \in Threads
    PROVE  /\ thr[t].prefix * Base \in Nat /\ Looking(t) \in Int
           /\ Looking(t) = thr[t].prefix * Base + thr[t].i
           /\ thr[t].i >= 0 => Looking(t) \in Nat
           /\ thr[t].i < 0 => Looking(t) = thr[t].prefix * Base - 1
  <1>1. thr[t].prefix \in Nat /\ thr[t].i \in -1..(Base - 1) /\ Base \in Nat
      BY ThreadFacts, Sizes, Zenon
  <1>2. PICK m \in Nat : m = thr[t].prefix * Base
      BY <1>1
  <1> QED BY <1>1 DEF Looking

\* Downwards, into a child.
LEMMA DownwardFacts ==
    ASSUME Spanning,
           TypeInv, NEW t \in Threads, thr[t].pc = "descend", thr[t].i >= 0, thr[t].level > 0,
           Looking(t) <= Pre(thr[t].level, thr[t].x),
           thr' = [thr EXCEPT ![t].level = @ - 1, ![t].prefix = Looking(t),
                              ![t].i = StartIndex(thr[t].level - 1, Looking(t), thr[t].x)]
    PROVE  GoesDown(t)
  <1> PICK l \in 0..Root : l = thr[t].level - 1 /\ l + 1 = thr[t].level
      BY ThreadFacts, Sizes
  <1> PICK p \in Nat : p = Looking(t)
      BY LookingFacts, Zenon
  <1>1. PICK k \in -1..(Base - 1) : k = StartIndex(l, p, thr[t].x)
      BY ThreadFacts, StartIndexFacts
  <1> DEFINE r == [thr[t] EXCEPT !.pc = "descend", !.level = l, !.prefix = p, !.i = k,
                                 !.attempts = thr[t].attempts, !.result = thr[t].result]
  <1>2. [thr[t] EXCEPT !.level = @ - 1, !.prefix = p, !.i = k] = r
      BY Zenon DEF ThreadType
  <1>3. thr' = [thr EXCEPT ![t] = r]
      BY <1>1, <1>2, Zenon
  <1>4. "descend" \in Pcs
      BY Zenon DEF Pcs
  <1>5. Moved(t, "descend", l, p, k, thr[t].attempts, thr[t].result)
      BY <1>3, <1>4, ThreadFacts, MovedFacts, Zenon
  <1> QED BY <1>1, <1>5, Zenon DEF GoesDown

\* get_entry above the leaves.
LEMMA SearchNodeCases ==
    ASSUME Spanning, TypeInv, SearchInv, NEW t \in Threads, SearchNode(t)
    PROVE  /\ At(t, "get", "descend") /\ thr[t].level > 0
           /\ UNCHANGED <<inProgress, tree, state, ops>>
           /\ \/ thr[t].i < 0 /\ thr[t].level = Root /\ GivesUp(t)
              \/ thr[t].i < 0 /\ GoesUp(t, thr[t].attempts)
              \/ thr[t].i >= 0 /\ <<thr[t].level - 1, Looking(t)>> \in present /\ GoesDown(t)
              \/ thr[t].i >= 0 /\ <<thr[t].level - 1, Looking(t)>> \notin present /\ GoesLeft(t)
  <1>1. At(t, "get", "descend") /\ thr[t].level > 0 /\ UNCHANGED <<inProgress, tree, state, ops>>
      BY Zenon DEF SearchNode
  <1>2. thr[t].pc = "descend" /\ Looking(t) <= Pre(thr[t].level, thr[t].x)
      BY <1>1, Zenon DEF At, SearchInv, SearchOf
  <1> DEFINE child == <<thr[t].level - 1, thr[t].prefix * Base + thr[t].i>>
  <1>3. child = <<thr[t].level - 1, Looking(t)>> /\ child[1] = thr[t].level - 1 /\ child[2] = Looking(t)
      BY Zenon DEF Looking
  <1>4. thr[t].i \in -1..(Base - 1)
      BY ThreadFacts, Zenon
  <1>5. CASE thr[t].i < 0
      BY <1>2, <1>5, ThreadFacts, BacktrackFacts DEF SearchNode
  <1>6. CASE thr[t].i >= 0 /\ child \in present
    <2> USE <1>6
    <2>1. thr' = [thr EXCEPT ![t].level = @ - 1, ![t].prefix = child[2],
                             ![t].i = StartIndex(child[1], child[2], thr[t].x)]
        BY DEF SearchNode
    <2>2. thr' = [thr EXCEPT ![t].level = @ - 1, ![t].prefix = Looking(t),
                             ![t].i = StartIndex(thr[t].level - 1, Looking(t), thr[t].x)]
        BY <1>3, <2>1, Zenon
    <2>3. GoesDown(t)
        BY <1>1, <1>2, <2>2, DownwardFacts, Zenon
    <2> QED BY <1>1, <1>3, <2>3, Zenon
  <1>7. CASE thr[t].i >= 0 /\ child \notin present
      BY <1>2, <1>3, <1>4, <1>7, LeftFacts DEF SearchNode
  <1> QED BY <1>4, <1>5, <1>6, <1>7

Found(t) ==
    Moved(t, "leave", thr[t].level, thr[t].prefix, thr[t].i, thr[t].attempts, Looking(t))

LeafIsLeft(t) ==
    (thr[t].attempts = 1 /\ GivesUp(t)) \/ (thr[t].attempts = 0 /\ GoesUp(t, 1))

\* get_entry in a leaf.
LEMMA SearchLeafCases ==
    ASSUME Spanning, TypeInv, SearchInv, NEW t \in Threads, SearchLeaf(t)
    PROVE  /\ At(t, "get", "descend") /\ thr[t].level = 0
           /\ UNCHANGED <<inProgress, tree, state, ops>>
           /\ thr[t].i >= 0 => Looking(t) \in Addresses /\ Looking(t) <= thr[t].x
           /\ \/ thr[t].i < 0 /\ LeafIsLeft(t)
              \/ thr[t].i >= 0 /\ size[Looking(t)] = 0 /\ GoesLeft(t)
              \/ /\ thr[t].i >= 0 /\ size[Looking(t)] # 0
                 /\ thr[t].x < Looking(t) + size[Looking(t)] /\ Found(t)
              \/ /\ thr[t].i >= 0 /\ size[Looking(t)] # 0
                 /\ ~ (thr[t].x < Looking(t) + size[Looking(t)]) /\ LeafIsLeft(t)
  <1>1. At(t, "get", "descend") /\ thr[t].level = 0 /\ UNCHANGED <<inProgress, tree, state, ops>>
      BY Zenon DEF SearchLeaf
  <1> thr[t].pc = "descend" /\ Looking(t) <= Pre(0, thr[t].x)
      BY <1>1, Zenon DEF At, SearchInv, SearchOf
  <1> thr[t].i \in -1..(Base - 1) /\ thr[t].x \in Addresses /\ thr[t].attempts \in 0..1
      BY ThreadFacts, Zenon
  <1>2. thr[t].i >= 0 => Looking(t) \in Addresses /\ Looking(t) <= thr[t].x
      BY PreTop, LookingFacts, Sizes, Zenon
  <1>3. LeafFails(t) => LeafIsLeft(t)
      BY <1>1, ReturnFacts, Sizes, BacktrackFacts DEF LeafFails, LeafIsLeft, GivesUp
  <1>4. CASE thr[t].i < 0
      BY <1>3, <1>4 DEF SearchLeaf
  <1>5. CASE thr[t].i >= 0 /\ size[Looking(t)] = 0
      BY <1>2, <1>5, LeftFacts DEF SearchLeaf, Looking
  <1>6. CASE thr[t].i >= 0 /\ size[Looking(t)] # 0
      BY <1>2, <1>3, <1>6, ReturnFacts DEF SearchLeaf, Looking, Found
  <1> QED BY <1>4, <1>5, <1>6

\* The steps of an operation between its locks.
Inner(t) ==
    /\ thr' \in [Threads -> ThreadType] /\ (\A u \in Threads \ {t} : thr'[u] = thr[u])
    /\ thr'[t].op = thr[t].op /\ thr'[t].x = thr[t].x /\ thr'[t].b = thr[t].b
    /\ thr'[t].stable = thr[t].stable
    /\ thr[t].pc \in {"descend", "exchange", "payload"}
    /\ thr'[t].pc \in {"descend", "exchange", "payload", "leave"}
    /\ UNCHANGED <<inProgress, state, ops>>

Deeper(t) ==
    /\ thr[t].level > 0
    /\ Moved(t, "descend", thr[t].level - 1, thr[t].prefix, thr[t].i, thr[t].attempts, thr[t].result)

Stays(t, pc) ==
    Moved(t, pc, thr[t].level, thr[t].prefix, thr[t].i, thr[t].attempts, thr[t].result)

Returns(t, result) ==
    Moved(t, "leave", thr[t].level, thr[t].prefix, thr[t].i, thr[t].attempts, result)

\* get_entry_of_root_address.
LEMMA GetRootCases ==
    ASSUME Spanning, TypeInv, NEW t \in Threads, GetRoot(t)
    PROVE  /\ At(t, "getRoot", "descend") /\ Inner(t) /\ UNCHANGED tree
           /\ \/ thr[t].level = 0 /\ size[thr[t].x] > 0 /\ Returns(t, thr[t].x)
              \/ thr[t].level = 0 /\ ~ (size[thr[t].x] > 0) /\ Returns(t, -1)
              \/ NodeAt(thr[t].level - 1, thr[t].x) \in present /\ Deeper(t)
              \/ /\ thr[t].level > 0 /\ NodeAt(thr[t].level - 1, thr[t].x) \notin present
                 /\ Returns(t, -1)
  <1>1. At(t, "getRoot", "descend") /\ UNCHANGED <<inProgress, tree, state, ops>>
      BY Zenon DEF GetRoot
  <1> thr[t].pc = "descend" /\ thr[t].x \in Addresses /\ thr[t].level \in 0..Root
      BY <1>1, ThreadFacts, Zenon DEF At
  <1>2. CASE thr[t].level = 0 /\ size[thr[t].x] > 0
      BY <1>2, ReturnFacts DEF GetRoot, Returns, Moved, Inner
  <1>3. CASE thr[t].level = 0 /\ ~ (size[thr[t].x] > 0)
      BY <1>3, ReturnFacts, Zenon DEF GetRoot, Returns, Moved, Inner
  <1>4. CASE thr[t].level # 0 /\ NodeAt(thr[t].level - 1, thr[t].x) \in present
    <2> USE <1>4
    <2>1. thr' = [thr EXCEPT ![t].level = @ - 1]
        BY Zenon DEF GetRoot
    <2>2. Down(t)
      <3>1. [thr[t] EXCEPT !.level = @ - 1] = [thr[t] EXCEPT !.level = @ - 1, !.pc = "descend"]
          BY Zenon DEF ThreadType
      <3> QED BY <2>1, <3>1, Zenon DEF Down
    <2>3. thr[t].level > 0
        OBVIOUS
    <2>4. Deeper(t)
        BY <2>2, <2>3, DownFacts, Zenon DEF Deeper
    <2> QED BY <1>1, <2>4, Zenon DEF Deeper, Moved, Inner
  <1>5. CASE thr[t].level # 0 /\ NodeAt(thr[t].level - 1, thr[t].x) \notin present
      BY <1>5, ReturnFacts DEF GetRoot, Returns, Moved, Inner
  <1> QED BY <1>2, <1>3, <1>4, <1>5, Zenon

\* insert above the leaf: the load ...
LEMMA InsertLoadCases ==
    ASSUME Spanning, TypeInv, NEW t \in Threads, InsertLoad(t)
    PROVE  /\ At(t, "insert", "descend") /\ thr[t].level > 0 /\ Inner(t) /\ UNCHANGED tree
           /\ \/ ChildOf(t) \in present /\ Deeper(t)
              \/ ChildOf(t) \notin present /\ Stays(t, "exchange")
  <1>2. CASE ChildOf(t) \in present
      BY <1>2, DownFacts, Zenon DEF Deeper, InsertLoad, Moved, Inner, At
  <1>3. CASE ChildOf(t) \notin present
      BY <1>3, GotoFacts DEF InsertLoad, Pcs, Stays, Moved, Inner, At
  <1> QED BY <1>2, <1>3, Zenon

\* ... and the exchange.
LEMMA InsertExchangeCases ==
    ASSUME Spanning, TypeInv, OpInv, NEW t \in Threads, InsertExchange(t)
    PROVE  /\ At(t, "insert", "exchange") /\ Inner(t) /\ Deeper(t)
           /\ \/ ChildOf(t) \notin present /\ AttachAndCount(t)
              \/ ChildOf(t) \in present /\ UNCHANGED tree
  <1> At(t, "insert", "exchange") /\ Down(t) /\ UNCHANGED <<inProgress, state, ops>>
      BY Zenon DEF InsertExchange
  <1>1. thr[t].pc = "exchange" /\ thr[t].level > 0
      BY Zenon DEF At, OpInv, OpOf
  <1>2. Deeper(t)
      BY <1>1, DownFacts, Zenon DEF Deeper
  <1>3. Inner(t)
      BY <1>1, <1>2 DEF Deeper, Moved, Inner
  <1> QED BY <1>2, <1>3, Zenon DEF InsertExchange

\* insert at the leaf: the size ...
LEMMA InsertSizeCases ==
    ASSUME Spanning, TypeInv, NEW t \in Threads, InsertSize(t)
    PROVE  /\ At(t, "insert", "descend") /\ thr[t].level = 0 /\ Inner(t)
           /\ UNCHANGED <<present, count, payload>>
           /\ \/ size[thr[t].x] > 0 /\ Returns(t, -1) /\ UNCHANGED size
              \/ /\ size[thr[t].x] = 0 /\ Stays(t, "payload")
                 /\ size' = [size EXCEPT ![thr[t].x] = thr[t].b.size]
  <1>1. At(t, "insert", "descend") /\ thr[t].level = 0
        /\ UNCHANGED <<inProgress, present, count, payload, state, ops>>
      BY Zenon DEF InsertSize
  <1>2. CASE size[thr[t].x] > 0 /\ Return(t, -1) /\ UNCHANGED size
      BY <1>1, <1>2, ReturnFacts DEF Returns, Moved, Inner, At
  <1>3. CASE /\ size[thr[t].x] = 0 /\ Goto(t, "payload")
             /\ size' = [size EXCEPT ![thr[t].x] = thr[t].b.size]
      BY <1>1, <1>3, GotoFacts, Zenon DEF Pcs, Stays, Moved, Inner, At
  <1> QED BY <1>2, <1>3, Zenon DEF InsertSize

\* ... and the payload.
LEMMA InsertPayloadCases ==
    ASSUME Spanning, TypeInv, NEW t \in Threads, InsertPayload(t)
    PROVE  /\ At(t, "insert", "payload") /\ Inner(t) /\ Returns(t, thr[t].x)
           /\ UNCHANGED <<present, size>>
           /\ payload' = [payload EXCEPT ![thr[t].x] = thr[t].b]
           /\ count' = [count EXCEPT ![NodeAt(0, thr[t].x)] = @ + 1]
  <1> /\ At(t, "insert", "payload") /\ Return(t, thr[t].x)
      /\ UNCHANGED <<inProgress, present, size, state, ops>>
      /\ payload' = [payload EXCEPT ![thr[t].x] = thr[t].b]
      /\ count' = [count EXCEPT ![NodeAt(0, thr[t].x)] = @ + 1]
      BY Zenon DEF InsertPayload
  <1>1. Returns(t, thr[t].x)
      BY ReturnFacts, ThreadFacts, Zenon DEF Returns
  <1>2. Inner(t)
      BY <1>1 DEF Returns, Moved, Inner, At
  <1> QED BY <1>1, <1>2, Zenon

\* erase.
LEMMA EraseCases ==
    ASSUME Spanning, TypeInv, NEW t \in Threads, Erase(t)
    PROVE  /\ At(t, "erase", "descend") /\ Inner(t) /\ UNCHANGED payload
           /\ \/ ~ Occupied(thr[t].x) /\ Returns(t, -1) /\ UNCHANGED tree
              \/ /\ Occupied(thr[t].x) /\ Returns(t, thr[t].x)
                 /\ size' = [size EXCEPT ![thr[t].x] = 0]
                 /\ count' = [n \in AllNodes |->
                                 IF n = NodeAt(n[1], thr[t].x)
                                 THEN CountsAfterErase(thr[t].x)[n[1]] ELSE count[n]]
                 /\ present' = present \ {NodeAt(l, thr[t].x) :
                                   l \in {k \in 0..(Root - 1) : CountsAfterErase(thr[t].x)[k] = 0}}
  <1>2. thr[t].x \in Addresses
      BY ThreadFacts, Zenon
  <1>3. CASE Occupied(thr[t].x)
      BY <1>2, <1>3, ReturnFacts, Zenon DEF Erase, Returns, Moved, Inner, At
  <1>4. CASE ~ Occupied(thr[t].x)
      BY <1>4, ReturnFacts, Zenon DEF Erase, Returns, Moved, Inner, At, tree
  <1> QED BY <1>3, <1>4, Zenon

\* A search is between the locks until it returns.
LEMMA SearchInner ==
    ASSUME Spanning, TypeInv, SearchInv, NEW t \in Threads, SearchNode(t) \/ SearchLeaf(t)
    PROVE  Inner(t) /\ UNCHANGED tree /\ At(t, "get", "descend") /\ thr'[t].pc \in {"descend", "leave"}
  <1> /\ At(t, "get", "descend") /\ UNCHANGED <<inProgress, tree, state, ops>>
      /\ \/ GivesUp(t) \/ GoesDown(t) \/ GoesLeft(t) \/ Found(t)
         \/ \E a \in 0..1 : GoesUp(t, a)
    <2>1. CASE SearchNode(t)
        BY <2>1, ThreadFacts, SearchNodeCases, Zenon
    <2>2. CASE SearchLeaf(t)
        BY <2>2, SearchLeafCases DEF LeafIsLeft
    <2> QED BY <2>1, <2>2, Zenon
  <1>1. CASE GivesUp(t)
      BY <1>1, Zenon DEF GivesUp, Moved, Inner, At
  <1>2. CASE GoesDown(t)
      BY <1>2, Zenon DEF GoesDown, Moved, Inner, At
  <1>3. CASE GoesLeft(t)
      BY <1>3, Zenon DEF GoesLeft, Moved, Inner, At
  <1>4. CASE Found(t)
      BY <1>4, Zenon DEF Found, Moved, Inner, At
  <1>5. CASE \E a \in 0..1 : GoesUp(t, a)
      BY <1>5, Zenon DEF GoesUp, Moved, Inner, At
  <1> QED BY <1>1, <1>2, <1>3, <1>4, <1>5

\* An operation that has just been called.
LEMMA StartedFacts ==
    ASSUME Spanning, NEW op \in {"insert", "erase", "get", "getRoot"}, NEW x \in Addresses,
           NEW b \in Blocks \cup {NoBlock}, NEW stable \in SUBSET Blocks
    PROVE  /\ Started(op, x, b, stable) \in ThreadType
           /\ Started(op, x, b, stable).op = op /\ Started(op, x, b, stable).pc = "enter"
           /\ Started(op, x, b, stable).x = x /\ Started(op, x, b, stable).b = b
           /\ Started(op, x, b, stable).level = Root /\ Started(op, x, b, stable).prefix = 0
           /\ Started(op, x, b, stable).attempts = 0 /\ Started(op, x, b, stable).stable = stable
           /\ Idle \in ThreadType
  <1>1. 0 \in Addresses /\ Root \in 0..Root /\ 0 \in 0..Root /\ 0 \in -1..(Base - 1)
      BY Sizes
  <1>3. Idle \in ThreadType
      BY <1>1 DEF Idle, ThreadType
  <1> DEFINE r == [Idle EXCEPT !.op = op, !.pc = "enter", !.x = x, !.b = b, !.level = Root,
                               !.stable = stable]
  <1>4. r.prefix = 0 /\ r.attempts = 0
      BY Zenon DEF Idle
  <1>5. /\ r \in ThreadType /\ r.op = op /\ r.pc = "enter" /\ r.x = x /\ r.b = b /\ r.level = Root
        /\ r.stable = stable
      BY <1>1, <1>3, Zenon DEF ThreadType
  <1> QED BY <1>3, <1>4, <1>5, Zenon DEF Started

\* Everything but the blocks that a lookup has to find.
Kept(u) ==
    /\ thr'[u].op = thr[u].op /\ thr'[u].pc = thr[u].pc /\ thr'[u].x = thr[u].x
    /\ thr'[u].b = thr[u].b /\ thr'[u].level = thr[u].level /\ thr'[u].prefix = thr[u].prefix
    /\ thr'[u].i = thr[u].i /\ thr'[u].attempts = thr[u].attempts /\ thr'[u].result = thr[u].result
    /\ thr'[u].stable \subseteq thr[u].stable
    /\ thr[u] = Idle => thr'[u] = Idle

Called(t, op, x, b, stable) ==
    /\ t = ops + 1 /\ thr[t] = Idle /\ ops' = t /\ UNCHANGED <<inProgress, tree>>
    /\ thr' \in [Threads -> ThreadType]
    /\ thr'[t].op = op /\ thr'[t].pc = "enter" /\ thr'[t].x = x /\ thr'[t].b = b
    /\ thr'[t].level = Root /\ thr'[t].prefix = 0 /\ thr'[t].attempts = 0
    /\ thr'[t].stable = stable
    /\ \A u \in Threads \ {t} : Kept(u)

\* A call that changes one thread.
LEMMA CalledFacts ==
    ASSUME Spanning,
           TypeInv, NEW t \in Threads, NEW op \in {"insert", "erase", "get", "getRoot"},
           NEW x \in Addresses, NEW b \in Blocks \cup {NoBlock}, NEW stable \in SUBSET Blocks,
           Call(t), thr' = [thr EXCEPT ![t] = Started(op, x, b, stable)]
    PROVE  Called(t, op, x, b, stable)
  <1>1. t = ops + 1 /\ ops' = t /\ UNCHANGED <<inProgress, tree>> /\ ops \in Nat
      BY DEF Call, TypeInv
  <1>2. t > ops
      BY <1>1
  <1>3. thr[t] = Idle /\ thr \in [Threads -> ThreadType]
      BY <1>2, Zenon DEF TypeInv
  <1>4. PICK r \in ThreadType :
            /\ r = Started(op, x, b, stable) /\ r.op = op /\ r.pc = "enter" /\ r.x = x /\ r.b = b
            /\ r.level = Root /\ r.prefix = 0 /\ r.attempts = 0 /\ r.stable = stable
      BY StartedFacts
  <1>7. \A u \in Threads \ {t} : Kept(u)
      BY DEF Kept
  <1> QED BY <1>1, <1>3, <1>4, <1>7, Zenon DEF Called

\* The calls.
LEMMA CallCases ==
    ASSUME Spanning, TypeInv, NEW t \in Threads, CallSome(t)
    PROVE  \/ \E b \in Blocks : /\ state[b] = "free" /\ Called(t, "insert", b.addr, b, {})
                                /\ state' = [state EXCEPT ![b] = "inserting"]
           \/ \E b \in Live : Called(t, "insert", b.addr, NoBlock, {}) /\ UNCHANGED state
           \/ \E b \in Live : /\ Called(t, "erase", b.addr, b, {})
                              /\ ~ \E u \in Threads : thr[u].op = "insert" /\ thr[u].x = b.addr
                              /\ state' = [state EXCEPT ![b] = "erasing"]
                              /\ \A u \in Threads \ {t} : b \notin thr'[u].stable
           \/ \E x \in Foreign : Called(t, "erase", x, NoBlock, {}) /\ UNCHANGED state
           \/ \E p \in Probes : Called(t, p.op, p.x, NoBlock, Wanted(p)) /\ UNCHANGED state
  <1>1. CASE \E b \in Blocks : CallInsert(t, b)
    <2>1. PICK b \in Blocks : CallInsert(t, b)
        BY <1>1, Zenon
    <2>2. Called(t, "insert", b.addr, b, {})
        BY <2>1, BlockFacts, CalledFacts, Zenon DEF CallInsert
    <2> QED BY <2>1, <2>2, Zenon DEF CallInsert
  <1>2. CASE \E b \in Blocks : CallInsertAgain(t, b)
    <2>1. PICK b \in Blocks : CallInsertAgain(t, b)
        BY <1>2, Zenon
    <2>2. Called(t, "insert", b.addr, NoBlock, {})
        BY <2>1, BlockFacts, CalledFacts, Zenon DEF CallInsertAgain
    <2> QED BY <2>1, <2>2, Zenon DEF CallInsertAgain, Live
  <1>3. CASE \E b \in Blocks : CallErase(t, b)
    <2>1. PICK b \in Blocks : CallErase(t, b)
        BY <1>3, Zenon
    <2>2. t = ops + 1 /\ ops' = t /\ UNCHANGED <<inProgress, tree>> /\ ops \in Nat
        BY <2>1, Sizes DEF CallErase, Call, TypeInv
    <2>3. t > ops
        BY <2>2
    <2>4. thr[t] = Idle /\ thr \in [Threads -> ThreadType]
        BY <2>3, Zenon DEF TypeInv
    <2>5. PICK r \in ThreadType :
              /\ r = Started("erase", b.addr, b, {}) /\ r.op = "erase" /\ r.pc = "enter"
              /\ r.x = b.addr /\ r.b = b /\ r.level = Root /\ r.prefix = 0 /\ r.attempts = 0
              /\ r.stable = {}
        BY BlockFacts, StartedFacts
    <2>6. thr' = [u \in Threads |-> IF u = t THEN r ELSE [thr[u] EXCEPT !.stable = @ \ {b}]]
        BY <2>1, <2>5, Zenon DEF CallErase
    <2>7. thr'[t] = r
        BY <2>6, Zenon
    <2>8. ASSUME NEW u \in Threads \ {t}
          PROVE  thr'[u] \in ThreadType /\ Kept(u) /\ b \notin thr'[u].stable
      <3>1. thr'[u] = [thr[u] EXCEPT !.stable = @ \ {b}] /\ thr[u] \in ThreadType
          BY <2>4, <2>6, Zenon
      <3>2. thr[u] = Idle => [thr[u] EXCEPT !.stable = @ \ {b}] = Idle
          BY DEF Idle
      <3> QED BY <3>1, <3>2 DEF ThreadType, Kept
    <2>9. thr' \in [Threads -> ThreadType]
        BY <2>6, <2>7, <2>8, Zenon
    <2>10. Called(t, "erase", b.addr, b, {})
        BY <2>2, <2>4, <2>5, <2>7, <2>8, <2>9, Zenon DEF Called
    <2> QED BY <2>1, <2>8, <2>10, Zenon DEF CallErase, Live
  <1>4. CASE \E x \in Foreign : CallEraseForeign(t, x)
    <2>1. PICK x \in Foreign : CallEraseForeign(t, x)
        BY <1>4, Zenon
    <2>2. x \in Addresses
        BY MapAssumption, Zenon
    <2>3. Called(t, "erase", x, NoBlock, {})
        BY <2>1, <2>2, CalledFacts, Zenon DEF CallEraseForeign
    <2> QED BY <2>1, <2>3, Zenon DEF CallEraseForeign
  <1>5. CASE \E p \in Probes : CallGet(t, p)
    <2>1. PICK p \in Probes : CallGet(t, p)
        BY <1>5, Zenon
    <2>2. p.op \in {"insert", "erase", "get", "getRoot"} /\ p.x \in Addresses
        BY MapAssumption, Zenon
    <2>3. Wanted(p) \in SUBSET Blocks
        BY Zenon DEF Wanted, Live
    <2>4. Called(t, p.op, p.x, NoBlock, Wanted(p))
        BY <2>1, <2>2, <2>3, CalledFacts, Zenon DEF CallGet
    <2> QED BY <2>1, <2>4, Zenon DEF CallGet
  <1> QED BY <1>1, <1>2, <1>3, <1>4, <1>5, Zenon DEF CallSome

\* The lock of insertions and lookups.
LEMMA EnterSharedCases ==
    ASSUME Spanning, TypeInv, OpInv, NEW t \in Threads, EnterShared(t)
    PROVE  /\ thr[t].pc = "enter" /\ thr[t].op # "erase" /\ thr[t].op # "none"
           /\ inProgress >= 0 /\ inProgress' = inProgress + 1 /\ UNCHANGED <<tree, state, ops>>
           /\ Moved(t, "descend", Root, 0, StartIndex(Root, 0, thr[t].x), 0, thr[t].result)
  <1>1. /\ thr[t].pc = "enter" /\ thr[t].op # "erase" /\ inProgress >= 0
        /\ inProgress' = inProgress + 1 /\ UNCHANGED <<tree, state, ops>>
      BY Zenon DEF EnterShared
  <1>2. thr[t].op # "none" /\ thr[t].level = Root /\ thr[t].prefix = 0 /\ thr[t].attempts = 0
      BY <1>1, Zenon DEF OpInv, OpOf
  <1>3. PICK k \in -1..(Base - 1) : k = StartIndex(Root, 0, thr[t].x)
    <2>1. Root \in Nat /\ thr[t].x \in Nat /\ Root + 1 \in Nat
        BY ThreadFacts, Sizes, Zenon
    <2>2. Pre(Root + 1, thr[t].x) \in Nat
        BY <2>1, PreFacts, Zenon
    <2>3. 0 <= Pre(Root + 1, thr[t].x)
        BY <2>2
    <2>4. StartIndex(Root, 0, thr[t].x) \in 0..(Base - 1)
        BY <2>1, <2>3, StartIndexFacts, Zenon
    <2> QED BY <2>4
  <1>4. thr \in [Threads -> ThreadType] /\ thr[t] \in ThreadType
      BY Zenon DEF TypeInv
  <1> DEFINE r == [thr[t] EXCEPT !.pc = "descend", !.level = thr[t].level,
                                 !.prefix = thr[t].prefix, !.i = k,
                                 !.attempts = thr[t].attempts, !.result = thr[t].result]
  <1>5. [thr[t] EXCEPT !.pc = "descend", !.i = k] = r
      BY <1>4, Zenon DEF ThreadType
  <1>6. thr' = [thr EXCEPT ![t] = r]
      BY <1>3, <1>5, Zenon DEF EnterShared
  <1>7. "descend" \in Pcs
      BY Zenon DEF Pcs
  <1>8. Moved(t, "descend", thr[t].level, thr[t].prefix, k, thr[t].attempts, thr[t].result)
      BY <1>6, <1>7, ThreadFacts, MovedFacts, Zenon
  <1> QED BY <1>1, <1>2, <1>3, <1>8, Zenon

\* The lock of erase.
LEMMA EnterEraseCases ==
    ASSUME Spanning, TypeInv, NEW t \in Threads, EnterErase(t)
    PROVE  /\ At(t, "erase", "enter") /\ inProgress = 0 /\ inProgress' = -1
           /\ UNCHANGED <<tree, state, ops>> /\ Stays(t, "descend")
  <1>1. "descend" \in Pcs
      BY Zenon DEF Pcs
  <1> QED BY <1>1, GotoFacts, Zenon DEF EnterErase, Stays

\* The end of an operation.
LEMMA LeaveCases ==
    ASSUME Spanning, TypeInv, NEW t \in Threads, Leave(t)
    PROVE  /\ thr[t].pc = "leave" /\ state' = Settled(t) /\ UNCHANGED <<tree, ops>>
           /\ inProgress' = IF thr[t].op = "erase" THEN 0 ELSE inProgress - 1
           /\ thr' \in [Threads -> ThreadType] /\ thr'[t] = Idle
           /\ Idle.pc = "idle" /\ Idle.op = "none" /\ Idle.b = NoBlock
           /\ \A u \in Threads \ {t} : thr'[u] = thr[u]
  <1>1. thr \in [Threads -> ThreadType] /\ Idle \in ThreadType
      BY Sizes, StartedFacts, Zenon DEF TypeInv
  <1>2. Idle.pc = "idle" /\ Idle.op = "none" /\ Idle.b = NoBlock
      BY Zenon DEF Idle
  <1> QED BY <1>1, <1>2, Zenon DEF Leave

-----------------------------------------------------------------------------
(* The locks                                                               *)

\* An operation keeps its place within the locks.
LEMMA LockKept ==
    ASSUME LockInv, Inside' = Inside, \A u \in Inside : thr'[u].op = thr[u].op,
           inProgress' = inProgress
    PROVE  LockInv'
  BY Zenon DEF LockInv, Erasing

-----------------------------------------------------------------------------
(* Steps that change neither the tree nor what it stands for               *)

Calm ==
    /\ UNCHANGED tree /\ Stored' = Stored
    /\ \A x \in Addresses : Writing(x)' <=> Writing(x)
    /\ \A l \in 0..Root : Arrived(l) \subseteq Arrived(l)'

\* The entries stay right.
LEMMA CalmEntry ==
    ASSUME Spanning, EntryInv, Calm
    PROVE  EntryInv'
  <1>1. \A b \in Stored : b.addr \in Addresses
      BY BlockFacts, Zenon DEF Stored
  <1> QED BY <1>1, Zenon DEF EntryInv, Calm, tree

\* The counters stay right.
LEMMA CalmCount ==
    ASSUME CountInv, Calm
    PROVE  CountInv'
  <1>1. \A n \in AllNodes : Members(n)' = Members(n)
      BY Zenon DEF Members, Calm, tree
  <1> QED BY <1>1, Zenon DEF CountInv, Calm, tree

\* The tree stays as it has to be.
LEMMA CalmTree ==
    ASSUME Spanning, TypeInv, TreeInv, Calm,
           \A u \in Threads : Descending(u)' => NodeAt(thr'[u].level, thr'[u].x) \in present
    PROVE  TreeInv'
  <1> UNCHANGED present
      BY Zenon DEF Calm, tree
  <1>1. NodeAt(Root, 0) \in present' /\ \A n \in present' : n[1] < Root => ParentOf(n) \in present'
      BY Zenon DEF TreeInv
  <1>2. ASSUME NEW n \in present', n[1] < Root
        PROVE  \E b \in Stored' \cup Arrived(n[1])' : NodeAt(n[1], b.addr) = n
      BY <1>2, NodeCases, Zenon DEF TypeInv, Calm, TreeInv
  <1>3. \A u \in Threads : Descending(u)' => NodeAt(thr'[u].level, thr'[u].x) \in present'
      BY Zenon
  <1> QED BY <1>1, <1>2, <1>3, Zenon DEF TreeInv

\* A thread that keeps its place.
LEMMA KeptFacts ==
    ASSUME NEW u \in Threads, Kept(u)
    PROVE  /\ HasEntry(u)' <=> HasEntry(u)
           /\ Descending(u)' <=> Descending(u)
           /\ Looking(u)' = Looking(u)
           /\ SearchOf(u) /\ <<thr[u].level, thr[u].prefix>> \in present' => SearchOf(u)'
           /\ ResultOf(u) /\ Stored \subseteq Stored' => ResultOf(u)'
           /\ WantedOf(u) /\ thr'[u].stable \cap Live \subseteq Live' => WantedOf(u)'
  <1>1. (HasEntry(u)' <=> HasEntry(u)) /\ (Descending(u)' <=> Descending(u))
      BY Zenon DEF Kept, HasEntry, Descending
  <1>2. Looking(u)' = Looking(u)
      BY Zenon DEF Kept, Looking
  <1>3. ASSUME SearchOf(u), <<thr[u].level, thr[u].prefix>> \in present'
        PROVE  SearchOf(u)'
      BY <1>2, <1>3, Zenon DEF Kept, SearchOf, Pre
  <1>4. ASSUME ResultOf(u), Stored \subseteq Stored'
        PROVE  ResultOf(u)'
      BY <1>4, Zenon DEF Kept, ResultOf, Covers
  <1>5. ASSUME WantedOf(u), thr'[u].stable \cap Live \subseteq Live'
        PROVE  WantedOf(u)'
      BY <1>5, Zenon DEF Kept, WantedOf, Covers
  <1> QED BY <1>1, <1>2, <1>3, <1>4, <1>5

\* The blocks of threads that keep their places.
LEMMA KeptStored ==
    ASSUME NEW t \in Threads, \A u \in Threads \ {t} : Kept(u),
           NEW b \in Blocks, state'[b] = "live" <=> state[b] = "live",
           HasEntry(t)' /\ thr'[t].b = b <=> HasEntry(t) /\ thr[t].b = b
    PROVE  b \in Stored' <=> b \in Stored
  <1>1. \A u \in Threads : HasEntry(u)' /\ thr'[u].b = b <=> HasEntry(u) /\ thr[u].b = b
      BY KeptFacts, Zenon DEF Kept
  <1> QED BY <1>1, Zenon DEF Stored

\* The entries being written by threads that keep their places.
LEMMA KeptWriting ==
    ASSUME NEW t \in Threads, \A u \in Threads \ {t} : Kept(u),
           thr'[t].pc # "payload", thr[t].pc # "payload"
    PROVE  \A x \in Addresses : Writing(x)' <=> Writing(x)
  BY Zenon DEF Kept, Writing

\* Threads come down the tree.
LEMMA KeptArrived ==
    ASSUME Spanning, NEW t \in Threads, \A u \in Threads \ {t} : Kept(u), TypeInv,
           thr[t].b \in Blocks /\ Descending(t) =>
               /\ Descending(t)' /\ thr'[t].b = thr[t].b
               /\ thr'[t].level <= thr[t].level /\ thr'[t].level \in 0..Root
    PROVE  \A l \in 0..Root : Arrived(l) \subseteq Arrived(l)'
  <1> SUFFICES ASSUME NEW l \in 0..Root, NEW b \in Arrived(l)
               PROVE  b \in Arrived(l)'
      BY Zenon
  <1>0. b \in Blocks
      BY Zenon DEF Arrived
  <1>1. PICK u \in Threads : Descending(u) /\ thr[u].b = b /\ thr[u].level <= l
      BY Zenon DEF Arrived
  <1>2. Descending(u)' /\ thr'[u].b = b /\ thr'[u].level <= l
    <2>1. CASE u = t
        BY <1>0, <1>1, <2>1, ThreadFacts
    <2>2. CASE u # t
        BY <1>1, <2>2, KeptFacts, Zenon DEF Kept
    <2> QED BY <2>1, <2>2, Zenon
  <1> QED BY <1>2, Zenon DEF Arrived

-----------------------------------------------------------------------------
(* Calls                                                                   *)

\* What a thread with a block does.
LEMMA HolderFacts ==
    ASSUME Spanning, TypeInv, OpInv, NEW t \in Threads, thr[t].b \in Blocks
    PROVE  /\ \/ thr[t].op = "insert" /\ state[thr[t].b] = "inserting"
              \/ thr[t].op = "erase" /\ state[thr[t].b] = "erasing"
           /\ thr[t].b.addr = thr[t].x
  <1>1. thr[t].b # NoBlock
      BY BlockFacts, Zenon
  <1>2. thr[t].op # "none"
      BY <1>1 DEF OpInv, OpOf, Idle
  <1> QED BY <1>1, <1>2, ThreadFacts, Zenon DEF OpInv, OpOf

\* A call, with what its operation may count on.
MayCall(t, op, x, b, stable) ==
    /\ Called(t, op, x, b, stable)
    /\ state' \in [Blocks -> {"free", "inserting", "live", "erasing"}]
    /\ \A c \in Blocks : c # b => state'[c] = state[c]
    /\ b \in Blocks =>
         /\ b.addr = x
         /\ \/ op = "insert" /\ state[b] = "free" /\ state'[b] = "inserting"
            \/ /\ op = "erase" /\ state[b] = "live" /\ state'[b] = "erasing"
               /\ ~ \E u \in Threads : thr[u].op = "insert" /\ thr[u].x = b.addr
               /\ \A u \in Threads \ {t} : b \notin thr'[u].stable
    /\ op = "insert" /\ b = NoBlock => \E c \in Live : c.addr = x
    /\ op = "erase" /\ b = NoBlock => x \in Foreign
    /\ op \in {"get", "getRoot"} =>
         /\ b = NoBlock
         /\ \A c \in stable : c \in Live /\ (IF op = "get" THEN Covers(c, x) ELSE c.addr = x)

\* Every call is one of these.
LEMMA MayCallFacts ==
    ASSUME Spanning, TypeInv, NEW t \in Threads, CallSome(t)
    PROVE  \E op \in {"insert", "erase", "get", "getRoot"}, x \in Addresses,
              b \in Blocks \cup {NoBlock}, stable \in SUBSET Blocks : MayCall(t, op, x, b, stable)
  <1> /\ state \in [Blocks -> {"free", "inserting", "live", "erasing"}]
      /\ NoBlock \in Blocks \cup {NoBlock} /\ NoBlock \notin Blocks /\ {} \in SUBSET Blocks
      BY BlockFacts, Zenon DEF TypeInv
  <1>1. CASE \E b \in Blocks : /\ state[b] = "free" /\ Called(t, "insert", b.addr, b, {})
                               /\ state' = [state EXCEPT ![b] = "inserting"]
      BY <1>1, BlockFacts DEF MayCall
  <1>2. CASE \E b \in Live : Called(t, "insert", b.addr, NoBlock, {}) /\ UNCHANGED state
      BY <1>2, BlockFacts, Zenon DEF MayCall, Live
  <1>3. CASE \E b \in Live : /\ Called(t, "erase", b.addr, b, {})
                             /\ ~ \E u \in Threads : thr[u].op = "insert" /\ thr[u].x = b.addr
                             /\ state' = [state EXCEPT ![b] = "erasing"]
                             /\ \A u \in Threads \ {t} : b \notin thr'[u].stable
      BY <1>3, BlockFacts DEF Live, MayCall
  <1>4. CASE \E x \in Foreign : Called(t, "erase", x, NoBlock, {}) /\ UNCHANGED state
      BY <1>4, MapAssumption, Zenon DEF MayCall
  <1>5. CASE \E p \in Probes : Called(t, p.op, p.x, NoBlock, Wanted(p)) /\ UNCHANGED state
      BY <1>5, MapAssumption DEF Wanted, Live, MayCall
  <1> QED BY <1>1, <1>2, <1>3, <1>4, <1>5, CallCases, Zenon

\* A call keeps the invariant.
LEMMA CallPreserves ==
    ASSUME Spanning, Inv, NEW t \in Threads, NEW op \in {"insert", "erase", "get", "getRoot"},
           NEW x \in Addresses, NEW b \in Blocks \cup {NoBlock}, NEW stable \in SUBSET Blocks,
           MayCall(t, op, x, b, stable)
    PROVE  /\ TypeInv' /\ OpInv' /\ BlockInv' /\ EntryInv' /\ TreeInv' /\ CountInv'
           /\ WantedInv' /\ SearchInv' /\ ResultInv'
  <1>1. TypeInv /\ OpInv /\ BlockInv /\ NoBlock \notin Blocks
      BY BlockFacts, Zenon DEF Inv
  <1> Called(t, op, x, b, stable) /\ \A u \in Threads \ {t} : Kept(u)
      BY Zenon DEF MayCall, Called
  <1>2. thr[t].op = "none" /\ thr[t].pc = "idle" /\ thr[t].b = NoBlock
      BY DEF Called, Idle
  <1>3. ASSUME NEW u \in Threads, thr[u].b \in Blocks
        PROVE  thr[u].b # b /\ u # t /\ state'[thr[u].b] = state[thr[u].b] /\ thr'[u].b = thr[u].b
      BY <1>1, <1>2, <1>3, HolderFacts, Zenon DEF MayCall, Kept
  <1>4. TypeInv'
    <2>1. ops' \in 0..MaxOps /\ \A u \in Threads : u > ops' => u > ops /\ u # t
        BY <1>1 DEF Called, TypeInv, Threads
    <2>2. \A u \in Threads : u > ops' => thr'[u] = Idle
        BY <1>1, <2>1, Zenon DEF Kept, TypeInv
    <2> QED BY <1>1, <2>1, <2>2, Zenon DEF MayCall, Called, TypeInv, tree
  <1>5. OpInv'
    <2>1. OpOf(t)'
        BY DEF Called, MayCall, Live, OpOf
    <2>2. ASSUME NEW u \in Threads \ {t} PROVE OpOf(u)'
      <3>1. OpOf(u) /\ Kept(u)
          BY <1>1, Zenon DEF OpInv
      <3>2. thr[u].b # NoBlock => state'[thr[u].b] = state[thr[u].b]
          BY <1>1, <1>3, ThreadFacts, Zenon
      <3>3. ASSUME thr[u].op = "insert", thr[u].b = NoBlock
            PROVE  \E c \in Live' : c.addr = thr[u].x
          BY <3>1, <3>3, Zenon DEF OpOf, MayCall, Live
      <3> QED BY <3>1, <3>2, <3>3, Zenon DEF OpOf, Kept
    <2> QED BY <2>1, <2>2, Zenon DEF OpInv
  <1>6. BlockInv'
      BY <1>1, <1>2, <1>3, ThreadFacts DEF Called, Kept, BlockInv, MayCall
  <1>7. Stored' = Stored
    <2>1. HasEntry(t)' => thr'[t].b = b /\ op = "erase"
        BY Zenon DEF HasEntry, Called
    <2>2. ~ HasEntry(t)
        BY <1>2, Zenon DEF HasEntry
    <2>3. ASSUME NEW c \in Blocks PROVE c \in Stored' <=> c \in Stored
      <3>1. CASE c # b
          BY <2>1, <2>2, <3>1, KeptStored, Zenon DEF MayCall
      <3>2. CASE c = b /\ op = "insert"
          BY <1>3, <2>1, <3>2 DEF MayCall, Stored, Kept
      <3>3. CASE c = b /\ op # "insert"
          BY <3>3, Zenon DEF MayCall, Stored, HasEntry, Called
      <3> QED BY <3>1, <3>2, <3>3, Zenon
    <2> QED BY <2>3, Zenon DEF Stored
  <1>8. Calm
      BY <1>1, <1>2, <1>7, KeptWriting, KeptArrived DEF Called, Descending, Calm
  <1>9. EntryInv' /\ CountInv'
      BY <1>8, CalmEntry, CalmCount, Zenon DEF Inv
  <1>10. TreeInv'
    <2>1. \A u \in Threads : Descending(u)' => u # t
        BY Zenon DEF Descending, Called
    <2>2. \A u \in Threads : Descending(u)' => NodeAt(thr'[u].level, thr'[u].x) \in present
        BY <2>1, KeptFacts, Zenon DEF Inv, TreeInv, Kept
    <2> QED BY <1>8, <2>2, CalmTree DEF Inv
  <1>11. UNCHANGED present
      BY <1>8, Zenon DEF Calm, tree
  <1>12. SearchInv'
    <2>1. ASSUME NEW u \in Threads, At(u, "get", "descend")' PROVE SearchOf(u)'
      <3>1. u # t /\ Kept(u)
          BY <2>1, Zenon DEF At, Called
      <3>2. SearchOf(u)
          BY <2>1, <3>1, Zenon DEF At, Kept, Inv, SearchInv
      <3>3. <<thr[u].level, thr[u].prefix>> \in present'
          BY <1>11, <3>2, Zenon DEF SearchOf
      <3> QED BY <3>1, <3>2, <3>3, KeptFacts
    <2> QED BY <2>1, Zenon DEF SearchInv
  <1>13. ResultInv'
      BY <1>7, KeptFacts, Zenon DEF Called, ResultOf, Inv, ResultInv
  <1>14. WantedInv'
    <2>1. WantedOf(t)'
        BY DEF MayCall, Live, Called, WantedOf, Covers
    <2>2. ASSUME NEW u \in Threads \ {t} PROVE WantedOf(u)'
        BY KeptFacts, Zenon DEF MayCall, Live, Inv, WantedInv
    <2> QED BY <2>1, <2>2, Zenon DEF WantedInv
  <1> QED BY <1>4, <1>5, <1>6, <1>9, <1>10, <1>12, <1>13, <1>14, Zenon

-----------------------------------------------------------------------------
(* Steps of one thread                                                     *)

\* A thread that does not move.
LEMMA SameKept ==
    ASSUME NEW u, thr'[u] = thr[u]
    PROVE  Kept(u)
  BY Zenon DEF Kept

\* Thread t takes a step, and nothing else changes.
Quiet(t) ==
    /\ UNCHANGED <<tree, state, ops>>
    /\ thr' \in [Threads -> ThreadType] /\ (\A u \in Threads \ {t} : thr'[u] = thr[u])
    /\ thr'[t].op = thr[t].op /\ thr'[t].x = thr[t].x /\ thr'[t].b = thr[t].b
    /\ thr'[t].stable = thr[t].stable
    /\ thr[t].pc \notin {"idle", "payload"} /\ thr'[t].pc # "payload"
    /\ thr[t].b \in Blocks => (HasEntry(t)' <=> HasEntry(t))
    /\ thr[t].b \in Blocks /\ Descending(t) => Descending(t)' /\ thr'[t].level <= thr[t].level
    /\ Descending(t)' => NodeAt(thr'[t].level, thr[t].x) \in present

\* Such a step keeps the invariant if it keeps that of the thread.
LEMMA QuietPreserves ==
    ASSUME Spanning,
           Inv, NEW t \in Threads, Quiet(t), OpOf(t)', At(t, "get", "descend")' => SearchOf(t)',
           ResultOf(t)'
    PROVE  /\ TypeInv' /\ OpInv' /\ BlockInv' /\ EntryInv' /\ TreeInv' /\ CountInv'
           /\ WantedInv' /\ SearchInv' /\ ResultInv'
  <1>1. TypeInv /\ OpInv /\ BlockInv
      BY Zenon DEF Inv
  <1>2. \A u \in Threads \ {t} : thr'[u] = thr[u] /\ Kept(u)
      BY SameKept, Zenon DEF Quiet
  <1>3. TypeInv'
    <2>1. thr[t] # Idle
        BY DEF Quiet, Idle
    <2>2. \A u \in Threads : u > ops' => thr'[u] = Idle
        BY <1>1, <1>2, <2>1, Zenon DEF Quiet, TypeInv
    <2> QED BY <1>1, <2>2, Zenon DEF TypeInv, Quiet, tree
  <1>4. OpInv'
    <2>1. ASSUME NEW u \in Threads \ {t} PROVE OpOf(u)'
      <3>1. OpOf(u) /\ thr'[u] = thr[u] /\ UNCHANGED state
          BY <1>1, <1>2, Zenon DEF OpInv, Quiet
      <3>2. Live' = Live
          BY <3>1, Zenon DEF Live
      <3> QED BY <3>1, <3>2, Zenon DEF OpOf
    <2> QED BY <2>1, Zenon DEF OpInv
  <1>5. BlockInv'
    <2>1. \A u \in Threads : thr'[u].b = thr[u].b
        BY <1>2, Zenon DEF Quiet
    <2> QED BY <1>1, <2>1 DEF BlockInv, Quiet
  <1>6. Calm
    <2>1. \A b \in Blocks : b \in Stored' <=> b \in Stored
        BY <1>2, KeptStored, Zenon DEF Quiet
    <2>2. Stored' = Stored
        BY <2>1, Zenon DEF Stored
    <2>3. \A x \in Addresses : Writing(x)' <=> Writing(x)
        BY <1>2, KeptWriting, Zenon DEF Quiet
    <2>4. thr'[t].level \in 0..Root
        BY Zenon DEF Quiet, ThreadType
    <2>5. \A l \in 0..Root : Arrived(l) \subseteq Arrived(l)'
        BY <1>1, <1>2, <2>4, KeptArrived, Zenon DEF Quiet
    <2> QED BY <2>2, <2>3, <2>5, Zenon DEF Calm, Quiet
  <1>7. EntryInv' /\ CountInv'
      BY <1>6, CalmEntry, CalmCount, Zenon DEF Inv
  <1>8. TreeInv'
    <2>1. \A u \in Threads \ {t} : Descending(u)' => NodeAt(thr'[u].level, thr'[u].x) \in present
        BY <1>2, KeptFacts, Zenon DEF Inv, TreeInv
    <2>2. \A u \in Threads : Descending(u)' => NodeAt(thr'[u].level, thr'[u].x) \in present
        BY <2>1, Zenon DEF Quiet
    <2> QED BY <1>6, <2>2, CalmTree, Zenon DEF Inv
  <1>9. UNCHANGED present /\ Stored' = Stored /\ Live' = Live
      BY <1>6, Zenon DEF Calm, tree, Quiet, Live
  <1>10. SearchInv'
    <2>1. ASSUME NEW u \in Threads \ {t}, At(u, "get", "descend")' PROVE SearchOf(u)'
      <3>1. SearchOf(u)
          BY <1>2, <2>1, Zenon DEF At, Inv, SearchInv
      <3>2. <<thr[u].level, thr[u].prefix>> \in present'
          BY <1>9, <3>1, Zenon DEF SearchOf
      <3> QED BY <1>2, <3>1, <3>2, KeptFacts, Zenon
    <2> QED BY <2>1, Zenon DEF SearchInv
  <1>11. ResultInv'
    <2>1. ASSUME NEW u \in Threads \ {t} PROVE ResultOf(u)'
        BY <1>2, <1>9, KeptFacts, Zenon DEF Inv, ResultInv
    <2> QED BY <2>1, Zenon DEF ResultInv
  <1>12. WantedInv'
    <2>1. ASSUME NEW u \in Threads \ {t} PROVE WantedOf(u)'
        BY <1>2, <1>9, KeptFacts, Zenon DEF Inv, WantedInv
    <2>2. WantedOf(t)'
        BY <1>9, Zenon DEF Inv, WantedInv, WantedOf, Quiet, Covers
    <2> QED BY <2>1, <2>2, Zenon DEF WantedInv
  <1> QED BY <1>3, <1>4, <1>5, <1>7, <1>8, <1>10, <1>11, <1>12, Zenon

\* What lies in front of a search that begins in a node.
LEMMA EnterNode ==
    ASSUME Spanning, NEW l \in Nat, NEW prefix \in Nat, NEW x \in Nat, NEW y \in Nat,
           prefix <= Pre(l + 1, x)
    PROVE  /\ y <= x /\ Pre(l + 1, y) <= prefix
                => Pre(l, y) <= prefix * Base + StartIndex(l, prefix, x)
           /\ Pre(l, y) <= prefix * Base + StartIndex(l, prefix, x) => Pre(l + 1, y) <= prefix
  <1>1. PICK i \in 0..(Base - 1) :
            /\ i = StartIndex(l, prefix, x)
            /\ i = Base - 1 \/ prefix * Base + i = Pre(l, x)
      BY StartIndexFacts
  <1>2. PICK b \in Nat : b = Base /\ b >= 2
      BY Spans, Zenon
  <1>3. PICK m \in Nat : m = prefix * b
      OBVIOUS
  <1>4. (prefix + 1) * b = m + b
      BY <1>3
  <1> PICK p \in Nat, q \in Nat : p = Pre(l, y) /\ q = Pre(l + 1, y)
    <2>1. l + 1 \in Nat
        OBVIOUS
    <2> QED BY <2>1, PreFacts, Zenon
  <1>5. q < prefix + 1 <=> p < (prefix + 1) * b
    <2>1. prefix + 1 \in Nat
        OBVIOUS
    <2> QED BY <1>2, <2>1, PreBelow, Zenon
  <1>6. q <= prefix <=> p < m + b
      BY <1>4, <1>5
  <1>7. i = b - 1 \/ m + i = Pre(l, x)
      BY <1>1, <1>2, <1>3, Zenon
  <1>8. y <= x => p <= Pre(l, x)
      BY PreMonotone, Zenon
  <1>9. i \in 0..(b - 1) /\ (y <= x /\ q <= prefix => p <= m + i) /\ (p <= m + i => q <= prefix)
      BY <1>2, <1>6, <1>7, <1>8
  <1> QED BY <1>1, <1>2, <1>3, <1>9, Zenon

\* An insertion or lookup begins at the root.
LEMMA EnterSharedPreserves ==
    ASSUME Spanning, Inv, NEW t \in Threads, EnterShared(t)
    PROVE  /\ TypeInv' /\ OpInv' /\ BlockInv' /\ EntryInv' /\ TreeInv' /\ CountInv'
           /\ WantedInv' /\ SearchInv' /\ ResultInv'
  <1>1. TypeInv /\ OpInv /\ OpOf(t) /\ WantedOf(t)
      BY Zenon DEF Inv, OpInv, WantedInv
  <1>2. /\ thr[t].pc = "enter" /\ thr[t].op # "erase" /\ UNCHANGED <<tree, state, ops>>
        /\ Moved(t, "descend", Root, 0, StartIndex(Root, 0, thr[t].x), 0, thr[t].result)
      BY <1>1, EnterSharedCases, Zenon
  <1>3. thr[t].x \in Addresses /\ thr[t].x \in Nat /\ thr[t].stable \subseteq Blocks
      BY <1>1, ThreadFacts, Zenon
  <1>4. NodeAt(Root, thr[t].x) \in present /\ <<Root, 0>> \in present
    <2>1. NodeAt(Root, 0) = <<Root, Pre(Root + 1, 0)>> /\ Root + 1 = Levels /\ 0 \in Addresses
        BY Sizes, NodeFacts
    <2>2. NodeAt(Root, 0) = <<Root, 0>>
        BY <2>1, PreTop, Zenon
    <2> QED BY <1>3, <2>2, RootNode, Zenon DEF Inv, TreeInv
  <1>5. Quiet(t)
      BY <1>2, <1>3, <1>4, Zenon DEF Quiet, Moved, HasEntry, Descending
  <1>6. OpOf(t)'
    <2>1. Live' = Live
        BY <1>2, Zenon DEF Live
    <2> QED BY <1>1, <1>2, <2>1, Zenon DEF OpOf, Moved
  <1>7. ASSUME At(t, "get", "descend")' PROVE SearchOf(t)'
    <2>1. /\ thr'[t].level = Root /\ thr'[t].prefix = 0 /\ thr'[t].attempts = 0
          /\ thr'[t].i = StartIndex(Root, 0, thr[t].x) /\ thr'[t].x = thr[t].x
          /\ thr'[t].stable = thr[t].stable /\ thr[t].op = "get"
        BY <1>2, <1>7, Zenon DEF Moved, At
    <2>2. Looking(t)' = 0 * Base + StartIndex(Root, 0, thr[t].x)
        BY <2>1, Zenon DEF Looking
    <2>3. Root \in Nat /\ 0 \in Nat /\ Root + 1 = Levels
        BY Sizes, Zenon
    <2>4. \A y \in Addresses : Pre(Root + 1, y) = 0
        BY <2>3, PreTop, Zenon
    <2>5. 0 <= Pre(Root + 1, thr[t].x)
        BY <1>3, <2>4
    <2>6. Looking(t)' <= Pre(Root, thr[t].x)
        BY <1>3, <2>2, <2>3, <2>5, StartIndexFacts, Zenon
    <2>7. ASSUME NEW b \in thr[t].stable PROVE Pre(Root, b.addr) <= Looking(t)'
      <3>1. b \in Blocks /\ b.addr \in Nat /\ b.addr \in Addresses
          BY <1>3, BlockFacts, Zenon
      <3>2. b.addr <= thr[t].x
          BY <1>1, <2>1, Zenon DEF WantedOf, Covers
      <3>3. Pre(Root + 1, b.addr) <= 0
          BY <2>4, <3>1
      <3> QED BY <1>3, <2>2, <2>3, <2>5, <3>1, <3>2, <3>3, EnterNode, Zenon
    <2>8. <<Root, 0>> \in present'
        BY <1>2, <1>4, Zenon DEF tree
    <2> QED BY <2>1, <2>5, <2>6, <2>7, <2>8 DEF SearchOf, Pre
  <1>8. ResultOf(t)'
      BY <1>2, Zenon DEF ResultOf, Moved
  <1> QED BY <1>5, <1>6, <1>7, <1>8, QuietPreserves, Zenon

\* An erasure begins.
LEMMA EnterErasePreserves ==
    ASSUME Spanning, Inv, NEW t \in Threads, EnterErase(t)
    PROVE  /\ TypeInv' /\ OpInv' /\ BlockInv' /\ EntryInv' /\ TreeInv' /\ CountInv'
           /\ WantedInv' /\ SearchInv' /\ ResultInv'
  <1>1. TypeInv /\ OpOf(t)
      BY Zenon DEF Inv, OpInv
  <1> /\ thr[t].pc = "enter" /\ thr[t].op = "erase" /\ UNCHANGED <<tree, state, ops>>
      /\ Stays(t, "descend")
      BY <1>1, EnterEraseCases, Zenon DEF At
  <1>2. Quiet(t)
      BY Zenon DEF Quiet, Stays, Moved, HasEntry, Descending
  <1>3. OpOf(t)'
      BY <1>1, Zenon DEF Live, OpOf, Stays, Moved
  <1>4. ~ At(t, "get", "descend")' /\ ResultOf(t)'
      BY Zenon DEF ResultOf, Stays, Moved, At
  <1> QED BY <1>2, <1>3, <1>4, QuietPreserves

\* The end of an operation settles the state of its block.
LEMMA LeavePreserves ==
    ASSUME Spanning, Inv, NEW t \in Threads, Leave(t)
    PROVE  /\ TypeInv' /\ OpInv' /\ BlockInv' /\ EntryInv' /\ TreeInv' /\ CountInv'
           /\ WantedInv' /\ SearchInv' /\ ResultInv'
  <1>1. TypeInv /\ OpInv /\ BlockInv /\ OpOf(t) /\ NoBlock \notin Blocks
      BY BlockFacts, Zenon DEF Inv, OpInv
  <1> /\ thr[t].pc = "leave" /\ state' = Settled(t) /\ UNCHANGED <<tree, ops>>
      /\ thr' \in [Threads -> ThreadType] /\ thr'[t] = Idle
      /\ thr'[t].pc = "idle" /\ thr'[t].op = "none" /\ thr'[t].b = NoBlock
      /\ \A u \in Threads \ {t} : thr'[u] = thr[u] /\ Kept(u)
      BY <1>1, LeaveCases, SameKept, Zenon
  <1>2. /\ state' \in [Blocks -> {"free", "inserting", "live", "erasing"}]
        /\ \A c \in Blocks : c # thr[t].b => state'[c] = state[c]
        /\ thr[t].b \in Blocks =>
             \/ thr[t].op = "insert" /\ state[thr[t].b] = "inserting" /\ state'[thr[t].b] = "live"
             \/ thr[t].op = "erase" /\ state[thr[t].b] = "erasing" /\ state'[thr[t].b] = "free"
      BY <1>1, ThreadFacts, Zenon DEF Settled, TypeInv, OpOf
  <1>3. \A u \in Threads \ {t} : thr[u].b # NoBlock => state'[thr[u].b] = state[thr[u].b]
      BY <1>1, <1>2, ThreadFacts DEF BlockInv
  <1>4. Live \subseteq Live'
      BY <1>2, Zenon DEF Live
  <1>5. TypeInv'
      BY <1>1, <1>2 DEF TypeInv, tree
  <1>6. OpInv'
    <2>1. OpOf(t)'
        BY Zenon DEF OpOf
    <2>2. ASSUME NEW u \in Threads \ {t} PROVE OpOf(u)'
      <3>1. OpOf(u) /\ thr'[u] = thr[u]
          BY <1>1, Zenon DEF OpInv
      <3> QED BY <1>3, <1>4, <3>1 DEF OpOf
    <2> QED BY <2>1, <2>2, Zenon DEF OpInv
  <1>7. BlockInv'
      BY <1>1, <1>2 DEF BlockInv
  <1>8. Stored' = Stored
      BY <1>2 DEF HasEntry, Stored, BlockInv
  <1>9. Calm
      BY <1>1, <1>8, KeptWriting, KeptArrived, Zenon DEF Descending, Calm
  <1>10. EntryInv' /\ CountInv'
      BY <1>9, CalmEntry, CalmCount DEF Inv
  <1>11. TreeInv'
      BY <1>9, CalmTree, Zenon DEF Descending, Inv, TreeInv
  <1>12. SearchInv'
      BY KeptFacts, Zenon DEF At, Inv, SearchInv, SearchOf, tree
  <1>13. ResultInv'
      BY <1>8, Zenon DEF ResultOf, Inv, ResultInv
  <1>14. WantedInv'
      BY <1>4, Zenon DEF WantedOf, Inv, WantedInv
  <1> QED BY <1>5, <1>6, <1>7, <1>10, <1>11, <1>12, <1>13, <1>14

-----------------------------------------------------------------------------
(* Paths                                                                   *)

\* With a node the tree has the nodes above it.
Paths ==
    \A x \in Addresses : \A l \in 0..Root : NodeAt(l, x) \in present =>
        \A k \in l..Root : NodeAt(k, x) \in present

\* The path to a node.
LEMMA Path ==
    ASSUME Paths, NEW x \in Addresses, NEW l \in 0..Root, NodeAt(l, x) \in present,
           NEW k \in l..Root
    PROVE  NodeAt(k, x) \in present
  BY Zenon DEF Paths

\* A block with an entry can be found.
LEMMA StoredFacts ==
    ASSUME Spanning, Paths, TypeInv, TreeInv, EntryInv, NEW b \in Stored
    PROVE  /\ b \in Blocks /\ b.addr \in Addresses /\ Occupied(b.addr)
           /\ size[b.addr] = b.size /\ size[b.addr] # 0 /\ size[b.addr] \in Nat
  <1>1. b \in Blocks /\ b.addr \in Addresses /\ b.size \in Nat /\ b.size # 0
      BY BlockFacts, Zenon DEF Stored
  <1>2. size[b.addr] = b.size /\ NodeAt(0, b.addr) \in present
      BY Zenon DEF EntryInv
  <1>3. 0 \in 0..Root
      BY Sizes
  <1>4. \A k \in 0..Root : NodeAt(k, b.addr) \in present
      BY <1>1, <1>2, <1>3, Path, Zenon
  <1> QED BY <1>1, <1>2, <1>4 DEF Occupied

\* What a lookup has to find can be found.
LEMMA WantedFacts ==
    ASSUME Spanning, Paths,
           Inv, NEW t \in Threads, thr[t].op \in {"get", "getRoot"}, NEW b \in thr[t].stable
    PROVE  /\ b \in Stored /\ b \in Blocks /\ b.addr \in Addresses /\ b.addr \in Nat
           /\ b.addr <= thr[t].x /\ thr[t].x < b.addr + b.size
           /\ thr[t].op = "getRoot" => b.addr = thr[t].x
           /\ Occupied(b.addr) /\ size[b.addr] = b.size /\ size[b.addr] # 0 /\ size[b.addr] \in Nat
  <1> b \in Live /\ (IF thr[t].op = "get" THEN Covers(b, thr[t].x) ELSE b.addr = thr[t].x)
      BY Zenon DEF Inv, WantedInv, WantedOf
  <1> b \in Stored
      BY Zenon DEF Live, Stored
  <1>1. b \in Blocks /\ b.addr \in Nat /\ b.size \in Nat /\ b.size # 0
      BY BlockFacts, Zenon DEF Stored
  <1>2. b.addr <= thr[t].x /\ thr[t].x < b.addr + b.size
      BY <1>1 DEF Covers
  <1>3. /\ b.addr \in Addresses /\ Occupied(b.addr)
        /\ size[b.addr] = b.size /\ size[b.addr] # 0 /\ size[b.addr] \in Nat
      BY StoredFacts, Zenon DEF Inv
  <1> QED BY <1>1, <1>2, <1>3

-----------------------------------------------------------------------------
(* Searches                                                                *)

\* A search that goes up has left the node behind, with all that is in it.
LEMMA SearchUp ==
    ASSUME Spanning,
           Inv, NEW t \in Threads, At(t, "get", "descend"), NEW a \in 0..1, GoesUp(t, a),
           UNCHANGED present,
           \A b \in thr[t].stable : Pre(thr[t].level + 1, b.addr) < thr[t].prefix,
           a = 1 => \A y \in Addresses : Pre(thr[t].level + 1, y) < thr[t].prefix
                                            => Pre(1, y) < Pre(1, thr[t].x)
    PROVE  SearchOf(t)'
  <1>1. TypeInv /\ SearchOf(t)
      BY Zenon DEF Inv, SearchInv
  <1>2. PICK l \in 0..Root, p \in Nat : l = thr[t].level /\ p = thr[t].prefix /\ l < Root /\ l \in Nat
      BY <1>1, ThreadFacts DEF GoesUp
  <1>3. /\ thr'[t].level = l + 1 /\ thr'[t].prefix = p \div Base /\ thr'[t].i = (p % Base) - 1
        /\ thr'[t].attempts = a /\ thr'[t].x = thr[t].x /\ thr'[t].stable = thr[t].stable
      BY <1>2, Zenon DEF GoesUp, Moved
  <1>4. thr[t].x \in Addresses /\ thr[t].x \in Nat /\ thr[t].stable \subseteq Blocks
      BY <1>1, ThreadFacts, Zenon
  <1>5. <<l, p>> \in present /\ p <= Pre(l + 1, thr[t].x)
      BY <1>1, <1>2, Zenon DEF SearchOf
  <1>6. PICK y \in Addresses : <<l, p>> = NodeAt(l, y)
      BY <1>1, <1>5, NodeCases, Zenon DEF TypeInv
  <1>7. p = Pre(l + 1, y) /\ y \in Nat
      BY <1>6, NodeFacts, Sizes
  <1>8. l + 1 \in Nat /\ (l + 1) + 1 \in Nat
      OBVIOUS
  <1>9. PICK d \in Nat, r \in 0..(Base - 1) : d = p \div Base /\ r = p % Base /\ p = d * Base + r
    <2>1. /\ Pre((l + 1) + 1, y) = Pre(l + 1, y) \div Base
          /\ Pre(l + 1, y) % Base \in 0..(Base - 1)
          /\ Pre(l + 1, y) = Pre((l + 1) + 1, y) * Base + (Pre(l + 1, y) % Base)
          /\ Pre((l + 1) + 1, y) \in Nat
        BY <1>7, PreStep, PreFacts
    <2> QED BY <1>7, <2>1, Zenon
  <1>10. <<l + 1, d>> \in present'
      BY <1>2, <1>5, <1>9, Zenon DEF ParentOf, Inv, TreeInv
  <1>11. d <= Pre((l + 1) + 1, thr[t].x)
    <2>1. PICK m \in Nat : m = d * Base
        BY Sizes
    <2>2. Pre((l + 1) + 1, thr[t].x) < d <=> Pre(l + 1, thr[t].x) < m
        BY <1>4, <2>1, PreBelow
    <2>3. Pre(l + 1, thr[t].x) \in Nat /\ Pre((l + 1) + 1, thr[t].x) \in Nat
        BY <1>4, <1>8, PreFacts, Zenon
    <2> QED BY <1>5, <1>7, <1>9, <2>1, <2>2, <2>3
  <1>12. Looking(t)' = p - 1
    <2>1. Looking(t)' = d * Base + (r - 1)
        BY <1>3, <1>9, Zenon DEF Looking
    <2>2. PICK m \in Nat : m = d * Base
        BY Sizes
    <2>3. r \in Int
        BY Sizes
    <2>4. p = m + r /\ Looking(t)' = m + (r - 1)
        BY <1>9, <2>1, <2>2, Zenon
    <2> QED BY ONLY <2>3, <2>4, m \in Nat
  <1> \A y1 \in Addresses : Pre(l + 1, y1) \in Nat /\ (Pre(l + 1, y1) <= p - 1 <=> Pre(l + 1, y1) < p)
    <2>1. \A y1 \in Addresses : Pre(l + 1, y1) \in Nat
        BY <1>8, PreFacts, Sizes, Zenon
    <2> QED BY <2>1
  <1>13. p - 1 <= Pre(l + 1, thr[t].x)
      BY <1>4, <1>5
  <1>14. \A b \in thr[t].stable : Pre(l + 1, b.addr) <= p - 1
      BY <1>2, <1>4, BlockFacts, Zenon
  <1>15. a = 1 => \A y1 \in Addresses : Pre(l + 1, y1) <= p - 1 => Pre(1, y1) < Pre(1, thr[t].x)
      BY <1>2, Zenon
  <1>16. l + 1 > 0 /\ l + 1 # 0
      OBVIOUS
  <1> QED BY <1>3, <1>9, <1>10, <1>11, <1>12, <1>13, <1>14, <1>15, <1>16, Zenon DEF SearchOf,
             Pre

\* A search that goes left has seen that nothing is there.
LEMMA SearchLeft ==
    ASSUME Spanning,
           Inv, NEW t \in Threads, At(t, "get", "descend"), GoesLeft(t), UNCHANGED present,
           \A b \in thr[t].stable : Pre(thr[t].level, b.addr) # Looking(t)
    PROVE  SearchOf(t)'
  <1> TypeInv /\ SearchOf(t)
      BY Zenon DEF Inv, SearchInv
  <1>1. /\ thr'[t].level = thr[t].level /\ thr'[t].prefix = thr[t].prefix
        /\ thr'[t].i = thr[t].i - 1 /\ thr'[t].attempts = thr[t].attempts /\ thr'[t].x = thr[t].x
        /\ thr'[t].stable = thr[t].stable
      BY Zenon DEF GoesLeft, Moved
  <1> PICK k \in Int : k = Looking(t) /\ Looking(t)' = k - 1
      BY <1>1, LookingFacts, ThreadFacts DEF Looking
  <1> thr[t].level \in Nat /\ thr[t].x \in Addresses /\ thr[t].stable \subseteq Blocks
      BY ThreadFacts
  <1> \A y \in Addresses : Pre(thr[t].level, y) \in Nat
      BY PreFacts, Sizes, Zenon
  <1>2. k - 1 <= Pre(thr[t].level, thr[t].x)
      BY DEF SearchOf
  <1>3. \A b \in thr[t].stable : Pre(thr[t].level, b.addr) <= k - 1
      BY BlockFacts DEF SearchOf
  <1>4. \A y \in Addresses : Pre(thr[t].level, y) <= k - 1 => Pre(thr[t].level, y) <= k
      OBVIOUS
  <1> QED BY <1>1, <1>2, <1>3, <1>4, Zenon DEF SearchOf, Pre

\* A search that goes down has all that it has to find in front of it.
LEMMA SearchDown ==
    ASSUME Spanning, Paths,
           Inv, NEW t \in Threads, At(t, "get", "descend"), GoesDown(t), UNCHANGED present,
           thr[t].i >= 0, thr[t].level > 0, <<thr[t].level - 1, Looking(t)>> \in present
    PROVE  SearchOf(t)'
  <1>1. TypeInv /\ SearchOf(t)
      BY Zenon DEF Inv, SearchInv
  <1>2. PICK l \in 0..Root : l = thr[t].level - 1 /\ l + 1 = thr[t].level /\ l \in Nat
      BY <1>1, ThreadFacts, Sizes
  <1>3. PICK p \in Nat : p = Looking(t)
      BY <1>1, LookingFacts, Zenon
  <1>4. /\ thr'[t].level = l /\ thr'[t].prefix = p /\ thr'[t].i = StartIndex(l, p, thr[t].x)
        /\ thr'[t].attempts = thr[t].attempts /\ thr'[t].x = thr[t].x
        /\ thr'[t].stable = thr[t].stable
      BY <1>2, <1>3, Zenon DEF GoesDown, Moved
  <1>5. thr[t].x \in Addresses /\ thr[t].x \in Nat /\ thr[t].stable \subseteq Blocks /\ thr[t].op = "get"
      BY <1>1, ThreadFacts, Zenon DEF At
  <1>6. p <= Pre(l + 1, thr[t].x) /\ <<l, p>> \in present
      BY <1>1, <1>2, <1>3, Zenon DEF SearchOf
  <1>7. Looking(t)' = p * Base + StartIndex(l, p, thr[t].x)
      BY <1>4, Zenon DEF Looking
  <1>8. Looking(t)' <= Pre(l, thr[t].x)
      BY <1>2, <1>5, <1>6, <1>7, StartIndexFacts
  <1>9. ASSUME NEW b \in thr[t].stable PROVE Pre(l, b.addr) <= Looking(t)'
    <2>1. b.addr \in Nat /\ b.addr <= thr[t].x
        BY <1>5, WantedFacts, Zenon
    <2>2. Pre(l + 1, b.addr) <= p
        BY <1>1, <1>2, <1>3, Zenon DEF SearchOf
    <2> QED BY <1>2, <1>5, <1>6, <1>7, <2>1, <2>2, EnterNode
  <1>10. \A y \in Addresses : Pre(l, y) <= Looking(t)' => Pre(l + 1, y) <= p
      BY <1>2, <1>5, <1>6, <1>7, EnterNode, Sizes
  <1>11. ASSUME thr[t].attempts = 1
         PROVE  \A y \in Addresses : Pre(l + 1, y) <= p => Pre(1, y) < Pre(1, thr[t].x)
      BY <1>1, <1>2, <1>3, <1>11, Zenon DEF SearchOf
  <1>12. ASSUME thr[t].attempts = 1, l = 0 PROVE p < Pre(1, thr[t].x)
    <2>1. <<l, p>> \in AllNodes /\ <<l, p>>[1] = l
        BY <1>1, <1>6, Zenon DEF TypeInv
    <2>2. PICK y \in Addresses : <<l, p>> = NodeAt(l, y)
        BY <2>1, NodeCases, Zenon
    <2>3. p = Pre(l + 1, y) /\ l + 1 = 1
        BY <1>12, <2>2, NodeFacts
    <2>4. Pre(l + 1, y) <= p
        BY <2>3
    <2> QED BY <1>11, <1>12, <2>3, <2>4, Zenon
  <1> QED BY <1>4, <1>6, <1>8, <1>9, <1>10, <1>11, <1>12, Zenon DEF SearchOf, Pre

\* A search step is quiet, and keeps what is known of its call.
LEMMA SearchQuiet ==
    ASSUME Spanning, Inv, NEW t \in Threads, SearchNode(t) \/ SearchLeaf(t)
    PROVE  Quiet(t) /\ OpOf(t)' /\ UNCHANGED present /\ Stored' = Stored
  <1>1. TypeInv /\ OpOf(t) /\ SearchInv
      BY Zenon DEF Inv, OpInv
  <1> /\ Inner(t) /\ UNCHANGED tree /\ thr[t].op = "get" /\ thr[t].pc = "descend"
      /\ thr'[t].pc \in {"descend", "leave"}
      BY <1>1, SearchInner, Zenon DEF At
  <1>2. Quiet(t)
      BY Zenon DEF Quiet, Inner, HasEntry, Descending, tree
  <1>3. OpOf(t)'
      BY <1>1, Zenon DEF OpOf, Inner
  <1>4. \A b \in Blocks : b \in Stored' <=> b \in Stored
      BY <1>2, KeptStored, SameKept, Zenon DEF Quiet
  <1>5. Stored' = Stored
      BY <1>4, Zenon DEF Stored
  <1> QED BY <1>2, <1>3, <1>5 DEF tree

\* get_entry above the leaves.
LEMMA SearchNodePreserves ==
    ASSUME Spanning, Paths, Inv, NEW t \in Threads, SearchNode(t)
    PROVE  /\ TypeInv' /\ OpInv' /\ BlockInv' /\ EntryInv' /\ TreeInv' /\ CountInv'
           /\ WantedInv' /\ SearchInv' /\ ResultInv'
  <1>1. TypeInv /\ SearchInv
      BY Zenon DEF Inv
  <1>2. Quiet(t) /\ OpOf(t)' /\ UNCHANGED present /\ Stored' = Stored
      BY SearchQuiet, Zenon
  <1>3. At(t, "get", "descend") /\ thr[t].level > 0 /\ SearchOf(t) /\ thr[t].op = "get"
      BY <1>1, SearchNodeCases, Zenon DEF SearchInv, At
  <1>4. /\ thr[t].level \in 0..Root /\ thr[t].level \in Nat /\ thr[t].prefix \in Nat
        /\ thr[t].stable \subseteq Blocks /\ thr[t].attempts \in 0..1
      BY <1>1, ThreadFacts, Sizes
  <1>5. PICK m \in Nat : /\ m = thr[t].prefix * Base /\ Looking(t) \in Int
                         /\ thr[t].i < 0 => Looking(t) = m - 1
      BY <1>1, LookingFacts, Zenon
  <1>6. \A y \in Addresses : /\ Pre(thr[t].level, y) \in Nat
                             /\ Pre(thr[t].level + 1, y) < thr[t].prefix <=> Pre(thr[t].level, y) < m
      BY <1>4, <1>5, PreFacts, PreBelow, Sizes, Zenon
  <1>7. CASE thr[t].i < 0 /\ thr[t].level = Root /\ GivesUp(t)
    <2>1. thr[t].prefix = 0
      <3>1. thr[t].prefix <= Pre(Root + 1, thr[t].x)
          BY <1>3, <1>7, Zenon DEF SearchOf
      <3>2. Pre(Root + 1, thr[t].x) = 0
          BY <1>1, ThreadFacts, PreTop, Sizes, Zenon
      <3> QED BY <1>4, <3>1, <3>2
    <2>2. Looking(t) < 0
        BY <1>5, <1>7, <2>1, Sizes
    <2>3. thr[t].stable = {}
      <3>1. ASSUME NEW b \in thr[t].stable PROVE FALSE
        <4>1. Pre(thr[t].level, b.addr) <= Looking(t)
            BY <1>3, Zenon DEF SearchOf
        <4>2. Pre(thr[t].level, b.addr) \in Nat
            BY <1>4, <1>6, BlockFacts, Zenon
        <4> QED BY <1>5, <2>2, <4>1, <4>2
      <3> QED BY <3>1, Zenon
    <2>4. thr'[t].pc = "leave" /\ thr'[t].stable = {} /\ thr'[t].result = -1
        BY <1>7, <2>3, Zenon DEF GivesUp, Moved
    <2>5. ResultOf(t)' /\ ~ At(t, "get", "descend")'
        BY <2>4 DEF ResultOf, At
    <2> QED BY <1>2, <2>5, QuietPreserves, Zenon
  <1>8. CASE thr[t].i < 0 /\ GoesUp(t, thr[t].attempts)
    <2>1. \A b \in thr[t].stable : Pre(thr[t].level + 1, b.addr) < thr[t].prefix
      <3>1. ASSUME NEW b \in thr[t].stable PROVE Pre(thr[t].level + 1, b.addr) < thr[t].prefix
        <4>1. Pre(thr[t].level, b.addr) <= m - 1 /\ b.addr \in Addresses
            BY <1>3, <1>4, <1>5, <1>8, BlockFacts, Zenon DEF SearchOf
        <4>2. Pre(thr[t].level, b.addr) < m
            BY <1>5, <1>6, <4>1
        <4> QED BY <1>6, <4>1, <4>2, Zenon
      <3> QED BY <3>1, Zenon
    <2>2. thr[t].attempts = 1 => \A y \in Addresses : Pre(thr[t].level + 1, y) < thr[t].prefix
                                                        => Pre(1, y) < Pre(1, thr[t].x)
      <3>1. ASSUME NEW y \in Addresses, thr[t].attempts = 1, Pre(thr[t].level + 1, y) < thr[t].prefix
            PROVE  Pre(1, y) < Pre(1, thr[t].x)
        <4>1. Pre(thr[t].level, y) <= m - 1
            BY <1>5, <1>6, <3>1
        <4> QED BY <1>3, <1>5, <1>8, <3>1, <4>1, Zenon DEF SearchOf
      <3> QED BY <3>1, Zenon
    <2>3. SearchOf(t)'
        BY <1>2, <1>3, <1>4, <1>8, <2>1, <2>2, SearchUp, Zenon
    <2>4. ResultOf(t)'
        BY <1>8, Zenon DEF ResultOf, GoesUp, Moved
    <2> QED BY <1>2, <2>3, <2>4, QuietPreserves, Zenon
  <1>9. CASE thr[t].i >= 0 /\ <<thr[t].level - 1, Looking(t)>> \in present /\ GoesDown(t)
    <2>1. SearchOf(t)'
        BY <1>2, <1>3, <1>9, SearchDown, Zenon
    <2>2. ResultOf(t)'
        BY <1>9, Zenon DEF ResultOf, GoesDown, Moved
    <2> QED BY <1>2, <2>1, <2>2, QuietPreserves, Zenon
  <1>10. CASE thr[t].i >= 0 /\ <<thr[t].level - 1, Looking(t)>> \notin present /\ GoesLeft(t)
    <2>1. ASSUME NEW b \in thr[t].stable PROVE Pre(thr[t].level, b.addr) # Looking(t)
      <3>1. thr[t].level - 1 \in 0..Root /\ (thr[t].level - 1) + 1 = thr[t].level
          BY <1>3, <1>4, Sizes
      <3>2. NodeAt(thr[t].level - 1, b.addr) \in present /\ b.addr \in Addresses
          BY <1>3, <3>1, WantedFacts, Zenon DEF Occupied
      <3>3. NodeAt(thr[t].level - 1, b.addr) = <<thr[t].level - 1, Pre(thr[t].level, b.addr)>>
          BY <3>1, <3>2, NodeFacts
      <3> QED BY <1>10, <3>2, <3>3, Zenon
    <2>2. SearchOf(t)'
        BY <1>2, <1>3, <1>10, <2>1, SearchLeft, Zenon
    <2>3. ResultOf(t)'
        BY <1>10, Zenon DEF ResultOf, GoesLeft, Moved
    <2> QED BY <1>2, <2>2, <2>3, QuietPreserves, Zenon
  <1> QED BY <1>1, <1>7, <1>8, <1>9, <1>10, SearchNodeCases, Zenon

\* get_entry in a leaf: what it has to find is there, or in the next leaf.
LEMMA SearchLeafPreserves ==
    ASSUME Spanning, Paths, Inv, NEW t \in Threads, SearchLeaf(t)
    PROVE  /\ TypeInv' /\ OpInv' /\ BlockInv' /\ EntryInv' /\ TreeInv' /\ CountInv'
           /\ WantedInv' /\ SearchInv' /\ ResultInv'
  <1>1. TypeInv /\ SearchInv /\ TreeInv /\ EntryInv
      BY Zenon DEF Inv
  <1>2. Quiet(t) /\ OpOf(t)' /\ UNCHANGED present /\ Stored' = Stored
      BY SearchQuiet, Zenon
  <1>3. At(t, "get", "descend") /\ thr[t].level = 0 /\ SearchOf(t) /\ thr[t].op = "get"
      BY <1>1, SearchLeafCases, Zenon DEF SearchInv, At
  <1>4. /\ thr[t].prefix \in Nat /\ thr[t].x \in Addresses /\ thr[t].x \in Nat
        /\ thr[t].stable \subseteq Blocks /\ thr[t].attempts \in 0..1 /\ thr[t].i \in -1..(Base - 1)
      BY <1>1, ThreadFacts, Zenon
  <1>5. PICK m \in Nat : /\ m = thr[t].prefix * Base /\ Looking(t) \in Int
                         /\ thr[t].i < 0 => Looking(t) = m - 1
      BY <1>1, LookingFacts, Zenon
  <1>6. \A y \in Addresses : /\ Pre(0, y) = y /\ y \in Nat /\ Pre(1, y) \in Nat
                             /\ Pre(1, y) < thr[t].prefix <=> y < m
    <2>1. ASSUME NEW y \in Addresses
          PROVE  Pre(0, y) = y /\ y \in Nat /\ Pre(1, y) \in Nat /\ (Pre(1, y) < thr[t].prefix <=> y < m)
      <3>1. Pre(0, y) = y /\ y \in Nat /\ 0 \in Nat /\ 0 + 1 = 1
          BY PreTop
      <3>2. Pre(0 + 1, y) < thr[t].prefix <=> Pre(0, y) < thr[t].prefix * Base
          BY <1>4, <3>1, PreBelow, Zenon
      <3> QED BY <1>5, <3>1, <3>2, PreFacts, Zenon
    <2> QED BY <2>1, Zenon
  <1>7. \A b \in thr[t].stable : /\ b \in Blocks /\ b.addr \in Addresses /\ b.addr \in Nat
                                 /\ b.addr <= Looking(t) /\ b.addr <= thr[t].x
                                 /\ b.size \in Nat /\ thr[t].x < b.addr + b.size
    <2>1. ASSUME NEW b \in thr[t].stable
          PROVE  /\ b \in Blocks /\ b.addr \in Addresses /\ b.addr \in Nat
                 /\ b.addr <= Looking(t) /\ b.addr <= thr[t].x
                 /\ b.size \in Nat /\ thr[t].x < b.addr + b.size
      <3>1. Pre(0, b.addr) <= Looking(t)
          BY <1>3, Zenon DEF SearchOf
      <3>2. /\ b \in Blocks /\ b.addr \in Addresses /\ b.addr \in Nat /\ b.addr <= thr[t].x
            /\ b.size \in Nat /\ thr[t].x < b.addr + b.size
          BY <1>3, WantedFacts, Zenon
      <3> QED BY <1>6, <3>1, <3>2, Zenon
    <2> QED BY <2>1, Zenon
  <1>8. ASSUME thr[t].i >= 0, size[Looking(t)] # 0, NEW b \in thr[t].stable
        PROVE  b.addr = Looking(t) /\ b.size = size[Looking(t)]
    <2>1. Looking(t) \in Addresses /\ Looking(t) <= thr[t].x
        BY <1>1, <1>8, SearchLeafCases, Zenon
    <2>2. PICK c \in Stored : c.addr = Looking(t)
        BY <1>1, <1>8, <2>1, Zenon DEF EntryInv
    <2>3. c \in Blocks /\ size[c.addr] = c.size
        BY <1>1, StoredFacts, Zenon
    <2>4. b \in Blocks /\ b.addr <= c.addr /\ c.addr < b.addr + b.size
        BY <1>4, <1>5, <1>7, <2>1, <2>2
    <2>5. b = c
        BY <2>3, <2>4, Disjoint, Zenon
    <2> QED BY <2>2, <2>3, <2>5, Zenon
  <1>9. ASSUME LeafIsLeft(t), \A b \in thr[t].stable : b.addr < m
        PROVE  /\ TypeInv' /\ OpInv' /\ BlockInv' /\ EntryInv' /\ TreeInv' /\ CountInv'
               /\ WantedInv' /\ SearchInv' /\ ResultInv'
    <2>1. CASE thr[t].attempts = 1 /\ GivesUp(t)
      <3>1. thr[t].prefix < Pre(1, thr[t].x) /\ <<0, thr[t].prefix>> \in present
          BY <1>3, <2>1, Zenon DEF SearchOf
      <3>2. ASSUME NEW b \in thr[t].stable PROVE FALSE
        <4>1. <<0, thr[t].prefix>>[1] = 0 /\ 0 < Root
            BY Sizes
        <4>2. PICK c \in Stored \cup Arrived(0) : NodeAt(0, c.addr) = <<0, thr[t].prefix>>
            BY <1>1, <3>1, <4>1, Zenon DEF TreeInv
        <4>3. c \in Blocks /\ c.addr \in Addresses /\ c.addr \in Nat
            BY BlockFacts, Zenon DEF Stored, Arrived
        <4>4. Pre(1, c.addr) = thr[t].prefix
          <5>1. 0 \in 0..Root /\ 0 + 1 = 1
              BY Sizes
          <5>2. NodeAt(0, c.addr)[2] = Pre(1, c.addr)
              BY <4>3, <5>1, NodeFacts, Zenon
          <5> QED BY <4>2, <5>2
        <4>5. b.addr < m /\ ~ (c.addr < m)
            BY <1>4, <1>6, <1>9, <4>3, <4>4
        <4>6. c.addr <= thr[t].x
          <5>1. thr[t].x < c.addr => Pre(1, thr[t].x) <= Pre(1, c.addr)
              BY <1>4, <4>3, PreMonotone
          <5> QED BY <1>4, <1>6, <3>1, <4>3, <4>4, <5>1
        <4>7. b \in Blocks /\ b.addr <= c.addr /\ c.addr < b.addr + b.size /\ b.addr # c.addr
            BY <1>4, <1>5, <1>7, <4>3, <4>5, <4>6
        <4> QED BY <4>3, <4>7, Disjoint, Zenon
      <3>3. thr'[t].pc = "leave" /\ thr'[t].stable = {} /\ thr'[t].result = -1
          BY <2>1, <3>2, Zenon DEF GivesUp, Moved
      <3>4. ResultOf(t)' /\ ~ At(t, "get", "descend")'
          BY <3>3 DEF ResultOf, At
      <3> QED BY <1>2, <3>4, QuietPreserves, Zenon
    <2>2. CASE thr[t].attempts = 0 /\ GoesUp(t, 1)
      <3>1. thr[t].level + 1 = 1 /\ thr[t].prefix <= Pre(1, thr[t].x)
          BY <1>3 DEF SearchOf
      <3>2. \A b \in thr[t].stable : Pre(thr[t].level + 1, b.addr) < thr[t].prefix
          BY <1>6, <1>7, <1>9, <3>1, Zenon
      <3>3. \A y \in Addresses : Pre(thr[t].level + 1, y) < thr[t].prefix
                                    => Pre(1, y) < Pre(1, thr[t].x)
          BY <1>4, <1>6, <3>1
      <3>4. 1 \in 0..1
          OBVIOUS
      <3>5. SearchOf(t)'
          BY <1>2, <1>3, <2>2, <3>2, <3>3, <3>4, SearchUp, Zenon
      <3>6. ResultOf(t)'
          BY <2>2, Zenon DEF ResultOf, GoesUp, Moved
      <3> QED BY <1>2, <3>5, <3>6, QuietPreserves, Zenon
    <2> QED BY <1>9, <2>1, <2>2, Zenon DEF LeafIsLeft
  <1>10. CASE thr[t].i < 0 /\ LeafIsLeft(t)
    <2>1. \A b \in thr[t].stable : b.addr < m
        BY <1>5, <1>7, <1>10
    <2> QED BY <1>9, <1>10, <2>1, Zenon
  <1>11. CASE thr[t].i >= 0 /\ size[Looking(t)] = 0 /\ GoesLeft(t)
    <2>1. \A b \in thr[t].stable : Pre(thr[t].level, b.addr) # Looking(t)
      <3>1. \A b \in thr[t].stable : size[b.addr] # 0 /\ b.addr \in Addresses
          BY <1>3, WantedFacts, Zenon
      <3> QED BY <1>3, <1>6, <1>11, <3>1, Zenon
    <2>2. SearchOf(t)'
        BY <1>2, <1>3, <1>11, <2>1, SearchLeft, Zenon
    <2>3. ResultOf(t)'
        BY <1>11, Zenon DEF ResultOf, GoesLeft, Moved
    <2> QED BY <1>2, <2>2, <2>3, QuietPreserves, Zenon
  <1>12. CASE /\ thr[t].i >= 0 /\ size[Looking(t)] # 0
              /\ thr[t].x < Looking(t) + size[Looking(t)] /\ Found(t)
    <2>1. /\ thr'[t].pc = "leave" /\ thr'[t].stable = thr[t].stable /\ thr'[t].result = Looking(t)
          /\ thr'[t].x = thr[t].x
        BY <1>12, Zenon DEF Found, Moved
    <2>2. \A b \in thr[t].stable : Looking(t) = b.addr
        BY <1>8, <1>12, Zenon
    <2>3. Looking(t) \in Addresses /\ Looking(t) <= thr[t].x
        BY <1>1, <1>12, SearchLeafCases, Zenon
    <2>4. PICK c \in Stored : c.addr = Looking(t)
        BY <1>1, <1>12, <2>3, Zenon DEF EntryInv
    <2>5. size[c.addr] = c.size
        BY <1>1, StoredFacts, Zenon
    <2>6. c \in Stored' /\ Covers(c, thr[t].x)
        BY <1>2, <1>12, <2>3, <2>4, <2>5, Zenon DEF Covers
    <2>7. ResultOf(t)' /\ ~ At(t, "get", "descend")'
        BY <2>1, <2>2, <2>4, <2>6, Zenon DEF ResultOf, At, Covers
    <2> QED BY <1>2, <2>7, QuietPreserves, Zenon
  <1>13. CASE /\ thr[t].i >= 0 /\ size[Looking(t)] # 0
              /\ ~ (thr[t].x < Looking(t) + size[Looking(t)]) /\ LeafIsLeft(t)
    <2>1. \A b \in thr[t].stable : FALSE
        BY <1>7, <1>8, <1>13, Zenon
    <2> QED BY <1>9, <1>13, <2>1, Zenon
  <1> QED BY <1>1, <1>10, <1>11, <1>12, <1>13, SearchLeafCases, Zenon

\* A quiet step changes no block.
LEMMA QuietStored ==
    ASSUME NEW t \in Threads, Quiet(t)
    PROVE  Stored' = Stored
  <1>1. \A b \in Blocks : b \in Stored' <=> b \in Stored
      BY KeptStored, SameKept, Zenon DEF Quiet
  <1> QED BY <1>1 DEF Stored

\* get_entry_of_root_address.
LEMMA GetRootPreserves ==
    ASSUME Spanning, Paths, Inv, NEW t \in Threads, GetRoot(t)
    PROVE  /\ TypeInv' /\ OpInv' /\ BlockInv' /\ EntryInv' /\ TreeInv' /\ CountInv'
           /\ WantedInv' /\ SearchInv' /\ ResultInv'
  <1>1. TypeInv /\ OpOf(t) /\ EntryInv /\ TreeInv
      BY Zenon DEF Inv, OpInv
  <1>2. /\ thr[t].op = "getRoot" /\ thr[t].pc = "descend" /\ Inner(t) /\ UNCHANGED tree
        /\ thr'[t].pc \in {"descend", "leave"}
      BY <1>1, GetRootCases, Zenon DEF At, Deeper, Returns, Moved
  <1>3. Quiet(t)
      BY <1>2, Zenon DEF Quiet, Inner, HasEntry, Descending, tree
  <1>4. OpOf(t)' /\ ~ At(t, "get", "descend")' /\ Stored' = Stored
      BY <1>1, <1>2, <1>3, QuietStored, Zenon DEF OpOf, Inner, At
  <1>5. thr[t].level \in 0..Root /\ thr[t].x \in Addresses
      BY <1>1, ThreadFacts, Zenon
  <1>6. \A b \in thr[t].stable : b.addr = thr[t].x /\ Occupied(thr[t].x)
      BY <1>2, WantedFacts, Zenon
  <1>7. ASSUME thr[t].stable = {}, Returns(t, -1) PROVE ResultOf(t)'
      BY <1>7 DEF Returns, Moved, ResultOf
  <1>8. CASE thr[t].level = 0 /\ size[thr[t].x] > 0 /\ Returns(t, thr[t].x)
    <2>1. size[thr[t].x] # 0
      <3>1. size[thr[t].x] \in Nat
          BY <1>1, <1>5, BlockFacts DEF TypeInv
      <3> QED BY <1>8, <3>1
    <2>2. PICK c \in Stored : c.addr = thr[t].x
        BY <1>1, <1>5, <2>1, Zenon DEF EntryInv
    <2>3. Covers(c, thr[t].x)
        BY <2>2, BlockFacts DEF Stored, Covers
    <2>4. ResultOf(t)'
        BY <1>4, <1>6, <1>8, <2>2, <2>3, Zenon DEF Returns, Moved, ResultOf, Covers
    <2> QED BY <1>3, <1>4, <2>4, QuietPreserves, Zenon
  <1>9. CASE thr[t].level = 0 /\ ~ (size[thr[t].x] > 0) /\ Returns(t, -1)
    <2>1. thr[t].stable = {}
        BY <1>6, <1>9, Zenon DEF Occupied
    <2> QED BY <1>3, <1>4, <1>7, <1>9, <2>1, QuietPreserves, Zenon
  <1>10. CASE Deeper(t)
    <2>1. ResultOf(t)'
        BY <1>10, Zenon DEF Deeper, Moved, ResultOf
    <2> QED BY <1>3, <1>4, <2>1, QuietPreserves, Zenon
  <1>11. CASE /\ thr[t].level > 0 /\ NodeAt(thr[t].level - 1, thr[t].x) \notin present
              /\ Returns(t, -1)
    <2>1. thr[t].level - 1 \in 0..Root
        BY <1>5, <1>11, Sizes
    <2>2. thr[t].stable = {}
        BY <1>6, <1>11, <2>1, Zenon DEF Occupied
    <2> QED BY <1>3, <1>4, <1>7, <1>11, <2>2, QuietPreserves, Zenon
  <1> QED BY <1>1, <1>8, <1>9, <1>10, <1>11, GetRootCases, Zenon

\* insert() with an address that is in the map finds the whole path.
LEMMA AgainFacts ==
    ASSUME Spanning, Paths, Inv, NEW t \in Threads, thr[t].op = "insert", thr[t].b = NoBlock
    PROVE  Occupied(thr[t].x)
  <1>1. PICK c \in Live : c.addr = thr[t].x
      BY Zenon DEF Inv, OpInv, OpOf
  <1>2. c \in Stored
      BY Zenon DEF Live, Stored
  <1> QED BY <1>1, <1>2, StoredFacts DEF Inv

\* insert goes down to a child that is there.
LEMMA DeeperPreserves ==
    ASSUME Spanning, Inv, NEW t \in Threads, Descending(t), Inner(t), UNCHANGED tree, Deeper(t),
           ChildOf(t) \in present
    PROVE  /\ TypeInv' /\ OpInv' /\ BlockInv' /\ EntryInv' /\ TreeInv' /\ CountInv'
           /\ WantedInv' /\ SearchInv' /\ ResultInv'
  <1>1. TypeInv /\ OpOf(t) /\ thr[t].level \in 0..Root
      BY ThreadFacts, Zenon DEF Inv, OpInv
  <1> /\ thr[t].op = "insert" /\ thr'[t].pc = "descend" /\ thr'[t].level = thr[t].level - 1
      /\ thr[t].pc \in {"descend", "exchange"} /\ thr'[t].level <= thr[t].level
      BY <1>1 DEF Deeper, Moved, Descending
  <1>2. Quiet(t)
      BY Zenon DEF Quiet, Inner, HasEntry, Descending, ChildOf, tree
  <1>3. OpOf(t)'
      BY <1>1, Zenon DEF Inner, Live, OpOf
  <1>4. ~ At(t, "get", "descend")' /\ ResultOf(t)'
      BY Zenon DEF At, ResultOf, Inner
  <1> QED BY <1>2, <1>3, <1>4, QuietPreserves

\* insert looks at the pointer to a child.
LEMMA InsertLoadPreserves ==
    ASSUME Spanning, Paths, Inv, NEW t \in Threads, InsertLoad(t)
    PROVE  /\ TypeInv' /\ OpInv' /\ BlockInv' /\ EntryInv' /\ TreeInv' /\ CountInv'
           /\ WantedInv' /\ SearchInv' /\ ResultInv'
  <1>1. TypeInv /\ OpOf(t) /\ thr[t].level \in 0..Root
      BY ThreadFacts, Zenon DEF Inv, OpInv
  <1>2. /\ thr[t].op = "insert" /\ thr[t].pc = "descend" /\ thr[t].level > 0 /\ Inner(t)
        /\ UNCHANGED tree /\ Descending(t)
      BY <1>1, InsertLoadCases, Zenon DEF At, Descending
  <1>3. CASE ChildOf(t) \in present /\ Deeper(t)
      BY <1>2, <1>3, DeeperPreserves, Zenon
  <1>4. CASE ChildOf(t) \notin present /\ Stays(t, "exchange")
    <2>1. thr'[t].pc = "exchange" /\ thr'[t].level = thr[t].level
        BY <1>4, Zenon DEF Stays, Moved
    <2>2. NodeAt(thr[t].level, thr[t].x) \in present
        BY <1>2, Zenon DEF Inv, TreeInv
    <2>3. Quiet(t)
        BY <1>1, <1>2, <2>1, <2>2, Sizes DEF Quiet, Inner, HasEntry, Descending, tree
    <2>4. thr[t].b # NoBlock
      <3>1. thr[t].level - 1 \in 0..Root
          BY <1>1, <1>2, Sizes
      <3> QED BY <1>2, <1>4, <3>1, AgainFacts, Zenon DEF Occupied, ChildOf
    <2>5. OpOf(t)'
      <3>1. Live' = Live /\ UNCHANGED state
          BY <1>2, Zenon DEF Inner, Live
      <3> QED BY <1>1, <1>2, <2>1, <2>4, <3>1, Zenon DEF OpOf, Inner
    <2>6. ~ At(t, "get", "descend")' /\ ResultOf(t)'
        BY <2>1, Zenon DEF At, ResultOf
    <2> QED BY <2>3, <2>5, <2>6, QuietPreserves, Zenon
  <1> QED BY <1>1, <1>3, <1>4, InsertLoadCases, Zenon

-----------------------------------------------------------------------------
(* Insertions                                                              *)

\* What no step between the locks changes.
LEMMA InnerPreserves ==
    ASSUME Inv, NEW t \in Threads, Inner(t), OpOf(t)'
    PROVE  /\ OpInv' /\ BlockInv' /\ WantedInv'
           /\ \A u \in Threads \ {t} : thr'[u] = thr[u] /\ Kept(u)
           /\ \A u \in Threads : u > ops' => thr'[u] = Idle
  <1>1. OpInv /\ BlockInv /\ TypeInv
      BY Zenon DEF Inv
  <1>2. Live' = Live /\ UNCHANGED state
      BY Zenon DEF Inner, Live
  <1>3. \A u \in Threads \ {t} : thr'[u] = thr[u] /\ Kept(u)
      BY SameKept, Zenon DEF Inner
  <1>4. OpInv'
    <2>1. ASSUME NEW u \in Threads \ {t} PROVE OpOf(u)'
      <3>1. OpOf(u)
          BY <1>1, Zenon DEF OpInv
      <3> QED BY <1>2, <1>3, <3>1, Zenon DEF OpOf
    <2> QED BY <2>1, Zenon DEF OpInv
  <1>5. BlockInv'
    <2>1. \A u \in Threads : thr'[u].b = thr[u].b
        BY Zenon DEF Inner
    <2> QED BY <1>1, <1>2, <2>1 DEF BlockInv
  <1>6. WantedInv'
    <2>1. ASSUME NEW u \in Threads \ {t} PROVE WantedOf(u)'
        BY <1>2, <1>3, KeptFacts, Zenon DEF Inv, WantedInv
    <2>2. WantedOf(t)'
        BY <1>2, Zenon DEF Inv, WantedInv, WantedOf, Inner, Covers
    <2> QED BY <2>1, <2>2, Zenon DEF WantedInv
  <1>7. \A u \in Threads : u > ops' => thr'[u] = Idle
    <2>1. thr[t] # Idle /\ ops' = ops
        BY DEF Inner, Idle
    <2> QED BY <1>1, <1>3, <2>1, Zenon DEF TypeInv
  <1> QED BY <1>3, <1>4, <1>5, <1>6, <1>7, Zenon

\* Searches and their results are those of other threads.
LEMMA OthersSearch ==
    ASSUME Inv, NEW t \in Threads, Inner(t), thr[t].op \notin {"get", "getRoot"},
           present \subseteq present', Stored \subseteq Stored'
    PROVE  SearchInv' /\ ResultInv'
  <1>1. \A u \in Threads \ {t} : thr'[u] = thr[u] /\ Kept(u)
      BY SameKept, Zenon DEF Inner
  <1>2. ASSUME NEW u \in Threads, At(u, "get", "descend")' PROVE SearchOf(u)'
      BY <1>1, <1>2, KeptFacts, Zenon DEF At, Inner, Inv, SearchInv, SearchOf
  <1>3. ASSUME NEW u \in Threads PROVE ResultOf(u)'
      BY DEF ResultOf, Inner, Inv, ResultInv
  <1> QED BY <1>2, <1>3, Zenon DEF SearchInv, ResultInv

\* What a node that is not in the tree would hide: nothing.
LEMMA NothingBelow ==
    ASSUME Spanning, Paths,
           Inv, NEW l \in 0..Root, NEW x \in Addresses, NodeAt(l, x) \notin present
    PROVE  /\ \A m \in Below(NodeAt(l, x)) : m \notin present
           /\ \A m \in present : m[1] < Root => ParentOf(m) # NodeAt(l, x)
           /\ \A y \in Addresses : NodeAt(0, y) \in Below(NodeAt(l, x)) \cup {NodeAt(l, x)}
                                      => size[y] = 0 /\ ~ \E b \in Stored : b.addr = y
  <1> TypeInv /\ TreeInv /\ EntryInv
      BY Zenon DEF Inv
  <1>1. NodeAt(l, x)[1] = l
      BY NodeFacts
  <1>2. ASSUME NEW m \in Below(NodeAt(l, x)) PROVE m \notin present
      BY <1>1, Sizes, Path DEF Below
  <1>3. \A m \in present : m[1] < Root => ParentOf(m) # NodeAt(l, x)
      BY DEF TreeInv
  <1>4. ASSUME NEW y \in Addresses, NodeAt(0, y) \in Below(NodeAt(l, x)) \cup {NodeAt(l, x)}
        PROVE  size[y] = 0 /\ ~ \E b \in Stored : b.addr = y
      BY <1>2, <1>4, Zenon DEF EntryInv
  <1> QED BY <1>2, <1>3, <1>4, Zenon

\* A node that insert() has attached: what it replaces was empty.
LEMMA AttachFacts ==
    ASSUME Spanning, Paths,
           Inv, NEW t \in Threads, thr[t].level > 0, ChildOf(t) \notin present, AttachAndCount(t)
    PROVE  /\ present' = present \cup {ChildOf(t)} /\ size' = size
           /\ \A b \in Stored : payload'[b.addr] = payload[b.addr]
           /\ payload' \in [Addresses -> Blocks \cup {NoBlock}]
           /\ count' = [count EXCEPT ![ChildOf(t)] = 0, ![NodeAt(thr[t].level, thr[t].x)] = @ + 1]
  <1> TypeInv /\ thr[t].x \in Addresses /\ thr[t].level - 1 \in 0..Root
      BY ThreadFacts, Sizes DEF Inv
  <1> PICK n \in AllNodes : n = ChildOf(t) /\ n \notin present
      BY NodeFacts, Zenon DEF ChildOf
  <1> /\ \A m \in Below(n) : m \notin present
      /\ \A y \in Addresses : NodeAt(0, y) \in Below(n) \cup {n}
                                    => size[y] = 0 /\ ~ \E b \in Stored : b.addr = y
      BY NothingBelow DEF ChildOf
  <1> /\ present' = (present \ Below(n)) \cup {n}
      /\ size' = [x \in Addresses |-> IF NodeAt(0, x) \in Below(n) \cup {n} THEN 0 ELSE size[x]]
      /\ payload' = [x \in Addresses |->
                        IF NodeAt(0, x) \in Below(n) \cup {n} THEN NoBlock ELSE payload[x]]
      /\ count' = [count EXCEPT ![n] = 0, ![NodeAt(thr[t].level, thr[t].x)] = @ + 1]
      BY Zenon DEF AttachAndCount, Attach
  <1>1. present' = present \cup {n}
      BY Zenon
  <1>2. size' = size
      BY Zenon DEF TypeInv
  <1>3. \A b \in Stored : payload'[b.addr] = payload[b.addr]
      BY BlockFacts, Zenon DEF Stored
  <1>4. payload' \in [Addresses -> Blocks \cup {NoBlock}]
      BY DEF TypeInv
  <1> QED BY <1>1, <1>2, <1>3, <1>4, Zenon

\* A second insertion of an address fails ...
LEMMA InsertFailsPreserves ==
    ASSUME Spanning,
           Inv, NEW t \in Threads, At(t, "insert", "descend"), Inner(t), UNCHANGED tree,
           size[thr[t].x] > 0, Returns(t, -1)
    PROVE  /\ TypeInv' /\ OpInv' /\ BlockInv' /\ EntryInv' /\ TreeInv' /\ CountInv'
           /\ WantedInv' /\ SearchInv' /\ ResultInv'
  <1>1. TypeInv /\ OpInv /\ EntryInv /\ OpOf(t) /\ BlockInv
      BY Zenon DEF Inv, OpInv
  <1>2. /\ thr[t].op = "insert" /\ thr[t].pc = "descend" /\ thr'[t].pc = "leave"
        /\ thr'[t].result = -1
      BY Zenon DEF At, Returns, Moved
  <1>3. thr[t].b \notin Blocks
    <2>1. SUFFICES ASSUME thr[t].b \in Blocks PROVE FALSE
        BY Zenon
    <2>2. thr[t].x \in Addresses /\ size[thr[t].x] # 0
      <3>1. thr[t].x \in Addresses /\ size[thr[t].x] \in Nat
          BY <1>1, ThreadFacts, BlockFacts DEF TypeInv
      <3> QED BY <3>1
    <2>3. PICK c \in Stored : c.addr = thr[t].x
        BY <1>1, <2>2, Zenon DEF EntryInv
    <2>4. c = thr[t].b /\ state[c] = "inserting"
      <3>1. thr[t].b.addr = thr[t].x /\ state[thr[t].b] = "inserting"
          BY <1>1, <1>2, <2>1, HolderFacts, Zenon
      <3>2. c \in Blocks
          BY Zenon DEF Stored
      <3> QED BY <2>1, <2>3, <3>1, <3>2, SameAddress, Zenon
    <2>5. PICK u \in Threads : thr[u].b = c /\ HasEntry(u)
        BY <2>4, Zenon DEF Stored
    <2>6. u = t
        BY <1>1, <2>1, <2>4, <2>5, BlockFacts, Zenon DEF BlockInv
    <2> QED BY <1>2, <2>5, <2>6, Zenon DEF HasEntry
  <1>4. thr[t].b = NoBlock
      BY <1>1, <1>3, ThreadFacts, Zenon
  <1>5. Quiet(t)
      BY <1>2, <1>3, Zenon DEF Quiet, Inner, Descending, tree
  <1>6. OpOf(t)'
    <2>1. Live' = Live /\ UNCHANGED state
        BY Zenon DEF Inner, Live
    <2>2. ~ (thr'[t].result >= 0)
        BY <1>2
    <2> QED BY <1>1, <1>2, <1>4, <2>1, <2>2, Zenon DEF OpOf, Inner
  <1>7. ~ At(t, "get", "descend")' /\ ResultOf(t)'
      BY <1>2, Zenon DEF At, ResultOf, Inner
  <1> QED BY <1>5, <1>6, <1>7, QuietPreserves, Zenon

\* ... and the first one stores the size ...
LEMMA InsertStoresPreserves ==
    ASSUME Spanning, Paths,
           Inv, NEW t \in Threads, At(t, "insert", "descend"), thr[t].level = 0, Inner(t),
           UNCHANGED <<present, count, payload>>, size[thr[t].x] = 0, Stays(t, "payload"),
           size' = [size EXCEPT ![thr[t].x] = thr[t].b.size]
    PROVE  /\ TypeInv' /\ OpInv' /\ BlockInv' /\ EntryInv' /\ TreeInv' /\ CountInv'
           /\ WantedInv' /\ SearchInv' /\ ResultInv'
  <1> TypeInv /\ OpInv /\ EntryInv /\ TreeInv /\ CountInv /\ OpOf(t)
      BY Zenon DEF Inv, OpInv
  <1>1. /\ thr[t].op = "insert" /\ thr[t].pc = "descend" /\ thr'[t].pc = "payload"
        /\ thr'[t].level = 0 /\ Descending(t) /\ ~ Descending(t)' /\ thr[t].x \in Addresses
      BY ThreadFacts, Zenon DEF At, Stays, Moved, Descending
  <1>2. PICK b \in Blocks : b = thr[t].b /\ b.addr = thr[t].x /\ state[b] = "inserting"
    <2>1. ~ Occupied(thr[t].x)
        BY DEF Occupied
    <2>2. thr[t].b # NoBlock
        BY <1>1, <2>1, AgainFacts, Zenon
    <2> QED BY <1>1, <2>2, ThreadFacts, Zenon DEF OpOf
  <1>3. OpOf(t)'
    <2>1. Live' = Live /\ UNCHANGED state
        BY Zenon DEF Inner, Live
    <2> QED BY <1>1, <1>2, <2>1, BlockFacts, Zenon DEF OpOf, Inner
  <1>4. /\ OpInv' /\ BlockInv' /\ WantedInv' /\ (\A u \in Threads \ {t} : thr'[u] = thr[u] /\ Kept(u))
        /\ \A u \in Threads : u > ops' => thr'[u] = Idle
      BY <1>3, InnerPreserves, Zenon
  <1>5. size'[b.addr] = b.size /\ \A y \in Addresses : y # b.addr => size'[y] = size[y]
      BY <1>1, <1>2, Zenon DEF TypeInv
  <1>6. TypeInv'
    <2>1. size' \in [Addresses -> {0} \cup {c.size : c \in Blocks}]
        BY <1>2, Zenon DEF TypeInv
    <2> QED BY <1>4, <2>1, Zenon DEF TypeInv, Inner
  <1>7. Stored' = Stored \cup {b}
    <2>1. ~ HasEntry(t) /\ UNCHANGED state /\ thr'[t].b = b
        BY <1>1, <1>2, Zenon DEF HasEntry, Inner
    <2>2. \A c \in Blocks : c # b => (c \in Stored' <=> c \in Stored)
        BY <1>4, <2>1, KeptStored, Zenon
    <2>3. HasEntry(t)'
        BY <1>1, Zenon DEF HasEntry, Inner
    <2>4. b \in Stored'
        BY <2>1, <2>3, Zenon DEF Stored
    <2> QED BY <2>2, <2>4, Zenon DEF Stored
  <1>8. \A y \in Addresses : Writing(y)' <=> Writing(y) \/ y = b.addr
      BY <1>1, <1>2, <1>4, Zenon DEF Writing, Inner
  <1>9. SearchInv' /\ ResultInv'
      BY <1>1, <1>7, OthersSearch, Zenon
  <1>10. ASSUME NEW c \in Stored, c # b PROVE c \in Blocks /\ c.addr # b.addr /\ c.addr \in Addresses
      BY <1>10, SameAddress, BlockFacts, Zenon DEF Stored
  <1>11. EntryInv'
    <2>1. NodeAt(0, b.addr) \in present
        BY <1>1, <1>2, Zenon DEF TreeInv
    <2>2. \A c \in Stored' : size'[c.addr] = c.size /\ NodeAt(0, c.addr) \in present'
        BY <1>5, <1>7, <1>10, <2>1, Zenon DEF EntryInv
    <2>3. \A c \in Stored' : ~ Writing(c.addr)' => payload'[c.addr] = c
      <3>1. Writing(b.addr)'
          BY <1>8, BlockFacts, Zenon
      <3> QED BY <1>7, <1>8, <1>10, <3>1, Zenon DEF EntryInv
    <2>4. \A y \in Addresses : size'[y] # 0 => \E c \in Stored' : c.addr = y
        BY <1>5, <1>7, Zenon DEF EntryInv
    <2> QED BY <2>2, <2>3, <2>4, Zenon DEF EntryInv
  <1>12. TreeInv'
    <2>1. ASSUME NEW k \in 0..Root, NEW c \in Arrived(k) PROVE c \in Stored' \cup Arrived(k)'
      <3>1. PICK u \in Threads : Descending(u) /\ thr[u].b = c /\ thr[u].level <= k
          BY Zenon DEF Arrived
      <3>2. CASE u = t
          BY <1>2, <1>7, <3>1, <3>2, Zenon
      <3>3. CASE u # t
        <4>1. Descending(u)' /\ thr'[u].b = c /\ thr'[u].level <= k
            BY <1>4, <3>1, <3>3, KeptFacts, Zenon
        <4> QED BY <4>1, Zenon DEF Arrived
      <3> QED BY <3>2, <3>3, Zenon
    <2>2. ASSUME NEW n \in present, n[1] < Root
          PROVE  \E c \in Stored' \cup Arrived(n[1])' : NodeAt(n[1], c.addr) = n
      <3>1. n[1] \in 0..Root
          BY NodeCases, Zenon DEF TypeInv
      <3>2. \E c \in Stored \cup Arrived(n[1]) : NodeAt(n[1], c.addr) = n
          BY <2>2, Zenon DEF TreeInv
      <3> QED BY <1>7, <2>1, <3>1, <3>2, Zenon
    <2>3. \A u \in Threads : Descending(u)' => NodeAt(thr'[u].level, thr'[u].x) \in present
        BY <1>1, <1>4, KeptFacts, Zenon DEF TreeInv
    <2> QED BY <2>2, <2>3, Zenon DEF TreeInv
  <1>13. CountInv'
    <2>1. \A n \in AllNodes : Members(n)' = Members(n)
      <3>1. \A y \in Addresses : size'[y] # 0 /\ ~ Writing(y)' <=> size[y] # 0 /\ ~ Writing(y)
          BY <1>2, <1>5, <1>8, Zenon
      <3> QED BY <3>1, Zenon DEF Members
    <2> QED BY <2>1, Zenon DEF CountInv
  <1> QED BY <1>4, <1>6, <1>9, <1>11, <1>12, <1>13, Zenon

\* The first store of the leaf.
LEMMA InsertSizePreserves ==
    ASSUME Spanning, Paths, Inv, NEW t \in Threads, InsertSize(t)
    PROVE  /\ TypeInv' /\ OpInv' /\ BlockInv' /\ EntryInv' /\ TreeInv' /\ CountInv'
           /\ WantedInv' /\ SearchInv' /\ ResultInv'
  <1> /\ At(t, "insert", "descend") /\ thr[t].level = 0 /\ Inner(t)
      /\ UNCHANGED <<present, count, payload>>
      /\ \/ size[thr[t].x] > 0 /\ Returns(t, -1) /\ UNCHANGED size
         \/ /\ size[thr[t].x] = 0 /\ Stays(t, "payload")
            /\ size' = [size EXCEPT ![thr[t].x] = thr[t].b.size]
      BY InsertSizeCases, Zenon DEF Inv
  <1>1. CASE size[thr[t].x] > 0 /\ Returns(t, -1) /\ UNCHANGED size
      BY <1>1, InsertFailsPreserves, Zenon DEF tree
  <1>2. CASE /\ size[thr[t].x] = 0 /\ Stays(t, "payload")
             /\ size' = [size EXCEPT ![thr[t].x] = thr[t].b.size]
      BY <1>2, InsertStoresPreserves, Zenon
  <1> QED BY <1>1, <1>2, Zenon

-----------------------------------------------------------------------------
(* erase                                                                   *)

\* Nothing is there to erase.
LEMMA EraseFailsPreserves ==
    ASSUME Spanning, Paths,
           Inv, NEW t \in Threads, At(t, "erase", "descend"), Inner(t), UNCHANGED tree,
           ~ Occupied(thr[t].x), Returns(t, -1)
    PROVE  /\ TypeInv' /\ OpInv' /\ BlockInv' /\ EntryInv' /\ TreeInv' /\ CountInv'
           /\ WantedInv' /\ SearchInv' /\ ResultInv'
  <1>1. TypeInv /\ OpInv /\ EntryInv /\ TreeInv /\ OpOf(t)
      BY Zenon DEF Inv, OpInv
  <1> /\ thr[t].op = "erase" /\ thr[t].pc = "descend" /\ thr'[t].pc = "leave"
      BY Zenon DEF At, Returns, Moved
  <1>2. thr[t].b \notin Blocks
      BY <1>1, HolderFacts, StoredFacts DEF Stored, HasEntry
  <1>3. Quiet(t)
      BY <1>2, Zenon DEF Quiet, Inner, Descending, tree
  <1>4. OpOf(t)'
      BY <1>1, Zenon DEF Inner, Live, OpOf
  <1>5. ~ At(t, "get", "descend")' /\ ResultOf(t)'
      BY Zenon DEF At, ResultOf, Inner
  <1> QED BY <1>3, <1>4, <1>5, QuietPreserves

\* What the removal of block b does, with the counters of its path after it.
Removal(b, after) ==
    /\ b \in Stored /\ Stored' = Stored \ {b}
    /\ \A k \in 0..Root : Arrived(k) = {}
    /\ \A y \in Addresses : ~ Writing(y) /\ ~ Writing(y)'
    /\ \A l \in 0..Root : after[l] \in Int /\ NodeAt(l, b.addr) \in present
    /\ after[0] = count[NodeAt(0, b.addr)] - 1
    /\ \A l \in 1..Root : after[l] = IF after[l - 1] = 0 THEN count[NodeAt(l, b.addr)] - 1
                                     ELSE count[NodeAt(l, b.addr)]
    /\ size'[b.addr] = 0 /\ \A y \in Addresses : y # b.addr => size'[y] = size[y]
    /\ \A k \in AllNodes : count'[k] = IF k = NodeAt(k[1], b.addr) THEN after[k[1]] ELSE count[k]
    /\ \A m : m \in present' <=>
           m \in present /\ ~ (m[1] < Root /\ m = NodeAt(m[1], b.addr) /\ after[m[1]] = 0)

\* erase() is alone: nobody else is in the tree.
LEMMA EraseAlone ==
    ASSUME TypeInv, LockInv, NEW t \in Threads, At(t, "erase", "descend"),
           NEW u \in Threads, u # t
    PROVE  thr[u].pc \in {"idle", "enter"} /\ ~ Descending(u)
  <1>1. t \in Inside /\ thr[t].op = "erase"
      BY Zenon DEF Inside, At
  <1>2. u \notin Inside
      BY <1>1, Zenon DEF LockInv
  <1> QED BY <1>2 DEF Inside, Descending

-----------------------------------------------------------------------------
(* The invariant holds at first and is kept                                *)

\* The nodes that blocks need, with the paths to them.
LEMMA NodesForFacts ==
    ASSUME Spanning, NEW old \in SUBSET Blocks
    PROVE  /\ NodesFor(old) \subseteq AllNodes /\ NodeAt(Root, 0) \in NodesFor(old)
           /\ \A l \in 0..Root, b \in old : NodeAt(l, b.addr) \in NodesFor(old)
           /\ \A n \in NodesFor(old) : n[1] < Root =>
                  ParentOf(n) \in NodesFor(old) /\ \E b \in old : NodeAt(n[1], b.addr) = n
  <1> Root \in 0..Root /\ 0 \in Addresses /\ Root \in Nat /\ \A b \in old : b.addr \in Addresses
      BY Sizes, BlockFacts
  <1>1. NodeAt(Root, 0) \in AllNodes /\ NodeAt(Root, 0)[1] = Root
      BY NodeFacts, Zenon
  <1>2. \A l \in 0..Root, b \in old : NodeAt(l, b.addr) \in NodesFor(old)
      BY DEF NodesFor
  <1>3. NodesFor(old) \subseteq AllNodes /\ NodeAt(Root, 0) \in NodesFor(old)
      BY NodeFacts DEF NodesFor
  <1>4. ASSUME NEW n \in NodesFor(old), n[1] < Root
        PROVE  ParentOf(n) \in NodesFor(old) /\ \E b \in old : NodeAt(n[1], b.addr) = n
    <2>1. n # NodeAt(Root, 0)
        BY <1>1, <1>4
    <2>2. PICK l \in 0..Root, b \in old : n = NodeAt(l, b.addr)
        BY <2>1 DEF NodesFor
    <2>3. n[1] = l /\ ParentOf(n) = NodeAt(l + 1, b.addr)
        BY <2>2, NodeFacts
    <2>4. l + 1 \in 0..Root
        BY <1>4, <2>3
    <2> QED BY <1>2, <2>2, <2>3, <2>4
  <1> QED BY <1>2, <1>3, <1>4
=============================================================================
