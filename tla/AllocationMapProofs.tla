------------------------ MODULE AllocationMapProofs -------------------------
(***************************************************************************)
(* Safety of AllocationMap for trees of any number of levels and children, *)
(* any disjoint allocations and any number of operations at a time: what   *)
(* AllocationMapStepProofs takes for granted about levels, the steps that  *)
(* change what is counted (the locks and the counters of nodes), and the   *)
(* properties.                                                             *)
(***************************************************************************)
EXTENDS AllocationMapStepProofs, FiniteSetTheorems, Induction

-----------------------------------------------------------------------------
(* Levels                                                                  *)

\* A level spans Base times the addresses of the level below, as the function
\* that computes the spans is defined.
LEMMA SpanningHolds == Spanning
  <1>1. Base \in Nat /\ Base >= 2
      BY MapAssumption
  <1>2. Span = CHOOSE g : g = [n \in Nat |-> IF n = 0 THEN 1 ELSE Base * g[n - 1]]
      BY Zenon DEF Span
  <1> QED BY <1>1, <1>2, Powers DEF Spanning

\* There are finitely many addresses, nodes and operations.
LEMMA Finite ==
    ASSUME Spanning
    PROVE  IsFiniteSet(Addresses) /\ IsFiniteSet(AllNodes) /\ IsFiniteSet(Threads)
  <1>1. IsFiniteSet(Addresses) /\ IsFiniteSet(0..Root) /\ IsFiniteSet(Threads)
    <2>1. Span[Levels] \in Int /\ Root \in Int /\ MaxOps \in Int
        BY Sizes, Spans
    <2>2. Span[Levels] - 1 \in Int /\ 0 \in Int /\ 1 \in Int
        BY <2>1
    <2>3. IsFiniteSet(0..(Span[Levels] - 1))
        BY ONLY <2>2, FS_Interval, Zenon
    <2>4. IsFiniteSet(0..Root) /\ IsFiniteSet(1..MaxOps)
        BY ONLY <2>1, <2>2, FS_Interval, Zenon
    <2> QED BY <2>3, <2>4, Zenon DEF Addresses, Threads
  <1>2. IsFiniteSet((0..Root) \X Addresses)
      BY <1>1, FS_Product, Zenon
  <1> DEFINE node == [p \in (0..Root) \X Addresses |-> NodeAt(p[1], p[2])]
  <1>3. AllNodes \subseteq {node[p] : p \in (0..Root) \X Addresses}
    <2> SUFFICES ASSUME NEW l \in 0..Root, NEW x \in Addresses
                 PROVE  \E p \in (0..Root) \X Addresses : NodeAt(l, x) = node[p]
        BY DEF AllNodes
    <2>1. <<l, x>> \in (0..Root) \X Addresses /\ node[<<l, x>>] = NodeAt(l, x)
        BY Zenon
    <2> QED BY <2>1, Zenon
  <1>4. IsFiniteSet({node[p] : p \in (0..Root) \X Addresses})
    <2>1. node \in Surjection((0..Root) \X Addresses, {node[p] : p \in (0..Root) \X Addresses})
        BY Zenon DEF Surjection
    <2> QED BY <1>2, <2>1, FS_Surjection
  <1> QED BY <1>1, <1>3, <1>4, FS_Subset, Zenon

\* The counters that erase computes, from the leaf up.
LEMMA AfterFacts ==
    ASSUME Spanning, TypeInv, NEW x \in Addresses, NEW after, after = CountsAfterErase(x)
    PROVE  /\ \A l \in 0..Root : after[l] \in Int
           /\ after[0] = count[NodeAt(0, x)] - 1
           /\ \A l \in 1..Root : after[l] = IF after[l - 1] = 0 THEN count[NodeAt(l, x)] - 1
                                            ELSE count[NodeAt(l, x)]
  <1> DEFINE c == [k \in Nat |-> IF k <= Root THEN count[NodeAt(k, x)] ELSE 0]
             F(f) == f = [l \in 0..Root |->
                             IF l = 0 THEN count[NodeAt(0, x)] - 1
                             ELSE IF f[l - 1] = 0 THEN count[NodeAt(l, x)] - 1
                                  ELSE count[NodeAt(l, x)]]
             h == [p \in Nat \X Int |-> IF p[2] = 0 THEN c[p[1] + 1] - 1 ELSE c[p[1] + 1]]
  <1>1. \A k \in Nat : c[k] \in Int /\ (k <= Root => c[k] = count[NodeAt(k, x)])
    <2>1. \A k \in 0..Root : NodeAt(k, x) \in AllNodes
        BY NodeFacts, Zenon
    <2> QED BY <2>1, Sizes DEF TypeInv
  <1>2. c[0] = count[NodeAt(0, x)] /\ Root \in Nat
      BY Sizes
  <1> HIDE DEF c
  <1>3. PICK g \in [Nat -> Int] : g[0] = c[0] - 1 /\ \A n \in Nat : g[n + 1] = h[<<n, g[n]>>]
    <2>1. c[0] - 1 \in Int /\ h \in StepFunctions(Int)
        BY <1>1 DEF StepFunctions
    <2> HIDE DEF h
    <2>2. PICK f : f \in Iterates(Int, c[0] - 1, h)
        BY <2>1, RecursionExists, Zenon
    <2> QED BY <2>2, Zenon DEF Iterates
  <1>4. \A n \in Nat : g[n + 1] = IF g[n] = 0 THEN c[n + 1] - 1 ELSE c[n + 1]
      BY <1>3, Zenon
  <1>5. F([l \in 0..Root |-> g[l]])
    <2> DEFINE f == [l \in 0..Root |-> g[l]]
    <2>1. ASSUME NEW l \in 0..Root
          PROVE  f[l] = IF l = 0 THEN count[NodeAt(0, x)] - 1
                        ELSE IF f[l - 1] = 0 THEN count[NodeAt(l, x)] - 1
                             ELSE count[NodeAt(l, x)]
      <3>1. CASE l = 0
          BY <1>2, <1>3, <3>1, Zenon
      <3>2. CASE l # 0
        <4>1. l - 1 \in 0..Root /\ l - 1 \in Nat /\ (l - 1) + 1 = l /\ l \in Nat /\ l <= Root
            BY <1>2, <3>2
        <4>2. g[l] = IF g[l - 1] = 0 THEN c[l] - 1 ELSE c[l]
            BY <1>4, <4>1, Zenon
        <4> QED BY <1>1, <3>2, <4>1, <4>2, Zenon
      <3> QED BY <3>1, <3>2, Zenon
    <2> QED BY <2>1, Zenon
  <1>6. after = CHOOSE f : F(f)
      BY Zenon DEF CountsAfterErase
  <1>7. F(after)
      BY <1>5, <1>6, Zenon
  <1>8. \A k \in 0..Root : count[NodeAt(k, x)] \in Int
      BY <1>1, <1>2
  <1>9. \A l \in 0..Root : after[l] = IF l = 0 THEN count[NodeAt(0, x)] - 1
                                      ELSE IF after[l - 1] = 0 THEN count[NodeAt(l, x)] - 1
                                           ELSE count[NodeAt(l, x)]
      BY <1>7, Zenon
  <1> HIDE DEF F
  <1>10. 0 \in 0..Root /\ 1..Root \subseteq 0..Root /\ \A l \in 1..Root : l # 0
      BY <1>2
  <1> QED BY <1>8, <1>9, <1>10

\* The locks keep erase() alone.
LEMMA LockPreserved ==
    ASSUME Spanning,
           TypeInv, OpInv, LockInv, SearchInv, NEW t \in Threads, CallSome(t) \/ Step(t)
    PROVE  LockInv'
  <1>1. IsFiniteSet(Inside) /\ Cardinality(Inside) \in Nat
      BY Finite, FS_Subset, FS_CardinalityType, Zenon DEF Inside
  <1>2. ASSUME Inner(t) PROVE LockInv'
      BY <1>2, LockKept, Zenon DEF Inner, Inside
  <1>3. CASE CallSome(t)
    <2> /\ inProgress' = inProgress /\ thr[t] = Idle /\ thr'[t].pc = "enter"
        /\ \A u \in Threads \ {t} : thr'[u].op = thr[u].op /\ thr'[u].pc = thr[u].pc
        BY <1>3, CallCases, Zenon DEF Called, Kept
    <2>1. thr[t].pc = "idle"
        BY DEF Idle
    <2>2. Inside' = Inside /\ \A u \in Inside : thr'[u].op = thr[u].op
        BY <2>1, Zenon DEF Inside
    <2> QED BY <2>2, LockKept, Zenon
  <1>4. CASE EnterShared(t)
    <2> /\ thr[t].pc = "enter" /\ thr[t].op # "erase" /\ inProgress >= 0
        /\ inProgress' = inProgress + 1 /\ thr'[t].pc = "descend" /\ thr'[t].op = thr[t].op
        /\ \A u \in Threads \ {t} : thr'[u] = thr[u]
        BY <1>4, EnterSharedCases, Zenon DEF Moved
    <2>1. ~ Erasing /\ inProgress = Cardinality(Inside)
        BY DEF LockInv
    <2>2. Inside' = Inside \cup {t} /\ t \notin Inside
        BY Zenon DEF Inside
    <2>3. ~ Erasing' /\ \A u \in Inside' : thr'[u].op # "erase"
        BY <2>1, Zenon DEF Erasing, Inside
    <2>4. Cardinality(Inside') = Cardinality(Inside) + 1
        BY <1>1, <2>2, FS_AddElement, Zenon
    <2> QED BY <2>3, <2>4 DEF LockInv
  <1>5. CASE EnterErase(t)
      BY <1>1, <1>5, EnterEraseCases, FS_EmptySet DEF Moved, Stays, At, LockInv, Inside,
         Erasing
  <1>6. CASE Leave(t)
    <2> /\ thr[t].pc = "leave" /\ thr'[t].pc = "idle"
        /\ inProgress' = IF thr[t].op = "erase" THEN 0 ELSE inProgress - 1
        /\ \A u \in Threads \ {t} : thr'[u] = thr[u]
        BY <1>6, LeaveCases, Zenon
    <2> t \in Inside /\ Inside' = Inside \ {t}
        BY Zenon DEF Inside
    <2>1. CASE thr[t].op = "erase"
        BY <2>1, FS_EmptySet, Zenon DEF LockInv, Erasing
    <2>2. CASE thr[t].op # "erase"
      <3>1. ~ Erasing
          BY <2>2, Zenon DEF LockInv, Erasing
      <3>2. ~ Erasing' /\ \A u \in Inside' : thr'[u].op # "erase"
          BY <3>1, Zenon DEF Erasing, Inside
      <3>3. Cardinality(Inside') = Cardinality(Inside) - 1
          BY <1>1, FS_RemoveElement, Zenon
      <3> QED BY <2>2, <3>1, <3>2, <3>3, Zenon DEF LockInv
    <2> QED BY <2>1, <2>2, Zenon
  <1>7. CASE SearchNode(t) \/ SearchLeaf(t)
      BY <1>2, <1>7, SearchInner, Zenon
  <1>8. CASE GetRoot(t) \/ InsertLoad(t)
      BY <1>2, <1>8, GetRootCases, InsertLoadCases, Zenon
  <1>9. CASE InsertExchange(t) \/ InsertSize(t) \/ InsertPayload(t) \/ Erase(t)
      BY <1>2, <1>9, InsertExchangeCases, InsertSizeCases, InsertPayloadCases, EraseCases,
         Zenon
  <1> QED BY <1>3, <1>4, <1>5, <1>6, <1>7, <1>8, <1>9, Zenon DEF Step

\* With a node the tree has the nodes above it: by induction over the levels,
\* from the parents that TreeInv speaks of.
LEMMA PathsHold ==
    ASSUME Spanning, TypeInv, TreeInv
    PROVE  Paths
  <1> SUFFICES ASSUME NEW x \in Addresses, NEW l \in 0..Root, NodeAt(l, x) \in present,
                      NEW k \in l..Root
               PROVE  NodeAt(k, x) \in present
      BY Zenon DEF Paths
  <1> DEFINE S == {j \in Nat : l + j <= Root => NodeAt(l + j, x) \in present}
  <1>1. l \in Nat /\ Root \in Nat /\ l + 0 = l
      BY Sizes
  <1>2. 0 \in S
      OBVIOUS
  <1>3. ASSUME NEW j \in Nat, j \in S PROVE j + 1 \in S
      BY <1>1, <1>3, NodeFacts DEF TreeInv
  <1>4. Nat \subseteq S
    <2> HIDE DEF S
    <2> QED BY <1>2, <1>3, SetInduction, Zenon
  <1>6. k - l \in S
      BY <1>4
  <1> QED BY <1>6

\* A node has finitely many entries or children.
LEMMA MembersFinite ==
    ASSUME Spanning, TypeInv, NEW n
    PROVE  IsFiniteSet(Members(n)) /\ Cardinality(Members(n)) \in Nat
  <1>1. Members(n) \subseteq Addresses \/ Members(n) \subseteq AllNodes
      BY Zenon DEF Members, TypeInv
  <1>2. IsFiniteSet(Members(n))
      BY <1>1, Finite, FS_Subset, Zenon
  <1> QED BY <1>2, FS_CardinalityType, Zenon

\* The exchange that puts a new node into the tree.
LEMMA AttachPreserves ==
    ASSUME Spanning, Paths,
           Inv, NEW t \in Threads, At(t, "insert", "exchange"), Inner(t), Deeper(t),
           ChildOf(t) \notin present, AttachAndCount(t)
    PROVE  /\ TypeInv' /\ OpInv' /\ BlockInv' /\ EntryInv' /\ TreeInv' /\ CountInv'
           /\ WantedInv' /\ SearchInv' /\ ResultInv'
  <1> TypeInv /\ TreeInv /\ CountInv /\ EntryInv /\ OpOf(t) /\ thr[t].level \in 0..Root
      /\ thr[t].x \in Addresses
      BY ThreadFacts, Zenon DEF Inv, OpInv
  <1>1. /\ thr[t].op = "insert" /\ thr[t].pc = "exchange" /\ thr'[t].pc = "descend"
        /\ thr'[t].level = thr[t].level - 1 /\ thr[t].level > 0
      BY Zenon DEF At, Deeper, Moved
  <1>2. PICK l \in 0..Root : l = thr[t].level - 1 /\ l + 1 = thr[t].level /\ l < Root
      BY <1>1, Sizes
  <1>3. PICK n \in AllNodes, parent \in AllNodes :
            /\ n = ChildOf(t) /\ parent = NodeAt(thr[t].level, thr[t].x)
            /\ n = NodeAt(l, thr[t].x) /\ n[1] = l /\ parent[1] = l + 1 /\ ParentOf(n) = parent
      BY <1>2, NodeFacts DEF ChildOf
  <1>4. n # parent /\ n \notin present /\ parent \in present
      BY <1>1, <1>3, Zenon DEF TreeInv, Descending
  <1>5. /\ present' = present \cup {n} /\ size' = size
        /\ \A b \in Stored : payload'[b.addr] = payload[b.addr]
        /\ payload' \in [Addresses -> Blocks \cup {NoBlock}]
        /\ count' = [count EXCEPT ![n] = 0, ![parent] = @ + 1]
      BY <1>1, <1>3, AttachFacts, Zenon
  <1>6. OpOf(t)'
      BY <1>1, Zenon DEF Inner, Live, OpOf
  <1>7. /\ OpInv' /\ BlockInv' /\ WantedInv' /\ (\A u \in Threads \ {t} : thr'[u] = thr[u] /\ Kept(u))
        /\ \A u \in Threads : u > ops' => thr'[u] = Idle
      BY <1>6, InnerPreserves, Zenon
  <1>8. TypeInv'
      BY <1>5, <1>7 DEF TypeInv, Inner
  <1>9. Stored' = Stored /\ \A x \in Addresses : Writing(x)' <=> Writing(x)
      BY <1>1, <1>7, KeptWriting DEF HasEntry, Inner, Stored
  <1>10. SearchInv' /\ ResultInv'
      BY <1>1, <1>5, <1>9, OthersSearch, Zenon
  <1>11. EntryInv'
      BY <1>5, <1>9, BlockFacts, Zenon DEF Stored, EntryInv
  <1>12. Descending(t)' /\ thr[t].b \in Arrived(l)' /\ NodeAt(l, thr[t].b.addr) = n
    <2>1. thr[t].b \in Blocks /\ thr[t].b.addr = thr[t].x /\ thr'[t].b = thr[t].b
        BY <1>1, ThreadFacts, Zenon DEF OpOf, Inner
    <2>2. Descending(t)' /\ thr'[t].level <= l
        BY <1>1, <1>2 DEF Descending, Inner
    <2> QED BY <1>3, <2>1, <2>2, Zenon DEF Arrived
  <1>13. TreeInv'
    <2>1. NodeAt(Root, 0) \in present'
        BY <1>5, Zenon DEF TreeInv
    <2>2. \A m \in present' : m[1] < Root => ParentOf(m) \in present'
        BY <1>3, <1>4, <1>5, Zenon DEF TreeInv
    <2>3. \A k \in 0..Root : Arrived(k) \subseteq Arrived(k)'
      <3>1. thr'[t].level <= thr[t].level /\ thr'[t].level \in 0..Root /\ thr'[t].b = thr[t].b
          BY <1>1, <1>2 DEF Inner
      <3> QED BY <1>7, <1>12, <3>1, KeptArrived, Zenon
    <2>4. ASSUME NEW m \in present', m[1] < Root
          PROVE  \E b \in Stored' \cup Arrived(m[1])' : NodeAt(m[1], b.addr) = m
        BY <1>3, <1>5, <1>9, <1>12, <2>3, <2>4, NodeCases, Zenon DEF TypeInv, TreeInv
    <2>5. ASSUME NEW u \in Threads, Descending(u)'
          PROVE  NodeAt(thr'[u].level, thr'[u].x) \in present'
        BY <1>1, <1>2, <1>3, <1>5, <1>7, <2>5, KeptFacts, Zenon DEF Inner, TreeInv
    <2> QED BY <2>1, <2>2, <2>4, <2>5, Zenon DEF TreeInv
  <1>14. CountInv'
    <2> SUFFICES ASSUME NEW k \in AllNodes PROVE count'[k] = Cardinality(Members(k)')
        BY Zenon DEF CountInv
    <2>1. \A m \in present : m[1] < Root => ParentOf(m) # n
        BY <1>2, <1>3, <1>4, NothingBelow
    <2>2. k[1] \in 0..Root /\ l \in Nat /\ Root \in Nat
        BY NodeCases, Sizes
    <2>3. CASE k = n
      <3>1. Members(k)' = {}
        <4>1. CASE l = 0
          <5>1. \A x \in Addresses : NodeAt(0, x) = n => size[x] = 0
              BY <1>2, <1>3, <1>4, NothingBelow
          <5> QED BY <1>3, <1>5, <2>3, <4>1, <5>1, Zenon DEF Members
        <4>2. CASE l # 0
          <5>1. ASSUME NEW m \in Members(k)' PROVE FALSE
            <6> m \in present' /\ m[1] = l - 1 /\ ParentOf(m) = n
                BY <1>3, <2>3, <4>2, Zenon DEF Members
            <6>1. m # n
                BY <1>3
            <6>2. m \in present /\ m[1] < Root
                BY <1>5, <2>2, <6>1
            <6> QED BY <2>1, <6>2, Zenon
          <5> QED BY <5>1, Zenon
        <4> QED BY <4>1, <4>2, Zenon
      <3>2. count'[k] = 0
          BY <1>5, <2>3 DEF TypeInv
      <3> QED BY <3>1, <3>2, FS_EmptySet, Zenon
    <2>4. CASE k = parent
      <3> USE <2>4
      <3>1. k[1] # 0 /\ k[1] - 1 = l
          BY <1>3, <2>2
      <3>2. Members(k)' = Members(k) \cup {n} /\ n \notin Members(k)
          BY <1>3, <1>5, <3>1, Zenon DEF Members
      <3>3. Cardinality(Members(k)') = Cardinality(Members(k)) + 1
          BY <3>2, MembersFinite, FS_AddElement, Zenon
      <3>4. count'[k] = count[k] + 1
          BY <1>5, Zenon DEF TypeInv
      <3> QED BY <3>3, <3>4, Zenon DEF CountInv
    <2>5. CASE k # n /\ k # parent
        BY <1>3, <1>5, <1>9, <2>5, Zenon DEF Members, TypeInv, CountInv
    <2> QED BY <2>3, <2>4, <2>5, Zenon
  <1> QED BY <1>7, <1>8, <1>10, <1>11, <1>13, <1>14, Zenon

\* compare_exchange.
LEMMA InsertExchangePreserves ==
    ASSUME Spanning, Paths, Inv, NEW t \in Threads, InsertExchange(t)
    PROVE  /\ TypeInv' /\ OpInv' /\ BlockInv' /\ EntryInv' /\ TreeInv' /\ CountInv'
           /\ WantedInv' /\ SearchInv' /\ ResultInv'
  <1>1. /\ At(t, "insert", "exchange") /\ Inner(t) /\ Deeper(t)
        /\ \/ ChildOf(t) \notin present /\ AttachAndCount(t)
           \/ ChildOf(t) \in present /\ UNCHANGED tree
      BY InsertExchangeCases, Zenon DEF Inv
  <1>2. Descending(t)
      BY <1>1, Zenon DEF At, Descending
  <1> QED BY <1>1, <1>2, AttachPreserves, DeeperPreserves, Zenon

\* ... and the payload.
LEMMA InsertPayloadPreserves ==
    ASSUME Spanning, Inv, NEW t \in Threads, InsertPayload(t)
    PROVE  /\ TypeInv' /\ OpInv' /\ BlockInv' /\ EntryInv' /\ TreeInv' /\ CountInv'
           /\ WantedInv' /\ SearchInv' /\ ResultInv'
  <1> TypeInv /\ OpInv /\ BlockInv /\ EntryInv /\ TreeInv /\ CountInv /\ OpOf(t)
      BY Zenon DEF Inv, OpInv
  <1> /\ At(t, "insert", "payload") /\ Inner(t) /\ Returns(t, thr[t].x)
      /\ UNCHANGED <<present, size>>
      /\ payload' = [payload EXCEPT ![thr[t].x] = thr[t].b]
      /\ count' = [count EXCEPT ![NodeAt(0, thr[t].x)] = @ + 1]
      BY InsertPayloadCases, Zenon
  <1>1. /\ thr[t].op = "insert" /\ thr[t].pc = "payload" /\ thr'[t].pc = "leave"
        /\ thr'[t].result = thr[t].x /\ ~ Descending(t) /\ ~ Descending(t)'
        /\ thr[t].x \in Addresses
      BY ThreadFacts, Zenon DEF At, Returns, Moved, Descending
  <1>2. PICK b \in Blocks : b = thr[t].b /\ b.addr = thr[t].x /\ state[b] = "inserting"
      BY <1>1, ThreadFacts, Zenon DEF OpOf
  <1>3. OpOf(t)'
    <2>1. thr'[t].result >= 0
        BY <1>1, PreTop
    <2> QED BY <1>1, <2>1, Zenon DEF OpOf, Inner
  <1>4. /\ OpInv' /\ BlockInv' /\ WantedInv' /\ (\A u \in Threads \ {t} : thr'[u] = thr[u] /\ Kept(u))
        /\ \A u \in Threads : u > ops' => thr'[u] = Idle
      BY <1>3, InnerPreserves, Zenon
  <1>5. PICK leaf \in AllNodes : leaf = NodeAt(0, b.addr) /\ leaf[1] = 0
      BY Sizes, NodeFacts, BlockFacts
  <1>6. TypeInv'
    <2>1. count' \in [AllNodes -> Int]
        BY <1>2, <1>5 DEF TypeInv
    <2>2. payload' \in [Addresses -> Blocks \cup {NoBlock}]
        BY <1>2, Zenon DEF TypeInv
    <2> QED BY <1>4, <2>1, <2>2, Zenon DEF TypeInv, Inner
  <1>7. Stored' = Stored /\ b \in Stored
    <2>1. HasEntry(t) /\ HasEntry(t)' /\ UNCHANGED state /\ thr'[t].b = thr[t].b
        BY <1>1, Zenon DEF HasEntry, Inner
    <2>2. \A c \in Blocks : c \in Stored' <=> c \in Stored
        BY <1>4, <2>1, KeptStored, Zenon
    <2> QED BY <1>2, <2>1, <2>2, Zenon DEF Stored
  <1>8. \A y \in Addresses : Writing(y)' <=> Writing(y) /\ y # b.addr
    <2>1. ASSUME NEW u \in Threads, u # t, thr[u].pc = "payload", thr[u].x = b.addr PROVE FALSE
      <3>1. thr[u].b \in Blocks /\ thr[u].b.addr = b.addr
          BY <2>1, ThreadFacts, Zenon DEF OpInv, OpOf
      <3>2. thr[u].b = b
          BY <3>1, SameAddress, Zenon
      <3> QED BY <1>2, <2>1, <3>2, BlockFacts DEF BlockInv
    <2> QED BY <1>1, <1>2, <2>1, Zenon DEF Writing, Inner
  <1>9. SearchInv' /\ ResultInv'
      BY <1>1, <1>7, OthersSearch, Zenon
  <1>10. ASSUME NEW c \in Stored, c # b PROVE c \in Blocks /\ c.addr # b.addr /\ c.addr \in Addresses
      BY <1>10, SameAddress, BlockFacts, Zenon DEF Stored
  <1>11. EntryInv'
      BY <1>1, <1>2, <1>7, <1>8, <1>10 DEF TypeInv, EntryInv
  <1>12. TreeInv'
      BY <1>1, <1>4, <1>7, KeptArrived, NodeCases, KeptFacts, Zenon DEF TypeInv, TreeInv
  <1>13. CountInv'
    <2> SUFFICES ASSUME NEW k \in AllNodes PROVE count'[k] = Cardinality(Members(k)')
        BY Zenon DEF CountInv
    <2>1. CASE k = leaf
      <3>1. size[b.addr] # 0 /\ b.addr \in Addresses /\ Writing(b.addr)
          BY <1>1, <1>2, <1>7, BlockFacts, Zenon DEF EntryInv, Writing
      <3>2. Members(k)' = Members(k) \cup {b.addr} /\ b.addr \notin Members(k)
          BY <1>5, <1>8, <2>1, <3>1, Zenon DEF Members
      <3>3. Cardinality(Members(k)') = Cardinality(Members(k)) + 1
          BY <3>2, MembersFinite, FS_AddElement, Zenon
      <3>4. count'[k] = count[k] + 1
          BY <1>2, <1>5, <2>1, Zenon DEF TypeInv
      <3> QED BY <3>3, <3>4, Zenon DEF CountInv
    <2>2. CASE k # leaf
        BY <1>2, <1>5, <1>8, <2>2, Zenon DEF Members, TypeInv, CountInv
    <2> QED BY <2>1, <2>2, Zenon
  <1> QED BY <1>4, <1>6, <1>9, <1>11, <1>12, <1>13, Zenon

\* The counters are right after it: a node has lost an entry, or a child.
LEMMA RemovalCounts ==
    ASSUME Spanning, Paths,
           TypeInv, EntryInv, TreeInv, CountInv, NEW b, NEW after, Removal(b, after)
    PROVE  CountInv'
  <1>1. b \in Blocks /\ b.addr \in Addresses /\ size[b.addr] # 0
      BY StoredFacts, Zenon DEF Removal
  <1> SUFFICES ASSUME NEW k \in AllNodes PROVE count'[k] = Cardinality(Members(k)')
      BY Zenon DEF CountInv
  <1>2. PICK l \in 0..Root : l = k[1]
      BY NodeCases, Zenon
  <1>3. Root \in Nat /\ l \in Nat /\ count[k] \in Int /\ count[k] = Cardinality(Members(k))
      BY Sizes DEF TypeInv, CountInv
  <1>4. CASE l = 0
    <2>1. CASE k = NodeAt(0, b.addr)
      <3> USE <2>1
      <3>1. Members(k)' = Members(k) \ {b.addr} /\ b.addr \in Members(k)
          BY <1>1, <1>2, <1>4 DEF Members, Removal
      <3>2. Cardinality(Members(k)') = Cardinality(Members(k)) - 1
          BY <3>1, MembersFinite, FS_RemoveElement, Zenon
      <3>3. count'[k] = count[k] - 1
        <4>1. k[1] = 0 /\ k = NodeAt(k[1], b.addr)
            BY <1>2, <1>4, Zenon
        <4>2. count'[k] = after[0]
            BY <4>1, Zenon DEF Removal
        <4>3. after[0] = count[NodeAt(0, b.addr)] - 1
            BY Zenon DEF Removal
        <4> QED BY <4>2, <4>3, Zenon
      <3> QED BY <1>3, <3>2, <3>3, Zenon
    <2>2. CASE k # NodeAt(0, b.addr)
      <3>1. Members(k)' = Members(k)
          BY <1>2, <1>4, <2>2 DEF Members, Removal
      <3>2. count'[k] = count[k]
          BY <1>2, <1>4, <2>2, Zenon DEF Removal
      <3> QED BY <1>3, <3>1, <3>2, Zenon
    <2> QED BY <2>1, <2>2, Zenon
  <1>5. CASE l # 0
    <2> PICK j \in 0..Root : j = l - 1 /\ j + 1 = l /\ j < Root /\ l \in 1..Root
        BY <1>3, <1>5
    <2>1. PICK child \in AllNodes : /\ child = NodeAt(j, b.addr) /\ child[1] = j
                                    /\ ParentOf(child) = NodeAt(l, b.addr)
        BY <1>1, NodeFacts
    <2>2. child \in present
        BY <2>1, Zenon DEF Removal
    <2>3. \A m : m[1] = j => (m \in present' <=> m \in present /\ ~ (m = child /\ after[j] = 0))
        BY <2>1 DEF Removal
    <2>4. Members(k) = {m \in present : m[1] = j /\ ParentOf(m) = k}
          /\ Members(k)' = {m \in present' : m[1] = j /\ ParentOf(m) = k}
        BY <1>2 DEF Members
    <2>5. CASE k = NodeAt(l, b.addr) /\ after[j] = 0
      <3>1. Members(k)' = Members(k) \ {child} /\ child \in Members(k)
          BY <2>1, <2>2, <2>3, <2>4, <2>5, Zenon
      <3>2. Cardinality(Members(k)') = Cardinality(Members(k)) - 1
          BY <3>1, MembersFinite, FS_RemoveElement, Zenon
      <3>3. count'[k] = count[k] - 1
          BY <1>2, <2>5 DEF Removal
      <3> QED BY <1>3, <3>2, <3>3, Zenon
    <2>6. CASE ~ (k = NodeAt(l, b.addr) /\ after[j] = 0)
      <3>1. Members(k)' = Members(k)
          BY <2>1, <2>3, <2>4, <2>6, Zenon
      <3>2. count'[k] = count[k]
          BY <1>2, <2>6, Zenon DEF Removal
      <3> QED BY <1>3, <3>1, <3>2, Zenon
    <2> QED BY <2>5, <2>6, Zenon
  <1> QED BY <1>4, <1>5, Zenon

\* A node of the path that is gone has nothing below it.
LEMMA RemovalEmpties ==
    ASSUME Spanning, TypeInv', CountInv', NEW b, NEW after, Removal(b, after), NEW n \in AllNodes
    PROVE  /\ n \in present /\ n \notin present' => Members(n)' = {}
           /\ n \in present' /\ n[1] < Root /\ n = NodeAt(n[1], b.addr) => Members(n)' # {}
  <1>1. IsFiniteSet(Members(n)') /\ count'[n] = Cardinality(Members(n)')
      BY Finite, FS_Subset, Zenon DEF Members, TypeInv, CountInv
  <1>2. Cardinality(Members(n)') = 0 <=> Members(n)' = {}
      BY <1>1, FS_EmptySet, Zenon
  <1>3. n \in present /\ n \notin present' => count'[n] = 0
      BY Zenon DEF Removal
  <1>4. n \in present' /\ n[1] < Root /\ n = NodeAt(n[1], b.addr) => count'[n] # 0
      BY DEF Removal
  <1> QED BY <1>1, <1>2, <1>3, <1>4, Zenon

\* The entries, after it.
LEMMA RemovalEntries ==
    ASSUME Spanning, Paths, TypeInv, EntryInv, TreeInv, TypeInv', CountInv', payload' = payload,
           NEW b, NEW after, Removal(b, after)
    PROVE  EntryInv'
  <1>1. b \in Blocks /\ b.addr \in Addresses /\ b \in Stored /\ Stored' = Stored \ {b}
      BY StoredFacts, Zenon DEF Removal
  <1>2. ASSUME NEW c \in Stored' PROVE /\ c \in Stored /\ c \in Blocks /\ c.addr \in Addresses
                                       /\ c.addr # b.addr /\ size[c.addr] = c.size /\ c.size # 0
      BY <1>1, StoredFacts, SameAddress, Zenon
  <1>3. ASSUME NEW c \in Stored' PROVE size'[c.addr] = c.size /\ NodeAt(0, c.addr) \in present'
    <2>1. size'[c.addr] = c.size /\ size'[c.addr] # 0 /\ ~ Writing(c.addr)'
        BY <1>2 DEF Removal
    <2> PICK n \in AllNodes : n = NodeAt(0, c.addr) /\ n[1] = 0
      <3>1. 0 \in 0..Root
          BY Sizes
      <3> QED BY <1>2, <3>1, NodeFacts, Zenon
    <2>2. n \in present
        BY <1>2, Zenon DEF EntryInv
    <2>3. c.addr \in Members(n)'
        BY <1>2, <2>1, Zenon DEF Members
    <2> QED BY <2>1, <2>2, <2>3, RemovalEmpties, Zenon
  <1>4. \A c \in Stored' : payload'[c.addr] = c
      BY <1>2, Zenon DEF Removal, EntryInv
  <1>5. \A y \in Addresses : size'[y] # 0 => \E c \in Stored' : c.addr = y
      BY Zenon DEF Removal, EntryInv
  <1> QED BY <1>3, <1>4, <1>5, Zenon DEF EntryInv

\* What is left has a reason: what is below it.
LEMMA RemovalReasons ==
    ASSUME Spanning, TypeInv, EntryInv, TreeInv, TypeInv', CountInv', EntryInv',
           NEW b, NEW after, Removal(b, after), NEW n \in present', n[1] < Root
    PROVE  \E c \in Stored' : NodeAt(n[1], c.addr) = n
  <1> DEFINE Good == {l \in Nat : l < Root => \A m \in present' :
                         m[1] = l => \E c \in Stored' : NodeAt(l, c.addr) = m}
  <1>1. ASSUME NEW l \in Nat, l < Root, NEW m \in present', m[1] = l, l # 0 => l - 1 \in Good
        PROVE  \E c \in Stored' : NodeAt(l, c.addr) = m
    <2> USE <1>1
    <2>1. m \in present /\ m \in AllNodes /\ l \in 0..Root
        BY Sizes DEF Removal, TypeInv
    <2>2. PICK c \in Stored : NodeAt(l, c.addr) = m
        BY <2>1 DEF TreeInv, Removal
    <2>3. CASE c # b
        BY <2>2, <2>3, Zenon DEF Removal
    <2>4. CASE c = b
      <3>1. PICK y \in Members(m)' : TRUE
          BY <2>1, <2>2, <2>4, RemovalEmpties, Zenon
      <3>2. CASE l = 0
          BY <3>2 DEF Members, EntryInv
      <3>3. CASE l # 0
          BY <3>3, Sizes, BlockFacts, NodeFacts DEF Members, Stored
      <3> QED BY <3>2, <3>3, Zenon
    <2> QED BY <2>3, <2>4, Zenon
  <1>2. 0 \in Good
      BY <1>1, Zenon
  <1>3. ASSUME NEW k \in Nat, k \in Good PROVE k + 1 \in Good
      BY <1>1, <1>3
  <1>4. n[1] \in Nat
      BY NodeCases DEF TypeInv
  <1>5. Nat \subseteq Good
    <2> HIDE DEF Good
    <2> QED BY <1>2, <1>3, SetInduction, Zenon
  <1> QED BY <1>4, <1>5, Zenon

\* The tree, after it.
LEMMA RemovalTree ==
    ASSUME Spanning, TypeInv, EntryInv, TreeInv, TypeInv', CountInv', EntryInv',
           NEW b, NEW after, Removal(b, after), \A u \in Threads : ~ Descending(u)'
    PROVE  TreeInv'
  <1>1. NodeAt(Root, 0) \in present'
      BY Sizes, NodeFacts DEF TreeInv, Removal
  <1>2. ASSUME NEW m \in present', m[1] < Root PROVE ParentOf(m) \in present'
    <2> m \in present /\ m \in AllNodes /\ ParentOf(m) \in present
        BY <1>2, Zenon DEF Removal, TreeInv, TypeInv
    <2> PICK p \in AllNodes : p = ParentOf(m)
        BY Zenon DEF TypeInv
    <2>1. m[1] \in 0..Root /\ Root \in Nat
        BY NodeCases, Sizes, Zenon
    <2>2. p[1] = m[1] + 1
        BY Zenon DEF ParentOf
    <2>3. p[1] # 0 /\ m[1] = p[1] - 1
        BY <2>1, <2>2
    <2>4. m \in Members(p)'
        BY <2>3, Zenon DEF Members
    <2> QED BY <2>4, RemovalEmpties, Zenon
  <1>3. \A m \in present' : m[1] < Root =>
            \E c \in Stored' \cup Arrived(m[1])' : NodeAt(m[1], c.addr) = m
      BY RemovalReasons, Zenon
  <1> QED BY <1>1, <1>2, <1>3, Zenon DEF TreeInv

\* What it erases is there: the block of its caller.
LEMMA EraseRemoves ==
    ASSUME Spanning, Inv, NEW t \in Threads, At(t, "erase", "descend"), Inner(t),
           Occupied(thr[t].x), Returns(t, thr[t].x), NEW after, after = CountsAfterErase(thr[t].x),
           size' = [size EXCEPT ![thr[t].x] = 0],
           count' = [n \in AllNodes |-> IF n = NodeAt(n[1], thr[t].x) THEN after[n[1]] ELSE count[n]],
           present' = present \ {NodeAt(l, thr[t].x) : l \in {k \in 0..(Root - 1) : after[k] = 0}}
    PROVE  Removal(thr[t].b, after)
  <1> TypeInv /\ OpInv /\ BlockInv /\ EntryInv /\ LockInv /\ OpOf(t) /\ thr[t].x \in Addresses
      BY ThreadFacts, Zenon DEF Inv, OpInv
  <1>1. thr[t].op = "erase" /\ thr[t].pc = "descend" /\ thr'[t].pc = "leave" /\ thr'[t].op = "erase"
      BY Zenon DEF At, Returns, Moved, Inner
  <1> PICK b \in Blocks : b = thr[t].b /\ b.addr = thr[t].x /\ state[b] = "erasing"
      BY <1>1, BlockFacts, ThreadFacts DEF Occupied, EntryInv, Stored, OpOf
  <1>2. \A u \in Threads \ {t} : /\ thr'[u] = thr[u] /\ thr[u].pc \in {"idle", "enter"}
                                 /\ ~ Descending(u)
      BY EraseAlone, Zenon DEF Inner
  <1>3. ~ Descending(t)
      BY <1>1, Zenon DEF Descending
  <1>4. b \in Stored
      BY <1>1, Zenon DEF Stored, HasEntry
  <1>5. Stored' = Stored \ {b}
      BY <1>1, BlockFacts DEF Inner, HasEntry, BlockInv, Stored
  <1>6. \A k \in 0..Root : Arrived(k) = {}
      BY <1>2, <1>3, Zenon DEF Arrived
  <1>7. \A y \in Addresses : ~ Writing(y) /\ ~ Writing(y)'
      BY <1>1, <1>2, Zenon DEF Writing
  <1>8. /\ \A l \in 0..Root : after[l] \in Int
        /\ after[0] = count[NodeAt(0, b.addr)] - 1
        /\ \A l \in 1..Root : after[l] = IF after[l - 1] = 0 THEN count[NodeAt(l, b.addr)] - 1
                                         ELSE count[NodeAt(l, b.addr)]
      BY AfterFacts, Zenon
  <1>9. \A l \in 0..Root : NodeAt(l, b.addr) \in present
      BY Zenon DEF Occupied
  <1>10. size'[b.addr] = 0 /\ \A y \in Addresses : y # b.addr => size'[y] = size[y]
      BY Zenon DEF TypeInv
  <1>11. ASSUME NEW m
         PROVE  m \in present' <=>
                    m \in present /\ ~ (m[1] < Root /\ m = NodeAt(m[1], b.addr) /\ after[m[1]] = 0)
    <2>1. ASSUME m \in present, m[1] < Root, m = NodeAt(m[1], b.addr), after[m[1]] = 0
          PROVE  m \notin present'
        BY <2>1, NodeCases, Sizes DEF TypeInv
    <2>2. ASSUME m \in present, m \notin present'
          PROVE  m[1] < Root /\ m = NodeAt(m[1], b.addr) /\ after[m[1]] = 0
        BY <2>2, Sizes, NodeFacts
    <2> QED BY <2>1, <2>2, Zenon
  <1> QED BY <1>4, <1>5, <1>6, <1>7, <1>8, <1>9, <1>10, <1>11, Zenon DEF Removal

\* erase.
LEMMA ErasePreserves ==
    ASSUME Spanning, Paths, Inv, NEW t \in Threads, Erase(t)
    PROVE  /\ TypeInv' /\ OpInv' /\ BlockInv' /\ EntryInv' /\ TreeInv' /\ CountInv'
           /\ WantedInv' /\ SearchInv' /\ ResultInv'
  <1>1. TypeInv /\ LockInv /\ OpInv /\ EntryInv /\ TreeInv /\ CountInv /\ OpOf(t)
        /\ thr[t].x \in Addresses
      BY ThreadFacts, Zenon DEF Inv, OpInv
  <1>2. PICK after : after = CountsAfterErase(thr[t].x)
      BY Zenon
  <1>3. /\ At(t, "erase", "descend") /\ Inner(t) /\ UNCHANGED payload
        /\ \/ ~ Occupied(thr[t].x) /\ Returns(t, -1) /\ UNCHANGED tree
           \/ /\ Occupied(thr[t].x) /\ Returns(t, thr[t].x)
              /\ size' = [size EXCEPT ![thr[t].x] = 0]
              /\ count' = [n \in AllNodes |->
                              IF n = NodeAt(n[1], thr[t].x) THEN after[n[1]] ELSE count[n]]
              /\ present' = present \ {NodeAt(l, thr[t].x) : l \in {k \in 0..(Root - 1) : after[k] = 0}}
      BY <1>1, <1>2, EraseCases, Zenon
  <1>4. CASE ~ Occupied(thr[t].x) /\ Returns(t, -1) /\ UNCHANGED tree
      BY <1>3, <1>4, EraseFailsPreserves, Zenon
  <1>5. CASE /\ Occupied(thr[t].x) /\ Returns(t, thr[t].x)
             /\ size' = [size EXCEPT ![thr[t].x] = 0]
             /\ count' = [n \in AllNodes |->
                             IF n = NodeAt(n[1], thr[t].x) THEN after[n[1]] ELSE count[n]]
             /\ present' = present \ {NodeAt(l, thr[t].x) : l \in {k \in 0..(Root - 1) : after[k] = 0}}
    <2>1. Removal(thr[t].b, after)
        BY <1>2, <1>3, <1>5, EraseRemoves, ZenonT(30)
    <2>2. thr[t].op = "erase" /\ thr[t].pc = "descend" /\ thr'[t].pc = "leave" /\ thr'[t].op = "erase"
        BY <1>3, Zenon DEF At, Returns, Moved, Inner
    <2>3. OpOf(t)'
        BY <1>1, <1>3, <2>2, Zenon DEF Inner, Live, OpOf
    <2>4. /\ OpInv' /\ BlockInv' /\ WantedInv' /\ (\A u \in Threads \ {t} : thr'[u] = thr[u])
          /\ \A u \in Threads : u > ops' => thr'[u] = Idle
        BY <1>3, <2>3, InnerPreserves, Zenon
    <2>5. TypeInv'
        BY <1>1, <1>3, <1>5, <2>1, <2>4, NodeCases, Zenon DEF TypeInv, Removal, Inner
    <2>6. \A u \in Threads : ~ Descending(u)' /\ thr'[u].pc \notin {"descend"}
                             /\ (thr'[u].pc = "leave" => thr'[u].op = "erase")
        BY <1>1, <1>3, <2>2, <2>4, EraseAlone, Zenon DEF Descending
    <2>7. SearchInv' /\ ResultInv'
        BY <2>6, Zenon DEF SearchInv, ResultInv, ResultOf, At
    <2>8. CountInv'
        BY <1>1, <2>1, RemovalCounts, Zenon
    <2>9. EntryInv'
        BY <1>1, <1>3, <2>1, <2>5, <2>8, RemovalEntries, Zenon
    <2>10. TreeInv'
        BY <1>1, <2>1, <2>5, <2>6, <2>8, <2>9, RemovalTree, Zenon
    <2> QED BY <2>4, <2>5, <2>7, <2>8, <2>9, <2>10, Zenon
  <1> QED BY <1>3, <1>4, <1>5, Zenon

\* When only the entries and the nodes of some blocks are there, EntriesFor
\* counts the members of a node.
LEMMA EntriesCounted ==
    ASSUME Spanning, NEW old \in SUBSET Blocks, present = NodesFor(old),
           \A x \in Addresses : size[x] # 0 /\ ~ Writing(x) <=> \E b \in old : b.addr = x,
           NEW n \in AllNodes
    PROVE  EntriesFor(n, old) = Cardinality(Members(n)) /\ EntriesFor(n, old) \in Nat
  <1>1. IsFiniteSet(Members(n))
      BY NodesForFacts, Finite, FS_Subset, Zenon DEF Members
  <1>2. CASE n[1] = 0
    <2> DEFINE S == {b \in old : NodeAt(0, b.addr) = n}
               f == [b \in S |-> b.addr]
    <2>1. Members(n) = {x \in Addresses : NodeAt(0, x) = n /\ \E b \in old : b.addr = x}
        BY <1>2, Zenon DEF Members
    <2>2. \A b \in old : b \in Blocks /\ b.addr \in Addresses
        BY BlockFacts, Zenon
    <2>3. f \in [S -> Members(n)]
        BY <2>1, <2>2, Zenon
    <2>4. \A b, c \in S : f[b] = f[c] => b = c
        BY <2>2, SameAddress, Zenon
    <2>5. \A x \in Members(n) : \E b \in S : f[b] = x
        BY <2>1, Zenon
    <2>6. f \in Injection(S, Members(n)) /\ f \in Surjection(S, Members(n))
      <3> HIDE DEF S, f
      <3> QED BY <2>3, <2>4, <2>5, Zenon DEF Injection, Surjection, IsInjective
    <2>7. Cardinality(S) = Cardinality(Members(n))
      <3> HIDE DEF S, f
      <3> QED BY <1>1, <2>6, FS_Injection, Zenon
    <2>8. EntriesFor(n, old) = Cardinality(S)
        BY <1>2, Zenon DEF EntriesFor
    <2> QED BY <1>1, <2>7, <2>8, FS_CardinalityType, Zenon
  <1>3. CASE n[1] # 0
    <2>1. n[1] \in Nat /\ n = <<n[1], n[2]>>
        BY NodeCases, Sizes
    <2>2. \A m \in present : m[1] \in Nat
        BY NodesForFacts, NodeCases, Sizes
    <2>3. ASSUME NEW m \in present
          PROVE  m[1] = n[1] - 1 /\ m[2] \div Base = n[2] <=> m[1] = n[1] - 1 /\ ParentOf(m) = n
        BY <2>1, <2>2 DEF ParentOf
    <2>4. {m \in NodesFor(old) : m[1] = n[1] - 1 /\ m[2] \div Base = n[2]} = Members(n)
        BY <1>3, <2>3, Zenon DEF Members
    <2>5. EntriesFor(n, old) = Cardinality(Members(n))
        BY <1>3, <2>4, Zenon DEF EntriesFor
    <2> QED BY <1>1, <2>5, FS_CardinalityType, Zenon
  <1> QED BY <1>2, <1>3, Zenon

\* A map that some blocks have been inserted into.
LEMMA InitInv ==
    Init => Inv
  <1> SUFFICES ASSUME Init PROVE Inv
      BY Zenon
  <1> USE SpanningHolds
  <1> PICK old \in OldBlocks :
          /\ inProgress = 0 /\ present = NodesFor(old)
          /\ count = [n \in AllNodes |-> EntriesFor(n, old)]
          /\ size = [x \in Addresses |->
                        IF \E b \in old : b.addr = x
                        THEN (CHOOSE b \in old : b.addr = x).size ELSE 0]
          /\ payload = [x \in Addresses |->
                           IF \E b \in old : b.addr = x
                           THEN CHOOSE b \in old : b.addr = x ELSE NoBlock]
          /\ state = [b \in Blocks |-> IF b \in old THEN "live" ELSE "free"]
          /\ ops = 0 /\ thr = [t \in Threads |-> Idle]
      BY Zenon DEF Init
  <1>1. old \in SUBSET Blocks /\ old \subseteq Blocks
      BY MapAssumption, Zenon
  <1>2. \A t \in Threads : thr[t] = Idle
      BY Zenon
  <1>3. /\ Idle.op = "none" /\ Idle.pc = "idle" /\ Idle.b = NoBlock /\ Idle \in ThreadType
      BY Sizes DEF Idle, ThreadType
  <1>4. \A t \in Threads : ~ HasEntry(t) /\ ~ Descending(t) /\ t \notin Inside
      BY <1>2, <1>3, Zenon DEF HasEntry, Descending, Inside
  <1>5. Stored = old /\ Live = old
      BY <1>1, <1>4, Zenon DEF Stored, Live
  <1>6. \A x \in Addresses : ~ Writing(x)
      BY <1>2, <1>3, Zenon DEF Writing
  <1>7. ASSUME NEW b \in old
        PROVE b.addr \in Addresses /\ size[b.addr] = b.size /\ payload[b.addr] = b /\ b.size # 0
      BY <1>1, BlockFacts
  <1>8. \A x \in Addresses : ~ (\E b \in old : b.addr = x) => size[x] = 0 /\ payload[x] = NoBlock
      BY Zenon
  <1>9. \A x \in Addresses : size[x] # 0 /\ ~ Writing(x) <=> \E b \in old : b.addr = x
      BY <1>6, <1>7, <1>8
  <1>10. \A n \in AllNodes : count[n] = Cardinality(Members(n)) /\ count[n] \in Nat
      BY <1>1, <1>9, EntriesCounted, Zenon
  <1>11. TypeInv
    <2>1. count \in [AllNodes -> Int]
        BY <1>10
    <2>2. \A x \in Addresses : size[x] \in {0} \cup {b.size : b \in Blocks}
                               /\ payload[x] \in Blocks \cup {NoBlock}
        BY <1>1, <1>7, <1>8, Zenon
    <2>3. /\ size \in [Addresses -> {0} \cup {b.size : b \in Blocks}]
          /\ payload \in [Addresses -> Blocks \cup {NoBlock}]
        BY <2>2, Zenon
    <2>4. state \in [Blocks -> {"free", "inserting", "live", "erasing"}] /\ ops \in 0..MaxOps
        BY Sizes
    <2>5. thr \in [Threads -> ThreadType] /\ present \subseteq AllNodes
        BY <1>1, <1>3, NodesForFacts, Zenon
    <2> QED BY <1>2, <2>1, <2>3, <2>4, <2>5, Zenon DEF TypeInv
  <1>12. LockInv
      BY <1>4, FS_EmptySet, Zenon DEF Inside, LockInv, Erasing
  <1>13. OpInv
      BY <1>2, <1>3, Zenon DEF OpInv, OpOf
  <1>14. BlockInv
      BY <1>3, Zenon DEF BlockInv
  <1>15. EntryInv
    <2>1. 0 \in 0..Root
        BY Sizes
    <2>2. \A b \in old : NodeAt(0, b.addr) \in present
        BY <1>1, <2>1, NodesForFacts, Zenon
    <2> QED BY <1>5, <1>7, <1>8, <2>2, Zenon DEF EntryInv
  <1>16. TreeInv
      BY <1>1, <1>4, <1>5, NodesForFacts, Zenon DEF TreeInv
  <1>17. CountInv
      BY <1>10, Zenon DEF CountInv
  <1>18. WantedInv /\ SearchInv /\ ResultInv
      BY <1>2, <1>3, Zenon DEF WantedInv, WantedOf, SearchInv, At, ResultInv, ResultOf
  <1> QED BY <1>11, <1>12, <1>13, <1>14, <1>15, <1>16, <1>17, <1>18, Zenon DEF Inv

\* Every step of the map keeps the invariant.
LEMMA InvNext ==
    Inv /\ [Next]_vars => Inv'
  <1> SUFFICES ASSUME Inv, [Next]_vars PROVE Inv'
      BY Zenon
  <1>s. Spanning /\ Paths
      BY SpanningHolds, PathsHold, Zenon DEF Inv
  <1> USE <1>s
  <1>1. CASE UNCHANGED vars
    <2> UNCHANGED <<inProgress, present, count, size, payload, state, ops, thr>>
        BY <1>1, Zenon DEF vars, tree
    <2>2. TypeInv' /\ LockInv' /\ OpInv' /\ BlockInv'
        BY DEF Inv, TypeInv, LockInv, Erasing, Inside, OpInv, OpOf, Live, BlockInv
    <2> Stored' = Stored /\ \A x : Writing(x)' <=> Writing(x)
        BY Zenon DEF Stored, HasEntry, Writing
    <2>4. EntryInv'
        BY Zenon DEF Inv, EntryInv
    <2>5. TreeInv'
        BY Zenon DEF Inv, TreeInv, Descending, Arrived
    <2>6. CountInv'
        BY Zenon DEF Inv, CountInv, Members
    <2>7. WantedInv' /\ SearchInv' /\ ResultInv'
        BY Zenon DEF Inv, WantedInv, WantedOf, Live, SearchInv, SearchOf, Looking, At,
           ResultInv, ResultOf
    <2> QED BY <2>2, <2>4, <2>5, <2>6, <2>7, Zenon DEF Inv
  <1>2. ASSUME NEW t \in Threads, CallSome(t) \/ Step(t) PROVE Inv'
    <2>1. LockInv'
        BY <1>2, LockPreserved, Zenon DEF Inv
    <2>2. CASE CallSome(t)
      <3>1. PICK op \in {"insert", "erase", "get", "getRoot"}, x \in Addresses,
                 b \in Blocks \cup {NoBlock}, stable \in SUBSET Blocks : MayCall(t, op, x, b, stable)
        <4>1. TypeInv
            BY Zenon DEF Inv
        <4> QED BY <2>2, <4>1, MayCallFacts, Zenon
      <3>2. /\ TypeInv' /\ OpInv' /\ BlockInv' /\ EntryInv' /\ TreeInv' /\ CountInv'
            /\ WantedInv' /\ SearchInv' /\ ResultInv'
          BY <3>1, CallPreserves, Zenon
      <3> QED BY <2>1, <3>2, Zenon DEF Inv
    <2>3. CASE Step(t)
      <3>1. /\ TypeInv' /\ OpInv' /\ BlockInv' /\ EntryInv' /\ TreeInv' /\ CountInv'
            /\ WantedInv' /\ SearchInv' /\ ResultInv'
          BY <2>3, EnterSharedPreserves, EnterErasePreserves, LeavePreserves,
             SearchNodePreserves, SearchLeafPreserves, GetRootPreserves, InsertLoadPreserves,
             InsertExchangePreserves, InsertSizePreserves, InsertPayloadPreserves,
             ErasePreserves, Zenon DEF Step
      <3> QED BY <2>1, <3>1, Zenon DEF Inv
    <2> QED BY <1>2, <2>2, <2>3, Zenon
  <1> QED BY <1>1, <1>2, Zenon DEF Next, Spin, Terminated

\* The inductive invariant of allocation_map: the lock, the entries and nodes
\* with their counters, and what each insert, erase and lookup has come to.
THEOREM MapCorrect == Spec => []Inv
  <1> QED BY InitInv, InvNext, PTL DEF Spec

\* A node has no more members than indices.
LEMMA MembersBounded ==
    ASSUME Spanning, TypeInv, NEW n \in AllNodes
    PROVE  Cardinality(Members(n)) \in 0..Base
  <1>1. PICK b \in Nat \ {0} : b = Base
      BY Spans
  <1>2. n[1] \in 0..Root /\ n[1] \in Nat /\ n[2] \in Nat /\ n = <<n[1], n[2]>>
      BY NodeCases
  <1> DEFINE low(m) == IF n[1] = 0 THEN m ELSE m[2]
  <1>3. ASSUME NEW m \in Members(n)
        PROVE  low(m) % b \in 0..(b - 1) /\ low(m) = b * n[2] + (low(m) % b)
    <2>1. CASE n[1] = 0
        BY <1>1, <1>2, <2>1, PreTop, NodeFacts, PreStep DEF Members
    <2>2. CASE n[1] # 0
      <3>1. m \in AllNodes /\ ParentOf(m) = n
          BY <2>2, Zenon DEF Members, TypeInv
      <3>2. m[2] \in Nat /\ m[2] \div b = n[2]
          BY <1>1, <3>1, NodeCases, Zenon DEF ParentOf
      <3>3. m[2] % b \in 0..(b - 1) /\ m[2] = b * (m[2] \div b) + (m[2] % b)
          BY <3>2
      <3> QED BY <2>2, <3>2, <3>3, Zenon
    <2> QED BY <2>1, <2>2, Zenon
  <1> DEFINE f == [m \in Members(n) |-> low(m) % b]
  <1>4. f \in [Members(n) -> 0..(b - 1)]
      BY <1>3, Zenon
  <1>5. ASSUME NEW m \in Members(n), NEW k \in Members(n), f[m] = f[k] PROVE m = k
    <2>1. low(m) = low(k)
        BY <1>3, <1>5, Zenon
    <2>2. CASE n[1] = 0
        BY <2>1, <2>2, Zenon
    <2>3. CASE n[1] # 0
        BY <2>1, NodeCases DEF Members, TypeInv
    <2> QED BY <2>2, <2>3, Zenon
  <1>6. f \in Injection(Members(n), 0..(b - 1))
    <2> HIDE DEF f
    <2> QED BY <1>4, <1>5, Zenon DEF Injection, IsInjective
  <1>7. IsFiniteSet(0..(b - 1)) /\ Cardinality(0..(b - 1)) = b
    <2>1. 0 \in Int /\ b - 1 \in Int
        OBVIOUS
    <2>2. IsFiniteSet(0..(b - 1)) /\ Cardinality(0..(b - 1)) = IF 0 > b - 1 THEN 0 ELSE b - 1 - 0 + 1
        BY ONLY <2>1, FS_Interval, Zenon
    <2> QED BY <2>2
  <1>8. Cardinality(Members(n)) <= Cardinality(0..(b - 1))
    <2> HIDE DEF f
    <2> QED BY <1>6, <1>7, FS_Injection, Zenon
  <1>9. Cardinality(Members(n)) \in Nat
      BY MembersFinite, Zenon
  <1> QED BY <1>1, <1>7, <1>8, <1>9

\* Types, for any tree: a counter does not pass the number of children of a
\* node, the places of a search are in the tree, and _num_in_progress_operations
\* counts the operations inside, of which erase() is the only one.
THEOREM MapTyped == Spec => []TypeOK
  <1>1. ASSUME Inv PROVE TypeOK
    <2> TypeInv /\ LockInv /\ CountInv
        BY <1>1, Zenon DEF Inv
    <2>1. \A n \in AllNodes : count[n] \in 0..Base
        BY MembersBounded, SpanningHolds, Zenon DEF CountInv
    <2>2. \A t \in Threads : /\ thr[t].level \in 0..Root /\ thr[t].i \in -1..(Base - 1)
                             /\ thr[t].attempts \in 0..1 /\ thr[t].result \in Addresses \cup {-1}
        BY Zenon DEF TypeInv, ThreadType
    <2>3. ASSUME NEW t \in Inside, thr[t].op = "erase" PROVE Cardinality(Inside) = 1
      <3>1. Inside = {t}
          BY <2>3, Zenon DEF LockInv
      <3> QED BY <3>1, FS_Singleton, Zenon
    <2> QED BY <2>1, <2>2, <2>3, Zenon DEF TypeOK, TypeInv, LockInv, Erasing
  <1> QED BY <1>1, MapCorrect, PTL

\* get_entry and get_entry_of_root_address, for any number of insertions at the
\* same time: a lookup finds the allocation that was there from its call to its
\* return, and what it reports contains the address.
THEOREM LookupsCorrect == Spec => []LookupCorrect
  <1>1. ASSUME Inv PROVE LookupCorrect
      BY <1>1, HolderFacts, SpanningHolds, Zenon DEF Inv, Stored, LookupCorrect, ResultInv,
         ResultOf
  <1> QED BY <1>1, MapCorrect, PTL

\* insert, for any number of threads that create the same nodes: an allocation
\* whose insertion has returned stays in the map, with its size and payload,
\* until it is erased.
THEOREM NothingIsLost == Spec => []NothingLost
  <1>1. ASSUME Inv PROVE NothingLost
    <2>1. Spanning /\ Paths
        BY <1>1, SpanningHolds, PathsHold, Zenon DEF Inv
    <2> QED BY <1>1, <2>1, StoredFacts, ThreadFacts, SameAddress DEF Inv, Live, Stored, OpInv,
               OpOf, EntryInv, Writing, NothingLost
  <1> QED BY <1>1, MapCorrect, PTL

\* erase, for any tree: when no operation is in progress there is no node that
\* the allocations in the map do not need, and the counters that erase() relies
\* on are right.
THEOREM TreeIsPruned == Spec => []TreePruned
  <1>1. ASSUME Inv, Inside = {}
        PROVE  LET settled == {b \in Blocks : state[b] \in {"live", "erasing"}}
               IN  /\ present = NodesFor(settled)
                   /\ \A n \in present : count[n] = EntriesFor(n, settled)
    <2> DEFINE settled == {b \in Blocks : state[b] \in {"live", "erasing"}}
    <2>s. Spanning /\ Paths
        BY <1>1, SpanningHolds, PathsHold, Zenon DEF Inv
    <2> USE <2>s
    <2> TypeInv /\ OpInv /\ BlockInv /\ EntryInv /\ TreeInv /\ CountInv
        BY <1>1, Zenon DEF Inv
    <2>2. \A t \in Threads : thr[t].pc \in {"idle", "enter"}
        BY <1>1, Zenon DEF Inside
    <2>3. (\A l \in 0..Root : Arrived(l) = {}) /\ \A x \in Addresses : ~ Writing(x)
        BY <2>2, Zenon DEF Arrived, Descending, Writing
    <2>4. ASSUME NEW b \in Blocks, NEW t \in Threads, thr[t].b = b
          PROVE  HasEntry(t) <=> state[b] = "erasing"
        BY <2>2, <2>4, HolderFacts, Zenon DEF OpInv, OpOf, HasEntry
    <2>5. Stored = settled
        BY <2>4, Zenon DEF Stored, BlockInv
    <2>6. settled \in SUBSET Blocks
        BY Zenon
    <2> HIDE DEF settled
    <2>7. present = NodesFor(settled)
      <3>1. ASSUME NEW n \in present PROVE n \in NodesFor(settled)
        <4> n \in AllNodes /\ n[1] \in 0..Root /\ Root \in Nat
            BY NodeCases, Sizes, Zenon DEF TypeInv
        <4>2. CASE n[1] < Root
            BY <2>3, <2>5, <2>6, <4>2, NodesForFacts DEF TreeInv
        <4>3. CASE n[1] = Root
            BY <2>6, <4>3, NodeCases, RootNode, NodesForFacts, Zenon
        <4> QED BY <4>2, <4>3
      <3>2. ASSUME NEW n \in NodesFor(settled) PROVE n \in present
          BY <2>5, StoredFacts DEF TreeInv, Occupied, NodesFor
      <3> QED BY <3>1, <3>2, Zenon
    <2>8. \A x \in Addresses : size[x] # 0 /\ ~ Writing(x) <=> \E b \in settled : b.addr = x
        BY <2>3, <2>5, StoredFacts, Zenon DEF EntryInv
    <2>9. \A n \in AllNodes : EntriesFor(n, settled) = Cardinality(Members(n))
        BY <2>6, <2>7, <2>8, EntriesCounted, Zenon
    <2>10. \A n \in present : count[n] = EntriesFor(n, settled)
        BY <2>9, Zenon DEF CountInv, TypeInv
    <2> QED BY <2>7, <2>10, Zenon DEF settled
  <1>2. ASSUME Inv PROVE TreePruned
      BY <1>1, <1>2, Zenon DEF TreePruned
  <1> QED BY <1>2, MapCorrect, PTL
=============================================================================
