----------------------------- MODULE DagBuilder -----------------------------
(***************************************************************************)
(* rt::dag_builder (src/runtime/dag_builder.cpp): how a new command group  *)
(* is tied to the earlier users of the buffer.  An access is a mode and a  *)
(* set of elements; a data user is [user, mode, elements].                 *)
(***************************************************************************)
EXTENDS DagNode, DataRegion

\* Bug: a write does not wait for earlier readers.
IsConflictingWithWrite(access, user) ==
    /\ user.mode # "read"
    /\ PageRange(access.elements) \cap PageRange(user.elements) # {}

\* is_conflicting_access(): not both read, and the page ranges intersect.
IsConflicting(access, user) ==
    /\ ~ (access.mode = "read" /\ user.mode = "read")
    /\ PageRange(access.elements) \cap PageRange(user.elements) # {}

\* find_dependency(): two levels below the node, complete or not.
Dependencies(N, live, n) ==
    LET level1 == N[n].reqs \cap live
    IN level1 \cup (UNION {N[r].reqs : r \in level1} \cap live)

-----------------------------------------------------------------------------
(* data_user_tracker                                                       *)

\* Bug: accessed ranges are not compared.
ReplacesAnyRange(N, live, n, access, u) ==
    \/ access.mode # "read"
    \/ /\ u.mode = "read"
       /\ u.user \notin live \/ u.user \in Dependencies(N, live, n)

\* replaces_user(): whether the tracker may forget user u because the new user n
\* accesses at least as much and is ordered after it.
ReplacesUser(N, live, n, access, u) ==
    /\ u.elements \subseteq access.elements
    /\ \/ access.mode # "read"
       \/ /\ u.mode = "read"
          /\ u.user \notin live \/ u.user \in Dependencies(N, live, n)

\* add_to_data_users() for one memory requirement.
AddUser(N, live, users, n, access) ==
    Append(SelectSeq(users, LAMBDA u : ~ReplacesUser(N, live, n, access, u)),
           [user |-> n, mode |-> access.mode, elements |-> access.elements])

ReleaseDeadUsers(live, users) == SelectSeq(users, LAMBDA u : u.user \in live)

-----------------------------------------------------------------------------
(* build_node()                                                            *)

\* add_conflicts_as_requirements(): newest user first, complete ones skipped.
AddConflicts(N, live, users, n) ==
    IF ~IsRequirement(N[n]) THEN N
    ELSE FoldRight(LAMBDA u, M :
                     IF /\ u.user \in live
                        /\ IsConflicting(M[n].access, u)
                        /\ ~M[u.user].complete
                     THEN AddRequirement(M, live, n, u.user)
                     ELSE M,
                   users, N)

\* The node table with the nodes of a new command group: one requirement node
\* per accessor, then the operation node.  An explicit requirement also carries
\* an access of its own.
WithGroup(N, kind, bound, accesses, own, deps) ==
    LET group == Len(N) + Len(accesses) + 1
        accessors == [i \in DOMAIN accesses |->
                         NewNode("req", group, accesses[i], "none", {})]
    IN N \o accessors
         \o <<NewNode(kind, group, own, bound, ((Len(N) + 1)..(group - 1)) \cup deps)>>

\* Bug: the node becomes a data user before conflicts are collected.
BuildNodeUserFirst(N, live, users, g) ==
    LET reqs == SetToSortSeq({r \in N[g].reqs : IsRequirement(N[r])}, <)
        users1 == FoldLeft(LAMBDA us, r : AddUser(N, live, us, g, N[r].access), users, reqs)
    IN [nodes |-> FoldLeft(LAMBDA M, r : AddConflicts(M, live, users1, r), N, reqs),
        users |-> users1]

\* Nodes and data users after build_node(); g is the operation node, already in
\* the table.  Conflicts are collected before the node becomes a user.
BuildNode(N, live, users, g) ==
    LET N1 == IF IsRequirement(N[g]) THEN AddConflicts(N, live, users, g) ELSE N
        N2 == FoldLeft(LAMBDA M, r : AddConflicts(M, live, users, r),
                       N1, SetToSortSeq(N1[g].reqs \cap live, <))
        listed == SetToSortSeq({r \in N[g].reqs : IsRequirement(N[r])}, <)
        users1 == IF IsRequirement(N[g]) THEN AddUser(N2, live, users, g, N[g].access)
                                         ELSE users
    IN [nodes |-> N2,
        users |-> FoldLeft(LAMBDA us, r : AddUser(N2, live, us, g, N[r].access),
                           users1, listed)]
=============================================================================
