------------------------------ MODULE DagNode -------------------------------
(***************************************************************************)
(* rt::dag_node (src/runtime/dag_node.cpp): the operations on the graph of *)
(* DAG nodes, as functions of a node table N (a sequence of node records)  *)
(* and of the set "live" of nodes that still exist.  A node refers to its  *)
(* requirements by weak pointers: an entry of "reqs" outside of "live" is  *)
(* an expired pointer.                                                     *)
(***************************************************************************)
EXTENDS Integers, Sequences, FiniteSets, SequencesExt

CONSTANT Depth    \* setting dag_req_optimization_depth

ASSUME DepthAssumption == Depth \in Nat

\* A node as the constructor leaves it.  "group" is the command group that the
\* node belongs to, "bound" its bind_to_device hint (or "none").
NewNode(kind, group, access, bound, reqs) ==
    [kind |-> kind, group |-> group, access |-> access, bound |-> bound, reqs |-> reqs,
     dev |-> bound, lane |-> <<>>, index |-> 0, waits |-> {}, event |-> {},
     copies |-> <<>>,
     submitted |-> FALSE, complete |-> FALSE, virtual |-> FALSE, cancelled |-> FALSE]

\* Whether the operation of the node is a memory requirement: one generated by an
\* accessor ("req"), or an explicit one ("host" accessor, handler::"update").
IsRequirement(node) == node.kind \in {"req", "host", "update"}

-----------------------------------------------------------------------------
(* Walks through the requirements                                          *)

\* One more level of the walk: requirements that exist and are not known to be
\* complete.
Descend(N, live, S) ==
    S \cup {r \in UNION {N[m].reqs : m \in S} : r \in live /\ ~N[r].complete}

\* Nodes that recursive_find() meets from "from" within the given number of levels.
Reachable(N, live, from, levels) ==
    LET upTo[k \in 0..levels] == IF k = 0 THEN {from} ELSE Descend(N, live, upTo[k - 1])
    IN upTo[levels]

\* for_each_nonvirtual_requirement(): requirements that are operations of their
\* own, found through virtual ones; a node known to be complete hides what is
\* behind it.
NonvirtualRequirements(N, live, n) ==
    LET through[k \in 0..Len(N)] ==
            IF k = 0 THEN {n}
            ELSE through[k - 1] \cup
                 {r \in UNION {N[m].reqs : m \in {x \in through[k - 1] : ~N[x].complete}} :
                    r \in live /\ N[r].virtual}
        passed == {m \in through[Len(N)] : ~N[m].complete}
    IN {r \in UNION {N[m].reqs : m \in passed} : r \in live /\ ~N[r].virtual}

-----------------------------------------------------------------------------
(* Operations that change nodes                                            *)

\* add_requirement(): nothing to do if an existing requirement is or leads to r;
\* otherwise r replaces the requirements that it leads to.
AddRequirement(N, live, n, r) ==
    LET existing == N[n].reqs \cap live
        implied == \E e \in existing : r \in Reachable(N, live, e, Depth)
        weaker == existing \cap Reachable(N, live, r, Depth)
    IN IF implied THEN N
       ELSE [N EXCEPT ![n].reqs = (existing \ weaker) \cup {r}]

\* mark_submitted() with an event of the operation itself.
MarkSubmitted(N, n) ==
    [N EXCEPT ![n].event = {n}, ![n].submitted = TRUE]

\* Bug: the node stays unsubmitted.
MarkVirtualOnly(N, live, n) ==
    [N EXCEPT ![n].virtual = TRUE,
              ![n].event = UNION {N[r].event : r \in N[n].reqs \cap live}]

\* Bug: the event stands for nothing, and so is complete at once.
MarkSubmittedWithoutEvents(N, live, n) ==
    [N EXCEPT ![n].virtual = TRUE, ![n].event = {}, ![n].submitted = TRUE]

\* mark_virtually_submitted(): the event stands for the events of the
\* requirements that still exist.
MarkVirtuallySubmitted(N, live, n) ==
    [N EXCEPT ![n].virtual = TRUE,
              ![n].event = UNION {N[r].event : r \in N[n].reqs \cap live},
              ![n].submitted = TRUE]

Cancel(N, live, n) ==
    [MarkVirtuallySubmitted(N, live, n) EXCEPT ![n].complete = TRUE, ![n].cancelled = TRUE]

\* End of wait(): the node and everything found below it, down to nodes that are
\* complete already, become known to be complete.
MarkTreeComplete(N, live, n) ==
    LET marked == Reachable(N, live, n, Len(N))
    IN [m \in DOMAIN N |-> IF m \in marked THEN [N[m] EXCEPT !.complete = TRUE] ELSE N[m]]
=============================================================================
