-------------------------- MODULE MCInorderQueues --------------------------
(* Instances of InorderQueues: command groups on the queues a, b and c,    *)
(* the backends of the queues and the kinds of events.                     *)
EXTENDS InorderQueues

CONSTANTS a, b, c

Group(q, reqs) == [queue |-> q, reqs |-> reqs]

(* b waits for a and a for b; the second of two groups of one queue is the *)
(* one to wait for; two queues need the event of the third at once; a      *)
(* chain through three queues with a requirement on both ends.             *)
BackAndForth == <<Group(a, {}), Group(b, {1}), Group(a, {2})>>
LastOfTwo    == <<Group(a, {}), Group(a, {}), Group(b, {1, 2})>>
SharedEvent  == <<Group(a, {}), Group(b, {1}), Group(c, {1})>>
Chain        == <<Group(a, {}), Group(b, {1}), Group(c, {1, 2})>>

Setup(groups, omp, coarse) ==
    [backend |-> [q \in Queues |-> IF q \in omp THEN "omp" ELSE "stream"],
     ops |-> [k \in DOMAIN groups |->
                 [queue |-> groups[k].queue, reqs |-> groups[k].reqs,
                  coarse |-> k \in coarse]]]

(* Host queues with fine-grained events; streams with fine-grained, coarse *)
(* and mixed events; host queues and streams together, fine-grained or     *)
(* with a coarse event on a queue that waits for nobody.                   *)
SafeSetups ==
    UNION {
        {Setup(g, Queues, {}) : g \in {BackAndForth, LastOfTwo, Chain}},
        {Setup(g, {}, {1, 2, 3}) : g \in {BackAndForth, LastOfTwo, SharedEvent, Chain}},
        {Setup(g, {}, {1}) : g \in {LastOfTwo, Chain}},
        {Setup(g, {a}, {}) : g \in {BackAndForth, LastOfTwo, Chain}},
        {Setup(g, {b}, {}) : g \in {LastOfTwo, Chain}},
        {Setup(Chain, {a, b}, {1})}}

(* Host queues with the property AdaptiveCpp_coarse_grained_events.        *)
CoarseHostQueues == {Setup(BackAndForth, Queues, {1, 2, 3})}
=============================================================================
