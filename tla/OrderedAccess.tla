--------------------------- MODULE OrderedAccess ----------------------------
(***************************************************************************)
(* What the runtime promises to command groups that access one buffer: the *)
(* buffer behaves like a single copy of its data, and command groups with  *)
(* conflicting accesses take effect on it in the order of submission.      *)
(* Command groups that do not conflict execute in any order.               *)
(***************************************************************************)
EXTENDS Integers, Sequences

CONSTANTS Element,     \* elements of the buffer
          Group,       \* numbers of the command groups, ascending
          Initially    \* version of an element before any write

VARIABLES access,    \* submitted group -> [reads, writes] (sets of elements)
          finished,  \* groups that took effect
          store,     \* element -> version, the group that wrote it last
          observed   \* finished group -> element that it reads -> version

vars == <<access, finished, store, observed>>

Init ==
    /\ access = <<>> /\ finished = {}
    /\ store = [e \in Element |-> Initially]
    /\ observed = <<>>

Conflict(a, b) ==
    \/ a.writes \cap (b.reads \cup b.writes) # {}
    \/ b.writes \cap a.reads # {}

Submit(g) ==
    /\ g \notin DOMAIN access /\ \A h \in DOMAIN access : h < g
    /\ DOMAIN access' = DOMAIN access \cup {g}
    /\ access'[g] \in [reads : SUBSET Element, writes : SUBSET Element]
    /\ \A h \in DOMAIN access : access'[h] = access[h]
    /\ UNCHANGED <<finished, store, observed>>

TakeEffect(g) ==
    /\ g \in DOMAIN access \ finished
    /\ \A h \in DOMAIN access \ finished : h < g => ~Conflict(access[h], access[g])
    /\ finished' = finished \cup {g}
    /\ observed' = [h \in DOMAIN observed \cup {g} |->
                       IF h = g THEN [e \in access[g].reads |-> store[e]] ELSE observed[h]]
    /\ store' = [e \in Element |-> IF e \in access[g].writes THEN g ELSE store[e]]
    /\ UNCHANGED access

Next ==
    \/ \E g \in Group : Submit(g)
    \/ \E g \in DOMAIN access : TakeEffect(g)

Spec == Init /\ [][Next]_vars
=============================================================================
