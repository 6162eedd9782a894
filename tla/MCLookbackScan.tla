--------------------------- MODULE MCLookbackScan ---------------------------
(***************************************************************************)
(* Calls of the scan with three and four groups of three work items.       *)
(* Elements form a free monoid, so that every result tells which inputs it *)
(* combines, and in which order.                                           *)
(***************************************************************************)
EXTENDS LookbackScan

MCElem == Seq(Int)
MCOp(a, b) == a \o b
MCInitValue == <<-1>>
MCInput == [id \in 0..23 |-> <<id>>]

Call(flat, host, inc, init, inPlace, size, work) ==
    [flat |-> flat, host |-> host, inclusive |-> inc, init |-> init,
     inPlace |-> inPlace, size |-> size, work |-> work]

\* Both kernels, both scans inside of a group, inclusive and exclusive, with
\* and without init; sizes that fill the last group and sizes that do not.  The
\* calls that are in place are inclusive: see ExclusiveInPlace.
MCConfigs ==
    { Call(FALSE, FALSE, TRUE, FALSE, FALSE, 24, 2),
      Call(FALSE, TRUE, FALSE, TRUE, FALSE, 19, 2),
      Call(FALSE, FALSE, TRUE, TRUE, TRUE, 15, 2),
      Call(TRUE, FALSE, FALSE, TRUE, FALSE, 7, 1),
      Call(TRUE, TRUE, TRUE, FALSE, TRUE, 9, 1) }

\* An exclusive scan with d_first = first.  numeric.hpp copies nothing, and a
\* group loads the last element of the group before it, which that group may
\* have overwritten: ResultIsReference does not hold for it (ExclusiveInPlace.cfg).
ExclusiveInPlace == { Call(FALSE, FALSE, FALSE, TRUE, TRUE, 15, 2) }
=============================================================================
