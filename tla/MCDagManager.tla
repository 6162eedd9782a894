---------------------------- MODULE MCDagManager ----------------------------
(***************************************************************************)
(* Small instances of DagManager: two threads.                             *)
(***************************************************************************)
EXTENDS DagManager

CONSTANTS t1, t2

TwoThreads == {t1, t2}
=============================================================================
