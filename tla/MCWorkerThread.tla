--------------------------- MODULE MCWorkerThread ---------------------------
(* Two clients and three tasks: the worker can sleep, run and be refilled  *)
(* while one client enqueues and the other waits.                          *)
EXTENDS WorkerThread

CONSTANTS c1, c2

MCClients == {c1, c2}
=============================================================================
