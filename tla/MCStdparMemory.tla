--------------------------- MODULE MCStdparMemory ---------------------------
(* Two threads on a pool of eight bytes.                                   *)
EXTENDS StdparMemory
=============================================================================
