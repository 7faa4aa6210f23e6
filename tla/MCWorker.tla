------------------------------ MODULE MCWorker ------------------------------
(* Worker with the constants that TLC needs; see the MCWorker_*.cfg files.  No *)
(* symmetry: a run checks a liveness property.                               *)
EXTENDS Worker, TLC
=============================================================================
