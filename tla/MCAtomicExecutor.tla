--------------------------- MODULE MCAtomicExecutor ---------------------------
(* Instances of AtomicExecutor for TLC. *)
EXTENDS AtomicExecutor

CONSTANTS t1, t2, t3, k1, k2
===============================================================================
