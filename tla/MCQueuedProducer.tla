--------------------------- MODULE MCQueuedProducer ---------------------------
(* Instances of QueuedProducer for TLC. *)
EXTENDS QueuedProducer

CONSTANTS t1, t2, d1, d2
===============================================================================
