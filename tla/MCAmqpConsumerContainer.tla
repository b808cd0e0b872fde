----------------------- MODULE MCAmqpConsumerContainer -----------------------
(* Instances of AmqpConsumerContainer for TLC. *)
EXTENDS AmqpConsumerContainer

CONSTANTS c1, c2, c3, c4, u1
===============================================================================
