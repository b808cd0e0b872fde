---------------------------- MODULE MCAmqpDelivery ----------------------------
(* Instances of AmqpDelivery for TLC. *)
EXTENDS AmqpDelivery

CONSTANTS e1, e2, w1, w2
===============================================================================
