----------------------- MODULE MCEnhancedMetricRegistry -----------------------
(* Instances of EnhancedMetricRegistry for TLC. *)
EXTENDS EnhancedMetricRegistry

CONSTANTS u1, u2, r1, r2, fired, completed
===============================================================================
