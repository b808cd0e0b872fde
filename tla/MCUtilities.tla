----------------------------- MODULE MCUtilities -----------------------------
(* An instance of Utilities for TLC: bytes for int, hours of 12 minutes of 2 ticks. *)
EXTENDS Utilities

ByteMax == 127
SomeInstants == 0 .. 4
SomeTimes == 0 .. 47
SomeDurations == -2 .. 30
SomeSpans == {0, 1, 9, 23, 30}
SomeBases == {1, 3, 7, 10, 15, 16, 20, 31, 32, 33, 60, 64, 100, 127}
SomeCounts == {-128, -127, -2, 0, 1, 2, 3, 4, 127}
SomeElapsed == {0, 1, 9, 64, 126, 127}
===============================================================================
