-------------------------------- MODULE JavaInt --------------------------------
(* The width of Java's int: what an integer is cut to. *)
EXTENDS Integers

CONSTANT MaxInt   \* Integer.MAX_VALUE: 2^31 - 1

ASSUME IntAssumption == MaxInt \in Nat

MinInt == -MaxInt - 1
Ints == MinInt .. MaxInt
Width == 2 * (MaxInt + 1)

\* The int that the low bits of x make.
ToInt(x) == MinInt + ((x - MinInt) % Width)
===============================================================================
