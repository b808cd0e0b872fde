--------------------------- MODULE ExponentialRetry ---------------------------
(* The sleep times of ExponentialRetry, with the width of Java's int. *)
EXTENDS JavaInt

CONSTANT MaxRetryCount   \* MAX_RETRY_COUNT: 10

ASSUME RetryAssumption ==
    /\ MaxRetryCount \in Nat
    /\ \A n \in 0 .. MaxRetryCount : 2 ^ n \in 1 .. MaxInt   \* 1 << n does not overflow

\* Math.abs leaves MinInt as it is.
ValidateMaxRetries(n) ==
    LET count == IF n < 0 THEN ToInt(-n) ELSE n
    IN  IF count > MaxRetryCount THEN MaxRetryCount ELSE count

ValidateSleepTime(sleep) == IF sleep < 0 THEN MaxInt ELSE sleep

\* Mutant of GetSleepTime: the elapsed time comes off the base.
GetSleepTimeScaled(base, retryCount, elapsed) ==
    LET n == ValidateMaxRetries(retryCount)
    IN  ValidateSleepTime(ToInt((base - elapsed) * IF n < 0 THEN 1 ELSE 2 ^ n))

\* The shift distance is taken from the low bits, which are all 0 in MinInt.
GetSleepTime(base, retryCount, elapsed) ==
    LET n == ValidateMaxRetries(retryCount)
        sleep == ToInt(base * IF n < 0 THEN 1 ELSE 2 ^ n)
    IN  ValidateSleepTime(ToInt(sleep - elapsed))
===============================================================================
