------------------------------- MODULE Utilities -------------------------------
(* Calls of the functions of DateUtils and ExponentialRetry, one after the other. *)
EXTENDS DateUtils, ExponentialRetry, FiniteSets

CONSTANTS Instants,       \* the times intervals are made of
          MaxIntervals,   \* bound: intervals in a list
          MaxSearches,    \* bound: search intervals in a list
          Times,          \* times to round
          Durations,      \* durations in minutes
          Spans,          \* bound: how far a range of times may reach
          BaseSleepTimes, RetryCounts, ElapsedTimes

ASSUME UtilitiesAssumption ==
    /\ Instants \subseteq Int /\ IsFiniteSet(Instants)   \* they are longs
    /\ MaxIntervals \in Nat
    /\ MaxSearches \in Nat
    /\ Times \subseteq Int
    /\ Durations \subseteq Int
    /\ Spans \subseteq Nat
    /\ BaseSleepTimes \subseteq 0 .. MaxInt
    /\ RetryCounts \subseteq Ints
    /\ ElapsedTimes \subseteq 0 .. MaxInt

VARIABLES op,      \* the function that was called, or "none"
          args,    \* its arguments
          result

vars == <<op, args, result>>

Intervals == {x \in [start : Instants, end : Instants] : x.start <= x.end}
Lists(bound) == UNION {kSubset(k, Intervals) : k \in 0 .. bound}

\* What joda-time lets be constructed.
AreIntervals(S) == \A x \in S : x.start <= x.end

Init == op = "none" /\ args = <<>> /\ result = <<>>

-------------------------------------------------------------------------------
Calls(f, a, r) == op' = f /\ args' = a /\ result' = r

CallFindGaps ==
    /\ op = "none"
    /\ \E I \in Lists(MaxIntervals), s \in Intervals :
           Calls("findGaps", [intervals |-> I, search |-> s], FindGaps(I, s))

CallGetOverlappingIntervals ==
    /\ op = "none"
    /\ \E I \in Lists(MaxIntervals), s \in Intervals :
           Calls("getOverlappingIntervals", [intervals |-> I, searches |-> {s}],
                 GetOverlappingIntervals(I, s))

CallGetContainedIntervals ==
    /\ op = "none"
    /\ \E I \in Lists(MaxIntervals), S \in Lists(MaxSearches) :
           Calls("getContainedIntervals", [intervals |-> I, searches |-> S],
                 GetContainedIntervals(I, S))

CallRoundFloorTime ==
    /\ op = "none"
    /\ \E t \in Times, d \in Durations :
           /\ d # 0   \* throws
           /\ Calls("roundFloorTime", [time |-> t, duration |-> d], RoundFloorTime(t, d))

CallRoundCeilTime ==
    /\ op = "none"
    /\ \E t \in Times, d \in Durations :
           Calls("roundCeilTime", [time |-> t, duration |-> d], RoundCeilTime(t, d))

CallGetIntervals ==
    /\ op = "none"
    /\ \E t \in Times, span \in Spans, d \in Durations :
           /\ d > 0   \* throws
           /\ Calls("getIntervals", [startTime |-> t, endTime |-> t + span, duration |-> d],
                    GetIntervals(t, t + span, d))

CallGetSleepTime ==
    /\ op = "none"
    /\ \E b \in BaseSleepTimes, n \in RetryCounts, e \in ElapsedTimes :
           Calls("getSleepTime", [base |-> b, retryCount |-> n, elapsed |-> e],
                 GetSleepTime(b, n, e))

Returned ==
    /\ op # "none"
    /\ op' = "none" /\ args' = <<>> /\ result' = <<>>

Next ==
    \/ CallFindGaps \/ CallGetOverlappingIntervals \/ CallGetContainedIntervals
    \/ CallRoundFloorTime \/ CallRoundCeilTime \/ CallGetIntervals
    \/ CallGetSleepTime
    \/ Returned

Spec == Init /\ [][Next]_vars
-------------------------------------------------------------------------------
\* The instants that some interval of S covers.
Covered(S) == {i \in Instants : \E x \in S : x.start <= i /\ i < x.end}

\* findGaps never constructs an interval that ends before it starts.  If the intervals lie
\* within the search interval and none within another, whatever order they are in and
\* however they touch or overlap, the gaps are the time of the search that no interval
\* covers, in pieces that do not overlap.
GapsAreUncovered ==
    op = "findGaps" =>
    LET I == args.intervals
        s == args.search
    IN  /\ AreIntervals(result)
        /\ (/\ \A x \in I : s.start <= x.start /\ x.end <= s.end
            /\ \A x, y \in I : ~(y.start < x.start /\ x.end < y.end))
           => /\ Covered(result) = Covered({s}) \ Covered(I)
              /\ \A g, h \in result : g # h => ~Overlaps(g, h)

\* getOverlappingIntervals and getContainedIntervals agree: what they return covers the
\* time that is in some interval and in some search interval, and no other; neither
\* constructs an interval that ends before it starts.
CutToSearches ==
    op \in {"getOverlappingIntervals", "getContainedIntervals"} =>
    /\ AreIntervals(result)
    /\ Covered(result) = Covered(args.intervals) \cap Covered(args.searches)

\* roundFloorTime and roundCeilTime agree: for a duration of at most an hour they return
\* the first and the last millisecond of one block of that duration around the time.
RoundedAround ==
    op \in {"roundFloorTime", "roundCeilTime"} =>
    LET t == args.time
        d == args.duration
    IN  d \in 1 .. Hour =>
            IF op = "roundFloorTime"
            THEN result <= t /\ t < result + d * Minute
            ELSE t <= result /\ result = RoundFloorTime(t, d) + d * Minute - 1

\* getIntervals: every instant from the start to the end of the range is in one and only
\* one interval, also where the duration does not divide the hour or exceeds it.  If it
\* divides the hour, ranges that meet are cut at the same times, and no interval lies
\* before or after its range.
IntervalsTile ==
    op = "getIntervals" =>
    /\ \A t \in args.startTime .. args.endTime :
           Cardinality({x \in result : x.start <= t /\ t < x.end}) = 1
    /\ Hour % args.duration = 0 =>
           \A x \in result : /\ x.start % (args.duration * Minute) = 0
                             /\ x.start <= args.endTime /\ args.startTime < x.end

\* getSleepTime: the sleep time doubles with each retry up to the tenth, less the time
\* elapsed, and is the largest int where that is negative or overflows int once.
SleepSaturates ==
    op = "getSleepTime" =>
    LET count == IF args.retryCount = MinInt THEN 0
                 ELSE Min({Max({args.retryCount, -args.retryCount}), MaxRetryCount})
        exact == args.base * 2 ^ count - args.elapsed
    IN  exact <= 2 * MaxInt + 1 => result = IF exact \in 0 .. MaxInt THEN exact ELSE MaxInt
===============================================================================
