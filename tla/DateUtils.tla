------------------------------ MODULE DateUtils ------------------------------
(***************************************************************************)
(* The functions of DateUtils on intervals and times.  A time is a number  *)
(* of milliseconds since an hour began, in a zone without changes of the   *)
(* clock.  A list of intervals is a set: each function's result has the    *)
(* same members for every order of its list, and a repeated interval adds  *)
(* only repetitions.                                                       *)
(***************************************************************************)
EXTENDS Integers, FiniteSetsExt

CONSTANTS Minute,   \* milliseconds of a minute: 60000
          Hour      \* minutes of an hour: 60

ASSUME TimeAssumption == Minute \in Nat \ {0, 1} /\ Hour \in Nat \ {0}

Interval(a, b) == [start |-> a, end |-> b]

\* The relations of joda-time, where an interval lacks its last instant.
Overlaps(x, y) == x.start < y.end /\ y.start < x.end
Overlap(x, y) == Interval(Max({x.start, y.start}), Min({x.end, y.end}))
Contains(x, y) == x.start <= y.start /\ y.start < x.end /\ y.end <= x.end

\* Sorted by start and then, by a stable sort, by end.
Before(x, y) == x.end < y.end \/ (x.end = y.end /\ x.start < y.start)

\* Mutant of FindGaps: a search that goes on after the last interval is forgotten.
FindGapsToLast(intervals, search) ==
    LET first == Min({x.start : x \in intervals})
        adjacent == {p \in intervals \X intervals :
                        /\ Before(p[1], p[2])
                        /\ ~ \E z \in intervals : Before(p[1], z) /\ Before(z, p[2])}
    IN  IF intervals = {} THEN {search}
        ELSE {Interval(search.start, a) : a \in {b \in {first} : b > search.start}}
             \cup {Interval(p[1].end, p[2].start) : p \in {q \in adjacent : q[2].start > q[1].end}}

\* The time before the first start and after the last end, and the gap from each interval
\* to the one that comes next in the order of the ends.
FindGaps(intervals, search) ==
    LET first == Min({x.start : x \in intervals})
        last == Max({x.end : x \in intervals})
        adjacent == {p \in intervals \X intervals :
                        /\ Before(p[1], p[2])
                        /\ ~ \E z \in intervals : Before(p[1], z) /\ Before(z, p[2])}
    IN  IF intervals = {} THEN {search}
        ELSE {Interval(search.start, a) : a \in {b \in {first} : b > search.start}}
             \cup {Interval(a, search.end) : a \in {b \in {last} : b < search.end}}
             \cup {Interval(p[1].end, p[2].start) : p \in {q \in adjacent : q[2].start > q[1].end}}

GetOverlappingIntervals(intervals, search) ==
    {Overlap(x, search) : x \in {y \in intervals : Overlaps(y, search)}}

\* Mutant of GetContainedIntervals: an interval that begins before a search is not cut.
GetContainedIntervalsUncut(intervals, searches) ==
    UNION {IF Contains(s, x) THEN {x}
           ELSE IF Contains(x, s) THEN {s}
           ELSE IF Overlaps(x, s)
           THEN IF x.start > s.start THEN {Interval(x.start, s.end)} ELSE {x}
           ELSE {} : x \in intervals, s \in searches}

\* Two intervals that overlap and do not contain each other have different starts.
GetContainedIntervals(intervals, searches) ==
    UNION {IF Contains(s, x) THEN {x}
           ELSE IF Contains(x, s) THEN {s}
           ELSE IF Overlaps(x, s)
           THEN {IF x.start > s.start THEN Interval(x.start, s.end) ELSE Interval(s.start, x.end)}
           ELSE {} : x \in intervals, s \in searches}

-------------------------------------------------------------------------------
MinuteOfHour(t) == (t \div Minute) % Hour
HourStart(t) == t - (t % (Hour * Minute))

\* Divides by zero if the duration is 0.
RoundFloorTime(t, duration) ==
    LET d == IF duration < 0 \/ duration > Hour THEN Hour ELSE duration
        minute == MinuteOfHour(t)
    IN  HourStart(t) + (minute - (minute % d)) * Minute

\* Mutant of RoundCeilTime: the minute that begins the next block.
RoundCeilTimeNext(t, duration) ==
    LET d == IF duration <= 0 THEN 1 ELSE duration
    IN  HourStart(t) + d * (MinuteOfHour(t) \div d + 1) * Minute + Minute - 1

\* The last millisecond of the block of the hour that holds t; minutes past 59 are
\* carried over to the hours.
RoundCeilTime(t, duration) ==
    LET d == IF duration <= 0 THEN 1 ELSE duration
        minute == d * (MinuteOfHour(t) \div d + 1) - 1
    IN  HourStart(t) + (minute \div Hour) * Hour * Minute + (minute % Hour) * Minute + Minute - 1

\* Mutant of GetIntervals: the end is rounded down.
GetIntervalsToFloor(startTime, endTime, duration) ==
    LET first == RoundFloorTime(startTime, duration)
        last == RoundFloorTime(endTime, duration)
        step == duration * Minute
    IN  {Interval(first + k * step, first + (k + 1) * step) :
            k \in {i \in 0 .. (last - first) \div step + 1 : first + i * step < last}}

\* One interval of the duration after the other, as long as they begin before the end:
\* for a duration above 0 (other durations throw) that is less than 25 days, above which
\* duration * 60000 overflows.
GetIntervals(startTime, endTime, duration) ==
    LET first == RoundFloorTime(startTime, duration)
        last == RoundCeilTime(endTime, duration)
        step == duration * Minute
    IN  {Interval(first + k * step, first + (k + 1) * step) :
            k \in {i \in 0 .. (last - first) \div step + 1 : first + i * step < last}}
===============================================================================
