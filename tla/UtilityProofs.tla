----------------------------- MODULE UtilityProofs -----------------------------
(***************************************************************************)
(* What the calls of Utilities return, for every list of intervals, every  *)
(* time and duration, and every length of the minute, the hour and int,    *)
(* hence for 60000, 60 and 2^31.  A call only depends on its arguments: no *)
(* invariant but the properties themselves is needed, and the work is in   *)
(* the lemmas about the functions.                                         *)
(***************************************************************************)
EXTENDS Utilities, FiniteSetTheorems, WellFoundedInduction, TLAPS

LEMMA Division ==
  ASSUME NEW a \in Int, NEW b \in Nat \ {0}
  PROVE  a \div b \in Int /\ a % b \in 0 .. b - 1 /\ a = b * (a \div b) + (a % b)
OBVIOUS

LEMMA Products ==
  ASSUME NEW b \in Nat, NEW x \in Int, NEW y \in Int, x <= y
  PROVE  b * x <= b * y /\ b * x \in Int /\ b * y \in Int
OBVIOUS

LEMMA DivisionUnique ==
  ASSUME NEW a \in Int, NEW b \in Nat \ {0}, NEW k \in Int, NEW r \in 0 .. b - 1,
         a = b * k + r
  PROVE  a % b = r
<1> DEFINE q == a \div b
<1>1. q \in Int /\ a % b \in 0 .. b - 1 /\ a = b * q + (a % b)
  BY Division
<1> HIDE DEF q
<1>2. CASE q < k
  <2>1. b * (q + 1) <= b * k
    BY <1>1, <1>2, Products
  <2>2. b * (q + 1) = b * q + b
    BY <1>1
  <2>3. QED
    BY <1>1, <2>1, <2>2
<1>3. CASE q > k
  <2>1. b * (k + 1) <= b * q
    BY <1>1, <1>3, Products
  <2>2. b * (k + 1) = b * k + b
    OBVIOUS
  <2>3. QED
    BY <1>1, <2>1, <2>2
<1>4. CASE q = k
  BY <1>1, <1>4
<1>5. QED
  BY <1>1, <1>2, <1>3, <1>4

\* The hour of t begins MinuteOfHour(t) minutes before the minute of t.
LEMMA MinutesOfTime ==
  ASSUME NEW t \in Int
  PROVE  /\ MinuteOfHour(t) \in 0 .. Hour - 1
         /\ t % Minute \in 0 .. Minute - 1
         /\ HourStart(t) \in Int
         /\ t = HourStart(t) + MinuteOfHour(t) * Minute + (t % Minute)
<1> USE TimeAssumption
<1> DEFINE q == t \div Minute
           h == q \div Hour
           m == MinuteOfHour(t)
           r == t % Minute
<1>1. q \in Int /\ r \in 0 .. Minute - 1 /\ t = Minute * q + r
  BY Division
<1>2. h \in Int /\ m \in 0 .. Hour - 1 /\ q = Hour * h + m
  BY <1>1, Division DEF MinuteOfHour
<1> HIDE DEF q, h, m, r
<1>3. Hour * Minute \in Nat \ {0}
  OBVIOUS
<1>4. t = (Hour * Minute) * h + (m * Minute + r)
  <2>1. Minute * q = Minute * (Hour * h) + Minute * m
    BY <1>2
  <2>2. Minute * (Hour * h) = (Hour * Minute) * h
    BY <1>2
  <2>3. Minute * m = m * Minute
    BY <1>2
  <2>4. QED
    BY <1>1, <1>2, <2>1, <2>2, <2>3
<1>5. m * Minute + r \in 0 .. Hour * Minute - 1
  <2>1. Minute * m <= Minute * (Hour - 1) /\ 0 <= Minute * m
    BY <1>2
  <2>2. Minute * (Hour - 1) = Hour * Minute - Minute
    OBVIOUS
  <2>3. Minute * m = m * Minute /\ Minute * m \in Int
    BY <1>2
  <2>4. QED
    BY <1>1, <2>1, <2>2, <2>3
<1>6. t % (Hour * Minute) = m * Minute + r
  BY <1>2, <1>3, <1>4, <1>5, DivisionUnique
<1>7. m * Minute + r \in Int
  BY <1>5
<1>8. HourStart(t) = t - (m * Minute + r)
  BY <1>6 DEF HourStart
<1>9. QED
  BY <1>1, <1>2, <1>7, <1>8 DEF m, r

\* roundFloorTime for durations of at most an hour.
LEMMA FloorIsBefore ==
  ASSUME NEW t \in Int, NEW d \in 1 .. Hour
  PROVE  /\ RoundFloorTime(t, d) \in Int
         /\ RoundFloorTime(t, d) <= t
         /\ t < RoundFloorTime(t, d) + d * Minute
<1> USE TimeAssumption
<1> DEFINE m == MinuteOfHour(t)
           h == HourStart(t)
           e == t % Minute
           x == m % d
<1>1. m \in 0 .. Hour - 1 /\ e \in 0 .. Minute - 1 /\ h \in Int /\ t = h + m * Minute + e
  BY MinutesOfTime
<1>2. x \in 0 .. d - 1
  <2>1. m \in Int /\ d \in Nat \ {0}
    BY <1>1
  <2>2. QED
    BY <2>1, Division
<1>3. RoundFloorTime(t, d) = h + (m - x) * Minute
  BY DEF RoundFloorTime
<1> HIDE DEF m, h, e, x
<1>4. (m - x) * Minute = m * Minute - x * Minute
  BY <1>1, <1>2
<1>5. m * Minute \in Int /\ x * Minute \in Int /\ d * Minute \in Int
  BY <1>1, <1>2
<1>6. 0 <= x * Minute /\ x * Minute <= d * Minute - Minute
  <2>1. Minute * x <= Minute * (d - 1) /\ Minute * 0 <= Minute * x
    BY <1>2, Products
  <2>2. Minute * (d - 1) = d * Minute - Minute /\ Minute * x = x * Minute
    BY <1>2
  <2>3. QED
    BY <2>1, <2>2
<1>7. QED
  BY <1>1, <1>3, <1>4, <1>5, <1>6

\* roundCeilTime for every duration above 0.
LEMMA CeilIs ==
  ASSUME NEW t \in Int, NEW d \in Nat \ {0}
  PROVE  /\ RoundCeilTime(t, d)
              = HourStart(t) + (MinuteOfHour(t) - (MinuteOfHour(t) % d)) * Minute + d * Minute - 1
         /\ MinuteOfHour(t) % d \in 0 .. d - 1
<1> USE TimeAssumption
<1> DEFINE m == MinuteOfHour(t)
           h == HourStart(t)
           x == m % d
           y == m \div d
           k == d * (y + 1) - 1
<1>1. m \in 0 .. Hour - 1 /\ h \in Int
  BY MinutesOfTime
<1>2. y \in Int /\ x \in 0 .. d - 1 /\ m = d * y + x
  <2>1. m \in Int
    BY <1>1
  <2> HIDE DEF m
  <2>2. QED
    BY <2>1, Division
<1>4. RoundCeilTime(t, d) =
        h + (k \div Hour) * Hour * Minute + (k % Hour) * Minute + Minute - 1
  BY DEF RoundCeilTime
<1> HIDE DEF m, h, x, y
<1>5. k \in Int /\ k = m - x + d - 1
  BY <1>1, <1>2
<1> HIDE DEF k
<1>6. k \div Hour \in Int /\ k % Hour \in Int /\ k = Hour * (k \div Hour) + (k % Hour)
  <2>1. k \in Int /\ Hour \in Nat \ {0}
    BY <1>5
  <2>2. QED
    BY <2>1, Division
<1>7. (k \div Hour) * Hour * Minute + (k % Hour) * Minute = k * Minute
  <2> DEFINE a == k \div Hour
             b == k % Hour
  <2>1. a \in Int /\ b \in Int /\ k = Hour * a + b
    BY <1>6
  <2> HIDE DEF a, b
  <2>2. a * Hour * Minute + b * Minute = (Hour * a + b) * Minute
    BY <2>1
  <2>3. QED
    BY <2>1, <2>2 DEF a, b
<1>8. k * Minute + Minute = (m - x) * Minute + d * Minute
  BY <1>1, <1>2, <1>5
<1>9. /\ (k \div Hour) * Hour * Minute \in Int /\ (k % Hour) * Minute \in Int
      /\ k * Minute \in Int /\ (m - x) * Minute \in Int /\ d * Minute \in Int
  BY <1>1, <1>2, <1>5, <1>6
<1>10. RoundCeilTime(t, d) = h + (m - x) * Minute + d * Minute - 1
  BY <1>1, <1>4, <1>7, <1>8, <1>9
<1>11. QED
  BY <1>2, <1>10 DEF m, h, x

\* roundCeilTime is the last millisecond before the next block.
LEMMA CeilEndsBlock ==
  ASSUME NEW t \in Int, NEW d \in 1 .. Hour
  PROVE  RoundCeilTime(t, d) = RoundFloorTime(t, d) + d * Minute - 1
<1>1. d \in Nat \ {0} /\ ~(d < 0 \/ d > Hour)
  BY TimeAssumption
<1>2. RoundFloorTime(t, d) = HourStart(t) + (MinuteOfHour(t) - (MinuteOfHour(t) % d)) * Minute
  BY <1>1 DEF RoundFloorTime
<1>3. QED
  BY <1>1, <1>2, CeilIs

LEMMA RoundedStep == [Next]_vars /\ RoundedAround => RoundedAround'
<1> SUFFICES ASSUME [Next]_vars, RoundedAround PROVE RoundedAround'
  OBVIOUS
<1>1. CASE CallRoundFloorTime
  <2>1. PICK t \in Times, d \in Durations :
          op' = "roundFloorTime" /\ args' = [time |-> t, duration |-> d] /\ result' = RoundFloorTime(t, d)
    BY <1>1 DEF CallRoundFloorTime, Calls
  <2>2. t \in Int /\ args'.time = t /\ args'.duration = d
    BY <2>1, UtilitiesAssumption
  <2>3. QED
    BY <2>1, <2>2, FloorIsBefore DEF RoundedAround
<1>2. CASE CallRoundCeilTime
  <2>1. PICK t \in Times, d \in Durations :
          op' = "roundCeilTime" /\ args' = [time |-> t, duration |-> d] /\ result' = RoundCeilTime(t, d)
    BY <1>2 DEF CallRoundCeilTime, Calls
  <2>2. t \in Int /\ args'.time = t /\ args'.duration = d
    BY <2>1, UtilitiesAssumption
  <2>3. ASSUME d \in 1 .. Hour
        PROVE  t <= RoundCeilTime(t, d) /\ RoundCeilTime(t, d) = RoundFloorTime(t, d) + d * Minute - 1
    <3>1. /\ RoundFloorTime(t, d) \in Int /\ d * Minute \in Int
          /\ t < RoundFloorTime(t, d) + d * Minute
          /\ RoundCeilTime(t, d) = RoundFloorTime(t, d) + d * Minute - 1
      BY <2>2, <2>3, FloorIsBefore, CeilEndsBlock, TimeAssumption
    <3>2. QED
      BY <2>2, <3>1
  <2>4. QED
    BY <2>1, <2>2, <2>3 DEF RoundedAround
<1>3. CASE op' \notin {"roundFloorTime", "roundCeilTime"}
  BY <1>3 DEF RoundedAround
<1>4. CASE UNCHANGED vars
  BY <1>4 DEF RoundedAround, vars
<1>5. QED
  BY <1>1, <1>2, <1>3, <1>4 DEF Next, CallFindGaps, CallGetOverlappingIntervals,
     CallGetContainedIntervals, CallGetIntervals, CallGetSleepTime, Returned, Calls

\* For any duration of at most an hour, roundFloorTime and roundCeilTime return the ends
\* of one block around the time.
THEOREM RoundingAgrees == Spec => []RoundedAround
<1>1. Init => RoundedAround
  BY DEF Init, RoundedAround
<1>2. QED
  BY <1>1, RoundedStep, PTL DEF Spec

-------------------------------------------------------------------------------
\* Both roundings stop at whole minutes: roundCeilTime at the last millisecond of one.
LEMMA HourStartsMinute ==
  ASSUME NEW t \in Int
  PROVE  \E a \in Int : HourStart(t) = (Hour * Minute) * a
<1> DEFINE b == Hour * Minute
<1>1. b \in Nat \ {0}
  BY TimeAssumption
<1>2. HourStart(t) = t - (t % b)
  BY DEF HourStart
<1> HIDE DEF b
<1>3. t \div b \in Int /\ t % b \in Int /\ t = b * (t \div b) + (t % b)
  BY <1>1, Division
<1>4. HourStart(t) = b * (t \div b)
  <2> DEFINE p == b * (t \div b)
  <2>1. p \in Int
    BY <1>1, <1>3
  <2> HIDE DEF p
  <2>2. t = p + (t % b)
    BY <1>3 DEF p
  <2>3. HourStart(t) = p
    BY <1>2, <1>3, <2>1, <2>2
  <2> QED
    BY <2>3 DEF p
<1> QED
  BY <1>3, <1>4 DEF b

LEMMA FloorBounds ==
  ASSUME NEW t \in Int, NEW d \in Nat \ {0}
  PROVE  /\ RoundFloorTime(t, d) \in Int
         /\ RoundFloorTime(t, d) <= t
         /\ t < RoundFloorTime(t, d) + d * Minute
         /\ \E z \in Int : RoundFloorTime(t, d) = Minute * z
<1> USE TimeAssumption
<1> DEFINE c == IF d > Hour THEN Hour ELSE d
<1>1. c \in 1 .. Hour /\ c <= d
  OBVIOUS
<1>2. RoundFloorTime(t, d) = RoundFloorTime(t, c)
  BY DEF RoundFloorTime
<1>3. RoundFloorTime(t, c) = HourStart(t) + (MinuteOfHour(t) - (MinuteOfHour(t) % c)) * Minute
  BY DEF RoundFloorTime
<1> HIDE DEF c
<1>4. /\ RoundFloorTime(t, c) \in Int /\ RoundFloorTime(t, c) <= t
      /\ t < RoundFloorTime(t, c) + c * Minute
  BY <1>1, FloorIsBefore
<1>5. c * Minute <= d * Minute /\ c * Minute \in Int /\ d * Minute \in Int
  <2>1. Minute * c <= Minute * d
    BY <1>1, Products
  <2> QED
    BY <1>1, <2>1
<1>6. \E z \in Int : RoundFloorTime(t, c) = Minute * z
  <2> DEFINE m == MinuteOfHour(t)
             x == m % c
  <2>1. PICK a \in Int : HourStart(t) = (Hour * Minute) * a
    BY HourStartsMinute
  <2>2. m \in Int /\ x \in Int
    <3>1. m \in Int
      BY MinutesOfTime
    <3> HIDE DEF m
    <3>2. c \in Nat \ {0}
      BY <1>1
    <3> QED
      BY <3>1, <3>2, Division
  <2>3. RoundFloorTime(t, c) = (Hour * Minute) * a + (m - x) * Minute
    BY <1>3, <2>1
  <2> HIDE DEF m, x
  <2>4. (Hour * Minute) * a + (m - x) * Minute = Minute * (Hour * a + (m - x))
    BY <2>2
  <2>5. Hour * a + (m - x) \in Int
    BY <2>2
  <2> QED
    BY <2>3, <2>4, <2>5
<1> QED
  BY <1>2, <1>4, <1>5, <1>6

LEMMA CeilBounds ==
  ASSUME NEW t \in Int, NEW d \in Nat \ {0}
  PROVE  /\ RoundCeilTime(t, d) \in Int
         /\ t <= RoundCeilTime(t, d)
         /\ \E z \in Int : RoundCeilTime(t, d) = Minute * z - 1
<1> USE TimeAssumption
<1> DEFINE m == MinuteOfHour(t)
           h == HourStart(t)
           e == t % Minute
           x == m % d
           n == m - x + d
<1>1. m \in 0 .. Hour - 1 /\ e \in 0 .. Minute - 1 /\ h \in Int /\ t = h + m * Minute + e
  BY MinutesOfTime
<1>2. RoundCeilTime(t, d) = h + (m - x) * Minute + d * Minute - 1 /\ x \in 0 .. d - 1
  BY CeilIs
<1>3. PICK a \in Int : h = (Hour * Minute) * a
  BY HourStartsMinute
<1> HIDE DEF m, h, e, x
<1>4. (m - x) * Minute + d * Minute = Minute * n
  BY <1>1, <1>2
<1>5. n \in Int /\ n >= m + 1
  BY <1>1, <1>2
<1>6. (m - x) * Minute \in Int /\ d * Minute \in Int /\ m * Minute \in Int
  BY <1>1, <1>2
<1> HIDE DEF n
<1>7. RoundCeilTime(t, d) = h + Minute * n - 1 /\ Minute * n \in Int
  BY <1>1, <1>2, <1>4, <1>5, <1>6
<1>8. t <= RoundCeilTime(t, d)
  <2>1. Minute * (m + 1) <= Minute * n
    BY <1>1, <1>5, Products
  <2>2. Minute * (m + 1) = m * Minute + Minute
    BY <1>1
  <2> QED
    BY <1>1, <1>6, <1>7, <2>1, <2>2
<1>9. RoundCeilTime(t, d) = Minute * (Hour * a + n) - 1 /\ Hour * a + n \in Int
  <2>1. h + Minute * n = Minute * (Hour * a + n) /\ Hour * a + n \in Int
    BY <1>3, <1>5
  <2> QED
    BY <1>1, <1>7, <2>1
<1>10. \E z \in Int : RoundCeilTime(t, d) = Minute * z - 1
  <2> DEFINE z == Hour * a + n
  <2>1. z \in Int /\ RoundCeilTime(t, d) = Minute * z - 1
    BY <1>9
  <2> HIDE DEF z
  <2> QED
    BY <2>1
<1>11. RoundCeilTime(t, d) \in Int
  BY <1>1, <1>7
<1> QED
  BY <1>8, <1>10, <1>11

\* The blocks of getIntervals, from the first time in steps as long as they begin before
\* the last: they tile the times between, unless one would begin at the last time.
Blocks(first, last, step) ==
  {Interval(first + k * step, first + (k + 1) * step) :
     k \in {i \in 0 .. (last - first) \div step + 1 : first + i * step < last}}

LEMMA OneBlock ==
  ASSUME NEW first \in Int, NEW last \in Int, NEW step \in Nat \ {0}, NEW t \in Int,
         first <= t, t <= last, \A k \in Nat : first + k * step # last
  PROVE  Cardinality({x \in Blocks(first, last, step) : x.start <= t /\ t < x.end}) = 1
<1> DEFINE a == t - first
           b == last - first
           k == a \div step
           q == b \div step
           start(i) == first + i * step
<1>1. a \in Nat /\ b \in Nat /\ a <= b
  OBVIOUS
<1>2. k \in Int /\ a % step \in 0 .. step - 1 /\ a = step * k + (a % step)
  <2> HIDE DEF a
  <2> QED
    BY <1>1, Division
<1>3. q \in Int /\ b % step \in 0 .. step - 1 /\ b = step * q + (b % step)
  <2> HIDE DEF b
  <2> QED
    BY <1>1, Division
<1> HIDE DEF k, q
<1>4. \A i \in Int : step * i \in Int /\ i * step = step * i /\ (i + 1) * step = step * i + step
  OBVIOUS
<1>5. step * k <= a /\ a < step * k + step
  BY <1>1, <1>2, <1>4
<1>6. k >= 0
  <2>1. k <= -1 => step * k <= step * (-1) /\ step * (-1) = -step
    BY <1>2, Products
  <2> QED
    BY <1>1, <1>2, <1>4, <1>5, <2>1
<1>7. k <= q
  <2>1. q + 1 <= k => step * (q + 1) <= step * k /\ step * (q + 1) = step * q + step
    BY <1>2, <1>3, Products
  <2>2. b < step * q + step /\ step * q \in Int
    BY <1>1, <1>3, <1>4
  <2> QED
    BY <1>1, <1>2, <1>3, <1>4, <1>5, <2>1, <2>2
<1>8. first + k * step < last
  <2>1. k \in Nat
    BY <1>2, <1>6
  <2>2. first + k * step # last
    BY <2>1
  <2> QED
    BY <1>1, <1>2, <1>4, <1>5, <2>2
<1>9. \A i \in Int : first + i * step <= t /\ t < first + (i + 1) * step => i = k
  <2> SUFFICES ASSUME NEW i \in Int, first + i * step <= t, t < first + (i + 1) * step
               PROVE  i = k
    OBVIOUS
  <2>1. step * i <= a /\ a < step * i + step
    BY <1>1, <1>4
  <2>2. i + 1 <= k => step * (i + 1) <= step * k /\ step * (i + 1) = step * i + step
    BY <1>2, Products
  <2>3. k + 1 <= i => step * (k + 1) <= step * i /\ step * (k + 1) = step * k + step
    BY <1>2, Products
  <2> QED
    BY <1>1, <1>2, <1>4, <1>5, <2>1, <2>2, <2>3
<1>10. first + k * step <= t /\ t < first + (k + 1) * step
  BY <1>1, <1>2, <1>4, <1>5
<1> DEFINE x0 == Interval(first + k * step, first + (k + 1) * step)
           B == Blocks(first, last, step)
<1>11. x0 \in B
  <2>1. k \in 0 .. (last - first) \div step + 1
    BY <1>2, <1>3, <1>6, <1>7 DEF q
  <2> QED
    BY <1>8, <2>1 DEF Blocks
<1>12. \A x \in B : x.start <= t /\ t < x.end => x = x0
  <2> SUFFICES ASSUME NEW x \in B, x.start <= t, t < x.end PROVE x = x0
    OBVIOUS
  <2>1. PICK i \in Int : x = Interval(first + i * step, first + (i + 1) * step)
    <3>1. q + 1 \in Int /\ (last - first) \div step = q
      BY <1>3 DEF q
    <3> QED
      BY <3>1 DEF Blocks
  <2>2. i = k
    BY <1>9, <2>1 DEF Interval
  <2> QED
    BY <2>1, <2>2
<1>13. x0.start <= t /\ t < x0.end
  BY <1>10 DEF Interval
<1> HIDE DEF x0, B
<1>14. {x \in B : x.start <= t /\ t < x.end} = {x0}
  BY <1>11, <1>12, <1>13
<1>15. Cardinality({x0}) = 1
  BY FS_Singleton
<1> QED
  BY <1>14, <1>15 DEF B

\* If the duration divides the hour, roundFloorTime counts the blocks from time 0.
LEMMA FloorIsAligned ==
  ASSUME NEW t \in Int, NEW d \in Nat \ {0}, Hour % d = 0
  PROVE  d \in 1 .. Hour /\ \E z \in Int : RoundFloorTime(t, d) = (d * Minute) * z
<1> USE TimeAssumption
<1> DEFINE m == MinuteOfHour(t)
           x == m % d
           y == m \div d
           c == Hour \div d
<1>1. d <= Hour
  <2>1. d > Hour => Hour % d = Hour
    <3>1. Hour = d * 0 + Hour
      OBVIOUS
    <3>2. d > Hour => Hour \in 0 .. d - 1
      OBVIOUS
    <3> QED
      BY <3>1, <3>2, DivisionUnique
  <2> QED
    BY <2>1
<1>2. c \in Int /\ Hour = d * c
  BY Division
<1>3. PICK a \in Int : HourStart(t) = (Hour * Minute) * a
  BY HourStartsMinute
<1>4. m \in Int
  BY MinutesOfTime
<1>5. y \in Int /\ x \in 0 .. d - 1 /\ m = d * y + x
  <2> HIDE DEF m
  <2> QED
    BY <1>4, Division
<1>6. RoundFloorTime(t, d) = (Hour * Minute) * a + (m - x) * Minute
  BY <1>1, <1>3 DEF RoundFloorTime
<1> HIDE DEF m, x, y, c
<1>7. (Hour * Minute) * a = (d * Minute) * (c * a)
  <2>1. Hour * Minute = (d * Minute) * c
    BY <1>2
  <2>2. d * Minute \in Int
    OBVIOUS
  <2> DEFINE s == d * Minute
  <2>3. Hour * Minute = s * c /\ s \in Int
    BY <2>1, <2>2
  <2> HIDE DEF s
  <2>4. (s * c) * a = s * (c * a)
    BY <1>2, <2>3
  <2> QED
    BY <2>3, <2>4 DEF s
<1>8. (m - x) * Minute = (d * Minute) * y
  <2>1. m - x = d * y
    BY <1>4, <1>5
  <2>2. (d * y) * Minute = (d * Minute) * y
    BY <1>5
  <2> QED
    BY <2>1, <2>2
<1>9. (d * Minute) * (c * a) + (d * Minute) * y = (d * Minute) * (c * a + y)
  <2> DEFINE s == d * Minute
             w == c * a
  <2>1. s \in Int /\ w \in Int
    BY <1>2
  <2> HIDE DEF s, w
  <2>2. s * w + s * y = s * (w + y)
    BY <1>5, <2>1
  <2> QED
    BY <2>2 DEF s, w
<1>10. c * a + y \in Int
  BY <1>2, <1>5
<1>11. \E z \in Int : RoundFloorTime(t, d) = (d * Minute) * z
  <2> DEFINE z == c * a + y
  <2>1. z \in Int /\ RoundFloorTime(t, d) = (d * Minute) * z
    BY <1>6, <1>7, <1>8, <1>9, <1>10
  <2> HIDE DEF z
  <2> QED
    BY <2>1
<1> QED
  BY <1>1, <1>11

\* A call of getIntervals.
LEMMA IntervalsCover ==
  ASSUME NEW s \in Int, NEW e \in Int, NEW d \in Nat \ {0}, NEW t \in s .. e
  PROVE  Cardinality({x \in GetIntervals(s, e, d) : x.start <= t /\ t < x.end}) = 1
<1> USE TimeAssumption
<1> DEFINE first == RoundFloorTime(s, d)
           last == RoundCeilTime(e, d)
           step == d * Minute
<1>1. GetIntervals(s, e, d) = Blocks(first, last, step)
  BY DEF GetIntervals, Blocks
<1>2. /\ first \in Int /\ first <= s
      /\ \E z \in Int : first = Minute * z
  BY FloorBounds
<1>3. /\ last \in Int /\ e <= last
      /\ \E z \in Int : last = Minute * z - 1
  BY CeilBounds
<1>4. step \in Nat \ {0}
  OBVIOUS
<1>5. ASSUME NEW k \in Nat PROVE first + k * step # last
  <2> SUFFICES ASSUME first + k * step = last PROVE FALSE
    OBVIOUS
  <2>1. PICK y \in Int : first = Minute * y
    BY <1>2
  <2>2. PICK z \in Int : last = Minute * z - 1
    BY <1>3
  <2>3. k * step = Minute * (k * d) /\ k * d \in Int
    OBVIOUS
  <2> DEFINE w == k * d
             g == k * step
  <2>4. w \in Int /\ g = Minute * w
    BY <2>3
  <2> HIDE DEF first, last, w, g
  <2>5. Minute * y + Minute * w = Minute * z - 1
    BY <2>1, <2>2, <2>4 DEF g
  <2>6. Minute * (z - y - w) = Minute * z - Minute * y - Minute * w
    BY <2>4
  <2>7. Minute * y \in Int /\ Minute * w \in Int /\ Minute * z \in Int /\ z - y - w \in Int
    BY <2>4
  <2>8. 1 = Minute * (z - y - w) + 0
    BY <2>5, <2>6, <2>7
  <2>9. 1 % Minute = 0
    BY <2>7, <2>8, DivisionUnique
  <2>10. 1 % Minute = 1
    <3>1. 1 = Minute * 0 + 1 /\ 1 \in 0 .. Minute - 1
      OBVIOUS
    <3> QED
      BY <3>1, DivisionUnique
  <2> QED
    BY <2>9, <2>10
<1> HIDE DEF first, last, step
<1>6. first <= t /\ t <= last
  BY <1>2, <1>3
<1>7. first \in Int /\ last \in Int /\ t \in Int /\ \A k \in Nat : first + k * step # last
  BY <1>2, <1>3, <1>5
<1>8. Cardinality({x \in Blocks(first, last, step) : x.start <= t /\ t < x.end}) = 1
  BY <1>4, <1>6, <1>7, OneBlock
<1> QED
  BY <1>1, <1>8

LEMMA IntervalsAligned ==
  ASSUME NEW s \in Int, NEW e \in Int, NEW d \in Nat \ {0}, Hour % d = 0,
         NEW x \in GetIntervals(s, e, d)
  PROVE  x.start % (d * Minute) = 0 /\ x.start <= e /\ s < x.end
<1> USE TimeAssumption
<1> DEFINE first == RoundFloorTime(s, d)
           last == RoundCeilTime(e, d)
           step == d * Minute
<1>1. step \in Nat \ {0}
  OBVIOUS
<1>2. PICK y \in Int : first = step * y
  BY FloorIsAligned
<1>3. PICK z \in Int : RoundFloorTime(e, d) = step * z
  BY FloorIsAligned
<1>4. last = RoundFloorTime(e, d) + step - 1
  BY FloorIsAligned, CeilEndsBlock
<1>5. first \in Int /\ s < first + step /\ RoundFloorTime(e, d) <= e
  BY FloorBounds
<1> HIDE DEF first, last, step
<1>6. PICK k \in Nat : /\ x = Interval(first + k * step, first + (k + 1) * step)
                       /\ first + k * step < last
  <2>1. last \in Int /\ (last - first) \div step + 1 \in Int
    BY <1>1, <1>3, <1>4, <1>5, Division
  <2> QED
    BY <2>1 DEF GetIntervals, first, last, step
<1>7. x.start = first + k * step /\ x.end = first + (k + 1) * step
  BY <1>6 DEF Interval
<1>8. /\ step * y \in Int /\ step * z \in Int /\ k * step \in Nat
      /\ (k + 1) * step = k * step + step /\ step * (y + k) = step * y + k * step
      /\ y + k \in Int
  BY <1>1
<1>9. x.start = step * (y + k) /\ x.start \in Int
  BY <1>2, <1>7, <1>8
<1>10. x.start % step = 0
  <2> DEFINE a == x.start
             c == y + k
  <2>1. a \in Int /\ c \in Int /\ a = step * c + 0
    BY <1>1, <1>8, <1>9
  <2> HIDE DEF a, c
  <2>2. a % step = 0
    BY <1>1, <2>1, DivisionUnique
  <2> QED
    BY <2>2 DEF a
<1>11. x.start <= step * z
  <2>1. z + 1 <= y + k => step * (z + 1) <= step * (y + k) /\ step * (z + 1) = step * z + step
    BY <1>1, <1>8, Products
  <2>2. step * (y + k) < step * z + step
    BY <1>1, <1>3, <1>4, <1>6, <1>7, <1>8, <1>9
  <2>3. y + k <= z
    BY <1>1, <1>8, <1>9, <2>1, <2>2
  <2> QED
    BY <1>1, <1>8, <1>9, <2>3, Products
<1>12. s < x.end
  BY <1>1, <1>5, <1>7, <1>8
<1> QED
  BY <1>3, <1>5, <1>8, <1>9, <1>10, <1>11, <1>12 DEF step

LEMMA TileStep == [Next]_vars /\ IntervalsTile => IntervalsTile'
<1> SUFFICES ASSUME [Next]_vars, IntervalsTile PROVE IntervalsTile'
  OBVIOUS
<1>1. CASE CallGetIntervals
  <2>1. PICK t \in Times, span \in Spans, d \in Durations :
          /\ d > 0
          /\ args' = [startTime |-> t, endTime |-> t + span, duration |-> d]
          /\ result' = GetIntervals(t, t + span, d)
    BY <1>1 DEF CallGetIntervals, Calls
  <2>2. t \in Int /\ t + span \in Int /\ d \in Nat \ {0}
    BY <2>1, UtilitiesAssumption
  <2>3. args'.startTime = t /\ args'.endTime = t + span /\ args'.duration = d
    BY <2>1
  <2>4. \A i \in t .. t + span :
          Cardinality({x \in GetIntervals(t, t + span, d) : x.start <= i /\ i < x.end}) = 1
    BY <2>2, IntervalsCover
  <2>5. Hour % d = 0 =>
          \A x \in GetIntervals(t, t + span, d) :
            x.start % (d * Minute) = 0 /\ x.start <= t + span /\ t < x.end
    BY <2>2, IntervalsAligned
  <2> QED
    BY <2>1, <2>3, <2>4, <2>5 DEF IntervalsTile
<1>2. CASE op' # "getIntervals"
  BY <1>2 DEF IntervalsTile
<1>3. CASE UNCHANGED vars
  BY <1>3 DEF IntervalsTile, vars
<1> QED
  BY <1>1, <1>2, <1>3 DEF Next, CallFindGaps, CallGetOverlappingIntervals,
     CallGetContainedIntervals, CallRoundFloorTime, CallRoundCeilTime, CallGetSleepTime,
     Returned, Calls

\* For every duration above 0, getIntervals puts each instant of the range in one and only
\* one interval; for a divisor of the hour it cuts at multiples of the duration, and no
\* interval lies outside the range.
THEOREM IntervalsTileTheRange == Spec => []IntervalsTile
<1>1. Init => IntervalsTile
  BY DEF Init, IntervalsTile
<1> QED
  BY <1>1, TileStep, PTL DEF Spec

-------------------------------------------------------------------------------
\* The larger and the smaller of two numbers.
LEMMA OfTwo ==
  ASSUME NEW a \in Int, NEW b \in Int
  PROVE  /\ Max({a, b}) = IF a >= b THEN a ELSE b
         /\ Min({a, b}) = IF a <= b THEN a ELSE b
<1>1. Max({a, b}) = IF a >= b THEN a ELSE b
  <2> DEFINE m == IF a >= b THEN a ELSE b
             P(x) == \A y \in {a, b} : x >= y
  <2>1. m \in {a, b} /\ P(m) /\ \A x \in {a, b} : P(x) => x = m
    OBVIOUS
  <2>2. Max({a, b}) = CHOOSE x \in {a, b} : P(x)
    BY DEF Max
  <2> HIDE DEF m, P
  <2> QED
    BY <2>1, <2>2 DEF m
<1>2. Min({a, b}) = IF a <= b THEN a ELSE b
  <2> DEFINE m == IF a <= b THEN a ELSE b
             P(x) == \A y \in {a, b} : x <= y
  <2>1. m \in {a, b} /\ P(m) /\ \A x \in {a, b} : P(x) => x = m
    OBVIOUS
  <2>2. Min({a, b}) = CHOOSE x \in {a, b} : P(x)
    BY DEF Min
  <2> HIDE DEF m, P
  <2> QED
    BY <2>1, <2>2 DEF m
<1> QED
  BY <1>1, <1>2

\* An instant that an interval covers.
Covers(x, i) == x.start <= i /\ i < x.end

LEMMA IntervalType ==
  ASSUME NEW x \in Intervals
  PROVE  x.start \in Int /\ x.end \in Int /\ x.start <= x.end
BY UtilitiesAssumption DEF Intervals

LEMMA ListType ==
  ASSUME NEW bound, NEW S \in Lists(bound)
  PROVE  S \subseteq Intervals
BY DEF Lists, kSubset

\* What getOverlappingIntervals makes of an interval.
LEMMA OverlapCovers ==
  ASSUME NEW x \in Intervals, NEW s \in Intervals, Overlaps(x, s)
  PROVE  /\ Overlap(x, s).start <= Overlap(x, s).end
         /\ \A i \in Instants : Covers(Overlap(x, s), i) <=> Covers(x, i) /\ Covers(s, i)
<1>1. /\ x.start \in Int /\ x.end \in Int /\ x.start <= x.end
      /\ s.start \in Int /\ s.end \in Int /\ s.start <= s.end
  BY IntervalType
<1>2. /\ Overlap(x, s).start = IF x.start >= s.start THEN x.start ELSE s.start
      /\ Overlap(x, s).end = IF x.end <= s.end THEN x.end ELSE s.end
  BY <1>1, OfTwo DEF Overlap, Interval
<1> QED
  BY <1>1, <1>2, UtilitiesAssumption DEF Overlaps, Covers

\* What getContainedIntervals makes of an interval and a search interval.
Contained(x, s) ==
  IF Contains(s, x) THEN {x}
  ELSE IF Contains(x, s) THEN {s}
  ELSE IF Overlaps(x, s)
  THEN {IF x.start > s.start THEN Interval(x.start, s.end) ELSE Interval(s.start, x.end)}
  ELSE {}

LEMMA ContainedCovers ==
  ASSUME NEW x \in Intervals, NEW s \in Intervals
  PROVE  /\ \A y \in Contained(x, s) : y.start <= y.end
         /\ \A i \in Instants :
              (\E y \in Contained(x, s) : Covers(y, i)) <=> Covers(x, i) /\ Covers(s, i)
<1>1. /\ x.start \in Int /\ x.end \in Int /\ x.start <= x.end
      /\ s.start \in Int /\ s.end \in Int /\ s.start <= s.end
  BY IntervalType
<1>2. \A i \in Instants : i \in Int
  BY UtilitiesAssumption
<1>3. CASE Contains(s, x)
  <2>1. Contained(x, s) = {x}
    BY <1>3 DEF Contained
  <2> QED
    BY <1>1, <1>2, <1>3, <2>1 DEF Contains, Covers
<1>4. CASE ~Contains(s, x) /\ Contains(x, s)
  <2>1. Contained(x, s) = {s}
    BY <1>4 DEF Contained
  <2> QED
    BY <1>1, <1>2, <1>4, <2>1 DEF Contains, Covers
<1>5. CASE ~Contains(s, x) /\ ~Contains(x, s) /\ Overlaps(x, s) /\ x.start > s.start
  <2>1. Contained(x, s) = {Interval(x.start, s.end)}
    BY <1>5 DEF Contained
  <2>2. Interval(x.start, s.end).start = x.start /\ Interval(x.start, s.end).end = s.end
    BY DEF Interval
  <2> QED
    BY <1>1, <1>2, <1>5, <2>1, <2>2 DEF Contains, Overlaps, Covers
<1>6. CASE ~Contains(s, x) /\ ~Contains(x, s) /\ Overlaps(x, s) /\ ~(x.start > s.start)
  <2>1. Contained(x, s) = {Interval(s.start, x.end)}
    BY <1>6 DEF Contained
  <2>2. Interval(s.start, x.end).start = s.start /\ Interval(s.start, x.end).end = x.end
    BY DEF Interval
  <2> QED
    BY <1>1, <1>2, <1>6, <2>1, <2>2 DEF Contains, Overlaps, Covers
<1>7. CASE ~Contains(s, x) /\ ~Contains(x, s) /\ ~Overlaps(x, s)
  <2>1. Contained(x, s) = {}
    BY <1>7 DEF Contained
  <2> QED
    BY <1>1, <1>2, <1>7, <2>1 DEF Overlaps, Covers
<1> QED
  BY <1>3, <1>4, <1>5, <1>6, <1>7

LEMMA CutStep == [Next]_vars /\ CutToSearches => CutToSearches'
<1> SUFFICES ASSUME [Next]_vars, CutToSearches PROVE CutToSearches'
  OBVIOUS
<1>1. \A S : Covered(S) = {i \in Instants : \E x \in S : Covers(x, i)}
  BY DEF Covered, Covers
<1>2. CASE CallGetOverlappingIntervals
  <2>1. PICK I \in Lists(MaxIntervals), s \in Intervals :
          /\ args' = [intervals |-> I, searches |-> {s}]
          /\ result' = GetOverlappingIntervals(I, s)
    BY <1>2 DEF CallGetOverlappingIntervals, Calls
  <2>2. I \subseteq Intervals /\ args'.intervals = I /\ args'.searches = {s}
    BY <2>1, ListType
  <2> DEFINE R == GetOverlappingIntervals(I, s)
  <2>3. \A y \in R : \E x \in I : Overlaps(x, s) /\ y = Overlap(x, s)
    BY DEF GetOverlappingIntervals
  <2>4. \A x \in I : Overlaps(x, s) => Overlap(x, s) \in R
    BY DEF GetOverlappingIntervals
  <2> HIDE DEF R
  <2>5. AreIntervals(R)
    BY <2>2, <2>3, OverlapCovers DEF AreIntervals
  <2>6. ASSUME NEW i \in Instants
        PROVE  (\E y \in R : Covers(y, i)) <=> (\E x \in I : Covers(x, i)) /\ Covers(s, i)
    <3>1. (\E y \in R : Covers(y, i)) => (\E x \in I : Covers(x, i)) /\ Covers(s, i)
      BY <2>2, <2>3, OverlapCovers
    <3>2. ASSUME NEW x \in I, Covers(x, i), Covers(s, i) PROVE \E y \in R : Covers(y, i)
      <4>1. x.start \in Int /\ x.end \in Int /\ s.start \in Int /\ s.end \in Int /\ i \in Int
        BY <2>2, IntervalType, UtilitiesAssumption
      <4>2. Overlaps(x, s)
        BY <3>2, <4>1 DEF Covers, Overlaps
      <4> QED
        BY <2>2, <2>4, <3>2, <4>2, OverlapCovers
    <3> QED
      BY <3>1, <3>2
  <2>7. Covered(R) = Covered(I) \cap Covered({s})
    BY <1>1, <2>6
  <2> QED
    BY <2>1, <2>2, <2>5, <2>7 DEF CutToSearches, R, Covered, AreIntervals
<1>3. CASE CallGetContainedIntervals
  <2>1. PICK I \in Lists(MaxIntervals), S \in Lists(MaxSearches) :
          /\ args' = [intervals |-> I, searches |-> S]
          /\ result' = GetContainedIntervals(I, S)
    BY <1>3 DEF CallGetContainedIntervals, Calls
  <2>2. I \subseteq Intervals /\ S \subseteq Intervals
    BY ListType
  <2>3. args'.intervals = I /\ args'.searches = S
    BY <2>1
  <2> DEFINE R == GetContainedIntervals(I, S)
  <2>4. R = UNION {Contained(x, s) : x \in I, s \in S}
    BY DEF GetContainedIntervals, Contained
  <2> HIDE DEF R
  <2>5. \A y : y \in R <=> \E x \in I, s \in S : y \in Contained(x, s)
    BY <2>4
  <2>6. AreIntervals(R)
    BY <2>2, <2>5, ContainedCovers DEF AreIntervals
  <2>7. ASSUME NEW i \in Instants
        PROVE  (\E y \in R : Covers(y, i))
               <=> (\E x \in I : Covers(x, i)) /\ (\E s \in S : Covers(s, i))
    BY <2>2, <2>5, ContainedCovers
  <2>8. Covered(R) = Covered(I) \cap Covered(S)
    BY <1>1, <2>7
  <2> QED
    BY <2>1, <2>3, <2>6, <2>8 DEF CutToSearches, R, Covered, AreIntervals
<1>4. CASE op' \notin {"getOverlappingIntervals", "getContainedIntervals"}
  BY <1>4 DEF CutToSearches
<1>5. CASE UNCHANGED vars
  BY <1>5 DEF CutToSearches, Covered, AreIntervals, vars
<1> QED
  BY <1>2, <1>3, <1>4, <1>5 DEF Next, CallFindGaps, CallRoundFloorTime, CallRoundCeilTime,
     CallGetIntervals, CallGetSleepTime, Returned, Calls

\* getOverlappingIntervals and getContainedIntervals cover what is in some interval and in
\* some search interval, and no other time.
THEOREM CutsAgree == Spec => []CutToSearches
<1>1. Init => CutToSearches
  BY DEF Init, CutToSearches
<1> QED
  BY <1>1, CutStep, PTL DEF Spec

-------------------------------------------------------------------------------
\* Of sets of elements of a finite set one is least, and so is an element of a finite set
\* in an order.
LEMMA LeastSet ==
  ASSUME NEW S, IsFiniteSet(S), NEW T, T \subseteq SUBSET S, T # {}
  PROVE  \E s \in T : \A t \in T : t \subseteq s => t = s
<1> DEFINE R == StrictSubsetOrdering(S)
<1>1. IsWellFoundedOn(R, SUBSET S)
  BY FS_StrictSubsetOrderingWellFounded, FS_FiniteSubsetsOfFinite
<1>2. \A t, s \in SUBSET S : t \subseteq s /\ t # s => <<t, s>> \in R
  BY DEF StrictSubsetOrdering
<1> HIDE DEF R
<1>3. \E s \in T : \A t \in T : <<t, s>> \notin R
  BY <1>1, WFMin
<1> QED
  BY <1>2, <1>3

\* A relation of the elements of S.
IsOrder(R, S) == /\ \A x \in S : <<x, x>> \notin R
                 /\ \A x, y, z \in S : <<x, y>> \in R /\ <<y, z>> \in R => <<x, z>> \in R

LEMMA LeastElement ==
  ASSUME NEW S, IsFiniteSet(S), S # {}, NEW R, IsOrder(R, S)
  PROVE  \E x \in S : \A z \in S : <<z, x>> \notin R
<1> DEFINE P(x) == {y \in S : <<y, x>> \in R}
           T == {P(x) : x \in S}
<1>1. T \subseteq SUBSET S /\ T # {}
  OBVIOUS
<1>2. \A t \in T : \E x \in S : t = P(x)
  OBVIOUS
<1>3. \A x \in S : P(x) \in T
  OBVIOUS
<1> HIDE DEF T
<1>4. PICK s \in T : \A t \in T : t \subseteq s => t = s
  BY <1>1, LeastSet
<1>5. PICK x \in S : s = P(x)
  BY <1>2
<1>6. ASSUME NEW z \in S, <<z, x>> \in R PROVE FALSE
  <2>1. P(z) \subseteq P(x)
    BY <1>6 DEF IsOrder
  <2>2. P(z) = P(x)
    BY <1>3, <1>4, <1>5, <2>1
  <2>3. z \in P(x)
    BY <1>6
  <2> QED
    BY <2>2, <2>3 DEF IsOrder
<1> QED
  BY <1>6

LEMMA FiniteLists ==
  ASSUME NEW S, S \subseteq Intervals
  PROVE  IsFiniteSet(S)
<1> DEFINE P == Instants \X Instants
           V == [start : Instants, end : Instants]
           f == [p \in P |-> [start |-> p[1], end |-> p[2]]]
<1>1. IsFiniteSet(P)
  BY UtilitiesAssumption, FS_Product
<1>2. f \in Surjection(P, V)
  <2>1. f \in [P -> V]
    OBVIOUS
  <2>2. ASSUME NEW v \in V PROVE \E p \in P : f[p] = v
    <3>1. <<v.start, v.end>> \in P /\ f[<<v.start, v.end>>] = v
      OBVIOUS
    <3> QED
      BY <3>1
  <2> HIDE DEF f, P, V
  <2> QED
    BY <2>1, <2>2 DEF Surjection
<1>3. IsFiniteSet(V)
  BY <1>1, <1>2, FS_Surjection
<1> QED
  BY <1>3, FS_Subset DEF Intervals

\* The order of the ends is one, and it is total.
LEMMA Order ==
  ASSUME NEW x \in Intervals, NEW y \in Intervals, NEW z \in Intervals
  PROVE  /\ ~Before(x, x)
         /\ Before(x, y) /\ Before(y, z) => Before(x, z)
         /\ Before(x, y) => ~Before(y, x)
         /\ x = y \/ Before(x, y) \/ Before(y, x)
         /\ Before(x, y) => x.end <= y.end
<1>1. \A v \in Intervals : v.start \in Int /\ v.end \in Int
  BY IntervalType
<1>2. x.start = y.start /\ x.end = y.end => x = y
  BY DEF Intervals
<1> QED
  BY <1>1, <1>2 DEF Before

\* The first and the last of some intervals in the order of the ends.
LEMMA Ends ==
  ASSUME NEW S, S \subseteq Intervals, S # {}
  PROVE  /\ \E x \in S : \A z \in S : ~Before(z, x)
         /\ \E x \in S : \A z \in S : ~Before(x, z)
<1>1. IsFiniteSet(S)
  BY FiniteLists
<1>2. \E x \in S : \A z \in S : ~Before(z, x)
  <2> DEFINE R == {p \in S \X S : Before(p[1], p[2])}
  <2>1. \A x, y \in S : <<x, y>> \in R <=> Before(x, y)
    OBVIOUS
  <2> HIDE DEF R
  <2>2. IsOrder(R, S)
    BY <2>1, Order DEF IsOrder
  <2> QED
    BY <1>1, <2>1, <2>2, LeastElement
<1>3. \E x \in S : \A z \in S : ~Before(x, z)
  <2> DEFINE R == {p \in S \X S : Before(p[2], p[1])}
  <2>1. \A x, y \in S : <<x, y>> \in R <=> Before(y, x)
    OBVIOUS
  <2> HIDE DEF R
  <2>2. IsOrder(R, S)
    BY <2>1, Order DEF IsOrder
  <2> QED
    BY <1>1, <2>1, <2>2, LeastElement
<1> QED
  BY <1>2, <1>3

\* The first start and the last end of a list.
LEMMA FirstAndLast ==
  ASSUME NEW I, I \subseteq Intervals, I # {}
  PROVE  /\ \E x \in I : Min({y.start : y \in I}) = x.start
         /\ \E x \in I : Max({y.end : y \in I}) = x.end
         /\ \A x \in I : Min({y.start : y \in I}) <= x.start /\ x.end <= Max({y.end : y \in I})
<1>1. IsFiniteSet(I)
  BY FiniteLists
<1>2. \A x \in I : x.start \in Int /\ x.end \in Int
  BY IntervalType
<1>3. PICK x \in I : \A z \in I : x.start <= z.start
  <2> DEFINE R == {p \in I \X I : p[1].start < p[2].start}
  <2>1. \A x, y \in I : <<x, y>> \in R <=> x.start < y.start
    OBVIOUS
  <2> HIDE DEF R
  <2>2. IsOrder(R, I)
    BY <1>2, <2>1 DEF IsOrder
  <2>3. PICK x \in I : \A z \in I : <<z, x>> \notin R
    BY <1>1, <2>2, LeastElement
  <2>4. \A z \in I : ~(z.start < x.start)
    BY <2>1, <2>3
  <2>5. \A z \in I : x.start <= z.start
    BY <1>2, <2>4
  <2> QED
    BY <2>5
<1>4. PICK y \in I : \A z \in I : z.end <= y.end
  <2> DEFINE R == {p \in I \X I : p[1].end > p[2].end}
  <2>1. \A v, w \in I : <<v, w>> \in R <=> v.end > w.end
    OBVIOUS
  <2> HIDE DEF R
  <2>2. IsOrder(R, I)
    BY <1>2, <2>1 DEF IsOrder
  <2>3. PICK v \in I : \A z \in I : <<z, v>> \notin R
    BY <1>1, <2>2, LeastElement
  <2>4. \A z \in I : ~(z.end > v.end)
    BY <2>1, <2>3
  <2>5. \A z \in I : z.end <= v.end
    BY <1>2, <2>4
  <2> QED
    BY <2>5
<1>5. Min({v.start : v \in I}) = x.start
  <2> DEFINE S == {v.start : v \in I}
             P(n) == \A k \in S : n <= k
  <2>1. \A k \in S : k \in Int
    BY <1>2
  <2>2. x.start \in S /\ P(x.start)
    BY <1>3
  <2>3. Min(S) = CHOOSE n \in S : P(n)
    BY DEF Min
  <2>4. \A n \in S : P(n) => n = x.start
    <3> HIDE DEF S
    <3> QED
      BY <2>1, <2>2
  <2> HIDE DEF S, P
  <2>5. Min(S) = x.start
    BY <2>2, <2>3, <2>4
  <2> QED
    BY <2>5 DEF S
<1>6. Max({v.end : v \in I}) = y.end
  <2> DEFINE S == {v.end : v \in I}
             P(n) == \A k \in S : n >= k
  <2>1. \A k \in S : k \in Int
    BY <1>2
  <2>2. y.end \in S /\ P(y.end)
    BY <1>2, <1>4
  <2>3. Max(S) = CHOOSE n \in S : P(n)
    BY DEF Max
  <2>4. \A n \in S : P(n) => n = y.end
    <3> HIDE DEF S
    <3> QED
      BY <2>1, <2>2
  <2> HIDE DEF S, P
  <2>5. Max(S) = y.end
    BY <2>2, <2>3, <2>4
  <2> QED
    BY <2>5 DEF S
<1> QED
  BY <1>3, <1>4, <1>5, <1>6


\* The gap from an interval of I to the one that comes next.
IsNext(p, q, I) == Before(p, q) /\ ~ \E z \in I : Before(p, z) /\ Before(z, q)

\* The gaps of a list that is not empty: to its first start, from its last end, and between
\* an interval and the next.
GapBefore(g, I, s) == LET first == Min({x.start : x \in I})
                      IN  g = Interval(s.start, first) /\ first > s.start
GapAfter(g, I, s) == LET last == Max({x.end : x \in I})
                     IN  g = Interval(last, s.end) /\ last < s.end
GapBetween(g, I, p, q) == IsNext(p, q, I) /\ q.start > p.end /\ g = Interval(p.end, q.start)

LEMMA GapsOf ==
  ASSUME NEW I, I # {}, NEW s, NEW g
  PROVE  g \in FindGaps(I, s) <=> \/ GapBefore(g, I, s) \/ GapAfter(g, I, s)
                                  \/ \E p, q \in I : GapBetween(g, I, p, q)
<1> DEFINE adjacent == {p \in I \X I : IsNext(p[1], p[2], I)}
           first == Min({x.start : x \in I})
           last == Max({x.end : x \in I})
           between == {Interval(p[1].end, p[2].start) : p \in {q \in adjacent : q[2].start > q[1].end}}
<1>1. FindGaps(I, s) = {Interval(s.start, a) : a \in {b \in {first} : b > s.start}}
                       \cup {Interval(a, s.end) : a \in {b \in {last} : b < s.end}}
                       \cup between
  BY DEF FindGaps, IsNext
<1>2. g \in between <=> \E p, q \in I : GapBetween(g, I, p, q)
  <2>1. ASSUME g \in between PROVE \E p, q \in I : GapBetween(g, I, p, q)
    <3>1. PICK p \in adjacent : p[2].start > p[1].end /\ g = Interval(p[1].end, p[2].start)
      BY <2>1
    <3>2. p[1] \in I /\ p[2] \in I /\ IsNext(p[1], p[2], I)
      OBVIOUS
    <3> QED
      BY <3>1, <3>2 DEF GapBetween
  <2>2. ASSUME NEW p \in I, NEW q \in I, GapBetween(g, I, p, q) PROVE g \in between
    <3>1. <<p, q>> \in adjacent /\ q.start > p.end
      BY <2>2 DEF GapBetween
    <3>2. g = Interval(<<p, q>>[1].end, <<p, q>>[2].start)
      BY <2>2 DEF GapBetween
    <3> HIDE DEF adjacent
    <3> QED
      BY <3>1, <3>2
  <2> QED
    BY <2>1, <2>2
<1> HIDE DEF between, first, last
<1>3. g \in FindGaps(I, s) <=> \/ g = Interval(s.start, first) /\ first > s.start
                               \/ g = Interval(last, s.end) /\ last < s.end
                               \/ g \in between
  BY <1>1
<1> QED
  BY <1>2, <1>3 DEF first, last, GapBefore, GapAfter

\* The intervals lie within the search and none within another.
Spread(I, s) == /\ \A x \in I : s.start <= x.start /\ x.end <= s.end
                /\ \A x, y \in I : ~(y.start < x.start /\ x.end < y.end)

\* The order of the ends is then one of the starts.
LEMMA StartsInOrder ==
  ASSUME NEW I, I \subseteq Intervals, NEW s, Spread(I, s), NEW x \in I, NEW y \in I,
         Before(x, y)
  PROVE  x.start <= y.start
<1>1. x.start \in Int /\ x.end \in Int /\ y.start \in Int /\ y.end \in Int
  BY IntervalType
<1> QED
  BY <1>1 DEF Spread, Before

\* A gap is made of time of the search that no interval covers.
LEMMA GapsAreFree ==
  ASSUME NEW I, I \subseteq Intervals, I # {}, NEW s \in Intervals, NEW g \in FindGaps(I, s)
  PROVE  /\ g.start \in Int /\ g.end \in Int /\ g.start <= g.end
         /\ Spread(I, s) => /\ s.start <= g.start /\ g.end <= s.end
                            /\ \A x \in I : x.end <= g.start \/ g.end <= x.start
<1> DEFINE first == Min({x.start : x \in I})
           last == Max({x.end : x \in I})
<1>1. \A x \in I : x.start \in Int /\ x.end \in Int /\ x.start <= x.end
  BY IntervalType
<1>2. s.start \in Int /\ s.end \in Int
  BY IntervalType
<1>3. PICK x \in I : first = x.start
  BY FirstAndLast
<1>4. PICK y \in I : last = y.end
  BY FirstAndLast
<1>5. \A z \in I : first <= z.start /\ z.end <= last
  BY FirstAndLast
<1> HIDE DEF first, last
<1>6. CASE GapBefore(g, I, s)
  <2>1. g.start = s.start /\ g.end = first /\ first > s.start
    BY <1>6 DEF GapBefore, Interval, first
  <2> QED
    BY <1>1, <1>2, <1>3, <1>5, <2>1 DEF Spread
<1>7. CASE GapAfter(g, I, s)
  <2>1. g.start = last /\ g.end = s.end /\ last < s.end
    BY <1>7 DEF GapAfter, Interval, last
  <2> QED
    BY <1>1, <1>2, <1>4, <1>5, <2>1 DEF Spread
<1>8. ASSUME NEW p \in I, NEW q \in I, GapBetween(g, I, p, q)
      PROVE  /\ g.start \in Int /\ g.end \in Int /\ g.start <= g.end
             /\ Spread(I, s) => /\ s.start <= g.start /\ g.end <= s.end
                                /\ \A z \in I : z.end <= g.start \/ g.end <= z.start
  <2>1. g.start = p.end /\ g.end = q.start /\ q.start > p.end
    BY <1>8 DEF GapBetween, Interval
  <2>2. ASSUME Spread(I, s), NEW z \in I PROVE z.end <= p.end \/ q.start <= z.start
    <3>1. z = p \/ Before(z, p) \/ Before(p, z)
      BY Order
    <3>2. z = q \/ Before(z, q) \/ Before(q, z)
      BY Order
    <3>3. ~(Before(p, z) /\ Before(z, q))
      BY <1>8 DEF GapBetween, IsNext
    <3>4. Before(z, p) => z.end <= p.end
      BY Order
    <3>5. Before(q, z) => q.start <= z.start
      BY <2>2, StartsInOrder
    <3> QED
      BY <1>1, <3>1, <3>2, <3>3, <3>4, <3>5
  <2>3. Spread(I, s) => s.start <= p.start /\ q.end <= s.end
    BY DEF Spread
  <2> QED
    BY <1>1, <1>2, <2>1, <2>2, <2>3
<1> QED
  BY <1>6, <1>7, <1>8, GapsOf

\* Time of the search that no interval covers is in a gap.
LEMMA FreeTimeIsGap ==
  ASSUME NEW I, I \subseteq Intervals, I # {}, NEW s \in Intervals,
         NEW i \in Int, Covers(s, i), \A x \in I : ~Covers(x, i)
  PROVE  \E g \in FindGaps(I, s) : Covers(g, i)
<1> DEFINE first == Min({x.start : x \in I})
           last == Max({x.end : x \in I})
           L == {x \in I : x.end <= i}
           U == {x \in I : i < x.start}
<1>1. \A x \in I : x.start \in Int /\ x.end \in Int /\ x.start <= x.end
  BY IntervalType
<1>2. s.start \in Int /\ s.end \in Int /\ s.start <= i /\ i < s.end
  BY IntervalType DEF Covers
<1>3. PICK x \in I : first = x.start
  BY FirstAndLast
<1>4. PICK y \in I : last = y.end
  BY FirstAndLast
<1> HIDE DEF first, last
<1>5. \A z \in I : z \in L \/ z \in U
  BY <1>1 DEF Covers
<1>6. CASE i < first
  <2> DEFINE g == Interval(s.start, first)
  <2>1. GapBefore(g, I, s)
    BY <1>1, <1>2, <1>3, <1>6 DEF GapBefore, first
  <2>2. Covers(g, i)
    BY <1>2, <1>6 DEF Covers, Interval
  <2> QED
    BY <2>1, <2>2, GapsOf
<1>7. CASE last <= i
  <2> DEFINE g == Interval(last, s.end)
  <2>1. GapAfter(g, I, s)
    BY <1>1, <1>2, <1>4, <1>7 DEF GapAfter, last
  <2>2. Covers(g, i)
    BY <1>2, <1>7 DEF Covers, Interval
  <2> QED
    BY <2>1, <2>2, GapsOf
<1>8. CASE ~(i < first) /\ ~(last <= i)
  <2>1. x \in L /\ y \in U
    BY <1>1, <1>3, <1>4, <1>5, <1>8
  <2>2. PICK p \in L : \A z \in L : ~Before(p, z)
    BY <2>1, Ends
  <2>3. PICK q \in U : \A z \in U : ~Before(z, q)
    BY <2>1, Ends
  <2>4. p \in I /\ q \in I /\ p.end <= i /\ i < q.start
    BY <2>2, <2>3
  <2>5. Before(p, q)
    BY <1>1, <2>4 DEF Before
  <2>6. ~ \E z \in I : Before(p, z) /\ Before(z, q)
    BY <1>5, <2>2, <2>3
  <2> DEFINE g == Interval(p.end, q.start)
  <2>7. GapBetween(g, I, p, q)
    BY <1>1, <2>4, <2>5, <2>6 DEF GapBetween, IsNext
  <2>8. Covers(g, i)
    BY <2>4 DEF Covers, Interval
  <2> QED
    BY <2>4, <2>7, <2>8, GapsOf
<1> QED
  BY <1>6, <1>7, <1>8

\* One of two gaps comes before the other.
LEMMA GapsApart ==
  ASSUME NEW I, I \subseteq Intervals, I # {}, NEW s \in Intervals, Spread(I, s),
         NEW g \in FindGaps(I, s), NEW h \in FindGaps(I, s), g # h
  PROVE  g.end <= h.start \/ h.end <= g.start
<1> DEFINE first == Min({x.start : x \in I})
           last == Max({x.end : x \in I})
<1>1. \A x \in I : x.start \in Int /\ x.end \in Int /\ x.start <= x.end
  BY IntervalType
<1>2. \A z \in I : first <= z.start /\ z.end <= last
  BY FirstAndLast
<1>3. first \in Int /\ last \in Int /\ first <= last
  <2>1. PICK x \in I : first = x.start
    BY FirstAndLast
  <2>2. PICK y \in I : last = y.end
    BY FirstAndLast
  <2> HIDE DEF first, last
  <2> QED
    BY <1>1, <1>2, <2>1, <2>2
<1>4. \A k : GapBefore(k, I, s) => k = Interval(s.start, first) /\ k.end = first
  BY DEF GapBefore, Interval
<1>5. \A k : GapAfter(k, I, s) => k = Interval(last, s.end) /\ k.start = last
  BY DEF GapAfter, Interval
<1>6. \A k, p, q : GapBetween(k, I, p, q) =>
        /\ k = Interval(p.end, q.start) /\ k.start = p.end /\ k.end = q.start
        /\ IsNext(p, q, I)
  BY DEF GapBetween, Interval
<1> HIDE DEF first, last
<1>7. ASSUME NEW p \in I, NEW q \in I, IsNext(p, q, I), NEW v \in I, NEW w \in I,
             IsNext(v, w, I), Before(p, v)
      PROVE  q.start <= v.end
  <2>1. ~Before(v, q) /\ (q = v \/ Before(q, v) \/ Before(v, q))
    BY <1>7, Order DEF IsNext
  <2>2. q.end <= v.end
    BY <1>1, <2>1, Order
  <2> QED
    BY <1>1, <2>2
<1>8. ASSUME NEW p \in I, NEW q \in I, IsNext(p, q, I), NEW w \in I, IsNext(p, w, I)
      PROVE  q = w
  BY <1>8, Order DEF IsNext
<1>9. ASSUME NEW p \in I, NEW q \in I, GapBetween(g, I, p, q),
             NEW v \in I, NEW w \in I, GapBetween(h, I, v, w)
      PROVE  g.end <= h.start \/ h.end <= g.start
  <2>1. p # v
    BY <1>6, <1>8, <1>9
  <2>2. Before(p, v) \/ Before(v, p)
    BY <2>1, Order
  <2> QED
    BY <1>6, <1>7, <1>9, <2>2
<1>10. \A k, p, q : p \in I /\ q \in I /\ GapBetween(k, I, p, q) => first <= k.start /\ k.end <= last
  <2> SUFFICES ASSUME NEW k, NEW p \in I, NEW q \in I, GapBetween(k, I, p, q)
               PROVE  first <= k.start /\ k.end <= last
    OBVIOUS
  <2>1. k.start = p.end /\ k.end = q.start
    BY <1>6
  <2> QED
    BY <1>1, <1>2, <1>3, <2>1
<1>11. \A k \in {g, h} : \/ GapBefore(k, I, s) \/ GapAfter(k, I, s)
                         \/ \E p, q \in I : GapBetween(k, I, p, q)
  BY GapsOf
<1>12. CASE GapBefore(g, I, s)
  BY <1>3, <1>4, <1>5, <1>10, <1>11, <1>12
<1>13. CASE GapAfter(g, I, s)
  <2>1. g.start = last
    BY <1>5, <1>13
  <2>2. CASE GapBefore(h, I, s)
    BY <1>3, <1>4, <2>1, <2>2
  <2>3. CASE GapAfter(h, I, s)
    BY <1>5, <1>13, <2>3
  <2>4. CASE \E p, q \in I : GapBetween(h, I, p, q)
    BY <1>10, <2>1, <2>4
  <2> QED
    BY <1>11, <2>2, <2>3, <2>4
<1>14. CASE \E p, q \in I : GapBetween(g, I, p, q)
  <2>1. first <= g.start /\ g.end <= last
    BY <1>10, <1>14
  <2>2. CASE GapBefore(h, I, s)
    BY <1>4, <2>1, <2>2
  <2>3. CASE GapAfter(h, I, s)
    BY <1>5, <2>1, <2>3
  <2>4. CASE \E p, q \in I : GapBetween(h, I, p, q)
    BY <1>9, <1>14, <2>4
  <2> QED
    BY <1>11, <2>2, <2>3, <2>4
<1> QED
  BY <1>11, <1>12, <1>13, <1>14

\* One call of findGaps.
LEMMA FindGapsIsRight ==
  ASSUME NEW I, I \subseteq Intervals, NEW s \in Intervals
  PROVE  LET R == FindGaps(I, s)
         IN  /\ AreIntervals(R)
             /\ Spread(I, s) => /\ Covered(R) = Covered({s}) \ Covered(I)
                                /\ \A g, h \in R : g # h => ~Overlaps(g, h)
<1> DEFINE R == FindGaps(I, s)
<1>1. \A S : Covered(S) = {i \in Instants : \E x \in S : Covers(x, i)}
  BY DEF Covered, Covers
<1>2. CASE I = {}
  <2>1. R = {s}
    BY <1>2 DEF FindGaps
  <2> HIDE DEF R
  <2>2. AreIntervals(R)
    BY <2>1, IntervalType DEF AreIntervals
  <2>3. Covered(R) = Covered({s}) \ Covered(I)
    BY <1>1, <1>2, <2>1
  <2>4. \A g, h \in R : g = h
    BY <2>1
  <2> QED
    BY <2>2, <2>3, <2>4 DEF R
<1>3. CASE I # {}
  <2> HIDE DEF R
  <2>1. AreIntervals(R)
    BY <1>3, GapsAreFree DEF AreIntervals, R
  <2>2. ASSUME Spread(I, s), NEW i \in Instants
        PROVE  (\E g \in R : Covers(g, i)) <=> Covers(s, i) /\ ~ \E x \in I : Covers(x, i)
    <3>1. i \in Int
      BY UtilitiesAssumption
    <3>2. ASSUME NEW g \in R, Covers(g, i) PROVE Covers(s, i) /\ ~ \E x \in I : Covers(x, i)
      <4>1. /\ g.start \in Int /\ g.end \in Int /\ s.start <= g.start /\ g.end <= s.end
            /\ \A x \in I : x.end <= g.start \/ g.end <= x.start
        BY <1>3, <2>2, GapsAreFree DEF R
      <4>2. \A x \in I : x.start \in Int /\ x.end \in Int
        BY IntervalType
      <4>3. s.start \in Int /\ s.end \in Int
        BY IntervalType
      <4> QED
        BY <3>1, <3>2, <4>1, <4>2, <4>3 DEF Covers
    <3>3. Covers(s, i) /\ (~ \E x \in I : Covers(x, i)) => \E g \in R : Covers(g, i)
      BY <1>3, <3>1, FreeTimeIsGap DEF R
    <3> QED
      BY <3>2, <3>3
  <2>3. Spread(I, s) => Covered(R) = Covered({s}) \ Covered(I)
    BY <1>1, <2>2
  <2>4. ASSUME Spread(I, s), NEW g \in R, NEW h \in R, g # h PROVE ~Overlaps(g, h)
    <3>1. g.start \in Int /\ g.end \in Int /\ h.start \in Int /\ h.end \in Int
      BY <1>3, GapsAreFree DEF R
    <3>2. g.end <= h.start \/ h.end <= g.start
      BY <1>3, <2>4, GapsApart DEF R
    <3> QED
      BY <3>1, <3>2 DEF Overlaps
  <2> QED
    BY <2>1, <2>3, <2>4 DEF R
<1> QED
  BY <1>2, <1>3

LEMMA GapsStep == [Next]_vars /\ GapsAreUncovered => GapsAreUncovered'
<1> SUFFICES ASSUME [Next]_vars, GapsAreUncovered PROVE GapsAreUncovered'
  OBVIOUS
<1>1. CASE CallFindGaps
  <2>1. PICK I \in Lists(MaxIntervals), s \in Intervals :
          args' = [intervals |-> I, search |-> s] /\ result' = FindGaps(I, s)
    BY <1>1 DEF CallFindGaps, Calls
  <2>2. I \subseteq Intervals /\ args'.intervals = I /\ args'.search = s
    BY <2>1, ListType
  <2> DEFINE R == FindGaps(I, s)
  <2>3. /\ AreIntervals(R)
        /\ Spread(I, s) => /\ Covered(R) = Covered({s}) \ Covered(I)
                           /\ \A g, h \in R : g # h => ~Overlaps(g, h)
    BY <2>2, FindGapsIsRight
  <2> QED
    BY <2>1, <2>2, <2>3 DEF GapsAreUncovered, Spread, AreIntervals, Covered
<1>2. CASE op' # "findGaps"
  BY <1>2 DEF GapsAreUncovered
<1>3. CASE UNCHANGED vars
  BY <1>3 DEF GapsAreUncovered, Covered, AreIntervals, vars
<1> QED
  BY <1>1, <1>2, <1>3 DEF Next, CallGetOverlappingIntervals, CallGetContainedIntervals,
     CallRoundFloorTime, CallRoundCeilTime, CallGetIntervals, CallGetSleepTime, Returned, Calls

\* findGaps returns intervals, for any list; if the intervals lie within the search and none
\* within another, they are the time of the search that no interval covers, without overlap.
THEOREM GapsAreRight == Spec => []GapsAreUncovered
<1>1. Init => GapsAreUncovered
  BY DEF Init, GapsAreUncovered
<1> QED
  BY <1>1, GapsStep, PTL DEF Spec

-------------------------------------------------------------------------------
\* The int that an integer wraps to.
LEMMA Wraps ==
  ASSUME NEW x \in Int
  PROVE  /\ ToInt(x) \in Ints
         /\ \E k \in Int : ToInt(x) = x + Width * k
<1> DEFINE a == x - MinInt
<1>1. Width \in Nat \ {0} /\ a \in Int /\ MinInt \in Int
  BY IntAssumption DEF MinInt, Width
<1> HIDE DEF a
<1>2. a \div Width \in Int /\ a % Width \in 0 .. Width - 1 /\ a = Width * (a \div Width) + (a % Width)
  BY <1>1, Division
<1>3. ToInt(x) = MinInt + (a % Width)
  BY DEF ToInt, a
<1>4. ToInt(x) \in Ints
  BY <1>1, <1>2, <1>3, IntAssumption DEF Ints, MinInt, Width
<1>5. ToInt(x) = x + Width * (-(a \div Width))
  <2>1. x = a + MinInt
    BY <1>1 DEF a
  <2>2. Width * (-(a \div Width)) = -(Width * (a \div Width)) /\ Width * (a \div Width) \in Int
    BY <1>1, <1>2
  <2> QED
    BY <1>1, <1>2, <1>3, <2>1, <2>2
<1>6. -(a \div Width) \in Int
  BY <1>2
<1> QED
  BY <1>4, <1>5, <1>6

\* Integers that differ by multiples of the width wrap to the same int.
LEMMA WrapsTo ==
  ASSUME NEW x \in Int, NEW k \in Int, NEW y \in Ints, y = x + Width * k
  PROVE  ToInt(x) = y
<1>1. Width \in Nat \ {0} /\ MinInt \in Int /\ y \in Int
  BY IntAssumption DEF MinInt, Ints, Width
<1>2. y - MinInt \in 0 .. Width - 1
  BY <1>1, IntAssumption DEF MinInt, Ints, Width
<1>3. y = x + Width * k
  OBVIOUS
<1>4. Width * (-k) = -(Width * k) /\ Width * k \in Int /\ -k \in Int
  BY <1>1
<1> DEFINE a == x - MinInt
           c == -k
           r == y - MinInt
<1>5. a \in Int /\ c \in Int /\ r \in 0 .. Width - 1 /\ a = Width * c + r
  <2>1. a \in Int /\ c \in Int /\ r \in 0 .. Width - 1
    BY <1>1, <1>2, <1>4
  <2>2. x - MinInt = -(Width * k) + (y - MinInt)
    BY <1>1, <1>3, <1>4
  <2> QED
    BY <1>4, <2>1, <2>2
<1> HIDE DEF a, c, r
<1>6. a % Width = r
  BY <1>1, <1>5, DivisionUnique
<1> QED
  BY <1>1, <1>6 DEF ToInt, a, r

\* The exponent that getSleepTime uses.
Exponent(n) == IF n = MinInt THEN 0 ELSE Min({Max({n, -n}), MaxRetryCount})

LEMMA Widths == MaxInt \in Nat /\ MaxInt >= 1 /\ MaxRetryCount \in Nat /\ MinInt = -MaxInt - 1
<1>1. 2 ^ 0 \in 1 .. MaxInt
  BY IntAssumption, RetryAssumption
<1> QED
  BY <1>1, IntAssumption, RetryAssumption DEF MinInt

LEMMA Doublings ==
  ASSUME NEW n \in Ints
  PROVE  LET v == ValidateMaxRetries(n)
         IN  /\ Exponent(n) \in 0 .. MaxRetryCount
             /\ (IF v < 0 THEN 1 ELSE 2 ^ v) = 2 ^ Exponent(n)
<1> USE Widths
<1> DEFINE a == IF n < 0 THEN -n ELSE n
<1>1. n \in Int /\ MinInt \in Int /\ -n \in Int /\ MinInt < 0
  BY DEF Ints, MinInt
<1>2. CASE n = MinInt
  <2>1. ToInt(-n) = MinInt
    <3>1. MinInt = -n + Width * (-1)
      BY <1>2 DEF MinInt, Width
    <3>2. MinInt \in Ints /\ -1 \in Int
      BY DEF MinInt, Ints
    <3> QED
      BY <1>1, <3>1, <3>2, WrapsTo
  <2>2. ValidateMaxRetries(n) = MinInt
    BY <1>1, <1>2, <2>1 DEF ValidateMaxRetries
  <2>3. Exponent(n) = 0
    BY <1>2 DEF Exponent
  <2>4. 2 ^ 0 = 1
    OBVIOUS
  <2> QED
    BY <1>1, <2>2, <2>3, <2>4
<1>3. CASE n # MinInt
  <2>1. a \in Int /\ a >= 0 /\ a \in Ints
    BY <1>1, <1>3 DEF Ints, MinInt
  <2>2. n < 0 => ToInt(-n) = -n
    <3>1. -n = -n + Width * 0 /\ 0 \in Int
      BY <1>1 DEF Width
    <3> QED
      BY <1>1, <2>1, <3>1, WrapsTo
  <2>3. ValidateMaxRetries(n) = IF a > MaxRetryCount THEN MaxRetryCount ELSE a
    BY <1>1, <2>2 DEF ValidateMaxRetries
  <2>4. Max({n, -n}) = a
    BY <1>1, OfTwo
  <2>5. Exponent(n) = IF a <= MaxRetryCount THEN a ELSE MaxRetryCount
    <3> HIDE DEF a
    <3>1. Min({a, MaxRetryCount}) = IF a <= MaxRetryCount THEN a ELSE MaxRetryCount
      <4>1. a \in Int /\ MaxRetryCount \in Int
        BY <2>1
      <4> QED
        BY <4>1, OfTwo
    <3> QED
      BY <1>3, <2>4, <3>1 DEF Exponent
  <2> HIDE DEF a
  <2> QED
    BY <2>1, <2>3, <2>5
<1> QED
  BY <1>2, <1>3

\* The sleep time of one call.
LEMMA SleepOf ==
  ASSUME NEW b \in 0 .. MaxInt, NEW n \in Ints, NEW e \in 0 .. MaxInt,
         b * 2 ^ Exponent(n) - e <= 2 * MaxInt + 1
  PROVE  LET exact == b * 2 ^ Exponent(n) - e
         IN  GetSleepTime(b, n, e) = IF exact \in 0 .. MaxInt THEN exact ELSE MaxInt
<1> USE Widths
<1> DEFINE v == ValidateMaxRetries(n)
           p == b * 2 ^ Exponent(n)
           r == ToInt(ToInt(p) - e)
<1>1. GetSleepTime(b, n, e) = IF r < 0 THEN MaxInt ELSE r
  BY Doublings DEF GetSleepTime, ValidateSleepTime
<1>2. 2 ^ Exponent(n) \in 1 .. MaxInt
  BY Doublings, RetryAssumption
<1>3. p \in Nat
  <2> DEFINE f == 2 ^ Exponent(n)
  <2>1. f \in Nat /\ b \in Nat
    BY <1>2
  <2> HIDE DEF f
  <2> QED
    BY <2>1 DEF f
<1> HIDE DEF p
<1>4. PICK k \in Int : ToInt(p) = p + Width * k
  <2>1. p \in Int
    BY <1>3
  <2>2. \E k \in Int : ToInt(p) = p + Width * k
    BY <2>1, Wraps
  <2> QED
    BY <2>2
<1> HIDE DEF r
<1>5. Width = 2 * MaxInt + 2 /\ Width * k \in Int /\ -k \in Int /\ Width * (-k) = -(Width * k)
  BY DEF Width
<1>6. ToInt(p) - e \in Int /\ p - e = (ToInt(p) - e) + Width * (-k)
  BY <1>3, <1>4, <1>5
<1>7. p - e \in Int /\ p - e >= -MaxInt /\ p - e <= 2 * MaxInt + 1 /\ MaxInt \in Int
  BY <1>3 DEF p
<1>8. CASE p - e \in Ints
  <2>1. r = p - e
    BY <1>3, <1>5, <1>6, <1>8, WrapsTo DEF r
  <2>2. GetSleepTime(b, n, e) = IF p - e \in 0 .. MaxInt THEN p - e ELSE MaxInt
    BY <1>1, <1>7, <1>8, <2>1 DEF Ints
  <2> QED
    BY <2>2 DEF p
<1>9. CASE p - e > MaxInt
  <2>1. p - e - Width \in Ints /\ p - e - Width < 0
    BY <1>5, <1>7, <1>9 DEF Ints, MinInt
  <2>2. -k - 1 \in Int /\ Width * (-k - 1) = Width * (-k) - Width
    BY <1>5
  <2>3. p - e - Width = (ToInt(p) - e) + Width * (-k - 1)
    BY <1>3, <1>5, <1>6, <2>2
  <2>4. r = p - e - Width
    BY <1>6, <2>1, <2>2, <2>3, WrapsTo DEF r
  <2>5. GetSleepTime(b, n, e) = MaxInt /\ p - e \notin 0 .. MaxInt
    BY <1>1, <1>7, <1>9, <2>1, <2>4
  <2> QED
    BY <2>5 DEF p
<1> QED
  BY <1>7, <1>8, <1>9 DEF Ints, MinInt

LEMMA SleepStep == [Next]_vars /\ SleepSaturates => SleepSaturates'
<1> SUFFICES ASSUME [Next]_vars, SleepSaturates PROVE SleepSaturates'
  OBVIOUS
<1>1. CASE CallGetSleepTime
  <2>1. PICK b \in BaseSleepTimes, n \in RetryCounts, e \in ElapsedTimes :
          /\ op' = "getSleepTime" /\ args' = [base |-> b, retryCount |-> n, elapsed |-> e]
          /\ result' = GetSleepTime(b, n, e)
    BY <1>1 DEF CallGetSleepTime, Calls
  <2>2. b \in 0 .. MaxInt /\ n \in Ints /\ e \in 0 .. MaxInt
    BY UtilitiesAssumption
  <2>3. args'.base = b /\ args'.retryCount = n /\ args'.elapsed = e
    BY <2>1
  <2>4. b * 2 ^ Exponent(n) - e <= 2 * MaxInt + 1 =>
          LET exact == b * 2 ^ Exponent(n) - e
          IN  GetSleepTime(b, n, e) = IF exact \in 0 .. MaxInt THEN exact ELSE MaxInt
    BY <2>2, SleepOf
  <2> QED
    BY <2>1, <2>3, <2>4 DEF SleepSaturates, Exponent
<1>2. CASE op' # "getSleepTime"
  BY <1>2 DEF SleepSaturates
<1>3. CASE UNCHANGED vars
  BY <1>3 DEF SleepSaturates, vars
<1> QED
  BY <1>1, <1>2, <1>3 DEF Next, CallFindGaps, CallGetOverlappingIntervals,
     CallGetContainedIntervals, CallRoundFloorTime, CallRoundCeilTime, CallGetIntervals,
     Returned, Calls

\* For every int as the retry count, the sleep time doubles with each retry up to the most,
\* less the elapsed time, and saturates where that is negative or overflows int once.
THEOREM SleepTimesSaturate == Spec => []SleepSaturates
<1>1. Init => SleepSaturates
  BY DEF Init, SleepSaturates
<1> QED
  BY <1>1, SleepStep, PTL DEF Spec
===============================================================================
