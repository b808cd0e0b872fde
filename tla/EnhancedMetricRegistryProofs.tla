--------------------- MODULE EnhancedMetricRegistryProofs ---------------------
(***************************************************************************)
(* As long as no call of counter begins while the map is being changed,    *)
(* every name has one counter (OneCounter) and no count is lost but what   *)
(* the gauge cuts off as it returns an int (CountsKept); as long as no two readers read one gauge at once, none is *)
(* reported twice (ReportedOnce), however calls race.  Proved for any      *)
(* number of threads, readers and names.                                   *)
(*                                                                         *)
(* ReportedOnce does not follow from what was counted and reported: RInv   *)
(* says which counters can still become the counter of a name, that no     *)
(* other name uses them (Owned), and that what such a counter holds is     *)
(* still to be reported (Budget); a reader can take off what it has read,  *)
(* because nobody else does (ReadBacked).                                  *)
(***************************************************************************)
EXTENDS EnhancedMetricRegistry, TLAPS

\* The counters in use are those that were made.
Made ==
    /\ \A x \in Names : counters[x] = None \/ counters[x] <= calls
    /\ \A x \in Names : gauge[x] = None \/ gauge[x] <= calls
    /\ \A u \in Users : held[u] = None \/ held[u] <= calls
    /\ \A c \in Counters : c > calls => value[c] = 0
    /\ \A r \in Readers : reading[r] # None => gauge[reading[r]] # None

\* A thread that puts a counter into the map is the only one to do so, and the counter is
\* new.
PutAlone ==
    /\ \A u, v \in Users : pc[u] = "putting" /\ pc[v] = "putting" => u = v
    /\ \A u \in Users : pc[u] = "putting" =>
          /\ counters[name[u]] = None
          /\ value[held[u]] = 0
          /\ \A x \in Names : counters[x] # held[u]

\* A thread that has made the counter of a name will register its gauge.
OneMaker ==
    /\ \A u \in Users : pc[u] \in {"looking", "registering", "counting"} =>
          counters[name[u]] = held[u]
    /\ \A u \in Users : pc[u] \in {"looking", "registering"} => gauge[name[u]] = None
    /\ \A u, v \in Users :
          /\ pc[u] \in {"looking", "registering"} /\ pc[v] \in {"looking", "registering"}
          /\ name[u] = name[v]
          => u = v

OwnCounters ==
    /\ \A x \in Names : gauge[x] = None \/ gauge[x] = counters[x]
    /\ \A x, y \in Names : counters[x] = counters[y] /\ counters[x] # None => x = y

\* What was counted under x and is neither reported nor in the counter.
Rest(x) == counted[x] - reported[x] - InCounter(x)

Kept(x) == CutOff(x, Rest(x))

Quiet == PutAlone /\ OneMaker /\ OwnCounters /\ \A x \in Names : Kept(x)

IInv == TypeOK /\ Made /\ (~raced => Quiet)

\* A counter that a name uses: the map or the gauge of the name has it, or a thread that
\* counts under the name has it in hand.
Uses(x, c) ==
    counters[x] = c \/ gauge[x] = c \/ \E u \in Users : name[u] = x /\ held[u] = c

\* However calls race, no two names use the same counter.
Owned == \A c \in Counters : \A x, y \in Names : Uses(x, c) /\ Uses(y, c) => x = y

\* The one reader of a gauge can take off what it has read.
ReadBacked ==
    /\ \A r, s \in Readers : reading[r] = reading[s] /\ reading[r] # None => r = s
    /\ \A r \in Readers :
          reading[r] # None => 0 <= read[r] /\ read[r] <= value[gauge[reading[r]]]

\* What the counter of the gauge holds is still to be reported; before there is a gauge,
\* each of the counters of the name may become its counter.
Budget(x) ==
    IF gauge[x] = None
    THEN reported[x] = 0 /\ \A c \in Counters : Uses(x, c) => value[c] <= counted[x]
    ELSE reported[x] + value[gauge[x]] <= counted[x]

Within ==
    /\ \A c \in Counters : value[c] >= 0
    /\ ReadBacked
    /\ \A x \in Names : Budget(x)

RInv == Owned /\ (~Shared => Within)

-------------------------------------------------------------------------------
LEMMA Division ==
  ASSUME NEW a \in Int, NEW b \in Nat \ {0}
  PROVE  a \div b \in Int /\ a % b \in 0 .. b - 1 /\ a = b * (a \div b) + (a % b)
OBVIOUS

LEMMA Products ==
  ASSUME NEW b \in Nat, NEW x \in Int, NEW y \in Int, x <= y
  PROVE  b * x <= b * y /\ b * x \in Int /\ b * y \in Int
OBVIOUS

LEMMA Remainder ==
  ASSUME NEW b \in Nat \ {0}, NEW k \in Int, NEW m \in 0 .. b - 1
  PROVE  (b * k + m) % b = m
<1> DEFINE a == b * k + m
           q == a \div b
<1>1. a \in Int
  OBVIOUS
<1> HIDE DEF a
<1>2. q \in Int /\ a % b \in 0 .. b - 1 /\ a = b * q + (a % b)
  BY <1>1, Division
<1>3. a = b * k + m
  BY DEF a
<1> HIDE DEF q
<1>4. q + 1 <= k => b * q + b <= b * k
  BY <1>2, Products
<1>5. k + 1 <= q => b * k + b <= b * q
  BY <1>2, Products
<1>6. q = k
  BY <1>2, <1>3, <1>4, <1>5
<1> QED
  BY <1>2, <1>3, <1>6 DEF a

LEMMA WidthType == Width \in Nat \ {0} /\ MinInt \in Int /\ MaxInt \in Nat
BY IntAssumption DEF Width, MinInt

\* A gauge cuts a multiple of the width off the count, nothing off an int, and never
\* returns more than a count that is not negative.
LEMMA Narrowing ==
  ASSUME NEW n \in Int
  PROVE  /\ ToInt(n) \in Int
         /\ \E k \in Int : n - ToInt(n) = Width * k
         /\ n \in Ints => ToInt(n) = n
         /\ n >= 0 => ToInt(n) <= n
<1> DEFINE a == n - MinInt
           q == a \div Width
<1>1. a \in Int /\ n = MinInt + a
  BY WidthType
<1>2. q \in Int /\ a % Width \in 0 .. Width - 1 /\ a = Width * q + (a % Width)
  BY <1>1, WidthType, Division
<1>3. ToInt(n) = MinInt + (a % Width)
  BY DEF ToInt
<1>4. n \in Ints => a \in 0 .. Width - 1
  BY IntAssumption DEF Ints, MinInt, Width
<1> HIDE DEF a, q
<1>5. n - ToInt(n) = Width * q
  BY <1>1, <1>2, <1>3, WidthType
<1>6. n \in Ints => ToInt(n) = n
  <2> SUFFICES ASSUME n \in Ints PROVE ToInt(n) = n
    OBVIOUS
  <2>1. a = Width * 0 + a /\ a \in 0 .. Width - 1
    BY <1>1, <1>4, WidthType
  <2>2. a % Width = a
    BY <2>1, WidthType, Remainder
  <2> QED
    BY <1>1, <1>3, <2>2
<1>7. n >= 0 => ToInt(n) <= n
  <2>1. ToInt(n) \in Int /\ ToInt(n) <= MaxInt
    BY <1>2, <1>3, IntAssumption DEF MinInt, Width
  <2>2. n >= 0 /\ n <= MaxInt => n \in Ints
    BY IntAssumption DEF Ints, MinInt
  <2> QED
    BY <1>6, <2>1, <2>2, WidthType
<1>8. ToInt(n) \in Int
  BY <1>2, <1>3, WidthType
<1> QED
  BY <1>2, <1>5, <1>6, <1>7, <1>8

LEMMA Multiples ==
  ASSUME NEW i \in Int, NEW k \in Int, i % Width = 0
  PROVE  (i + Width * k) % Width = 0
<1> DEFINE q == i \div Width
<1>1. q \in Int /\ i = Width * q
  BY WidthType, Division
<1> HIDE DEF q
<1>2. i + Width * k = Width * (q + k) + 0 /\ q + k \in Int
  BY <1>1, WidthType
<1> QED
  BY <1>2, WidthType, Remainder

-------------------------------------------------------------------------------
LEMMA TypeStep ==
  ASSUME TypeOK, [Next]_vars
  PROVE  TypeOK'
<1> USE ConstantsAssumption DEF TypeOK, Goto, Counters, history
<1>1. ASSUME NEW u \in Users, NEW x \in Names, Found(u, x) PROVE TypeOK'
  BY <1>1 DEF Found, Calls
<1>2. ASSUME NEW u \in Users, NEW x \in Names, NotFound(u, x) PROVE TypeOK'
  BY <1>2 DEF NotFound, Calls
<1>3. ASSUME NEW u \in Users, Put(u) PROVE TypeOK'
  BY <1>3 DEF Put
<1>4. ASSUME NEW u \in Users, LookForGauge(u) PROVE TypeOK'
  BY <1>4 DEF LookForGauge
<1>5. ASSUME NEW u \in Users, Register(u) PROVE TypeOK'
  BY <1>5 DEF Register
<1>6. ASSUME NEW u \in Users, RegisterThrows(u) PROVE TypeOK'
  BY <1>6 DEF RegisterThrows
<1>7. ASSUME NEW u \in Users, Inc(u) PROVE TypeOK'
  BY <1>7 DEF Inc
<1>8. ASSUME NEW r \in Readers, NEW x \in Names, GetCount(r, x) PROVE TypeOK'
  BY <1>8 DEF GetCount
<1>9. ASSUME NEW r \in Readers, TakeOff(r) PROVE TypeOK'
  <2>1. PICK k : value' = [value EXCEPT ![k] = @ - read[r]]
    BY <1>9 DEF TakeOff, Returns
  <2>2. read[r] \in Int
    OBVIOUS
  <2>3. value' \in [Counters -> Int]
    <3>1. DOMAIN value' = Counters
      BY <2>1
    <3>2. ASSUME NEW c \in Counters PROVE value'[c] \in Int
      <4>1. value'[c] = value[c] \/ value'[c] = value[c] - read[r]
        BY <2>1
      <4>2. QED
        BY <2>2, <4>1
    <3>3. value' = [c \in Counters |-> value'[c]]
      BY <2>1
    <3>4. QED
      BY <3>2, <3>3
  <2>4. reported' \in [Names -> Int] /\ reading' \in [Readers -> Names \cup {None}]
        /\ read' \in [Readers -> Int] /\ narrowed' \in SUBSET Names
    <3>1. ToInt(read[r]) \in Int
      BY <2>2, Narrowing
    <3>2. reading[r] \in Names
      BY <1>9 DEF TakeOff
    <3> QED
      BY <1>9, <3>1, <3>2 DEF TakeOff, Returns
  <2>5. QED
    BY <1>9, <2>3, <2>4 DEF TakeOff, Returns
<1>10. CASE UNCHANGED vars
  BY <1>10 DEF vars
<1>11. QED
  BY <1>1, <1>2, <1>3, <1>4, <1>5, <1>6, <1>7, <1>8, <1>9, <1>10 DEF Next, UserStep, ReaderStep

LEMMA MadeStep ==
  ASSUME TypeOK, Made, [Next]_vars
  PROVE  Made'
<1> USE ConstantsAssumption DEF TypeOK, Made, Goto, Counters, history
<1>1. ASSUME NEW u \in Users, NEW x \in Names, Found(u, x) PROVE Made'
  BY <1>1 DEF Found, Calls
<1>2. ASSUME NEW u \in Users, NEW x \in Names, NotFound(u, x) PROVE Made'
  BY <1>2 DEF NotFound, Calls
<1>3. ASSUME NEW u \in Users, Put(u) PROVE Made'
  BY <1>3 DEF Put
<1>4. ASSUME NEW u \in Users, LookForGauge(u) PROVE Made'
  BY <1>4 DEF LookForGauge
<1>5. ASSUME NEW u \in Users, Register(u) PROVE Made'
  BY <1>5 DEF Register
<1>6. ASSUME NEW u \in Users, RegisterThrows(u) PROVE Made'
  BY <1>6 DEF RegisterThrows
<1>7. ASSUME NEW u \in Users, Inc(u) PROVE Made'
  BY <1>7 DEF Inc
<1>8. ASSUME NEW r \in Readers, NEW x \in Names, GetCount(r, x) PROVE Made'
  BY <1>8 DEF GetCount
<1>9. ASSUME NEW r \in Readers, TakeOff(r) PROVE Made'
  BY <1>9 DEF TakeOff, Returns
<1>10. CASE UNCHANGED vars
  BY <1>10 DEF vars
<1>11. QED
  BY <1>1, <1>2, <1>3, <1>4, <1>5, <1>6, <1>7, <1>8, <1>9, <1>10 DEF Next, UserStep, ReaderStep

LEMMA PutAloneStep ==
  ASSUME TypeOK, Made, ~raced', ~raced => Quiet, [Next]_vars
  PROVE  PutAlone'
<1> USE ConstantsAssumption DEF TypeOK, Made, Quiet, PutAlone, OneMaker, OwnCounters, Goto, Counters, history
<1>1. ASSUME NEW u \in Users, NEW x \in Names, Found(u, x) PROVE PutAlone'
  BY <1>1 DEF Found, Calls
<1>2. ASSUME NEW u \in Users, NEW x \in Names, NotFound(u, x) PROVE PutAlone'
  <2>1. /\ calls < MaxCalls /\ pc' = [pc EXCEPT ![u] = "putting"] /\ name' = [name EXCEPT ![u] = x]
        /\ held' = [held EXCEPT ![u] = calls + 1] /\ UNCHANGED <<counters, value>>
    BY <1>2 DEF NotFound, Calls
  <2>2. ~raced /\ \A v \in Users : pc[v] # "putting"
    BY <1>2 DEF NotFound, Calls
  <2>3. counters[x] = None
    BY <1>2, <2>2 DEF NotFound
  <2>4. calls + 1 \in Counters /\ value[calls + 1] = 0
    BY <2>1
  <2>5. ASSUME NEW y \in Names PROVE counters[y] # calls + 1
    <3>1. calls \in Int /\ calls + 1 # None
      BY <2>4
    <3>2. counters[y] = None \/ (counters[y] \in Int /\ counters[y] <= calls)
      OBVIOUS
    <3>3. QED
      BY <3>1, <3>2
  <2>6. QED
    BY <2>1, <2>2, <2>3, <2>4, <2>5
<1>3. ASSUME NEW u \in Users, Put(u) PROVE PutAlone'
  BY <1>3 DEF Put
<1>4. ASSUME NEW u \in Users, LookForGauge(u) PROVE PutAlone'
  BY <1>4 DEF LookForGauge
<1>5. ASSUME NEW u \in Users, Register(u) PROVE PutAlone'
  BY <1>5 DEF Register
<1>6. ASSUME NEW u \in Users, RegisterThrows(u) PROVE PutAlone'
  BY <1>6 DEF RegisterThrows
<1>7. ASSUME NEW u \in Users, Inc(u) PROVE PutAlone'
  BY <1>7 DEF Inc
<1>8. ASSUME NEW r \in Readers, NEW x \in Names, GetCount(r, x) PROVE PutAlone'
  BY <1>8 DEF GetCount
<1>9. ASSUME NEW r \in Readers, TakeOff(r) PROVE PutAlone'
  BY <1>9 DEF TakeOff, Returns
<1>10. CASE UNCHANGED vars
  BY <1>10 DEF vars
<1>11. QED
  BY <1>1, <1>2, <1>3, <1>4, <1>5, <1>6, <1>7, <1>8, <1>9, <1>10 DEF Next, UserStep, ReaderStep

LEMMA OneMakerStep ==
  ASSUME TypeOK, Made, ~raced', ~raced => Quiet, [Next]_vars
  PROVE  OneMaker'
<1> USE ConstantsAssumption DEF TypeOK, Made, Quiet, PutAlone, OneMaker, OwnCounters, Goto, Counters, history
<1>1. ASSUME NEW u \in Users, NEW x \in Names, Found(u, x) PROVE OneMaker'
  BY <1>1 DEF Found, Calls
<1>2. ASSUME NEW u \in Users, NEW x \in Names, NotFound(u, x) PROVE OneMaker'
  BY <1>2 DEF NotFound, Calls
<1>3. ASSUME NEW u \in Users, Put(u) PROVE OneMaker'
  BY <1>3 DEF Put
<1>4. ASSUME NEW u \in Users, LookForGauge(u) PROVE OneMaker'
  BY <1>4 DEF LookForGauge
<1>5. ASSUME NEW u \in Users, Register(u) PROVE OneMaker'
  BY <1>5 DEF Register
<1>6. ASSUME NEW u \in Users, RegisterThrows(u) PROVE OneMaker'
  BY <1>6 DEF RegisterThrows
<1>7. ASSUME NEW u \in Users, Inc(u) PROVE OneMaker'
  BY <1>7 DEF Inc
<1>8. ASSUME NEW r \in Readers, NEW x \in Names, GetCount(r, x) PROVE OneMaker'
  BY <1>8 DEF GetCount
<1>9. ASSUME NEW r \in Readers, TakeOff(r) PROVE OneMaker'
  BY <1>9 DEF TakeOff, Returns
<1>10. CASE UNCHANGED vars
  BY <1>10 DEF vars
<1>11. QED
  BY <1>1, <1>2, <1>3, <1>4, <1>5, <1>6, <1>7, <1>8, <1>9, <1>10 DEF Next, UserStep, ReaderStep

LEMMA OwnCountersStep ==
  ASSUME TypeOK, Made, ~raced', ~raced => Quiet, [Next]_vars
  PROVE  OwnCounters'
<1> USE ConstantsAssumption DEF TypeOK, Made, Quiet, PutAlone, OneMaker, OwnCounters, Goto, Counters, history
<1>1. ASSUME NEW u \in Users, NEW x \in Names, Found(u, x) PROVE OwnCounters'
  BY <1>1 DEF Found, Calls
<1>2. ASSUME NEW u \in Users, NEW x \in Names, NotFound(u, x) PROVE OwnCounters'
  BY <1>2 DEF NotFound, Calls
<1>3. ASSUME NEW u \in Users, Put(u) PROVE OwnCounters'
  <2>1. name[u] \in Names /\ held[u] \in Counters /\ pc[u] = "putting" /\ UNCHANGED <<gauge, raced>>
    BY <1>3 DEF Put
  <2>2. counters[name[u]] = None /\ gauge[name[u]] = None /\ \A x \in Names : counters[x] # held[u]
    BY <2>1
  <2>3. counters' = [counters EXCEPT ![name[u]] = held[u]] \/ UNCHANGED counters
    BY <1>3 DEF Put
  <2>4. \A x \in Names : gauge'[x] = None \/ gauge'[x] = counters'[x]
    BY <2>1, <2>2, <2>3
  <2>5. ASSUME NEW x \in Names, NEW y \in Names, counters'[x] = counters'[y], counters'[x] # None
        PROVE  x = y
    <3>1. CASE x = name[u] \/ y = name[u]
      BY <2>1, <2>2, <2>3, <2>5, <3>1
    <3>2. CASE x # name[u] /\ y # name[u]
      <4>1. counters'[x] = counters[x] /\ counters'[y] = counters[y]
        BY <2>3, <3>2
      <4>2. counters[x] = counters[y] /\ counters[x] # None => x = y
        BY <1>3 DEF Put
      <4> QED
        BY <2>5, <4>1, <4>2
    <3> QED
      BY <3>1, <3>2
  <2>6. QED
    BY <2>4, <2>5
<1>4. ASSUME NEW u \in Users, LookForGauge(u) PROVE OwnCounters'
  BY <1>4 DEF LookForGauge
<1>5. ASSUME NEW u \in Users, Register(u) PROVE OwnCounters'
  BY <1>5 DEF Register
<1>6. ASSUME NEW u \in Users, RegisterThrows(u) PROVE OwnCounters'
  BY <1>6 DEF RegisterThrows
<1>7. ASSUME NEW u \in Users, Inc(u) PROVE OwnCounters'
  BY <1>7 DEF Inc
<1>8. ASSUME NEW r \in Readers, NEW x \in Names, GetCount(r, x) PROVE OwnCounters'
  BY <1>8 DEF GetCount
<1>9. ASSUME NEW r \in Readers, TakeOff(r) PROVE OwnCounters'
  BY <1>9 DEF TakeOff, Returns
<1>10. CASE UNCHANGED vars
  BY <1>10 DEF vars
<1>11. QED
  BY <1>1, <1>2, <1>3, <1>4, <1>5, <1>6, <1>7, <1>8, <1>9, <1>10 DEF Next, UserStep, ReaderStep

LEMMA KeptStep ==
  ASSUME NEW z \in Names, TypeOK, Made, ~raced', ~raced => Quiet, [Next]_vars
  PROVE  Kept(z)'
<1> USE ConstantsAssumption DEF TypeOK, Made, Quiet, PutAlone, OneMaker, OwnCounters, Goto, Counters, history
<1> DEFINE Same == Rest(z)' = Rest(z) /\ UNCHANGED narrowed
<1>a. ASSUME ~raced, Same PROVE Kept(z)'
  BY <1>a DEF Kept, CutOff
<1>1. ASSUME NEW u \in Users, NEW x \in Names, Found(u, x) PROVE ~raced /\ Same
  BY <1>1 DEF Found, Calls, Rest, InCounter
<1>2. ASSUME NEW u \in Users, NEW x \in Names, NotFound(u, x) PROVE ~raced /\ Same
  BY <1>2 DEF NotFound, Calls, Rest, InCounter
<1>3. ASSUME NEW u \in Users, Put(u) PROVE ~raced /\ Same
  BY <1>3 DEF Put, Rest, InCounter
<1>4. ASSUME NEW u \in Users, LookForGauge(u) PROVE ~raced /\ Same
  BY <1>4 DEF LookForGauge, Rest, InCounter
<1>5. ASSUME NEW u \in Users, Register(u) PROVE ~raced /\ Same
  BY <1>5 DEF Register, Rest, InCounter
<1>6. ASSUME NEW u \in Users, RegisterThrows(u) PROVE ~raced /\ Same
  BY <1>6 DEF RegisterThrows, Rest, InCounter
<1>7. ASSUME NEW u \in Users, Inc(u) PROVE ~raced /\ Same
  <2> DEFINE n == name[u]
             c == held[u]
  <2>1. /\ UNCHANGED <<counters, reported, narrowed, raced>>
        /\ value' = [value EXCEPT ![c] = @ + 1] /\ counted' = [counted EXCEPT ![n] = @ + 1]
        /\ pc[u] = "counting"
    BY <1>7 DEF Inc
  <2>2. n \in Names /\ c \in Counters /\ counters[n] = c /\ c # None /\ ~raced
    BY <2>1
  <2>3. \A x \in Names : x # n => counters[x] # c
    BY <2>2
  <2> HIDE DEF n, c
  <2>4. CASE z = n
    <3>1. InCounter(z) = value[c] /\ InCounter(z)' = value[c] + 1 /\ counted'[z] = counted[z] + 1
      BY <2>1, <2>2, <2>4 DEF InCounter
    <3>2. value[c] \in Int /\ reported[z] \in Int /\ counted[z] \in Int
      BY <2>2
    <3>3. reported'[z] = reported[z]
      BY <2>1
    <3>4. Rest(z)' = Rest(z)
      BY <3>1, <3>2, <3>3 DEF Rest
    <3> QED
      BY <2>1, <2>2, <3>4
  <2>5. CASE z # n
    BY <2>1, <2>2, <2>3, <2>5 DEF Rest, InCounter
  <2> QED
    BY <2>4, <2>5
<1>8. ASSUME NEW r \in Readers, NEW x \in Names, GetCount(r, x) PROVE ~raced /\ Same
  BY <1>8 DEF GetCount, Rest, InCounter
<1>9. ASSUME NEW r \in Readers, TakeOff(r) PROVE Kept(z)'
  <2> DEFINE n == reading[r]
             g == gauge[n]
  <2>1. /\ n # None /\ UNCHANGED <<counters, counted, raced>>
        /\ value' = [value EXCEPT ![g] = @ - read[r]]
        /\ reported' = [reported EXCEPT ![n] = @ + ToInt(read[r])]
        /\ narrowed' = narrowed \cup IF read[r] \in Ints THEN {} ELSE {n}
    BY <1>9 DEF TakeOff, Returns
  <2>2. n \in Names /\ g \in Counters /\ counters[n] = g /\ read[r] \in Int /\ ~raced
    BY <2>1
  <2>3. \A x \in Names : x # n => counters[x] # g
    BY <2>2
  <2>4. ToInt(read[r]) \in Int /\ Rest(z) \in Int
    <3>1. counters[z] = None \/ value[counters[z]] \in Int
      OBVIOUS
    <3>2. InCounter(z) \in Int /\ counted[z] \in Int /\ reported[z] \in Int
      BY <3>1 DEF InCounter
    <3>3. ToInt(read[r]) \in Int
      BY <2>2, Narrowing
    <3> QED
      BY <3>2, <3>3 DEF Rest
  <2>5. Kept(z)
    BY <2>2
  <2> HIDE DEF n, g
  <2>6. CASE z # n
    <3>1. Rest(z)' = Rest(z)
      BY <2>1, <2>2, <2>3, <2>6 DEF Rest, InCounter
    <3> QED
      BY <2>1, <2>5, <2>6, <3>1 DEF Kept, CutOff
  <2>7. CASE z = n
    <3>1. Rest(z)' = Rest(z) + (read[r] - ToInt(read[r]))
      <4>1. InCounter(z) = value[g] /\ InCounter(z)' = value[g] - read[r]
        BY <2>1, <2>2, <2>7 DEF InCounter
      <4>2. reported'[z] = reported[z] + ToInt(read[r]) /\ counted'[z] = counted[z]
        BY <2>1, <2>2, <2>7
      <4>3. value[g] \in Int /\ reported[z] \in Int /\ counted[z] \in Int
        BY <2>2
      <4> QED
        BY <2>2, <2>4, <4>1, <4>2, <4>3 DEF Rest
    <3>2. PICK k \in Int : read[r] - ToInt(read[r]) = Width * k
      BY <2>2, Narrowing
    <3>3. Rest(z)' % Width = 0
      BY <2>4, <2>5, <3>1, <3>2, Multiples DEF Kept, CutOff
    <3>4. z \notin narrowed' => z \notin narrowed /\ read[r] = ToInt(read[r])
      BY <2>1, <2>2, <2>7, Narrowing
    <3>5. z \notin narrowed' => Rest(z)' = 0
      BY <2>2, <2>4, <2>5, <3>1, <3>4 DEF Kept, CutOff
    <3> QED
      BY <3>3, <3>5 DEF Kept, CutOff
  <2> QED
    BY <2>6, <2>7
<1>10. CASE UNCHANGED vars
  <2>1. ~raced /\ Same
    BY <1>10 DEF vars, Rest, InCounter
  <2> QED
    BY <1>a, <2>1
<1> HIDE DEF Same
<1>11. QED
  BY <1>a, <1>1, <1>2, <1>3, <1>4, <1>5, <1>6, <1>7, <1>8, <1>9, <1>10 DEF Next, UserStep, ReaderStep

-------------------------------------------------------------------------------
LEMMA InvInit == Init => IInv
<1> SUFFICES ASSUME Init PROVE IInv
  OBVIOUS
<1> USE ConstantsAssumption DEF Init
<1>1. TypeOK
  <2>1. /\ counters \in [Names -> Counters \cup {None}] /\ gauge \in [Names -> Counters \cup {None}]
        /\ value \in [Counters -> Int] /\ calls \in 0 .. MaxCalls
    OBVIOUS
  <2>2. /\ pc \in [Users -> {"idle", "putting", "looking", "registering", "counting"}]
        /\ name \in [Users -> Names \cup {None}] /\ held \in [Users -> Counters \cup {None}]
        /\ \A u \in Users : pc[u] = "idle" /\ name[u] = None /\ held[u] = None
    OBVIOUS
  <2>3. /\ reading \in [Readers -> Names \cup {None}] /\ read \in [Readers -> Int]
        /\ counted \in [Names -> Nat] /\ reported \in [Names -> Int] /\ narrowed \in SUBSET Names
    OBVIOUS
  <2>4. raced \in BOOLEAN /\ overlaps \in 0 .. MaxOverlaps
    <3>1. raced \in BOOLEAN
      OBVIOUS
    <3>2. overlaps = 0 /\ MaxOverlaps \in Nat
      OBVIOUS
    <3>3. overlaps \in 0 .. MaxOverlaps
      BY <3>2
    <3> QED
      BY <3>1, <3>3
  <2>5. QED
    BY <2>1, <2>2, <2>3, <2>4 DEF TypeOK
<1>2. Made
  BY DEF Made, Counters
<1>3. PutAlone /\ OneMaker /\ OwnCounters
  BY DEF PutAlone, OneMaker, OwnCounters
<1>4. \A x \in Names : Kept(x)
  <2>1. \A x \in Names : Rest(x) = 0
    BY DEF Rest, InCounter
  <2>2. 0 = Width * 0 + 0 /\ 0 \in 0 .. Width - 1
    BY WidthType
  <2>3. 0 % Width = 0
    BY <2>2, WidthType, Remainder
  <2> QED
    BY <2>1, <2>3 DEF Kept, CutOff
<1>5. QED
  BY <1>1, <1>2, <1>3, <1>4 DEF IInv, Quiet

LEMMA InvStep == IInv /\ [Next]_vars => IInv'
<1> SUFFICES ASSUME IInv, [Next]_vars PROVE IInv'
  OBVIOUS
<1> USE DEF IInv
<1>1. TypeOK' /\ Made'
  BY TypeStep, MadeStep
<1>2. ASSUME ~raced' PROVE Quiet'
  <2>1. PutAlone' /\ OneMaker' /\ OwnCounters'
    BY <1>2, PutAloneStep, OneMakerStep, OwnCountersStep
  <2>2. \A z \in Names : Kept(z)'
    BY <1>2, KeptStep
  <2>3. QED
    BY <2>1, <2>2 DEF Quiet
<1>3. QED
  BY <1>1, <1>2

\* Type correctness.
THEOREM TypeCorrect == Spec => []TypeOK
<1>1. IInv => TypeOK
  BY DEF IInv
<1>2. QED
  BY <1>1, InvInit, InvStep, PTL DEF Spec

\* While calls do not race, a name has one counter, which its gauge reads.
THEOREM NamesHaveOneCounter == Spec => []OneCounter
<1>1. ASSUME IInv PROVE OneCounter
  <2> SUFFICES ASSUME ~raced PROVE OneCounter
    BY DEF OneCounter
  <2>1. OneMaker /\ OwnCounters
    BY <1>1 DEF IInv, Quiet
  <2>2. QED
    BY <2>1 DEF OneCounter, OneMaker, OwnCounters
<1>2. QED
  BY <1>1, InvInit, InvStep, PTL DEF Spec

\* While calls do not race, what was counted under a name was reported or is in its counter,
\* but for what intValue cut off: nothing if every count read was an int, and otherwise a
\* multiple of the width of int.  This is so whatever the readers do.
THEOREM NoCountLost == Spec => []CountsKept
<1>1. IInv => CountsKept
  BY DEF IInv, Quiet, Kept, Rest, CountsKept
<1>2. QED
  BY <1>1, InvInit, InvStep, PTL DEF Spec
-------------------------------------------------------------------------------
\* A name gets to use a counter only in the call that makes it.
LEMMA UsesStep ==
  ASSUME TypeOK, Made, [Next]_vars, NEW x \in Names, NEW c \in Counters, Uses(x, c)'
  PROVE  \/ Uses(x, c)
         \/ c = calls + 1 /\ \E u \in Users : NotFound(u, x)
<1> USE ConstantsAssumption DEF TypeOK, Uses, Goto, Counters, history
<1>1. ASSUME NEW u \in Users, NEW y \in Names, Found(u, y) PROVE Uses(x, c)
  BY <1>1 DEF Found, Calls
<1>2. ASSUME NEW u \in Users, NEW y \in Names, NotFound(u, y), ~Uses(x, c)
      PROVE c = calls + 1 /\ x = y
  BY <1>2 DEF NotFound, Calls
<1>3. ASSUME NEW u \in Users, Put(u) PROVE Uses(x, c)
  BY <1>3 DEF Put
<1>4. ASSUME NEW u \in Users, LookForGauge(u) PROVE Uses(x, c)
  BY <1>4 DEF LookForGauge
<1>5. ASSUME NEW u \in Users, Register(u) PROVE Uses(x, c)
  BY <1>5 DEF Register
<1>6. ASSUME NEW u \in Users, RegisterThrows(u) PROVE Uses(x, c)
  BY <1>6 DEF RegisterThrows
<1>7. ASSUME NEW u \in Users, Inc(u) PROVE Uses(x, c)
  BY <1>7 DEF Inc
<1>8. ASSUME NEW r \in Readers, NEW y \in Names, GetCount(r, y) PROVE Uses(x, c)
  BY <1>8 DEF GetCount
<1>9. ASSUME NEW r \in Readers, TakeOff(r) PROVE Uses(x, c)
  BY <1>9 DEF TakeOff, Returns
<1>10. CASE UNCHANGED vars
  BY <1>10 DEF vars
<1>11. QED
  BY <1>1, <1>2, <1>3, <1>4, <1>5, <1>6, <1>7, <1>8, <1>9, <1>10 DEF Next, UserStep, ReaderStep

\* Nobody uses a counter that is not made yet.
LEMMA NewIsUnused ==
  ASSUME TypeOK, Made, calls < MaxCalls
  PROVE  /\ calls + 1 \in Counters
         /\ value[calls + 1] = 0
         /\ \A x \in Names : ~Uses(x, calls + 1)
<1> USE ConstantsAssumption DEF TypeOK, Made, Counters
<1>1. calls \in Nat /\ calls + 1 \in Counters /\ calls + 1 # None
  OBVIOUS
<1>2. value[calls + 1] = 0
  BY <1>1
<1>3. ASSUME NEW x \in Names PROVE counters[x] # calls + 1 /\ gauge[x] # calls + 1
  <2>1. counters[x] = None \/ (counters[x] \in Int /\ counters[x] <= calls)
    OBVIOUS
  <2>2. gauge[x] = None \/ (gauge[x] \in Int /\ gauge[x] <= calls)
    OBVIOUS
  <2>3. QED
    BY <1>1, <2>1, <2>2
<1>4. ASSUME NEW u \in Users PROVE held[u] # calls + 1
  <2>1. held[u] = None \/ (held[u] \in Int /\ held[u] <= calls)
    OBVIOUS
  <2>2. QED
    BY <1>1, <2>1
<1>5. QED
  BY <1>1, <1>2, <1>3, <1>4 DEF Uses

LEMMA OwnedStep ==
  ASSUME TypeOK, Made, Owned, [Next]_vars
  PROVE  Owned'
<1> SUFFICES ASSUME NEW c \in Counters, NEW x \in Names, NEW y \in Names, Uses(x, c)', Uses(y, c)'
             PROVE  x = y
  BY DEF Owned, Counters
<1>1. CASE Uses(x, c) /\ Uses(y, c)
  BY <1>1 DEF Owned
<1>2. CASE c = calls + 1 /\ \E u \in Users : NotFound(u, x) \/ NotFound(u, y)
  <2>1. PICK u \in Users, z \in Names : NotFound(u, z)
    BY <1>2
  <2>2. calls < MaxCalls /\ calls' = calls + 1 /\ UNCHANGED <<counters, gauge>>
        /\ name' = [name EXCEPT ![u] = z]
    BY <2>1 DEF NotFound, Calls
  <2>3. ~Uses(x, c) /\ ~Uses(y, c)
    BY <1>2, <2>2, NewIsUnused
  <2>4. held' = [held EXCEPT ![u] = calls + 1]
    BY <2>1 DEF NotFound
  <2>5. x = z /\ y = z
    BY <2>2, <2>3, <2>4 DEF Uses, TypeOK
  <2>6. QED
    BY <2>5
<1>3. QED
  BY <1>1, <1>2, UsesStep

\* The counter of a gauge, of the map and in hand belong to their names.
LEMMA InUse ==
  ASSUME TypeOK
  PROVE  /\ \A x \in Names : gauge[x] # None => gauge[x] \in Counters /\ Uses(x, gauge[x])
         /\ \A u \in Users : pc[u] # "idle" =>
               /\ name[u] \in Names /\ held[u] \in Counters
               /\ Uses(name[u], held[u])
  BY DEF TypeOK, Uses

LEMMA WithinStep ==
  ASSUME TypeOK, TypeOK', Made, Owned, ~Shared', ~Shared => Within, [Next]_vars
  PROVE  Within'
<1>0. ~Shared /\ Within
  <2>1. Shared => Shared'
    <3>1. ASSUME NEW u \in Users, NEW x \in Names, Found(u, x) \/ NotFound(u, x) PROVE overlaps' = overlaps
      BY <3>1 DEF Found, NotFound, Calls
    <3>2. ASSUME NEW u \in Users, UserStep(u) PROVE overlaps' = overlaps
      BY <3>2 DEF UserStep, Put, LookForGauge, Register, RegisterThrows, Inc
    <3>3. ASSUME NEW r \in Readers, ReaderStep(r) PROVE Shared => Shared'
      BY <3>3 DEF ReaderStep, GetCount, TakeOff, Returns, Shared, TypeOK
    <3>4. CASE UNCHANGED vars
      BY <3>4 DEF vars, Shared
    <3>5. QED
      BY <3>1, <3>2, <3>3, <3>4 DEF Next, Shared
  <2>2. QED
    BY <2>1
<1>a. value \in [Counters -> Int] /\ reported \in [Names -> Int] /\ counted \in [Names -> Nat]
      /\ value' \in [Counters -> Int] /\ reported' \in [Names -> Int] /\ counted' \in [Names -> Nat]
      /\ gauge \in [Names -> Counters \cup {None}] /\ read \in [Readers -> Int]
      /\ reading \in [Readers -> Names \cup {None}] /\ None \notin Names \cup Counters
  BY ConstantsAssumption DEF TypeOK
\* A step that leaves counts and reports alone and gives no name a counter that has counted.
<1>b. ASSUME UNCHANGED <<gauge, value, reading, read, history>>,
             \A x \in Names : \A c \in Counters : Uses(x, c)' => Uses(x, c) \/ value[c] = 0
      PROVE  Within'
  <2>1. \A c \in Counters : value'[c] >= 0
    BY <1>0, <1>b DEF Within
  <2>2. ReadBacked'
    BY <1>0, <1>b DEF Within, ReadBacked
  <2>3. ASSUME NEW x \in Names PROVE Budget(x)'
    <3>1. Budget(x)
      BY <1>0 DEF Within
    <3>2. CASE gauge[x] = None
      BY <1>a, <1>b, <3>1, <3>2 DEF Budget, history
    <3>3. CASE gauge[x] # None
      BY <1>b, <3>1, <3>3 DEF Budget, history
    <3>4. QED
      BY <3>2, <3>3
  <2>4. QED
    BY <2>1, <2>2, <2>3 DEF Within, Counters
<1>c. ASSUME \A u \in Users, x \in Names : ~NotFound(u, x)
      PROVE  \A x \in Names : \A c \in Counters : Uses(x, c)' => Uses(x, c)
  BY <1>c, UsesStep
<1>1. ASSUME NEW u \in Users, NEW x \in Names, Found(u, x) \/ NotFound(u, x) PROVE Within'
  <2>1. calls < MaxCalls /\ UNCHANGED <<gauge, value, reading, read, history>>
    BY <1>1 DEF Found, NotFound, Calls
  <2>2. value[calls + 1] = 0
    BY <2>1, NewIsUnused
  <2>3. QED
    BY <1>b, <2>1, <2>2, UsesStep
<1>2. ASSUME NEW u \in Users, Put(u) \/ LookForGauge(u) \/ RegisterThrows(u) PROVE Within'
  <2>1. UNCHANGED <<gauge, value, reading, read, history, calls>>
    BY <1>2 DEF Put, LookForGauge, RegisterThrows
  <2>2. \A v \in Users, x \in Names : ~NotFound(v, x)
    BY <2>1 DEF NotFound, Calls, TypeOK
  <2>3. QED
    BY <1>b, <1>c, <2>1, <2>2
<1>3. ASSUME NEW u \in Users, Register(u) PROVE Within'
  <2>1. /\ pc[u] = "registering" /\ gauge[name[u]] = None
        /\ gauge' = [gauge EXCEPT ![name[u]] = held[u]]
        /\ UNCHANGED <<counters, value, calls, name, held, reading, read, history>>
    BY <1>3 DEF Register
  <2>2. name[u] \in Names /\ held[u] \in Counters /\ Uses(name[u], held[u])
    BY <2>1, InUse
  <2>3. \A c \in Counters : value'[c] >= 0
    BY <1>0, <2>1 DEF Within
  <2>4. \A r \in Readers : reading[r] # None => reading[r] # name[u] /\ gauge'[reading[r]] = gauge[reading[r]]
    BY <1>a, <2>1, <2>2 DEF Made
  <2>5. ReadBacked'
    BY <1>0, <2>1, <2>4 DEF Within, ReadBacked
  <2>6. ASSUME NEW x \in Names PROVE Budget(x)'
    <3>1. Budget(x)
      BY <1>0 DEF Within
    <3>2. CASE x = name[u]
      <4>1. reported[x] = 0 /\ value[held[u]] <= counted[x]
        BY <2>1, <2>2, <3>1, <3>2 DEF Budget
      <4>2. gauge'[x] = held[u] /\ gauge'[x] # None
        BY <1>a, <2>1, <2>2, <3>2
      <4>3. QED
        BY <1>a, <2>1, <2>2, <4>1, <4>2 DEF Budget, history
    <3>3. CASE x # name[u]
      <4>1. gauge'[x] = gauge[x] /\ UNCHANGED <<value, reported, counted>>
        BY <1>a, <2>1, <3>3 DEF history
      <4>2. \A c \in Counters : Uses(x, c)' => Uses(x, c)
        BY <2>1, <4>1 DEF Uses
      <4>3. QED
        BY <3>1, <4>1, <4>2 DEF Budget
    <3>4. QED
      BY <3>2, <3>3
  <2>7. QED
    BY <2>3, <2>5, <2>6 DEF Within, Counters
<1>4. ASSUME NEW u \in Users, Inc(u) PROVE Within'
  <2> DEFINE n == name[u]
             h == held[u]
  <2>1. /\ pc[u] = "counting"
        /\ value' = [value EXCEPT ![h] = @ + 1] /\ counted' = [counted EXCEPT ![n] = @ + 1]
        /\ UNCHANGED <<counters, gauge, calls, reading, read, reported>>
    BY <1>4 DEF Inc
  <2>2. n \in Names /\ h \in Counters /\ Uses(n, h)
    BY <2>1, InUse
  <2>3. /\ \A c \in Counters : value'[c] = IF c = h THEN value[c] + 1 ELSE value[c]
        /\ \A x \in Names : counted'[x] = IF x = n THEN counted[x] + 1 ELSE counted[x]
    BY <1>a, <2>1, <2>2
  <2>4. \A x \in Names : \A c \in Counters : Uses(x, c)' => Uses(x, c)
    <3>1. \A v \in Users, x \in Names : ~NotFound(v, x)
      BY <2>1 DEF NotFound, Calls, TypeOK
    <3>2. QED
      BY <1>c, <3>1
  <2>5. \A x \in Names : x # n => ~Uses(x, h)
    BY <2>2 DEF Owned
  <2> HIDE DEF n, h
  <2>6. \A c \in Counters : value'[c] >= 0
    BY <1>0, <1>a, <2>3 DEF Within
  <2>7. ReadBacked'
    <3>1. \A r \in Readers : reading[r] # None => gauge[reading[r]] \in Counters
      BY <1>a DEF Made
    <3>2. QED
      BY <1>0, <1>a, <2>1, <2>3, <3>1 DEF Within, ReadBacked
  <2>8. ASSUME NEW x \in Names PROVE Budget(x)'
    <3>1. Budget(x)
      BY <1>0 DEF Within
    <3>2. CASE gauge[x] = None
      <4>1. \A c \in Counters : Uses(x, c)' => value'[c] <= counted'[x]
        <5> SUFFICES ASSUME NEW c \in Counters, Uses(x, c)' PROVE value'[c] <= counted'[x]
          OBVIOUS
        <5>1. Uses(x, c) /\ value[c] <= counted[x]
          BY <2>4, <3>1, <3>2 DEF Budget
        <5>2. c = h => x = n
          BY <2>5, <5>1
        <5>3. QED
          BY <1>a, <2>3, <5>1, <5>2
      <4>2. QED
        BY <2>1, <3>1, <3>2, <4>1 DEF Budget, Counters
    <3>3. CASE gauge[x] # None
      <4>1. gauge[x] \in Counters /\ Uses(x, gauge[x]) /\ reported[x] + value[gauge[x]] <= counted[x]
        BY <3>1, <3>3, InUse DEF Budget
      <4>2. gauge[x] = h => x = n
        BY <2>5, <4>1
      <4>3. reported[x] + value'[gauge[x]] <= counted'[x]
        BY <1>a, <2>3, <4>1, <4>2
      <4>4. QED
        BY <2>1, <3>3, <4>3 DEF Budget
    <3>4. QED
      BY <3>2, <3>3
  <2>9. QED
    BY <2>6, <2>7, <2>8 DEF Within, Counters
<1>5. ASSUME NEW r \in Readers, NEW x \in Names, GetCount(r, x) PROVE Within'
  <2>1. /\ reading[r] = None /\ gauge[x] # None
        /\ reading' = [reading EXCEPT ![r] = x] /\ read' = [read EXCEPT ![r] = value[gauge[x]]]
        /\ UNCHANGED <<counters, gauge, value, calls, name, held, history>>
        /\ overlaps' = overlaps + IF \E s \in Readers : reading[s] = x THEN 1 ELSE 0
    BY <1>5 DEF GetCount
  <2>a. \A s \in Readers : reading[s] # x
    <3>1. overlaps \in Int /\ overlaps >= 0 /\ ~(overlaps' > 0)
      BY DEF TypeOK, Shared
    <3> QED
      BY <2>1, <3>1
  <2>2. \A c \in Counters : value'[c] >= 0
    BY <1>0, <2>1 DEF Within
  <2>3. ReadBacked'
    <3>1. \A s, t \in Readers : reading'[s] = reading'[t] /\ reading'[s] # None => s = t
      BY <1>0, <1>a, <2>1, <2>a DEF Within, ReadBacked
    <3>2. ASSUME NEW s \in Readers, reading'[s] # None PROVE 0 <= read'[s] /\ read'[s] <= value[gauge[reading'[s]]]
      <4>1. CASE s = r
        <5>1. /\ read'[s] = value[gauge[x]] /\ reading'[s] = x /\ value[gauge[x]] \in Int
              /\ value[gauge[x]] >= 0
          BY <1>0, <1>a, <2>1, <4>1 DEF Within
        <5>2. QED
          BY <5>1
      <4>2. CASE s # r
        BY <1>0, <1>a, <2>1, <3>2, <4>2 DEF Within, ReadBacked
      <4>3. QED
        BY <4>1, <4>2
    <3>3. QED
      BY <2>1, <3>1, <3>2 DEF ReadBacked
  <2>4. ASSUME NEW z \in Names PROVE Budget(z)'
    <3>1. Budget(z)
      BY <1>0 DEF Within
    <3>2. QED
      BY <2>1, <3>1 DEF Budget, history, Uses
  <2>5. QED
    BY <2>2, <2>3, <2>4 DEF Within, Counters
<1>6. ASSUME NEW r \in Readers, TakeOff(r) PROVE Within'
  <2> DEFINE n == reading[r]
             g == gauge[reading[r]]
  <2>1. /\ n # None
        /\ value' = [value EXCEPT ![g] = @ - read[r]]
        /\ reported' = [reported EXCEPT ![n] = @ + ToInt(read[r])]
        /\ reading' = [reading EXCEPT ![r] = None] /\ read' = [read EXCEPT ![r] = 0]
        /\ UNCHANGED <<counters, gauge, calls, name, held, counted>>
    BY <1>6 DEF TakeOff, Returns
  <2>2. n \in Names /\ g \in Counters /\ gauge[n] = g /\ g # None /\ Uses(n, g) /\ read[r] \in Int
    BY <1>a, <2>1, InUse DEF Made
  <2>3. /\ 0 <= read[r] /\ read[r] <= value[g]
        /\ ToInt(read[r]) \in Int /\ ToInt(read[r]) <= read[r]
    BY <1>0, <2>1, <2>2, Narrowing DEF Within, ReadBacked
  <2>4. /\ \A c \in Counters : value'[c] = IF c = g THEN value[c] - read[r] ELSE value[c]
        /\ \A x \in Names : reported'[x] = IF x = n THEN reported[x] + ToInt(read[r]) ELSE reported[x]
    <3>1. \A c \in Counters : value'[c] = IF c = g THEN value[c] - read[r] ELSE value[c]
      BY <1>a, <2>1, <2>2
    <3>2. \A x \in Names : reported'[x] = IF x = n THEN reported[x] + ToInt(read[r]) ELSE reported[x]
      BY <1>a, <2>1, <2>2
    <3>3. QED
      BY <3>1, <3>2
  <2>5. \A x \in Names : x # n => ~Uses(x, g)
    BY <2>2 DEF Owned
  <2>6. \A s \in Readers : s # r => reading[s] # n
    BY <1>0, <2>1 DEF Within, ReadBacked
  <2>7. \A s \in Readers : /\ s = r => reading'[s] = None
                           /\ s # r => reading'[s] = reading[s] /\ read'[s] = read[s]
    BY <1>a, <2>1
  <2>8. \A x \in Names : \A c \in Counters : Uses(x, c)' => Uses(x, c)
    BY <2>1 DEF Uses
  <2> HIDE DEF n, g
  <2>9. \A c \in Counters : value'[c] >= 0
    BY <1>0, <1>a, <2>2, <2>3, <2>4 DEF Within
  <2>10. ReadBacked'
    <3>1. \A s, t \in Readers : reading'[s] = reading'[t] /\ reading'[s] # None => s = t
      BY <1>0, <2>7 DEF Within, ReadBacked
    <3>2. ASSUME NEW s \in Readers, reading'[s] # None PROVE 0 <= read'[s] /\ read'[s] <= value'[gauge[reading'[s]]]
      <4>1. s # r /\ reading'[s] = reading[s] /\ read'[s] = read[s] /\ reading[s] \in Names /\ reading[s] # n
        BY <1>a, <2>6, <2>7, <3>2
      <4>2. gauge[reading[s]] # None /\ 0 <= read[s] /\ read[s] <= value[gauge[reading[s]]]
        BY <1>0, <3>2, <4>1 DEF Within, ReadBacked, Made
      <4>3. gauge[reading[s]] \in Counters /\ gauge[reading[s]] # g
        BY <2>5, <4>1, <4>2, InUse
      <4>4. QED
        BY <2>4, <4>1, <4>2, <4>3
    <3>3. QED
      BY <2>1, <3>1, <3>2 DEF ReadBacked
  <2>11. ASSUME NEW x \in Names PROVE Budget(x)'
    <3>1. Budget(x)
      BY <1>0 DEF Within
    <3>2. CASE gauge[x] = None
      <4>1. x # n
        BY <2>2, <3>2
      <4>2. ASSUME NEW c \in Counters, Uses(x, c)' PROVE value'[c] <= counted[x]
        <5>1. Uses(x, c) /\ value[c] <= counted[x]
          BY <2>8, <3>1, <3>2, <4>2 DEF Budget
        <5>2. c # g
          BY <2>5, <4>1, <5>1
        <5>3. QED
          BY <2>4, <5>1, <5>2
      <4>3. QED
        BY <2>1, <2>4, <3>1, <3>2, <4>1, <4>2 DEF Budget, Counters
    <3>3. CASE gauge[x] # None
      <4>1. gauge[x] \in Counters /\ Uses(x, gauge[x]) /\ reported[x] + value[gauge[x]] <= counted[x]
        BY <3>1, <3>3, InUse DEF Budget
      <4>2. gauge[x] = g <=> x = n
        BY <2>2, <2>5, <4>1
      <4>3. reported'[x] + value'[gauge[x]] <= counted[x]
        BY <1>a, <2>2, <2>3, <2>4, <4>1, <4>2
      <4>4. QED
        BY <2>1, <3>3, <4>3 DEF Budget
    <3>4. QED
      BY <3>2, <3>3
  <2>12. QED
    BY <2>9, <2>10, <2>11 DEF Within, Counters
<1>7. CASE UNCHANGED vars
  <2>1. UNCHANGED <<gauge, value, reading, read, history, counters, name, held>>
    BY <1>7 DEF vars
  <2>2. \A x \in Names : \A c \in Counters : Uses(x, c)' => Uses(x, c)
    BY <2>1 DEF Uses
  <2>3. QED
    BY <1>b, <2>1, <2>2
<1>8. QED
  BY <1>1, <1>2, <1>3, <1>4, <1>5, <1>6, <1>7 DEF Next, UserStep, ReaderStep

LEMMA ReportInit == Init => RInv
<1> SUFFICES ASSUME Init PROVE RInv
  OBVIOUS
<1> USE ConstantsAssumption DEF Init, Counters
<1>1. Owned
  BY DEF Owned, Uses
<1>2. Within
  BY DEF Within, ReadBacked, Budget
<1>3. QED
  BY <1>1, <1>2 DEF RInv

\* Whatever calls race, no increment is reported twice, as long as no two readers read one
\* gauge at once.
THEOREM NothingReportedTwice == Spec => []ReportedOnce
<1>1. Init => IInv /\ RInv
  BY InvInit, ReportInit
<1>2. IInv /\ RInv /\ [Next]_vars => IInv' /\ RInv'
  <2> SUFFICES ASSUME IInv, RInv, [Next]_vars PROVE IInv' /\ RInv'
    OBVIOUS
  <2>1. IInv' /\ TypeOK' /\ TypeOK /\ Made
    BY InvStep DEF IInv
  <2>2. Owned'
    BY <2>1, OwnedStep DEF RInv
  <2>3. ~Shared' => Within'
    BY <2>1, WithinStep DEF RInv
  <2>4. QED
    BY <2>1, <2>2, <2>3 DEF RInv
<1>3. ASSUME IInv, RInv PROVE ReportedOnce
  <2> SUFFICES ASSUME ~Shared, NEW x \in Names PROVE reported[x] <= counted[x]
    BY DEF ReportedOnce
  <2>1. Within /\ Budget(x)
    BY <1>3 DEF RInv, Within
  <2>2. counted[x] \in Nat /\ reported[x] \in Int
    BY <1>3 DEF IInv, TypeOK
  <2>3. CASE gauge[x] = None
    BY <2>1, <2>2, <2>3 DEF Budget
  <2>4. CASE gauge[x] # None
    <3>1. gauge[x] \in Counters
      BY <1>3, <2>4 DEF IInv, TypeOK
    <3>2. value[gauge[x]] \in Int /\ value[gauge[x]] >= 0
      BY <1>3, <2>1, <3>1 DEF IInv, TypeOK, Within
    <3>3. QED
      BY <2>1, <2>2, <2>4, <3>2 DEF Budget
  <2>5. QED
    BY <2>3, <2>4
<1>4. QED
  BY <1>1, <1>2, <1>3, PTL DEF Spec
===============================================================================
