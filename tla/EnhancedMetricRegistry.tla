------------------------ MODULE EnhancedMetricRegistry ------------------------
(***************************************************************************)
(* EnhancedMetricRegistry: threads count under names, each name has a      *)
(* counter in a HashMap and a gauge in the registry, and whoever reads the *)
(* gauge takes what it reads off the counter.  Nothing is synchronised     *)
(* but the counters and the registry themselves.  Counters are longs; the  *)
(* gauge takes the whole count off and returns it as an int.               *)
(***************************************************************************)
EXTENDS JavaInt

CONSTANTS Users,      \* threads that count
          Readers,    \* threads that read gauges
          Names,
          None,
          MaxCalls,   \* bound: calls of counter
          MaxOverlaps \* bound: reads that overlap another read of the gauge

Counters == 1 .. MaxCalls

ASSUME ConstantsAssumption ==
    /\ MaxCalls \in Nat
    /\ MaxOverlaps \in Nat
    /\ None \notin Names \cup Counters

VARIABLES counters,   \* counters[x]: the counter the map has for name x, or None
          gauge,      \* gauge[x]: the counter that the gauge registered as x reads, or None
          value,      \* value[c]: the count of counter c
          calls,      \* how often counter was called; the call that makes c is the c-th
          pc,         \* pc[u]: where thread u is
          name,       \* name[u]: the name u counts under, or None
          held,       \* held[u]: the counter u has in hand, or None
          reading,    \* reading[r]: the name whose gauge r is reading, or None
          read,       \* read[r]: the count r has read and not yet taken off
          \* history:
          counted,    \* counted[x]: how often inc was called under x
          reported,   \* reported[x]: the sum of what readers of x were told
          narrowed,   \* the names of which a reader took a count that is no int
          raced,      \* did a call begin while the map was being changed?
          overlaps    \* reads that began while another reader read the gauge

history == <<counted, reported, narrowed>>
vars == <<counters, gauge, value, calls, pc, name, held, reading, read, history, raced, overlaps>>

TypeOK ==
    /\ counters \in [Names -> Counters \cup {None}]
    /\ gauge \in [Names -> Counters \cup {None}]
    /\ value \in [Counters -> Int]
    /\ calls \in 0 .. MaxCalls
    /\ pc \in [Users -> {"idle", "putting", "looking", "registering", "counting"}]
    /\ name \in [Users -> Names \cup {None}]
    /\ held \in [Users -> Counters \cup {None}]
    /\ \A u \in Users : (pc[u] = "idle" <=> name[u] = None) /\ (pc[u] = "idle" <=> held[u] = None)
    /\ reading \in [Readers -> Names \cup {None}]
    /\ read \in [Readers -> Int]
    /\ counted \in [Names -> Nat]
    /\ reported \in [Names -> Int]
    /\ narrowed \in SUBSET Names
    /\ raced \in BOOLEAN
    /\ overlaps \in 0 .. MaxOverlaps

Init ==
    /\ counters = [x \in Names |-> None]
    /\ gauge = [x \in Names |-> None]
    /\ value = [c \in Counters |-> 0]
    /\ calls = 0
    /\ pc = [u \in Users |-> "idle"]
    /\ name = [u \in Users |-> None]
    /\ held = [u \in Users |-> None]
    /\ reading = [r \in Readers |-> None]
    /\ read = [r \in Readers |-> 0]
    /\ counted = [x \in Names |-> 0]
    /\ reported = [x \in Names |-> 0]
    /\ narrowed = {}
    /\ raced = FALSE
    /\ overlaps = 0

-------------------------------------------------------------------------------
Goto(u, l) == pc' = [pc EXCEPT ![u] = l]

\* A call of counter, whatever it finds.
Calls(u, x) ==
    /\ pc[u] = "idle"
    /\ calls < MaxCalls
    /\ calls' = calls + 1
    /\ name' = [name EXCEPT ![u] = x]
    /\ raced' = (raced \/ \E v \in Users : pc[v] = "putting")
    /\ UNCHANGED <<counters, gauge, value, reading, read, history, overlaps>>

\* counter: the map has a counter of that name,
Found(u, x) ==
    /\ Calls(u, x)
    /\ counters[x] # None
    /\ held' = [held EXCEPT ![u] = counters[x]]
    /\ Goto(u, "counting")

\* or it has none, or does not show it while another thread changes the map.
NotFound(u, x) ==
    /\ Calls(u, x)
    /\ counters[x] = None \/ \E v \in Users : pc[v] = "putting"
    /\ held' = [held EXCEPT ![u] = calls + 1]
    /\ Goto(u, "putting")

\* Mutant of Put: the counter does not get into the map.
PutForgotten(u) ==
    /\ pc[u] = "putting"
    /\ Goto(u, "looking")
    /\ UNCHANGED <<counters, gauge, value, calls, name, held, reading, read, history, raced, overlaps>>

\* counters.put.  Of two at a time one may get lost.
Put(u) ==
    /\ pc[u] = "putting"
    /\ \/ counters' = [counters EXCEPT ![name[u]] = held[u]]
       \/ (\E v \in Users \ {u} : pc[v] = "putting") /\ UNCHANGED counters
    /\ Goto(u, "looking")
    /\ UNCHANGED <<gauge, value, calls, name, held, reading, read, history, raced, overlaps>>

\* registerGuage: is the name taken?
LookForGauge(u) ==
    /\ pc[u] = "looking"
    /\ Goto(u, IF gauge[name[u]] # None THEN "counting" ELSE "registering")
    /\ UNCHANGED <<counters, gauge, value, calls, name, held, reading, read, history, raced, overlaps>>

\* register,
Register(u) ==
    /\ pc[u] = "registering"
    /\ gauge[name[u]] = None
    /\ gauge' = [gauge EXCEPT ![name[u]] = held[u]]
    /\ Goto(u, "counting")
    /\ UNCHANGED <<counters, value, calls, name, held, reading, read, history, raced, overlaps>>

\* which throws if the name has been taken since.
RegisterThrows(u) ==
    /\ pc[u] = "registering"
    /\ gauge[name[u]] # None
    /\ Goto(u, "idle")
    /\ name' = [name EXCEPT ![u] = None]
    /\ held' = [held EXCEPT ![u] = None]
    /\ UNCHANGED <<counters, gauge, value, calls, reading, read, history, raced, overlaps>>

\* The caller increments the counter that it was given.
Inc(u) ==
    /\ pc[u] = "counting"
    /\ value' = [value EXCEPT ![held[u]] = @ + 1]
    /\ counted' = [counted EXCEPT ![name[u]] = @ + 1]
    /\ Goto(u, "idle")
    /\ name' = [name EXCEPT ![u] = None]
    /\ held' = [held EXCEPT ![u] = None]
    /\ UNCHANGED <<counters, gauge, calls, reading, read, reported, narrowed, raced, overlaps>>

\* The gauge reads its counter,
GetCount(r, x) ==
    /\ reading[r] = None
    /\ gauge[x] # None
    /\ reading' = [reading EXCEPT ![r] = x]
    /\ read' = [read EXCEPT ![r] = value[gauge[x]]]
    /\ overlaps' = overlaps + IF \E s \in Readers : reading[s] = x THEN 1 ELSE 0
    /\ overlaps' <= MaxOverlaps
    /\ UNCHANGED <<counters, gauge, value, calls, pc, name, held, history, raced>>

\* The gauge of r returns n as an int, whose low bits are those of n.
Returns(r, n) ==
    /\ reported' = [reported EXCEPT ![reading[r]] = @ + ToInt(n)]
    /\ narrowed' = narrowed \cup IF n \in Ints THEN {} ELSE {reading[r]}
    /\ reading' = [reading EXCEPT ![r] = None]
    /\ read' = [read EXCEPT ![r] = 0]
    /\ UNCHANGED <<counters, gauge, calls, pc, name, held, counted, raced, overlaps>>

\* Mutant of TakeOff: the counter is set to 0.
TakeOffAll(r) ==
    /\ reading[r] # None
    /\ value' = [value EXCEPT ![gauge[reading[r]]] = 0]
    /\ Returns(r, read[r])

\* Mutant of TakeOff: the counter is left as it is.
TakeOffNothing(r) ==
    /\ reading[r] # None
    /\ Returns(r, read[r])
    /\ UNCHANGED value

\* Mutant of TakeOff: it returns what is left in the counter.
TakeOffReturnsRest(r) ==
    /\ reading[r] # None
    /\ value' = [value EXCEPT ![gauge[reading[r]]] = @ - read[r]]
    /\ Returns(r, value[gauge[reading[r]]] - read[r])

\* takes off all that it has read, and returns that.
TakeOff(r) ==
    /\ reading[r] # None
    /\ value' = [value EXCEPT ![gauge[reading[r]]] = @ - read[r]]
    /\ Returns(r, read[r])
-------------------------------------------------------------------------------
UserStep(u) == Put(u) \/ LookForGauge(u) \/ Register(u) \/ RegisterThrows(u) \/ Inc(u)

ReaderStep(r) == (\E x \in Names : GetCount(r, x)) \/ TakeOff(r)

Next ==
    \/ \E u \in Users : UserStep(u) \/ \E x \in Names : Found(u, x) \/ NotFound(u, x)
    \/ \E r \in Readers : ReaderStep(r)

Spec == Init /\ [][Next]_vars

\* Threads run, and every gauge is read again and again.
Fairness ==
    /\ \A u \in Users : WF_vars(UserStep(u))
    /\ \A r \in Readers : WF_vars(TakeOff(r))
    /\ \A x \in Names : SF_vars(\E r \in Readers : GetCount(r, x))

FairSpec == Spec /\ Fairness
-------------------------------------------------------------------------------
\* Unless a call began while another thread was putting a counter into the map, every call
\* of counter returns the counter of the name, no call throws, and the gauge of the name
\* reads that counter.
OneCounter ==
    ~raced =>
        /\ \A u \in Users : pc[u] \in {"looking", "registering", "counting"} =>
              counters[name[u]] = held[u]
        /\ \A u \in Users : pc[u] = "registering" => gauge[name[u]] = None
        /\ \A x \in Names : gauge[x] \in {None, counters[x]}

\* n counts under x were taken off and not returned: a multiple of the width of int, and
\* none unless a reader took a count that is no int.
CutOff(x, n) == n % Width = 0 /\ (x \notin narrowed => n = 0)

InCounter(x) == IF counters[x] = None THEN 0 ELSE value[counters[x]]

\* What was counted under a name was reported or is in the counter of the name, up to what
\* intValue cuts off counts beyond int, however reads interleave with increments and with
\* each other, unless calls raced.
CountsKept ==
    ~raced => \A x \in Names : CutOff(x, counted[x] - reported[x] - InCounter(x))

\* Two readers have read one gauge at once.
Shared == overlaps > 0

\* Whatever calls of counter race, no increment is reported twice unless two readers
\* read the gauge at once.
ReportedOnce == ~Shared => \A x \in Names : reported[x] <= counted[x]

\* Everything that is counted is reported in the end, up to what intValue cuts off counts
\* beyond int, if calls never race and reads never overlap.
AllReported ==
    [](~raced /\ ~Shared) => <>[](\A x \in Names : CutOff(x, counted[x] - reported[x]))
===============================================================================
