------------------------- MODULE AtomicExecutorProofs -------------------------
(***************************************************************************)
(* Proofs about AtomicExecutor, for any number of threads and keys, any    *)
(* retry limit and any nesting depth.  The invariant of one thread's calls *)
(* holds whatever redis does; that a block is alone on its key needs the   *)
(* assumption that no block outlives the lease of its lock.                *)
(***************************************************************************)
EXTENDS AtomicExecutor, SequenceTheorems, TLAPS

\* No block outlives its lease.
Timely == Slow = {}

\* Some call of the sequence s locked k.
Locked(s, k) == \E i \in DOMAIN s : s[i].key = k /\ s[i].owner

\* A key is locked at most once in s.
Once(s) ==
    \A i, j \in DOMAIN s :
        s[i].owner /\ s[j].owner /\ s[i].key = s[j].key => i = j

\* Every call of s is preceded by, or is, the one that locked its key.
Inside(s) ==
    \A i \in DOMAIN s : \E j \in 1 .. i : s[j].key = s[i].key /\ s[j].owner

\* The thread acquires a key it has not locked, or releases the key its last
\* call locked, and its thread-local set is what its calls say.
ThreadOK(t) ==
    /\ pc[t] = "locking" => wants[t] \in Keys /\ wants[t] \notin locks[t]
    /\ pc[t] = "releasing" => calls[t] # << >> /\ Last(calls[t]).owner
    /\ Once(calls[t])
    /\ Inside(calls[t])
    /\ \A k \in Keys :
        k \in locks[t] <=>
            /\ Locked(calls[t], k)
            /\ ~(pc[t] = "releasing" /\ Last(calls[t]).key = k)

CallsInv == TypeOK /\ \A t \in Threads : ThreadOK(t)

-------------------------------------------------------------------------------
\* What a call that starts its function adds to the calls of its thread.
LEMMA PushCall ==
    ASSUME NEW s \in Seq(Call), NEW c \in Call, NEW r, r = Append(s, c)
    PROVE  /\ r \in Seq(Call)
           /\ r # << >>
           /\ Last(r) = c
           /\ \A k : Locked(r, k) <=> Locked(s, k) \/ (c.key = k /\ c.owner)
           /\ Once(s) /\ (c.owner => ~Locked(s, c.key)) => Once(r)
           /\ Inside(s) /\ (c.owner \/ Locked(s, c.key)) => Inside(r)
<1> DEFINE n == Len(s)
<1>1. n \in Nat /\ DOMAIN s = 1 .. n
  BY LenProperties
<1>2. /\ r \in Seq(Call) /\ r # << >> /\ Len(r) = n + 1
      /\ \A i \in 1 .. n : r[i] = s[i]
      /\ r[n + 1] = c
  BY AppendProperties
<1>3. DOMAIN r = 1 .. n + 1
  BY <1>2, LenProperties
<1>4. Last(r) = c
  BY <1>2 DEF Last
<1> HIDE DEF n
<1>5. ASSUME NEW k
      PROVE  Locked(r, k) <=> Locked(s, k) \/ (c.key = k /\ c.owner)
  <2>1. DOMAIN r = DOMAIN s \cup {n + 1}
    BY <1>1, <1>3
  <2>2. \A i \in DOMAIN s : r[i] = s[i]
    BY <1>1, <1>2
  <2> QED
    BY <2>1, <2>2, <1>2 DEF Locked
<1>6. ASSUME Once(s), c.owner => ~Locked(s, c.key)
      PROVE  Once(r)
  BY <1>1, <1>2, <1>3, <1>6 DEF Once, Locked
<1>7. ASSUME Inside(s), c.owner \/ Locked(s, c.key)
      PROVE  Inside(r)
  <2> SUFFICES ASSUME NEW i \in 1 .. n + 1
               PROVE  \E j \in 1 .. i : r[j].key = r[i].key /\ r[j].owner
    BY <1>3 DEF Inside
  <2>1. CASE i \in 1 .. n
    <3>1. PICK j \in 1 .. i : s[j].key = s[i].key /\ s[j].owner
      BY <1>1, <1>7, <2>1 DEF Inside
    <3>2. j \in 1 .. n
      BY <1>1, <2>1
    <3> QED
      BY <3>1, <3>2, <1>2, <2>1
  <2>2. CASE i = n + 1 /\ c.owner
    BY <1>1, <1>2, <2>2
  <2>3. CASE i = n + 1 /\ Locked(s, c.key)
    <3>1. PICK j \in 1 .. n : s[j].key = c.key /\ s[j].owner
      BY <1>1, <2>3 DEF Locked
    <3>2. j \in 1 .. i
      BY <1>1, <2>3
    <3> QED
      BY <3>1, <3>2, <1>2, <2>3
  <2> QED
    BY <1>1, <1>7, <2>1, <2>2, <2>3
<1> QED
  BY <1>2, <1>4, <1>5, <1>6, <1>7

\* What the end of the innermost call takes away.
LEMMA PopCall ==
    ASSUME NEW s \in Seq(Call), s # << >>, NEW r, r = Front(s)
    PROVE  /\ r \in Seq(Call)
           /\ Last(s) \in Call
           /\ Locked(s, Last(s).key) <=> Locked(r, Last(s).key) \/ Last(s).owner
           /\ \A k : k # Last(s).key => (Locked(r, k) <=> Locked(s, k))
           /\ Once(s) => Once(r)
           /\ Once(s) /\ Last(s).owner => ~Locked(r, Last(s).key)
           /\ Inside(s) => Inside(r)
<1> DEFINE n == Len(s)
<1>1. n \in Nat \ {0} /\ DOMAIN s = 1 .. n
  BY LenProperties, EmptySeq
<1>2. \A i \in 1 .. n : s[i] \in Call
  BY ElementOfSeq
<1> HIDE DEF n
<1>3. /\ r \in Seq(Call)
      /\ Len(r) = n - 1
      /\ \A i \in 1 .. n - 1 : r[i] = s[i]
  <2>1. r = SubSeq(s, 1, n - 1)
    BY DEF Front, n
  <2>2. \A i \in 1 .. n - 1 : s[i] \in Call
    BY <1>1, <1>2
  <2>3. /\ SubSeq(s, 1, n - 1) \in Seq(Call)
        /\ Len(SubSeq(s, 1, n - 1)) = IF 1 <= n - 1 THEN n - 1 - 1 + 1 ELSE 0
        /\ \A i \in 1 .. n - 1 - 1 + 1 : SubSeq(s, 1, n - 1)[i] = s[1 + i - 1]
    <3>1. 1 \in Int /\ n - 1 \in Int
      BY <1>1
    <3> QED
      BY <3>1, <2>2, SubSeqProperties
  <2> QED
    BY <1>1, <2>1, <2>3
<1>4. DOMAIN r = 1 .. n - 1
  BY <1>3, LenProperties
<1>5. Last(s) = s[n] /\ Last(s) \in Call
  BY <1>1, <1>2 DEF Last, n
<1>6. DOMAIN s = DOMAIN r \cup {n} /\ n \notin DOMAIN r
  BY <1>1, <1>4
<1>7. \A i \in DOMAIN r : r[i] = s[i]
  BY <1>3, <1>4
<1>8. \A k : Locked(s, k) <=> Locked(r, k) \/ (Last(s).key = k /\ Last(s).owner)
  BY <1>5, <1>6, <1>7 DEF Locked
<1>9. Once(s) => Once(r)
  BY <1>6, <1>7 DEF Once
<1>10. Once(s) /\ Last(s).owner => ~Locked(r, Last(s).key)
  BY <1>5, <1>6, <1>7 DEF Once, Locked
<1>11. ASSUME Inside(s) PROVE Inside(r)
  <2> SUFFICES ASSUME NEW i \in 1 .. n - 1
               PROVE  \E j \in 1 .. i : r[j].key = r[i].key /\ r[j].owner
    BY <1>4 DEF Inside
  <2>1. PICK j \in 1 .. i : s[j].key = s[i].key /\ s[j].owner
    BY <1>1, <1>11 DEF Inside
  <2>2. j \in 1 .. n - 1
    BY <1>1
  <2> QED
    BY <2>1, <2>2, <1>3
<1> QED
  BY <1>3, <1>5, <1>8, <1>9, <1>10, <1>11

-------------------------------------------------------------------------------
\* A step that leaves the state of a thread alone leaves its invariant alone.
LEMMA Untouched ==
    ASSUME NEW t, ThreadOK(t),
           calls'[t] = calls[t], pc'[t] = pc[t],
           wants'[t] = wants[t], locks'[t] = locks[t]
    PROVE  ThreadOK(t)'
<1>1. Once(calls[t])' <=> Once(calls'[t])
  BY DEF Once
<1>2. Inside(calls[t])' <=> Inside(calls'[t])
  BY DEF Inside
<1>3. \A k : Locked(calls[t], k)' <=> Locked(calls'[t], k)
  BY DEF Locked
<1>4. Last(calls[t])' = Last(calls[t])
  BY DEF Last
<1> QED
  BY <1>1, <1>2, <1>3, <1>4 DEF ThreadOK

\* The state of every thread but t is left alone.
OthersUntouched(t) ==
    \A u \in Threads \ {t} :
        /\ calls'[u] = calls[u]
        /\ pc'[u] = pc[u]
        /\ wants'[u] = wants[u]
        /\ locks'[u] = locks[u]

LEMMA ExecuteReentrantInv ==
    ASSUME CallsInv, NEW t \in Threads, NEW k \in Keys, ExecuteReentrant(t, k)
    PROVE  TypeOK' /\ ThreadOK(t)' /\ OthersUntouched(t)
<1> DEFINE c == [key |-> k, owner |-> FALSE]
<1> USE DEF CallsInv
<1>1. calls[t] \in Seq(Call) /\ c \in Call
  BY DEF TypeOK, Call
<1>2. /\ calls'[t] = Append(calls[t], c)
      /\ calls' = [calls EXCEPT ![t] = Append(@, c)]
      /\ pc[t] = "running"
      /\ UNCHANGED <<redis, locks, pc, wants, attempts>>
  BY DEF ExecuteReentrant, Push, TypeOK
<1> HIDE DEF c
<1>3. /\ calls'[t] \in Seq(Call)
      /\ \A j : Locked(calls'[t], j)
                <=> Locked(calls[t], j) \/ (c.key = j /\ c.owner)
      /\ Once(calls[t]) /\ (c.owner => ~Locked(calls[t], c.key)) => Once(calls'[t])
      /\ Inside(calls[t]) /\ (c.owner \/ Locked(calls[t], c.key)) => Inside(calls'[t])
  BY <1>1, <1>2, PushCall
<1>4. ~c.owner /\ c.key = k /\ Locked(calls[t], k)
  BY DEF c, ExecuteReentrant, ThreadOK
<1>5. TypeOK'
  BY <1>2, <1>3 DEF TypeOK
<1>6. ThreadOK(t)'
  BY <1>2, <1>3, <1>4 DEF ThreadOK
<1> QED
  BY <1>2, <1>5, <1>6 DEF OthersUntouched, TypeOK

LEMMA ExecuteLockingInv ==
    ASSUME CallsInv, NEW t \in Threads, NEW k \in Keys, ExecuteLocking(t, k)
    PROVE  TypeOK' /\ ThreadOK(t)' /\ OthersUntouched(t)
<1> USE DEF CallsInv, ExecuteLocking
<1>1. TypeOK'
  BY DEF TypeOK
<1>2. /\ pc'[t] = "locking" /\ pc[t] = "running"
      /\ wants'[t] = k /\ k \notin locks'[t]
      /\ locks'[t] = locks[t]
      /\ calls' = calls
  BY DEF TypeOK
<1>3. ThreadOK(t)'
  BY <1>2 DEF ThreadOK
<1>4. OthersUntouched(t)
  BY DEF OthersUntouched, TypeOK
<1> QED
  BY <1>1, <1>3, <1>4

LEMMA LockAcquiredInv ==
    ASSUME CallsInv, NEW t \in Threads, LockAcquired(t)
    PROVE  TypeOK' /\ ThreadOK(t)' /\ OthersUntouched(t)
<1> DEFINE k == wants[t]
           c == [key |-> k, owner |-> TRUE]
<1> USE DEF CallsInv
<1>1. k \in Keys /\ k \notin locks[t] /\ pc[t] = "locking"
  BY DEF ThreadOK, LockAcquired
<1>2. calls[t] \in Seq(Call) /\ c \in Call
  BY <1>1 DEF TypeOK, Call
<1>3. /\ calls'[t] = Append(calls[t], c)
      /\ calls' = [calls EXCEPT ![t] = Append(@, c)]
      /\ locks' = [locks EXCEPT ![t] = @ \cup {k}]
      /\ redis' = [redis EXCEPT ![k] = t]
      /\ pc' = [pc EXCEPT ![t] = "running"]
      /\ wants' = [wants EXCEPT ![t] = None]
      /\ attempts' = [attempts EXCEPT ![t] = 0]
  BY DEF LockAcquired, Push, StopLocking, TypeOK
<1>4. ~Locked(calls[t], k)
  BY <1>1 DEF ThreadOK
<1>5. c.owner /\ c.key = k
  OBVIOUS
<1> HIDE DEF c, k
<1>6. /\ calls'[t] \in Seq(Call)
      /\ \A j : Locked(calls'[t], j)
                <=> Locked(calls[t], j) \/ (c.key = j /\ c.owner)
      /\ Once(calls[t]) /\ (c.owner => ~Locked(calls[t], c.key)) => Once(calls'[t])
      /\ Inside(calls[t]) /\ (c.owner \/ Locked(calls[t], c.key)) => Inside(calls'[t])
  BY <1>2, <1>3, PushCall
<1>7. TypeOK'
  BY <1>1, <1>3, <1>6, ConstantsAssumption DEF TypeOK
<1>8. ThreadOK(t)'
  <2>1. pc'[t] = "running" /\ locks'[t] = locks[t] \cup {k}
    BY <1>3 DEF TypeOK
  <2>2. Once(calls'[t]) /\ Inside(calls'[t])
    BY <1>4, <1>5, <1>6 DEF ThreadOK
  <2>3. \A j \in Keys : j \in locks'[t] <=> Locked(calls'[t], j)
    BY <1>1, <1>5, <1>6, <2>1 DEF ThreadOK
  <2> QED
    BY <2>1, <2>2, <2>3 DEF ThreadOK
<1> QED
  BY <1>3, <1>7, <1>8 DEF OthersUntouched, TypeOK

\* Both ways in which a thread stops acquiring without the lock.
LEMMA StopLockingInv ==
    ASSUME CallsInv, NEW t \in Threads, pc[t] = "locking",
           redis' \in [Keys -> Threads \cup {None}],
           StopLocking(t), UNCHANGED <<locks, calls>>
    PROVE  TypeOK' /\ ThreadOK(t)' /\ OthersUntouched(t)
<1> USE DEF CallsInv, StopLocking
<1>1. TypeOK'
  BY ConstantsAssumption DEF TypeOK
<1>2. pc'[t] = "running" /\ locks' = locks /\ calls' = calls
  BY DEF TypeOK
<1>3. ThreadOK(t)'
  BY <1>2 DEF ThreadOK
<1>4. OthersUntouched(t)
  BY DEF OthersUntouched, TypeOK
<1> QED
  BY <1>1, <1>3, <1>4

LEMMA LockBusyInv ==
    ASSUME CallsInv, NEW t \in Threads, LockBusy(t)
    PROVE  TypeOK' /\ ThreadOK(t)' /\ OthersUntouched(t)
<1>1. CASE attempts[t] + 1 < MaxAttempts
  <2>1. /\ attempts' = [attempts EXCEPT ![t] = @ + 1]
        /\ UNCHANGED <<redis, locks, calls, pc, wants>>
    BY <1>1 DEF LockBusy
  <2>2. TypeOK'
    BY <1>1, <2>1, ConstantsAssumption DEF CallsInv, TypeOK
  <2>3. ThreadOK(t)'
    BY <2>1, Untouched DEF CallsInv
  <2> QED
    BY <2>1, <2>2, <2>3 DEF OthersUntouched
<1>2. CASE ~(attempts[t] + 1 < MaxAttempts)
  BY <1>2, StopLockingInv DEF LockBusy, CallsInv, TypeOK
<1> QED
  BY <1>1, <1>2

LEMMA LockFailsInv ==
    ASSUME CallsInv, NEW t \in Threads, LockFails(t)
    PROVE  TypeOK' /\ ThreadOK(t)' /\ OthersUntouched(t)
<1>1. redis' \in [Keys -> Threads \cup {None}]
  BY DEF LockFails, MayPut, CallsInv, TypeOK
<1> QED
  BY <1>1, StopLockingInv DEF LockFails

\* The innermost call of t is gone, and t runs on.
LEMMA PopInv ==
    ASSUME CallsInv, NEW t \in Threads, calls[t] # << >>,
           Pop(t), pc[t] # "locking",
           pc' = [pc EXCEPT ![t] = "running"],
           pc[t] = "releasing" <=> Last(calls[t]).owner,
           redis' \in [Keys -> Threads \cup {None}],
           UNCHANGED <<locks, wants, attempts>>
    PROVE  TypeOK' /\ ThreadOK(t)' /\ OthersUntouched(t)
<1> USE DEF CallsInv
<1>1. calls[t] \in Seq(Call)
  BY DEF TypeOK
<1>2. calls' = [calls EXCEPT ![t] = Front(@)] /\ calls'[t] = Front(calls[t])
  BY DEF Pop, TypeOK
<1> DEFINE c == Last(calls[t])
<1> HIDE DEF c
<1>3. /\ calls'[t] \in Seq(Call)
      /\ c \in Call
      /\ Locked(calls[t], c.key) <=> Locked(calls'[t], c.key) \/ c.owner
      /\ \A k : k # c.key => (Locked(calls'[t], k) <=> Locked(calls[t], k))
      /\ Once(calls[t]) => Once(calls'[t])
      /\ Once(calls[t]) /\ c.owner => ~Locked(calls'[t], c.key)
      /\ Inside(calls[t]) => Inside(calls'[t])
  BY <1>1, <1>2, PopCall DEF c
<1>4. TypeOK'
  BY <1>2, <1>3 DEF TypeOK
<1>5. ThreadOK(t)'
  <2>1. pc'[t] = "running" /\ locks'[t] = locks[t]
    BY DEF TypeOK
  <2>2. Once(calls'[t]) /\ Inside(calls'[t])
    BY <1>3 DEF ThreadOK
  <2>3. \A k \in Keys : k \in locks'[t] <=> Locked(calls'[t], k)
    <3> SUFFICES ASSUME NEW k \in Keys
                 PROVE  k \in locks[t] <=> Locked(calls'[t], k)
      BY <2>1
    <3>1. /\ k \in locks[t] <=> Locked(calls[t], k) /\ ~(c.owner /\ c.key = k)
          /\ Once(calls[t])
      BY DEF ThreadOK, c
    <3> QED
      BY <3>1, <1>3
  <2> QED
    BY <2>1, <2>2, <2>3 DEF ThreadOK
<1> QED
  BY <1>2, <1>4, <1>5 DEF OthersUntouched, TypeOK

LEMMA FunctionEndsInv ==
    ASSUME CallsInv, NEW t \in Threads, FunctionEnds(t)
    PROVE  TypeOK' /\ ThreadOK(t)' /\ OthersUntouched(t)
<1> USE DEF CallsInv, FunctionEnds
<1>1. CASE Last(calls[t]).owner
  <2> DEFINE k == Last(calls[t]).key
  <2>1. /\ locks' = [locks EXCEPT ![t] = @ \ {k}]
        /\ pc' = [pc EXCEPT ![t] = "releasing"]
        /\ UNCHANGED <<redis, calls, wants, attempts>>
    BY <1>1
  <2>2. TypeOK'
    BY <2>1 DEF TypeOK
  <2>3. ThreadOK(t)'
    <3>1. /\ pc[t] = "running" /\ pc'[t] = "releasing"
          /\ locks'[t] = locks[t] \ {k} /\ calls' = calls
      BY <2>1 DEF TypeOK
    <3> QED
      BY <1>1, <3>1 DEF ThreadOK
  <2> QED
    BY <2>1, <2>2, <2>3 DEF OthersUntouched, TypeOK
<1>2. CASE ~Last(calls[t]).owner
  <2>1. /\ calls[t] # << >> /\ Pop(t) /\ pc[t] = "running"
        /\ pc' = [pc EXCEPT ![t] = "running"]
        /\ redis' \in [Keys -> Threads \cup {None}]
        /\ UNCHANGED <<locks, wants, attempts>>
    BY <1>2 DEF TypeOK
  <2> QED
    BY <1>2, <2>1, PopInv
<1> QED
  BY <1>1, <1>2

LEMMA ReleaseInv ==
    ASSUME CallsInv, NEW t \in Threads, Release(t) \/ ReleaseFails(t)
    PROVE  TypeOK' /\ ThreadOK(t)' /\ OthersUntouched(t)
<1> USE DEF CallsInv
<1>1. redis' \in [Keys -> Threads \cup {None}]
  BY DEF Release, ReleaseFails, MayDelete, TypeOK
<1>2. calls[t] # << >> /\ Last(calls[t]).owner /\ pc[t] = "releasing"
  BY DEF ThreadOK, Release, ReleaseFails
<1>3. /\ Pop(t)
      /\ pc' = [pc EXCEPT ![t] = "running"]
      /\ UNCHANGED <<locks, wants, attempts>>
  BY DEF Release, ReleaseFails
<1> QED
  BY <1>1, <1>2, <1>3, PopInv

LEMMA CrashInv ==
    ASSUME CallsInv, NEW t \in Threads, Crash(t)
    PROVE  TypeOK' /\ ThreadOK(t)' /\ OthersUntouched(t)
<1> USE DEF CallsInv, Crash, StopLocking
<1>1. TypeOK'
  BY ConstantsAssumption DEF TypeOK
<1>2. pc'[t] = "running" /\ locks'[t] = {} /\ calls'[t] = << >>
  BY DEF TypeOK
<1>3. ThreadOK(t)'
  BY <1>2 DEF ThreadOK, Once, Inside, Locked
<1> QED
  BY <1>1, <1>3 DEF OthersUntouched, TypeOK

-------------------------------------------------------------------------------
LEMMA ThreadStepInv ==
    ASSUME CallsInv, NEW t \in Threads, ThreadStep(t)
    PROVE  CallsInv'
<1>1. TypeOK' /\ ThreadOK(t)' /\ OthersUntouched(t)
  BY ExecuteReentrantInv, ExecuteLockingInv, LockAcquiredInv, LockBusyInv,
     LockFailsInv, FunctionEndsInv, ReleaseInv, CrashInv DEF ThreadStep
<1>2. ASSUME NEW u \in Threads \ {t} PROVE ThreadOK(u)'
  BY <1>1, Untouched DEF OthersUntouched, CallsInv
<1> QED
  BY <1>1, <1>2 DEF CallsInv

\* The calls of every thread stay well formed whatever redis, faults and leases
\* do: the first half of every other result, and it needs no timing assumption.
THEOREM CallsInvariant == Spec => []CallsInv
<1>1. Init => CallsInv
  <2> SUFFICES ASSUME Init PROVE CallsInv
    OBVIOUS
  <2>1. TypeOK
    BY ConstantsAssumption DEF Init, TypeOK
  <2>2. ASSUME NEW t \in Threads PROVE ThreadOK(t)
    BY DEF Init, ThreadOK, Once, Inside, Locked
  <2> QED
    BY <2>1, <2>2 DEF CallsInv
<1>2. CallsInv /\ [Next]_vars => CallsInv'
  <2> SUFFICES ASSUME CallsInv, [Next]_vars PROVE CallsInv'
    OBVIOUS
  <2>1. CASE \E t \in Threads : ThreadStep(t)
    BY <2>1, ThreadStepInv
  <2>2. ASSUME NEW k \in Keys, Expire(k) PROVE CallsInv'
    <3>1. TypeOK'
      BY <2>2 DEF Expire, CallsInv, TypeOK
    <3>2. ASSUME NEW t \in Threads PROVE ThreadOK(t)'
      BY <2>2, Untouched DEF Expire, CallsInv
    <3> QED
      BY <3>1, <3>2 DEF CallsInv
  <2>3. CASE UNCHANGED vars
    <3>1. TypeOK'
      BY <2>3 DEF vars, CallsInv, TypeOK
    <3>2. ASSUME NEW t \in Threads PROVE ThreadOK(t)'
      BY <2>3, Untouched DEF vars, CallsInv
    <3> QED
      BY <3>1, <3>2 DEF CallsInv
  <2> QED
    BY <2>1, <2>2, <2>3 DEF Next
<1> QED
  BY <1>1, <1>2, PTL DEF Spec

\* The state keeps its types.
THEOREM TypeCorrect == Spec => []TypeOK
<1>1. CallsInv => TypeOK
  BY DEF CallsInv
<1> QED
  BY <1>1, CallsInvariant, PTL

\* The thread-local set always agrees with the calls in progress, so a nested
\* execute never skips a lock it needs nor waits for one its thread holds, even
\* when leases are overrun, commands fail or threads are restarted.
THEOREM ThreadLocalIsExact == Spec => [](LocksAreOwnedCalls /\ ReentrantOnlyInside)
<1>1. CallsInv => LocksAreOwnedCalls /\ ReentrantOnlyInside
  <2> SUFFICES ASSUME CallsInv PROVE LocksAreOwnedCalls /\ ReentrantOnlyInside
    OBVIOUS
  <2>1. LocksAreOwnedCalls
    BY DEF CallsInv, ThreadOK, LocksAreOwnedCalls, InBlock, Locked
  <2>2. ReentrantOnlyInside
    BY DEF CallsInv, ThreadOK, ReentrantOnlyInside, Inside
  <2> QED
    BY <2>1, <2>2
<1> QED
  BY <1>1, CallsInvariant, PTL

\* A call that finds its key in the thread-local set is nested in one that put it there.
THEOREM ReentrantCallsAreNested == Spec => []ReentrantOnlyInside
  BY ThreadLocalIsExact, PTL

-------------------------------------------------------------------------------
\* A step neither lets a thread into a block nor out of one.
LEMMA SameBlocks ==
    ASSUME NEW t, calls'[t] = calls[t], NEW k
    PROVE  InBlock(t, k)' <=> InBlock(t, k)
BY DEF InBlock

\* The end of a call on k, as seen from the blocks.
LEMMA PopBlocks ==
    ASSUME CallsInv, NEW t \in Threads, calls[t] # << >>, Pop(t),
           NEW k, k = Last(calls[t]).key
    PROVE  /\ \A u \in Threads \ {t} : calls'[u] = calls[u]
           /\ k \in Keys
           /\ Last(calls[t]).owner => InBlock(t, k) /\ ~InBlock(t, k)'
           /\ ~Last(calls[t]).owner => (InBlock(t, k)' <=> InBlock(t, k))
           /\ \A j : j # k => (InBlock(t, j)' <=> InBlock(t, j))
<1>1. calls[t] \in Seq(Call) /\ calls'[t] = Front(calls[t])
  BY DEF CallsInv, TypeOK, Pop
<1>2. /\ Last(calls[t]) \in Call
      /\ Locked(calls[t], k) <=> Locked(calls'[t], k) \/ Last(calls[t]).owner
      /\ \A j : j # k => (Locked(calls'[t], j) <=> Locked(calls[t], j))
      /\ Once(calls[t]) /\ Last(calls[t]).owner => ~Locked(calls'[t], k)
  BY <1>1, PopCall
<1>3. Once(calls[t])
  BY DEF CallsInv, ThreadOK
<1>4. k \in Keys
  BY <1>2 DEF Call
<1>5. \A u \in Threads \ {t} : calls'[u] = calls[u]
  BY DEF CallsInv, TypeOK, Pop
<1>6. ASSUME NEW j
      PROVE  /\ InBlock(t, j) <=> Locked(calls[t], j)
             /\ InBlock(t, j)' <=> Locked(calls'[t], j)
  BY DEF InBlock, Locked
<1>7. Last(calls[t]).owner => InBlock(t, k) /\ ~InBlock(t, k)'
  BY <1>2, <1>3, <1>6
<1>8. ~Last(calls[t]).owner => (InBlock(t, k)' <=> InBlock(t, k))
  BY <1>2, <1>6
<1>9. ASSUME NEW j, j # k PROVE InBlock(t, j)' <=> InBlock(t, j)
  BY <1>2, <1>6, <1>9
<1> QED
  BY <1>4, <1>5, <1>7, <1>8, <1>9

\* A block begins when its key is acquired.
LEMMA PushBlocks ==
    ASSUME CallsInv, NEW t \in Threads, NEW k \in Keys, NEW owner \in BOOLEAN,
           Push(t, k, owner)
    PROVE  /\ \A u \in Threads \ {t} : calls'[u] = calls[u]
           /\ InBlock(t, k)' <=> InBlock(t, k) \/ owner
           /\ \A j : j # k => (InBlock(t, j)' <=> InBlock(t, j))
<1> DEFINE c == [key |-> k, owner |-> owner]
<1>1. /\ calls[t] \in Seq(Call)
      /\ calls'[t] = Append(calls[t], c)
      /\ c \in Call
      /\ c.key = k /\ c.owner = owner
  BY DEF CallsInv, TypeOK, Push, Call
<1>2. \A u \in Threads \ {t} : calls'[u] = calls[u]
  BY DEF CallsInv, TypeOK, Push
<1> HIDE DEF c
<1>3. \A j : Locked(calls'[t], j) <=> Locked(calls[t], j) \/ (c.key = j /\ c.owner)
  BY <1>1, PushCall
<1>4. ASSUME NEW j
      PROVE  /\ InBlock(t, j) <=> Locked(calls[t], j)
             /\ InBlock(t, j)' <=> Locked(calls'[t], j)
  BY DEF InBlock, Locked
<1>5. InBlock(t, k)' <=> InBlock(t, k) \/ owner
  BY <1>1, <1>3, <1>4
<1>6. ASSUME NEW j, j # k PROVE InBlock(t, j)' <=> InBlock(t, j)
  BY <1>1, <1>3, <1>4, <1>6
<1> QED
  BY <1>2, <1>5, <1>6

\* What one step of any thread or lease does to the blocks: nothing, one thread
\* enters the block of a free key, one thread leaves a block, or one is cut off.
EnterBlock(t, k) ==
    /\ redis[k] = None
    /\ redis' = [redis EXCEPT ![k] = t]
    /\ \A u \in Threads, j \in Keys :
         InBlock(u, j)' <=> InBlock(u, j) \/ (u = t /\ j = k)

LeaveBlock(t, k) ==
    /\ InBlock(t, k)
    /\ \/ UNCHANGED redis
       \/ redis' = [redis EXCEPT ![k] = None]
    /\ \A u \in Threads, j \in Keys :
         InBlock(u, j)' <=> InBlock(u, j) /\ ~(u = t /\ j = k)

CutOff(t) ==
    /\ UNCHANGED redis
    /\ \A u \in Threads, j \in Keys : InBlock(u, j)' <=> InBlock(u, j) /\ u # t

SameInside ==
    /\ \A j \in Keys : redis'[j] = redis[j]
         \/ redis[j] = None
         \/ ~InBlock(redis[j], j)
    /\ \A u \in Threads, j \in Keys : InBlock(u, j)' <=> InBlock(u, j)

LEMMA StepEffect ==
    ASSUME CallsInv, Timely, [Next]_vars
    PROVE  \/ SameInside
           \/ \E t \in Threads : CutOff(t)
           \/ \E t \in Threads, k \in Keys : EnterBlock(t, k) \/ LeaveBlock(t, k)
<1>1. ASSUME calls' = calls PROVE \A u, j : InBlock(u, j)' <=> InBlock(u, j)
  BY <1>1 DEF InBlock
<1>2. CASE UNCHANGED vars
  BY <1>1, <1>2 DEF vars, SameInside
<1>3. ASSUME NEW k \in Keys, Expire(k) PROVE SameInside
  <2>1. calls' = calls /\ redis' = [redis EXCEPT ![k] = None]
    BY <1>3 DEF Expire
  <2>2. ~InBlock(redis[k], k)
    BY <1>3 DEF Expire, Timely
  <2> QED
    BY <2>1, <2>2, <1>1 DEF SameInside, CallsInv, TypeOK
<1>4. ASSUME NEW t \in Threads, NEW k \in Keys, ExecuteReentrant(t, k)
      PROVE  SameInside
  <2>1. Push(t, k, FALSE) /\ redis' = redis
    BY <1>4 DEF ExecuteReentrant
  <2>2. \A u \in Threads \ {t} : calls'[u] = calls[u]
    BY <2>1, PushBlocks
  <2>3. ASSUME NEW u \in Threads, NEW j PROVE InBlock(u, j)' <=> InBlock(u, j)
    BY <2>1, <2>2, PushBlocks, SameBlocks
  <2> QED
    BY <2>1, <2>3 DEF SameInside
<1>5. ASSUME NEW t \in Threads, LockAcquired(t)
      PROVE  \E k \in Keys : EnterBlock(t, k)
  <2>1. PICK k \in Keys : k = wants[t]
    BY <1>5 DEF LockAcquired, CallsInv, ThreadOK
  <2>2. /\ Push(t, k, TRUE)
        /\ redis[k] = None /\ redis' = [redis EXCEPT ![k] = t]
    BY <1>5, <2>1 DEF LockAcquired
  <2>3. \A u \in Threads \ {t} : calls'[u] = calls[u]
    BY <2>2, PushBlocks
  <2>4. ASSUME NEW u \in Threads, NEW j \in Keys
        PROVE  InBlock(u, j)' <=> InBlock(u, j) \/ (u = t /\ j = k)
    BY <2>2, <2>3, PushBlocks, SameBlocks
  <2> QED
    BY <2>2, <2>4 DEF EnterBlock
<1>6. ASSUME NEW t \in Threads,
             LockBusy(t) \/ \E k \in Keys : ExecuteLocking(t, k)
      PROVE  SameInside
  <2>1. calls' = calls /\ redis' = redis
    BY <1>6 DEF LockBusy, ExecuteLocking
  <2> QED
    BY <2>1, <1>1 DEF SameInside
<1>7. ASSUME NEW t \in Threads, LockFails(t) PROVE SameInside
  <2>1. calls' = calls /\ MayPut(t, wants[t])
    BY <1>7 DEF LockFails
  <2>2. ASSUME NEW j \in Keys PROVE redis'[j] = redis[j] \/ redis[j] = None
    BY <2>1 DEF MayPut, CallsInv, TypeOK
  <2> QED
    BY <2>1, <2>2, <1>1 DEF SameInside
<1>8. ASSUME NEW t \in Threads, calls[t] # << >>, Pop(t), Last(calls[t]).owner,
             UNCHANGED redis \/ redis' = [redis EXCEPT ![Last(calls[t]).key] = None]
      PROVE  \E k \in Keys : LeaveBlock(t, k)
  <2>1. PICK k : k = Last(calls[t]).key
    OBVIOUS
  <2>2. /\ k \in Keys
        /\ \A u \in Threads \ {t} : calls'[u] = calls[u]
        /\ InBlock(t, k) /\ ~InBlock(t, k)'
    BY <1>8, <2>1, PopBlocks
  <2>3. ASSUME NEW u \in Threads, NEW j \in Keys
        PROVE  InBlock(u, j)' <=> InBlock(u, j) /\ ~(u = t /\ j = k)
    BY <1>8, <2>1, <2>2, PopBlocks, SameBlocks
  <2> QED
    BY <1>8, <2>1, <2>2, <2>3 DEF LeaveBlock
<1>9. ASSUME NEW t \in Threads, FunctionEnds(t) PROVE SameInside
  <2>1. CASE Last(calls[t]).owner
    <3>1. calls' = calls /\ redis' = redis
      BY <1>9, <2>1 DEF FunctionEnds
    <3> QED
      BY <3>1, <1>1 DEF SameInside
  <2>2. CASE ~Last(calls[t]).owner
    <3>1. PICK k : k = Last(calls[t]).key
      OBVIOUS
    <3>2. Pop(t) /\ calls[t] # << >> /\ redis' = redis
      BY <1>9, <2>2 DEF FunctionEnds
    <3>3. ASSUME NEW u \in Threads, NEW j PROVE InBlock(u, j)' <=> InBlock(u, j)
      <4>1. CASE u = t
        BY <2>2, <3>1, <3>2, <4>1, PopBlocks
      <4>2. CASE u # t
        <5>1. calls'[u] = calls[u]
          BY <3>1, <3>2, <4>2, PopBlocks
        <5> QED
          BY <5>1, SameBlocks
      <4> QED
        BY <4>1, <4>2
    <3> QED
      BY <3>2, <3>3 DEF SameInside
  <2> QED
    BY <2>1, <2>2
<1>10. ASSUME NEW t \in Threads, Release(t) \/ ReleaseFails(t)
       PROVE  \E k \in Keys : LeaveBlock(t, k)
  <2>1. calls[t] # << >> /\ Last(calls[t]).owner
    BY <1>10 DEF Release, ReleaseFails, CallsInv, ThreadOK
  <2>2. /\ Pop(t)
        /\ UNCHANGED redis \/ redis' = [redis EXCEPT ![Last(calls[t]).key] = None]
    BY <1>10 DEF Release, ReleaseFails, MayDelete
  <2> QED
    BY <1>8, <2>1, <2>2
<1>11. ASSUME NEW t \in Threads, Crash(t) PROVE CutOff(t)
  <2>1. /\ redis' = redis /\ calls'[t] = << >>
        /\ \A u \in Threads \ {t} : calls'[u] = calls[u]
    BY <1>11 DEF Crash, CallsInv, TypeOK
  <2>2. ASSUME NEW j PROVE ~InBlock(t, j)'
    BY <2>1 DEF InBlock
  <2>3. ASSUME NEW u \in Threads, NEW j
        PROVE  InBlock(u, j)' <=> InBlock(u, j) /\ u # t
    BY <2>1, <2>2, SameBlocks
  <2> QED
    BY <2>1, <2>3 DEF CutOff
<1> QED
  BY <1>2, <1>3, <1>4, <1>5, <1>6, <1>7, <1>9, <1>10, <1>11
     DEF Next, ThreadStep

-------------------------------------------------------------------------------
\* Blocks keep their lock: the step that would break it is one that overwrites or
\* deletes the entry of a key somebody is in a block of, and there is none.
LEMMA BlockIsLockedInv ==
    ASSUME CallsInv, BlockIsLocked, Timely, [Next]_vars
    PROVE  BlockIsLocked'
<1>1. None \notin Threads /\ redis \in [Keys -> Threads \cup {None}]
  BY ConstantsAssumption DEF CallsInv, TypeOK
<1> SUFFICES ASSUME NEW u \in Threads, NEW j \in Keys, InBlock(u, j)'
             PROVE  redis'[j] = u
  BY DEF BlockIsLocked
<1>2. CASE SameInside
  BY <1>1, <1>2 DEF SameInside, BlockIsLocked
<1>3. ASSUME NEW t \in Threads, CutOff(t) PROVE redis'[j] = u
  BY <1>3 DEF CutOff, BlockIsLocked
<1>4. ASSUME NEW t \in Threads, NEW k \in Keys, EnterBlock(t, k)
      PROVE  redis'[j] = u
  BY <1>1, <1>4 DEF EnterBlock, BlockIsLocked
<1>5. ASSUME NEW t \in Threads, NEW k \in Keys, LeaveBlock(t, k)
      PROVE  redis'[j] = u
  BY <1>1, <1>5 DEF LeaveBlock, BlockIsLocked
<1> QED
  BY <1>2, <1>3, <1>4, <1>5, StepEffect

\* As long as no block outlives its lease, whoever is in a block of a key holds
\* the entry it created in redis, through nested calls, failed commands, crashes
\* of other processes and abandoned locks that run out.
THEOREM BlocksAreLocked == ASSUME Timely PROVE Spec => []BlockIsLocked
<1>1. Init => BlockIsLocked
  BY DEF Init, BlockIsLocked, InBlock
<1>2. CallsInv /\ BlockIsLocked /\ [Next]_vars => BlockIsLocked'
  BY BlockIsLockedInv
<1> QED
  BY <1>1, <1>2, CallsInvariant, PTL DEF Spec

\* Under the same assumption a block is atomic: no two threads of the cluster are
\* in blocks of the same key.
THEOREM MutuallyExclusive == ASSUME Timely PROVE Spec => []MutualExclusion
<1>1. BlockIsLocked => MutualExclusion
  BY DEF BlockIsLocked, MutualExclusion
<1> QED
  BY <1>1, BlocksAreLocked, PTL

\* AtomicExecutor implements Mutex: every step of it lets one thread into the
\* empty block of a key, lets one out, cuts one off, or changes nothing there.
THEOREM ImplementsMutex == ASSUME Timely PROVE Spec => AtomicBlocks
<1> DEFINE ins == [k \in Keys |-> {t \in Threads : InBlock(t, k)}]
<1>1. Init => Abstract!Init
  BY DEF Init, Abstract!Init, InBlock
<1>2. ASSUME CallsInv, BlockIsLocked, [Next]_vars
      PROVE  [Abstract!Next]_ins
  <2>1. None \notin Threads
    BY ConstantsAssumption
  <2>2. CASE SameInside
    BY <2>2 DEF SameInside
  <2>3. ASSUME NEW t \in Threads, CutOff(t) PROVE Abstract!Die(t)
    BY <2>3 DEF CutOff, Abstract!Die
  <2>4. ASSUME NEW t \in Threads, NEW k \in Keys, EnterBlock(t, k)
        PROVE  Abstract!Enter(t, k)
    <3>1. ins[k] = {}
      BY <1>2, <2>1, <2>4 DEF EnterBlock, BlockIsLocked
    <3>2. ins' = [ins EXCEPT ![k] = {t}]
      BY <3>1, <2>4 DEF EnterBlock
    <3> QED
      BY <3>1, <3>2 DEF Abstract!Enter
  <2>5. ASSUME NEW t \in Threads, NEW k \in Keys, LeaveBlock(t, k)
        PROVE  Abstract!Leave(t, k)
    BY <2>5 DEF LeaveBlock, Abstract!Leave
  <2> QED
    BY <2>2, <2>3, <2>4, <2>5, StepEffect, <1>2 DEF Abstract!Next
<1> QED
  BY <1>1, <1>2, CallsInvariant, BlocksAreLocked, PTL
     DEF Spec, AtomicBlocks, Abstract!Spec
===============================================================================
