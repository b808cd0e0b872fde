---------------------------- MODULE AtomicExecutor ----------------------------
(***************************************************************************)
(* The redis lock of gojek-commons-cache.  AtomicExecutor.execute runs a   *)
(* function under a lock on a key: it sets the key in redis with SET NX EX *)
(* (retrying as its Retryer says), remembers the key in a thread-local set *)
(* so that nested calls on the key do not lock again, applies the function *)
(* and, in its finally block, forgets the key and deletes it from redis.   *)
(*                                                                         *)
(* The value stored under a key is the key itself: redis does not record   *)
(* who holds a lock, and no guard below reads more than whether the key is *)
(* there.  redis[k] keeps the thread whose SET created the entry so that   *)
(* properties can speak about it.                                          *)
(*                                                                         *)
(* Each thread stands for a thread of any process of the cluster: locks is *)
(* per thread, and redis is all that threads share.  A command whose reply *)
(* is lost either took effect or never does.                               *)
(***************************************************************************)
EXTENDS SequencesExt

CONSTANTS Threads,      \* threads that call execute
          Keys,         \* lock keys
          None,         \* no thread, no key
          MaxAttempts,  \* stop strategy of the Retryer<Boolean>
          MaxDepth,     \* bound: execute calls nested in one thread
          Slow          \* threads whose blocks may outlive the lease of their lock

ASSUME ConstantsAssumption ==
    /\ None \notin Threads
    /\ None \notin Keys
    /\ MaxAttempts \in Nat \ {0}
    /\ MaxDepth \in Nat
    /\ Slow \subseteq Threads

VARIABLES redis,     \* redis[k]: whose SET created the entry of k, None if absent
          locks,     \* locks[t]: the thread-local set of keys t has locked
          calls,     \* calls[t]: the execute calls of t that run their function
          pc,        \* where t is: "running", "locking" or "releasing"
          wants,     \* wants[t]: the key t is acquiring, None unless locking
          attempts   \* attempts[t]: SETs already answered in this acquisition

vars == <<redis, locks, calls, pc, wants, attempts>>

\* An execute call in progress: its lockKey and its local variable owner.
Call == [key : Keys, owner : BOOLEAN]

TypeOK ==
    /\ redis \in [Keys -> Threads \cup {None}]
    /\ locks \in [Threads -> SUBSET Keys]
    /\ calls \in [Threads -> Seq(Call)]
    /\ pc \in [Threads -> {"running", "locking", "releasing"}]
    /\ wants \in [Threads -> Keys \cup {None}]
    /\ attempts \in [Threads -> 0 .. MaxAttempts]

Init ==
    /\ redis = [k \in Keys |-> None]
    /\ locks = [t \in Threads |-> {}]
    /\ calls = [t \in Threads |-> << >>]
    /\ pc = [t \in Threads |-> "running"]
    /\ wants = [t \in Threads |-> None]
    /\ attempts = [t \in Threads |-> 0]

-------------------------------------------------------------------------------
\* Some call of t that locked k has not returned yet.
InBlock(t, k) ==
    \E i \in DOMAIN calls[t] : calls[t][i].key = k /\ calls[t][i].owner

Push(t, k, owner) ==
    calls' = [calls EXCEPT ![t] = Append(@, [key |-> k, owner |-> owner])]

Pop(t) == calls' = [calls EXCEPT ![t] = Front(@)]

\* The acquisition is over, with or without the lock.
StopLocking(t) ==
    /\ pc' = [pc EXCEPT ![t] = "running"]
    /\ wants' = [wants EXCEPT ![t] = None]
    /\ attempts' = [attempts EXCEPT ![t] = 0]

\* The answer to a SET or a DEL may be lost whether or not it took effect.
MayPut(t, k) ==
    \/ UNCHANGED redis
    \/ redis[k] = None /\ redis' = [redis EXCEPT ![k] = t]

MayDelete(k) ==
    \/ UNCHANGED redis
    \/ redis' = [redis EXCEPT ![k] = None]

-------------------------------------------------------------------------------
\* execute(k) on a key the thread has locked already: the function runs at once.
ExecuteReentrant(t, k) ==
    /\ pc[t] = "running"
    /\ Len(calls[t]) < MaxDepth
    /\ k \in locks[t]
    /\ Push(t, k, FALSE)
    /\ UNCHANGED <<redis, locks, pc, wants, attempts>>

\* execute(k) on any other key goes to the retryer for the lock.
ExecuteLocking(t, k) ==
    /\ pc[t] = "running"
    /\ Len(calls[t]) < MaxDepth
    /\ k \notin locks[t]
    /\ pc' = [pc EXCEPT ![t] = "locking"]
    /\ wants' = [wants EXCEPT ![t] = k]
    /\ UNCHANGED <<redis, locks, calls, attempts>>

\* Mutant of LockAcquired: no addLockKey.
LockAcquiredNotNoted(t) ==
    /\ pc[t] = "locking"
    /\ redis[wants[t]] = None
    /\ redis' = [redis EXCEPT ![wants[t]] = t]
    /\ Push(t, wants[t], TRUE)
    /\ StopLocking(t)
    /\ UNCHANGED locks

\* SET NX EX answers OK: addLockKey, owner = true, and the function runs.
LockAcquired(t) ==
    /\ pc[t] = "locking"
    /\ redis[wants[t]] = None
    /\ redis' = [redis EXCEPT ![wants[t]] = t]
    /\ locks' = [locks EXCEPT ![t] = @ \cup {wants[t]}]
    /\ Push(t, wants[t], TRUE)
    /\ StopLocking(t)

\* Mutants of LockBusy: no stop strategy, and no check of locked before the function
\* is applied.
LockBusyForever(t) ==
    /\ pc[t] = "locking"
    /\ redis[wants[t]] # None
    /\ UNCHANGED vars

LockBusyProceeds(t) ==
    /\ pc[t] = "locking"
    /\ redis[wants[t]] # None
    /\ locks' = [locks EXCEPT ![t] = @ \cup {wants[t]}]
    /\ Push(t, wants[t], TRUE)
    /\ StopLocking(t)
    /\ UNCHANGED redis

\* The key is there: the retryer tries again or gives up, and execute throws
\* LockException; locked is false, so the finally block releases nothing.
LockBusy(t) ==
    /\ pc[t] = "locking"
    /\ redis[wants[t]] # None
    /\ IF attempts[t] + 1 < MaxAttempts
       THEN /\ attempts' = [attempts EXCEPT ![t] = @ + 1]
            /\ UNCHANGED <<pc, wants>>
       ELSE StopLocking(t)
    /\ UNCHANGED <<redis, locks, calls>>

\* connection.execute throws: no free connection, a timeout, a broken socket.
\* The retryer does not retry exceptions, and execute throws LockException.
LockFails(t) ==
    /\ pc[t] = "locking"
    /\ MayPut(t, wants[t])
    /\ StopLocking(t)
    /\ UNCHANGED <<locks, calls>>

\* Mutants of FunctionEnds: a re-entrant call releases too, and no removeLockKey.
FunctionEndsReleasing(t) ==
    /\ pc[t] = "running"
    /\ calls[t] # << >>
    /\ locks' = [locks EXCEPT ![t] = @ \ {Last(calls[t]).key}]
    /\ pc' = [pc EXCEPT ![t] = "releasing"]
    /\ UNCHANGED <<redis, calls, wants, attempts>>

FunctionEndsKeepingKey(t) ==
    /\ pc[t] = "running"
    /\ calls[t] # << >>
    /\ IF Last(calls[t]).owner
       THEN pc' = [pc EXCEPT ![t] = "releasing"] /\ UNCHANGED calls
       ELSE Pop(t) /\ UNCHANGED pc
    /\ UNCHANGED <<redis, locks, wants, attempts>>

\* The function of the innermost call returns or throws.  The call that locked
\* the key forgets it and goes on to release it; a re-entrant call just ends.
FunctionEnds(t) ==
    /\ pc[t] = "running"
    /\ calls[t] # << >>
    /\ IF Last(calls[t]).owner
       THEN /\ locks' = [locks EXCEPT ![t] = @ \ {Last(calls[t]).key}]
            /\ pc' = [pc EXCEPT ![t] = "releasing"]
            /\ UNCHANGED calls
       ELSE /\ Pop(t)
            /\ UNCHANGED <<locks, pc>>
    /\ UNCHANGED <<redis, wants, attempts>>

\* DEL removes the key, whoever set it.
Release(t) ==
    /\ pc[t] = "releasing"
    /\ redis' = [redis EXCEPT ![Last(calls[t]).key] = None]
    /\ Pop(t)
    /\ pc' = [pc EXCEPT ![t] = "running"]
    /\ UNCHANGED <<locks, wants, attempts>>

\* connection.execute throws in the finally block: the call ends with that
\* exception, and the key may be left in redis until its lease expires.
ReleaseFails(t) ==
    /\ pc[t] = "releasing"
    /\ MayDelete(Last(calls[t]).key)
    /\ Pop(t)
    /\ pc' = [pc EXCEPT ![t] = "running"]
    /\ UNCHANGED <<locks, wants, attempts>>

\* The process of t dies and starts again: what t knew is lost, redis is not.
Crash(t) ==
    /\ locks' = [locks EXCEPT ![t] = {}]
    /\ calls' = [calls EXCEPT ![t] = << >>]
    /\ StopLocking(t)
    /\ UNCHANGED redis

\* Mutant of Expire: SET without EX.
ExpireNever(k) == redis[k] = k /\ UNCHANGED vars

\* The lease of k (lockExpiryTimeInSecs) ends.  A lease is chosen to cover the
\* block it protects; only the threads in Slow overrun it.
Expire(k) ==
    /\ redis[k] # None
    /\ InBlock(redis[k], k) => redis[k] \in Slow
    /\ redis' = [redis EXCEPT ![k] = None]
    /\ UNCHANGED <<locks, calls, pc, wants, attempts>>

-------------------------------------------------------------------------------
ThreadStep(t) ==
    \/ \E k \in Keys : ExecuteReentrant(t, k) \/ ExecuteLocking(t, k)
    \/ LockAcquired(t) \/ LockBusy(t) \/ LockFails(t)
    \/ FunctionEnds(t)
    \/ Release(t) \/ ReleaseFails(t)
    \/ Crash(t)

Next ==
    \/ \E t \in Threads : ThreadStep(t)
    \/ \E k \in Keys : Expire(k)

Spec == Init /\ [][Next]_vars

\* Attempts are answered, not always by failing, and leases run out.  Nothing is assumed
\* about the functions: they may run, and nest calls, forever.
Fairness ==
    /\ \A t \in Threads : WF_vars(LockAcquired(t) \/ LockBusy(t))
    /\ \A k \in Keys : WF_vars(Expire(k))

FairSpec == Spec /\ Fairness
-------------------------------------------------------------------------------
\* A block is atomic: two threads are never in blocks of the same key.
MutualExclusion ==
    \A k \in Keys, t, u \in Threads : InBlock(t, k) /\ InBlock(u, k) => t = u

\* While a thread is in a block of k, nested calls included, redis holds the
\* entry that this thread created (AtomicExecutorTest.shouldNotReleaseReentrantLock).
BlockIsLocked ==
    \A t \in Threads, k \in Keys : InBlock(t, k) => redis[k] = t

\* A call that is handed a key without locking it runs inside an earlier call of
\* the same thread that did lock it: re-entrancy never lets a thread in unlocked.
ReentrantOnlyInside ==
    \A t \in Threads : \A i \in DOMAIN calls[t] :
        \E j \in 1 .. i : calls[t][j].key = calls[t][i].key /\ calls[t][j].owner

\* The thread-local set holds exactly the keys of the calls that locked them,
\* without the one that is being released: a stale key would let the thread skip
\* the lock, a missing one would make it wait for itself.
LocksAreOwnedCalls ==
    \A t \in Threads, k \in Keys :
        k \in locks[t] <=>
            InBlock(t, k) /\ ~(pc[t] = "releasing" /\ Last(calls[t]).key = k)

\* Whatever threads overrun their leases, a block that keeps within its lease shares its
\* key with no other such block: lock is to "acquire a lock on the lockKey for
\* lockExpiryTimeInSecs duration".
LeasedBlocksExclude ==
    \A t, u \in Threads \ Slow, k \in Keys :
        InBlock(t, k) /\ InBlock(u, k) => t = u

\* Every acquisition ends, with the lock or with LockException, even when threads
\* ask for each other's keys in opposite orders.
AcquisitionEnds == \A t \in Threads : (pc[t] = "locking") ~> (pc[t] # "locking")

\* A key outside whose block its owner is, after a crash, a lost reply or a failed
\* DEL, does not stay locked forever: nobody would delete it.
NoLockForever ==
    \A k \in Keys :
        (redis[k] # None /\ ~InBlock(redis[k], k)) ~> (redis[k] = None)

Abstract == INSTANCE Mutex
    WITH inside <- [k \in Keys |-> {t \in Threads : InBlock(t, k)}]

AtomicBlocks == Abstract!Spec
===============================================================================
