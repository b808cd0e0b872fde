-------------------------------- MODULE Mutex --------------------------------
(***************************************************************************)
(* What an atomic block promises its caller: for every key, at most one    *)
(* thread at a time runs a block on that key.  A thread enters the block   *)
(* of a key when nobody is in it, leaves it, or is cut off from all its    *)
(* blocks at once when its process dies.  AtomicExecutor implements this   *)
(* module as long as no block outlives the lease of its lock.              *)
(***************************************************************************)
CONSTANTS Threads,  \* the threads of all the processes of the cluster
          Keys      \* the keys blocks are executed on

VARIABLE inside     \* inside[k]: the threads that are in a block of key k

TypeOK == inside \in [Keys -> SUBSET Threads]

Init == inside = [k \in Keys |-> {}]

Enter(t, k) ==
    /\ inside[k] = {}
    /\ inside' = [inside EXCEPT ![k] = {t}]

Leave(t, k) ==
    /\ t \in inside[k]
    /\ inside' = [inside EXCEPT ![k] = @ \ {t}]

Die(t) == inside' = [k \in Keys |-> inside[k] \ {t}]

Next ==
    \E t \in Threads :
        \/ Die(t)
        \/ \E k \in Keys : Enter(t, k) \/ Leave(t, k)

Spec == Init /\ [][Next]_inside
===============================================================================
