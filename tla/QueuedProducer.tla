---------------------------- MODULE QueuedProducer ----------------------------
(***************************************************************************)
(* Events that are published when a database transaction commits:          *)
(* QueuedProducer keeps them in a map from destinations to lists, one map  *)
(* per thread; QueuedProducerTransactionInterceptor flushes the map of the *)
(* thread after a commit and clears it after any other outcome; and        *)
(* AmqpQueuedProducer.flushInternal publishes the lists one event at a     *)
(* time on a channel of the pool.                                          *)
(*                                                                         *)
(* Hibernate is external: it runs the interceptor on the thread of the     *)
(* transaction, after the outcome is decided, and the outcome stands       *)
(* whatever the interceptor throws.  The broker is a log per exchange and  *)
(* routing key.                                                            *)
(***************************************************************************)
EXTENDS SequencesExt

CONSTANTS Threads,          \* threads that send events
          Explicit,         \* those that call flush and clear themselves
          Destinations,     \* exchange and routing key pairs
          MaxTransactions,  \* bound: transactions begun
          MaxEvents,        \* bound: events sent
          MaxFailures       \* bound: flushes that throw

ASSUME ConstantsAssumption ==
    /\ Explicit \subseteq Threads
    /\ MaxTransactions \in Nat
    /\ MaxEvents \in Nat
    /\ MaxFailures \in Nat

VARIABLES queues,    \* queues[t][d]: the thread-local list of t for d
          flushed,   \* flushed[t][d]: how far the running flush of t got in it
          pc,        \* pc[t]: "running" or "flushing"
          tx,        \* tx[t]: the open transaction of t, or NoTransaction
          outcome,   \* outcome[x]: how transaction x ended so far
          log,       \* log[d]: what the broker received for d
          sent,      \* history: the events sent so far, by all threads
          begun,     \* transactions begun so far
          failures   \* flushes that threw so far

vars == <<queues, flushed, pc, tx, outcome, log, sent, begun, failures>>

NoTransaction == 0
Transactions == 1 .. MaxTransactions

\* An event, numbered in the order of sending, and the scope it was sent in.
Event == [id : 1 .. MaxEvents, by : Threads, tx : {NoTransaction} \cup Transactions]

Empty == [d \in Destinations |-> << >>]
Start == [d \in Destinations |-> 0]

TypeOK ==
    /\ queues \in [Threads -> [Destinations -> Seq(Event)]]
    /\ flushed \in [Threads -> [Destinations -> Nat]]
    /\ pc \in [Threads -> {"running", "flushing"}]
    /\ tx \in [Threads -> {NoTransaction} \cup Transactions]
    /\ outcome \in [Transactions -> {"open", "committed", "rolled_back"}]
    /\ log \in [Destinations -> Seq(Event)]
    /\ sent \in Seq(Event)
    /\ Len(sent) <= MaxEvents
    /\ begun \in 0 .. MaxTransactions
    /\ failures \in 0 .. MaxFailures

Init ==
    /\ queues = [t \in Threads |-> Empty]
    /\ flushed = [t \in Threads |-> Start]
    /\ pc = [t \in Threads |-> "running"]
    /\ tx = [t \in Threads |-> NoTransaction]
    /\ outcome = [x \in Transactions |-> "open"]
    /\ log = Empty
    /\ sent = << >>
    /\ begun = 0
    /\ failures = 0

-------------------------------------------------------------------------------
\* Mutant of Send: the event is put in front of those sent before it.
SendInFront(t, d) ==
    /\ pc[t] = "running"
    /\ Len(sent) < MaxEvents
    /\ LET e == [id |-> Len(sent) + 1, by |-> t, tx |-> tx[t]]
       IN  /\ sent' = Append(sent, e)
           /\ queues' = [queues EXCEPT ![t][d] = <<e>> \o @]
    /\ UNCHANGED <<flushed, pc, tx, outcome, log, begun, failures>>

\* send: the event joins the list of its destination, in the thread's own map.
Send(t, d) ==
    /\ pc[t] = "running"
    /\ Len(sent) < MaxEvents
    /\ LET e == [id |-> Len(sent) + 1, by |-> t, tx |-> tx[t]]
       IN  /\ sent' = Append(sent, e)
           /\ queues' = [queues EXCEPT ![t][d] = Append(@, e)]
    /\ UNCHANGED <<flushed, pc, tx, outcome, log, begun, failures>>

\* clear: the thread forgets its map.
Clear(t) == queues' = [queues EXCEPT ![t] = Empty]

\* A transaction begins on a thread that has none open.
Begin(t) ==
    /\ t \notin Explicit
    /\ pc[t] = "running"
    /\ tx[t] = NoTransaction
    /\ begun < MaxTransactions
    /\ begun' = begun + 1
    /\ tx' = [tx EXCEPT ![t] = begun + 1]
    /\ UNCHANGED <<queues, flushed, pc, outcome, log, sent, failures>>

\* flush starts: getQueues is iterated from its beginning.
StartFlush(t) ==
    /\ pc' = [pc EXCEPT ![t] = "flushing"]
    /\ flushed' = [flushed EXCEPT ![t] = Start]

\* Mutants of Commit: flush clears before it publishes, or is not called.
CommitClearsFirst(t) ==
    /\ pc[t] = "running"
    /\ tx[t] # NoTransaction
    /\ outcome' = [outcome EXCEPT ![tx[t]] = "committed"]
    /\ tx' = [tx EXCEPT ![t] = NoTransaction]
    /\ Clear(t)
    /\ StartFlush(t)
    /\ UNCHANGED <<log, sent, begun, failures>>

CommitDoesNotFlush(t) ==
    /\ pc[t] = "running"
    /\ tx[t] # NoTransaction
    /\ outcome' = [outcome EXCEPT ![tx[t]] = "committed"]
    /\ tx' = [tx EXCEPT ![t] = NoTransaction]
    /\ UNCHANGED <<queues, flushed, pc, log, sent, begun, failures>>

\* The transaction commits, and afterTransactionCompletion calls flush.
Commit(t) ==
    /\ pc[t] = "running"
    /\ tx[t] # NoTransaction
    /\ outcome' = [outcome EXCEPT ![tx[t]] = "committed"]
    /\ tx' = [tx EXCEPT ![t] = NoTransaction]
    /\ StartFlush(t)
    /\ UNCHANGED <<queues, log, sent, begun, failures>>

\* Mutant of RollBack: the interceptor only looks at commits.
RollBackKeepsQueue(t) ==
    /\ pc[t] = "running"
    /\ tx[t] # NoTransaction
    /\ outcome' = [outcome EXCEPT ![tx[t]] = "rolled_back"]
    /\ tx' = [tx EXCEPT ![t] = NoTransaction]
    /\ UNCHANGED <<queues, flushed, pc, log, sent, begun, failures>>

\* Any other outcome: afterTransactionCompletion calls clear.
RollBack(t) ==
    /\ pc[t] = "running"
    /\ tx[t] # NoTransaction
    /\ outcome' = [outcome EXCEPT ![tx[t]] = "rolled_back"]
    /\ tx' = [tx EXCEPT ![t] = NoTransaction]
    /\ Clear(t)
    /\ UNCHANGED <<flushed, pc, log, sent, begun, failures>>

\* A thread without transactions calls flush, or clear, itself.
ExplicitFlush(t) ==
    /\ t \in Explicit
    /\ pc[t] = "running"
    /\ queues[t] # Empty
    /\ StartFlush(t)
    /\ UNCHANGED <<queues, tx, outcome, log, sent, begun, failures>>

ExplicitClear(t) ==
    /\ t \in Explicit
    /\ pc[t] = "running"
    /\ queues[t] # Empty
    /\ Clear(t)
    /\ UNCHANGED <<flushed, pc, tx, outcome, log, sent, begun, failures>>

\* The iteration of the map stays with a list until it is exhausted.
Current(t, d) ==
    /\ flushed[t][d] < Len(queues[t][d])
    /\ \A o \in Destinations \ {d} : flushed[t][o] \in {0, Len(queues[t][o])}

Received(t, d) ==
    log' = [log EXCEPT ![d] = Append(@, queues[t][d][flushed[t][d] + 1])]

\* basicPublish of the next event of the list.
Publish(t, d) ==
    /\ pc[t] = "flushing"
    /\ Current(t, d)
    /\ Received(t, d)
    /\ flushed' = [flushed EXCEPT ![t][d] = @ + 1]
    /\ UNCHANGED <<queues, pc, tx, outcome, sent, begun, failures>>

\* Mutant of FlushEnds: flush does not clear.
FlushEndsWithQueue(t) ==
    /\ pc[t] = "flushing"
    /\ \A d \in Destinations : flushed[t][d] = Len(queues[t][d])
    /\ pc' = [pc EXCEPT ![t] = "running"]
    /\ UNCHANGED <<queues, flushed, tx, outcome, log, sent, begun, failures>>

\* flushInternal returns, and flush clears the map.
FlushEnds(t) ==
    /\ pc[t] = "flushing"
    /\ \A d \in Destinations : flushed[t][d] = Len(queues[t][d])
    /\ Clear(t)
    /\ pc' = [pc EXCEPT ![t] = "running"]
    /\ UNCHANGED <<flushed, tx, outcome, log, sent, begun, failures>>

\* No channel, or serialize or basicPublish throws, the broker having received
\* the event or not: flush throws AmqpException, and clear is not reached.
FlushFails(t) ==
    /\ pc[t] = "flushing"
    /\ failures < MaxFailures
    /\ failures' = failures + 1
    /\ \/ UNCHANGED log
       \/ \E d \in Destinations : Current(t, d) /\ Received(t, d)
    /\ pc' = [pc EXCEPT ![t] = "running"]
    /\ UNCHANGED <<queues, flushed, tx, outcome, sent, begun>>

-------------------------------------------------------------------------------
FlushStep(t) ==
    (\E d \in Destinations : Publish(t, d)) \/ FlushEnds(t) \/ FlushFails(t)

ThreadStep(t) ==
    \/ \E d \in Destinations : Send(t, d)
    \/ Begin(t) \/ Commit(t) \/ RollBack(t)
    \/ ExplicitFlush(t) \/ ExplicitClear(t)
    \/ FlushStep(t)

Next == \E t \in Threads : ThreadStep(t)

Spec == Init /\ [][Next]_vars

\* A flush runs on; nothing is assumed about when transactions begin or end.
FairSpec == Spec /\ \A t \in Threads : WF_vars(FlushStep(t))
-------------------------------------------------------------------------------
Logged == UNION {ToSet(log[d]) : d \in Destinations}
Queued(t) == UNION {ToSet(queues[t][d]) : d \in Destinations}

\* Where the broker has e.
Publications(e) == UNION {{d} \X {i \in DOMAIN log[d] : log[d][i] = e} : d \in Destinations}

Committed(e) == e.tx # NoTransaction /\ outcome[e.tx] = "committed"

\* No event of a transaction that is open or was rolled back is ever published,
\* however transactions follow each other on the thread and whatever flush fails.
OnlyCommittedPublished ==
    \A e \in Logged : e.tx # NoTransaction => Committed(e)

\* The first publications of a thread's events for a destination come in the order
\* of sending, also when a failed flush is taken up by a later one.
PublishedInOrder ==
    \A d \in Destinations : \A i, j \in DOMAIN log[d] :
        LET a == log[d][i]
            b == log[d][j]
        IN  a.by = b.by /\ a.id < b.id
                => \E h \in 1 .. j : log[d][h] = a

\* A committed event is published or queued for the flush under way; only a flush
\* that throws leaves it to the mercy of the thread's next transaction.
CommittedNotLost ==
    failures = 0 =>
        \A e \in ToSet(sent) : Committed(e) => e \in Logged \cup Queued(e.by)

\* A committed event is sent to the broker once: if that fails, "we don't retry".
NotRetried == \A e \in Logged : Committed(e) => Cardinality(Publications(e)) <= 1

\* Only a flush that threw makes an event reach the broker again.
RepeatedOnlyAfterFailure == \A e \in Logged : Cardinality(Publications(e)) <= 1 + failures

\* Every committed event reaches the broker, unless a flush throws.
CommittedArePublished ==
    \A n \in 1 .. MaxEvents :
        (n <= Len(sent) /\ Committed(sent[n]))
            ~> ((n <= Len(sent) /\ sent[n] \in Logged) \/ failures > 0)
===============================================================================
