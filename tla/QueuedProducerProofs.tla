-------------------------- MODULE QueuedProducerProofs --------------------------
(***************************************************************************)
(* For any threads, destinations and number of transactions, events and    *)
(* failing flushes: only events of committed transactions are published    *)
(* (OnlyCommittedPublished), in the order of sending (PublishedInOrder),   *)
(* and none is lost (CommittedNotLost) or repeated unless a flush throws   *)
(* (RepeatedOnlyAfterFailure).                                             *)
(*                                                                         *)
(* A failed flush leaves events in the queue of its thread while the next  *)
(* transactions of the thread come and go, so the invariant has to say     *)
(* whose events a queue can hold: those of the open transaction, and       *)
(* those of committed ones.  That a roll back cannot reach a committed     *)
(* event needs transactions to be open once, in one thread.                *)
(***************************************************************************)
EXTENDS QueuedProducer, FiniteSetTheorems, TLAPS

\* The part of the type invariant that the argument needs.
QueueTypes ==
    /\ queues \in [Threads -> [Destinations -> Seq(Event)]]
    /\ flushed \in [Threads -> [Destinations -> Nat]]
    /\ pc \in [Threads -> {"running", "flushing"}]
    /\ tx \in [Threads -> {NoTransaction} \cup Transactions]
    /\ outcome \in [Transactions -> {"open", "committed", "rolled_back"}]
    /\ log \in [Destinations -> Seq(Event)]
    /\ sent \in Seq(Event)
    /\ Len(sent) <= MaxEvents
    /\ begun \in 0 .. MaxTransactions

\* A transaction in progress is open, has begun, and belongs to one thread that does
\* not flush meanwhile; those to come are open.
TransactionsOpen ==
    /\ \A t \in Threads : tx[t] # NoTransaction =>
          /\ tx[t] <= begun
          /\ outcome[tx[t]] = "open"
          /\ t \notin Explicit
          /\ pc[t] # "flushing"
          /\ \A u \in Threads \ {t} : tx[u] # tx[t]
    /\ \A x \in Transactions : x > begun => outcome[x] = "open"

\* The events of s may be published now, or once transaction x commits.
Publishable(s, x) ==
    \A i \in DOMAIN s : s[i].tx # NoTransaction =>
        s[i].tx = x \/ outcome[s[i].tx] = "committed"

QueuesPublishable ==
    \A t \in Threads : \A d \in Destinations : Publishable(queues[t][d], tx[t])

LogCommitted == \A d \in Destinations : Publishable(log[d], NoTransaction)

QueueInv == QueueTypes /\ TransactionsOpen /\ QueuesPublishable /\ LogCommitted

-------------------------------------------------------------------------------
\* An empty map is a map of lists.
LEMMA EmptyType == Empty \in [Destinations -> Seq(Event)]
  BY DEF Empty

\* Every event of a list was sent inside a transaction or outside of any.
LEMMA ScopeOfEvent ==
    ASSUME NEW s \in Seq(Event), NEW i \in DOMAIN s
    PROVE  s[i].tx \in {NoTransaction} \cup Transactions
<1>1. s[i] \in Event
  OBVIOUS
<1> QED BY <1>1 DEF Event

\* A step after which the same transactions are open, the outcomes are the same, and
\* every queue is what it was or empty, keeps the invariant if the log does not change.
LEMMA QuietKeepsQueues ==
    ASSUME QueueInv, QueueTypes',
           UNCHANGED <<tx, outcome, log, begun>>,
           \A t \in Threads : queues'[t] = queues[t] \/ queues'[t] = Empty,
           \A t \in Threads : pc'[t] = "flushing" => pc[t] = "flushing" \/ tx[t] = NoTransaction
    PROVE  QueueInv'
<1>1. TransactionsOpen'
  BY DEF QueueInv, TransactionsOpen
<1>2. QueuesPublishable'
  <2> SUFFICES ASSUME NEW t \in Threads, NEW d \in Destinations
               PROVE  Publishable(queues[t][d], tx[t])'
    BY DEF QueuesPublishable
  <2>1. CASE queues'[t] = queues[t]
    BY <2>1 DEF QueueInv, QueuesPublishable, Publishable
  <2>2. CASE queues'[t] = Empty
    BY <2>2 DEF Empty, Publishable
  <2> QED BY <2>1, <2>2
<1>3. LogCommitted'
  BY DEF QueueInv, LogCommitted, Publishable
<1> QED BY <1>1, <1>2, <1>3 DEF QueueInv

\* send: the new event belongs to the open transaction of its thread.
LEMMA SendKeepsQueues ==
    ASSUME QueueInv, NEW t \in Threads, NEW d \in Destinations, Send(t, d)
    PROVE  QueueInv'
<1> DEFINE e == [id |-> Len(sent) + 1, by |-> t, tx |-> tx[t]]
<1>1. /\ Len(sent) < MaxEvents
      /\ sent' = Append(sent, e)
      /\ queues' = [queues EXCEPT ![t][d] = Append(@, e)]
      /\ UNCHANGED <<flushed, pc, tx, outcome, log, begun>>
  BY DEF Send
<1>2. e \in Event /\ e.tx = tx[t]
  BY <1>1, ConstantsAssumption DEF ConstantsAssumption, QueueInv, QueueTypes, Event
<1> HIDE DEF e
<1>3. QueueTypes'
  BY <1>1, <1>2, ConstantsAssumption DEF ConstantsAssumption, QueueInv, QueueTypes
<1>4. TransactionsOpen'
  BY <1>1 DEF QueueInv, TransactionsOpen
<1>5. QueuesPublishable'
  <2> SUFFICES ASSUME NEW u \in Threads, NEW f \in Destinations
               PROVE  Publishable(queues[u][f], tx[u])'
    BY DEF QueuesPublishable
  <2>1. CASE u = t /\ f = d
    <3>1. queues'[u][f] = Append(queues[t][d], e) /\ queues[t][d] \in Seq(Event)
      BY <1>1, <2>1 DEF QueueInv, QueueTypes
    <3>2. \A i \in DOMAIN queues'[u][f] :
             queues'[u][f][i] = e \/ (i \in DOMAIN queues[t][d] /\ queues'[u][f][i] = queues[t][d][i])
      BY <3>1, <1>2
    <3> QED BY <1>1, <1>2, <2>1, <3>2 DEF QueueInv, QueuesPublishable, Publishable
  <2>2. CASE ~(u = t /\ f = d)
    <3>1. queues'[u][f] = queues[u][f]
      BY <1>1, <2>2 DEF QueueInv, QueueTypes
    <3>2. tx'[u] = tx[u] /\ outcome' = outcome
      BY <1>1
    <3>3. Publishable(queues[u][f], tx[u])
      BY DEF QueueInv, QueuesPublishable
    <3> QED BY <3>1, <3>2, <3>3 DEF Publishable
  <2> QED BY <2>1, <2>2
<1>6. LogCommitted'
  BY <1>1 DEF QueueInv, LogCommitted, Publishable
<1> QED BY <1>3, <1>4, <1>5, <1>6 DEF QueueInv

\* A transaction begins under a number that no event and no thread has.
LEMMA BeginKeepsQueues ==
    ASSUME QueueInv, NEW t \in Threads, Begin(t)
    PROVE  QueueInv'
<1>1. /\ t \notin Explicit /\ pc[t] = "running" /\ tx[t] = NoTransaction
      /\ begun < MaxTransactions /\ begun' = begun + 1
      /\ tx' = [tx EXCEPT ![t] = begun + 1]
      /\ UNCHANGED <<queues, flushed, pc, outcome, log, sent>>
  BY DEF Begin
<1>2. begun \in Nat /\ MaxTransactions \in Nat /\ begun + 1 \in Transactions
  BY <1>1, ConstantsAssumption DEF ConstantsAssumption, QueueInv, QueueTypes, Transactions
<1>3. QueueTypes'
  BY <1>1, <1>2 DEF QueueInv, QueueTypes, Transactions
<1>4. TransactionsOpen'
  <2>1. \A u \in Threads : tx'[u] = IF u = t THEN begun + 1 ELSE tx[u]
    BY <1>1 DEF QueueInv, QueueTypes
  <2>2. ASSUME NEW u \in Threads PROVE tx[u] # begun + 1
    <3>1. CASE tx[u] = NoTransaction
      BY <1>2, <3>1 DEF NoTransaction
    <3>2. CASE tx[u] # NoTransaction
      <4>1. tx[u] \in Nat
        BY <3>2 DEF QueueInv, QueueTypes, Transactions
      <4>2. tx[u] <= begun
        BY <3>2 DEF QueueInv, TransactionsOpen
      <4> QED BY <1>2, <4>1, <4>2
    <3> QED BY <3>1, <3>2
  <2> QED BY <1>1, <1>2, <2>1, <2>2
          DEF QueueInv, QueueTypes, TransactionsOpen, Transactions, NoTransaction
<1>5. QueuesPublishable'
  BY <1>1 DEF QueueInv, QueueTypes, QueuesPublishable, Publishable
<1>6. LogCommitted'
  BY <1>1 DEF QueueInv, LogCommitted, Publishable
<1> QED BY <1>3, <1>4, <1>5, <1>6 DEF QueueInv

\* A commit turns the events of its transaction into events of a committed one.
LEMMA CommitKeepsQueues ==
    ASSUME QueueInv, NEW t \in Threads, Commit(t)
    PROVE  QueueInv'
<1>1. /\ pc[t] = "running" /\ tx[t] # NoTransaction /\ tx[t] \in Transactions
      /\ outcome' = [outcome EXCEPT ![tx[t]] = "committed"]
      /\ tx' = [tx EXCEPT ![t] = NoTransaction]
      /\ pc' = [pc EXCEPT ![t] = "flushing"]
      /\ flushed' = [flushed EXCEPT ![t] = Start]
      /\ UNCHANGED <<queues, log, sent, begun>>
  BY DEF Commit, StartFlush, QueueInv, QueueTypes
<1>2. Start \in [Destinations -> Nat]
  BY DEF Start
<1>3. QueueTypes'
  BY <1>1, <1>2 DEF QueueInv, QueueTypes
<1>4. /\ \A u \in Threads : tx'[u] = IF u = t THEN NoTransaction ELSE tx[u]
      /\ \A x \in Transactions : outcome'[x] = IF x = tx[t] THEN "committed" ELSE outcome[x]
  BY <1>1 DEF QueueInv, QueueTypes
<1>5. TransactionsOpen'
  <2>1. \A u \in Threads \ {t} : pc'[u] = "flushing" => pc[u] = "flushing"
    BY <1>1
  <2>2. \A x \in Transactions : x > begun => x # tx[t]
    BY <1>1 DEF QueueInv, QueueTypes, TransactionsOpen, Transactions
  <2> QED BY <1>1, <1>4, <2>1, <2>2 DEF QueueInv, QueueTypes, TransactionsOpen, Transactions
<1>6. ASSUME NEW s \in Seq(Event), NEW i \in DOMAIN s, s[i].tx # NoTransaction,
             outcome[s[i].tx] = "committed" \/ s[i].tx = tx[t]
      PROVE  outcome'[s[i].tx] = "committed"
  <2>1. s[i].tx \in Transactions
    BY <1>6, ScopeOfEvent
  <2> QED BY <1>4, <1>6, <2>1
<1>7. QueuesPublishable'
  <2> SUFFICES ASSUME NEW u \in Threads, NEW d \in Destinations
               PROVE  Publishable(queues[u][d], tx[u])'
    BY DEF QueuesPublishable
  <2>1. queues[u][d] \in Seq(Event) /\ Publishable(queues[u][d], tx[u])
    BY DEF QueueInv, QueueTypes, QueuesPublishable
  <2>2. CASE u = t
    BY <1>1, <1>6, <2>1, <2>2 DEF Publishable
  <2>3. CASE u # t
    BY <1>1, <1>4, <1>6, <2>1, <2>3 DEF Publishable
  <2> QED BY <2>2, <2>3
<1>8. LogCommitted'
  <2> SUFFICES ASSUME NEW d \in Destinations
               PROVE  Publishable(log[d], NoTransaction)'
    BY DEF LogCommitted
  <2>1. log[d] \in Seq(Event) /\ Publishable(log[d], NoTransaction)
    BY DEF QueueInv, QueueTypes, LogCommitted
  <2> QED BY <1>1, <1>6, <2>1 DEF Publishable
<1> QED BY <1>3, <1>5, <1>7, <1>8 DEF QueueInv

\* A roll back empties the queue of its thread, and no committed event is in another
\* queue or in the log because of the transaction that is rolled back: it was open.
LEMMA RollBackKeepsQueues ==
    ASSUME QueueInv, NEW t \in Threads, RollBack(t)
    PROVE  QueueInv'
<1>1. /\ pc[t] = "running" /\ tx[t] # NoTransaction /\ tx[t] \in Transactions
      /\ outcome[tx[t]] = "open"
      /\ outcome' = [outcome EXCEPT ![tx[t]] = "rolled_back"]
      /\ tx' = [tx EXCEPT ![t] = NoTransaction]
      /\ queues' = [queues EXCEPT ![t] = Empty]
      /\ UNCHANGED <<flushed, pc, log, sent, begun>>
  BY DEF RollBack, Clear, QueueInv, QueueTypes, TransactionsOpen
<1>2. QueueTypes'
  BY <1>1, EmptyType DEF QueueInv, QueueTypes
<1>3. /\ \A u \in Threads : tx'[u] = IF u = t THEN NoTransaction ELSE tx[u]
      /\ \A x \in Transactions : outcome'[x] = IF x = tx[t] THEN "rolled_back" ELSE outcome[x]
  BY <1>1 DEF QueueInv, QueueTypes
<1>4. TransactionsOpen'
  <2>1. \A x \in Transactions : x > begun => x # tx[t]
    BY <1>1 DEF QueueInv, QueueTypes, TransactionsOpen, Transactions
  <2> QED BY <1>1, <1>3, <2>1 DEF QueueInv, QueueTypes, TransactionsOpen, Transactions
<1>5. ASSUME NEW s \in Seq(Event), NEW i \in DOMAIN s, s[i].tx # NoTransaction,
             outcome[s[i].tx] = "committed"
      PROVE  outcome'[s[i].tx] = "committed"
  <2>1. s[i].tx \in Transactions
    BY <1>5, ScopeOfEvent
  <2> QED BY <1>1, <1>3, <1>5, <2>1
<1>6. QueuesPublishable'
  <2> SUFFICES ASSUME NEW u \in Threads, NEW d \in Destinations
               PROVE  Publishable(queues[u][d], tx[u])'
    BY DEF QueuesPublishable
  <2>1. CASE u = t
    BY <1>1, <2>1 DEF QueueInv, QueueTypes, Empty, Publishable
  <2>2. CASE u # t
    <3>1. queues[u][d] \in Seq(Event) /\ Publishable(queues[u][d], tx[u])
      BY DEF QueueInv, QueueTypes, QueuesPublishable
    <3>2. queues'[u][d] = queues[u][d] /\ tx'[u] = tx[u]
      BY <1>1, <1>3, <2>2 DEF QueueInv, QueueTypes
    <3> QED BY <1>5, <3>1, <3>2 DEF Publishable
  <2> QED BY <2>1, <2>2
<1>7. LogCommitted'
  <2> SUFFICES ASSUME NEW d \in Destinations
               PROVE  Publishable(log[d], NoTransaction)'
    BY DEF LogCommitted
  <2>1. log[d] \in Seq(Event) /\ Publishable(log[d], NoTransaction)
    BY DEF QueueInv, QueueTypes, LogCommitted
  <2> QED BY <1>1, <1>5, <2>1 DEF Publishable
<1> QED BY <1>2, <1>4, <1>6, <1>7 DEF QueueInv

\* flush and clear called by a thread that has no transactions.
LEMMA ExplicitKeepsQueues ==
    ASSUME QueueInv, NEW t \in Threads, ExplicitFlush(t) \/ ExplicitClear(t)
    PROVE  QueueInv'
<1>1. t \in Explicit /\ tx[t] = NoTransaction
  BY DEF ExplicitFlush, ExplicitClear, QueueInv, TransactionsOpen
<1>2. CASE ExplicitFlush(t)
  <2>1. /\ pc' = [pc EXCEPT ![t] = "flushing"]
        /\ flushed' = [flushed EXCEPT ![t] = Start]
        /\ UNCHANGED <<queues, tx, outcome, log, sent, begun>>
    BY <1>2 DEF ExplicitFlush, StartFlush
  <2>2. QueueTypes'
    BY <2>1 DEF QueueInv, QueueTypes, Start
  <2>3. \A u \in Threads : pc'[u] = "flushing" => pc[u] = "flushing" \/ tx[u] = NoTransaction
    BY <1>1, <2>1 DEF QueueInv, QueueTypes
  <2> QED BY <2>1, <2>2, <2>3, QuietKeepsQueues
<1>3. CASE ExplicitClear(t)
  <2>1. /\ queues' = [queues EXCEPT ![t] = Empty]
        /\ UNCHANGED <<flushed, pc, tx, outcome, log, sent, begun>>
    BY <1>3 DEF ExplicitClear, Clear
  <2>2. QueueTypes'
    BY <2>1, EmptyType DEF QueueInv, QueueTypes
  <2>3. \A u \in Threads : queues'[u] = queues[u] \/ queues'[u] = Empty
    BY <2>1 DEF QueueInv, QueueTypes
  <2> QED BY <2>1, <2>2, <2>3, QuietKeepsQueues
<1> QED BY <1>2, <1>3

\* flush ends and clears the queue.
LEMMA FlushEndsKeepsQueues ==
    ASSUME QueueInv, NEW t \in Threads, FlushEnds(t)
    PROVE  QueueInv'
<1>1. /\ queues' = [queues EXCEPT ![t] = Empty]
      /\ pc' = [pc EXCEPT ![t] = "running"]
      /\ UNCHANGED <<flushed, tx, outcome, log, sent, begun>>
  BY DEF FlushEnds, Clear
<1>2. QueueTypes'
  BY <1>1, EmptyType DEF QueueInv, QueueTypes
<1>3. /\ \A u \in Threads : queues'[u] = queues[u] \/ queues'[u] = Empty
      /\ \A u \in Threads : pc'[u] = "flushing" => pc[u] = "flushing"
  BY <1>1 DEF QueueInv, QueueTypes
<1> QED BY <1>1, <1>2, <1>3, QuietKeepsQueues

\* What a flush hands to the broker was sent outside of any transaction or in a
\* committed one: while it runs, its thread has no transaction.
LEMMA ReceivedIsCommitted ==
    ASSUME QueueInv, NEW t \in Threads, NEW d \in Destinations,
           pc[t] = "flushing", Current(t, d), Received(t, d), UNCHANGED outcome
    PROVE  log' \in [Destinations -> Seq(Event)] /\ LogCommitted'
<1> DEFINE i == flushed[t][d] + 1
           e == queues[t][d][i]
<1>1. tx[t] = NoTransaction
  BY DEF QueueInv, TransactionsOpen
<1>2. queues[t][d] \in Seq(Event) /\ flushed[t][d] \in Nat
  BY DEF QueueInv, QueueTypes
<1>3. i \in DOMAIN queues[t][d]
  BY <1>2 DEF Current
<1>4. e \in Event
  BY <1>2, <1>3
<1>5. e.tx # NoTransaction => outcome[e.tx] = "committed"
  <2>1. Publishable(queues[t][d], NoTransaction)
    BY <1>1 DEF QueueInv, QueuesPublishable
  <2> QED BY <1>3, <2>1 DEF Publishable
<1>6. log' = [log EXCEPT ![d] = Append(@, e)]
  BY DEF Received
<1> HIDE DEF e
<1>7. log' \in [Destinations -> Seq(Event)]
  BY <1>4, <1>6 DEF QueueInv, QueueTypes
<1>8. LogCommitted'
  <2> SUFFICES ASSUME NEW f \in Destinations
               PROVE  Publishable(log[f], NoTransaction)'
    BY DEF LogCommitted
  <2>1. log[f] \in Seq(Event) /\ Publishable(log[f], NoTransaction)
    BY DEF QueueInv, QueueTypes, LogCommitted
  <2>2. log'[f] = log[f] \/ log'[f] = Append(log[f], e)
    BY <1>6 DEF QueueInv, QueueTypes
  <2>3. \A n \in DOMAIN log'[f] :
           log'[f][n] = e \/ (n \in DOMAIN log[f] /\ log'[f][n] = log[f][n])
    BY <1>4, <2>1, <2>2
  <2> QED BY <1>5, <2>1, <2>3 DEF Publishable
<1> QED BY <1>7, <1>8

\* A step of a flush that may add to the log but leaves the queues alone.
LEMMA PublishingKeepsQueues ==
    ASSUME QueueInv, NEW t \in Threads,
           FlushFails(t) \/ \E d \in Destinations : Publish(t, d)
    PROVE  QueueInv'
<1>1. /\ pc[t] = "flushing"
      /\ UNCHANGED <<queues, tx, outcome, sent, begun>>
      /\ UNCHANGED log \/ \E d \in Destinations : Current(t, d) /\ Received(t, d)
  BY DEF FlushFails, Publish
<1>2. log' \in [Destinations -> Seq(Event)] /\ LogCommitted'
  <2>1. CASE UNCHANGED log
    BY <1>1, <2>1 DEF QueueInv, QueueTypes, LogCommitted, Publishable
  <2>2. CASE \E d \in Destinations : Current(t, d) /\ Received(t, d)
    BY <1>1, <2>2, ReceivedIsCommitted
  <2> QED BY <1>1, <2>1, <2>2
<1>3. flushed' \in [Threads -> [Destinations -> Nat]]
  <2>1. CASE FlushFails(t)
    BY <2>1 DEF FlushFails, QueueInv, QueueTypes
  <2>2. CASE \E d \in Destinations : Publish(t, d)
    BY <2>2 DEF Publish, QueueInv, QueueTypes
  <2> QED BY <2>1, <2>2
<1>4. pc' = pc \/ pc' = [pc EXCEPT ![t] = "running"]
  BY DEF FlushFails, Publish
<1>5. pc' \in [Threads -> {"running", "flushing"}]
  BY <1>4 DEF QueueInv, QueueTypes
<1>6. \A u \in Threads : pc'[u] = "flushing" => pc[u] = "flushing"
  BY <1>4 DEF QueueInv, QueueTypes
<1>7. QueueTypes'
  BY <1>1, <1>2, <1>3, <1>5 DEF QueueInv, QueueTypes
<1>8. TransactionsOpen'
  BY <1>1, <1>6 DEF QueueInv, TransactionsOpen
<1>9. QueuesPublishable'
  BY <1>1 DEF QueueInv, QueuesPublishable, Publishable
<1> QED BY <1>2, <1>7, <1>8, <1>9 DEF QueueInv

-------------------------------------------------------------------------------
\* No transaction has begun and nothing is queued.
LEMMA QueuesInit == Init => QueueInv
<1> SUFFICES ASSUME Init PROVE QueueInv
  OBVIOUS
<1>1. QueueTypes
  BY EmptyType, ConstantsAssumption
     DEF Init, Start, QueueTypes, ConstantsAssumption
<1>2. TransactionsOpen
  BY DEF Init, TransactionsOpen
<1>3. QueuesPublishable /\ LogCommitted
  BY DEF Init, Empty, QueuesPublishable, LogCommitted, Publishable
<1> QED BY <1>1, <1>2, <1>3 DEF QueueInv

\* Every step keeps the invariant.
LEMMA QueuesNext == QueueInv /\ [Next]_vars => QueueInv'
<1> SUFFICES ASSUME QueueInv, [Next]_vars PROVE QueueInv'
  OBVIOUS
<1>1. CASE UNCHANGED vars
  <2>1. QueueTypes'
    BY <1>1 DEF vars, QueueInv, QueueTypes
  <2> QED BY <1>1, <2>1, QuietKeepsQueues DEF vars
<1>2. CASE Next
  <2>1. PICK t \in Threads : ThreadStep(t)
    BY <1>2 DEF Next
  <2>2. CASE \E d \in Destinations : Send(t, d)
    BY <2>2, SendKeepsQueues
  <2>3. CASE Begin(t)
    BY <2>3, BeginKeepsQueues
  <2>4. CASE Commit(t)
    BY <2>4, CommitKeepsQueues
  <2>5. CASE RollBack(t)
    BY <2>5, RollBackKeepsQueues
  <2>6. CASE ExplicitFlush(t) \/ ExplicitClear(t)
    BY <2>6, ExplicitKeepsQueues
  <2>7. CASE FlushEnds(t)
    BY <2>7, FlushEndsKeepsQueues
  <2>8. CASE FlushFails(t) \/ \E d \in Destinations : Publish(t, d)
    BY <2>8, PublishingKeepsQueues
  <2> QED BY <2>1, <2>2, <2>3, <2>4, <2>5, <2>6, <2>7, <2>8 DEF ThreadStep, FlushStep
<1> QED BY <1>1, <1>2

\* The queues and the log keep to committed events and those of the open transaction.
THEOREM QueuesInvariant == Spec => []QueueInv
<1>1. Init => QueueInv
  BY QueuesInit
<1>2. QueueInv /\ [Next]_vars => QueueInv'
  BY QueuesNext
<1> QED BY <1>1, <1>2, PTL DEF Spec

\* QueuedProducerTransactionInterceptor and QueuedProducer never hand the broker an
\* event of a transaction that is open or was rolled back.
THEOREM PublishesOnlyCommitted == Spec => []OnlyCommittedPublished
<1>1. QueueInv => OnlyCommittedPublished
  <2> SUFFICES ASSUME QueueInv, NEW e \in Logged, e.tx # NoTransaction
               PROVE  Committed(e)
    BY DEF OnlyCommittedPublished
  <2>1. PICK d \in Destinations : e \in ToSet(log[d])
    BY DEF Logged
  <2>2. PICK i \in DOMAIN log[d] : e = log[d][i]
    BY <2>1 DEF ToSet
  <2>3. Publishable(log[d], NoTransaction)
    BY DEF QueueInv, LogCommitted
  <2> QED BY <2>2, <2>3 DEF Publishable, Committed
<1> QED BY <1>1, QueuesInvariant, PTL

-------------------------------------------------------------------------------
\* That no committed event is lost while no flush throws.

InLog(e) == \E d \in Destinations : \E i \in DOMAIN log[d] : log[d][i] = e

InQueue(t, e) == \E d \in Destinations : \E i \in DOMAIN queues[t][d] : queues[t][d][i] = e

\* The part of the queue that a flush has behind it reached the broker.
PrefixLogged ==
    \A t \in Threads : pc[t] = "flushing" =>
        \A d \in Destinations : \A i \in DOMAIN queues[t][d] :
            i <= flushed[t][d] => InLog(queues[t][d][i])

\* An event of an open transaction is queued by the thread of the transaction; one of a
\* committed transaction is logged, or queued by a thread that flushes.
Safe(e) ==
    e.tx # NoTransaction =>
        /\ outcome[e.tx] = "open" => tx[e.by] = e.tx /\ InQueue(e.by, e)
        /\ outcome[e.tx] = "committed" =>
              InLog(e) \/ (pc[e.by] = "flushing" /\ InQueue(e.by, e))

KeptInv ==
    /\ QueueInv
    /\ failures \in 0 .. MaxFailures
    /\ failures = 0 => PrefixLogged /\ \A e \in ToSet(sent) : Safe(e)

\* What was sent were events.
LEMMA SentAreEvents == ASSUME QueueInv, NEW e \in ToSet(sent) PROVE e \in Event
<1>1. PICK n \in DOMAIN sent : e = sent[n]
  BY DEF ToSet
<1> QED BY <1>1 DEF QueueInv, QueueTypes

\* The log of a destination only grows.
LEMMA ReceivedGrows ==
    ASSUME QueueInv, NEW t \in Threads, NEW d \in Destinations,
           Current(t, d), Received(t, d),
           NEW r, r = queues[t][d][flushed[t][d] + 1]
    PROVE  (\A e : InLog(e) => InLog(e)') /\ InLog(r)'
<1>1. queues[t][d] \in Seq(Event) /\ flushed[t][d] \in Nat /\ log[d] \in Seq(Event)
  BY DEF QueueInv, QueueTypes
<1>2. r \in Event
  BY <1>1 DEF Current
<1>3. log' = [log EXCEPT ![d] = Append(@, r)]
  BY DEF Received
<1>4. DOMAIN log[d] \subseteq DOMAIN log'[d] /\ \A i \in DOMAIN log[d] : log'[d][i] = log[d][i]
  BY <1>1, <1>2, <1>3 DEF QueueInv, QueueTypes
<1>5. Len(log[d]) + 1 \in DOMAIN log'[d] /\ log'[d][Len(log[d]) + 1] = r
  BY <1>1, <1>2, <1>3 DEF QueueInv, QueueTypes
<1>6. \A o \in Destinations \ {d} : log'[o] = log[o]
  BY <1>3 DEF QueueInv, QueueTypes
<1>7. ASSUME NEW e, InLog(e) PROVE InLog(e)'
  <2>1. PICK o \in Destinations : \E i \in DOMAIN log[o] : log[o][i] = e
    BY <1>7 DEF InLog
  <2>2. CASE o = d
    BY <2>1, <2>2, <1>4 DEF InLog
  <2>3. CASE o # d
    BY <2>1, <2>3, <1>6 DEF InLog
  <2> QED BY <2>2, <2>3
<1>8. InLog(r)'
  BY <1>5 DEF InLog
<1> QED BY <1>7, <1>8

\* Send keeps what is queued, and queues the new event.
LEMMA SendQueues ==
    ASSUME QueueInv, NEW t \in Threads, NEW d \in Destinations, Send(t, d)
    PROVE  /\ \A u \in Threads : \A e : InQueue(u, e) => InQueue(u, e)'
           /\ \A e \in ToSet(sent') : e \in ToSet(sent) \/
                 (e.by = t /\ e.tx = tx[t] /\ InQueue(t, e)')
<1>1. PICK n : /\ n = [id |-> Len(sent) + 1, by |-> t, tx |-> tx[t]]
               /\ sent' = Append(sent, n)
               /\ queues' = [queues EXCEPT ![t][d] = Append(@, n)]
  BY DEF Send
<1>2. n \in Event /\ n.by = t /\ n.tx = tx[t]
  BY <1>1, ConstantsAssumption DEF Send, ConstantsAssumption, QueueInv, QueueTypes, Event
<1>3. queues[t][d] \in Seq(Event) /\ queues'[t][d] = Append(queues[t][d], n)
  BY <1>1 DEF QueueInv, QueueTypes
<1>4. /\ \A i \in DOMAIN queues[t][d] : i \in DOMAIN queues'[t][d]
            /\ queues'[t][d][i] = queues[t][d][i]
      /\ Len(queues[t][d]) + 1 \in DOMAIN queues'[t][d]
      /\ queues'[t][d][Len(queues[t][d]) + 1] = n
  BY <1>2, <1>3
<1>5. ASSUME NEW u \in Threads, NEW o \in Destinations, ~(u = t /\ o = d)
      PROVE  queues'[u][o] = queues[u][o]
  BY <1>1, <1>5 DEF QueueInv, QueueTypes
<1>6. ASSUME NEW u \in Threads, NEW e, InQueue(u, e) PROVE InQueue(u, e)'
  <2>1. PICK o \in Destinations : \E i \in DOMAIN queues[u][o] : queues[u][o][i] = e
    BY <1>6 DEF InQueue
  <2>2. CASE u = t /\ o = d
    BY <2>1, <2>2, <1>4 DEF InQueue
  <2>3. CASE ~(u = t /\ o = d)
    BY <2>1, <2>3, <1>5 DEF InQueue
  <2> QED BY <2>2, <2>3
<1>7. InQueue(t, n)'
  BY <1>4 DEF InQueue
<1>8. ASSUME NEW e \in ToSet(sent') PROVE e \in ToSet(sent) \/ e = n
  <2>1. PICK i \in DOMAIN sent' : e = sent'[i]
    BY <1>8 DEF ToSet
  <2>2. sent \in Seq(Event)
    BY DEF QueueInv, QueueTypes
  <2>3. (i \in DOMAIN sent /\ sent'[i] = sent[i]) \/ sent'[i] = n
    BY <1>1, <1>2, <2>1, <2>2
  <2> QED BY <2>1, <2>3 DEF ToSet
<1> QED BY <1>2, <1>6, <1>7, <1>8

\* What is safe stays safe, while no flush throws.
LEMMA StaysSafe ==
    ASSUME QueueInv, failures = 0, PrefixLogged, NEW e \in Event, Safe(e),
           NEW t \in Threads, ThreadStep(t), failures' = 0
    PROVE  Safe(e)'
<1> SUFFICES ASSUME e.tx # NoTransaction PROVE Safe(e)'
  BY DEF Safe
<1> USE DEF Safe
<1>0. e.by \in Threads /\ e.tx \in Transactions
  BY DEF Event
<1>1. CASE \E d \in Destinations : Send(t, d)
  <2>1. \A u \in Threads : InQueue(u, e) => InQueue(u, e)'
    BY <1>1, SendQueues
  <2> QED BY <1>0, <1>1, <2>1 DEF Send, InLog
<1>2. CASE Begin(t)
  BY <1>0, <1>2 DEF Begin, InLog, InQueue, QueueInv, QueueTypes, TransactionsOpen
<1>3. CASE Commit(t)
  <2>1. UNCHANGED <<queues, log>> /\ (InQueue(e.by, e) => InQueue(e.by, e)') /\ (InLog(e) => InLog(e)')
    BY <1>3 DEF Commit, InQueue, InLog
  <2>2. CASE e.by = t
    BY <1>0, <1>3, <2>1, <2>2
       DEF Commit, StartFlush, QueueInv, QueueTypes, TransactionsOpen
  <2>3. CASE e.by # t
    BY <1>0, <1>3, <2>1, <2>3
       DEF Commit, StartFlush, QueueInv, QueueTypes, TransactionsOpen
  <2> QED BY <2>2, <2>3
<1>4. CASE RollBack(t)
  <2>1. UNCHANGED log /\ (InLog(e) => InLog(e)') /\ (e.by # t /\ InQueue(e.by, e) => InQueue(e.by, e)')
    BY <1>0, <1>4 DEF RollBack, Clear, InQueue, InLog, QueueInv, QueueTypes
  <2>2. CASE e.by = t
    BY <1>0, <1>4, <2>1, <2>2
       DEF RollBack, QueueInv, QueueTypes, TransactionsOpen
  <2>3. CASE e.by # t
    BY <1>0, <1>4, <2>1, <2>3
       DEF RollBack, QueueInv, QueueTypes, TransactionsOpen
  <2> QED BY <2>2, <2>3
<1>5. CASE ExplicitFlush(t)
  BY <1>0, <1>5 DEF ExplicitFlush, StartFlush, InLog, InQueue, QueueInv, QueueTypes
<1>6. CASE ExplicitClear(t)
  <2>1. e.by = t => outcome[e.tx] # "open"
    BY <1>0, <1>6 DEF ExplicitClear, QueueInv, TransactionsOpen
  <2>2. UNCHANGED log /\ (InLog(e) => InLog(e)') /\ (e.by # t /\ InQueue(e.by, e) => InQueue(e.by, e)')
    BY <1>0, <1>6 DEF ExplicitClear, Clear, InQueue, InLog, QueueInv, QueueTypes
  <2> QED BY <1>0, <1>6, <2>1, <2>2 DEF ExplicitClear
<1>7. CASE \E d \in Destinations : Publish(t, d)
  <2>1. InLog(e) => InLog(e)'
    BY <1>7, ReceivedGrows DEF Publish
  <2> QED BY <1>7, <2>1 DEF Publish, InQueue
<1>8. CASE FlushEnds(t)
  <2>1. UNCHANGED log /\ (InLog(e) => InLog(e)') /\ (e.by # t /\ InQueue(e.by, e) => InQueue(e.by, e)')
    BY <1>0, <1>8 DEF FlushEnds, Clear, InQueue, InLog, QueueInv, QueueTypes
  <2>2. CASE e.by = t
    <3>1. outcome[e.tx] # "open"
      BY <1>0, <1>8, <2>2 DEF FlushEnds, QueueInv, TransactionsOpen
    <3>2. InQueue(t, e) => InLog(e)
      <4> SUFFICES ASSUME NEW d \in Destinations, NEW i \in DOMAIN queues[t][d],
                          queues[t][d][i] = e
                   PROVE  InLog(e)
        BY DEF InQueue
      <4>1. queues[t][d] \in Seq(Event)
        BY DEF QueueInv, QueueTypes
      <4>2. i <= flushed[t][d]
        BY <1>8, <4>1 DEF FlushEnds
      <4> QED BY <1>8, <4>2 DEF FlushEnds, PrefixLogged
    <3> QED BY <1>8, <2>1, <2>2, <3>1, <3>2 DEF FlushEnds
  <2>3. CASE e.by # t
    BY <1>0, <1>8, <2>1, <2>3 DEF FlushEnds, QueueInv, QueueTypes
  <2> QED BY <2>2, <2>3
<1>9. CASE FlushFails(t)
  BY <1>9 DEF FlushFails
<1> QED
  BY <1>1, <1>2, <1>3, <1>4, <1>5, <1>6, <1>7, <1>8, <1>9 DEF ThreadStep, FlushStep

\* What a flush has behind it is logged.
LEMMA PrefixStaysLogged ==
    ASSUME QueueInv, failures = 0, PrefixLogged,
           NEW t \in Threads, ThreadStep(t), failures' = 0
    PROVE  PrefixLogged'
<1> SUFFICES ASSUME NEW u \in Threads, pc'[u] = "flushing", NEW d \in Destinations,
                    NEW i \in DOMAIN queues'[u][d], i <= flushed'[u][d],
                    NEW e, e = queues'[u][d][i]
             PROVE  InLog(e)'
  BY DEF PrefixLogged, InLog
<1>1. \A o \in Destinations : queues[u][o] \in Seq(Event) /\ flushed[u][o] \in Nat
  BY DEF QueueInv, QueueTypes
<1>2. CASE UNCHANGED <<queues[u], flushed[u], pc[u]>> /\ (\A x : InLog(x) => InLog(x)')
  <2>1. InLog(e)
    BY <1>2 DEF PrefixLogged
  <2> QED BY <1>2, <2>1
<1>3. ASSUME UNCHANGED log, NEW x, InLog(x) PROVE InLog(x)'
  BY <1>3 DEF InLog
<1>4. CASE \E o \in Destinations : Send(t, o)
  <2>1. u # t
    <3>1. pc[t] = "running" /\ UNCHANGED pc
      BY <1>4 DEF Send
    <3> QED BY <3>1
  <2>2. UNCHANGED <<queues[u], flushed[u], pc[u], log>>
    BY <1>4, <2>1 DEF Send, QueueInv, QueueTypes
  <2> QED BY <1>2, <1>3, <2>2
<1>5. CASE Begin(t)
  BY <1>2, <1>3, <1>5 DEF Begin
<1>6. CASE RollBack(t) \/ ExplicitClear(t)
  <2>1. u # t
    <3>1. pc[t] = "running" /\ UNCHANGED pc
      BY <1>6 DEF RollBack, ExplicitClear
    <3> QED BY <3>1
  <2>2. UNCHANGED <<queues[u], flushed[u], pc[u], log>>
    BY <1>6, <2>1 DEF RollBack, ExplicitClear, Clear, QueueInv, QueueTypes
  <2> QED BY <1>2, <1>3, <2>2
<1>7. CASE Commit(t) \/ ExplicitFlush(t)
  <2>1. CASE u = t
    <3>1. flushed'[u][d] = 0 /\ UNCHANGED queues
      BY <1>7, <2>1 DEF Commit, ExplicitFlush, StartFlush, Start, QueueInv, QueueTypes
    <3> QED BY <1>1, <3>1
  <2>2. CASE u # t
    <3>1. UNCHANGED <<queues[u], flushed[u], pc[u], log>>
      BY <1>7, <2>2 DEF Commit, ExplicitFlush, StartFlush, QueueInv, QueueTypes
    <3> QED BY <1>2, <1>3, <3>1
  <2> QED BY <2>1, <2>2
<1>8. ASSUME NEW o \in Destinations, Publish(t, o) PROVE InLog(e)'
  <2>1. \A x : InLog(x) => InLog(x)'
    BY <1>8, ReceivedGrows DEF Publish
  <2>2. CASE u = t /\ d = o /\ i = flushed[t][o] + 1
    <3>1. e = queues[t][o][flushed[t][o] + 1]
      BY <1>8, <2>2 DEF Publish
    <3> QED BY <1>8, <3>1, ReceivedGrows DEF Publish
  <2>3. CASE ~(u = t /\ d = o /\ i = flushed[t][o] + 1)
    <3>1. UNCHANGED <<queues, pc>>
      BY <1>8 DEF Publish
    <3>2. flushed'[u][d] = IF u = t /\ d = o THEN flushed[u][d] + 1 ELSE flushed[u][d]
      BY <1>8 DEF Publish, QueueInv, QueueTypes
    <3>3. i <= flushed[u][d]
      BY <1>1, <2>3, <3>1, <3>2
    <3>4. InLog(e)
      BY <3>1, <3>3 DEF PrefixLogged
    <3> QED BY <2>1, <3>4
  <2> QED BY <2>2, <2>3
<1>9. CASE FlushEnds(t)
  <2>1. u # t
    BY <1>9 DEF FlushEnds, QueueInv, QueueTypes
  <2>2. UNCHANGED <<queues[u], flushed[u], pc[u], log>>
    BY <1>9, <2>1 DEF FlushEnds, Clear, QueueInv, QueueTypes
  <2> QED BY <1>2, <1>3, <2>2
<1>10. CASE FlushFails(t)
  BY <1>10 DEF FlushFails
<1> QED
  BY <1>4, <1>5, <1>6, <1>7, <1>8, <1>9, <1>10 DEF ThreadStep, FlushStep

LEMMA KeptInit == Init => KeptInv
<1> SUFFICES ASSUME Init PROVE KeptInv
  OBVIOUS
<1>1. PrefixLogged
  BY DEF Init, PrefixLogged
<1>2. ToSet(sent) = {}
  BY DEF Init, ToSet
<1> QED BY <1>1, <1>2, QueuesInit, ConstantsAssumption DEF Init, KeptInv

LEMMA KeptNext == KeptInv /\ [Next]_vars => KeptInv'
<1> SUFFICES ASSUME KeptInv, [Next]_vars PROVE KeptInv'
  OBVIOUS
<1>1. QueueInv /\ QueueInv' /\ failures \in 0 .. MaxFailures
  BY QueuesNext DEF KeptInv
<1>2. CASE UNCHANGED vars
  BY <1>1, <1>2
     DEF vars, KeptInv, PrefixLogged, Safe, InLog, InQueue
<1>3. CASE Next
  <2>1. PICK t \in Threads : ThreadStep(t)
    BY <1>3 DEF Next
  <2>2. failures' \in 0 .. MaxFailures /\ (failures' = 0 => failures = 0)
    BY <1>1, <2>1, ConstantsAssumption
       DEF ThreadStep, Send, Begin, Commit, RollBack, ExplicitFlush, ExplicitClear,
           FlushStep, Publish, FlushEnds, FlushFails
  <2>3. ASSUME failures' = 0 PROVE PrefixLogged' /\ \A e \in ToSet(sent') : Safe(e)'
    <3>1. failures = 0 /\ PrefixLogged /\ \A e \in ToSet(sent) : Safe(e)
      BY <2>2, <2>3 DEF KeptInv
    <3>2. PrefixLogged'
      BY <1>1, <2>1, <2>3, <3>1, PrefixStaysLogged
    <3>3. ASSUME NEW e \in ToSet(sent) PROVE Safe(e)'
      BY <1>1, <2>1, <2>3, <3>1, SentAreEvents, StaysSafe
    <3>4. ASSUME NEW e \in ToSet(sent'), e \notin ToSet(sent) PROVE Safe(e)'
      <4>1. CASE \E d \in Destinations : Send(t, d)
        <5>1. e.by = t /\ e.tx = tx[t] /\ InQueue(t, e)' /\ UNCHANGED <<tx, outcome>>
          BY <1>1, <3>4, <4>1, SendQueues DEF Send
        <5>2. e.tx # NoTransaction => outcome[e.tx] = "open"
          BY <1>1, <5>1 DEF QueueInv, TransactionsOpen
        <5> QED BY <5>1, <5>2 DEF Safe
      <4>2. CASE UNCHANGED sent
        BY <3>4, <4>2
      <4> QED
        BY <2>1, <4>1, <4>2
           DEF ThreadStep, Begin, Commit, RollBack, ExplicitFlush, ExplicitClear,
               FlushStep, Publish, FlushEnds, FlushFails
    <3> QED BY <3>2, <3>3, <3>4
  <2> QED BY <1>1, <2>2, <2>3 DEF KeptInv
<1> QED BY <1>2, <1>3

\* Type correctness.
THEOREM TypeCorrect == Spec => []TypeOK
<1>1. KeptInv => TypeOK
  BY DEF KeptInv, QueueInv, QueueTypes, TypeOK
<1> QED BY <1>1, KeptInit, KeptNext, PTL DEF Spec

\* While no flush throws, an event of a committed transaction is with the broker or in
\* the queue that is being flushed.
THEOREM KeepsCommitted == Spec => []CommittedNotLost
<1>1. KeptInv => CommittedNotLost
  <2> SUFFICES ASSUME KeptInv, failures = 0, NEW e \in ToSet(sent), Committed(e)
               PROVE  e \in Logged \cup Queued(e.by)
    BY DEF CommittedNotLost
  <2>1. InLog(e) \/ InQueue(e.by, e)
    BY DEF KeptInv, Safe, Committed
  <2> QED BY <2>1 DEF InLog, InQueue, Logged, Queued, ToSet
<1> QED BY <1>1, KeptInit, KeptNext, PTL DEF Spec
-------------------------------------------------------------------------------
\* That events of a thread reach a destination in the order of sending.

\* The list of t for d is in the order of sending.
ListInOrder(t, d) ==
    /\ \A i \in DOMAIN queues[t][d] :
          queues[t][d][i].by = t /\ queues[t][d][i].id <= Len(sent)
    /\ \A i, j \in DOMAIN queues[t][d] :
          i < j => queues[t][d][i].id < queues[t][d][j].id

\* What a flush has behind it in the list was received, for this destination.
PrefixReceived(t, d) ==
    pc[t] = "flushing" =>
        \A i \in DOMAIN queues[t][d] : i <= flushed[t][d] =>
            \E h \in DOMAIN log[d] : log[d][h] = queues[t][d][i]

\* What is still in the list of t, and was sent before something that was received, was
\* received before it: flushes that threw have left it there.
EarlierReceived(t, d) ==
    \A n \in DOMAIN queues[t][d], j \in DOMAIN log[d] :
        log[d][j].by = t /\ queues[t][d][n].id < log[d][j].id
            => \E h \in 1 .. j : log[d][h] = queues[t][d][n]

LogInOrder(d) ==
    /\ \A j \in DOMAIN log[d] : log[d][j].id <= Len(sent)
    /\ \A i, j \in DOMAIN log[d] :
          log[d][i].by = log[d][j].by /\ log[d][i].id < log[d][j].id
              => \E h \in 1 .. j : log[d][h] = log[d][i]

OrderInv ==
    \A d \in Destinations :
        /\ LogInOrder(d)
        /\ \A t \in Threads :
              ListInOrder(t, d) /\ PrefixReceived(t, d) /\ EarlierReceived(t, d)

\* The new event was sent after all that was queued or received.
LEMMA SendKeepsOrder ==
    ASSUME QueueInv, OrderInv, NEW t \in Threads, NEW d \in Destinations, Send(t, d)
    PROVE  OrderInv'
<1>1. PICK n : /\ n = [id |-> Len(sent) + 1, by |-> t, tx |-> tx[t]]
               /\ sent' = Append(sent, n)
               /\ queues' = [queues EXCEPT ![t][d] = Append(@, n)]
  BY DEF Send
<1>2. /\ n \in Event /\ n.by = t /\ n.id = Len(sent) + 1
      /\ Len(sent) \in Nat /\ Len(sent') = Len(sent) + 1
  BY <1>1, ConstantsAssumption DEF Send, ConstantsAssumption, QueueInv, QueueTypes, Event
<1>3. UNCHANGED <<log, pc, flushed>> /\ pc[t] = "running"
  BY DEF Send
<1>4. \A f \in Destinations : \A j \in DOMAIN log[f] :
         log[f][j].id \in Nat /\ log[f][j].id <= Len(sent)
  <2>1. \A f \in Destinations : \A j \in DOMAIN log[f] : log[f][j] \in Event
    BY DEF QueueInv, QueueTypes
  <2> QED BY <2>1 DEF OrderInv, LogInOrder, Event
<1>5. ASSUME NEW f \in Destinations PROVE LogInOrder(f)'
  BY <1>2, <1>3, <1>4 DEF OrderInv, LogInOrder
<1>6. ASSUME NEW f \in Destinations, NEW u \in Threads
      PROVE  (ListInOrder(u, f) /\ PrefixReceived(u, f) /\ EarlierReceived(u, f))'
  <2>0. ListInOrder(u, f) /\ PrefixReceived(u, f) /\ EarlierReceived(u, f)
    BY DEF OrderInv
  <2>1. \A i \in DOMAIN queues[u][f] : queues[u][f][i].id \in Nat
    <3>1. \A i \in DOMAIN queues[u][f] : queues[u][f][i] \in Event
      BY DEF QueueInv, QueueTypes
    <3> QED BY <3>1 DEF Event
  <2>2. CASE ~(u = t /\ f = d)
    <3>1. queues'[u][f] = queues[u][f]
      BY <1>1, <2>2 DEF QueueInv, QueueTypes
    <3> QED BY <1>2, <1>3, <2>0, <2>1, <3>1
            DEF ListInOrder, PrefixReceived, EarlierReceived
  <2>3. CASE u = t /\ f = d
    <3> DEFINE q == queues[u][f]
               r == queues'[u][f]
    <3>1. q \in Seq(Event) /\ r = Append(q, n)
      BY <1>1, <2>3 DEF QueueInv, QueueTypes
    <3>2. \A i \in DOMAIN r : /\ i \in 1 .. Len(q) + 1
                              /\ \/ i \in DOMAIN q /\ i <= Len(q) /\ r[i] = q[i]
                                 \/ i = Len(q) + 1 /\ r[i] = n
      BY <1>2, <3>1
    <3>3. Len(q) \in Nat /\ DOMAIN q = 1 .. Len(q)
      BY <3>1
    <3>4. /\ \A i \in DOMAIN q : q[i].by = t /\ q[i].id <= Len(sent) /\ q[i].id \in Nat
          /\ \A i, j \in DOMAIN q : i < j => q[i].id < q[j].id
      BY <2>0, <2>1, <2>3 DEF ListInOrder
    <3>5. \A m \in DOMAIN q, j \in DOMAIN log[d] :
             log[d][j].by = t /\ q[m].id < log[d][j].id => \E h \in 1 .. j : log[d][h] = q[m]
      BY <2>0, <2>3 DEF EarlierReceived
    <3> HIDE DEF q, r
    <3>6. /\ \A i \in DOMAIN r : r[i].by = t /\ r[i].id <= Len(sent')
          /\ \A i, j \in DOMAIN r : i < j => r[i].id < r[j].id
      BY <1>2, <3>2, <3>3, <3>4
    <3>7. ASSUME NEW m \in DOMAIN r, NEW j \in DOMAIN log[d],
                 log[d][j].by = t, r[m].id < log[d][j].id
          PROVE  \E h \in 1 .. j : log[d][h] = r[m]
      <4>1. m \in DOMAIN q /\ r[m] = q[m]
        BY <1>2, <1>4, <3>2, <3>7
      <4> QED BY <3>5, <3>7, <4>1
    <3>8. ListInOrder(u, f)'
      BY <2>3, <3>6 DEF ListInOrder, r
    <3>9. PrefixReceived(u, f)'
      BY <1>3, <2>3 DEF PrefixReceived
    <3>10. EarlierReceived(u, f)'
      BY <1>3, <2>3, <3>7 DEF EarlierReceived, r
    <3> QED BY <3>8, <3>9, <3>10
  <2> QED BY <2>2, <2>3
<1> QED BY <1>5, <1>6 DEF OrderInv

\* A step that sends and publishes nothing: threads may forget their lists, and begin a
\* flush at the beginning.
LEMMA QuietKeepsOrder ==
    ASSUME QueueInv, OrderInv, UNCHANGED <<log, sent>>,
           \A t \in Threads : queues'[t] = queues[t] \/ queues'[t] = Empty,
           \A t \in Threads :
              pc'[t] = "flushing" =>
                  flushed'[t] = Start \/ (pc[t] = "flushing" /\ flushed'[t] = flushed[t])
    PROVE  OrderInv'
<1>1. ASSUME NEW d \in Destinations PROVE LogInOrder(d)'
  BY DEF OrderInv, LogInOrder
<1>2. ASSUME NEW d \in Destinations, NEW t \in Threads
      PROVE  (ListInOrder(t, d) /\ PrefixReceived(t, d) /\ EarlierReceived(t, d))'
  <2>0. ListInOrder(t, d) /\ PrefixReceived(t, d) /\ EarlierReceived(t, d)
    BY DEF OrderInv
  <2>1. CASE queues'[t] = Empty
    <3>1. DOMAIN queues'[t][d] = {}
      BY <2>1 DEF Empty
    <3> QED BY <3>1 DEF ListInOrder, PrefixReceived, EarlierReceived
  <2>2. CASE queues'[t] = queues[t]
    <3>1. PrefixReceived(t, d)'
      <4>1. CASE flushed'[t] = Start
        <5>1. \A i \in DOMAIN queues[t][d] : ~(i <= flushed'[t][d])
          BY <4>1 DEF Start, QueueInv, QueueTypes
        <5> QED BY <2>2, <5>1 DEF PrefixReceived
      <4>2. CASE pc[t] = "flushing" /\ flushed'[t] = flushed[t]
        BY <2>0, <2>2, <4>2 DEF PrefixReceived
      <4> QED BY <4>1, <4>2 DEF PrefixReceived
    <3> QED BY <2>0, <2>2, <3>1 DEF ListInOrder, EarlierReceived
  <2> QED BY <2>1, <2>2
<1> QED BY <1>1, <1>2 DEF OrderInv

\* A publication takes the next event of the list, whose predecessors are behind it.
LEMMA ReceivedKeepsOrder ==
    ASSUME QueueInv, OrderInv, NEW t \in Threads, NEW d \in Destinations,
           pc[t] = "flushing", Current(t, d), Received(t, d), UNCHANGED <<queues, sent>>,
           \A u \in Threads : pc'[u] = "flushing" => pc[u] = "flushing",
           \A u \in Threads, f \in Destinations :
              flushed'[u][f] = flushed[u][f]
                 \/ (u = t /\ f = d /\ flushed'[u][f] = flushed[u][f] + 1)
    PROVE  OrderInv'
<1> DEFINE q == queues[t][d]
           m == flushed[t][d] + 1
           J == Len(log[d]) + 1
<1>1. /\ q \in Seq(Event) /\ m \in DOMAIN q /\ flushed[t][d] \in Nat
      /\ log[d] \in Seq(Event) /\ J \in Nat /\ J >= 1 /\ DOMAIN log[d] = 1 .. J - 1
      /\ DOMAIN q = 1 .. Len(q)
  BY DEF Current, QueueInv, QueueTypes
<1>2. \A i \in DOMAIN q : q[i] \in Event /\ q[i].by = t /\ q[i].id \in Nat
                          /\ q[i].id <= Len(sent)
  <2>1. \A i \in DOMAIN q : q[i] \in Event
    BY <1>1
  <2> QED BY <2>1 DEF OrderInv, ListInOrder, Event
<1>3. \A i, j \in DOMAIN q : i < j => q[i].id < q[j].id
  BY DEF OrderInv, ListInOrder
<1>4. /\ DOMAIN log'[d] = 1 .. J
      /\ log'[d][J] = q[m]
      /\ \A i \in 1 .. J - 1 : log'[d][i] = log[d][i]
      /\ \A o \in Destinations \ {d} : log'[o] = log[o]
  <2>1. log' = [log EXCEPT ![d] = Append(@, q[m])]
    BY DEF Received
  <2> QED BY <1>1, <1>2, <2>1 DEF QueueInv, QueueTypes
<1>5. \A i \in DOMAIN q : i < m => \E h \in 1 .. J - 1 : log[d][h] = q[i]
  <2>1. PrefixReceived(t, d)
    BY DEF OrderInv
  <2>2. \A i \in DOMAIN q : i < m => i <= flushed[t][d]
    BY <1>1
  <2> QED BY <1>1, <2>1, <2>2 DEF PrefixReceived
<1>6. \A n \in DOMAIN q, j \in 1 .. J - 1 :
         log[d][j].by = t /\ q[n].id < log[d][j].id => \E h \in 1 .. j : log[d][h] = q[n]
  <2>1. EarlierReceived(t, d)
    BY DEF OrderInv
  <2>2. DOMAIN log[d] = 1 .. J - 1
    BY <1>1
  <2> QED BY <2>1, <2>2 DEF EarlierReceived
<1>7. /\ \A j \in 1 .. J - 1 : log[d][j].id <= Len(sent)
      /\ \A i, j \in 1 .. J - 1 :
            log[d][i].by = log[d][j].by /\ log[d][i].id < log[d][j].id
                => \E h \in 1 .. j : log[d][h] = log[d][i]
  BY <1>1 DEF OrderInv, LogInOrder
<1> HIDE DEF q, m, J
<1>8. /\ log'[d][J].by = t /\ log'[d][J].id \in Nat /\ log'[d][J].id <= Len(sent)
      /\ q[m].by = t /\ q[m].id = log'[d][J].id
  BY <1>1, <1>2, <1>4
<1>9. J \in Nat /\ J \in 1 .. J /\ \A i \in 1 .. J : i = J \/ i \in 1 .. J - 1
  BY <1>1
<1>10. LogInOrder(d)'
  <2>1. ASSUME NEW j \in 1 .. J PROVE log'[d][j].id <= Len(sent)
    BY <1>8, <1>9, <1>4, <1>7
  <2>2. ASSUME NEW i \in 1 .. J, NEW j \in 1 .. J,
               log'[d][i].by = log'[d][j].by, log'[d][i].id < log'[d][j].id
        PROVE  \E h \in 1 .. j : log'[d][h] = log'[d][i]
    <3>1. CASE i <= j
      BY <1>1, <3>1
    <3>2. CASE j < i /\ i # J
      <4>1. i \in 1 .. J - 1 /\ j \in 1 .. J - 1
        BY <1>1, <3>2
      <4>2. PICK h \in 1 .. j : log[d][h] = log[d][i]
        BY <1>4, <1>7, <2>2, <4>1
      <4> QED BY <1>1, <1>4, <4>1, <4>2
    <3>3. CASE j < i /\ i = J
      <4>1. j \in 1 .. J - 1
        BY <1>1, <3>3
      <4>2. PICK h \in 1 .. j : log[d][h] = q[m]
        <5>1. log[d][j] = log'[d][j] /\ log[d][j].by = t /\ q[m].id < log[d][j].id
          BY <1>8, <1>4, <2>2, <3>3, <4>1
        <5>2. m \in DOMAIN q
          BY <1>1
        <5> QED BY <1>6, <4>1, <5>1, <5>2
      <4> QED BY <1>1, <1>4, <3>3, <4>1, <4>2
    <3> QED BY <1>1, <3>1, <3>2, <3>3
  <2> QED BY <1>4, <2>1, <2>2 DEF LogInOrder
<1>11. EarlierReceived(t, d)'
  <2> SUFFICES ASSUME NEW n \in DOMAIN q, NEW j \in 1 .. J,
                      log'[d][j].by = t, q[n].id < log'[d][j].id
               PROVE  \E h \in 1 .. j : log'[d][h] = q[n]
    BY <1>4 DEF EarlierReceived, q
  <2>1. CASE j \in 1 .. J - 1
    <3>1. PICK h \in 1 .. j : log[d][h] = q[n]
      BY <1>4, <1>6, <2>1
    <3> QED BY <1>1, <1>4, <2>1, <3>1
  <2>2. CASE j = J
    <3>1. n < m
      BY <1>1, <1>2, <1>3, <1>4, <2>2
    <3>2. PICK h \in 1 .. J - 1 : log[d][h] = q[n]
      BY <1>5, <3>1
    <3>3. h \in 1 .. J /\ log'[d][h] = q[n]
      BY <1>9, <1>4, <3>2
    <3> QED BY <2>2, <3>3
  <2> QED BY <1>1, <2>1, <2>2
<1>12. ASSUME NEW u \in Threads, u # t PROVE EarlierReceived(u, d)'
  <2> SUFFICES ASSUME NEW n \in DOMAIN queues[u][d], NEW j \in 1 .. J,
                      log'[d][j].by = u, queues[u][d][n].id < log'[d][j].id
               PROVE  \E h \in 1 .. j : log'[d][h] = queues[u][d][n]
    BY <1>4 DEF EarlierReceived
  <2>1. j # J
    BY <1>1, <1>2, <1>4, <1>12
  <2>2. j \in 1 .. J - 1
    BY <1>1, <2>1
  <2>3. PICK h \in 1 .. j : log[d][h] = queues[u][d][n]
    <3>1. /\ j \in DOMAIN log[d] /\ log[d][j].by = u
          /\ queues[u][d][n].id < log[d][j].id
      BY <1>1, <1>4, <2>2
    <3>2. EarlierReceived(u, d)
      BY DEF OrderInv
    <3> QED BY <3>1, <3>2 DEF EarlierReceived
  <2> QED BY <1>1, <1>4, <2>2, <2>3
<1>13. ASSUME NEW u \in Threads PROVE PrefixReceived(u, d)'
  <2> SUFFICES ASSUME pc[u] = "flushing", NEW i \in DOMAIN queues[u][d], i <= flushed'[u][d]
               PROVE  \E h \in 1 .. J : log'[d][h] = queues[u][d][i]
    BY <1>4 DEF PrefixReceived
  <2>1. CASE i <= flushed[u][d]
    <3>1. PICK h \in 1 .. J - 1 : log[d][h] = queues[u][d][i]
      BY <1>1, <2>1 DEF OrderInv, PrefixReceived
    <3> QED BY <1>1, <1>4, <3>1
  <2>2. CASE ~(i <= flushed[u][d])
    <3>1. u = t /\ flushed'[u][d] = flushed[u][d] + 1
      BY <2>2
    <3>2. i = m
      BY <1>1, <2>2, <3>1 DEF m, q
    <3>3. queues[u][d][i] = log'[d][J]
      BY <1>4, <3>1, <3>2 DEF q
    <3> QED BY <1>9, <3>3
  <2> QED BY <2>1, <2>2
<1>14. ASSUME NEW u \in Threads, NEW f \in Destinations PROVE ListInOrder(u, f)'
  BY DEF OrderInv, ListInOrder
<1>15. ASSUME NEW u \in Threads, NEW f \in Destinations, f # d
       PROVE  (LogInOrder(f) /\ PrefixReceived(u, f) /\ EarlierReceived(u, f))'
  BY <1>4, <1>15 DEF OrderInv, LogInOrder, PrefixReceived, EarlierReceived
<1>16. ASSUME NEW f \in Destinations PROVE LogInOrder(f)'
  <2>1. CASE f = d
    BY <1>10, <2>1
  <2>2. CASE f # d
    BY <1>15, <2>2
  <2> QED BY <2>1, <2>2
<1>17. ASSUME NEW f \in Destinations, NEW u \in Threads
       PROVE  (PrefixReceived(u, f) /\ EarlierReceived(u, f))'
  <2>1. CASE f = d
    BY <1>11, <1>12, <1>13, <2>1
  <2>2. CASE f # d
    BY <1>15, <2>2
  <2> QED BY <2>1, <2>2
<1> QED
  BY <1>14, <1>16, <1>17 DEF OrderInv

LEMMA OrderNext == QueueInv /\ OrderInv /\ [Next]_vars => OrderInv'
<1> SUFFICES ASSUME QueueInv, OrderInv, [Next]_vars PROVE OrderInv'
  OBVIOUS
<1>1. CASE UNCHANGED vars
  BY <1>1, QuietKeepsOrder DEF vars
<1>2. CASE \E t \in Threads : ThreadStep(t)
  <2>1. PICK t \in Threads : ThreadStep(t)
    BY <1>2
  <2>2. CASE \E d \in Destinations : Send(t, d)
    BY <2>2, SendKeepsOrder
  <2>3. CASE Begin(t)
    BY <2>3, QuietKeepsOrder DEF Begin
  <2>4. CASE Commit(t) \/ ExplicitFlush(t)
    BY <2>4, QuietKeepsOrder
       DEF Commit, ExplicitFlush, StartFlush, QueueInv, QueueTypes
  <2>5. CASE RollBack(t) \/ ExplicitClear(t)
    BY <2>5, QuietKeepsOrder DEF RollBack, ExplicitClear, Clear, QueueInv, QueueTypes
  <2>6. CASE FlushEnds(t)
    BY <2>6, QuietKeepsOrder DEF FlushEnds, Clear, QueueInv, QueueTypes
  <2>7. CASE \E d \in Destinations : Publish(t, d)
    <3>1. PICK d \in Destinations : Publish(t, d)
      BY <2>7
    <3>2. \A u \in Threads, f \in Destinations :
             flushed'[u][f] = flushed[u][f]
                \/ (u = t /\ f = d /\ flushed'[u][f] = flushed[u][f] + 1)
      BY <3>1 DEF Publish, QueueInv, QueueTypes
    <3> QED BY <3>1, <3>2, ReceivedKeepsOrder DEF Publish
  <2>8. CASE FlushFails(t)
    <3>1. pc[t] = "flushing" /\ UNCHANGED <<queues, flushed, sent>>
          /\ \A u \in Threads : pc'[u] = "flushing" => pc[u] = "flushing"
      BY <2>8 DEF FlushFails, QueueInv, QueueTypes
    <3>2. CASE UNCHANGED log
      BY <3>1, <3>2, QuietKeepsOrder
    <3>3. CASE \E d \in Destinations : Current(t, d) /\ Received(t, d)
      BY <3>1, <3>3, ReceivedKeepsOrder
    <3> QED BY <2>8, <3>2, <3>3 DEF FlushFails
  <2> QED BY <2>1, <2>2, <2>3, <2>4, <2>5, <2>6, <2>7, <2>8 DEF ThreadStep, FlushStep
<1> QED BY <1>1, <1>2 DEF Next

\* The first publications of a thread's events for a destination come in the order of
\* sending, whatever flushes throw and whichever transactions take up what they left.
THEOREM PublishesInOrder == Spec => []PublishedInOrder
<1>1. Init => OrderInv
  BY DEF Init, Empty, OrderInv, LogInOrder, ListInOrder, PrefixReceived, EarlierReceived
<1>2. QueueInv /\ OrderInv => PublishedInOrder
  <2> SUFFICES ASSUME QueueInv, OrderInv PROVE PublishedInOrder
    OBVIOUS
  <2>1. \A d \in Destinations : LogInOrder(d)
    BY DEF OrderInv
  <2> QED BY <2>1 DEF PublishedInOrder, LogInOrder
<1> QED BY <1>1, <1>2, OrderNext, QueuesInvariant, PTL DEF Spec

-------------------------------------------------------------------------------
\* That only a flush that threw makes an event reach the broker again.

\* The flush that t runs has event i of its list for d behind it.
Passed(t, d, i) == pc[t] = "flushing" /\ i <= flushed[t][d]

\* What is queued or logged has been sent.
WasSent ==
    /\ \A t \in Threads, d \in Destinations : \A i \in DOMAIN queues[t][d] :
          queues[t][d][i].id <= Len(sent)
    /\ \A d \in Destinations : \A i \in DOMAIN log[d] : log[d][i].id <= Len(sent)

\* An event is queued once.
OnePlace ==
    \A t, u \in Threads, d, f \in Destinations :
        \A i \in DOMAIN queues[t][d], j \in DOMAIN queues[u][f] :
            queues[t][d][i] = queues[u][f][j] => t = u /\ d = f /\ i = j

AtMost(e, n) == IsFiniteSet(Publications(e)) /\ Cardinality(Publications(e)) <= n

\* An event that waits to be published has been published by flushes that threw only.
RepeatInv ==
    /\ failures \in Nat
    /\ WasSent
    /\ OnePlace
    /\ \A e \in Event : AtMost(e, failures + 1)
    /\ \A t \in Threads, d \in Destinations : \A i \in DOMAIN queues[t][d] :
          ~Passed(t, d, i) => AtMost(queues[t][d][i], failures)

LEMMA OneMorePublication ==
    ASSUME NEW d \in Destinations, NEW r \in Event, log \in [Destinations -> Seq(Event)],
           log' = [log EXCEPT ![d] = Append(@, r)]
    PROVE  /\ \A e : e # r => Publications(e)' = Publications(e)
           /\ Publications(r)' = Publications(r) \cup {<<d, Len(log[d]) + 1>>}
           /\ <<d, Len(log[d]) + 1>> \notin Publications(r)
<1> DEFINE J == Len(log[d]) + 1
<1>1. /\ log[d] \in Seq(Event) /\ Len(log[d]) \in Nat
      /\ DOMAIN log[d] = 1 .. J - 1 /\ DOMAIN log'[d] = 1 .. J
      /\ log'[d][J] = r /\ \A i \in 1 .. J - 1 : log'[d][i] = log[d][i]
      /\ J \notin 1 .. J - 1 /\ 1 .. J = (1 .. J - 1) \cup {J}
      /\ \A f \in Destinations : f # d => log'[f] = log[f]
  <2>1. log[d] \in Seq(Event) /\ Len(log[d]) \in Nat /\ log'[d] = Append(log[d], r)
    OBVIOUS
  <2>2. \A f \in Destinations : f # d => log'[f] = log[f]
    OBVIOUS
  <2>3. 1 .. J = (1 .. J - 1) \cup {J} /\ J \notin 1 .. J - 1
    BY <2>1
  <2>4. DOMAIN log[d] = 1 .. J - 1 /\ DOMAIN log'[d] = 1 .. J
    BY <2>1
  <2>5. log'[d][J] = r /\ \A i \in 1 .. J - 1 : log'[d][i] = log[d][i]
    BY <2>1
  <2> QED BY <2>1, <2>2, <2>3, <2>4, <2>5
<1> HIDE DEF J
<1> DEFINE at(e, f) == {i \in DOMAIN log[f] : log[f][i] = e}
           next(e, f) == {i \in DOMAIN log'[f] : log'[f][i] = e}
<1>2. \A e : \A f \in Destinations : f # d => next(e, f) = at(e, f)
  BY <1>1
<1>3. \A e : e # r => next(e, d) = at(e, d)
  BY <1>1
<1>4. next(r, d) = at(r, d) \cup {J} /\ J \notin at(r, d)
  BY <1>1
<1>5. \A e : /\ Publications(e) = UNION {{f} \X at(e, f) : f \in Destinations}
             /\ Publications(e)' = UNION {{f} \X next(e, f) : f \in Destinations}
  BY DEF Publications
<1> HIDE DEF at, next
<1>6. ASSUME NEW e, e # r PROVE Publications(e)' = Publications(e)
  <2>1. \A f \in Destinations : next(e, f) = at(e, f)
    BY <1>2, <1>3, <1>6
  <2> QED BY <1>5, <2>1
<1>7. Publications(r)' = Publications(r) \cup {<<d, J>>}
  <2>1. ASSUME NEW p PROVE p \in Publications(r)' <=> p \in Publications(r) \/ p = <<d, J>>
    <3>1. p \in Publications(r)' <=> \E f \in Destinations : p \in {f} \X next(r, f)
      BY <1>5
    <3>2. p \in Publications(r) <=> \E f \in Destinations : p \in {f} \X at(r, f)
      BY <1>5
    <3>3. p \in {d} \X next(r, d) <=> p \in {d} \X at(r, d) \/ p = <<d, J>>
      BY <1>4
    <3> QED BY <1>2, <3>1, <3>2, <3>3
  <2> QED BY <2>1
<1>8. <<d, J>> \notin Publications(r)
  BY <1>4, <1>5
<1> QED BY <1>6, <1>7, <1>8 DEF J

\* send: the new event is nowhere yet.
LEMMA SendKeepsRepeats ==
    ASSUME QueueInv, RepeatInv, NEW t \in Threads, NEW d \in Destinations, Send(t, d)
    PROVE  RepeatInv'
<1>1. PICK n : /\ n = [id |-> Len(sent) + 1, by |-> t, tx |-> tx[t]]
               /\ sent' = Append(sent, n)
               /\ queues' = [queues EXCEPT ![t][d] = Append(@, n)]
  BY DEF Send
<1>2. pc[t] = "running" /\ UNCHANGED <<flushed, pc, log, failures>> /\ Len(sent) < MaxEvents
  BY DEF Send
<1>3. n \in Event /\ n.id = Len(sent) + 1 /\ Len(sent) \in Nat /\ Len(sent') = Len(sent) + 1
  BY <1>1, <1>2, ConstantsAssumption DEF ConstantsAssumption, QueueInv, QueueTypes, Event
<1> DEFINE q == queues[t][d]
           L == Len(q) + 1
<1>4. /\ q \in Seq(Event) /\ Len(q) \in Nat /\ DOMAIN q = 1 .. L - 1 /\ DOMAIN queues'[t][d] = 1 .. L
      /\ queues'[t][d][L] = n /\ \A i \in 1 .. L - 1 : queues'[t][d][i] = q[i]
      /\ \A u \in Threads, f \in Destinations : ~(u = t /\ f = d) => queues'[u][f] = queues[u][f]
  <2>1. q \in Seq(Event) /\ queues'[t][d] = Append(q, n)
    BY <1>1 DEF QueueInv, QueueTypes
  <2>2. \A u \in Threads, f \in Destinations : ~(u = t /\ f = d) => queues'[u][f] = queues[u][f]
    BY <1>1 DEF QueueInv, QueueTypes
  <2> HIDE DEF q
  <2>3. Len(q) \in Nat /\ DOMAIN q = 1 .. L - 1 /\ Len(queues'[t][d]) = L
    BY <2>1
  <2>4. DOMAIN queues'[t][d] = 1 .. L
    BY <2>1, <2>3
  <2>5. queues'[t][d][L] = n /\ \A i \in 1 .. L - 1 : queues'[t][d][i] = q[i]
    BY <2>1, <2>3
  <2> QED BY <2>1, <2>2, <2>3, <2>4, <2>5
\* Every place of a queue has the event it had, or the new one.
<1>5. ASSUME NEW u \in Threads, NEW f \in Destinations, NEW i \in DOMAIN queues'[u][f]
      PROVE  \/ i \in DOMAIN queues[u][f] /\ queues'[u][f][i] = queues[u][f][i]
             \/ u = t /\ f = d /\ i = L /\ queues'[u][f][i] = n
  <2>1. CASE u = t /\ f = d
    <3>1. i \in 1 .. L - 1 \/ i = L
      BY <1>4, <2>1
    <3> QED BY <1>4, <2>1, <3>1
  <2>2. CASE ~(u = t /\ f = d)
    BY <1>4, <2>2
  <2> QED BY <2>1, <2>2
<1> HIDE DEF q, L
<1>6. \A u \in Threads, f \in Destinations : \A i \in DOMAIN queues[u][f] : queues[u][f][i] # n
  BY <1>3 DEF RepeatInv, WasSent
<1>7. Publications(n) = {}
  BY <1>3 DEF RepeatInv, WasSent, Publications
<1>8. WasSent'
  <2>1. ASSUME NEW u \in Threads, NEW f \in Destinations, NEW i \in DOMAIN queues'[u][f]
        PROVE  queues'[u][f][i].id <= Len(sent')
    <3>1. CASE i \in DOMAIN queues[u][f] /\ queues'[u][f][i] = queues[u][f][i]
      <4>1. queues[u][f][i].id <= Len(sent) /\ queues[u][f][i] \in Event
        BY <3>1 DEF RepeatInv, WasSent, QueueInv, QueueTypes
      <4> QED BY <1>3, <3>1, <4>1 DEF Event
    <3>2. CASE queues'[u][f][i] = n
      BY <1>3, <3>2
    <3> QED BY <1>5, <3>1, <3>2
  <2>2. ASSUME NEW f \in Destinations, NEW i \in DOMAIN log[f] PROVE log[f][i].id <= Len(sent')
    <3>1. log[f][i].id <= Len(sent) /\ log[f][i] \in Event
      BY DEF RepeatInv, WasSent, QueueInv, QueueTypes
    <3> QED BY <1>3, <3>1 DEF Event
  <2> QED BY <1>2, <2>1, <2>2 DEF WasSent
<1>9. OnePlace'
  <2> SUFFICES ASSUME NEW u \in Threads, NEW v \in Threads, NEW f \in Destinations, NEW g \in Destinations,
                      NEW i \in DOMAIN queues'[u][f], NEW j \in DOMAIN queues'[v][g],
                      queues'[u][f][i] = queues'[v][g][j]
               PROVE  u = v /\ f = g /\ i = j
    BY DEF OnePlace
  <2>3. \/ i \in DOMAIN queues[u][f] /\ queues'[u][f][i] = queues[u][f][i]
        \/ u = t /\ f = d /\ i = L /\ queues'[u][f][i] = n
    BY <1>5
  <2>4. \/ j \in DOMAIN queues[v][g] /\ queues'[v][g][j] = queues[v][g][j]
        \/ v = t /\ g = d /\ j = L /\ queues'[v][g][j] = n
    BY <1>5
  <2>1. CASE queues'[u][f][i] = n
    BY <1>6, <2>1, <2>3, <2>4
  <2>2. CASE queues'[u][f][i] # n
    <3>1. /\ i \in DOMAIN queues[u][f] /\ j \in DOMAIN queues[v][g]
          /\ queues[u][f][i] = queues[v][g][j]
      BY <2>2, <2>3, <2>4
    <3>2. OnePlace
      BY DEF RepeatInv
    <3> QED BY <3>1, <3>2 DEF OnePlace
  <2> QED BY <2>1, <2>2
<1>10. \A e : Publications(e)' = Publications(e)
  BY <1>2 DEF Publications
<1>11. ASSUME NEW u \in Threads, NEW f \in Destinations, NEW i \in DOMAIN queues'[u][f], ~Passed(u, f, i)'
       PROVE  AtMost(queues[u][f][i], failures)'
  <2>1. CASE i \in DOMAIN queues[u][f] /\ queues'[u][f][i] = queues[u][f][i]
    <3>1. ~Passed(u, f, i)
      BY <1>2, <1>11 DEF Passed
    <3>2. AtMost(queues[u][f][i], failures)
      BY <2>1, <3>1 DEF RepeatInv
    <3> QED BY <1>2, <1>10, <2>1, <3>2 DEF AtMost
  <2>2. CASE queues'[u][f][i] = n
    <3>1. IsFiniteSet(Publications(n)) /\ Cardinality(Publications(n)) = 0
      BY <1>7, FS_EmptySet
    <3>2. failures \in Nat
      BY DEF RepeatInv
    <3> QED BY <1>2, <1>10, <2>2, <3>1, <3>2 DEF AtMost
  <2> QED BY <1>5, <2>1, <2>2
<1>12. \A e \in Event : AtMost(e, failures + 1)'
  BY <1>2, <1>10 DEF RepeatInv, AtMost
<1> QED BY <1>2, <1>8, <1>9, <1>11, <1>12 DEF RepeatInv

\* A step that publishes nothing: a queue stays and no flush goes back in it, or it is cleared.
LEMMA QuietKeepsRepeats ==
    ASSUME QueueInv, RepeatInv, UNCHANGED <<log, sent>>,
           failures' \in {failures, failures + 1},
           \A u \in Threads :
              \/ queues'[u] = Empty
              \/ queues'[u] = queues[u]
                 /\ \/ failures' = failures + 1
                    \/ \A f \in Destinations, i \in Nat : Passed(u, f, i) => Passed(u, f, i)'
    PROVE  RepeatInv'
<1>1. failures \in Nat /\ failures' \in Nat
  BY DEF RepeatInv
<1>2. \A e : Publications(e)' = Publications(e)
  BY DEF Publications
<1>3. ASSUME NEW e, NEW n \in Nat, NEW m \in Nat, AtMost(e, n), n <= m
      PROVE  IsFiniteSet(Publications(e)') /\ Cardinality(Publications(e)') <= m
  <2>1. Cardinality(Publications(e)) \in Nat
    BY <1>3, FS_CardinalityType DEF AtMost
  <2> QED BY <1>2, <1>3, <2>1 DEF AtMost
<1>4. \A u \in Threads, f \in Destinations : \A i \in DOMAIN queues'[u][f] :
         queues'[u] = queues[u] /\ i \in Nat
  <2> SUFFICES ASSUME NEW u \in Threads, NEW f \in Destinations, NEW i \in DOMAIN queues'[u][f]
               PROVE  queues'[u] = queues[u] /\ i \in Nat
    OBVIOUS
  <2>1. queues'[u] # Empty
    BY DEF Empty
  <2>2. queues'[u] = queues[u]
    BY <2>1
  <2>3. queues[u][f] \in Seq(Event)
    BY DEF QueueInv, QueueTypes
  <2> QED BY <2>2, <2>3
<1>5. WasSent'
  BY <1>4 DEF RepeatInv, WasSent
<1>6. OnePlace'
  BY <1>4 DEF RepeatInv, OnePlace
<1>7. \A e \in Event : AtMost(e, failures + 1)'
  BY <1>1, <1>3 DEF RepeatInv, AtMost
<1>8. ASSUME NEW u \in Threads, NEW f \in Destinations, NEW i \in DOMAIN queues'[u][f], ~Passed(u, f, i)'
      PROVE  AtMost(queues[u][f][i], failures)'
  <2>1. queues'[u] = queues[u] /\ i \in Nat /\ queues'[u] # Empty
    BY <1>4 DEF Empty
  <2>2. queues[u][f] \in Seq(Event) /\ i \in DOMAIN queues[u][f]
    BY <2>1 DEF QueueInv, QueueTypes
  <2>5. PICK e \in Event : e = queues[u][f][i]
    BY <2>2
  <2> SUFFICES IsFiniteSet(Publications(e)') /\ Cardinality(Publications(e)') <= failures'
    BY <2>1, <2>5, <1>2 DEF AtMost
  <2>3. CASE failures' = failures + 1
    BY <1>1, <1>3, <2>3 DEF RepeatInv
  <2>4. CASE ~Passed(u, f, i)
    <3>1. AtMost(e, failures)
      BY <2>2, <2>4, <2>5 DEF RepeatInv
    <3> QED BY <1>1, <1>3, <3>1
  <2> QED BY <1>8, <2>1, <2>3, <2>4
<1> QED BY <1>1, <1>5, <1>6, <1>7, <1>8 DEF RepeatInv

\* The next event of a flush reaches the broker, and the flush goes on or throws.
LEMMA ReceivedKeepsRepeats ==
    ASSUME QueueInv, RepeatInv, NEW t \in Threads, NEW d \in Destinations,
           pc[t] = "flushing", Current(t, d), Received(t, d), UNCHANGED <<queues, sent>>,
           \/ failures' = failures + 1
           \/ /\ UNCHANGED <<pc, failures>>
              /\ flushed' = [flushed EXCEPT ![t][d] = @ + 1]
    PROVE  RepeatInv'
<1> DEFINE m == flushed[t][d] + 1
<1>1. /\ queues[t][d] \in Seq(Event) /\ flushed[t][d] \in Nat /\ m \in DOMAIN queues[t][d]
      /\ failures \in Nat /\ failures' \in Nat
  BY DEF Current, QueueInv, QueueTypes, RepeatInv
<1>2. queues[t][d][m] \in Event
  BY <1>1
<1>3. PICK r \in Event : r = queues[t][d][m]
  BY <1>2
<1>4. log \in [Destinations -> Seq(Event)] /\ log' = [log EXCEPT ![d] = Append(@, r)]
  BY <1>3 DEF Received, QueueInv, QueueTypes
<1>5. PICK p : /\ \A e : e # r => Publications(e)' = Publications(e)
               /\ Publications(r)' = Publications(r) \cup {p}
               /\ p \notin Publications(r)
  BY <1>4, OneMorePublication
<1>6. AtMost(r, failures)
  <2>1. ~Passed(t, d, m)
    BY <1>1 DEF Passed
  <2> QED BY <1>1, <1>3, <2>1 DEF RepeatInv
<1>7. IsFiniteSet(Publications(r)') /\ Cardinality(Publications(r)') <= failures + 1
  <2>1. IsFiniteSet(Publications(r)) /\ Cardinality(Publications(r)) <= failures
    BY <1>6 DEF AtMost
  <2>2. Cardinality(Publications(r)) \in Nat
    BY <2>1, FS_CardinalityType
  <2>3. /\ IsFiniteSet(Publications(r) \cup {p})
        /\ Cardinality(Publications(r) \cup {p}) = Cardinality(Publications(r)) + 1
    BY <1>5, <2>1, FS_AddElement
  <2> QED BY <1>1, <1>5, <2>1, <2>2, <2>3
<1>8. ASSUME NEW e, AtMost(e, failures + 1)
      PROVE  IsFiniteSet(Publications(e)') /\ Cardinality(Publications(e)') <= failures + 1
  <2>1. CASE e = r
    BY <1>7, <2>1
  <2>2. CASE e # r
    BY <1>5, <1>8, <2>2 DEF AtMost
  <2> QED BY <2>1, <2>2
<1>9. WasSent'
  <2>1. r.id <= Len(sent)
    BY <1>1, <1>3 DEF RepeatInv, WasSent
  <2>2. ASSUME NEW f \in Destinations, NEW i \in DOMAIN log'[f] PROVE log'[f][i].id <= Len(sent)
    <3>1. log'[f][i] = r \/ (i \in DOMAIN log[f] /\ log'[f][i] = log[f][i])
      BY <1>4
    <3> QED BY <2>1, <3>1 DEF RepeatInv, WasSent
  <2> QED BY <2>2 DEF RepeatInv, WasSent
<1>10. OnePlace'
  BY DEF RepeatInv, OnePlace
<1>11. \A e \in Event : AtMost(e, failures + 1)'
  <2> SUFFICES ASSUME NEW e \in Event PROVE AtMost(e, failures + 1)'
    OBVIOUS
  <2>1. AtMost(e, failures + 1)
    BY DEF RepeatInv
  <2>2. IsFiniteSet(Publications(e)') /\ Cardinality(Publications(e)') <= failures + 1
    BY <1>8, <2>1
  <2>3. Cardinality(Publications(e)') \in Nat
    BY <2>2, FS_CardinalityType
  <2>4. failures + 1 <= failures' + 1
    BY <1>1
  <2> QED BY <1>1, <2>2, <2>3, <2>4 DEF AtMost
<1>12. ASSUME NEW u \in Threads, NEW f \in Destinations, NEW i \in DOMAIN queues[u][f], ~Passed(u, f, i)'
       PROVE  AtMost(queues[u][f][i], failures)'
  <2>1. queues[u][f] \in Seq(Event) /\ flushed[u][f] \in Nat /\ i \in Nat
    BY DEF QueueInv, QueueTypes
  <2>4. PICK e \in Event : e = queues[u][f][i]
    BY <2>1
  <2> SUFFICES IsFiniteSet(Publications(e)') /\ Cardinality(Publications(e)') <= failures'
    BY <2>4 DEF AtMost, Publications
  <2>2. CASE failures' = failures + 1
    BY <1>8, <2>2 DEF RepeatInv
  <2>3. CASE UNCHANGED <<pc, failures>> /\ flushed' = [flushed EXCEPT ![t][d] = @ + 1]
    <3>1. flushed'[u][f] = IF u = t /\ f = d THEN flushed[u][f] + 1 ELSE flushed[u][f]
      BY <2>3 DEF QueueInv, QueueTypes
    <3>2. ~Passed(u, f, i) /\ ~(u = t /\ f = d /\ i = m)
      BY <1>1, <1>12, <2>1, <2>3, <3>1 DEF Passed
    <3>3. e # r
      BY <1>1, <1>3, <2>4, <3>2 DEF RepeatInv, OnePlace
    <3>4. AtMost(e, failures)
      BY <2>4, <3>2 DEF RepeatInv
    <3> QED BY <1>5, <2>3, <3>3, <3>4 DEF AtMost
  <2> QED BY <2>2, <2>3
<1> QED BY <1>1, <1>9, <1>10, <1>11, <1>12 DEF RepeatInv

LEMMA RepeatNext == QueueInv /\ RepeatInv /\ [Next]_vars => RepeatInv'
<1> SUFFICES ASSUME QueueInv, RepeatInv, [Next]_vars PROVE RepeatInv'
  OBVIOUS
<1>1. CASE UNCHANGED vars
  <2>1. \A u \in Threads : \A f \in Destinations, i \in Nat : Passed(u, f, i) => Passed(u, f, i)'
    BY <1>1 DEF vars, Passed
  <2> QED BY <1>1, <2>1, QuietKeepsRepeats DEF vars
<1>2. ASSUME NEW t \in Threads, ThreadStep(t) PROVE RepeatInv'
  <2>1. CASE \E d \in Destinations : Send(t, d)
    BY <2>1, SendKeepsRepeats
  <2>2. CASE Begin(t) \/ Commit(t) \/ ExplicitFlush(t)
    <3>1. UNCHANGED <<log, sent, failures, queues>> /\ pc[t] = "running"
          /\ \A u \in Threads \ {t} : pc'[u] = pc[u] /\ flushed'[u] = flushed[u]
      BY <2>2 DEF Begin, Commit, ExplicitFlush, StartFlush, QueueInv, QueueTypes
    <3>2. \A u \in Threads : \A f \in Destinations, i \in Nat : Passed(u, f, i) => Passed(u, f, i)'
      BY <3>1 DEF Passed
    <3> QED BY <3>1, <3>2, QuietKeepsRepeats
  <2>3. CASE RollBack(t) \/ ExplicitClear(t) \/ FlushEnds(t)
    <3>1. UNCHANGED <<log, sent, failures, flushed>> /\ queues' = [queues EXCEPT ![t] = Empty]
          /\ \A u \in Threads \ {t} : pc'[u] = pc[u]
      BY <2>3 DEF RollBack, ExplicitClear, FlushEnds, Clear, QueueInv, QueueTypes
    <3>2. ASSUME NEW u \in Threads
          PROVE  \/ queues'[u] = Empty
                 \/ /\ queues'[u] = queues[u]
                    /\ \A f \in Destinations, i \in Nat : Passed(u, f, i) => Passed(u, f, i)'
      <4>1. CASE u = t
        BY <3>1, <4>1 DEF QueueInv, QueueTypes
      <4>2. CASE u # t
        BY <3>1, <4>2 DEF QueueInv, QueueTypes, Passed
      <4> QED BY <4>1, <4>2
    <3> QED BY <3>1, <3>2, QuietKeepsRepeats
  <2>4. CASE \E d \in Destinations : Publish(t, d)
    BY <2>4, ReceivedKeepsRepeats DEF Publish
  <2>5. CASE FlushFails(t)
    <3>1. pc[t] = "flushing" /\ UNCHANGED <<queues, sent>> /\ failures' = failures + 1
      BY <2>5 DEF FlushFails
    <3>2. CASE UNCHANGED log
      BY <3>1, <3>2, QuietKeepsRepeats
    <3>3. CASE \E d \in Destinations : Current(t, d) /\ Received(t, d)
      BY <3>1, <3>3, ReceivedKeepsRepeats
    <3> QED BY <2>5, <3>2, <3>3 DEF FlushFails
  <2> QED BY <1>2, <2>1, <2>2, <2>3, <2>4, <2>5 DEF ThreadStep, FlushStep
<1> QED BY <1>1, <1>2 DEF Next

\* An event reaches the broker once, and once more for every flush that threw at most.
THEOREM RepeatsOnlyFailures == Spec => []RepeatedOnlyAfterFailure
<1>1. Init => RepeatInv
  <2> SUFFICES ASSUME Init PROVE RepeatInv
    OBVIOUS
  <2>1. \A e : Publications(e) = {}
    BY DEF Init, Empty, Publications
  <2>2. \A e : AtMost(e, 1)
    BY <2>1, FS_EmptySet DEF AtMost
  <2>3. failures = 0 /\ \A t \in Threads, d \in Destinations : queues[t][d] = << >> /\ log[d] = << >>
    BY DEF Init, Empty
  <2>4. \A t \in Threads, d \in Destinations : DOMAIN queues[t][d] = {}
    BY <2>3
  <2>5. \A d \in Destinations : DOMAIN log[d] = {}
    BY DEF Init, Empty
  <2>6. WasSent
    <3>1. \A t \in Threads, d \in Destinations : \A i \in DOMAIN queues[t][d] :
             queues[t][d][i].id <= Len(sent)
      BY <2>4
    <3>2. \A d \in Destinations : \A i \in DOMAIN log[d] : log[d][i].id <= Len(sent)
      BY <2>5
    <3> QED BY <3>1, <3>2 DEF WasSent
  <2>7. OnePlace
    <3> SUFFICES ASSUME NEW t \in Threads, NEW d \in Destinations, NEW i \in DOMAIN queues[t][d]
                 PROVE  FALSE
      BY DEF OnePlace
    <3> QED BY <2>4
  <2>8. \A e \in Event : AtMost(e, failures + 1)
    BY <2>2, <2>3
  <2> QED BY <2>3, <2>6, <2>8, <2>7 DEF RepeatInv
<1>2. QueueInv /\ RepeatInv => RepeatedOnlyAfterFailure
  <2> SUFFICES ASSUME QueueInv, RepeatInv, NEW e \in Logged
               PROVE  Cardinality(Publications(e)) <= 1 + failures
    BY DEF RepeatedOnlyAfterFailure
  <2>1. e \in Event
    <3>1. PICK d \in Destinations : e \in ToSet(log[d])
      BY DEF Logged
    <3>2. log[d] \in Seq(Event)
      BY DEF QueueInv, QueueTypes
    <3> QED BY <3>1, <3>2 DEF ToSet
  <2>2. AtMost(e, failures + 1) /\ failures \in Nat
    BY <2>1 DEF RepeatInv
  <2> QED BY <2>2 DEF AtMost
<1> QED BY <1>1, <1>2, RepeatNext, QueuesInvariant, PTL DEF Spec
===============================================================================
