# TLA+ verification of gojek-commons

gojek-commons is a set of Java libraries (dropwizard bundles) for services that
use redis, RabbitMQ, Kafka, Quartz, JPA/Hibernate and Guice, with an example
service. This directory holds TLA+ models of the parts with state, concurrency
or failure handling of their own, the TLC configurations that check them on small
instances, and theorems checked by TLAPS. Paths below are relative to the
repository; `cache/…` stands for
`gojek-commons-cache/src/main/java/com/gojek/cache/…`, and so on.

How to run, inside this directory:

    tlc -config MCAtomicExecutor.cfg MCAtomicExecutor.tla
    tlapm AtomicExecutorProofs.tla

`PROJECT.json` lists every component, run, mutant, mapped source line, finding,
hazard and theorem.

## 1. Inventory

| Component | State it keeps | Operations | What is hard |
|---|---|---|---|
| `cache/redis/AtomicExecutor` | a key in redis per lock; a static thread-local set of locked keys | `execute` (nested), `lock`, `release` | leases that end under a running block, lost replies, crashes, re-entrancy, lock-order deadlocks |
| `cache/redis/JedisConnection`, `CacheConnectionManager`, `CacheBundle` | a commons-pool of connections | `init`, `execute`, `close` | pool exhaustion (bounded wait) |
| `amqp/event/AmqpConsumer`, `amqp/event/FixedRetryHandler` | the delivery in hand; deaths in message headers | `handleDelivery`, `handle`, `retry`, `handleShutdownSignal`, `start`, `stop` | publish-then-acknowledge across failures, retry limits, redelivery, throwing handlers |
| `core/event/QueuedProducer`, `amqp/event/AmqpQueuedProducer`, `guice/QueuedProducerTransactionInterceptor` | a thread-local map from destinations to lists | `send`, `flush`, `clear`, `afterTransactionCompletion` | partial flushes, transactions that follow each other on a pooled thread |
| `amqp/AmqpConnection`, `AmqpConsumerContainer`, `AmqpConnectionManager` | a pool of channels, a list of running consumers | `execute`, `start`, `stop`, `handleShutdown`, `close` | channels that are never returned, a pool that blocks when exhausted, stop racing restarts |
| `kafka/event/KafkaConsumer`, `KafkaConsumerContainer`, `KafkaProducer` | a poll loop per consumer, a list of consumers, a stopped flag | `start`, `stop`, `handleShutdown`, `send` | swallowed handler failures, commits that throw, stop racing restarts |
| `job/JobManager`, `JobBundle`, `jpa/AbstractJob` | jobs and triggers in a clustered store | `start`, `serverStarted`, `addJob`, `scheduleJob`, `fireNow`, `deleteJob`, interruption | two nodes starting at once, updates of a stored job that is firing |
| `guice/jpa/ActiveJpaGuiceExecutionWrapper`, `OSIVPersistFilter` | unit of work and JPA context of the thread | `execute`, `doFilter` | every path out must close both, when closing itself fails |
| `application/metrics/EnhancedMetricRegistry` | a plain `HashMap` of counters and gauges over them | `counter`, `registerGuage`, gauge reads | lost updates of the map, gauges that read and then decrement, `long` counts returned as `int` |
| `application/filter/RequestContext` and filters | a thread-local context of the request | populate, `clear`, `getContext` | values of an earlier request on a pooled thread |
| `util/retrypolicy/ExponentialRetry`, `util/date/DateUtils` | none | `getSleepTime`; `findGaps`, `getOverlappingIntervals`, `getContainedIntervals`, roundings, `getIntervals` | 32-bit overflow, boundaries of intervals |
| example `ds/service/DriverService`, `core/event/CoreEventBus` | driver rows, a lock per driver, an event bus | `markActive`, `markInactive`, `markBusy` | the lock is released before the transaction commits |
| configuration, swagger (with the vendored pages of Swagger UI), serializers, HTTP, c3p0 proxy | none of their own | | not modelled: wiring, pure I/O, third-party code or delegation |

What makes each component correct:

- *AtomicExecutor*: one thread in the block of a key; nested calls only inside the
  locking one; every acquisition ends and no orphaned key stays.
- *AMQP consumer and retry handler*: no event is lost, none is retried more than
  maxRetries times, every event settles.
- *Queued producer*: only what was committed is published, in order, once.
- *Pool and container*: a channel has one holder; dead consumers are replaced; a stop
  stops everything and lets every waiter go.
- *Kafka consumers*: commits follow handling; nothing is repeated without a fault;
  every place has a loop; loops that are told to stop end.
- *JobManager*: the store agrees with the configuration of the release that runs.
- *EnhancedMetricRegistry*: what is counted is reported, once, as far as an `int` can
  tell it.
- *Utilities*: results agree with their definitions by instants, at every boundary.

How they interact: services send events to `QueuedProducer` inside a JPA
transaction; Hibernate calls the interceptor after the transaction, which flushes
the thread's events through a channel borrowed from `AmqpConnection`. Brokers push
them to `AmqpConsumer`s that `AmqpConsumerContainer` started on channels of the
same pool; `FixedRetryHandler` borrows one more channel to publish a retry.
`AtomicExecutor` guards blocks of a service across processes through redis.
Bundles start and stop all of these with the dropwizard lifecycle.

## 2. Plan

Modules in the order they were written; each has an `MC` module or is used by one,
and all but the first have a module of proofs.

1. `Mutex` (abstract): what a lock promises.
2. `AtomicExecutor`: who may be in a block of a key; implements `Mutex`.
3. `AmqpDelivery`: what happens to one event between broker and handler.
4. `QueuedProducer`: what a commit publishes.
5. `AmqpConsumerContainer`: the pool of channels with consumers that hold them,
   threads that borrow one, channels that die, and stop.
6. `KafkaConsumer`: poll loops, offsets, wake-up, replacement, stop.
7. `JobManager`: start-up and upgrades of a cluster against one job store.
8. `JavaInt`, the width of `int`; `DateUtils`, `ExponentialRetry` and their driver `Utilities` (proofs in
   `UtilityProofs`).
9. `EnhancedMetricRegistry`: counters that gauges read and take off (over `JavaInt`).

Considered and left out, for the reasons in section 7: `RequestContext`,
`ActiveJpaGuiceExecutionWrapper`, and `DriverService` as a composition of the lock,
the transaction and the queued producer. Every safety property the runs check is
stated by a theorem (section 6).

## 3. What the modules model

### AtomicExecutor and Mutex

One thread of the model is one thread of any process. `LockAcquired`, `LockBusy`
and `LockFails` (with redis having applied the command or not) are the outcomes of
one `SET key NX EX` of the retryer; `locks` is the thread-local set, `calls` the
stack of `execute` calls in progress with their local variable `owner`. Releasing
takes the two steps of the code: `FunctionEnds` takes the key out of the
thread-local set, then `DEL` is sent (`Release`), which may fail (`ReleaseFails`).
A process may die at any point, and a lease (`Expire`) may end when its block is
over or, for the threads in `Slow`, under a running block.

`Mutex` states what a caller is promised: one thread at a time in the block of a
key. `AtomicBlocks` says that `AtomicExecutor` implements it, with the calls in
progress mapped to the abstract `inside`.

### AmqpDelivery

`Take`, `HandlerDecides`, `Retry` and `Settle` follow one delivery through
`AmqpConsumer.handleDelivery` and `FixedRetryHandler`; the publication of a retry
and the acknowledgement of the delivery are two steps, with every failure of the
channel between them. `job` and `pc` say where each consumer is, `cut` that the
channel of its delivery is gone. A handler may throw, which requeues the delivery
at once (`HandlerThrows`). The broker's three queues are bags of messages, because
two messages with the same event and number of deaths behave the same. `vanished`
marks a retry that was published without confirmation and went nowhere: the
publication is neither mandatory nor confirmed.

### QueuedProducer

`Send` and `Clear` work on the thread's own map; `Commit` and `RollBack` are
`afterTransactionCompletion` with the calls it makes; `Publish` sends one event of
the list under iteration, and `FlushFails` is any exception on the way, after which
`clear` is not reached. Threads in `Explicit` call `flush` and `clear` themselves
and have no transactions.

### AmqpConsumerContainer

A consumer keeps the channel it was created with, so it goes by the channel's name.
The three kinds of threads are the lifecycle (`main`: `start`, `stop`, then
`AmqpConnection.close`), whoever is inside the synchronized `handleShutdown`
(`shutdown`), and callers of `AmqpConnection.execute` (`Users`), of which
`AmqpProducer.send` is one. Borrowing, `basicConsume` and `consumers.add` are
separate steps, so that a channel may die between any two. The list of consumers is
an unsynchronised `ArrayList` that `start` and `handleShutdown` both change:
overlapping updates may undo each other, and the iteration in `stop` may or may not
notice a change. Removing from the list takes out one occurrence, as `List.remove`
does.

### KafkaConsumer

One `pc` per consumer walks through the loop of `KafkaConsumer.start`: the test of
`running`, `poll`, the records one by one, the commit, and after the loop `close` and
`handleShutdown`. `commitSync` is chosen at the start. A commit that throws leaves
the loop where the code does, outside its `try`, which ends in `lost`. The group
coordinator (`Rebalance`, `Evict`) is external: it spreads partitions over the
members that are in `poll`, and removes one that stays away too long.

### JobManager

Nodes run one of several releases of the application, with other jobs enabled or
scheduled, and share a clustered store. `ServerStarted` brings a node up, perhaps with a
later release; `AddNext` and `AddJob` go through the configuration, and each call
of the scheduler that `addJob`, `createOrUpdateTrigger` and `deleteJob` make is a
step: look for the trigger, create it with the job (`ScheduleJob`) or replace it
(`RescheduleJob`), store the job (`StoreJob`), list, remove one by one and delete
(`ListTriggers`, `Unschedule`, `RemoveJob`). `FireNow` and `TriggerJob` add a job and have it
run once (`RunOnce`). Each call that throws ends the start of its node, which may be
tried again. What a release says of a job is named by the release, so `job[j]` and
`trigger[j]` tell who wrote what is in the store.

### DateUtils, ExponentialRetry, Utilities

The functions are operators; `Utilities` calls them one after the other on every
input of small sets, and its properties compare the results with definitions that
speak about instants. Times are numbers of milliseconds, a list of intervals a set
(the results do not depend on the order). `MaxInt` of `JavaInt` gives the width of
`int`, and `ToInt` wraps a number as Java does.

### EnhancedMetricRegistry

`Found`, `NotFound`, `Put`, `LookForGauge`, `Register` and `Inc` are the steps of a caller
of `counter(name).inc()`; `GetCount` and `TakeOff` those of reading a gauge, which
takes off the counter what it has read. The counter holds a `long` and all of the count
that was read is taken off, but the gauge returns `count.intValue()`: `Returns` reports
`ToInt` of the count, and the history variable `narrowed` has the names of which a count
was read that is no `int`. Of such a count a multiple of the width of `int` is lost
(2^32 in Java), which `CutOff` says in `CountsKept` and `AllReported`; nothing else is.
The overflow of a `long` is left out: no counter gets to 2^63.

The map is a plain `HashMap`: while a thread puts a counter, others may not find one
that is there, and of two puts one may get lost. The history variable `raced` says that
a call began during a put; `overlaps` counts the reads that began while another reader
was inside the same gauge (`Shared` if there were any).

## 4. What is assumed of the systems outside the repository

- redis is one server; a command whose reply is lost took effect or never does.
- RabbitMQ keeps what it has, dead-letters what is rejected and redelivers what was
  unsettled on a channel that dies; the retry queue has a TTL and dead-letters back
  to the work queue, counting in `x-death`.
- The RabbitMQ client (5.3.0), with `autoRecovery`, reopens the channels of a failed
  connection and subscribes their consumers again.
- commons-pool2 lends the object returned last, blocks when exhausted, and tests
  nothing, which is what `AmqpConnection.constructPoolConfig` leaves configured.
- kafka-clients (0.10.1.0) heart-beats from a thread of its own; automatic commits
  are assumed off: the consumer's properties are the application's, and the loop
  commits by itself. The fields `running` and `stopped` are read from memory
  although they are not volatile.
- Hibernate runs the interceptor on the thread of the transaction after the outcome
  stands.
- Quartz runs each call of the scheduler as one transaction of a clustered JDBC
  store, except `deleteJob`, which lists the triggers of a job, unschedules them one
  by one and then deletes the job. `scheduleJob` throws if the job exists,
  `rescheduleJob` does nothing if the trigger is gone, `addJob` replaces the job and
  keeps its triggers.
- joda-time intervals lack their last instant; the zone has no changes of the clock
  within a range.
- dropwizard's registry and counters are safe for threads; `register` throws if the
  name is taken.

## 5. Runs

| Run | Instance | Shows |
|---|---|---|
| `atomic_executor` | 3 threads, 2 keys, 2 attempts, depth 3, no slow block | blocks exclude each other and stay locked, nested calls never enter unlocked, `execute` implements `Mutex`, acquisitions end, orphaned keys expire |
| `atomic_executor_late_release` | 3 threads, one of them slow, 1 key | violated: after the late `DEL` of the slow thread the other two are in blocks of the key at once, both within their leases |
| `amqp_delivery` | 2 events, one malformed; 2 consumers, 2 retries, 1 fault, 2 throws | no event is lost, the retry limit holds, copies come only from faults, handlings are bounded, every event settles |
| `queued_producer` | 2 threads, one explicit; 2 destinations, 2 transactions, 3 events, 2 failures | only committed events are published, in order, none is lost or repeated without a failed flush |
| `queued_producer_retried` | 1 thread | violated: a failed flush is repeated by the next commit |
| `container` | 3 channels, 1 consumer, 1 user, auto-recovery, 2 dead channels, 1 outage | one holder per channel, consumers are accounted for, `stop` stops what it lists, completes, and lets every waiter go, replacements and `execute` end while the pool has a spare channel |
| `container_leak` | 2 channels, 1 consumer, 2 dead channels | violated: the pool runs out and `handleShutdown` waits forever |
| `kafka_consumer` | 1 partition of 2 records, 2 consumers, 1 fault | commits follow handling, nothing is repeated without a fault, no place is doubled, loops that should end do, records are handled |
| `kafka_lost_loop` | the same | violated: a throwing commit ends a loop that still says it runs |
| `job_manager` | 2 nodes, 2 jobs, 3 releases (one job is first run on demand, then scheduled, then disabled), 1 fault, 1 `fireNow` | the store ends with the configuration all nodes run, a start that collided with another heals, fired jobs run |
| `utilities` | bytes for `int`, hours of 12 minutes of 2 ticks, up to 3 intervals between 5 instants | gaps, cuts, roundings, ranges and sleep times agree with their definitions |
| `metric_registry` | 2 counting threads, 2 readers, 2 names, 3 calls, 2 overlapping reads, an `int` from -2 to 1 | one counter per name, counts are kept and reported in the end but for what `intValue` cuts off, and reported once |

The state spaces range from a few thousand states to about 400,000, and the
longest run takes about two minutes with two workers.

### Findings

1. `AtomicExecutor.release` deletes the key without looking whose it is. In the
   counterexample the lease of t1 ends before its block does and t2 acquires the key,
   which a lease allows. Then t1's `DEL` deletes the entry of t2, and t3 acquires the
   key while t2 is in its block. Neither t2 nor t3 has overrun a lease, so t2 does not
   have the lock for the duration that `lock` says it acquires it for.
2. `QueuedProducer` says that a failed flush is not retried. It is: the queue stays
   on the thread and the next commit publishes it from the beginning. (If the next
   transaction rolls back it is dropped instead.)
3. `AmqpConsumerContainer.handleShutdown` never returns the channel of the consumer
   it replaces; the pool shrinks with every dead channel until it blocks forever.
4. A commit that throws ends a Kafka loop without `close` and `handleShutdown`.

Behaviours that are in the models, or showed while they were written, and are worth
knowing; no run is about them:

- AMQP: a handler that throws is requeued at once and without limit. With automatic
  recovery, a connection failure can leave one consumer too many, since the client
  recovers the one the container replaces. A channel the broker closed while
  idle is lent again. Retries block for good when the consumers hold all channels of
  the pool, which is why `ExecuteEnds` asks for one to spare. A replacement started
  while `stop` runs may be stopped by nobody, for AMQP and for Kafka.
- Kafka: the Status of the handler is not used.
- Jobs: a job that is stored without a trigger and later given a schedule makes
  `scheduleJob` throw at every start, although `addJob` is documented to update the
  job (`JobManager.java:181`); `StartUpHeals` and `FiredRuns` except that state
  (`Triggerless`). A schedule that a release no longer has goes on running.
- Metrics: two first calls of `counter` with one name may return two counters, of
  which one is never reported, or throw; `OneCounter` and `CountsKept` hold while calls
  do not race, which a test of one thread
  (`shouldReturnSameCounterIfExistAlready`) cannot tell. A count from 2^31 on is taken off
  the counter whole and reported less a multiple of 2^32, so that the report may be
  negative.
- Intervals: `findGaps` reports a gap inside an interval that contains another, and
  gaps outside the search if intervals reach out of it; `GapsAreUncovered` has both as
  its premise. `getOverlappingIntervals` returns the overlaps its javadoc says it removes.
  `roundFloorTime` divides by zero for a duration of 0, where `roundCeilTime` takes 1.
- Retries: a sleep time that overflows `int` more than once comes out short, and one
  that has elapsed already becomes the longest; `SleepSaturates` says which.

### Bounds, and why they are enough

- *AtomicExecutor*: three threads give an owner, a contender and one more that a
  wrongly deleted lock lets in; two keys give opposite orders; depth 3 a nested call
  inside a nested call on another key.
- *AmqpDelivery*: two consumers make a redelivery meet the handler that still runs;
  `MaxFaults` 1 lets a fault hit any place, `MaxThrows` 2 lets both consumers, or one
  event twice, throw. `HandledCap` stops the counter above every value it is compared
  with.
- *QueuedProducer*: two transactions make one inherit a queue from the other, two
  failures make an inherited queue fail again, and three events over two
  destinations leave a flush half way in a list and between lists.
- *AmqpConsumerContainer*: `MaxFaults` counts channels that die; each takes a channel
  out of the pool, so three channels with one consumer have one to spare after the first
  death and none after the second, and two channels have none after the first.
  `MaxIdle` 1 makes the pool both keep and discard channels. `MaxOutages` 1 makes a
  recovery meet a replacement.
- *KafkaConsumer*: two consumers for one partition make it change hands, and a
  second record makes a position move past a commit; `MaxFaults` 1.
- *JobManager*: two nodes collide in every pair of calls; `MaxRelease` 3 gives a job
  each change a release can make (a schedule, none, not enabled); `MaxFaults` 1 leaves a
  configuration half stored, and `MaxFires` 1 puts one run in the way of a deletion.
- *Utilities*: instants 0 to 4 with `MaxIntervals` 3 and `MaxSearches` 2 give every
  order and every equality of the bounds of three intervals; an hour of 12 minutes has
  durations that divide it, that do not and that exceed it; a byte overflows once,
  twice and to its minimum.
- *EnhancedMetricRegistry*: `MaxCalls` 3 gives two first calls that race and a later
  one, of that name or of the other. `MaxInt` 1 makes 1 an `int` and 2 and 3 none, so that
  counts are narrowed without a race as well as with one. `MaxOverlaps` 2 makes a counter
  negative, and a negative count read twice; without that bound two readers that keep
  overlapping at a count of 2^31 would lower `reported` for ever.

A run says `CHECK_DEADLOCK FALSE` where every thread may rightly come to rest, with all
events settled or the container stopped. Deadlock is checked for `AtomicExecutor`,
`EnhancedMetricRegistry` and `Utilities`, which can always go on.

### Fairness

- *AtomicExecutor*: an attempt that is made is answered and a lease that was set runs
  out. Nothing is assumed of the functions executed, or of releases.
- *AmqpDelivery*: the broker delivers and expires, and a consumer goes on with its
  delivery, so handlers return or throw.
- *QueuedProducer*: a flush goes on. Nothing makes transactions end.
- *AmqpConsumerContainer*: threads run, and the pool serves waiters in order
  (commons-pool2 queues them), which is strong fairness of borrowing: a channel is
  free again and again. Users return what they borrow, as `execute` does in its
  `finally`. Failures and recovery are never forced.
- *KafkaConsumer*: loops, additions and stop run on. Records that are there reach
  some member that keeps polling, and a rebalance that is due happens, although a
  poll that comes back empty may disable them for a moment: strong fairness. The
  coordinator removes members whose thread is gone.
- *JobManager*: a node that is down is started again, as supervisors do, and threads
  run on. A scheduler that is up again and again comes to what is to be run: strong
  fairness, since nodes may stop. Upgrades and `fireNow` are never forced.
- *EnhancedMetricRegistry*: callers finish, and every gauge is read again and again, which
  a reporter does at its interval; strong fairness, since all readers may be busy with
  another gauge.

`Utilities` has no liveness property and needs no fairness.

## 6. Proofs

All theorems hold for every value of the constants that satisfies the assumptions
of the module: `ConstantsAssumption`; for Kafka also `ThreadsAssumption`; for the
metrics and the utilities `IntAssumption` (`MaxInt` is a natural number); for the
utilities `TimeAssumption` (a minute has more than one millisecond), `RetryAssumption`
(`1 << n` is an `int` up to the most retries) and `UtilitiesAssumption` (instants are
`long`s, hence finitely many; base and elapsed times are `int`s from 0).
The channels of `AmqpConsumerContainer` are finitely many, as `maxChannels` says.
Type correctness (`TypeOK`) is proved for every module that has one (`TypeCorrect`),
and so is `MutualExclusion` of `AtomicExecutor`, which its run checks in the form of
`AtomicBlocks`; the runs spend their properties on the rest.

- `AtomicExecutorProofs`. `CallsInv` describes one thread's stack: which key it
  has locked, that each is locked once, that every call is preceded by the one that
  locked its key, and where in a call it is; it gives `TypeCorrect`,
  `ThreadLocalIsExact` and `ReentrantCallsAreNested` with no assumption about time.
  `BlocksAreLocked` needs `Timely` (no slow thread): an entry then disappears only
  when its block is over. `MutuallyExclusive` follows, since redis names one
  creator per key, and `ImplementsMutex` maps every step to one of `Mutex` or a
  stutter.
- `AmqpDeliveryProofs`. `RetriesLimited` follows from `DeathsFit`, which bounds the deaths
  of messages wherever they are. For `EventsSurvive`, `NoEventLost` is not
  inductive: a delivery that is about to be acknowledged does not count. `EventsAlive`
  says that each event has succeeded, vanished, or has a copy that nobody will
  acknowledge; the steps between publishing a retry and acknowledging pass the event
  from one copy to the other. Lemmas state what the operations on bags leave in them.
  `CopiesOnlyByFaults` and `HandlingsLimited` are about sums over all queues, deliveries
  and consumers. A potential gives each copy of an event a weight by its deaths, and each
  job the weight of what it can still put into a queue; a case for every action shows
  that it grows by faults and exceptions only (`StepIsWeighed`), for two weights: 1
  (`CopiesInv`) and the handlings that a copy is still good for (`HandlingsInv`).
- `QueuedProducerProofs`. A failed flush leaves events behind for the thread's next
  transactions, so `OnlyCommittedPublished` is not inductive: `QueueInv` adds that a
  queue holds only events of the thread's open transaction or of committed ones,
  and that a transaction is open in one thread that does not flush meanwhile.
  `KeptInv` adds, while no flush has failed, that what a flush has passed is in the log,
  which gives `KeepsCommitted`. `RepeatInv` gives `RepeatsOnlyFailures`: an event that still
  waits to be published was published at most once per flush that threw, and it waits in
  one place. `OrderInv` gives `PublishesInOrder`: lists and logs are in the
  order of sending, and what precedes a queued event was received or is queued before it.
- `AmqpConsumerContainerProofs`. `OneHolder` is not inductive, for it does not say
  what the pool lends. `HolderInv` adds the pool's books: a channel is idle once,
  or taken, or does not exist, and what threads hold and consumers live on is
  taken. `ListInv` says which consumers the loop of `stop` has passed, and that the
  list and the hands of the threads share no channel; it gives `ListedAreStopped`.
  `AccountInv` counts consumers from the first that `start` adds: subscribed, signalled,
  being replaced or lost, they are as many as were added (`NoConsumerIsForgotten`).
- `KafkaConsumerProofs`. `OffsetsInv` says that what lies before a consumer's
  position was handled or is in its batch, and that only a consumer that is
  handling has a batch; so a commit finds nothing unhandled, wherever the
  partition came from (`CommitsOnlyHandled`). `RepeatInv` adds what holds until the first fault: a
  partition has one owner, who has committed what it is not handling
  (`RepeatsNeedFaults`). `PlacesInv` counts the loops that are alive or lost against the rounds
  of `start` (`PlacesKept`).
- `JobManagerProofs`. `ConfigApplied`: once all nodes are on one release, a job is as
  the release wants it or some node has still to see to it. A trigger that is missing or
  old is seen to by a node that has not looked (`Early`) or is about to replace it
  (`Updating`), the detail of a job by any node that has not finished with it
  (`Pending`).
- `UtilityProofs`. A call depends on nothing but its arguments, so the work is in lemmas
  about the functions. `RoundingAgrees` and `IntervalsTileTheRange` rest on division with
  remainder, for every length of the hour and the minute; an interval cannot begin at
  the very end of a range, because that is the last millisecond of a minute.
  `CutsAgree` looks at one interval and one search at a time. `GapsAreRight`: the order of
  the ends is then also one of the starts, so an instant that nothing covers lies between the
  last interval before it and the first after it, which are neighbours; that finite lists
  have first and last elements is the lemma `LeastElement`. `SleepTimesSaturate`: of the
  integers that wrap to one `int` at most one is an `int`.
- `EnhancedMetricRegistryProofs`. `Made` says that counters in use were made by a call,
  `PutAlone` that without a race one thread at a time puts a counter, which is new and
  nobody's; `NamesHaveOneCounter` and `NoCountLost` rest on both. `NoCountLost` says of
  every width of `int` what `intValue` cuts off (`Narrowing`): a multiple of the width,
  and nothing off an `int`. `NothingReportedTwice`
  has to hold while calls race: `Owned` says that names share no counter, `Budget` that
  what a counter holds which is or may become the name's was counted and not yet
  reported, and `ReadBacked` that what a reader has read is still in the counter and not
  negative, so that narrowing it can only lower the report.

Only model-checked:

- liveness, which TLAPS does not prove under fairness here (`AcquisitionEnds`,
  `NoLockForever`, `EventSettles`, `CommittedArePublished`, `StopCompletes`,
  `StopFreesWaiters`, `ReplacementEndsWithRoom`, `ExecuteEnds`, `StoppedLoopsEnd`,
  `AllHandled`, `StartUpHeals`, `FiredRuns`, `AllReported`).

Sums (`SumFunctionOnSet`) are folds, and the library's induction theorems cannot be used
here; what the proofs need of them, and of finite sets in general, is derived from the
well-founded order of the subsets of a finite set (`LeastSet`, `SumType`, `SumOfOneMore` and
the lemmas after them), once in each module of proofs that uses it. Powers are not
known to the provers: `RetryAssumption` says of 2^n what the code needs, and TLC evaluates it.

## 7. Not modelled

- `basic.cancel`, which a consumer gets when its queue goes away: the consumer classes
  have no code for it, so nothing replaces the consumer. Deaths counted on other queues
  than the retry queue, which `FixedRetryHandler` adds to the retries. Several redis
  servers, whose executors would share the static set of locked keys. The crash of a
  process between a commit and its flush (its queue is in memory by design).
- `AbstractJob` remembers its thread to interrupt it; what that does is up to the jobs, of
  which the repository has none. A node whose `jobProcessingEnabled` is false does not
  touch the store.
- `ActiveJpaGuiceExecutionWrapper` and `OSIVPersistFilter` are a few nested `try` blocks
  around contexts of ActiveJPA and Guice that the repository does not contain;
  `RequestContext` is a thread-local that one filter sets and another removes, and when
  Jersey runs them decides what it holds. A model would consist of assumptions about
  these frameworks.
- `DriverService` is an example; the lock, the queue of a transaction and the consumers
  that it is made of are modelled each.
- The only JavaScript of the repository
  (`gojek-commons-application/src/main/resources/swagger-static`) is a vendored copy of
  Swagger UI, generated and third-party code that renders documentation in a browser; none
  of the Java code depends on what it does.
- Configuration, bundles, serializers, HTTP wrappers, the c3p0 proxy, health checks, entities and
  exception mapping: wiring, delegation and pure I/O without behaviour of
  their own.
