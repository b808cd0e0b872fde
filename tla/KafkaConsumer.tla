----------------------------- MODULE KafkaConsumer -----------------------------
(***************************************************************************)
(* A KafkaConsumerContainer and the poll loops of its KafkaConsumers.  A   *)
(* loop polls, hands every record to the handler, whose Status and whose   *)
(* exceptions change nothing, commits, and starts over; when it ends it    *)
(* closes its client and calls handleShutdown of the container, which      *)
(* starts another consumer unless it has been stopped.                     *)
(*                                                                         *)
(* Kafka is external (kafka-clients 0.10.1): a group coordinator that      *)
(* spreads the partitions over the members that wait in poll, removes a    *)
(* member that stays away from poll too long, and refuses its commits.     *)
(* Client-side automatic commits are off.  Offsets of a partition are      *)
(* numbered from 0; a consumer is named when it is created.                *)
(***************************************************************************)
EXTENDS Integers, FiniteSets, SequencesExt

CONSTANTS Partitions,    \* partitions of the topics
          Records,       \* bound: records in each partition
          MaxConsumers,  \* maxQueueConsumers of the container
          MaxFaults,     \* bound: polls and commits that fail, late members
          Main,          \* the lifecycle thread
          None           \* no consumer

ASSUME ConstantsAssumption ==
    /\ Records \in Nat
    /\ MaxConsumers \in Nat \ {0}
    /\ MaxFaults \in Nat

\* Bound: one consumer for each place, and one for each fault that ends a loop.
Consumers == 1 .. MaxConsumers + MaxFaults
Threads == Consumers \cup {Main}
Record == Partitions \X (0 .. Records - 1)

ASSUME ThreadsAssumption == Main \notin Consumers /\ None \notin Consumers

VARIABLES commitSync,  \* commitSync of the configuration
          committed,   \* committed[p]: the offset the group has committed
          group,       \* members of the current generation
          position,    \* position[c]: the client's next offsets, for its partitions
          pc,          \* pc[t]: where the loop of t, or the lifecycle, is
          batch,       \* batch[c]: polled records still to be handled
          running,     \* running[c]: the field of c
          woken,       \* woken[c]: wakeup was called and has not been noticed
          consumers,   \* the list of the container
          stopped,     \* the flag of the container
          fresh,       \* fresh[t]: the consumer t has started and not yet added
          cursor,      \* position of the loop in start, and of the one in stop
          modified,    \* has consumers changed since the loop in stop began?
          handled,     \* history: records given to the handler
          faults       \* faults so far

brokerVars == <<commitSync, committed, group>>
clientVars == <<position, batch, woken>>
containerVars == <<consumers, stopped, fresh, cursor, modified>>
vars == <<brokerVars, clientVars, pc, running, containerVars, handled, faults>>

AddStates == {"creating", "adding"}
LoopStates == {"looping", "polling", "handling", "committing", "closing", "shutdown"}
EndStates == {"ended", "lost"}
States == AddStates \cup LoopStates \cup EndStates
            \cup {"unused", "running", "failed", "stopping"}

Offsets == UNION {[P -> 0 .. Records] : P \in SUBSET Partitions}

TypeOK ==
    /\ commitSync \in BOOLEAN
    /\ committed \in [Partitions -> 0 .. Records]
    /\ group \subseteq Consumers
    /\ position \in [Consumers -> Offsets]
    /\ pc \in [Threads -> States]
    /\ batch \in [Consumers -> SUBSET Record]
    /\ running \in [Consumers -> BOOLEAN]
    /\ woken \in [Consumers -> BOOLEAN]
    /\ consumers \in Seq(Consumers)
    /\ stopped \in BOOLEAN
    /\ fresh \in [Threads -> Consumers \cup {None}]
    /\ cursor \in Nat
    /\ modified \in BOOLEAN
    /\ handled \subseteq Record
    /\ faults \in 0 .. MaxFaults

NoOffsets == [p \in {} |-> 0]

Init ==
    /\ commitSync \in BOOLEAN
    /\ committed = [p \in Partitions |-> 0]
    /\ group = {}
    /\ position = [c \in Consumers |-> NoOffsets]
    /\ pc = [t \in Threads |-> IF t = Main THEN "creating" ELSE "unused"]
    /\ batch = [c \in Consumers |-> {}]
    /\ running = [c \in Consumers |-> FALSE]
    /\ woken = [c \in Consumers |-> FALSE]
    /\ consumers = << >>
    /\ stopped = FALSE
    /\ fresh = [t \in Threads |-> None]
    /\ cursor = 0
    /\ modified = FALSE
    /\ handled = {}
    /\ faults = 0

Goto(t, l) == pc' = [pc EXCEPT ![t] = l]
Fault == faults < MaxFaults /\ faults' = faults + 1

-------------------------------------------------------------------------------
\* KafkaConsumer: the loop that start gives to the executor.

\* Mutant of LoopTest: the loop does not see what stop writes.
LoopTestOnce(c) ==
    /\ pc[c] = "looping"
    /\ Goto(c, "polling")
    /\ UNCHANGED <<brokerVars, clientVars, running, containerVars, handled, faults>>

\* while (running)
LoopTest(c) ==
    /\ pc[c] = "looping"
    /\ Goto(c, IF running[c] THEN "polling" ELSE "closing")
    /\ UNCHANGED <<brokerVars, clientVars, running, containerVars, handled, faults>>

\* poll returns without records: continue.
PollEmpty(c) ==
    /\ pc[c] = "polling"
    /\ Goto(c, "looping")
    /\ UNCHANGED <<brokerVars, clientVars, running, containerVars, handled, faults>>

\* Mutant of PollRecords: the commit comes before the records are handled.
PollRecordsCommitsFirst(c) ==
    /\ pc[c] = "polling"
    /\ c \in group
    /\ \E next \in [DOMAIN position[c] -> 0 .. Records] :
        /\ \A p \in DOMAIN next : position[c][p] <= next[p]
        /\ position' = [position EXCEPT ![c] = next]
    /\ Goto(c, "committing")
    /\ UNCHANGED <<brokerVars, batch, woken, running, containerVars, handled, faults>>

\* poll returns records of the partitions the consumer has in this generation.
PollRecords(c) ==
    /\ pc[c] = "polling"
    /\ c \in group
    /\ \E next \in [DOMAIN position[c] -> 0 .. Records] :
        /\ \A p \in DOMAIN next : position[c][p] <= next[p]
        /\ next # position[c]
        /\ position' = [position EXCEPT ![c] = next]
        /\ batch' = [batch EXCEPT ![c] =
                        {r \in Record : /\ r[1] \in DOMAIN next
                                        /\ position[c][r[1]] <= r[2]
                                        /\ r[2] < next[r[1]]}]
    /\ Goto(c, "handling")
    /\ UNCHANGED <<brokerVars, woken, running, containerVars, handled, faults>>

\* WakeupException: nothing to handle, and on to the commit.
PollWakesUp(c) ==
    /\ pc[c] = "polling"
    /\ woken[c]
    /\ woken' = [woken EXCEPT ![c] = FALSE]
    /\ Goto(c, "committing")
    /\ UNCHANGED <<brokerVars, position, batch, running, containerVars, handled, faults>>

\* Any other exception of poll breaks the loop.
PollFails(c) ==
    /\ pc[c] = "polling"
    /\ Fault
    /\ Goto(c, "closing")
    /\ UNCHANGED <<brokerVars, clientVars, running, containerVars, handled>>

\* Records of a partition come in order.
FirstOfPartition(r, c) == \A o \in batch[c] : o[1] = r[1] => r[2] <= o[2]

\* Mutant of Handle: the next poll follows without a commit.
HandleWithoutCommit(c, r) ==
    /\ pc[c] = "handling"
    /\ r \in batch[c]
    /\ FirstOfPartition(r, c)
    /\ batch' = [batch EXCEPT ![c] = @ \ {r}]
    /\ handled' = handled \cup {r}
    /\ Goto(c, IF batch[c] = {r} THEN "looping" ELSE "handling")
    /\ UNCHANGED <<brokerVars, position, woken, running, containerVars, faults>>

\* receive: the handler gets the record; whatever it returns or throws, the next one
\* follows, and after the last one the commit.
Handle(c, r) ==
    /\ pc[c] = "handling"
    /\ r \in batch[c]
    /\ FirstOfPartition(r, c)
    /\ batch' = [batch EXCEPT ![c] = @ \ {r}]
    /\ handled' = handled \cup {r}
    /\ Goto(c, IF batch[c] = {r} THEN "committing" ELSE "handling")
    /\ UNCHANGED <<brokerVars, position, woken, running, containerVars, faults>>

\* The group moves to the positions of c.
Committed(c) ==
    committed' = [p \in Partitions |->
                    IF p \in DOMAIN position[c] THEN position[c][p] ELSE committed[p]]

\* commitSync or commitAsync succeeds.  commitSync notices a pending wakeup instead.
Commit(c) ==
    /\ pc[c] = "committing"
    /\ c \in group
    /\ commitSync => ~woken[c]
    /\ Committed(c)
    /\ Goto(c, "looping")
    /\ UNCHANGED <<commitSync, group, clientVars, running, containerVars, handled, faults>>

\* A client without partitions has nothing to commit.
CommitNothing(c) ==
    /\ pc[c] = "committing"
    /\ DOMAIN position[c] = {}
    /\ Goto(c, "looping")
    /\ UNCHANGED <<brokerVars, clientVars, running, containerVars, handled, faults>>

\* commitSync throws WakeupException, the request being served or not, or
\* CommitFailedException in a member the group has removed, or another exception.
\* Nothing catches it: the thread ends without close and without handleShutdown.
CommitSyncThrows(c) ==
    /\ pc[c] = "committing"
    /\ commitSync
    /\ DOMAIN position[c] # {}
    /\ \/ /\ woken[c]
          /\ (c \in group /\ Committed(c)) \/ UNCHANGED committed
          /\ UNCHANGED faults
       \/ c \notin group /\ UNCHANGED <<committed, faults>>
       \/ Fault /\ UNCHANGED committed
    /\ woken' = [woken EXCEPT ![c] = FALSE]
    /\ Goto(c, "lost")
    /\ UNCHANGED <<commitSync, group, position, batch, running, containerVars, handled>>

\* commitAsync fails in the background, which no callback hears of.
CommitAsyncFails(c) ==
    /\ pc[c] = "committing"
    /\ ~commitSync
    /\ \/ c \notin group /\ UNCHANGED faults
       \/ Fault
    /\ Goto(c, "looping")
    /\ UNCHANGED <<brokerVars, clientVars, running, containerVars, handled>>

\* Mutant of Close: the client is left open.
CloseNotCalled(c) ==
    /\ pc[c] = "closing"
    /\ running' = [running EXCEPT ![c] = FALSE]
    /\ Goto(c, "shutdown")
    /\ UNCHANGED <<brokerVars, clientVars, containerVars, handled, faults>>

\* After the loop: running = false and close, which leaves the group.  The finally
\* block goes on to handleShutdown also if close throws.
Close(c) ==
    /\ pc[c] = "closing"
    /\ running' = [running EXCEPT ![c] = FALSE]
    /\ woken' = [woken EXCEPT ![c] = FALSE]
    /\ group' = group \ {c}
    /\ position' = [position EXCEPT ![c] = NoOffsets]
    /\ Goto(c, "shutdown")
    /\ UNCHANGED <<commitSync, committed, batch, containerVars, handled, faults>>

-------------------------------------------------------------------------------
\* KafkaConsumerContainer.

\* The list is not synchronised against start and stop.
OtherAdding(t) == \E o \in Threads \ {t} : pc[o] = "adding"

\* Mutant of HandleShutdown: only a consumer that is in the list is replaced.
HandleShutdownIfListed(c) ==
    /\ pc[c] = "shutdown"
    /\ \A o \in Consumers : pc[o] \notin AddStates
    /\ consumers' = RemoveFirst(consumers, c)
    /\ modified' = (modified \/ consumers' # consumers)
    /\ Goto(c, IF stopped \/ c \notin ToSet(consumers) THEN "ended" ELSE "creating")
    /\ UNCHANGED <<brokerVars, clientVars, running, stopped, fresh, cursor, handled, faults>>

\* handleShutdown, one at a time: the consumer leaves the list, and the container
\* replaces it unless it has been stopped.
HandleShutdown(c) ==
    /\ pc[c] = "shutdown"
    /\ \A o \in Consumers : pc[o] \notin AddStates
    /\ \/ /\ consumers' = RemoveFirst(consumers, c)
          /\ modified' = (modified \/ consumers' # consumers)
       \/ OtherAdding(c) /\ modified' = TRUE /\ UNCHANGED consumers
    /\ Goto(c, IF stopped THEN "ended" ELSE "creating")
    /\ UNCHANGED <<brokerVars, clientVars, running, stopped, fresh, cursor, handled, faults>>

\* addConsumer: createConsumer and start, whose loop begins at once.
CreateConsumer(t) ==
    /\ pc[t] = "creating"
    /\ \E c \in Consumers :
        /\ pc[c] = "unused" /\ \A d \in 1 .. c - 1 : pc[d] # "unused"
        /\ running' = [running EXCEPT ![c] = TRUE]
        /\ fresh' = [fresh EXCEPT ![t] = c]
        /\ pc' = [pc EXCEPT ![t] = "adding", ![c] = "looping"]
    /\ UNCHANGED <<brokerVars, clientVars, consumers, stopped, cursor, modified,
                   handled, faults>>

\* createConsumer throws: start fails, or the place of a consumer stays empty.
CreateFails(t) ==
    /\ pc[t] = "creating"
    /\ Fault
    /\ Goto(t, IF t = Main THEN "failed" ELSE "lost")
    /\ UNCHANGED <<brokerVars, clientVars, running, containerVars, handled>>

\* addConsumer: consumers.add, which an overlapping update may undo; start goes on
\* with its loop, handleShutdown returns and the thread ends.
AddConsumer(t) ==
    /\ pc[t] = "adding"
    /\ \/ consumers' = Append(consumers, fresh[t])
       \/ OtherAdding(t) /\ UNCHANGED consumers
    /\ modified' = TRUE
    /\ fresh' = [fresh EXCEPT ![t] = None]
    /\ IF t = Main
       THEN /\ cursor' = cursor + 1
            /\ Goto(t, IF cursor' < MaxConsumers THEN "creating" ELSE "running")
       ELSE /\ Goto(t, "ended")
            /\ UNCHANGED cursor
    /\ UNCHANGED <<brokerVars, clientVars, running, stopped, handled, faults>>

\* stop sets the flag and goes through the list.
StopBegins ==
    /\ pc[Main] \in {"running", "failed"}
    /\ stopped' = TRUE
    /\ cursor' = 0
    /\ modified' = FALSE
    /\ Goto(Main, "stopping")
    /\ UNCHANGED <<brokerVars, clientVars, running, consumers, fresh, handled, faults>>

\* consumer.stop: running = false and wakeup.  Nobody shuts the executor down, so
\* awaitTermination only spends its second.
StopNext ==
    /\ pc[Main] = "stopping"
    /\ cursor < Len(consumers)
    /\ LET c == consumers[cursor + 1]
       IN  /\ running' = [running EXCEPT ![c] = FALSE]
           /\ woken' = [woken EXCEPT ![c] = pc[c] \in LoopStates]
    /\ cursor' = cursor + 1
    /\ UNCHANGED <<brokerVars, position, batch, pc, consumers, stopped, fresh, modified,
                   handled, faults>>

\* ConcurrentModificationException leaves the loop.
StopThrows ==
    /\ pc[Main] = "stopping"
    /\ modified
    /\ cursor # Len(consumers)
    /\ Goto(Main, "ended")
    /\ UNCHANGED <<brokerVars, clientVars, running, containerVars, handled, faults>>

\* After the loop the list is cleared.
StopEnds ==
    /\ pc[Main] = "stopping"
    /\ cursor = Len(consumers)
    /\ consumers' = << >>
    /\ modified' = TRUE
    /\ Goto(Main, "ended")
    /\ UNCHANGED <<brokerVars, clientVars, running, stopped, fresh, cursor, handled, faults>>

-------------------------------------------------------------------------------
\* The group coordinator.

Unassigned == Partitions \ UNION {DOMAIN position[c] : c \in group}

\* When all members are back in poll, the group spreads the partitions over those
\* that are, the newcomers included; they start from the committed offsets.
Rebalance ==
    LET members == {c \in Consumers : pc[c] = "polling"}
    IN  /\ group \subseteq members
        /\ members # group \/ Unassigned # {}
        /\ members # {}
        /\ group' = members
        /\ \E owner \in [Partitions -> members] :
              position' = [c \in Consumers |->
                  IF c \in members
                  THEN [p \in {q \in Partitions : owner[q] = c} |-> committed[p]]
                  ELSE position[c]]
        /\ UNCHANGED <<commitSync, committed, pc, batch, woken, running, containerVars,
                       handled, faults>>

\* A member that has not polled for max.poll.interval.ms is removed: a handler that
\* takes too long, or a thread that has ended and left its client open.
Evict(c) ==
    /\ c \in group
    /\ \/ pc[c] \in {"handling", "committing"} /\ Fault
       \/ pc[c] = "lost" /\ UNCHANGED faults
    /\ group' = group \ {c}
    /\ UNCHANGED <<commitSync, committed, clientVars, pc, running, containerVars, handled>>

-------------------------------------------------------------------------------
LoopStep(c) ==
    \/ LoopTest(c) \/ PollEmpty(c) \/ PollRecords(c) \/ PollWakesUp(c) \/ PollFails(c)
    \/ \E r \in batch[c] : Handle(c, r)
    \/ Commit(c) \/ CommitNothing(c) \/ CommitSyncThrows(c) \/ CommitAsyncFails(c)
    \/ Close(c) \/ HandleShutdown(c)

Add(t) == CreateConsumer(t) \/ CreateFails(t) \/ AddConsumer(t)

Stop == StopNext \/ StopThrows \/ StopEnds

Next ==
    \/ \E c \in Consumers : LoopStep(c) \/ Evict(c)
    \/ \E t \in Threads : Add(t)
    \/ StopBegins \/ Stop
    \/ Rebalance

Spec == Init /\ [][Next]_vars

\* Threads run and handlers return; records that are there and a rebalance that is due
\* reach a consumer that keeps polling; and the coordinator notices who does not.
Fairness ==
    /\ \A c \in Consumers : WF_vars(LoopStep(c))
    /\ SF_vars(\E c \in Consumers : PollRecords(c))
    /\ WF_vars(\E t \in Threads : Add(t))
    /\ WF_vars(Stop)
    /\ SF_vars(Rebalance)
    /\ WF_vars(\E c \in Consumers : pc[c] = "lost" /\ Evict(c))

FairSpec == Spec /\ Fairness
-------------------------------------------------------------------------------
\* The group never moves past a record that the handler was not given, however the
\* partitions move between consumers and wherever loops end.
CommittedWereHandled ==
    \A p \in Partitions : \A o \in 0 .. committed[p] - 1 : <<p, o>> \in handled

\* A record reaches the handler again only after a fault or a loop that was lost: a
\* rebalance among consumers that keep polling repeats nothing.
NoRepeatWithoutFault ==
    [][\A c \in Consumers, r \in handled :
         Handle(c, r) => faults > 0 \/ \E d \in Consumers : pc[d] = "lost"]_vars

\* While the container runs, every place of maxQueueConsumers has its loop, is about to
\* get a new one, or was lost to a commit or a creation that threw; none has two.
ConsumersAccounted ==
    pc[Main] = "running" =>
        Cardinality({c \in Consumers : pc[c] \in LoopStates \cup {"creating", "lost"}})
            = MaxConsumers

\* KafkaConsumer.java:171, "Ensure running is set to false": a consumer whose loop is
\* over does not say that it is running.
RunningMeansLooping ==
    \A c \in Consumers : running[c] => pc[c] \in LoopStates

\* A consumer that was told to stop, or whose loop failed, comes to its end.
StoppedLoopsEnd ==
    \A c \in Consumers :
        (pc[c] \in LoopStates /\ ~running[c]) ~> pc[c] \in EndStates

\* Every record is handled in the end, unless the container stops or no loop is left.
AllHandled ==
    pc[Main] = "running"
        ~> \/ handled = Record
           \/ stopped
           \/ \A c \in Consumers : pc[c] \in EndStates \cup {"unused"}
===============================================================================
