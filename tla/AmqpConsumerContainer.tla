------------------------ MODULE AmqpConsumerContainer ------------------------
(***************************************************************************)
(* The channel pool of AmqpConnection and an AmqpConsumerContainer whose   *)
(* consumers live on its channels.  The threads are the lifecycle thread,  *)
(* which starts the container and later stops it and closes the            *)
(* connection, the thread in the monitor of handleShutdown, and threads    *)
(* that call AmqpConnection.execute: producers, health checks, consumers   *)
(* that publish a retry.                                                   *)
(*                                                                         *)
(* A consumer is created with its channel and never gets another one, so   *)
(* it is named by its channel.  The broker, the pool (commons-pool2, last  *)
(* in first out, blocking when exhausted, testing nothing) and the client  *)
(* (which re-subscribes what it recovers) are external.                    *)
(***************************************************************************)
EXTENDS Integers, Sequences, FiniteSets, SequencesExt

CONSTANTS Channels,      \* as many as maxChannels
          Users,         \* threads that call AmqpConnection.execute
          None,          \* no channel
          MaxIdle,       \* maxIdleChannels
          MaxConsumers,  \* maxQueueConsumers of the container
          AutoRecovery,  \* autoRecovery of the configuration
          MaxFaults,     \* bound: channels the broker closes
          MaxOutages     \* bound: failures of the connection

ASSUME ConstantsAssumption ==
    /\ IsFiniteSet(Channels)
    /\ None \notin Channels
    /\ {"main", "shutdown"} \cap Users = {}
    /\ MaxIdle \in Nat
    /\ MaxConsumers \in Nat \ {0}
    /\ AutoRecovery \in BOOLEAN
    /\ MaxFaults \in Nat
    /\ MaxOutages \in Nat

VARIABLES chan,        \* chan[c]: "none" (no such channel), "open", "down", "closed"
          idle,        \* the idle channels of the pool, last returned first
          taken,       \* the channels the pool has lent out
          up,          \* is the connection up?
          pc,          \* pc[t]: where thread t is
          hand,        \* hand[t]: the channel t has borrowed, until it is passed on
          consumers,   \* the list of the container
          subscribed,  \* consumers the broker delivers to, or will after recovery
          signals,     \* signals[c]: calls of c.handleShutdownSignal to be served
          started,     \* consumers that start has added
          cursor,      \* position of the loop in stop
          modified,    \* has consumers changed since that loop began?
          abandoned,   \* history: calls of handleShutdown that threw
          faults,      \* channels the broker has closed
          outages      \* failures of the connection so far

poolVars == <<chan, idle, taken>>
listVars == <<consumers, modified>>
stopVars == <<started, cursor>>
countVars == <<abandoned, faults, outages>>
vars == <<poolVars, up, pc, hand, listVars, subscribed, signals, stopVars, countVars>>

Threads == Users \cup {"main", "shutdown"}

UserStates == {"idle", "borrowing", "using"}
AddStates == {"borrowing", "consuming", "adding"}
StopStates == {"stopping", "closing", "draining", "closed"}

TypeOK ==
    /\ chan \in [Channels -> {"none", "open", "down", "closed"}]
    /\ idle \in Seq(Channels) /\ Len(idle) <= MaxIdle
    /\ taken \subseteq Channels
    /\ up \in BOOLEAN
    /\ pc \in [Threads -> UserStates \cup AddStates \cup {"running"} \cup StopStates]
    /\ hand \in [Threads -> Channels \cup {None}]
    /\ consumers \in Seq(Channels)
    /\ subscribed \subseteq Channels
    /\ signals \in [Channels -> Nat]
    /\ started \in 0 .. MaxConsumers
    /\ cursor \in Nat
    /\ modified \in BOOLEAN
    /\ abandoned \in Nat
    /\ faults \in 0 .. MaxFaults
    /\ outages \in 0 .. MaxOutages

Init ==
    /\ chan = [c \in Channels |-> "none"]
    /\ idle = <<>>
    /\ taken = {}
    /\ up = TRUE
    /\ pc = [t \in Threads |-> IF t = "main" THEN "borrowing" ELSE "idle"]
    /\ hand = [t \in Threads |-> None]
    /\ consumers = <<>>
    /\ subscribed = {}
    /\ signals = [c \in Channels |-> 0]
    /\ started = 0
    /\ cursor = 0
    /\ modified = FALSE
    /\ abandoned = 0
    /\ faults = 0
    /\ outages = 0

PoolClosed == pc["main"] = "closed"
Goto(t, l) == pc' = [pc EXCEPT ![t] = l]

-------------------------------------------------------------------------------
\* AmqpConnection: getChannel, releaseChannel and the pool.

\* There is room for one more channel.  What it is called does not matter.
Room == \E c \in Channels : chan[c] = "none"
NewChannel == CHOOSE c \in Channels : chan[c] = "none"

\* borrowObject lends the channel returned last, open or not, or creates one if
\* there is room and the connection is up.
GetChannel(t) ==
    /\ pc[t] = "borrowing"
    /\ ~PoolClosed
    /\ \E c \in Channels :
        /\ \/ /\ idle # <<>>
              /\ c = Head(idle)
              /\ idle' = Tail(idle)
              /\ UNCHANGED chan
           \/ /\ idle = <<>>
              /\ up
              /\ Room
              /\ c = NewChannel
              /\ chan' = [chan EXCEPT ![c] = "open"]
              /\ UNCHANGED idle
        /\ taken' = taken \cup {c}
        /\ hand' = [hand EXCEPT ![t] = c]
    /\ Goto(t, IF t \in Users THEN "using" ELSE "consuming")
    /\ UNCHANGED <<up, listVars, subscribed, signals, stopVars, countVars>>

\* An exception ends what t was doing: execute, handleShutdown (without a
\* replacement), or start, after which the lifecycle stops what it has started.
Throws(t) ==
    /\ Goto(t, IF t = "main" THEN "stopping" ELSE "idle")
    /\ abandoned' = IF t = "shutdown" THEN abandoned + 1 ELSE abandoned
    /\ modified' = IF t = "main" THEN FALSE ELSE modified

\* Mutant of GetChannelFails: close empties the pool instead of closing it.
GetChannelFailsOnCreate(t) ==
    /\ pc[t] = "borrowing"
    /\ idle = <<>> /\ ~up /\ Room
    /\ ~PoolClosed
    /\ Throws(t)
    /\ UNCHANGED <<poolVars, up, hand, consumers, subscribed, signals, stopVars,
                   faults, outages>>

\* The pool is closed, or createChannel fails without a connection.
GetChannelFails(t) ==
    /\ pc[t] = "borrowing"
    /\ \/ PoolClosed
       \/ idle = <<>> /\ ~up /\ Room
    /\ Throws(t)
    /\ UNCHANGED <<poolVars, up, hand, consumers, subscribed, signals, stopVars,
                   faults, outages>>

\* A thread calls execute.
Execute(u) ==
    /\ pc[u] = "idle"
    /\ Goto(u, "borrowing")
    /\ UNCHANGED <<poolVars, up, hand, listVars, subscribed, signals, stopVars,
                   countVars>>

\* Mutant of ReleaseChannel: a channel is not released when the executor throws.
ReleaseChannelUnlessThrown(u) ==
    /\ pc[u] = "using"
    /\ \/ taken' = taken \ {hand[u]} /\ idle' = <<hand[u]>> \o idle
       \/ UNCHANGED <<taken, idle>>
    /\ hand' = [hand EXCEPT ![u] = None]
    /\ Goto(u, "idle")
    /\ UNCHANGED <<chan, up, listVars, subscribed, signals, stopVars, countVars>>

\* returnObject closes the channel if the pool is closed or has enough idle ones.
ReleaseChannel(u) ==
    /\ pc[u] = "using"
    /\ IF PoolClosed \/ Len(idle) >= MaxIdle
       THEN /\ chan' = [chan EXCEPT ![hand[u]] = "none"]
            /\ UNCHANGED idle
       ELSE /\ idle' = <<hand[u]>> \o idle
            /\ UNCHANGED chan
    /\ taken' = taken \ {hand[u]}
    /\ hand' = [hand EXCEPT ![u] = None]
    /\ Goto(u, "idle")
    /\ UNCHANGED <<up, listVars, subscribed, signals, stopVars, countVars>>

-------------------------------------------------------------------------------
\* AmqpConsumerContainer: start, addConsumer, handleShutdown.

Adders == {"main", "shutdown"}

\* addConsumer: consumer.start subscribes the new consumer, if its channel is open.
Consume(t) ==
    /\ pc[t] = "consuming"
    /\ chan[hand[t]] = "open"
    /\ subscribed' = subscribed \cup {hand[t]}
    /\ Goto(t, "adding")
    /\ UNCHANGED <<poolVars, up, hand, listVars, signals, stopVars, countVars>>

\* basicConsume throws.  The channel is never returned.
ConsumeFails(t) ==
    /\ pc[t] = "consuming"
    /\ chan[hand[t]] # "open"
    /\ Throws(t)
    /\ hand' = [hand EXCEPT ![t] = None]
    /\ UNCHANGED <<poolVars, up, consumers, subscribed, signals, stopVars,
                   faults, outages>>

\* Is the list, which nothing synchronises, also being added to by another thread?
OtherAdding(t) == \E o \in Adders \ {t} : pc[o] = "adding"

\* addConsumer: consumers.add, which an overlapping update may undo; start goes on
\* with its loop, handleShutdown returns.
AddConsumer(t) ==
    /\ pc[t] = "adding"
    /\ \/ consumers' = Append(consumers, hand[t])
       \/ OtherAdding(t) /\ UNCHANGED consumers
    /\ modified' = TRUE
    /\ hand' = [hand EXCEPT ![t] = None]
    /\ IF t = "main"
       THEN /\ started' = started + 1
            /\ Goto(t, IF started' < MaxConsumers THEN "borrowing" ELSE "running")
       ELSE /\ Goto(t, "idle")
            /\ UNCHANGED started
    /\ UNCHANGED <<poolVars, up, subscribed, signals, cursor, countVars>>

\* Mutants of HandleShutdown: the channel goes back to the pool; only a consumer that
\* is in the list is replaced.
HandleShutdownReleasing(c) ==
    /\ signals[c] > 0
    /\ pc["shutdown"] = "idle"
    /\ signals' = [signals EXCEPT ![c] = @ - 1]
    /\ Goto("shutdown", "borrowing")
    /\ consumers' = RemoveFirst(consumers, c)
    /\ modified' = TRUE
    /\ idle' = <<c>> \o idle
    /\ taken' = taken \ {c}
    /\ UNCHANGED <<chan, up, hand, subscribed, stopVars, countVars>>

HandleShutdownIfListed(c) ==
    /\ signals[c] > 0
    /\ pc["shutdown"] = "idle"
    /\ signals' = [signals EXCEPT ![c] = @ - 1]
    /\ IF c \in ToSet(consumers)
       THEN Goto("shutdown", "borrowing") /\ consumers' = RemoveFirst(consumers, c)
       ELSE UNCHANGED <<pc, consumers>>
    /\ modified' = TRUE
    /\ UNCHANGED <<poolVars, up, hand, subscribed, stopVars, countVars>>

\* handleShutdownSignal not initiated by the application: handleShutdown, one at a
\* time, removes the consumer and goes on to add one on a new channel.
HandleShutdown(c) ==
    /\ signals[c] > 0
    /\ pc["shutdown"] = "idle"
    /\ signals' = [signals EXCEPT ![c] = @ - 1]
    /\ Goto("shutdown", "borrowing")
    /\ \/ /\ consumers' = RemoveFirst(consumers, c)
          /\ modified' = (modified \/ consumers' # consumers)
       \/ OtherAdding("shutdown") /\ UNCHANGED consumers /\ modified' = TRUE
    /\ UNCHANGED <<poolVars, up, hand, subscribed, stopVars, countVars>>

-------------------------------------------------------------------------------
\* The container stops, then AmqpConnectionManager closes the connection.

StopBegins ==
    /\ pc["main"] = "running"
    /\ Goto("main", "stopping")
    /\ modified' = FALSE
    /\ UNCHANGED <<poolVars, up, hand, consumers, subscribed, signals, stopVars,
                   countVars>>

\* Mutant of StopNext: what closing a closed channel throws is not caught.
StopNextUncaught ==
    /\ pc["main"] = "stopping"
    /\ cursor < Len(consumers)
    /\ LET c == consumers[cursor + 1]
       IN  /\ chan' = [chan EXCEPT ![c] = "closed"]
           /\ subscribed' = subscribed \ {c}
           /\ IF chan[c] = "closed" THEN Goto("main", "closing") ELSE UNCHANGED pc
    /\ cursor' = cursor + 1
    /\ UNCHANGED <<idle, taken, up, hand, listVars, signals, started, countVars>>

\* consumer.stop closes the channel, which is not signalled, and logs what fails.
\* A change of the list by another thread may go unseen.
StopNext ==
    /\ pc["main"] = "stopping"
    /\ cursor < Len(consumers)
    /\ LET c == consumers[cursor + 1]
       IN  /\ chan' = [chan EXCEPT ![c] = "closed"]
           /\ subscribed' = subscribed \ {c}
    /\ cursor' = cursor + 1
    /\ UNCHANGED <<idle, taken, up, pc, hand, listVars, signals, started, countVars>>

\* ConcurrentModificationException leaves the loop; the lifecycle goes on.
StopThrows ==
    /\ pc["main"] = "stopping"
    /\ modified
    /\ cursor # Len(consumers)
    /\ Goto("main", "closing")
    /\ UNCHANGED <<poolVars, up, hand, listVars, subscribed, signals, stopVars,
                   countVars>>

\* Mutant of StopEnds: stop is synchronized, as handleShutdown is.
StopEndsSynchronized ==
    /\ pc["main"] = "stopping"
    /\ pc["shutdown"] = "idle"
    /\ cursor = Len(consumers)
    /\ Goto("main", "closing")
    /\ UNCHANGED <<poolVars, up, hand, listVars, subscribed, signals, stopVars,
                   countVars>>

StopEnds ==
    /\ pc["main"] = "stopping"
    /\ cursor = Len(consumers)
    /\ Goto("main", "closing")
    /\ UNCHANGED <<poolVars, up, hand, listVars, subscribed, signals, stopVars,
                   countVars>>

\* close: connection.close closes every channel.
CloseConnection ==
    /\ pc["main"] = "closing"
    /\ chan' = [c \in Channels |-> IF chan[c] = "none" THEN "none" ELSE "closed"]
    /\ up' = FALSE
    /\ subscribed' = {}
    /\ Goto("main", "draining")
    /\ UNCHANGED <<idle, taken, hand, listVars, signals, stopVars, countVars>>

\* close: pool.close discards the idle channels and wakes who waits for one.
ClosePool ==
    /\ pc["main"] = "draining"
    /\ Goto("main", "closed")
    /\ chan' = [c \in Channels |-> IF c \in ToSet(idle) THEN "none" ELSE chan[c]]
    /\ idle' = <<>>
    /\ UNCHANGED <<taken, up, hand, listVars, subscribed, signals, stopVars, countVars>>

-------------------------------------------------------------------------------
\* The broker and the network.

\* The broker closes a channel, after an error on it; a consumer on it is signalled.
ChannelDies(c) ==
    /\ faults < MaxFaults
    /\ faults' = faults + 1
    /\ chan[c] = "open"
    /\ chan' = [chan EXCEPT ![c] = "closed"]
    /\ signals' = [signals EXCEPT ![c] = IF c \in subscribed THEN @ + 1 ELSE @]
    /\ subscribed' = subscribed \ {c}
    /\ UNCHANGED <<idle, taken, up, pc, hand, listVars, stopVars, abandoned, outages>>

\* The connection fails with all its channels; every consumer is signalled.
ConnectionFails ==
    /\ up
    /\ outages < MaxOutages
    /\ outages' = outages + 1
    /\ up' = FALSE
    /\ chan' = [c \in Channels |-> IF chan[c] # "open" THEN chan[c]
                                   ELSE IF AutoRecovery THEN "down" ELSE "closed"]
    /\ signals' = [c \in Channels |-> IF c \in subscribed THEN signals[c] + 1 ELSE signals[c]]
    /\ subscribed' = IF AutoRecovery THEN subscribed ELSE {}
    /\ UNCHANGED <<idle, taken, pc, hand, listVars, stopVars, abandoned, faults>>

\* The client reconnects, reopens the channels and subscribes their consumers again.
ConnectionRecovers ==
    /\ AutoRecovery
    /\ ~up
    /\ pc["main"] \notin {"draining", "closed"}
    /\ up' = TRUE
    /\ chan' = [c \in Channels |-> IF chan[c] = "down" THEN "open" ELSE chan[c]]
    /\ UNCHANGED <<idle, taken, pc, hand, listVars, subscribed, signals, stopVars,
                   countVars>>

-------------------------------------------------------------------------------
Stop == StopNext \/ StopThrows \/ StopEnds \/ CloseConnection \/ ClosePool

Add(t) == Consume(t) \/ ConsumeFails(t) \/ AddConsumer(t)

Next ==
    \/ \E t \in Threads : GetChannel(t) \/ GetChannelFails(t)
    \/ \E u \in Users : Execute(u) \/ ReleaseChannel(u)
    \/ \E t \in Adders : Add(t)
    \/ \E c \in Channels : HandleShutdown(c) \/ ChannelDies(c)
    \/ StopBegins \/ Stop
    \/ ConnectionFails \/ ConnectionRecovers

Spec == Init /\ [][Next]_vars

\* Threads run, signals are served, and the pool does not starve one of the threads
\* that wait for a channel.
Fairness ==
    /\ \A t \in Threads : SF_vars(GetChannel(t) \/ GetChannelFails(t))
    /\ \A u \in Users : WF_vars(ReleaseChannel(u))
    /\ \A t \in Adders : WF_vars(Add(t))
    /\ WF_vars(\E c \in Channels : HandleShutdown(c))
    /\ WF_vars(Stop)

FairSpec == Spec /\ Fairness
-------------------------------------------------------------------------------
\* AmqpConnection.java:23: a pool "to ensure the a channel is accessed by only one
\* thread at any point of time".  No channel is in the hands of two threads, and the
\* channel of a consumer is neither idle nor in the hands of a user.
OneHolder ==
    /\ \A t, o \in Threads : t # o /\ hand[t] # None => hand[t] # hand[o]
    /\ \A u \in Users : hand[u] \notin subscribed
    /\ \A c \in ToSet(idle) : c \notin subscribed /\ \A t \in Threads : hand[t] # c

\* Consumers still to be replaced: signals to serve, and the one being served until
\* its replacement is subscribed.
Replacing ==
    SumFunction(signals) + (IF pc["shutdown"] \in {"borrowing", "consuming"} THEN 1 ELSE 0)

\* While the container runs and channels die one by one, no consumer disappears and
\* none is started twice: maxConsumers are subscribed, about to be replaced, or were
\* lost to a handleShutdown that threw.
ConsumersAccounted ==
    pc["main"] = "running" /\ outages = 0 =>
        Cardinality(subscribed) + Replacing + abandoned = MaxConsumers

\* A stop that no handleShutdown disturbed has stopped every consumer in the list,
\* though some had died before it came to them.
StopsListed ==
    pc["main"] \in {"closing", "draining", "closed"} /\ ~modified =>
        subscribed \cap ToSet(consumers) = {}

\* AmqpConsumerContainer.java:95, "adding a new one as a replacement": every call of
\* handleShutdown comes to an end.
ReplacementEnds == \A c \in Channels : signals[c] > 0 ~> signals[c] = 0 /\ pc["shutdown"] = "idle"

\* As long as there are channels for the consumers, for every consumer that died and for
\* the users, every call of handleShutdown comes to an end, and every call of execute
\* gets a channel or an exception.
Spare ==
    MaxConsumers * (outages + 1) + faults + Cardinality(Users) <= Cardinality(Channels)

ReplacementEndsWithRoom ==
    \A c \in Channels :
        signals[c] > 0 ~> ~Spare \/ (signals[c] = 0 /\ pc["shutdown"] = "idle")

\* The same for execute.
ExecuteEnds == \A u \in Users : pc[u] = "borrowing" ~> pc[u] # "borrowing" \/ ~Spare

\* Stopping completes, whoever waits for a channel or holds the monitor meanwhile.
StopCompletes == pc["main"] = "stopping" ~> PoolClosed

\* Closing the pool lets every thread go that waited for a channel or had one.
StopFreesWaiters ==
    \A t \in Threads :
        PoolClosed /\ (hand[t] # None \/ pc[t] = "borrowing")
            ~> hand[t] = None /\ pc[t] # "borrowing"
===============================================================================
