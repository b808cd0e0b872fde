----------------------------- MODULE AmqpDelivery -----------------------------
(***************************************************************************)
(* What happens to an event on a queue consumed with gojek-commons-amqp:   *)
(* AmqpConsumer takes deliveries from its channel one at a time and        *)
(* settles each by the Status of its handler, and FixedRetryHandler turns  *)
(* a soft failure into a publication on the retry exchange, until the      *)
(* deaths that the broker records in the x-death header reach maxRetries.  *)
(*                                                                         *)
(* The broker is external and modelled from how this code uses it: a work  *)
(* queue, a retry queue whose messages expire back to the work queue with  *)
(* one more death, and the dead-letter queue of the work queue.  Messages  *)
(* with the same event and deaths are the same, so queues are bags.        *)
(* Nothing limits prefetch (basicConsume without basicQos), so a channel   *)
(* may be handed any number of deliveries before the first is settled.     *)
(***************************************************************************)
EXTENDS Integers, FiniteSets, FiniteSetsExt, Bags

CONSTANTS Events,        \* events published once to the work queue
          Consumers,     \* the consumers of the queue, each with its channel
          None,          \* no message
          MaxRetries,    \* maxRetries of the FixedRetryHandler
          Malformed,     \* events whose body does not deserialize
          MaxFaults,     \* bound: channels and processes that die, publications that
                         \* fail late or vanish
          MaxThrows      \* bound: exceptions of handlers, and of serializing a retry

Message == [event : Events, deaths : Nat]

ASSUME ConstantsAssumption ==
    /\ None \notin Message
    /\ MaxRetries \in Nat
    /\ MaxFaults \in Nat
    /\ MaxThrows \in Nat
    /\ Malformed \subseteq Events
    /\ IsFiniteSet(Consumers)

VARIABLES ready,      \* the work queue
          waiting,    \* the retry queue
          dead,       \* the dead-letter queue
          delivered,  \* delivered[w]: deliveries on w's channel not yet handled
          job,        \* job[w]: the message w is handling, or None
          pc,         \* pc[w]: "idle", "handling", "retrying" or "settling"
          status,     \* status[w]: the Status job[w] will be settled with
          cut,        \* cut[w]: the channel job[w] came from is gone
          succeeded,  \* history: events whose handler returned success
          vanished,   \* history: events whose retry was published and went nowhere
          handled,    \* history: how often e was given to a handler, to HandledCap
          faults,     \* how many faults have happened
          throws      \* how many handlers have thrown

vars == <<ready, waiting, dead, delivered, job, pc, status, cut,
          succeeded, vanished, handled, faults, throws>>

queues == <<ready, waiting, dead>>
history == <<succeeded, vanished, handled, throws>>

\* Bound: handled stops counting just above every limit it is compared with.
HandledCap == (MaxRetries + 1) * (MaxFaults + 1) + MaxThrows + 1

Status == {"success", "soft_failure", "hard_failure"}

TypeOK ==
    /\ \A q \in {ready, waiting, dead} : IsABag(q) /\ BagToSet(q) \subseteq Message
    /\ delivered = [w \in Consumers |-> delivered[w]]
    /\ \A w \in Consumers :
        IsABag(delivered[w]) /\ BagToSet(delivered[w]) \subseteq Message
    /\ job \in [Consumers -> Message \cup {None}]
    /\ \A w \in Consumers : job[w] = None <=> pc[w] = "idle"
    /\ pc \in [Consumers -> {"idle", "handling", "retrying", "settling"}]
    /\ status \in [Consumers -> Status]
    /\ cut \in [Consumers -> BOOLEAN]
    /\ succeeded \subseteq Events
    /\ vanished \subseteq Events
    /\ handled \in [Events -> 0 .. HandledCap]
    /\ faults \in 0 .. MaxFaults
    /\ throws \in 0 .. MaxThrows

Init ==
    /\ ready = SetToBag({[event |-> e, deaths |-> 0] : e \in Events})
    /\ waiting = EmptyBag
    /\ dead = EmptyBag
    /\ delivered = [w \in Consumers |-> EmptyBag]
    /\ job = [w \in Consumers |-> None]
    /\ pc = [w \in Consumers |-> "idle"]
    /\ status = [w \in Consumers |-> "soft_failure"]
    /\ cut = [w \in Consumers |-> FALSE]
    /\ succeeded = {}
    /\ vanished = {}
    /\ handled = [e \in Events |-> 0]
    /\ faults = 0
    /\ throws = 0

-------------------------------------------------------------------------------
\* A queue with one m more, and one less.
BagAdd(q, m) == q (+) SetToBag({m})
BagRemove(q, m) == q (-) SetToBag({m})

\* The broker pushes a message to one of the channels.
Deliver(w, m) ==
    /\ BagIn(m, ready)
    /\ ready' = BagRemove(ready, m)
    /\ delivered' = [delivered EXCEPT ![w] = BagAdd(@, m)]
    /\ UNCHANGED <<waiting, dead, job, pc, status, cut, history, faults>>

\* A message of the retry queue expires and is dead-lettered to the work queue.
RetryExpires(m) ==
    /\ BagIn(m, waiting)
    /\ waiting' = BagRemove(waiting, m)
    /\ ready' = BagAdd(ready, [m EXCEPT !.deaths = @ + 1])
    /\ UNCHANGED <<dead, delivered, job, pc, status, cut, history, faults>>

\* handleDelivery on a body that does not deserialize: basicNack, no requeue.
RejectMalformed(w, m) ==
    /\ pc[w] = "idle"
    /\ BagIn(m, delivered[w])
    /\ m.event \in Malformed
    /\ delivered' = [delivered EXCEPT ![w] = BagRemove(@, m)]
    /\ dead' = BagAdd(dead, m)
    /\ UNCHANGED <<ready, waiting, job, pc, status, cut, history, faults>>

\* handleDelivery hands the event to the handler; status starts as soft_failure.
Handle(w, m) ==
    /\ pc[w] = "idle"
    /\ BagIn(m, delivered[w])
    /\ m.event \notin Malformed
    /\ delivered' = [delivered EXCEPT ![w] = BagRemove(@, m)]
    /\ job' = [job EXCEPT ![w] = m]
    /\ pc' = [pc EXCEPT ![w] = "handling"]
    /\ status' = [status EXCEPT ![w] = "soft_failure"]
    /\ cut' = [cut EXCEPT ![w] = FALSE]
    /\ handled' = [handled EXCEPT ![m.event] = IF @ < HandledCap THEN @ + 1 ELSE @]
    /\ UNCHANGED <<queues, succeeded, vanished, faults, throws>>

Settling(w, s) ==
    /\ pc' = [pc EXCEPT ![w] = "settling"]
    /\ status' = [status EXCEPT ![w] = s]

\* handleInternal returns success or hard_failure, which handle passes on.
HandlerDecides(w, s) ==
    /\ pc[w] = "handling"
    /\ s \in {"success", "hard_failure"}
    /\ Settling(w, s)
    /\ succeeded' = IF s = "success" THEN succeeded \cup {job[w].event} ELSE succeeded
    /\ UNCHANGED <<queues, delivered, job, cut, vanished, handled, faults, throws>>

\* handleInternal returns soft_failure: handle goes on to retry.
HandlerFails(w) ==
    /\ pc[w] = "handling"
    /\ pc' = [pc EXCEPT ![w] = "retrying"]
    /\ UNCHANGED <<queues, delivered, job, status, cut, history, faults>>

\* handleInternal throws, or serializing the event in retry does: handleDelivery
\* keeps soft_failure, and no death counts the attempt.
HandlerThrows(w) ==
    /\ pc[w] = "handling" \/ (pc[w] = "retrying" /\ job[w].deaths < MaxRetries)
    /\ throws < MaxThrows
    /\ throws' = throws + 1
    /\ Settling(w, "soft_failure")
    /\ UNCHANGED <<queues, delivered, job, cut, succeeded, vanished, handled, faults>>

\* failureCount >= maxRetries.
RetriesExceeded(w) ==
    /\ pc[w] = "retrying"
    /\ job[w].deaths >= MaxRetries
    /\ Settling(w, "hard_failure")
    /\ UNCHANGED <<queues, delivered, job, cut, history, faults>>

\* Mutants of RetryPublished: one retry too many, requeueing what was republished,
\* and publishing without the headers of the delivery.
RetryPublishedOnceMore(w) ==
    /\ pc[w] = "retrying"
    /\ job[w].deaths <= MaxRetries
    /\ waiting' = BagAdd(waiting, job[w])
    /\ Settling(w, "success")
    /\ UNCHANGED <<ready, dead, delivered, job, cut, history, faults>>

RetryPublishedRequeues(w) ==
    /\ pc[w] = "retrying"
    /\ job[w].deaths < MaxRetries
    /\ waiting' = BagAdd(waiting, job[w])
    /\ Settling(w, "soft_failure")
    /\ UNCHANGED <<ready, dead, delivered, job, cut, history, faults>>

RetryPublishedNoHeaders(w) ==
    /\ pc[w] = "retrying"
    /\ job[w].deaths < MaxRetries
    /\ waiting' = BagAdd(waiting, [job[w] EXCEPT !.deaths = 0])
    /\ Settling(w, "success")
    /\ UNCHANGED <<ready, dead, delivered, job, cut, history, faults>>

\* basicPublish to the retry exchange with the headers of the delivery.  It is neither
\* mandatory nor confirmed: that it returns does not mean that the broker has the
\* message in a queue, and a message that vanishes so is a fault.
RetryPublished(w) ==
    /\ pc[w] = "retrying"
    /\ job[w].deaths < MaxRetries
    /\ \/ /\ waiting' = BagAdd(waiting, job[w])
          /\ UNCHANGED <<vanished, faults>>
       \/ /\ faults < MaxFaults
          /\ faults' = faults + 1
          /\ vanished' = vanished \cup {job[w].event}
          /\ UNCHANGED waiting
    /\ Settling(w, "success")
    /\ UNCHANGED <<ready, dead, delivered, job, cut, succeeded, handled, throws>>

\* Mutant of RetryNotPublished: a failed publication is taken for a retry.
RetryNotPublishedSucceeds(w) ==
    /\ pc[w] = "retrying"
    /\ job[w].deaths < MaxRetries
    /\ Settling(w, "success")
    /\ UNCHANGED <<queues, delivered, job, cut, history, faults>>

\* No channel, or basicPublish throws: hard_failure.  The publication may have
\* reached the broker all the same, which counts as a fault.
RetryNotPublished(w) ==
    /\ pc[w] = "retrying"
    /\ job[w].deaths < MaxRetries
    /\ \/ UNCHANGED <<waiting, faults>>
       \/ /\ faults < MaxFaults
          /\ faults' = faults + 1
          /\ waiting' = BagAdd(waiting, job[w])
    /\ Settling(w, "hard_failure")
    /\ UNCHANGED <<ready, dead, delivered, job, cut, history>>

\* basicAck or basicNack on the channel of the delivery, by status.  If that
\* channel is gone the call throws and the broker has requeued the message.
Settle(w) ==
    /\ pc[w] = "settling"
    /\ IF cut[w]
       THEN UNCHANGED <<ready, dead>>
       ELSE /\ ready' = IF status[w] = "soft_failure" THEN BagAdd(ready, job[w]) ELSE ready
            /\ dead' = IF status[w] = "hard_failure" THEN BagAdd(dead, job[w]) ELSE dead
    /\ job' = [job EXCEPT ![w] = None]
    /\ pc' = [pc EXCEPT ![w] = "idle"]
    /\ UNCHANGED <<waiting, delivered, status, cut, history, faults>>

\* What the broker still waits to see settled on w's channel.
Unsettled(w) ==
    IF job[w] = None \/ cut[w] THEN delivered[w] ELSE BagAdd(delivered[w], job[w])

\* The channel of w dies: the broker requeues what it had not seen settled, and
\* the container starts a consumer in its place.  A handler at work goes on.
ChannelDies(w) ==
    /\ faults < MaxFaults
    /\ faults' = faults + 1
    /\ ready' = ready (+) Unsettled(w)
    /\ delivered' = [delivered EXCEPT ![w] = EmptyBag]
    /\ cut' = [cut EXCEPT ![w] = TRUE]
    /\ UNCHANGED <<waiting, dead, job, pc, status, history>>

\* The process of w dies with its handler, and another takes its place.
ProcessDies(w) ==
    /\ faults < MaxFaults
    /\ faults' = faults + 1
    /\ ready' = ready (+) Unsettled(w)
    /\ delivered' = [delivered EXCEPT ![w] = EmptyBag]
    /\ job' = [job EXCEPT ![w] = None]
    /\ pc' = [pc EXCEPT ![w] = "idle"]
    /\ UNCHANGED <<waiting, dead, status, cut, history>>

-------------------------------------------------------------------------------
HandlerReturns(w) ==
    \/ \E s \in Status : HandlerDecides(w, s)
    \/ HandlerFails(w) \/ HandlerThrows(w)

Retry(w) ==
    RetriesExceeded(w) \/ RetryPublished(w) \/ RetryNotPublished(w)

Take(w) ==
    \E m \in BagToSet(delivered[w]) : RejectMalformed(w, m) \/ Handle(w, m)

ConsumerStep(w) == Take(w) \/ HandlerReturns(w) \/ Retry(w) \/ Settle(w)

Broker ==
    \/ \E m \in BagToSet(ready), w \in Consumers : Deliver(w, m)
    \/ \E m \in BagToSet(waiting) : RetryExpires(m)

Next ==
    \/ Broker
    \/ \E w \in Consumers : ConsumerStep(w) \/ ChannelDies(w) \/ ProcessDies(w)

Spec == Init /\ [][Next]_vars

\* The broker delivers and expires, consumer threads run and handlers return.
Fairness ==
    /\ WF_vars(\E m \in BagToSet(ready), w \in Consumers : Deliver(w, m))
    /\ WF_vars(\E m \in BagToSet(waiting) : RetryExpires(m))
    /\ \A w \in Consumers : WF_vars(ConsumerStep(w))

FairSpec == Spec /\ Fairness
-------------------------------------------------------------------------------
\* What the broker has: queued, unsettled on a channel, waiting for a retry or dead.
Kept ==
    BagToSet(ready) \cup BagToSet(waiting) \cup BagToSet(dead)
      \cup UNION {BagToSet(Unsettled(w)) : w \in Consumers}

\* An event that has not been handled with success is never gone: the broker still has
\* a copy of it, whatever dies.  Only the broker can lose it, by dropping a publication.
NoEventLost ==
    \A e \in Events : e \in succeeded \cup vanished \/ \E m \in Kept : m.event = e

\* No more deaths than retries: a message that was retried maxRetries times is not
\* published to the retry exchange again.
RetryBudget ==
    \A m \in BagToSet(waiting) \cup ({job[w] : w \in Consumers} \ {None}) :
        m.deaths <= MaxRetries

\* A handler sees an event at most maxRetries + 1 times, that many times again for
\* each fault, and once more for each time that it throws.
HandlingsBounded ==
    \A e \in Events : handled[e] <= (MaxRetries + 1) * (faults + 1) + throws

\* A consumer has published the retry of its job and not yet acknowledged it.
Republished(w, e) ==
    pc[w] = "settling" /\ ~cut[w] /\ job[w].event = e /\ status[w] = "success"

\* The number of copies of e that the broker has, in queues and unsettled.
Copies(e) ==
    LET In(q) == SumFunctionOnSet(q, {m \in BagToSet(q) : m.event = e})
    IN  In(ready) + In(waiting) + In(dead)
          + SumFunction([w \in Consumers |-> In(Unsettled(w))])

\* An event exists once.  A second copy exists only between the publication of a
\* retry and the acknowledgement of the delivery, or because of a fault.
NoCopyWithoutFault ==
    \A e \in Events :
        Copies(e) <= 1 + faults + Cardinality({w \in Consumers : Republished(w, e)})

\* Every event ends up handled with success or dead-lettered, if the broker does not
\* drop its retry and handlers do not throw for ever.
EventSettles ==
    \A e \in Events :
        <>(e \in succeeded \cup vanished \/ \E m \in BagToSet(dead) : m.event = e)
===============================================================================
