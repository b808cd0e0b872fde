-------------------------- MODULE AmqpDeliveryProofs --------------------------
(***************************************************************************)
(* For any number of events, consumers, faults and exceptions: no event is *)
(* lost (NoEventLost), no message is retried more often than maxRetries    *)
(* (RetryBudget), copies come only from faults (NoCopyWithoutFault), and   *)
(* handlings are bounded (HandlingsBounded).                               *)
(*                                                                         *)
(* The last two are sums over all queues and deliveries.  Both follow from *)
(* one potential that weighs every copy of an event by its deaths, and a   *)
(* job by what it can still put into a queue: with weight 1 it counts      *)
(* copies, and with the handlings a copy is still good for it bounds the   *)
(* handlings to come.  No step increases it but a fault and an exception,  *)
(* by one copy of the event at most; StepIsWeighed shows it for both       *)
(* weights at once.  The sums are those of SumFunctionOnSet, whose lemmas  *)
(* come from the well-founded order of the subsets of a finite set.        *)
(***************************************************************************)
EXTENDS AmqpDelivery, FiniteSetTheorems, WellFoundedInduction, TLAPS

\* A message was published to the retry exchange with deaths to spare.
DeathsFit ==
    /\ \A m \in BagToSet(waiting) : m.deaths < MaxRetries
    /\ \A m \in BagToSet(ready) \cup BagToSet(dead) : m.deaths <= MaxRetries
    /\ \A w \in Consumers : \A m \in BagToSet(delivered[w]) : m.deaths <= MaxRetries
    /\ \A w \in Consumers : job[w] # None => job[w].deaths <= MaxRetries

\* w will settle its job otherwise than by acknowledging it.
Open(w) == pc[w] # "idle" /\ ~cut[w] /\ ~(pc[w] = "settling" /\ status[w] = "success")

\* The broker has m on w's channel and will not be told to forget it.
At(w, m) == m \in BagToSet(delivered[w]) \/ (Open(w) /\ job[w] = m)

\* The broker has m and will not be told to forget it.
Alive(m) ==
    \/ m \in BagToSet(ready)
    \/ m \in BagToSet(waiting)
    \/ m \in BagToSet(dead)
    \/ \E w \in Consumers : At(w, m)

\* What is acknowledged has succeeded, or lives on in another copy.
Lives(e) == e \in succeeded \cup vanished \/ \E m \in Message : m.event = e /\ Alive(m)

EventsAlive == \A e \in Events : Lives(e)

IInv == TypeOK /\ DeathsFit /\ EventsAlive

-------------------------------------------------------------------------------
\* What is in a bag after the operations on it.

LEMMA Emptied == IsABag(EmptyBag) /\ BagToSet(EmptyBag) = {}
  BY DEF EmptyBag, SetToBag, IsABag, BagToSet

LEMMA Filled ==
  ASSUME NEW S
  PROVE  IsABag(SetToBag(S)) /\ BagToSet(SetToBag(S)) = S
  BY DEF SetToBag, IsABag, BagToSet

LEMMA United ==
  ASSUME NEW B, NEW C, IsABag(B), IsABag(C)
  PROVE  IsABag(B (+) C) /\ BagToSet(B (+) C) = BagToSet(B) \cup BagToSet(C)
<1>1. DOMAIN (B (+) C) = DOMAIN B \cup DOMAIN C
  BY DEF (+)
<1>2. ASSUME NEW x \in DOMAIN B \cup DOMAIN C
      PROVE  (B (+) C)[x] \in {n \in Nat : n > 0}
  <2>1. x \in DOMAIN B => B[x] \in Nat /\ B[x] > 0
    BY DEF IsABag
  <2>2. x \in DOMAIN C => C[x] \in Nat /\ C[x] > 0
    BY DEF IsABag
  <2> QED
    BY <2>1, <2>2 DEF (+)
<1>3. IsABag(B (+) C)
  BY <1>1, <1>2 DEF IsABag, (+)
<1> QED
  BY <1>1, <1>3 DEF BagToSet

LEMMA Added ==
  ASSUME NEW B, IsABag(B), NEW x
  PROVE  IsABag(BagAdd(B, x)) /\ BagToSet(BagAdd(B, x)) = BagToSet(B) \cup {x}
  BY Filled, United DEF BagAdd

LEMMA Removed ==
  ASSUME NEW B, IsABag(B), NEW x
  PROVE  /\ IsABag(BagRemove(B, x))
         /\ BagToSet(BagRemove(B, x)) \subseteq BagToSet(B)
         /\ BagToSet(B) \subseteq BagToSet(BagRemove(B, x)) \cup {x}
<1> DEFINE C == [y \in DOMAIN B |-> IF y \in DOMAIN SetToBag({x}) THEN B[y] - SetToBag({x})[y] ELSE B[y]]
<1>1. BagRemove(B, x) = [y \in {d \in DOMAIN C : C[d] > 0} |-> C[y]]
  BY DEF BagRemove, (-)
<1>2. DOMAIN C = DOMAIN B /\ \A y \in DOMAIN B : C[y] = IF y = x THEN B[y] - 1 ELSE B[y]
  BY DEF SetToBag
<1>3. \A y \in DOMAIN B : B[y] \in Nat /\ B[y] > 0
  BY DEF IsABag
<1> HIDE DEF C
<1> QED
  BY <1>1, <1>2, <1>3 DEF IsABag, BagToSet

\* What TypeOK says of the queues, and of the rest.
Messages(q) == IsABag(q) /\ BagToSet(q) \subseteq Message

BagsOK ==
    /\ Messages(ready) /\ Messages(waiting) /\ Messages(dead)
    /\ delivered = [w \in Consumers |-> delivered[w]]
    /\ \A w \in Consumers : Messages(delivered[w])

ThreadsOK ==
    /\ job \in [Consumers -> Message \cup {None}]
    /\ \A w \in Consumers : job[w] = None <=> pc[w] = "idle"
    /\ pc \in [Consumers -> {"idle", "handling", "retrying", "settling"}]
    /\ status \in [Consumers -> Status]
    /\ cut \in [Consumers -> BOOLEAN]

HistoryOK ==
    /\ succeeded \subseteq Events
    /\ vanished \subseteq Events
    /\ handled \in [Events -> 0 .. HandledCap]
    /\ faults \in 0 .. MaxFaults
    /\ throws \in 0 .. MaxThrows

LEMMA Parts == TypeOK <=> BagsOK /\ ThreadsOK /\ HistoryOK
  BY DEF TypeOK, BagsOK, Messages, ThreadsOK, HistoryOK

LEMMA UnsettledBag ==
  ASSUME BagsOK, ThreadsOK, NEW w \in Consumers
  PROVE  /\ Messages(Unsettled(w))
         /\ BagToSet(Unsettled(w)) = BagToSet(delivered[w])
               \cup (IF job[w] = None \/ cut[w] THEN {} ELSE {job[w]})
  BY Added DEF BagsOK, ThreadsOK, Messages, Unsettled

LEMMA CapIsNat == HandledCap \in Nat
<1>1. \A a, b \in Nat : a * b \in Nat
  OBVIOUS
<1>2. (MaxRetries + 1) * (MaxFaults + 1) \in Nat
  BY <1>1, ConstantsAssumption
<1> QED
  BY <1>2, ConstantsAssumption DEF HandledCap

LEMMA BagsStep ==
  ASSUME BagsOK, ThreadsOK, [Next]_vars
  PROVE  BagsOK'
<1> USE DEF BagsOK, ThreadsOK, Messages, queues, Message
<1>1. ASSUME NEW w \in Consumers, NEW m \in BagToSet(ready), Deliver(w, m) PROVE BagsOK'
  BY <1>1, Added, Removed DEF Deliver
<1>2. ASSUME NEW m \in BagToSet(waiting), RetryExpires(m) PROVE BagsOK'
  BY <1>2, Added, Removed DEF RetryExpires
<1>3. ASSUME NEW w \in Consumers, NEW m \in BagToSet(delivered[w]), RejectMalformed(w, m)
      PROVE  BagsOK'
  BY <1>3, Added, Removed DEF RejectMalformed
<1>4. ASSUME NEW w \in Consumers, NEW m \in BagToSet(delivered[w]), Handle(w, m)
      PROVE  BagsOK'
  BY <1>4, Removed DEF Handle
<1>5. ASSUME NEW w \in Consumers, NEW s \in Status, HandlerDecides(w, s) PROVE BagsOK'
  BY <1>5 DEF HandlerDecides, Settling
<1>6. ASSUME NEW w \in Consumers, HandlerFails(w) PROVE BagsOK'
  BY <1>6 DEF HandlerFails
<1>7. ASSUME NEW w \in Consumers, HandlerThrows(w) PROVE BagsOK'
  BY <1>7 DEF HandlerThrows, Settling
<1>8. ASSUME NEW w \in Consumers, RetriesExceeded(w) PROVE BagsOK'
  BY <1>8 DEF RetriesExceeded, Settling
<1>9. ASSUME NEW w \in Consumers, RetryPublished(w) PROVE BagsOK'
  BY <1>9, Added DEF RetryPublished, Settling
<1>10. ASSUME NEW w \in Consumers, RetryNotPublished(w) PROVE BagsOK'
  BY <1>10, Added DEF RetryNotPublished, Settling
<1>11. ASSUME NEW w \in Consumers, Settle(w) PROVE BagsOK'
  BY <1>11, Added DEF Settle
<1>12. ASSUME NEW w \in Consumers, ChannelDies(w) PROVE BagsOK'
  BY <1>12, United, Emptied, UnsettledBag DEF ChannelDies
<1>13. ASSUME NEW w \in Consumers, ProcessDies(w) PROVE BagsOK'
  BY <1>13, United, Emptied, UnsettledBag DEF ProcessDies
<1>14. CASE UNCHANGED vars
  BY <1>14 DEF vars
<1> QED
  BY <1>1, <1>2, <1>3, <1>4, <1>5, <1>6, <1>7, <1>8, <1>9, <1>10, <1>11, <1>12, <1>13, <1>14
    DEF Next, Broker, ConsumerStep, Take, HandlerReturns, Retry

LEMMA ThreadsStep ==
  ASSUME BagsOK, ThreadsOK, [Next]_vars
  PROVE  ThreadsOK'
<1> USE ConstantsAssumption DEF BagsOK, ThreadsOK, Messages, queues, Status
<1>1. ASSUME NEW w \in Consumers, NEW m \in BagToSet(ready), Deliver(w, m) PROVE ThreadsOK'
  BY <1>1, Added, Removed DEF Deliver
<1>2. ASSUME NEW m \in BagToSet(waiting), RetryExpires(m) PROVE ThreadsOK'
  BY <1>2, Added, Removed DEF RetryExpires
<1>3. ASSUME NEW w \in Consumers, NEW m \in BagToSet(delivered[w]), RejectMalformed(w, m)
      PROVE  ThreadsOK'
  BY <1>3, Added, Removed DEF RejectMalformed
<1>4. ASSUME NEW w \in Consumers, NEW m \in BagToSet(delivered[w]), Handle(w, m)
      PROVE  ThreadsOK'
  BY <1>4, Removed DEF Handle
<1>5. ASSUME NEW w \in Consumers, NEW s \in Status, HandlerDecides(w, s) PROVE ThreadsOK'
  BY <1>5 DEF HandlerDecides, Settling
<1>6. ASSUME NEW w \in Consumers, HandlerFails(w) PROVE ThreadsOK'
  BY <1>6 DEF HandlerFails
<1>7. ASSUME NEW w \in Consumers, HandlerThrows(w) PROVE ThreadsOK'
  BY <1>7 DEF HandlerThrows, Settling
<1>8. ASSUME NEW w \in Consumers, RetriesExceeded(w) PROVE ThreadsOK'
  BY <1>8 DEF RetriesExceeded, Settling
<1>9. ASSUME NEW w \in Consumers, RetryPublished(w) PROVE ThreadsOK'
  BY <1>9, Added DEF RetryPublished, Settling
<1>10. ASSUME NEW w \in Consumers, RetryNotPublished(w) PROVE ThreadsOK'
  BY <1>10, Added DEF RetryNotPublished, Settling
<1>11. ASSUME NEW w \in Consumers, Settle(w) PROVE ThreadsOK'
  BY <1>11, Added DEF Settle
<1>12. ASSUME NEW w \in Consumers, ChannelDies(w) PROVE ThreadsOK'
  BY <1>12, United, Emptied, UnsettledBag DEF ChannelDies
<1>13. ASSUME NEW w \in Consumers, ProcessDies(w) PROVE ThreadsOK'
  BY <1>13, United, Emptied, UnsettledBag DEF ProcessDies
<1>14. CASE UNCHANGED vars
  BY <1>14 DEF vars
<1> QED
  BY <1>1, <1>2, <1>3, <1>4, <1>5, <1>6, <1>7, <1>8, <1>9, <1>10, <1>11, <1>12, <1>13, <1>14
    DEF Next, Broker, ConsumerStep, Take, HandlerReturns, Retry

LEMMA HistoryStep ==
  ASSUME BagsOK, ThreadsOK, HistoryOK, [Next]_vars
  PROVE  HistoryOK'
<1> USE ConstantsAssumption, CapIsNat DEF BagsOK, Messages, Message, ThreadsOK,
         HistoryOK, history
<1>1. ASSUME NEW w \in Consumers, NEW m \in BagToSet(ready), Deliver(w, m) PROVE HistoryOK'
  BY <1>1, Added, Removed DEF Deliver
<1>2. ASSUME NEW m \in BagToSet(waiting), RetryExpires(m) PROVE HistoryOK'
  BY <1>2, Added, Removed DEF RetryExpires
<1>3. ASSUME NEW w \in Consumers, NEW m \in BagToSet(delivered[w]), RejectMalformed(w, m)
      PROVE  HistoryOK'
  BY <1>3, Added, Removed DEF RejectMalformed
<1>4. ASSUME NEW w \in Consumers, NEW m \in BagToSet(delivered[w]), Handle(w, m)
      PROVE  HistoryOK'
  BY <1>4, Removed DEF Handle
<1>5. ASSUME NEW w \in Consumers, NEW s \in Status, HandlerDecides(w, s) PROVE HistoryOK'
  BY <1>5 DEF HandlerDecides, Settling
<1>6. ASSUME NEW w \in Consumers, HandlerFails(w) PROVE HistoryOK'
  BY <1>6 DEF HandlerFails
<1>7. ASSUME NEW w \in Consumers, HandlerThrows(w) PROVE HistoryOK'
  BY <1>7 DEF HandlerThrows, Settling
<1>8. ASSUME NEW w \in Consumers, RetriesExceeded(w) PROVE HistoryOK'
  BY <1>8 DEF RetriesExceeded, Settling
<1>9. ASSUME NEW w \in Consumers, RetryPublished(w) PROVE HistoryOK'
  BY <1>9, Added DEF RetryPublished, Settling
<1>10. ASSUME NEW w \in Consumers, RetryNotPublished(w) PROVE HistoryOK'
  BY <1>10, Added DEF RetryNotPublished, Settling
<1>11. ASSUME NEW w \in Consumers, Settle(w) PROVE HistoryOK'
  BY <1>11, Added DEF Settle
<1>12. ASSUME NEW w \in Consumers, ChannelDies(w) PROVE HistoryOK'
  BY <1>12, United, Emptied, UnsettledBag DEF ChannelDies
<1>13. ASSUME NEW w \in Consumers, ProcessDies(w) PROVE HistoryOK'
  BY <1>13, United, Emptied, UnsettledBag DEF ProcessDies
<1>14. CASE UNCHANGED vars
  BY <1>14 DEF vars
<1> QED
  BY <1>1, <1>2, <1>3, <1>4, <1>5, <1>6, <1>7, <1>8, <1>9, <1>10, <1>11, <1>12, <1>13, <1>14
    DEF Next, Broker, ConsumerStep, Take, HandlerReturns, Retry

LEMMA DeathsStep ==
  ASSUME BagsOK, ThreadsOK, DeathsFit, [Next]_vars
  PROVE  DeathsFit'
<1> USE ConstantsAssumption DEF BagsOK, ThreadsOK, Messages, Message, DeathsFit, queues
<1>1. ASSUME NEW w \in Consumers, NEW m \in BagToSet(ready), Deliver(w, m) PROVE DeathsFit'
  BY <1>1, Added, Removed DEF Deliver
<1>2. ASSUME NEW m \in BagToSet(waiting), RetryExpires(m) PROVE DeathsFit'
  BY <1>2, Added, Removed DEF RetryExpires
<1>3. ASSUME NEW w \in Consumers, NEW m \in BagToSet(delivered[w]), RejectMalformed(w, m)
      PROVE  DeathsFit'
  BY <1>3, Added, Removed DEF RejectMalformed
<1>4. ASSUME NEW w \in Consumers, NEW m \in BagToSet(delivered[w]), Handle(w, m)
      PROVE  DeathsFit'
  BY <1>4, Removed DEF Handle
<1>5. ASSUME NEW w \in Consumers, NEW s \in Status, HandlerDecides(w, s) PROVE DeathsFit'
  BY <1>5 DEF HandlerDecides, Settling
<1>6. ASSUME NEW w \in Consumers, HandlerFails(w) PROVE DeathsFit'
  BY <1>6 DEF HandlerFails
<1>7. ASSUME NEW w \in Consumers, HandlerThrows(w) PROVE DeathsFit'
  BY <1>7 DEF HandlerThrows, Settling
<1>8. ASSUME NEW w \in Consumers, RetriesExceeded(w) PROVE DeathsFit'
  BY <1>8 DEF RetriesExceeded, Settling
<1>9. ASSUME NEW w \in Consumers, RetryPublished(w) PROVE DeathsFit'
  BY <1>9, Added DEF RetryPublished, Settling
<1>10. ASSUME NEW w \in Consumers, RetryNotPublished(w) PROVE DeathsFit'
  BY <1>10, Added DEF RetryNotPublished, Settling
<1>11. ASSUME NEW w \in Consumers, Settle(w) PROVE DeathsFit'
  BY <1>11, Added DEF Settle
<1>12. ASSUME NEW w \in Consumers, ChannelDies(w) PROVE DeathsFit'
  BY <1>12, United, Emptied, UnsettledBag DEF ChannelDies
<1>13. ASSUME NEW w \in Consumers, ProcessDies(w) PROVE DeathsFit'
  BY <1>13, United, Emptied, UnsettledBag DEF ProcessDies
<1>14. CASE UNCHANGED vars
  BY <1>14 DEF vars
<1> QED
  BY <1>1, <1>2, <1>3, <1>4, <1>5, <1>6, <1>7, <1>8, <1>9, <1>10, <1>11, <1>12, <1>13, <1>14
    DEF Next, Broker, ConsumerStep, Take, HandlerReturns, Retry

\* An event that has succeeded, or whose retry has vanished, stays so.

LEMMA HistoryGrows ==
  ASSUME [Next]_vars
  PROVE  succeeded \subseteq succeeded' /\ vanished \subseteq vanished'
<1> USE DEF history
<1>1. ASSUME NEW w \in Consumers, NEW m \in BagToSet(ready), Deliver(w, m)
      PROVE  succeeded \subseteq succeeded' /\ vanished \subseteq vanished'
  BY <1>1, Added, Removed DEF Deliver
<1>2. ASSUME NEW m \in BagToSet(waiting), RetryExpires(m)
      PROVE  succeeded \subseteq succeeded' /\ vanished \subseteq vanished'
  BY <1>2, Added, Removed DEF RetryExpires
<1>3. ASSUME NEW w \in Consumers, NEW m \in BagToSet(delivered[w]), RejectMalformed(w, m)
      PROVE  succeeded \subseteq succeeded' /\ vanished \subseteq vanished'
  BY <1>3, Added, Removed DEF RejectMalformed
<1>4. ASSUME NEW w \in Consumers, NEW m \in BagToSet(delivered[w]), Handle(w, m)
      PROVE  succeeded \subseteq succeeded' /\ vanished \subseteq vanished'
  BY <1>4, Removed DEF Handle
<1>5. ASSUME NEW w \in Consumers, NEW s \in Status, HandlerDecides(w, s)
      PROVE  succeeded \subseteq succeeded' /\ vanished \subseteq vanished'
  BY <1>5 DEF HandlerDecides, Settling
<1>6. ASSUME NEW w \in Consumers, HandlerFails(w)
      PROVE  succeeded \subseteq succeeded' /\ vanished \subseteq vanished'
  BY <1>6 DEF HandlerFails
<1>7. ASSUME NEW w \in Consumers, HandlerThrows(w)
      PROVE  succeeded \subseteq succeeded' /\ vanished \subseteq vanished'
  BY <1>7 DEF HandlerThrows, Settling
<1>8. ASSUME NEW w \in Consumers, RetriesExceeded(w)
      PROVE  succeeded \subseteq succeeded' /\ vanished \subseteq vanished'
  BY <1>8 DEF RetriesExceeded, Settling
<1>9. ASSUME NEW w \in Consumers, RetryPublished(w)
      PROVE  succeeded \subseteq succeeded' /\ vanished \subseteq vanished'
  BY <1>9, Added DEF RetryPublished, Settling
<1>10. ASSUME NEW w \in Consumers, RetryNotPublished(w)
       PROVE  succeeded \subseteq succeeded' /\ vanished \subseteq vanished'
  BY <1>10, Added DEF RetryNotPublished, Settling
<1>11. ASSUME NEW w \in Consumers, Settle(w)
       PROVE  succeeded \subseteq succeeded' /\ vanished \subseteq vanished'
  BY <1>11, Added DEF Settle
<1>12. ASSUME NEW w \in Consumers, ChannelDies(w)
       PROVE  succeeded \subseteq succeeded' /\ vanished \subseteq vanished'
  BY <1>12, United, Emptied, UnsettledBag DEF ChannelDies
<1>13. ASSUME NEW w \in Consumers, ProcessDies(w)
       PROVE  succeeded \subseteq succeeded' /\ vanished \subseteq vanished'
  BY <1>13, United, Emptied, UnsettledBag DEF ProcessDies
<1>14. CASE UNCHANGED vars
  BY <1>14 DEF vars
<1> QED
  BY <1>1, <1>2, <1>3, <1>4, <1>5, <1>6, <1>7, <1>8, <1>9, <1>10, <1>11, <1>12, <1>13, <1>14
    DEF Next, Broker, ConsumerStep, Take, HandlerReturns, Retry

\* If e lived on in m, it lives on.

LEMMA AliveStep ==
  ASSUME BagsOK, ThreadsOK, NEW e \in Events, NEW l \in Message, l.event = e,
         Alive(l), [Next]_vars
  PROVE  Lives(e)'
<1> USE DEF Lives, At, BagsOK, ThreadsOK, Messages, Message, Alive, Open, queues, history
<1>1. ASSUME NEW w \in Consumers, NEW m \in BagToSet(ready), Deliver(w, m) PROVE Lives(e)'
  <2>1. m \in BagToSet(delivered'[w])
    BY <1>1, Added, Removed DEF Deliver
  <2>2. m \in Message
    OBVIOUS
  <2>3. ASSUME l # m PROVE Alive(l)'
    <3>1. CASE l \in BagToSet(ready) \/ l \in BagToSet(waiting) \/ l \in BagToSet(dead)
      BY <1>1, <2>3, <3>1, Added, Removed DEF Deliver
    <3>2. ASSUME NEW v \in Consumers, At(v, l) PROVE Alive(l)'
      <4>1. CASE v = w
        BY <1>1, <2>3, <3>2, <4>1, Added, Removed DEF Deliver
      <4>2. CASE v # w
        <5>1. delivered'[v] = delivered[v] /\ job'[v] = job[v] /\ pc'[v] = pc[v]
              /\ status'[v] = status[v] /\ cut'[v] = cut[v]
          BY <1>1, <4>2 DEF Deliver
        <5> QED
          BY <3>2, <5>1
      <4> QED
        BY <4>1, <4>2
    <3> QED
      BY <3>1, <3>2
  <2> QED
    BY <2>1, <2>2, <2>3
<1>2. ASSUME NEW m \in BagToSet(waiting), RetryExpires(m) PROVE Lives(e)'
  <2> DEFINE n == [m EXCEPT !.deaths = @ + 1]
  <2>1. m \in Message /\ n \in Message /\ n.event = m.event
    OBVIOUS
  <2>2. n \in BagToSet(ready')
    BY <1>2, Added DEF RetryExpires
  <2>3. l # m => Alive(l)'
    BY <1>2, Added, Removed DEF RetryExpires
  <2> QED
    BY <2>1, <2>2, <2>3
<1>3. ASSUME NEW w \in Consumers, NEW m \in BagToSet(delivered[w]), RejectMalformed(w, m)
      PROVE  Lives(e)'
  <2>1. m \in BagToSet(dead')
    BY <1>3, Added, Removed DEF RejectMalformed
  <2>2. m \in Message
    OBVIOUS
  <2>3. ASSUME l # m PROVE Alive(l)'
    <3>1. CASE l \in BagToSet(ready) \/ l \in BagToSet(waiting) \/ l \in BagToSet(dead)
      BY <1>3, <2>3, <3>1, Added, Removed DEF RejectMalformed
    <3>2. ASSUME NEW v \in Consumers, At(v, l) PROVE Alive(l)'
      <4>1. CASE v = w
        BY <1>3, <2>3, <3>2, <4>1, Added, Removed DEF RejectMalformed
      <4>2. CASE v # w
        <5>1. delivered'[v] = delivered[v] /\ job'[v] = job[v] /\ pc'[v] = pc[v]
              /\ status'[v] = status[v] /\ cut'[v] = cut[v]
          BY <1>3, <4>2 DEF RejectMalformed
        <5> QED
          BY <3>2, <5>1
      <4> QED
        BY <4>1, <4>2
    <3> QED
      BY <3>1, <3>2
  <2> QED
    BY <2>1, <2>2, <2>3
<1>4. ASSUME NEW w \in Consumers, NEW m \in BagToSet(delivered[w]), Handle(w, m)
      PROVE  Lives(e)'
  <2>1. job'[w] = m /\ Open(w)'
    BY <1>4, Removed DEF Handle
  <2>2. m \in Message
    OBVIOUS
  <2>3. ASSUME l # m PROVE Alive(l)'
    <3>1. CASE l \in BagToSet(ready) \/ l \in BagToSet(waiting) \/ l \in BagToSet(dead)
      BY <1>4, <2>3, <3>1, Removed DEF Handle
    <3>2. ASSUME NEW v \in Consumers, At(v, l) PROVE Alive(l)'
      <4>1. CASE v = w
        BY <1>4, <2>3, <3>2, <4>1, Removed DEF Handle
      <4>2. CASE v # w
        <5>1. delivered'[v] = delivered[v] /\ job'[v] = job[v] /\ pc'[v] = pc[v]
              /\ status'[v] = status[v] /\ cut'[v] = cut[v]
          BY <1>4, <4>2 DEF Handle
        <5> QED
          BY <3>2, <5>1
      <4> QED
        BY <4>1, <4>2
    <3> QED
      BY <3>1, <3>2
  <2> QED
    BY <2>1, <2>2, <2>3
<1>5. ASSUME NEW w \in Consumers, NEW s \in Status, HandlerDecides(w, s) PROVE Lives(e)'
  BY <1>5 DEF HandlerDecides, Settling
<1>6. ASSUME NEW w \in Consumers, HandlerFails(w) PROVE Lives(e)'
  BY <1>6 DEF HandlerFails
<1>7. ASSUME NEW w \in Consumers, HandlerThrows(w) PROVE Lives(e)'
  BY <1>7 DEF HandlerThrows, Settling
<1>8. ASSUME NEW w \in Consumers, RetriesExceeded(w) PROVE Lives(e)'
  BY <1>8 DEF RetriesExceeded, Settling
<1>9. ASSUME NEW w \in Consumers, RetryPublished(w) PROVE Lives(e)'
  BY <1>9, Added DEF RetryPublished, Settling
<1>10. ASSUME NEW w \in Consumers, RetryNotPublished(w) PROVE Lives(e)'
  BY <1>10, Added DEF RetryNotPublished, Settling
<1>11. ASSUME NEW w \in Consumers, Settle(w) PROVE Lives(e)'
  <2>1. Alive(l)'
    <3>1. CASE l \in BagToSet(ready) \/ l \in BagToSet(waiting) \/ l \in BagToSet(dead)
      BY <1>11, <3>1, Added DEF Settle
    <3>2. ASSUME NEW v \in Consumers, At(v, l) PROVE Alive(l)'
      <4>1. CASE v = w
        <5>1. CASE l \in BagToSet(delivered[w])
          BY <1>11, <4>1, <5>1 DEF Settle
        <5>2. CASE Open(w) /\ job[w] = l
          <6>1. ~cut[w] /\ status[w] \in {"soft_failure", "hard_failure"}
            BY <1>11, <5>2 DEF Settle, Status
          <6>2. l \in BagToSet(ready') \/ l \in BagToSet(dead')
            BY <1>11, <5>2, <6>1, Added DEF Settle
          <6> QED
            BY <6>2
        <5> QED
          BY <3>2, <4>1, <5>1, <5>2
      <4>2. CASE v # w
        <5>1. delivered'[v] = delivered[v] /\ job'[v] = job[v] /\ pc'[v] = pc[v]
              /\ status'[v] = status[v] /\ cut'[v] = cut[v]
          BY <1>11, <4>2 DEF Settle
        <5> QED
          BY <3>2, <5>1
      <4> QED
        BY <4>1, <4>2
    <3> QED
      BY <3>1, <3>2
  <2> QED
    BY <2>1
<1>12. ASSUME NEW w \in Consumers, ChannelDies(w) PROVE Lives(e)'
  <2>1. Alive(l)'
    <3>1. CASE l \in BagToSet(ready) \/ l \in BagToSet(waiting) \/ l \in BagToSet(dead)
      BY <1>12, <3>1, United, Emptied, UnsettledBag DEF ChannelDies
    <3>2. ASSUME NEW v \in Consumers, At(v, l) PROVE Alive(l)'
      <4>1. CASE v = w
        BY <1>12, <3>2, <4>1, United, Emptied, UnsettledBag DEF ChannelDies
      <4>2. CASE v # w
        <5>1. delivered'[v] = delivered[v] /\ job'[v] = job[v] /\ pc'[v] = pc[v]
              /\ status'[v] = status[v] /\ cut'[v] = cut[v]
          BY <1>12, <4>2 DEF ChannelDies
        <5> QED
          BY <3>2, <5>1
      <4> QED
        BY <4>1, <4>2
    <3> QED
      BY <3>1, <3>2
  <2> QED
    BY <2>1
<1>13. ASSUME NEW w \in Consumers, ProcessDies(w) PROVE Lives(e)'
  <2>1. Alive(l)'
    <3>1. CASE l \in BagToSet(ready) \/ l \in BagToSet(waiting) \/ l \in BagToSet(dead)
      BY <1>13, <3>1, United, Emptied, UnsettledBag DEF ProcessDies
    <3>2. ASSUME NEW v \in Consumers, At(v, l) PROVE Alive(l)'
      <4>1. CASE v = w
        BY <1>13, <3>2, <4>1, United, Emptied, UnsettledBag DEF ProcessDies
      <4>2. CASE v # w
        <5>1. delivered'[v] = delivered[v] /\ job'[v] = job[v] /\ pc'[v] = pc[v]
              /\ status'[v] = status[v] /\ cut'[v] = cut[v]
          BY <1>13, <4>2 DEF ProcessDies
        <5> QED
          BY <3>2, <5>1
      <4> QED
        BY <4>1, <4>2
    <3> QED
      BY <3>1, <3>2
  <2> QED
    BY <2>1
<1>14. CASE UNCHANGED vars
  BY <1>14 DEF vars
<1> QED
  BY <1>1, <1>2, <1>3, <1>4, <1>5, <1>6, <1>7, <1>8, <1>9, <1>10, <1>11, <1>12, <1>13, <1>14
    DEF Next, Broker, ConsumerStep, Take, HandlerReturns, Retry

-------------------------------------------------------------------------------
LEMMA InvInit == Init => IInv
<1> SUFFICES ASSUME Init PROVE IInv
  OBVIOUS
<1> USE ConstantsAssumption DEF Init
<1>1. BagsOK
  BY Filled, Emptied DEF BagsOK, Messages, Message
<1>2. ThreadsOK
  BY DEF ThreadsOK, Status
<1>3. HistoryOK
  BY CapIsNat DEF HistoryOK
<1>4. DeathsFit
  BY Filled, Emptied DEF DeathsFit
<1>5. EventsAlive
  <2> SUFFICES ASSUME NEW e \in Events PROVE \E m \in Message : m.event = e /\ Alive(m)
    BY DEF EventsAlive, Lives
  <2>1. [event |-> e, deaths |-> 0] \in Message
    BY DEF Message
  <2>2. [event |-> e, deaths |-> 0] \in BagToSet(ready)
    BY Filled
  <2> QED
    BY <2>1, <2>2 DEF Alive
<1> QED
  BY <1>1, <1>2, <1>3, <1>4, <1>5, Parts DEF IInv

LEMMA InvStep == IInv /\ [Next]_vars => IInv'
<1> SUFFICES ASSUME IInv, [Next]_vars PROVE IInv'
  OBVIOUS
<1>1. BagsOK /\ ThreadsOK /\ HistoryOK
  BY Parts DEF IInv
<1>2. TypeOK'
  <2>1. BagsOK' /\ ThreadsOK' /\ HistoryOK'
    BY <1>1, BagsStep, ThreadsStep, HistoryStep
  <2> QED
    BY <2>1 DEF TypeOK, BagsOK, Messages, ThreadsOK, HistoryOK
<1>3. DeathsFit'
  BY <1>1, DeathsStep DEF IInv
<1>4. EventsAlive'
  <2> SUFFICES ASSUME NEW e \in Events
               PROVE  Lives(e)'
    BY DEF EventsAlive
  <2>1. CASE e \in succeeded \cup vanished
    BY <2>1, HistoryGrows DEF Lives
  <2>2. CASE \E m \in Message : m.event = e /\ Alive(m)
    BY <2>2, <1>1, AliveStep
  <2> QED
    BY <2>1, <2>2 DEF IInv, EventsAlive, Lives
<1> QED
  BY <1>2, <1>3, <1>4 DEF IInv

\* Type correctness.
THEOREM TypeCorrect == Spec => []TypeOK
<1>1. IInv => TypeOK
  BY DEF IInv
<1> QED
  BY <1>1, InvInit, InvStep, PTL DEF Spec

\* No message waits for a retry, or is handled, with more than maxRetries deaths.
THEOREM RetriesLimited == Spec => []RetryBudget
<1>1. ASSUME IInv PROVE RetryBudget
  <2>1. ASSUME NEW m \in BagToSet(waiting) PROVE m.deaths <= MaxRetries
    <3>1. m.deaths \in Nat /\ m.deaths < MaxRetries
      BY <1>1 DEF IInv, TypeOK, Message, DeathsFit
    <3> QED
      BY <3>1, ConstantsAssumption
  <2> QED
    BY <1>1, <2>1 DEF IInv, DeathsFit, RetryBudget
<1> QED
  BY <1>1, InvInit, InvStep, PTL DEF Spec

\* An event that was not handled with success, and whose retry the broker did not drop,
\* is still with the broker.
THEOREM EventsSurvive == Spec => []NoEventLost
<1>1. ASSUME IInv PROVE NoEventLost
  <2> SUFFICES ASSUME NEW e \in Events, e \notin succeeded \cup vanished
               PROVE  \E m \in Kept : m.event = e
    BY DEF NoEventLost
  <2>1. PICK m \in Message : m.event = e /\ Alive(m)
    BY <1>1 DEF IInv, EventsAlive, Lives
  <2>2. BagsOK /\ ThreadsOK
    BY <1>1, Parts DEF IInv
  <2>3. m \in Kept
    <3>1. CASE m \in BagToSet(ready) \cup BagToSet(waiting) \cup BagToSet(dead)
      BY <3>1 DEF Kept
    <3>2. ASSUME NEW w \in Consumers, At(w, m)
          PROVE  m \in Kept
      <4>1. m \in BagToSet(Unsettled(w))
        BY <2>2, <3>2, UnsettledBag DEF At, Open, ThreadsOK
      <4> QED
        BY <4>1 DEF Kept
    <3> QED
      BY <2>1, <3>1, <3>2 DEF Alive
  <2> QED
    BY <2>1, <2>3
<1> QED
  BY <1>1, InvInit, InvStep, PTL DEF Spec
-------------------------------------------------------------------------------
\* Sums over finite sets.  What a function counts, one by one.
Units(f, s) == {p \in s \X Nat : p[2] \in 1 .. f[p[1]]}

\* The values that are summed.
Counts(f, S) == IsFiniteSet(S) /\ \A x \in S : f[x] \in Nat

LEMMA UnitsOfOneMore ==
  ASSUME NEW f, NEW s, NEW x, x \notin s, f[x] \in Nat, IsFiniteSet(Units(f, s))
  PROVE  /\ IsFiniteSet(Units(f, s \cup {x}))
         /\ Cardinality(Units(f, s \cup {x})) = Cardinality(Units(f, s)) + f[x]
<1> DEFINE U == Units(f, s)
           V == {<<x, i>> : i \in 1 .. f[x]}
<1>1. IsFiniteSet(1 .. f[x]) /\ Cardinality(1 .. f[x]) = f[x]
  BY FS_Interval
<1>2. IsFiniteSet(V) /\ Cardinality(V) = f[x]
  <2>1. [i \in 1 .. f[x] |-> <<x, i>>] \in Bijection(1 .. f[x], V)
    BY DEF Bijection, Injection, Surjection, IsInjective
  <2>2. ExistsBijection(1 .. f[x], V)
    BY <2>1 DEF ExistsBijection
  <2> QED
    BY <1>1, <2>2, FS_Bijection
<1>3. Units(f, s \cup {x}) = U \cup V
  BY DEF Units
<1>4. U \cap V = {}
  BY DEF Units
<1>5. Cardinality(U) \in Nat
  BY FS_CardinalityType
<1> HIDE DEF V
<1>6. /\ Cardinality(U \cup V) = Cardinality(U) + Cardinality(V) - Cardinality(U \cap V)
      /\ IsFiniteSet(U \cup V)
  BY <1>2, FS_Union
<1>7. Cardinality(U \cap V) = 0
  BY <1>4, FS_EmptySet
<1> HIDE DEF U
<1>8. Cardinality(U \cup V) = Cardinality(U) + f[x]
  BY <1>2, <1>5, <1>6, <1>7
<1> QED
  BY <1>3, <1>6, <1>8 DEF U

\* Of sets of elements of a finite set one is least: the induction over finite sets.
LEMMA LeastSet ==
  ASSUME NEW S, IsFiniteSet(S), NEW T, T \subseteq SUBSET S, T # {}
  PROVE  \E s \in T : \A t \in T : t \subseteq s => t = s
<1> DEFINE R == StrictSubsetOrdering(S)
<1>1. IsWellFoundedOn(R, SUBSET S)
  BY FS_StrictSubsetOrderingWellFounded, FS_FiniteSubsetsOfFinite
<1>2. \A t, s \in SUBSET S : t \subseteq s /\ t # s => <<t, s>> \in R
  BY DEF StrictSubsetOrdering
<1> HIDE DEF R
<1>3. \E s \in T : \A t \in T : <<t, s>> \notin R
  BY <1>1, WFMin
<1> QED
  BY <1>2, <1>3

LEMMA SumIsCardinality ==
  ASSUME NEW S, NEW f, Counts(f, S)
  PROVE  SumFunctionOnSet(f, S) = Cardinality(Units(f, S)) /\ IsFiniteSet(Units(f, S))
<1> USE DEF Counts
<1> DEFINE pick(s) == CHOOSE x \in s : TRUE
           Sums(g) == g = [s \in SUBSET S |-> IF s = {} THEN 0 ELSE f[pick(s)] + g[s \ {pick(s)}]]
           units == [s \in SUBSET S |-> Cardinality(Units(f, s))]
           iter == CHOOSE g : Sums(g)
<1>1. SumFunctionOnSet(f, S) = iter[S]
  BY DEF SumFunctionOnSet, FoldFunctionOnSet, MapThenFoldSet
<1>2. ASSUME NEW s \in SUBSET S, s # {}
      PROVE  \E x \in S, t \in SUBSET S : x = pick(s) /\ t = s \ {x} /\ x \notin t /\ t # s /\ s = t \cup {x}
  <2>1. pick(s) \in s
    BY <1>2
  <2> HIDE DEF pick
  <2>2. /\ pick(s) \in S /\ s \ {pick(s)} \in SUBSET S /\ pick(s) \notin s \ {pick(s)}
        /\ s \ {pick(s)} # s /\ s = (s \ {pick(s)}) \cup {pick(s)}
    BY <2>1
  <2> QED
    BY <2>2
<1> HIDE DEF pick
<1>3. \A s \in SUBSET S : IsFiniteSet(Units(f, s))
  <2> DEFINE bad == {s \in SUBSET S : ~IsFiniteSet(Units(f, s))}
  <2> SUFFICES ASSUME bad # {} PROVE FALSE
    OBVIOUS
  <2>1. PICK s \in bad : \A t \in bad : t \subseteq s => t = s
    <3> HIDE DEF bad
    <3>1. bad \subseteq SUBSET S
      BY DEF bad
    <3> QED
      BY <3>1, LeastSet
  <2>2. s # {}
    <3>1. Units(f, {}) = {}
      BY DEF Units
    <3> QED
      BY <3>1, FS_EmptySet
  <2>3. PICK x \in S, t \in SUBSET S : x \notin t /\ t # s /\ s = t \cup {x}
    BY <1>2, <2>2
  <2>4. IsFiniteSet(Units(f, t))
    BY <2>1, <2>3
  <2>5. IsFiniteSet(Units(f, t \cup {x}))
    BY <2>3, <2>4, UnitsOfOneMore
  <2> QED
    BY <2>3, <2>5
<1>4. Sums(units)
  <2> SUFFICES ASSUME NEW s \in SUBSET S
               PROVE  Cardinality(Units(f, s)) = IF s = {} THEN 0 ELSE f[pick(s)] + units[s \ {pick(s)}]
    OBVIOUS
  <2>1. CASE s = {}
    <3>1. Units(f, s) = {}
      BY <2>1 DEF Units
    <3> QED
      BY <2>1, <3>1, FS_EmptySet
  <2>2. CASE s # {}
    <3>1. PICK x \in S, t \in SUBSET S : x = pick(s) /\ t = s \ {x} /\ x \notin t /\ s = t \cup {x}
      BY <1>2, <2>2
    <3>2. IsFiniteSet(Units(f, t)) /\ units[t] = Cardinality(Units(f, t))
      BY <1>3, <3>1
    <3>3. Cardinality(Units(f, s)) = Cardinality(Units(f, t)) + f[x]
      <4>1. x \notin t /\ f[x] \in Nat /\ s = t \cup {x}
        BY <3>1
      <4> QED
        BY <3>2, <4>1, UnitsOfOneMore
    <3>4. Cardinality(Units(f, t)) \in Nat /\ f[x] \in Nat
      BY <3>1, <3>2, FS_CardinalityType
    <3>5. Cardinality(Units(f, s)) = f[x] + units[t]
      BY <3>2, <3>3, <3>4
    <3> QED
      BY <2>2, <3>1, <3>5
  <2> QED
    BY <2>1, <2>2
<1> HIDE DEF units
<1>5. Sums(iter)
  BY <1>4
<1> HIDE DEF iter
<1>6. \A s \in SUBSET S : iter[s] = units[s]
  <2> DEFINE bad == {s \in SUBSET S : iter[s] # units[s]}
  <2> SUFFICES ASSUME bad # {} PROVE FALSE
    OBVIOUS
  <2>1. PICK s \in bad : \A t \in bad : t \subseteq s => t = s
    <3> HIDE DEF bad
    <3>1. bad \subseteq SUBSET S
      BY DEF bad
    <3> QED
      BY <3>1, LeastSet
  <2>2. /\ iter[s] = IF s = {} THEN 0 ELSE f[pick(s)] + iter[s \ {pick(s)}]
        /\ units[s] = IF s = {} THEN 0 ELSE f[pick(s)] + units[s \ {pick(s)}]
    BY <1>4, <1>5
  <2>3. s # {} => iter[s \ {pick(s)}] = units[s \ {pick(s)}]
    <3> SUFFICES ASSUME s # {} PROVE iter[s \ {pick(s)}] = units[s \ {pick(s)}]
      OBVIOUS
    <3>1. PICK x \in S, t \in SUBSET S : x = pick(s) /\ t = s \ {x} /\ t # s /\ s = t \cup {x}
      BY <1>2
    <3> QED
      BY <2>1, <3>1
  <2> QED
    BY <2>2, <2>3
<1> QED
  BY <1>1, <1>3, <1>6 DEF units

LEMMA SumType ==
  ASSUME NEW S, NEW f, Counts(f, S)
  PROVE  SumFunctionOnSet(f, S) \in Nat
BY SumIsCardinality, FS_CardinalityType

LEMMA SumOfOneMore ==
  ASSUME NEW S, NEW f, Counts(f, S), NEW x \in S
  PROVE  SumFunctionOnSet(f, S) = f[x] + SumFunctionOnSet(f, S \ {x})
<1>1. Counts(f, S \ {x})
  BY FS_RemoveElement DEF Counts
<1>2. S = (S \ {x}) \cup {x}
  OBVIOUS
<1>3. IsFiniteSet(Units(f, S \ {x}))
  BY <1>1, SumIsCardinality
<1>4. Cardinality(Units(f, S)) = Cardinality(Units(f, S \ {x})) + f[x]
  BY <1>2, <1>3, UnitsOfOneMore DEF Counts
<1>5. Cardinality(Units(f, S \ {x})) \in Nat /\ f[x] \in Nat
  BY <1>3, FS_CardinalityType DEF Counts
<1> QED
  BY <1>1, <1>4, <1>5, SumIsCardinality

\* Only what is not zero counts.
LEMMA SumOfRest ==
  ASSUME NEW S, NEW f, Counts(f, S), NEW T \in SUBSET S, \A x \in S \ T : f[x] = 0
  PROVE  Counts(f, T) /\ SumFunctionOnSet(f, S) = SumFunctionOnSet(f, T)
<1>1. Counts(f, T)
  BY FS_Subset DEF Counts
<1>2. Units(f, S) = Units(f, T)
  BY DEF Units, Counts
<1> QED
  BY <1>1, <1>2, SumIsCardinality

LEMMA SumOfZeros ==
  ASSUME NEW S, NEW f, Counts(f, S), \A x \in S : f[x] = 0
  PROVE  SumFunctionOnSet(f, S) = 0
<1>1. Units(f, S) = {}
  BY DEF Units
<1> QED
  BY <1>1, SumIsCardinality, FS_EmptySet

LEMMA SumOfOne ==
  ASSUME NEW S, NEW f, Counts(f, S), NEW x \in S, \A y \in S \ {x} : f[y] = 0
  PROVE  SumFunctionOnSet(f, S) = f[x]
<1>1. Counts(f, S \ {x})
  BY FS_RemoveElement DEF Counts
<1>2. SumFunctionOnSet(f, S \ {x}) = 0
  BY <1>1, SumOfZeros
<1> QED
  BY <1>2, SumOfOneMore DEF Counts

LEMMA SumOfSums ==
  ASSUME NEW S, NEW f, NEW g, NEW h, Counts(f, S), Counts(g, S), \A x \in S : h[x] = f[x] + g[x]
  PROVE  SumFunctionOnSet(h, S) = SumFunctionOnSet(f, S) + SumFunctionOnSet(g, S)
<1> DEFINE Adds(s) == SumFunctionOnSet(h, s) = SumFunctionOnSet(f, s) + SumFunctionOnSet(g, s)
           bad == {s \in SUBSET S : ~Adds(s)}
<1> SUFFICES ASSUME bad # {} PROVE FALSE
  OBVIOUS
<1>1. PICK s \in bad : \A t \in bad : t \subseteq s => t = s
  <2> HIDE DEF bad
  <2>1. bad \subseteq SUBSET S
    BY DEF bad
  <2> QED
    BY <2>1, LeastSet DEF Counts
<1>2. Counts(f, s) /\ Counts(g, s) /\ Counts(h, s)
  BY FS_Subset DEF Counts
<1>3. CASE s = {}
  <2>1. SumFunctionOnSet(f, s) = 0 /\ SumFunctionOnSet(g, s) = 0 /\ SumFunctionOnSet(h, s) = 0
    BY <1>2, <1>3, SumOfZeros
  <2> QED
    BY <1>1, <2>1
<1>4. CASE s # {}
  <2>1. PICK x \in s : TRUE
    BY <1>4
  <2> DEFINE t == s \ {x}
  <2>2. Adds(t)
    BY <1>1
  <2>3. Counts(f, t) /\ Counts(g, t) /\ Counts(h, t)
    BY <1>2, FS_RemoveElement DEF Counts
  <2>4. /\ SumFunctionOnSet(f, t) \in Nat /\ SumFunctionOnSet(g, t) \in Nat
        /\ f[x] \in Nat /\ g[x] \in Nat /\ h[x] = f[x] + g[x]
    BY <1>2, <2>3, SumType DEF Counts
  <2>5. /\ SumFunctionOnSet(f, s) = f[x] + SumFunctionOnSet(f, t)
        /\ SumFunctionOnSet(g, s) = g[x] + SumFunctionOnSet(g, t)
        /\ SumFunctionOnSet(h, s) = h[x] + SumFunctionOnSet(h, t)
    BY <1>2, SumOfOneMore
  <2> HIDE DEF t
  <2>6. Adds(s)
    BY <2>2, <2>4, <2>5
  <2> QED
    BY <1>1, <2>6
<1> QED
  BY <1>3, <1>4

LEMMA SumAgrees ==
  ASSUME NEW S, NEW f, NEW g, Counts(f, S), \A x \in S : g[x] = f[x]
  PROVE  SumFunctionOnSet(g, S) = SumFunctionOnSet(f, S)
<1>1. Units(g, S) = Units(f, S) /\ Counts(g, S)
  BY DEF Units, Counts
<1> QED
  BY <1>1, SumIsCardinality

LEMMA SumGrows ==
  ASSUME NEW S, NEW f, NEW g, Counts(f, S), Counts(g, S), \A x \in S : f[x] <= g[x]
  PROVE  SumFunctionOnSet(f, S) <= SumFunctionOnSet(g, S)
<1> DEFINE d == [x \in S |-> g[x] - f[x]]
<1>1. Counts(d, S) /\ \A x \in S : g[x] = f[x] + d[x]
  BY DEF Counts
<1> HIDE DEF d
<1>2. SumFunctionOnSet(g, S) = SumFunctionOnSet(f, S) + SumFunctionOnSet(d, S)
  BY <1>1, SumOfSums
<1> QED
  BY <1>1, <1>2, SumType

\* A change at x changes the sum by as much.
LEMMA SumChanges ==
  ASSUME NEW S, NEW f, NEW g, Counts(f, S), Counts(g, S), NEW x \in S,
         \A y \in S \ {x} : g[y] = f[y]
  PROVE  SumFunctionOnSet(g, S) + f[x] = SumFunctionOnSet(f, S) + g[x]
<1>1. Counts(f, S \ {x}) /\ Counts(g, S \ {x})
  BY FS_RemoveElement DEF Counts
<1>2. SumFunctionOnSet(g, S \ {x}) = SumFunctionOnSet(f, S \ {x})
  BY <1>1, SumAgrees
<1>3. /\ SumFunctionOnSet(f, S \ {x}) \in Nat /\ f[x] \in Nat /\ g[x] \in Nat
  BY <1>1, SumType DEF Counts
<1> QED
  BY <1>2, <1>3, SumOfOneMore

\* Ones sum up to their number.
LEMMA SumOfOnes ==
  ASSUME NEW S, NEW f, IsFiniteSet(S), \A x \in S : f[x] \in {0, 1}
  PROVE  SumFunctionOnSet(f, S) = Cardinality({x \in S : f[x] = 1})
<1> DEFINE T == {x \in S : f[x] = 1}
<1>1. Counts(f, S) /\ IsFiniteSet(T)
  BY FS_Subset DEF Counts
<1>2. Units(f, S) = {<<x, 1>> : x \in T}
  BY DEF Units
<1>3. [x \in T |-> <<x, 1>>] \in Bijection(T, Units(f, S))
  BY <1>2 DEF Bijection, Injection, Surjection, IsInjective
<1>4. ExistsBijection(T, Units(f, S))
  BY <1>3 DEF ExistsBijection
<1> QED
  BY <1>1, <1>4, FS_Bijection, SumIsCardinality
-------------------------------------------------------------------------------
\* What the copies of an event weigh.

\* The messages that an event can be in.
Of(e) == [event : {e}, deaths : 0 .. MaxRetries]

Times(m, q) == IF m \in BagToSet(q) THEN q[m] ELSE 0

\* The copies of e in q, each weighed by its deaths.
Load(q, g, e) == SumFunctionOnSet([m \in Of(e) |-> Times(m, q) * g[m.deaths]], Of(e))

\* The weight of a message that has died once more, and of one that is handled no more.
After(g) == [d \in 0 .. MaxRetries |-> g[d + 1]]
Flat(z) == [d \in 0 .. MaxRetries |-> z]

One(m, g, e) == IF m.event = e THEN g[m.deaths] ELSE 0

\* What the job of w can still put into a queue.
Pending(w, g, z, e) ==
    IF job[w] = None THEN 0
    ELSE IF pc[w] # "settling" THEN One(job[w], After(g), e)
    ELSE IF cut[w] \/ status[w] = "success" THEN 0
    ELSE IF status[w] = "soft_failure" THEN One(job[w], g, e)
    ELSE One(job[w], Flat(z), e)

Held(w, g, z, e) == Load(delivered[w], g, e) + Pending(w, g, z, e)

HeldByAll(g, z, e) == SumFunctionOnSet([w \in Consumers |-> Held(w, g, z, e)], Consumers)

Potential(g, z, e) ==
    Load(ready, g, e) + Load(waiting, After(g), e) + Load(dead, Flat(z), e) + HeldByAll(g, z, e)

\* Every copy weighs one; or it weighs the handlings that it is still good for.
Ones == [d \in 0 .. MaxRetries + 1 |-> 1]
Left == [d \in 0 .. MaxRetries + 1 |-> MaxRetries + 1 - d]

CopiesInv == \A e \in Events : Potential(Ones, 1, e) <= 1 + faults

HandlingsInv ==
    \A e \in Events :
        handled[e] + Potential(Left, 0, e) <= (MaxRetries + 1) * (faults + 1) + throws

LEMMA OfIsFinite ==
  ASSUME NEW e
  PROVE  IsFiniteSet(Of(e))
<1> DEFINE f == [d \in 0 .. MaxRetries |-> [event |-> e, deaths |-> d]]
<1>1. IsFiniteSet(0 .. MaxRetries)
  BY FS_Interval, ConstantsAssumption DEF ConstantsAssumption
<1>2. f \in Surjection(0 .. MaxRetries, Of(e))
  BY DEF Surjection, Of
<1> QED
  BY <1>1, <1>2, FS_Surjection

LEMMA CopiesAdd ==
  ASSUME NEW p, NEW q, IsABag(p), IsABag(q)
  PROVE  \A m : /\ Times(m, p) \in Nat
                /\ Times(m, q) \in Nat
                /\ Times(m, p (+) q) = Times(m, p) + Times(m, q)
  BY DEF Times, BagIn, BagToSet, IsABag, (+)

LEMMA CopiesRemoved ==
  ASSUME NEW q, IsABag(q), NEW x, BagIn(x, q)
  PROVE  \A m : Times(m, q) = Times(m, BagRemove(q, x)) + Times(m, SetToBag({x}))
<1>1. \A m : Times(m, SetToBag({x})) = IF m = x THEN 1 ELSE 0
  BY DEF Times, BagIn, BagToSet, SetToBag
<1>2. ASSUME NEW m PROVE Times(m, BagRemove(q, x)) = Times(m, q) - (IF m = x THEN 1 ELSE 0)
  <2> DEFINE B == [y \in DOMAIN q |-> IF y \in DOMAIN SetToBag({x}) THEN q[y] - SetToBag({x})[y] ELSE q[y]]
  <2>1. BagRemove(q, x) = [y \in {d \in DOMAIN B : B[d] > 0} |-> B[y]]
    BY DEF BagRemove, (-)
  <2>2. DOMAIN B = DOMAIN q /\ \A y \in DOMAIN q : B[y] = IF y = x THEN q[y] - 1 ELSE q[y]
    BY DEF SetToBag
  <2>3. \A y \in DOMAIN q : q[y] \in Nat /\ q[y] > 0
    BY DEF IsABag
  <2>4. x \in DOMAIN q
    BY DEF BagIn, BagToSet
  <2> HIDE DEF B
  <2> QED
    BY <2>1, <2>2, <2>3, <2>4 DEF Times, BagIn, BagToSet
<1> SUFFICES ASSUME NEW m
             PROVE  Times(m, q) = Times(m, BagRemove(q, x)) + Times(m, SetToBag({x}))
  OBVIOUS
<1>3. Times(m, q) \in Nat
  BY DEF Times, BagToSet, IsABag
<1>4. /\ Times(m, SetToBag({x})) = IF m = x THEN 1 ELSE 0
      /\ Times(m, BagRemove(q, x)) = Times(m, q) - (IF m = x THEN 1 ELSE 0)
  BY <1>1, <1>2
<1> QED
  BY <1>3, <1>4

LEMMA LoadCounts ==
  ASSUME NEW q, IsABag(q), NEW g, \A d \in 0 .. MaxRetries : g[d] \in Nat, NEW e
  PROVE  /\ Counts([m \in Of(e) |-> Times(m, q) * g[m.deaths]], Of(e))
         /\ Load(q, g, e) \in Nat
<1>1. \A a, b \in Nat : a * b \in Nat
  OBVIOUS
<1>2. \A m : Times(m, q) \in Nat
  BY CopiesAdd
<1>3. Counts([m \in Of(e) |-> Times(m, q) * g[m.deaths]], Of(e))
  BY <1>1, <1>2, OfIsFinite DEF Counts, Of
<1> QED
  BY <1>3, SumType DEF Load

LEMMA LoadAdds ==
  ASSUME NEW p, NEW q, NEW r, IsABag(p), IsABag(q), IsABag(r),
         \A m : Times(m, r) = Times(m, p) + Times(m, q),
         NEW g, \A d \in 0 .. MaxRetries : g[d] \in Nat, NEW e
  PROVE  Load(r, g, e) = Load(p, g, e) + Load(q, g, e)
<1> DEFINE F(b) == [m \in Of(e) |-> Times(m, b) * g[m.deaths]]
<1>1. Counts(F(p), Of(e)) /\ Counts(F(q), Of(e))
  BY LoadCounts
<1>2. \A a, b, c \in Nat : (a + b) * c = a * c + b * c
  OBVIOUS
<1>3. \A m : Times(m, p) \in Nat /\ Times(m, q) \in Nat
  BY CopiesAdd
<1>4. \A m \in Of(e) : g[m.deaths] \in Nat
  BY DEF Of
<1>5. \A m \in Of(e) : F(r)[m] = F(p)[m] + F(q)[m]
  BY <1>2, <1>3, <1>4
<1> HIDE DEF F
<1>6. SumFunctionOnSet(F(r), Of(e)) = SumFunctionOnSet(F(p), Of(e)) + SumFunctionOnSet(F(q), Of(e))
  BY <1>1, <1>5, SumOfSums
<1> QED
  BY <1>6 DEF Load, F

\* A message without copies weighs nothing.
LEMMA LoadOfNone ==
  ASSUME NEW g, \A d \in 0 .. MaxRetries : g[d] \in Nat, NEW e
  PROVE  Load(EmptyBag, g, e) = 0
<1>1. \A m : Times(m, EmptyBag) = 0
  BY Emptied DEF Times, BagIn
<1>2. Counts([m \in Of(e) |-> Times(m, EmptyBag) * g[m.deaths]], Of(e))
  BY Emptied, LoadCounts
<1>3. \A m \in Of(e) : [m1 \in Of(e) |-> Times(m1, EmptyBag) * g[m1.deaths]][m] = 0
  BY <1>1 DEF Of
<1> QED
  BY <1>2, <1>3, SumOfZeros DEF Load

\* A bag that has one copy of x and no other message of e.
LEMMA LoadOfOne ==
  ASSUME NEW S, NEW x \in S, x \in Message, x.deaths <= MaxRetries,
         NEW g, \A d \in 0 .. MaxRetries : g[d] \in Nat, NEW e,
         \A y \in S : y.event = e => y = x
  PROVE  Load(SetToBag(S), g, e) = One(x, g, e)
<1> DEFINE F == [m \in Of(e) |-> Times(m, SetToBag(S)) * g[m.deaths]]
<1>1. \A m : Times(m, SetToBag(S)) = IF m \in S THEN 1 ELSE 0
  BY DEF Times, BagIn, BagToSet, SetToBag
<1>2. Counts(F, Of(e))
  BY Filled, LoadCounts
<1>3. \A m \in Of(e) : m.event = e /\ m.deaths \in 0 .. MaxRetries /\ g[m.deaths] \in Nat
  BY DEF Of
<1>4. \A m \in Of(e) : m # x => F[m] = 0
  BY <1>1, <1>3
<1>5. CASE x.event = e
  <2>1. x \in Of(e)
    BY <1>5 DEF Of, Message
  <2>2. F[x] = g[x.deaths]
    BY <1>1, <1>3, <2>1
  <2> HIDE DEF F
  <2>3. SumFunctionOnSet(F, Of(e)) = F[x]
    BY <1>2, <1>4, <2>1, SumOfOne
  <2> QED
    BY <1>5, <2>2, <2>3 DEF Load, One, F
<1>6. CASE x.event # e
  <2>1. \A m \in Of(e) : F[m] = 0
    BY <1>3, <1>4, <1>6
  <2> HIDE DEF F
  <2>2. SumFunctionOnSet(F, Of(e)) = 0
    BY <1>2, <2>1, SumOfZeros
  <2> QED
    BY <1>6, <2>2 DEF Load, One, F
<1> QED
  BY <1>5, <1>6

\* One copy more or less weighs what it weighs.
LEMMA LoadAdded ==
  ASSUME NEW q, IsABag(q), NEW x \in Message, x.deaths <= MaxRetries,
         NEW g, \A d \in 0 .. MaxRetries : g[d] \in Nat, NEW e
  PROVE  Load(BagAdd(q, x), g, e) = Load(q, g, e) + One(x, g, e)
<1>1. IsABag(SetToBag({x})) /\ IsABag(BagAdd(q, x))
  BY Filled, Added
<1>2. Load(SetToBag({x}), g, e) = One(x, g, e)
  BY LoadOfOne
<1>3. \A m : Times(m, BagAdd(q, x)) = Times(m, q) + Times(m, SetToBag({x}))
  BY <1>1, CopiesAdd DEF BagAdd
<1> QED
  BY <1>1, <1>2, <1>3, LoadAdds

LEMMA LoadRemoved ==
  ASSUME NEW q, IsABag(q), NEW x \in Message, BagIn(x, q), x.deaths <= MaxRetries,
         NEW g, \A d \in 0 .. MaxRetries : g[d] \in Nat, NEW e
  PROVE  Load(q, g, e) = Load(BagRemove(q, x), g, e) + One(x, g, e)
<1>1. IsABag(SetToBag({x})) /\ IsABag(BagRemove(q, x))
  BY Filled, Removed
<1>2. Load(SetToBag({x}), g, e) = One(x, g, e)
  BY LoadOfOne
<1>3. \A m : Times(m, q) = Times(m, BagRemove(q, x)) + Times(m, SetToBag({x}))
  BY CopiesRemoved
<1>4. Load(q, g, e) = Load(BagRemove(q, x), g, e) + Load(SetToBag({x}), g, e)
  <2> DEFINE p == BagRemove(q, x)
             r == SetToBag({x})
  <2>1. IsABag(p) /\ IsABag(r) /\ \A m : Times(m, q) = Times(m, p) + Times(m, r)
    BY <1>1, <1>3
  <2> HIDE DEF p, r
  <2>2. Load(q, g, e) = Load(p, g, e) + Load(r, g, e)
    BY <2>1, LoadAdds
  <2> QED
    BY <2>2 DEF p, r
<1> QED
  BY <1>2, <1>4

LEMMA LoadUnited ==
  ASSUME NEW p, NEW q, IsABag(p), IsABag(q),
         NEW g, \A d \in 0 .. MaxRetries : g[d] \in Nat, NEW e
  PROVE  Load(p (+) q, g, e) = Load(p, g, e) + Load(q, g, e)
  BY United, CopiesAdd, LoadAdds

\* A death more makes a copy lighter by s; and a copy that is handled no more is lightest.
Weights(g, z, s) ==
    /\ z \in Nat /\ s \in Nat
    /\ \A d \in 0 .. MaxRetries + 1 : g[d] \in Nat /\ z <= g[d] /\ g[d] <= g[0]
    /\ \A d \in 0 .. MaxRetries : g[d] = g[d + 1] + s

LEMMA WeightsOf ==
  ASSUME NEW g, NEW z, NEW s, Weights(g, z, s)
  PROVE  \A d \in 0 .. MaxRetries : g[d] \in Nat /\ After(g)[d] \in Nat /\ Flat(z)[d] \in Nat
<1> SUFFICES ASSUME NEW d \in 0 .. MaxRetries
             PROVE  g[d] \in Nat /\ After(g)[d] \in Nat /\ Flat(z)[d] \in Nat
  OBVIOUS
<1>1. d \in 0 .. MaxRetries + 1 /\ d + 1 \in 0 .. MaxRetries + 1
  BY ConstantsAssumption DEF ConstantsAssumption
<1> QED
  BY <1>1 DEF Weights, After, Flat

LEMMA OneFacts ==
  ASSUME NEW g, NEW z, NEW s, Weights(g, z, s), NEW e, NEW m \in Message, m.deaths <= MaxRetries
  PROVE  /\ One(m, g, e) \in Nat /\ One(m, After(g), e) \in Nat /\ One(m, Flat(z), e) \in Nat
         /\ One(m, g, e) = One(m, After(g), e) + (IF m.event = e THEN s ELSE 0)
         /\ One(m, Flat(z), e) <= One(m, After(g), e)
         /\ One(m, g, e) <= g[0]
         /\ s \in Nat /\ g[0] \in Nat
<1>1. /\ m.deaths \in 0 .. MaxRetries
      /\ m.deaths \in 0 .. MaxRetries + 1 /\ m.deaths + 1 \in 0 .. MaxRetries + 1
      /\ 0 \in 0 .. MaxRetries + 1
  BY ConstantsAssumption DEF Message, ConstantsAssumption
<1>2. /\ g[m.deaths] \in Nat /\ g[m.deaths + 1] \in Nat /\ g[0] \in Nat /\ s \in Nat /\ z \in Nat
      /\ g[m.deaths] = g[m.deaths + 1] + s /\ z <= g[m.deaths + 1] /\ g[m.deaths] <= g[0]
  BY <1>1 DEF Weights
<1>3. After(g)[m.deaths] = g[m.deaths + 1] /\ Flat(z)[m.deaths] = z
  BY <1>1 DEF After, Flat
<1> QED
  BY <1>2, <1>3 DEF One

Sound == BagsOK /\ ThreadsOK /\ DeathsFit

LEMMA SoundNext == Sound /\ [Next]_vars => Sound'
  BY BagsStep, ThreadsStep, DeathsStep DEF Sound

Local(w, g, z, e) ==
    Load(ready, g, e) + Load(waiting, After(g), e) + Load(dead, Flat(z), e) + Held(w, g, z, e)

LEMMA LocalType ==
  ASSUME Sound, NEW g, NEW z, NEW s, Weights(g, z, s), NEW e, NEW w \in Consumers
  PROVE  /\ Load(ready, g, e) \in Nat /\ Load(waiting, After(g), e) \in Nat
         /\ Load(dead, Flat(z), e) \in Nat /\ Load(delivered[w], g, e) \in Nat
         /\ Pending(w, g, z, e) \in Nat /\ Held(w, g, z, e) \in Nat
<1>1. /\ IsABag(ready) /\ IsABag(waiting) /\ IsABag(dead) /\ IsABag(delivered[w])
  BY DEF Sound, BagsOK, Messages
<1>2. /\ Load(ready, g, e) \in Nat /\ Load(waiting, After(g), e) \in Nat
      /\ Load(dead, Flat(z), e) \in Nat /\ Load(delivered[w], g, e) \in Nat
  BY <1>1, WeightsOf, LoadCounts
<1>3. job[w] # None => job[w] \in Message /\ job[w].deaths <= MaxRetries
  BY DEF Sound, ThreadsOK, DeathsFit
<1>4. Pending(w, g, z, e) \in Nat
  BY <1>3, OneFacts DEF Pending
<1> QED
  BY <1>2, <1>4 DEF Held

LEMMA LocalTypeNext ==
  ASSUME Sound', NEW g, NEW z, NEW s, Weights(g, z, s), NEW e, NEW w \in Consumers
  PROVE  /\ Load(ready', g, e) \in Nat /\ Load(waiting', After(g), e) \in Nat
         /\ Load(dead', Flat(z), e) \in Nat /\ Load(delivered'[w], g, e) \in Nat
         /\ Pending(w, g, z, e)' \in Nat /\ Held(w, g, z, e)' \in Nat
         /\ Held(w, g, z, e)' = Load(delivered'[w], g, e) + Pending(w, g, z, e)'
<1>1. /\ IsABag(ready') /\ IsABag(waiting') /\ IsABag(dead') /\ IsABag(delivered'[w])
  BY DEF Sound, BagsOK, Messages
<1>2. /\ Load(ready', g, e) \in Nat /\ Load(waiting', After(g), e) \in Nat
      /\ Load(dead', Flat(z), e) \in Nat /\ Load(delivered'[w], g, e) \in Nat
  BY <1>1, WeightsOf, LoadCounts
<1>3. job'[w] # None => job'[w] \in Message /\ job'[w].deaths <= MaxRetries
  BY DEF Sound, ThreadsOK, DeathsFit
<1>4. Pending(w, g, z, e)' \in Nat
  BY <1>3, OneFacts DEF Pending
<1> QED
  BY <1>2, <1>4 DEF Held

LEMMA PotentialIsNat ==
  ASSUME Sound, NEW g, NEW z, NEW s, Weights(g, z, s), NEW e
  PROVE  HeldByAll(g, z, e) \in Nat /\ Potential(g, z, e) \in Nat
<1> DEFINE F == [w \in Consumers |-> Held(w, g, z, e)]
<1>1. Counts(F, Consumers)
  BY LocalType, ConstantsAssumption DEF Counts, ConstantsAssumption
<1>2. HeldByAll(g, z, e) \in Nat
  BY <1>1, SumType DEF HeldByAll
<1>3. IsABag(ready) /\ IsABag(waiting) /\ IsABag(dead)
  BY DEF Sound, BagsOK, Messages
<1>4. Load(ready, g, e) \in Nat /\ Load(waiting, After(g), e) \in Nat /\ Load(dead, Flat(z), e) \in Nat
  BY <1>3, WeightsOf, LoadCounts
<1> QED
  BY <1>2, <1>4 DEF Potential

LEMMA PotentialIsNatNext ==
  ASSUME Sound', NEW g, NEW z, NEW s, Weights(g, z, s), NEW e
  PROVE  HeldByAll(g, z, e)' \in Nat /\ Potential(g, z, e)' \in Nat
<1> DEFINE F == [w \in Consumers |-> Held(w, g, z, e)']
<1>1. Counts(F, Consumers)
  BY LocalTypeNext, ConstantsAssumption DEF Counts, ConstantsAssumption
<1>2. HeldByAll(g, z, e)' \in Nat
  BY <1>1, SumType DEF HeldByAll
<1>3. IsABag(ready') /\ IsABag(waiting') /\ IsABag(dead')
  BY DEF Sound, BagsOK, Messages
<1>4. Load(ready', g, e) \in Nat /\ Load(waiting', After(g), e) \in Nat /\ Load(dead', Flat(z), e) \in Nat
  BY <1>3, WeightsOf, LoadCounts
<1> QED
  BY <1>2, <1>4 DEF Potential

Same(v) ==
    /\ delivered'[v] = delivered[v] /\ job'[v] = job[v] /\ pc'[v] = pc[v]
    /\ status'[v] = status[v] /\ cut'[v] = cut[v]

\* What a step does to the queues and to one consumer is all it does.
LEMMA LocalChange ==
  ASSUME Sound, Sound', NEW g, NEW z, NEW s, Weights(g, z, s), NEW e,
         NEW w \in Consumers, \A v \in Consumers \ {w} : Same(v)
  PROVE  /\ Potential(g, z, e) \in Nat /\ Potential(g, z, e)' \in Nat
         /\ Local(w, g, z, e) \in Nat /\ Local(w, g, z, e)' \in Nat
         /\ Potential(g, z, e)' + Local(w, g, z, e) = Potential(g, z, e) + Local(w, g, z, e)'
<1> DEFINE F == [v \in Consumers |-> Held(v, g, z, e)]
           G == [v \in Consumers |-> Held(v, g, z, e)']
<1>1. IsFiniteSet(Consumers)
  BY ConstantsAssumption DEF ConstantsAssumption
<1>2. Counts(F, Consumers)
  BY <1>1, LocalType DEF Counts
<1>3. Counts(G, Consumers)
  BY <1>1, LocalTypeNext DEF Counts
<1>4. \A v \in Consumers \ {w} : G[v] = F[v]
  BY DEF Same, Held, Pending
<1>5. /\ HeldByAll(g, z, e) = SumFunctionOnSet(F, Consumers)
      /\ HeldByAll(g, z, e)' = SumFunctionOnSet(G, Consumers)
  BY DEF HeldByAll
<1>6. F[w] = Held(w, g, z, e) /\ G[w] = Held(w, g, z, e)'
  OBVIOUS
<1> HIDE DEF F, G
<1>7. /\ HeldByAll(g, z, e) \in Nat /\ HeldByAll(g, z, e)' \in Nat
      /\ HeldByAll(g, z, e)' + Held(w, g, z, e) = HeldByAll(g, z, e) + Held(w, g, z, e)'
  BY <1>2, <1>3, <1>4, <1>5, <1>6, SumChanges, SumType
<1>8. /\ Load(ready, g, e) \in Nat /\ Load(waiting, After(g), e) \in Nat
      /\ Load(dead, Flat(z), e) \in Nat /\ Held(w, g, z, e) \in Nat
  BY LocalType
<1>9. /\ Load(ready', g, e) \in Nat /\ Load(waiting', After(g), e) \in Nat
      /\ Load(dead', Flat(z), e) \in Nat /\ Held(w, g, z, e)' \in Nat
  BY LocalTypeNext
<1> QED
  BY <1>7, <1>8, <1>9 DEF Potential, Local

\* What a step does to the weight of e: a handling lightens it by s, an exception makes
\* it heavier by s and a fault by one more copy, and nothing else makes it heavier.
Weighed(g, z, s, e) ==
    \/ /\ UNCHANGED <<faults, throws>> /\ handled'[e] = handled[e]
       /\ Potential(g, z, e)' <= Potential(g, z, e)
    \/ /\ UNCHANGED <<faults, throws>> /\ handled'[e] <= handled[e] + 1
       /\ Potential(g, z, e)' + s <= Potential(g, z, e)
    \/ /\ UNCHANGED faults /\ throws' = throws + 1 /\ handled'[e] = handled[e]
       /\ Potential(g, z, e)' <= Potential(g, z, e) + s
    \/ /\ faults' = faults + 1 /\ UNCHANGED throws /\ handled'[e] = handled[e]
       /\ Potential(g, z, e)' <= Potential(g, z, e) + g[0]

LEMMA StepIsWeighed ==
  ASSUME Sound, HistoryOK, [Next]_vars, NEW g, NEW z, NEW s, Weights(g, z, s), NEW e \in Events
  PROVE  Weighed(g, z, s, e)
<1> DEFINE P == Potential(g, z, e)
           L(w) == Local(w, g, z, e)
           R == Load(ready, g, e)
           W == Load(waiting, After(g), e)
           X == Load(dead, Flat(z), e)
           D(w) == Load(delivered[w], g, e)
           J(w) == Pending(w, g, z, e)
<1>1. Sound'
  BY SoundNext
<1>2. s \in Nat /\ g[0] \in Nat
  BY ConstantsAssumption DEF Weights, ConstantsAssumption
<1>3. ASSUME NEW w \in Consumers, \A v \in Consumers \ {w} : Same(v)
      PROVE  P \in Nat /\ P' \in Nat /\ L(w) \in Nat /\ L(w)' \in Nat /\ P' + L(w) = P + L(w)'
  BY <1>1, <1>3, LocalChange
<1>4. ASSUME NEW w \in Consumers
      PROVE  /\ L(w) = R + W + X + (D(w) + J(w))
             /\ L(w)' = R' + W' + X' + (D(w)' + J(w)')
             /\ R \in Nat /\ W \in Nat /\ X \in Nat /\ D(w) \in Nat /\ J(w) \in Nat
             /\ R' \in Nat /\ W' \in Nat /\ X' \in Nat /\ D(w)' \in Nat /\ J(w)' \in Nat
  BY <1>1, LocalType, LocalTypeNext DEF Local, Held
<1>5. /\ \A d \in 0 .. MaxRetries : g[d] \in Nat
      /\ \A d \in 0 .. MaxRetries : After(g)[d] \in Nat
      /\ \A d \in 0 .. MaxRetries : Flat(z)[d] \in Nat
  BY WeightsOf
<1>6. /\ IsABag(ready) /\ IsABag(waiting) /\ IsABag(dead)
      /\ \A w \in Consumers : IsABag(delivered[w])
      /\ BagToSet(ready) \subseteq Message /\ BagToSet(waiting) \subseteq Message
      /\ \A w \in Consumers : BagToSet(delivered[w]) \subseteq Message
  BY DEF Sound, BagsOK, Messages
<1>7. /\ \A m \in BagToSet(ready) : m.deaths <= MaxRetries
      /\ \A m \in BagToSet(waiting) : m.deaths < MaxRetries
      /\ \A w \in Consumers : \A m \in BagToSet(delivered[w]) : m.deaths <= MaxRetries
      /\ \A w \in Consumers : job[w] # None => job[w] \in Message /\ job[w].deaths <= MaxRetries
      /\ \A w \in Consumers : job[w] = None <=> pc[w] = "idle"
      /\ \A w \in Consumers : status[w] \in Status
  BY DEF Sound, DeathsFit, ThreadsOK
<1>8. /\ delivered = [w \in Consumers |-> delivered[w]]
      /\ job = [w \in Consumers |-> job[w]]
      /\ pc = [w \in Consumers |-> pc[w]]
      /\ status = [w \in Consumers |-> status[w]]
      /\ cut = [w \in Consumers |-> cut[w]]
      /\ handled = [x \in Events |-> handled[x]]
      /\ \A x \in Events : handled[x] \in Nat
      /\ None \notin Message
  BY CapIsNat, ConstantsAssumption DEF Sound, BagsOK, ThreadsOK, HistoryOK, ConstantsAssumption
<1> HIDE DEF P, L, D, J
<1>11. ASSUME NEW w \in Consumers, NEW m \in BagToSet(ready), Deliver(w, m)
       PROVE  Weighed(g, z, s, e)
  <2>1. \A v \in Consumers \ {w} : Same(v)
    BY <1>8, <1>11 DEF Deliver, Same
  <2>2. m \in Message /\ m.deaths <= MaxRetries /\ BagIn(m, ready)
    BY <1>6, <1>7, <1>11 DEF Deliver
  <2>3. R = R' + One(m, g, e)
    BY <1>5, <1>6, <1>11, <2>2, LoadRemoved DEF Deliver
  <2>4. D(w)' = D(w) + One(m, g, e)
    BY <1>5, <1>6, <1>8, <1>11, <2>2, LoadAdded DEF Deliver, D
  <2>5. J(w)' = J(w) /\ W' = W /\ X' = X
    BY <1>11 DEF Deliver, J, Pending
  <2>6. One(m, g, e) \in Nat
    BY <2>2, OneFacts
  <2>7. P' <= P
    <3> HIDE DEF R, W, X
    <3> QED
      BY <1>3, <1>4, <2>1, <2>3, <2>4, <2>5, <2>6
  <2> QED
    BY <1>11, <2>7 DEF Weighed, Deliver, history, P
<1>12. ASSUME NEW m \in BagToSet(waiting), RetryExpires(m)
       PROVE  Weighed(g, z, s, e)
  <2> DEFINE n == [m EXCEPT !.deaths = @ + 1]
  <2>1. /\ m \in Message /\ m.deaths < MaxRetries /\ BagIn(m, waiting)
        /\ n \in Message /\ n.event = m.event /\ n.deaths = m.deaths + 1
        /\ m.deaths \in 0 .. MaxRetries /\ m.deaths <= MaxRetries /\ n.deaths <= MaxRetries
    BY <1>6, <1>7, <1>12, ConstantsAssumption DEF RetryExpires, Message, ConstantsAssumption
  <2>2. One(n, g, e) = One(m, After(g), e)
    BY <2>1 DEF One, After
  <2> HIDE DEF n
  <2>3. W = W' + One(m, After(g), e)
    BY <1>5, <1>6, <1>12, <2>1, LoadRemoved DEF RetryExpires
  <2>4. R' = R + One(n, g, e)
    <3>1. ready' = BagAdd(ready, n)
      BY <1>12 DEF RetryExpires, n
    <3> QED
      BY <1>5, <1>6, <2>1, <3>1, LoadAdded
  <2>5. X' = X /\ HeldByAll(g, z, e)' = HeldByAll(g, z, e)
    BY <1>12 DEF RetryExpires, HeldByAll, Held, Pending
  <2>6. /\ IsABag(ready') /\ IsABag(waiting')
        /\ R \in Nat /\ R' \in Nat /\ W \in Nat /\ W' \in Nat /\ X \in Nat
    <3>1. IsABag(ready') /\ IsABag(waiting')
      BY <1>1 DEF Sound, BagsOK, Messages
    <3> QED
      BY <1>5, <1>6, <3>1, LoadCounts
  <2>7. P' = P
    <3>1. P' = R' + W' + X' + HeldByAll(g, z, e)' /\ P = R + W + X + HeldByAll(g, z, e)
      BY DEF P, Potential
    <3>2. One(n, g, e) \in Nat
      BY <2>1, OneFacts
    <3>3. R' + W' = R + W
      <4> HIDE DEF R, W
      <4> QED
        BY <2>2, <2>3, <2>4, <2>6, <3>2
    <3> QED
      BY <2>5, <3>1, <3>3
  <2>8. P \in Nat
    BY PotentialIsNat DEF P
  <2> QED
    BY <1>12, <2>7, <2>8 DEF Weighed, RetryExpires, history, P
<1>13. ASSUME NEW w \in Consumers, NEW m \in BagToSet(delivered[w]), RejectMalformed(w, m)
       PROVE  Weighed(g, z, s, e)
  <2>1. \A v \in Consumers \ {w} : Same(v)
    BY <1>8, <1>13 DEF RejectMalformed, Same
  <2>2. m \in Message /\ m.deaths <= MaxRetries /\ BagIn(m, delivered[w])
    BY <1>6, <1>7, <1>13 DEF RejectMalformed
  <2>3. D(w) = D(w)' + One(m, g, e)
    BY <1>5, <1>6, <1>8, <1>13, <2>2, LoadRemoved DEF RejectMalformed, D
  <2>4. X' = X + One(m, Flat(z), e)
    BY <1>5, <1>6, <1>13, <2>2, LoadAdded DEF RejectMalformed
  <2>5. J(w)' = J(w) /\ R' = R /\ W' = W
    BY <1>13 DEF RejectMalformed, J, Pending
  <2>6. /\ One(m, g, e) \in Nat /\ One(m, Flat(z), e) \in Nat
        /\ One(m, Flat(z), e) <= One(m, g, e)
    BY <2>2, OneFacts
  <2>7. P' <= P
    <3> HIDE DEF R, W, X
    <3> QED
      BY <1>3, <1>4, <2>1, <2>3, <2>4, <2>5, <2>6
  <2> QED
    BY <1>13, <2>7 DEF Weighed, RejectMalformed, history, P
<1>14. ASSUME NEW w \in Consumers, NEW m \in BagToSet(delivered[w]), Handle(w, m)
       PROVE  Weighed(g, z, s, e)
  <2>1. \A v \in Consumers \ {w} : Same(v)
    BY <1>8, <1>14 DEF Handle, Same
  <2>2. m \in Message /\ m.deaths <= MaxRetries /\ BagIn(m, delivered[w]) /\ m # None
    BY <1>6, <1>7, <1>8, <1>14 DEF Handle
  <2>3. D(w) = D(w)' + One(m, g, e)
    BY <1>5, <1>6, <1>8, <1>14, <2>2, LoadRemoved DEF Handle, D
  <2>4. R' = R /\ W' = W /\ X' = X
    BY <1>14 DEF Handle, queues
  <2>5. J(w) = 0 /\ J(w)' = One(m, After(g), e)
    BY <1>7, <1>8, <1>14, <2>2 DEF Handle, J, Pending
  <2>6. /\ One(m, g, e) \in Nat /\ One(m, After(g), e) \in Nat
        /\ One(m, g, e) = One(m, After(g), e) + (IF m.event = e THEN s ELSE 0)
    BY <2>2, OneFacts
  <2>7. P' + (IF m.event = e THEN s ELSE 0) <= P /\ P' \in Nat
    <3> HIDE DEF R, W, X
    <3> QED
      BY <1>2, <1>3, <1>4, <2>1, <2>3, <2>4, <2>5, <2>6
  <2>8. UNCHANGED <<faults, throws>> /\ IF m.event = e THEN handled'[e] <= handled[e] + 1
                                                       ELSE handled'[e] = handled[e]
    BY <1>8, <1>14, <2>2 DEF Handle, Message
  <2> QED
    BY <2>7, <2>8 DEF Weighed, P
\* The job goes on, and no copy moves.
<1>15. ASSUME NEW w \in Consumers, UNCHANGED <<queues, delivered, job, cut>>,
              pc[w] \in {"handling", "retrying"}, pc' = [pc EXCEPT ![w] = pc'[w]],
              \/ pc'[w] = "retrying" /\ UNCHANGED status
              \/ \E x \in Status : Settling(w, x)
       PROVE  /\ P \in Nat /\ P' \in Nat
              /\ IF pc'[w] = "settling" /\ status'[w] = "soft_failure" THEN P' <= P + s ELSE P' <= P
  <2>1. \A v \in Consumers \ {w} : Same(v)
    BY <1>8, <1>15 DEF Settling, Same
  <2>2. D(w)' = D(w) /\ R' = R /\ W' = W /\ X' = X
    BY <1>15 DEF queues, D
  <2>3. job[w] \in Message /\ job[w].deaths <= MaxRetries /\ job[w] # None
    BY <1>7, <1>15
  <2>4. /\ One(job[w], g, e) \in Nat /\ One(job[w], After(g), e) \in Nat /\ One(job[w], Flat(z), e) \in Nat
        /\ One(job[w], g, e) = One(job[w], After(g), e) + (IF job[w].event = e THEN s ELSE 0)
        /\ One(job[w], Flat(z), e) <= One(job[w], After(g), e)
    BY <2>3, OneFacts
  <2>5. J(w) = One(job[w], After(g), e)
    BY <1>15, <2>3 DEF J, Pending
  <2>6. /\ job' = job /\ cut' = cut
        /\ \/ pc'[w] = "retrying"
           \/ pc'[w] = "settling" /\ status'[w] \in Status
    BY <1>8, <1>15 DEF Settling
  <2>7. J(w)' \in {0, One(job[w], After(g), e), One(job[w], Flat(z), e)}
          \/ (pc'[w] = "settling" /\ status'[w] = "soft_failure" /\ J(w)' = One(job[w], g, e))
    <3>1. job'[w] = job[w] /\ cut'[w] = cut[w]
      BY <2>6
    <3> QED
      BY <2>3, <2>6, <3>1 DEF J, Pending
  <2> QED
    <3> HIDE DEF R, W, X
    <3> QED
      BY <1>2, <1>3, <1>4, <2>1, <2>2, <2>4, <2>5, <2>7
<1>16. ASSUME NEW w \in Consumers, NEW x \in Status, HandlerDecides(w, x) PROVE Weighed(g, z, s, e)
  <2>1. /\ pc[w] \in {"handling", "retrying"} /\ UNCHANGED <<queues, delivered, job, cut>>
        /\ pc' = [pc EXCEPT ![w] = pc'[w]] /\ Settling(w, x) /\ status'[w] # "soft_failure"
    BY <1>8, <1>16 DEF HandlerDecides, Settling, queues
  <2>2. P' <= P
    BY <1>15, <2>1
  <2> QED
    BY <1>16, <2>2 DEF Weighed, HandlerDecides, P
<1>17. ASSUME NEW w \in Consumers, HandlerFails(w) PROVE Weighed(g, z, s, e)
  <2>1. /\ pc[w] \in {"handling", "retrying"} /\ UNCHANGED <<queues, delivered, job, cut>>
        /\ pc' = [pc EXCEPT ![w] = pc'[w]] /\ pc'[w] = "retrying" /\ UNCHANGED status
    BY <1>8, <1>17 DEF HandlerFails, queues
  <2>2. P' <= P
    BY <1>15, <2>1
  <2> QED
    BY <1>17, <2>2 DEF Weighed, HandlerFails, history, P
<1>18. ASSUME NEW w \in Consumers, HandlerThrows(w) PROVE Weighed(g, z, s, e)
  <2>1. /\ pc[w] \in {"handling", "retrying"} /\ UNCHANGED <<queues, delivered, job, cut>>
        /\ pc' = [pc EXCEPT ![w] = pc'[w]] /\ Settling(w, "soft_failure") /\ "soft_failure" \in Status
        /\ status'[w] = "soft_failure" /\ pc'[w] = "settling"
    BY <1>8, <1>18 DEF HandlerThrows, Settling, queues, Status
  <2>2. P' <= P + s
    BY <1>15, <2>1
  <2> QED
    BY <1>18, <2>2 DEF Weighed, HandlerThrows, P
<1>19. ASSUME NEW w \in Consumers, RetriesExceeded(w) PROVE Weighed(g, z, s, e)
  <2>1. /\ pc[w] \in {"handling", "retrying"} /\ UNCHANGED <<queues, delivered, job, cut>>
        /\ pc' = [pc EXCEPT ![w] = pc'[w]] /\ Settling(w, "hard_failure") /\ "hard_failure" \in Status
        /\ status'[w] # "soft_failure"
    BY <1>8, <1>19 DEF RetriesExceeded, Settling, queues, Status
  <2>2. P' <= P
    BY <1>15, <2>1
  <2> QED
    BY <1>19, <2>2 DEF Weighed, RetriesExceeded, history, P
\* A copy of the job is published, or is not, and the job is settled with success or a
\* hard failure.
<1>20. ASSUME NEW w \in Consumers, pc[w] = "retrying", UNCHANGED <<delivered, job, cut, ready, dead>>,
              NEW x \in {"success", "hard_failure"}, Settling(w, x),
              UNCHANGED waiting \/ waiting' = BagAdd(waiting, job[w])
       PROVE  /\ P \in Nat /\ P' \in Nat /\ P' <= P + g[0]
              /\ x = "success" \/ UNCHANGED waiting => P' <= P
  <2>1. \A v \in Consumers \ {w} : Same(v)
    BY <1>8, <1>20 DEF Settling, Same
  <2>2. D(w)' = D(w) /\ R' = R /\ X' = X
    BY <1>20 DEF D
  <2>3. job[w] \in Message /\ job[w].deaths <= MaxRetries /\ job[w] # None
    BY <1>7, <1>20
  <2>4. /\ One(job[w], g, e) \in Nat /\ One(job[w], After(g), e) \in Nat /\ One(job[w], Flat(z), e) \in Nat
        /\ One(job[w], g, e) = One(job[w], After(g), e) + (IF job[w].event = e THEN s ELSE 0)
        /\ One(job[w], Flat(z), e) <= One(job[w], After(g), e)
        /\ One(job[w], g, e) <= g[0]
    BY <2>3, OneFacts
  <2>5. J(w) = One(job[w], After(g), e)
    BY <1>20, <2>3 DEF J, Pending
  <2>6. /\ J(w)' \in {0, One(job[w], Flat(z), e)}
        /\ x = "success" => J(w)' = 0
    <3>1. job'[w] = job[w] /\ pc'[w] = "settling" /\ status'[w] = x
      BY <1>8, <1>20 DEF Settling
    <3> QED
      BY <1>20, <2>3, <3>1 DEF J, Pending
  <2>7. W' = W \/ W' = W + One(job[w], After(g), e)
    BY <1>5, <1>6, <1>20, <2>3, LoadAdded
  <2>8. UNCHANGED waiting => W' = W
    OBVIOUS
  <2> QED
    <3> HIDE DEF R, W, X
    <3> QED
      BY <1>2, <1>3, <1>4, <2>1, <2>2, <2>4, <2>5, <2>6, <2>7, <2>8
<1>21. ASSUME NEW w \in Consumers, RetryPublished(w) PROVE Weighed(g, z, s, e)
  <2>1. P' <= P /\ P \in Nat /\ P' \in Nat
    BY <1>20, <1>21 DEF RetryPublished
  <2> QED
    BY <1>2, <1>21, <2>1 DEF Weighed, RetryPublished, P
<1>22. ASSUME NEW w \in Consumers, RetryNotPublished(w) PROVE Weighed(g, z, s, e)
  <2>1. /\ P' <= P + g[0]
        /\ UNCHANGED waiting => P' <= P
    BY <1>20, <1>22 DEF RetryNotPublished
  <2> QED
    BY <1>22, <2>1 DEF Weighed, RetryNotPublished, history, P
<1>23. ASSUME NEW w \in Consumers, Settle(w) PROVE Weighed(g, z, s, e)
  <2>1. \A v \in Consumers \ {w} : Same(v)
    BY <1>8, <1>23 DEF Settle, Same
  <2>2. job[w] \in Message /\ job[w].deaths <= MaxRetries /\ job[w] # None
    BY <1>7, <1>23 DEF Settle
  <2>3. One(job[w], g, e) \in Nat /\ One(job[w], Flat(z), e) \in Nat
    BY <2>2, OneFacts
  <2>4. D(w)' = D(w) /\ W' = W /\ J(w)' = 0
    BY <1>8, <1>23 DEF Settle, D, J, Pending
  <2>5. R' + X' + J(w)' <= R + X + J(w)
    <3>1. CASE cut[w] \/ status[w] = "success"
      <4>1. R' = R /\ X' = X
        BY <1>23, <3>1 DEF Settle
      <4>2. J(w) = 0
        BY <1>23, <2>2, <3>1 DEF Settle, J, Pending
      <4> QED
        <5> HIDE DEF R, X
        <5> QED
          BY <1>4, <2>4, <4>1, <4>2
    <3>2. CASE ~cut[w] /\ status[w] = "soft_failure"
      <4>1. R' = R + One(job[w], g, e) /\ X' = X
        BY <1>5, <1>6, <1>23, <2>2, <3>2, LoadAdded DEF Settle
      <4>2. J(w) = One(job[w], g, e)
        BY <1>23, <2>2, <3>2 DEF Settle, J, Pending
      <4> QED
        <5> HIDE DEF R, X
        <5> QED
          BY <1>4, <2>4, <4>1, <4>2
    <3>3. CASE ~cut[w] /\ status[w] = "hard_failure"
      <4>1. X' = X + One(job[w], Flat(z), e) /\ R' = R
        BY <1>5, <1>6, <1>23, <2>2, <3>3, LoadAdded DEF Settle
      <4>2. J(w) = One(job[w], Flat(z), e)
        BY <1>23, <2>2, <3>3 DEF Settle, J, Pending
      <4> QED
        <5> HIDE DEF R, X
        <5> QED
          BY <1>4, <2>4, <4>1, <4>2
    <3> QED
      BY <1>7, <3>1, <3>2, <3>3 DEF Status
  <2>6. P' <= P
    <3> HIDE DEF R, W, X
    <3> QED
      BY <1>3, <1>4, <2>1, <2>4, <2>5
  <2> QED
    BY <1>23, <2>6 DEF Weighed, Settle, history, P
\* The broker takes back what was not settled, and a handler that lives goes on.
<1>24. ASSUME NEW w \in Consumers, \A v \in Consumers \ {w} : Same(v),
              ready' = ready (+) Unsettled(w), delivered' = [delivered EXCEPT ![w] = EmptyBag],
              UNCHANGED <<waiting, dead>>,
              job'[w] = None \/ (UNCHANGED <<job, pc, status>> /\ cut'[w])
       PROVE  P' <= P + g[0]
  <2>1. IsABag(Unsettled(w))
    BY UnsettledBag DEF Messages, Sound
  <2>2. R' = R + Load(Unsettled(w), g, e)
    BY <1>5, <1>6, <1>24, <2>1, LoadUnited
  <2>3. D(w)' = 0 /\ W' = W /\ X' = X
    BY <1>5, <1>8, <1>24, LoadOfNone DEF D
  <2>4. Load(Unsettled(w), g, e) \in Nat /\ Load(Unsettled(w), g, e) <= D(w) + g[0]
    <3>1. CASE job[w] = None \/ cut[w]
      <4>1. Load(Unsettled(w), g, e) = D(w)
        BY <3>1 DEF Unsettled, D
      <4> QED
        BY <1>2, <1>4, <4>1
    <3>2. CASE ~(job[w] = None \/ cut[w])
      <4>1. job[w] \in Message /\ job[w].deaths <= MaxRetries
        BY <1>7, <3>2
      <4>2. Load(Unsettled(w), g, e) = D(w) + One(job[w], g, e)
        BY <1>5, <1>6, <3>2, <4>1, LoadAdded DEF Unsettled, D
      <4>3. One(job[w], g, e) \in Nat /\ One(job[w], g, e) <= g[0]
        BY <4>1, OneFacts
      <4> QED
        BY <1>2, <1>4, <4>2, <4>3
    <3> QED
      BY <3>1, <3>2
  <2>5. J(w)' <= J(w)
    <3>1. J(w)' = 0 \/ J(w)' = J(w)
      BY <1>24 DEF J, Pending
    <3> QED
      BY <1>4, <3>1
  <2> QED
    <3> HIDE DEF R, W, X
    <3> QED
      BY <1>2, <1>3, <1>4, <1>24, <2>2, <2>3, <2>4, <2>5
<1>25. ASSUME NEW w \in Consumers, ChannelDies(w) PROVE Weighed(g, z, s, e)
  <2>1. (\A v \in Consumers \ {w} : Same(v)) /\ cut'[w]
    BY <1>8, <1>25 DEF ChannelDies, Same
  <2>2. P' <= P + g[0]
    BY <1>24, <1>25, <2>1 DEF ChannelDies
  <2> QED
    BY <1>25, <2>2 DEF Weighed, ChannelDies, history, P
<1>26. ASSUME NEW w \in Consumers, ProcessDies(w) PROVE Weighed(g, z, s, e)
  <2>1. (\A v \in Consumers \ {w} : Same(v)) /\ job'[w] = None
    BY <1>8, <1>26 DEF ProcessDies, Same
  <2>2. P' <= P + g[0]
    BY <1>24, <1>26, <2>1 DEF ProcessDies
  <2> QED
    BY <1>26, <2>2 DEF Weighed, ProcessDies, history, P
<1>27. CASE UNCHANGED vars
  <2>1. P' = P /\ P \in Nat
    BY <1>27, PotentialIsNat DEF vars, P, Potential, HeldByAll, Held, Pending
  <2> QED
    BY <1>27, <2>1 DEF Weighed, vars, P
<1> QED
  BY <1>11, <1>12, <1>13, <1>14, <1>16, <1>17, <1>18, <1>19, <1>21, <1>22, <1>23, <1>25, <1>26, <1>27
    DEF Next, Broker, ConsumerStep, Take, HandlerReturns, Retry

LEMMA OnesWeigh == Weights(Ones, 1, 0)
  BY ConstantsAssumption DEF Weights, Ones, ConstantsAssumption

LEMMA LeftWeighs == Weights(Left, 0, 1)
  BY ConstantsAssumption DEF Weights, Left, ConstantsAssumption

\* At first an event is one message that has not died.
LEMMA FirstPotential ==
  ASSUME Init, NEW g, NEW z, NEW s, Weights(g, z, s), NEW e \in Events
  PROVE  Potential(g, z, e) = g[0] /\ g[0] \in Nat
<1> DEFINE S == {[event |-> x, deaths |-> 0] : x \in Events}
           x0 == [event |-> e, deaths |-> 0]
<1>1. /\ \A d \in 0 .. MaxRetries : g[d] \in Nat
      /\ \A d \in 0 .. MaxRetries : After(g)[d] \in Nat
      /\ \A d \in 0 .. MaxRetries : Flat(z)[d] \in Nat
  BY WeightsOf
<1>2. x0 \in S /\ x0 \in Message /\ x0.deaths <= MaxRetries /\ \A y \in S : y.event = e => y = x0
  BY ConstantsAssumption DEF Message, ConstantsAssumption
<1>3. One(x0, g, e) = g[0]
  BY DEF One
<1>4. ready = SetToBag(S)
  BY DEF Init
<1> HIDE DEF S, x0
<1>5. Load(ready, g, e) = g[0]
  BY <1>1, <1>2, <1>3, <1>4, LoadOfOne
<1>6. Load(waiting, After(g), e) = 0 /\ Load(dead, Flat(z), e) = 0
  BY <1>1, LoadOfNone DEF Init
<1>7. \A w \in Consumers : Held(w, g, z, e) = 0
  BY <1>1, LoadOfNone DEF Init, Held, Pending
<1>8. HeldByAll(g, z, e) = 0
  <2> DEFINE F == [w \in Consumers |-> Held(w, g, z, e)]
  <2>1. Counts(F, Consumers) /\ \A w \in Consumers : F[w] = 0
    BY <1>7, ConstantsAssumption DEF Counts, ConstantsAssumption
  <2> HIDE DEF F
  <2>2. SumFunctionOnSet(F, Consumers) = 0
    BY <2>1, SumOfZeros
  <2> QED
    BY <2>2 DEF HeldByAll, F
<1>9. g[0] \in Nat
  BY <1>1, ConstantsAssumption DEF ConstantsAssumption
<1> QED
  BY <1>5, <1>6, <1>8, <1>9 DEF Potential

LEMMA SoundInv == IInv => Sound /\ HistoryOK
  BY Parts DEF IInv, Sound

LEMMA CopiesStep == IInv /\ CopiesInv /\ [Next]_vars => CopiesInv'
<1> SUFFICES ASSUME IInv, CopiesInv, [Next]_vars, NEW e \in Events
             PROVE  Potential(Ones, 1, e)' <= 1 + faults'
  BY DEF CopiesInv
<1>1. Weighed(Ones, 1, 0, e)
  BY SoundInv, StepIsWeighed, OnesWeigh
<1>2. Potential(Ones, 1, e) \in Nat /\ Potential(Ones, 1, e)' \in Nat
  BY SoundInv, SoundNext, PotentialIsNat, PotentialIsNatNext, OnesWeigh
<1>3. Potential(Ones, 1, e) <= 1 + faults /\ faults \in Nat
  BY ConstantsAssumption DEF CopiesInv, IInv, TypeOK, ConstantsAssumption
<1>4. Ones[0] = 1
  BY ConstantsAssumption DEF Ones, ConstantsAssumption
<1> QED
  BY <1>1, <1>2, <1>3, <1>4 DEF Weighed

LEMMA HandlingsStep == IInv /\ HandlingsInv /\ [Next]_vars => HandlingsInv'
<1> DEFINE N(f) == (MaxRetries + 1) * (f + 1)
<1> SUFFICES ASSUME IInv, HandlingsInv, [Next]_vars, NEW e \in Events
             PROVE  handled'[e] + Potential(Left, 0, e)' <= N(faults') + throws'
  BY DEF HandlingsInv
<1>1. Weighed(Left, 0, 1, e)
  BY SoundInv, StepIsWeighed, LeftWeighs
<1>2. Potential(Left, 0, e) \in Nat /\ Potential(Left, 0, e)' \in Nat
  BY SoundInv, SoundNext, PotentialIsNat, PotentialIsNatNext, LeftWeighs
<1>3. handled[e] + Potential(Left, 0, e) <= N(faults) + throws /\ faults \in Nat /\ throws \in Nat
  BY ConstantsAssumption DEF HandlingsInv, IInv, TypeOK, ConstantsAssumption
<1>4. handled[e] \in Nat /\ handled'[e] \in Nat
  <2>1. HistoryOK /\ HistoryOK'
    BY SoundInv, HistoryStep DEF Sound
  <2> QED
    BY <2>1, CapIsNat DEF HistoryOK
<1>5. Left[0] = MaxRetries + 1
  BY ConstantsAssumption DEF Left, ConstantsAssumption
<1>6. \A a, b \in Nat : a * (b + 1) \in Nat /\ a * (b + 1 + 1) = a * (b + 1) + a
  OBVIOUS
<1>7. N(faults) \in Nat /\ N(faults + 1) = N(faults) + (MaxRetries + 1)
  BY <1>3, <1>6, ConstantsAssumption DEF ConstantsAssumption
<1> HIDE DEF N
<1> QED
  BY <1>1, <1>2, <1>3, <1>4, <1>5, <1>7, ConstantsAssumption DEF Weighed, ConstantsAssumption

\* If every copy weighs one, a queue weighs as much as it has copies.
LEMMA OnesCount ==
  ASSUME NEW q, Messages(q), \A m \in BagToSet(q) : m.deaths <= MaxRetries,
         NEW g, \A d \in 0 .. MaxRetries : g[d] = 1, NEW e
  PROVE  SumFunctionOnSet(q, {m \in BagToSet(q) : m.event = e}) = Load(q, g, e)
<1> DEFINE T == {m \in BagToSet(q) : m.event = e}
           F == [m \in Of(e) |-> Times(m, q) * g[m.deaths]]
<1>1. Counts(F, Of(e))
  BY LoadCounts DEF Messages
<1>2. \A m \in Of(e) : F[m] = Times(m, q)
  <2>1. ASSUME NEW m \in Of(e) PROVE Times(m, q) \in Nat /\ g[m.deaths] = 1
    BY CopiesAdd DEF Of, Messages
  <2> QED
    BY <2>1
<1>3. T \subseteq Of(e)
  BY DEF Messages, Message, Of
<1>4. \A m \in Of(e) \ T : F[m] = 0
  BY <1>2 DEF Of, Times
<1>5. \A m \in T : F[m] = q[m]
  BY <1>2, <1>3 DEF Times
<1> HIDE DEF T, F
<1>6. Counts(F, T) /\ SumFunctionOnSet(F, Of(e)) = SumFunctionOnSet(F, T)
  BY <1>1, <1>3, <1>4, SumOfRest
<1>7. SumFunctionOnSet(q, T) = SumFunctionOnSet(F, T)
  BY <1>5, <1>6, SumAgrees
<1> QED
  BY <1>6, <1>7 DEF Load, F, T

\* There are no more copies than the weight, and those of the jobs that were republished.
LEMMA CopiesWeighed ==
  ASSUME Sound, NEW e
  PROVE  /\ Copies(e) <= Potential(Ones, 1, e) + Cardinality({w \in Consumers : Republished(w, e)})
         /\ Copies(e) \in Nat /\ Potential(Ones, 1, e) \in Nat
         /\ Cardinality({w \in Consumers : Republished(w, e)}) \in Nat
<1> DEFINE In(q) == SumFunctionOnSet(q, {m \in BagToSet(q) : m.event = e})
           U == [w \in Consumers |-> In(Unsettled(w))]
           H == [w \in Consumers |-> Held(w, Ones, 1, e)]
           B == [w \in Consumers |-> IF Republished(w, e) THEN 1 ELSE 0]
           S == [w \in Consumers |-> H[w] + B[w]]
<1>1. /\ \A d \in 0 .. MaxRetries : Ones[d] = 1 /\ After(Ones)[d] = 1 /\ Flat(1)[d] = 1
      /\ \A d \in 0 .. MaxRetries : Ones[d] \in Nat
  BY ConstantsAssumption DEF Ones, After, Flat, ConstantsAssumption
<1>2. /\ Messages(ready) /\ Messages(waiting) /\ Messages(dead)
      /\ \A m \in BagToSet(ready) : m.deaths <= MaxRetries
      /\ \A m \in BagToSet(dead) : m.deaths <= MaxRetries
      /\ \A m \in BagToSet(waiting) : m.deaths <= MaxRetries
  BY ConstantsAssumption DEF Sound, BagsOK, DeathsFit, Messages, Message, ConstantsAssumption
<1>3. /\ In(ready) = Load(ready, Ones, e) /\ In(waiting) = Load(waiting, After(Ones), e)
      /\ In(dead) = Load(dead, Flat(1), e)
  BY <1>1, <1>2, OnesCount
<1>4. ASSUME NEW w \in Consumers
      PROVE  In(Unsettled(w)) \in Nat /\ H[w] \in Nat /\ B[w] \in {0, 1} /\ In(Unsettled(w)) <= H[w] + B[w]
  <2>1. /\ Messages(delivered[w]) /\ \A m \in BagToSet(delivered[w]) : m.deaths <= MaxRetries
        /\ job[w] # None => job[w] \in Message /\ job[w].deaths <= MaxRetries
        /\ job[w] = None <=> pc[w] = "idle"
    BY DEF Sound, BagsOK, DeathsFit, ThreadsOK
  <2>2. Messages(Unsettled(w)) /\ \A m \in BagToSet(Unsettled(w)) : m.deaths <= MaxRetries
    BY <2>1, UnsettledBag DEF Sound
  <2>3. In(Unsettled(w)) = Load(Unsettled(w), Ones, e)
    BY <1>1, <2>2, OnesCount
  <2>4. /\ Load(Unsettled(w), Ones, e) \in Nat /\ Load(delivered[w], Ones, e) \in Nat
        /\ Pending(w, Ones, 1, e) \in Nat
        /\ H[w] = Load(delivered[w], Ones, e) + Pending(w, Ones, 1, e)
    <3>1. Load(Unsettled(w), Ones, e) \in Nat
      BY <1>1, <2>2, LoadCounts DEF Messages
    <3> QED
      BY <3>1, OnesWeigh, LocalType DEF Held
  <2>5. CASE job[w] = None \/ cut[w]
    <3>1. Load(Unsettled(w), Ones, e) = Load(delivered[w], Ones, e)
      BY <2>5 DEF Unsettled
    <3> HIDE DEF In, H
    <3> QED
      BY <2>3, <2>4, <3>1
  <2>6. CASE ~(job[w] = None \/ cut[w])
    <3>1. Load(Unsettled(w), Ones, e) = Load(delivered[w], Ones, e) + One(job[w], Ones, e)
      BY <1>1, <2>1, <2>6, LoadAdded DEF Unsettled, Messages
    <3>2. One(job[w], Ones, e) = IF job[w].event = e THEN 1 ELSE 0
      BY <1>1, <2>1, <2>6 DEF One, Message
    <3>3. /\ One(job[w], After(Ones), e) = IF job[w].event = e THEN 1 ELSE 0
          /\ One(job[w], Flat(1), e) = IF job[w].event = e THEN 1 ELSE 0
      BY <1>1, <2>1, <2>6 DEF One, Message
    <3>4. One(job[w], Ones, e) <= Pending(w, Ones, 1, e) + B[w]
      BY <2>6, <3>2, <3>3 DEF Pending, Republished
    <3>5. One(job[w], Ones, e) \in Nat /\ B[w] \in {0, 1}
      BY <3>2
    <3> HIDE DEF In, H, B
    <3> QED
      BY <2>3, <2>4, <3>1, <3>4, <3>5
  <2> QED
    BY <2>5, <2>6
<1>5. IsFiniteSet(Consumers)
  BY ConstantsAssumption DEF ConstantsAssumption
<1>6. /\ Counts(U, Consumers) /\ Counts(H, Consumers) /\ Counts(B, Consumers) /\ Counts(S, Consumers)
      /\ \A w \in Consumers : U[w] <= S[w] /\ S[w] = H[w] + B[w] /\ B[w] \in {0, 1}
  <2>1. \A w \in Consumers : U[w] = In(Unsettled(w)) /\ S[w] = H[w] + B[w]
    OBVIOUS
  <2> HIDE DEF U, H, B, S, In
  <2>2. \A w \in Consumers : /\ U[w] \in Nat /\ H[w] \in Nat /\ B[w] \in Nat /\ S[w] \in Nat
                            /\ B[w] \in {0, 1} /\ U[w] <= S[w]
    BY <1>4, <2>1
  <2> QED
    BY <1>5, <2>1, <2>2 DEF Counts
<1>7. /\ SumFunction(U) = SumFunctionOnSet(U, Consumers)
      /\ HeldByAll(Ones, 1, e) = SumFunctionOnSet(H, Consumers)
      /\ {w \in Consumers : B[w] = 1} = {w \in Consumers : Republished(w, e)}
      /\ Copies(e) = In(ready) + In(waiting) + In(dead) + SumFunction(U)
  BY DEF SumFunction, HeldByAll, Copies
<1> HIDE DEF U, H, B, S, In
<1>8. /\ SumFunctionOnSet(U, Consumers) <= SumFunctionOnSet(S, Consumers)
      /\ SumFunctionOnSet(S, Consumers) = SumFunctionOnSet(H, Consumers) + SumFunctionOnSet(B, Consumers)
  BY <1>6, SumGrows, SumOfSums
<1>9. SumFunctionOnSet(B, Consumers) = Cardinality({w \in Consumers : Republished(w, e)})
  BY <1>5, <1>6, <1>7, SumOfOnes
<1>10. /\ SumFunctionOnSet(U, Consumers) \in Nat /\ SumFunctionOnSet(H, Consumers) \in Nat
       /\ SumFunctionOnSet(B, Consumers) \in Nat /\ SumFunctionOnSet(S, Consumers) \in Nat
  BY <1>6, SumType
<1>11. In(ready) \in Nat /\ In(waiting) \in Nat /\ In(dead) \in Nat
  <2>1. \A d \in 0 .. MaxRetries : After(Ones)[d] \in Nat /\ Flat(1)[d] \in Nat
    BY <1>1
  <2> QED
    BY <1>1, <1>2, <1>3, <2>1, LoadCounts DEF Messages
<1> QED
  BY <1>3, <1>7, <1>8, <1>9, <1>10, <1>11 DEF Potential

\* An event exists once: another copy exists between the publication of a retry and the
\* acknowledgement of the delivery, or was made by a fault.
THEOREM CopiesOnlyByFaults == Spec => []NoCopyWithoutFault
<1>1. ASSUME IInv, CopiesInv PROVE NoCopyWithoutFault
  <2> SUFFICES ASSUME NEW e \in Events
               PROVE  Copies(e) <= 1 + faults + Cardinality({w \in Consumers : Republished(w, e)})
    BY DEF NoCopyWithoutFault
  <2> DEFINE R == {w \in Consumers : Republished(w, e)}
  <2>1. /\ Copies(e) <= Potential(Ones, 1, e) + Cardinality(R)
        /\ Copies(e) \in Nat /\ Potential(Ones, 1, e) \in Nat /\ Cardinality(R) \in Nat
    BY <1>1, SoundInv, CopiesWeighed
  <2>2. Potential(Ones, 1, e) <= 1 + faults /\ faults \in Nat
    BY <1>1, ConstantsAssumption DEF CopiesInv, IInv, TypeOK, ConstantsAssumption
  <2> HIDE DEF R
  <2>3. Copies(e) <= 1 + faults + Cardinality(R)
    BY <2>1, <2>2
  <2> QED
    BY <2>3 DEF R
<1>2. Init => CopiesInv
  <2>1. Ones[0] = 1
    BY ConstantsAssumption DEF Ones, ConstantsAssumption
  <2> QED
    BY <2>1, FirstPotential, OnesWeigh DEF CopiesInv, Init
<1> QED
  BY <1>1, <1>2, InvInit, InvStep, CopiesStep, PTL DEF Spec

\* A handler sees an event at most maxRetries + 1 times, that often again for each fault,
\* and once more for each exception.
THEOREM HandlingsLimited == Spec => []HandlingsBounded
<1>1. Init => HandlingsInv
  <2> SUFFICES ASSUME Init, NEW e \in Events
               PROVE  handled[e] + Potential(Left, 0, e) <= (MaxRetries + 1) * (faults + 1) + throws
    BY DEF HandlingsInv
  <2>1. Potential(Left, 0, e) = MaxRetries + 1
    <3>1. Left[0] = MaxRetries + 1
      BY ConstantsAssumption DEF Left, ConstantsAssumption
    <3> QED
      BY <3>1, FirstPotential, LeftWeighs
  <2>2. handled[e] = 0 /\ faults = 0 /\ throws = 0
    BY DEF Init
  <2> QED
    BY <2>1, <2>2, ConstantsAssumption DEF ConstantsAssumption
<1>2. ASSUME IInv, HandlingsInv PROVE HandlingsBounded
  <2> SUFFICES ASSUME NEW e \in Events
               PROVE  handled[e] <= (MaxRetries + 1) * (faults + 1) + throws
    BY DEF HandlingsBounded
  <2> DEFINE N == (MaxRetries + 1) * (faults + 1)
  <2>1. handled[e] + Potential(Left, 0, e) <= N + throws
    BY <1>2 DEF HandlingsInv
  <2>2. handled[e] \in Nat /\ faults \in Nat /\ throws \in Nat
    BY <1>2, CapIsNat, ConstantsAssumption DEF IInv, TypeOK, ConstantsAssumption
  <2>3. Potential(Left, 0, e) \in Nat
    BY <1>2, SoundInv, PotentialIsNat, LeftWeighs
  <2>4. N \in Nat
    <3>1. \A a, b \in Nat : a * b \in Nat
      OBVIOUS
    <3> QED
      BY <2>2, <3>1, ConstantsAssumption DEF ConstantsAssumption
  <2> HIDE DEF N
  <2>5. handled[e] <= N + throws
    BY <2>1, <2>2, <2>3, <2>4
  <2> QED
    BY <2>5 DEF N
<1> QED
  BY <1>1, <1>2, InvInit, InvStep, HandlingsStep, PTL DEF Spec
===============================================================================
