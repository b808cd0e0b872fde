-------------------------- MODULE KafkaConsumerProofs --------------------------
(***************************************************************************)
(* For any number of partitions, records, consumers and faults: the        *)
(* offsets a group commits never pass a record that the handler was not    *)
(* given (CommittedWereHandled), a record comes twice only after a fault   *)
(* (NoRepeatWithoutFault), and a running container has one loop for every  *)
(* place (ConsumersAccounted).                                             *)
(*                                                                         *)
(* A commit moves the group to the positions of one consumer, so the first *)
(* invariant has to speak about positions: what a consumer has polled has  *)
(* been handled or is in its batch, and its batch is empty except while it *)
(* handles it.  The second adds what holds without faults: a partition has *)
(* one owner, who has committed what it is not handling.  The third counts *)
(* the loops alive against the rounds of start.                            *)
(***************************************************************************)
EXTENDS KafkaConsumer, FiniteSetTheorems, TLAPS

\* The part of the type invariant that the argument needs.
OffsetTypes ==
    /\ committed \in [Partitions -> 0 .. Records]
    /\ position \in [Consumers -> Offsets]
    /\ batch \in [Consumers -> SUBSET Record]
    /\ pc \in [Threads -> States]

\* Only a consumer that is handling has records in hand.
BatchInHandling == \A c \in Consumers : pc[c] # "handling" => batch[c] = {}

\* What a consumer has polled has been handled, or is still in its batch.
PolledIsKnown ==
    \A c \in Consumers : \A p \in DOMAIN position[c] :
        \A o \in Nat : o < position[c][p] => <<p, o>> \in handled \cup batch[c]

\* CommittedWereHandled without the interval.
CommittedIsHandled ==
    \A p \in Partitions : \A o \in Nat : o < committed[p] => <<p, o>> \in handled

OffsetsInv == OffsetTypes /\ BatchInHandling /\ PolledIsKnown /\ CommittedIsHandled

-------------------------------------------------------------------------------
\* The positions of a consumer are offsets of some partitions.
LEMMA PositionType ==
    ASSUME NEW f \in Offsets
    PROVE  /\ DOMAIN f \subseteq Partitions
           /\ f \in [DOMAIN f -> 0 .. Records]
<1>1. PICK P \in SUBSET Partitions : f \in [P -> 0 .. Records]
  BY DEF Offsets
<1> QED BY <1>1

\* A step that leaves the offsets, the batches and the history alone, and begins no
\* handling, keeps the invariant.
LEMMA QuietKeepsOffsets ==
    ASSUME OffsetsInv,
           UNCHANGED <<committed, position, batch, handled>>,
           OffsetTypes',
           \A c \in Consumers : pc'[c] # "handling" => pc[c] # "handling" \/ batch[c] = {}
    PROVE  OffsetsInv'
<1>1. BatchInHandling'
  BY DEF OffsetsInv, BatchInHandling
<1>2. PolledIsKnown'
  BY DEF OffsetsInv, PolledIsKnown
<1>3. CommittedIsHandled'
  BY DEF OffsetsInv, CommittedIsHandled
<1> QED BY <1>1, <1>2, <1>3 DEF OffsetsInv

\* The states a thread may be sent to.
LEMMA GotoType ==
    ASSUME OffsetTypes, NEW t \in Threads, NEW l \in States, Goto(t, l)
    PROVE  /\ pc' \in [Threads -> States]
           /\ pc'[t] = l
           /\ \A o \in Threads : o # t => pc'[o] = pc[o]
  BY DEF OffsetTypes, Goto

\* poll: the new positions cover what was known and what is now in the batch.
LEMMA PollKeepsOffsets ==
    ASSUME OffsetsInv, NEW c \in Consumers, PollRecords(c)
    PROVE  OffsetsInv'
<1>1. PICK next \in [DOMAIN position[c] -> 0 .. Records] :
        /\ \A p \in DOMAIN next : position[c][p] <= next[p]
        /\ position' = [position EXCEPT ![c] = next]
        /\ batch' = [batch EXCEPT ![c] =
                        {r \in Record : /\ r[1] \in DOMAIN next
                                        /\ position[c][r[1]] <= r[2]
                                        /\ r[2] < next[r[1]]}]
  BY DEF PollRecords
<1>2. /\ pc[c] = "polling" /\ Goto(c, "handling") /\ c \in Threads
      /\ UNCHANGED <<committed, handled>>
  BY DEF PollRecords, Threads, brokerVars
<1>3. /\ DOMAIN position[c] \subseteq Partitions
      /\ position[c] \in [DOMAIN position[c] -> 0 .. Records]
  BY PositionType DEF OffsetsInv, OffsetTypes
<1>4. next \in Offsets
  BY <1>3 DEF Offsets
<1>5. OffsetTypes'
  BY <1>1, <1>2, <1>4, GotoType DEF OffsetsInv, OffsetTypes, States, LoopStates
<1>6. BatchInHandling'
  BY <1>1, <1>2, GotoType, Consumers \subseteq Threads
     DEF OffsetsInv, OffsetTypes, BatchInHandling, States, LoopStates, Threads
<1>7. PolledIsKnown'
  <2> SUFFICES ASSUME NEW d \in Consumers, NEW p \in DOMAIN position'[d],
                      NEW o \in Nat, o < position'[d][p]
               PROVE  <<p, o>> \in handled' \cup batch'[d]
    BY DEF PolledIsKnown
  <2>1. CASE d # c
    BY <1>1, <1>2, <2>1 DEF OffsetsInv, OffsetTypes, PolledIsKnown
  <2>2. CASE d = c
    <3>1. position'[d] = next /\ p \in DOMAIN position[c] /\ p \in Partitions
      BY <1>1, <1>3, <2>2 DEF OffsetsInv, OffsetTypes
    <3>2. CASE o < position[c][p]
      <4>1. batch[c] = {}
        BY <1>2 DEF OffsetsInv, BatchInHandling
      <4>2. <<p, o>> \in handled
        BY <3>1, <3>2, <4>1 DEF OffsetsInv, PolledIsKnown
      <4> QED BY <1>2, <4>2
    <3>3. CASE ~(o < position[c][p])
      <4>1. next[p] \in 0 .. Records /\ position[c][p] \in 0 .. Records
        BY <1>3, <3>1
      <4>2. o \in 0 .. Records - 1 /\ position[c][p] <= o /\ o < next[p]
        BY <3>1, <3>3, <4>1, ConstantsAssumption DEF ConstantsAssumption
      <4>3. <<p, o>> \in Record
        BY <3>1, <4>2 DEF Record
      <4>4. <<p, o>> \in batch'[c]
        BY <1>1, <3>1, <4>2, <4>3 DEF OffsetsInv, OffsetTypes
      <4> QED BY <2>2, <4>4
    <3> QED BY <3>2, <3>3
  <2> QED BY <2>1, <2>2
<1>8. CommittedIsHandled'
  BY <1>2 DEF OffsetsInv, CommittedIsHandled
<1> QED BY <1>5, <1>6, <1>7, <1>8 DEF OffsetsInv

\* The handler takes a record from the batch.
LEMMA HandleKeepsOffsets ==
    ASSUME OffsetsInv, NEW c \in Consumers, NEW r \in batch[c], Handle(c, r)
    PROVE  OffsetsInv'
<1>1. /\ pc[c] = "handling" /\ c \in Threads
      /\ batch' = [batch EXCEPT ![c] = @ \ {r}]
      /\ handled' = handled \cup {r}
      /\ Goto(c, IF batch[c] = {r} THEN "committing" ELSE "handling")
      /\ UNCHANGED <<committed, position>>
  BY DEF Handle, brokerVars, Threads
<1>2. OffsetTypes'
  BY <1>1, GotoType DEF OffsetsInv, OffsetTypes, States, LoopStates
<1>3. BatchInHandling'
  BY <1>1, GotoType DEF OffsetsInv, OffsetTypes, BatchInHandling, States, LoopStates, Threads
<1>4. PolledIsKnown'
  BY <1>1 DEF OffsetsInv, OffsetTypes, PolledIsKnown
<1>5. CommittedIsHandled'
  BY <1>1 DEF OffsetsInv, CommittedIsHandled
<1> QED BY <1>2, <1>3, <1>4, <1>5 DEF OffsetsInv

\* A consumer that is committing has handled all it has polled.
LEMMA CommittedKeepsOffsets ==
    ASSUME OffsetsInv, NEW c \in Consumers, pc[c] = "committing", Committed(c),
           UNCHANGED <<position, batch, handled>>, OffsetTypes',
           \A d \in Consumers : pc'[d] # "handling" => pc[d] # "handling" \/ batch[d] = {}
    PROVE  OffsetsInv'
<1>1. batch[c] = {}
  BY DEF OffsetsInv, BatchInHandling
<1>2. CommittedIsHandled'
  BY <1>1 DEF OffsetsInv, OffsetTypes, PolledIsKnown, CommittedIsHandled, Committed
<1>3. BatchInHandling' /\ PolledIsKnown'
  BY DEF OffsetsInv, BatchInHandling, PolledIsKnown
<1> QED BY <1>2, <1>3 DEF OffsetsInv

\* The new positions of the group are in range.
LEMMA CommittedType ==
    ASSUME OffsetTypes, NEW c \in Consumers, Committed(c)
    PROVE  committed' \in [Partitions -> 0 .. Records]
<1>1. position[c] \in [DOMAIN position[c] -> 0 .. Records]
  BY PositionType DEF OffsetTypes
<1> QED BY <1>1 DEF OffsetTypes, Committed

\* Most steps only send one thread from one state to another.
LEMMA GotoKeepsOffsets ==
    ASSUME OffsetsInv, NEW t \in Threads, NEW l \in States, Goto(t, l),
           pc[t] # "handling",
           UNCHANGED <<committed, position, batch, handled>>
    PROVE  OffsetsInv'
<1>1. OffsetTypes'
  BY GotoType DEF OffsetsInv, OffsetTypes, States
<1>2. \A c \in Consumers : pc'[c] # "handling" => pc[c] # "handling" \/ batch[c] = {}
  BY GotoType DEF OffsetsInv, OffsetTypes, States, BatchInHandling, Threads
<1> QED BY <1>1, <1>2, QuietKeepsOffsets

\* close: the client has no partitions any more.
LEMMA CloseKeepsOffsets ==
    ASSUME OffsetsInv, NEW c \in Consumers, Close(c)
    PROVE  OffsetsInv'
<1>1. /\ pc[c] = "closing" /\ Goto(c, "shutdown") /\ c \in Threads
      /\ position' = [position EXCEPT ![c] = NoOffsets]
      /\ UNCHANGED <<committed, batch, handled>>
  BY DEF Close, Threads
<1>2. NoOffsets \in Offsets /\ DOMAIN NoOffsets = {}
  <2>1. NoOffsets \in [{} -> 0 .. Records] /\ {} \in SUBSET Partitions
    BY DEF NoOffsets
  <2> QED BY <2>1 DEF Offsets
<1>3. OffsetTypes'
  BY <1>1, <1>2, GotoType DEF OffsetsInv, OffsetTypes, States, LoopStates
<1>4. BatchInHandling'
  BY <1>1, GotoType DEF OffsetsInv, OffsetTypes, BatchInHandling, States, LoopStates, Threads
<1>5. PolledIsKnown'
  BY <1>1, <1>2 DEF OffsetsInv, OffsetTypes, PolledIsKnown
<1>6. CommittedIsHandled'
  BY <1>1 DEF OffsetsInv, CommittedIsHandled
<1> QED BY <1>3, <1>4, <1>5, <1>6 DEF OffsetsInv

\* Members of a new generation start from what is committed.
LEMMA RebalanceKeepsOffsets ==
    ASSUME OffsetsInv, Rebalance
    PROVE  OffsetsInv'
<1> DEFINE members == {c \in Consumers : pc[c] = "polling"}
<1>1. PICK owner \in [Partitions -> members] :
        position' = [c \in Consumers |->
            IF c \in members
            THEN [p \in {q \in Partitions : owner[q] = c} |-> committed[p]]
            ELSE position[c]]
  BY DEF Rebalance
<1>2. UNCHANGED <<committed, pc, batch, handled>>
  BY DEF Rebalance
<1> HIDE DEF members
<1>3. ASSUME NEW c \in members, c \in Consumers
      PROVE  /\ position'[c] \in Offsets
             /\ \A p \in DOMAIN position'[c] : p \in Partitions /\ position'[c][p] = committed[p]
  <2>1. position'[c] = [p \in {q \in Partitions : owner[q] = c} |-> committed[p]]
    BY <1>1, <1>3
  <2>2. position'[c] \in [{q \in Partitions : owner[q] = c} -> 0 .. Records]
    BY <2>1 DEF OffsetsInv, OffsetTypes
  <2>3. {q \in Partitions : owner[q] = c} \in SUBSET Partitions
    OBVIOUS
  <2>4. position'[c] \in Offsets
    BY <2>2, <2>3 DEF Offsets
  <2> QED BY <2>1, <2>4
<1>4. \A c \in Consumers : c \notin members => position'[c] = position[c]
  BY <1>1
<1>5. OffsetTypes'
  <2>1. position' \in [Consumers -> Offsets]
    BY <1>1, <1>3, <1>4 DEF OffsetsInv, OffsetTypes
  <2> QED BY <1>2, <2>1 DEF OffsetsInv, OffsetTypes
<1>6. BatchInHandling'
  BY <1>2 DEF OffsetsInv, BatchInHandling
<1>7. PolledIsKnown'
  <2> SUFFICES ASSUME NEW c \in Consumers, NEW p \in DOMAIN position'[c],
                      NEW o \in Nat, o < position'[c][p]
               PROVE  <<p, o>> \in handled' \cup batch'[c]
    BY DEF PolledIsKnown
  <2>1. CASE c \in members
    BY <1>2, <1>3, <2>1 DEF OffsetsInv, CommittedIsHandled
  <2>2. CASE c \notin members
    BY <1>2, <1>4, <2>2 DEF OffsetsInv, PolledIsKnown
  <2> QED BY <2>1, <2>2
<1>8. CommittedIsHandled'
  BY <1>2 DEF OffsetsInv, CommittedIsHandled
<1> QED BY <1>5, <1>6, <1>7, <1>8 DEF OffsetsInv

\* A commit that may have been served, or not.
LEMMA MayCommitKeepsOffsets ==
    ASSUME OffsetsInv, NEW c \in Consumers, NEW l \in States,
           pc[c] = "committing", Goto(c, l),
           Committed(c) \/ UNCHANGED committed,
           UNCHANGED <<position, batch, handled>>
    PROVE  OffsetsInv'
<1>1. c \in Threads
  BY DEF Threads
<1>2. CASE UNCHANGED committed
  BY <1>1, <1>2, GotoKeepsOffsets
<1>3. CASE Committed(c)
  <2>1. OffsetTypes'
    BY <1>1, <1>3, GotoType, CommittedType DEF OffsetsInv, OffsetTypes
  <2>2. \A d \in Consumers : pc'[d] # "handling" => pc[d] # "handling" \/ batch[d] = {}
    BY <1>1, GotoType DEF OffsetsInv, OffsetTypes, Threads
  <2> QED BY <1>3, <2>1, <2>2, CommittedKeepsOffsets
<1> QED BY <1>2, <1>3

\* The steps of a loop.
LEMMA LoopStepKeepsOffsets ==
    ASSUME OffsetsInv, NEW c \in Consumers, LoopStep(c)
    PROVE  OffsetsInv'
<1>0. c \in Threads /\ LoopStates \subseteq States /\ "lost" \in States
      /\ "ended" \in States /\ "creating" \in States
  BY DEF Threads, States, LoopStates, EndStates, AddStates
<1>1. CASE LoopTest(c)
  <2>1. PICK l \in {"polling", "closing"} : Goto(c, l)
    BY <1>1 DEF LoopTest
  <2> QED BY <1>0, <1>1, <2>1, GotoKeepsOffsets
          DEF LoopTest, brokerVars, clientVars, LoopStates
<1>2. CASE PollEmpty(c)
  BY <1>0, <1>2, GotoKeepsOffsets DEF PollEmpty, brokerVars, clientVars, LoopStates
<1>3. CASE PollRecords(c)
  BY <1>3, PollKeepsOffsets
<1>4. CASE PollWakesUp(c)
  BY <1>0, <1>4, GotoKeepsOffsets DEF PollWakesUp, brokerVars, LoopStates
<1>5. CASE PollFails(c)
  BY <1>0, <1>5, GotoKeepsOffsets DEF PollFails, brokerVars, clientVars, LoopStates
<1>6. CASE \E r \in batch[c] : Handle(c, r)
  BY <1>6, HandleKeepsOffsets
<1>7. CASE Commit(c)
  BY <1>0, <1>7, MayCommitKeepsOffsets DEF Commit, clientVars, LoopStates
<1>8. CASE CommitNothing(c)
  BY <1>0, <1>8, GotoKeepsOffsets DEF CommitNothing, brokerVars, clientVars, LoopStates
<1>9. CASE CommitSyncThrows(c)
  BY <1>0, <1>9, MayCommitKeepsOffsets DEF CommitSyncThrows
<1>10. CASE CommitAsyncFails(c)
  BY <1>0, <1>10, GotoKeepsOffsets DEF CommitAsyncFails, brokerVars, clientVars, LoopStates
<1>11. CASE Close(c)
  BY <1>11, CloseKeepsOffsets
<1>12. CASE HandleShutdown(c)
  <2>1. PICK l \in {"ended", "creating"} : Goto(c, l)
    BY <1>12 DEF HandleShutdown
  <2> QED BY <1>0, <1>12, <2>1, GotoKeepsOffsets DEF HandleShutdown, brokerVars, clientVars
<1> QED BY <1>1, <1>2, <1>3, <1>4, <1>5, <1>6, <1>7, <1>8, <1>9, <1>10, <1>11, <1>12
        DEF LoopStep

\* The steps of addConsumer, in either thread.
LEMMA AddKeepsOffsets ==
    ASSUME OffsetsInv, NEW t \in Threads, Add(t)
    PROVE  OffsetsInv'
<1>0. {"failed", "lost", "creating", "running", "ended"} \subseteq States
  BY DEF States, EndStates, AddStates
<1>1. CASE CreateConsumer(t)
  <2>1. PICK c \in Consumers : pc[c] = "unused"
                               /\ pc' = [pc EXCEPT ![t] = "adding", ![c] = "looping"]
    BY <1>1 DEF CreateConsumer
  <2>2. pc[t] = "creating" /\ UNCHANGED <<committed, position, batch, handled>>
    BY <1>1 DEF CreateConsumer, brokerVars, clientVars
  <2>3. OffsetTypes'
    BY <2>1, <2>2 DEF OffsetsInv, OffsetTypes, States, AddStates, LoopStates
  <2>4. \A d \in Consumers : pc'[d] # "handling" => pc[d] # "handling" \/ batch[d] = {}
    BY <2>1, <2>2 DEF OffsetsInv, OffsetTypes, BatchInHandling, Threads
  <2> QED BY <2>2, <2>3, <2>4, QuietKeepsOffsets
<1>2. CASE CreateFails(t)
  <2>1. PICK l \in {"failed", "lost"} : Goto(t, l)
    BY <1>2 DEF CreateFails
  <2> QED BY <1>0, <1>2, <2>1, GotoKeepsOffsets DEF CreateFails, brokerVars, clientVars
<1>3. CASE AddConsumer(t)
  <2>1. PICK l \in {"creating", "running", "ended"} : Goto(t, l)
    BY <1>3 DEF AddConsumer
  <2> QED BY <1>0, <1>3, <2>1, GotoKeepsOffsets DEF AddConsumer, brokerVars, clientVars
<1> QED BY <1>1, <1>2, <1>3 DEF Add

\* The steps of stop and of the coordinator that move nothing but flags and members.
LEMMA OtherStepsKeepOffsets ==
    ASSUME OffsetsInv, StopBegins \/ Stop \/ \E c \in Consumers : Evict(c)
    PROVE  OffsetsInv'
<1>0. Main \in Threads /\ {"stopping", "ended"} \subseteq States
  BY DEF Threads, States, EndStates
<1>1. CASE StopBegins
  BY <1>0, <1>1, GotoKeepsOffsets DEF StopBegins, brokerVars, clientVars
<1>2. CASE StopNext
  BY <1>2, QuietKeepsOffsets DEF StopNext, brokerVars, OffsetsInv, OffsetTypes
<1>3. CASE StopThrows
  BY <1>0, <1>3, GotoKeepsOffsets DEF StopThrows, brokerVars, clientVars
<1>4. CASE StopEnds
  BY <1>0, <1>4, GotoKeepsOffsets DEF StopEnds, brokerVars, clientVars
<1>5. CASE \E c \in Consumers : Evict(c)
  BY <1>5, QuietKeepsOffsets DEF Evict, clientVars, OffsetsInv, OffsetTypes
<1> QED BY <1>1, <1>2, <1>3, <1>4, <1>5 DEF Stop

-------------------------------------------------------------------------------
\* In the beginning nothing is committed and nobody has polled.
LEMMA OffsetsInit == Init => OffsetsInv
<1> SUFFICES ASSUME Init PROVE OffsetsInv
  OBVIOUS
<1>1. NoOffsets \in Offsets /\ DOMAIN NoOffsets = {}
  <2>1. NoOffsets \in [{} -> 0 .. Records] /\ {} \in SUBSET Partitions
    BY DEF NoOffsets
  <2> QED BY <2>1 DEF Offsets
<1>2. 0 \in 0 .. Records
  BY ConstantsAssumption DEF ConstantsAssumption
<1>3. OffsetTypes
  BY <1>1, <1>2 DEF Init, OffsetTypes, States, AddStates
<1>4. BatchInHandling /\ PolledIsKnown /\ CommittedIsHandled
  BY <1>1 DEF Init, BatchInHandling, PolledIsKnown, CommittedIsHandled
<1> QED BY <1>3, <1>4 DEF OffsetsInv

\* Every step keeps the invariant.
LEMMA OffsetsNext == OffsetsInv /\ [Next]_vars => OffsetsInv'
<1> SUFFICES ASSUME OffsetsInv, [Next]_vars PROVE OffsetsInv'
  OBVIOUS
<1>1. CASE \E c \in Consumers : LoopStep(c)
  BY <1>1, LoopStepKeepsOffsets
<1>2. CASE \E t \in Threads : Add(t)
  BY <1>2, AddKeepsOffsets
<1>3. CASE StopBegins \/ Stop \/ \E c \in Consumers : Evict(c)
  BY <1>3, OtherStepsKeepOffsets
<1>4. CASE Rebalance
  BY <1>4, RebalanceKeepsOffsets
<1>5. CASE UNCHANGED vars
  BY <1>5, QuietKeepsOffsets
     DEF vars, brokerVars, clientVars, OffsetsInv, OffsetTypes
<1> QED BY <1>1, <1>2, <1>3, <1>4, <1>5 DEF Next

\* What consumers have polled and not handled is in their batches.
THEOREM OffsetsInvariant == Spec => []OffsetsInv
  BY OffsetsInit, OffsetsNext, PTL DEF Spec

\* The group never commits past a record that the handler was not given, for every
\* number of partitions, records, consumers and faults, and both ways to commit.
THEOREM CommitsOnlyHandled == Spec => []CommittedWereHandled
<1>1. OffsetsInv => CommittedWereHandled
  <2> SUFFICES ASSUME OffsetsInv, NEW p \in Partitions, NEW o \in 0 .. committed[p] - 1
               PROVE  <<p, o>> \in handled
    BY DEF CommittedWereHandled
  <2>1. committed[p] \in 0 .. Records
    BY DEF OffsetsInv, OffsetTypes
  <2>2. o \in Nat /\ o < committed[p]
    BY <2>1, ConstantsAssumption DEF ConstantsAssumption
  <2> QED BY <2>2 DEF OffsetsInv, CommittedIsHandled
<1> QED BY <1>1, OffsetsInvariant, PTL

-------------------------------------------------------------------------------
\* That the handler is given no record twice, as long as nothing fails.

NoFault == faults = 0 /\ \A c \in Consumers : pc[c] # "lost"

Busy == {"handling", "committing"}

\* A partition belongs to one consumer, a member of the group.
OneOwner ==
    /\ \A c \in Consumers \ group : DOMAIN position[c] = {}
    /\ \A c, d \in Consumers : c # d => DOMAIN position[c] \cap DOMAIN position[d] = {}

\* A consumer is where the group is, except between poll and commit.
PositionsCommitted ==
    \A c \in Consumers : \A p \in DOMAIN position[c] :
        /\ committed[p] <= position[c][p]
        /\ pc[c] \notin Busy => position[c][p] = committed[p]

\* What was handled is committed, or an owner has it behind it; what is in a batch is
\* neither.
HandledIsPassed ==
    \A p \in Partitions : \A o \in Nat : <<p, o>> \in handled =>
        \/ o < committed[p]
        \/ \E c \in Consumers : /\ p \in DOMAIN position[c]
                                /\ o < position[c][p]
                                /\ <<p, o>> \notin batch[c]

BatchIsAhead ==
    \A c \in Consumers : \A p \in Partitions : \A o \in Nat : <<p, o>> \in batch[c] =>
        p \in DOMAIN position[c] /\ committed[p] <= o /\ o < position[c][p]

OnceInv == OneOwner /\ PositionsCommitted /\ HandledIsPassed /\ BatchIsAhead

FaultType == faults \in Nat /\ group \subseteq Consumers /\ handled \subseteq Record

RepeatInv == OffsetsInv /\ FaultType /\ (NoFault => OnceInv)

\* A step that leaves the offsets alone, and ends no handling and no commit.
LEMMA QuietKeepsOnce ==
    ASSUME OnceInv, UNCHANGED <<committed, group, position, batch, handled>>,
           \A c \in Consumers : pc[c] \in Busy => pc'[c] \in Busy
    PROVE  OnceInv'
  BY DEF OnceInv, OneOwner, PositionsCommitted, HandledIsPassed, BatchIsAhead

LEMMA PollKeepsOnce ==
    ASSUME OffsetsInv, OnceInv, NEW c \in Consumers, PollRecords(c)
    PROVE  OnceInv'
<1> USE DEF OffsetsInv, OffsetTypes
<1>1. PICK next \in [DOMAIN position[c] -> 0 .. Records] :
        /\ \A p \in DOMAIN next : position[c][p] <= next[p]
        /\ position' = [position EXCEPT ![c] = next]
        /\ batch' = [batch EXCEPT ![c] = {r \in Record : /\ r[1] \in DOMAIN next
                                                         /\ position[c][r[1]] <= r[2]
                                                         /\ r[2] < next[r[1]]}]
  BY DEF PollRecords
<1>2. /\ pc[c] = "polling" /\ pc' = [pc EXCEPT ![c] = "handling"]
      /\ UNCHANGED <<committed, group, handled>>
  BY DEF PollRecords, Goto, brokerVars
<1>3. /\ position'[c] = next /\ DOMAIN next = DOMAIN position[c]
      /\ \A d \in Consumers \ {c} : position'[d] = position[d] /\ batch'[d] = batch[d]
                                     /\ pc'[d] = pc[d]
      /\ pc'[c] = "handling"
  BY <1>1, <1>2 DEF Threads
<1>4. \A p \in Partitions, o \in Nat : <<p, o>> \in batch'[c] =>
         p \in DOMAIN next /\ position[c][p] <= o /\ o < next[p]
  BY <1>1
<1>5. \A p \in DOMAIN position[c] :
         /\ position[c][p] = committed[p] /\ position[c][p] <= next[p]
         /\ position[c][p] \in Int /\ next[p] \in Int
  <2>1. position[c] \in [DOMAIN position[c] -> 0 .. Records]
    BY PositionType
  <2> QED BY <1>1, <1>2, <2>1 DEF OnceInv, PositionsCommitted, Busy
<1>6. OneOwner'
  BY <1>2, <1>3 DEF OnceInv, OneOwner
<1>7. PositionsCommitted'
  BY <1>2, <1>3, <1>5 DEF OnceInv, PositionsCommitted, Busy
<1>8. HandledIsPassed'
  <2> SUFFICES ASSUME NEW p \in Partitions, NEW o \in Nat, <<p, o>> \in handled,
                      ~(o < committed[p])
               PROVE  \E d \in Consumers : /\ p \in DOMAIN position'[d]
                                           /\ o < position'[d][p]
                                           /\ <<p, o>> \notin batch'[d]
    BY <1>2 DEF HandledIsPassed
  <2>1. PICK d \in Consumers : /\ p \in DOMAIN position[d] /\ o < position[d][p]
                               /\ <<p, o>> \notin batch[d]
    BY DEF OnceInv, HandledIsPassed
  <2>2. d # c
    BY <2>1, <1>5
  <2> QED BY <2>1, <2>2, <1>3
<1>9. BatchIsAhead'
  BY <1>2, <1>3, <1>4, <1>5 DEF OnceInv, BatchIsAhead
<1> QED BY <1>6, <1>7, <1>8, <1>9 DEF OnceInv

LEMMA HandleKeepsOnce ==
    ASSUME OffsetsInv, OnceInv, NEW c \in Consumers, NEW r \in batch[c], Handle(c, r)
    PROVE  OnceInv'
<1> USE DEF OffsetsInv, OffsetTypes
<1>1. /\ batch' = [batch EXCEPT ![c] = @ \ {r}]
      /\ handled' = handled \cup {r}
      /\ pc'[c] \in Busy /\ \A d \in Consumers \ {c} : pc'[d] = pc[d]
      /\ UNCHANGED <<committed, group, position>>
  BY DEF Handle, Goto, brokerVars, Busy, Threads
<1>2. OneOwner' /\ PositionsCommitted' /\ BatchIsAhead'
  BY <1>1 DEF OnceInv, OneOwner, PositionsCommitted, BatchIsAhead
<1>3. HandledIsPassed'
  <2> SUFFICES ASSUME NEW p \in Partitions, NEW o \in Nat, <<p, o>> \in handled',
                      ~(o < committed[p])
               PROVE  \E d \in Consumers : /\ p \in DOMAIN position[d]
                                           /\ o < position[d][p]
                                           /\ <<p, o>> \notin batch'[d]
    BY <1>1 DEF HandledIsPassed
  <2>1. CASE <<p, o>> = r
    <3>1. <<p, o>> \in batch[c] /\ <<p, o>> \notin batch'[c]
      BY <1>1, <2>1
    <3> QED BY <3>1 DEF OnceInv, BatchIsAhead
  <2>2. CASE <<p, o>> # r
    BY <1>1, <2>2 DEF OnceInv, HandledIsPassed
  <2> QED BY <2>1, <2>2
<1> QED BY <1>2, <1>3 DEF OnceInv

LEMMA CommitKeepsOnce ==
    ASSUME OffsetsInv, OnceInv, NEW c \in Consumers, Commit(c)
    PROVE  OnceInv'
<1> USE DEF OffsetsInv, OffsetTypes
<1>1. /\ pc[c] = "committing" /\ pc'[c] = "looping"
      /\ \A d \in Consumers \ {c} : pc'[d] = pc[d]
      /\ UNCHANGED <<group, position, batch, handled>>
      /\ \A p \in Partitions :
            committed'[p] = IF p \in DOMAIN position[c] THEN position[c][p] ELSE committed[p]
  BY DEF Commit, Committed, Goto, clientVars, Threads
<1>2. \A d \in Consumers : DOMAIN position[d] \subseteq Partitions
  BY PositionType
<1>3. \A d \in Consumers \ {c} : \A p \in DOMAIN position[d] : committed'[p] = committed[p]
  BY <1>1, <1>2 DEF OnceInv, OneOwner
<1>4. \A p \in DOMAIN position[c] : committed'[p] = position[c][p] /\ position[c][p] \in Int
  <2>1. position[c] \in [DOMAIN position[c] -> 0 .. Records]
    BY PositionType
  <2> QED BY <1>1, <1>2, <2>1
<1>5. batch[c] = {}
  BY <1>1 DEF BatchInHandling
<1>6. OneOwner'
  BY <1>1 DEF OnceInv, OneOwner
<1>7. PositionsCommitted'
  BY <1>1, <1>3, <1>4 DEF OnceInv, PositionsCommitted
<1>8. HandledIsPassed'
  <2> SUFFICES ASSUME NEW p \in Partitions, NEW o \in Nat, <<p, o>> \in handled,
                      ~(o < committed'[p])
               PROVE  \E d \in Consumers : /\ p \in DOMAIN position[d]
                                           /\ o < position[d][p]
                                           /\ <<p, o>> \notin batch[d]
    BY <1>1 DEF HandledIsPassed
  <2>1. committed[p] \in Int /\ committed'[p] \in Int /\ committed[p] <= committed'[p]
    BY <1>1, <1>4 DEF OnceInv, PositionsCommitted
  <2> QED BY <2>1 DEF OnceInv, HandledIsPassed
<1>9. BatchIsAhead'
  BY <1>1, <1>3, <1>5 DEF OnceInv, BatchIsAhead
<1> QED BY <1>6, <1>7, <1>8, <1>9 DEF OnceInv

LEMMA CloseKeepsOnce ==
    ASSUME OffsetsInv, OnceInv, NEW c \in Consumers, Close(c)
    PROVE  OnceInv'
<1> USE DEF OffsetsInv, OffsetTypes
<1>1. /\ pc[c] = "closing" /\ pc'[c] = "shutdown"
      /\ \A d \in Consumers \ {c} : pc'[d] = pc[d] /\ position'[d] = position[d]
      /\ group' = group \ {c}
      /\ DOMAIN position'[c] = {}
      /\ UNCHANGED <<committed, batch, handled>>
  BY DEF Close, Goto, Threads, NoOffsets
<1>2. batch[c] = {}
  BY <1>1 DEF BatchInHandling
<1>3. OneOwner'
  BY <1>1 DEF OnceInv, OneOwner
<1>4. PositionsCommitted'
  BY <1>1 DEF OnceInv, PositionsCommitted
<1>5. \A p \in DOMAIN position[c] : position[c][p] = committed[p]
  BY <1>1 DEF OnceInv, PositionsCommitted, Busy
<1>6. HandledIsPassed'
  <2> SUFFICES ASSUME NEW p \in Partitions, NEW o \in Nat, <<p, o>> \in handled,
                      ~(o < committed[p])
               PROVE  \E d \in Consumers : /\ p \in DOMAIN position'[d]
                                           /\ o < position'[d][p]
                                           /\ <<p, o>> \notin batch[d]
    BY <1>1 DEF HandledIsPassed
  <2>1. PICK d \in Consumers : /\ p \in DOMAIN position[d] /\ o < position[d][p]
                               /\ <<p, o>> \notin batch[d]
    BY DEF OnceInv, HandledIsPassed
  <2>2. d # c
    BY <2>1, <1>5
  <2> QED BY <2>1, <2>2, <1>1
<1>7. BatchIsAhead'
  BY <1>1, <1>2 DEF OnceInv, BatchIsAhead
<1> QED BY <1>3, <1>4, <1>6, <1>7 DEF OnceInv

LEMMA RebalanceKeepsOnce ==
    ASSUME OffsetsInv, OnceInv, Rebalance
    PROVE  OnceInv'
<1> USE DEF OffsetsInv, OffsetTypes
<1> DEFINE members == {c \in Consumers : pc[c] = "polling"}
<1>1. PICK owner \in [Partitions -> members] :
        position' = [c \in Consumers |->
                        IF c \in members
                        THEN [p \in {q \in Partitions : owner[q] = c} |-> committed[p]]
                        ELSE position[c]]
  BY DEF Rebalance
<1>2. group \subseteq members /\ group' = members /\ UNCHANGED <<committed, pc, batch, handled>>
  BY DEF Rebalance
<1>3. \A c \in members : /\ DOMAIN position'[c] = {q \in Partitions : owner[q] = c}
                         /\ \A p \in DOMAIN position'[c] : position'[c][p] = committed[p]
  BY <1>1
<1>4. \A c \in Consumers \ members : DOMAIN position[c] = {} /\ DOMAIN position'[c] = {}
  BY <1>1, <1>2 DEF OnceInv, OneOwner
<1>5. \A c \in Consumers : batch[c] = {}
  <2> TAKE c \in Consumers
  <2>1. CASE c \in members
    BY <2>1 DEF BatchInHandling
  <2>2. CASE c \notin members
    <3>1. \A p \in Partitions, o \in Nat : <<p, o>> \notin batch[c]
      BY <1>4, <2>2 DEF OnceInv, BatchIsAhead
    <3> QED BY <3>1, ConstantsAssumption DEF Record, ConstantsAssumption
  <2> QED BY <2>1, <2>2
<1> HIDE DEF members
<1>6. OneOwner'
  BY <1>2, <1>3, <1>4 DEF OnceInv, OneOwner
<1>7. PositionsCommitted'
  <2> SUFFICES ASSUME NEW c \in Consumers, NEW p \in DOMAIN position'[c]
               PROVE  position'[c][p] = committed[p] /\ committed[p] \in Int
    BY <1>2 DEF PositionsCommitted
  <2> QED BY <1>3, <1>4
<1>8. HandledIsPassed'
  <2> SUFFICES ASSUME NEW p \in Partitions, NEW o \in Nat, <<p, o>> \in handled
               PROVE  o < committed[p]
    BY <1>2 DEF HandledIsPassed
  <2>1. ASSUME NEW c \in Consumers, p \in DOMAIN position[c]
        PROVE  position[c][p] = committed[p]
    <3>1. pc[c] = "polling"
      BY <1>4, <2>1 DEF members
    <3> QED BY <2>1, <3>1 DEF OnceInv, PositionsCommitted, Busy
  <2> QED BY <2>1 DEF OnceInv, HandledIsPassed
<1>9. BatchIsAhead'
  BY <1>2, <1>5 DEF BatchIsAhead
<1> QED BY <1>6, <1>7, <1>8, <1>9 DEF OnceInv

\* What a loop does besides, when it does not fail, leaves the offsets alone.
LEMMA LoopStepKeepsOnce ==
    ASSUME OffsetsInv, FaultType, OnceInv, NoFault', NEW c \in Consumers, LoopStep(c)
    PROVE  OnceInv'
<1> USE DEF OffsetsInv, OffsetTypes, Busy, Goto, Threads
<1>1. CASE LoopTest(c) \/ PollEmpty(c) \/ PollWakesUp(c) \/ HandleShutdown(c)
  BY <1>1, QuietKeepsOnce
     DEF LoopTest, PollEmpty, PollWakesUp, HandleShutdown, brokerVars, clientVars
<1>2. CASE PollRecords(c)
  BY <1>2, PollKeepsOnce
<1>3. CASE \E r \in batch[c] : Handle(c, r)
  BY <1>3, HandleKeepsOnce
<1>4. CASE Commit(c)
  BY <1>4, CommitKeepsOnce
<1>5. CASE Close(c)
  BY <1>5, CloseKeepsOnce
<1>6. CASE PollFails(c) \/ CommitSyncThrows(c)
  BY <1>6 DEF PollFails, CommitSyncThrows, Fault, NoFault, FaultType
<1>7. CASE CommitNothing(c) \/ CommitAsyncFails(c)
  <2>1. DOMAIN position[c] = {}
    BY <1>7 DEF CommitNothing, CommitAsyncFails, Fault, NoFault, FaultType, OnceInv, OneOwner
  <2>2. /\ UNCHANGED <<committed, group, position, batch, handled>>
        /\ \A d \in Consumers \ {c} : pc'[d] = pc[d]
    BY <1>7 DEF CommitNothing, CommitAsyncFails, brokerVars, clientVars
  <2> QED
    BY <2>1, <2>2 DEF OnceInv, OneOwner, PositionsCommitted, HandledIsPassed, BatchIsAhead
<1> QED
  BY <1>1, <1>2, <1>3, <1>4, <1>5, <1>6, <1>7 DEF LoopStep

LEMMA OnceNext ==
    ASSUME OffsetsInv, FaultType, OnceInv, NoFault', [Next]_vars
    PROVE  OnceInv'
<1> USE DEF OffsetsInv, OffsetTypes, Busy, Goto, Threads
<1>1. CASE \E c \in Consumers : LoopStep(c)
  BY <1>1, LoopStepKeepsOnce
<1>2. CASE \E c \in Consumers : Evict(c)
  <2>1. PICK c \in Consumers : Evict(c)
    BY <1>2
  <2> QED BY <2>1 DEF Evict, Fault, NoFault, FaultType
<1>3. ASSUME NEW t \in Threads, Add(t) PROVE OnceInv'
  <2>1. CASE CreateConsumer(t)
    <3>1. UNCHANGED <<committed, group, position, batch, handled>>
      BY <2>1 DEF CreateConsumer, brokerVars, clientVars
    <3>2. PICK c \in Consumers : pc[c] = "unused" /\ pc' = [pc EXCEPT ![t] = "adding", ![c] = "looping"]
      BY <2>1 DEF CreateConsumer
    <3>3. pc[t] = "creating"
      BY <2>1 DEF CreateConsumer
    <3> QED BY <3>1, <3>2, <3>3, QuietKeepsOnce
  <2>2. CASE CreateFails(t)
    BY <2>2 DEF CreateFails, Fault, NoFault, FaultType
  <2>3. CASE AddConsumer(t)
    <3>1. UNCHANGED <<committed, group, position, batch, handled>>
      BY <2>3 DEF AddConsumer, brokerVars, clientVars
    <3>2. pc[t] = "adding" /\ \A o \in Threads \ {t} : pc'[o] = pc[o]
      BY <2>3 DEF AddConsumer
    <3> QED BY <3>1, <3>2, QuietKeepsOnce
  <2> QED BY <1>3, <2>1, <2>2, <2>3 DEF Add
<1>4. CASE StopBegins \/ Stop
  BY <1>4, QuietKeepsOnce, ThreadsAssumption
     DEF StopBegins, Stop, StopNext, StopThrows, StopEnds, brokerVars, clientVars,
         ThreadsAssumption
<1>5. CASE Rebalance
  BY <1>5, RebalanceKeepsOnce
<1>6. CASE UNCHANGED vars
  BY <1>6, QuietKeepsOnce DEF vars, brokerVars, clientVars
<1> QED BY <1>1, <1>2, <1>3, <1>4, <1>5, <1>6 DEF Next

\* Faults stay, and so do loops that were lost.
LEMMA FaultsStay ==
    ASSUME OffsetsInv, FaultType, [Next]_vars
    PROVE  FaultType' /\ (NoFault' => NoFault)
<1> USE DEF OffsetsInv, OffsetTypes, Goto, Threads, FaultType
<1>1. CASE \E c \in Consumers : LoopStep(c)
  <2>1. PICK c \in Consumers : LoopStep(c)
    BY <1>1
  <2>2. faults' = faults \/ faults' = faults + 1
    BY <2>1 DEF LoopStep, LoopTest, PollEmpty, PollRecords, PollWakesUp, PollFails, Handle,
                Commit, CommitNothing, CommitSyncThrows, CommitAsyncFails, Close,
                HandleShutdown, Fault
  <2>3. group' \subseteq Consumers /\ handled' \subseteq Record
    BY <2>1 DEF LoopStep, LoopTest, PollEmpty, PollRecords, PollWakesUp, PollFails, Handle,
                Commit, CommitNothing, CommitSyncThrows, CommitAsyncFails, Close,
                HandleShutdown, brokerVars
  <2>4. pc[c] # "lost" /\ \A d \in Consumers \ {c} : pc'[d] = pc[d]
    BY <2>1 DEF LoopStep, LoopTest, PollEmpty, PollRecords, PollWakesUp, PollFails, Handle,
                Commit, CommitNothing, CommitSyncThrows, CommitAsyncFails, Close,
                HandleShutdown
  <2> QED BY <2>2, <2>3, <2>4 DEF NoFault
<1>2. CASE \E c \in Consumers : Evict(c)
  BY <1>2 DEF Evict, Fault, NoFault
<1>3. ASSUME NEW t \in Threads, Add(t) PROVE FaultType' /\ (NoFault' => NoFault)
  <2>1. (faults' = faults \/ faults' = faults + 1) /\ UNCHANGED <<group, handled>>
    BY <1>3 DEF Add, CreateConsumer, CreateFails, AddConsumer, Fault, brokerVars
  <2>2. \A d \in Consumers : pc[d] = "lost" => pc'[d] = "lost"
    BY <1>3 DEF Add, CreateConsumer, CreateFails, AddConsumer
  <2> QED BY <2>1, <2>2 DEF NoFault
<1>4. CASE StopBegins \/ Stop
  BY <1>4, ThreadsAssumption
     DEF StopBegins, Stop, StopNext, StopThrows, StopEnds, brokerVars, NoFault,
         ThreadsAssumption
<1>5. CASE Rebalance
  BY <1>5 DEF Rebalance, NoFault
<1>6. CASE UNCHANGED vars
  BY <1>6 DEF vars, brokerVars, NoFault
<1> QED BY <1>1, <1>2, <1>3, <1>4, <1>5, <1>6 DEF Next

LEMMA RepeatNext == RepeatInv /\ [Next]_vars => RepeatInv'
  BY OffsetsNext, FaultsStay, OnceNext DEF RepeatInv

LEMMA RepeatInit == Init => RepeatInv
<1> SUFFICES ASSUME Init PROVE RepeatInv
  OBVIOUS
<1>1. FaultType
  BY DEF Init, FaultType
<1>2. \A c \in Consumers : position[c] = NoOffsets /\ DOMAIN position[c] = {} /\ batch[c] = {}
  BY DEF Init, NoOffsets
<1>3. OnceInv
  BY <1>2 DEF Init, OnceInv, OneOwner, PositionsCommitted, HandledIsPassed, BatchIsAhead
<1> QED BY <1>1, <1>3, OffsetsInit DEF RepeatInv

\* A handler gets a record for the second time only after a fault, or after a loop was
\* lost: moving partitions between consumers, stopping and replacing them repeat nothing.
THEOREM RepeatsNeedFaults == Spec => NoRepeatWithoutFault
<1>1. RepeatInv /\ [Next]_vars =>
        [\A c \in Consumers, r \in handled :
            Handle(c, r) => faults > 0 \/ \E d \in Consumers : pc[d] = "lost"]_vars
  <2> SUFFICES ASSUME RepeatInv, NEW c \in Consumers, NEW r \in handled, Handle(c, r),
                      ~(faults > 0 \/ \E d \in Consumers : pc[d] = "lost")
               PROVE  FALSE
    OBVIOUS
  <2>1. OnceInv
    BY DEF RepeatInv, FaultType, NoFault
  <2>2. PICK p \in Partitions, o \in Nat : r = <<p, o>>
    BY ConstantsAssumption DEF RepeatInv, FaultType, Record, ConstantsAssumption
  <2>3. /\ <<p, o>> \in batch[c] /\ p \in DOMAIN position[c]
        /\ committed[p] <= o /\ o < position[c][p]
    BY <2>1, <2>2 DEF Handle, OnceInv, BatchIsAhead
  <2>4. committed[p] \in Int
    BY DEF RepeatInv, OffsetsInv, OffsetTypes
  <2>5. PICK d \in Consumers : p \in DOMAIN position[d] /\ <<p, o>> \notin batch[d]
    BY <2>1, <2>2, <2>3, <2>4 DEF OnceInv, HandledIsPassed
  <2>6. d = c
    BY <2>1, <2>3, <2>5 DEF OnceInv, OneOwner
  <2> QED BY <2>3, <2>5, <2>6
<1> QED BY <1>1, RepeatInit, RepeatNext, PTL DEF Spec, NoRepeatWithoutFault

-------------------------------------------------------------------------------
\* That every place of the container has one loop.

Living == LoopStates \cup {"creating", "lost"}

Alive == {c \in Consumers : pc[c] \in Living}

\* start has filled as many places as it has gone round its loop, and a replacement comes
\* to life as the thread that makes it leaves.
PlacesInv ==
    /\ pc \in [Threads -> States]
    /\ cursor \in Nat
    /\ stopped => pc[Main] \in {"stopping", "ended"}
    /\ pc[Main] \in {"creating", "adding", "running", "failed", "stopping", "ended"}
    /\ pc[Main] \in {"creating", "adding"} => cursor < MaxConsumers
    /\ pc[Main] = "creating" => Cardinality(Alive) = cursor
    /\ pc[Main] = "adding" => Cardinality(Alive) = cursor + 1
    /\ pc[Main] = "running" => Cardinality(Alive) = MaxConsumers

LEMMA AliveFinite == IsFiniteSet(Alive)
<1>1. IsFiniteSet(Consumers)
  BY FS_Interval, ConstantsAssumption DEF Consumers, ConstantsAssumption
<1>2. Alive \in SUBSET Consumers
  BY DEF Alive
<1> QED BY <1>1, <1>2, FS_Subset

\* A loop leaves its place only to handleShutdown's replacement or when stopped.
LEMMA LoopStepKeepsPlaces ==
    ASSUME PlacesInv, NEW c \in Consumers, LoopStep(c)
    PROVE  PlacesInv'
<1> USE ThreadsAssumption DEF PlacesInv, Goto, Threads, ThreadsAssumption
<1>1. /\ pc[c] \in LoopStates
      /\ \E l \in States : pc' = [pc EXCEPT ![c] = l] /\ (l \in Living \/ stopped)
      /\ UNCHANGED <<stopped, cursor>>
  BY DEF LoopStep, LoopTest, PollEmpty, PollRecords, PollWakesUp, PollFails, Handle,
         Commit, CommitNothing, CommitSyncThrows, CommitAsyncFails, Close, HandleShutdown,
         containerVars, States, LoopStates, EndStates, AddStates, Living
<1>2. PICK l \in States : pc' = [pc EXCEPT ![c] = l] /\ (l \in Living \/ stopped)
  BY <1>1
<1>3. pc' \in [Threads -> States] /\ pc'[Main] = pc[Main]
  BY <1>2
<1>4. CASE l \in Living
  <2>1. Alive' = Alive
    BY <1>1, <1>2, <1>4 DEF Alive, Living
  <2> QED BY <1>1, <1>3, <2>1
<1>5. CASE stopped
  BY <1>1, <1>3, <1>5
<1> QED BY <1>2, <1>4, <1>5

LEMMA AddKeepsPlaces ==
    ASSUME PlacesInv, NEW t \in Threads, Add(t)
    PROVE  PlacesInv'
<1> USE ThreadsAssumption, ConstantsAssumption
    DEF PlacesInv, Goto, Threads, ThreadsAssumption, ConstantsAssumption
<1>0. Cardinality(Alive) \in Nat
  BY AliveFinite, FS_CardinalityType
<1>1. CASE CreateConsumer(t)
  <2>1. PICK c \in Consumers : /\ pc[c] = "unused"
                               /\ pc' = [pc EXCEPT ![t] = "adding", ![c] = "looping"]
    BY <1>1 DEF CreateConsumer
  <2>2. pc[t] = "creating" /\ c # t /\ UNCHANGED <<stopped, cursor>>
    BY <1>1, <2>1 DEF CreateConsumer
  <2>3. pc' \in [Threads -> States]
    BY <2>1 DEF States, AddStates, LoopStates
  <2>4. CASE t = Main
    <3>1. Alive' = Alive \cup {c} /\ c \notin Alive
      BY <2>1, <2>4 DEF Alive, Living, LoopStates
    <3>2. Cardinality(Alive') = Cardinality(Alive) + 1
      BY <3>1, AliveFinite, FS_AddElement
    <3> QED BY <2>1, <2>2, <2>3, <2>4, <3>2
  <2>5. CASE t \in Consumers
    <3>1. Alive' = (Alive \ {t}) \cup {c} /\ c \notin Alive /\ t \in Alive
      BY <2>1, <2>2, <2>5 DEF Alive, Living, LoopStates
    <3>2. /\ IsFiniteSet(Alive \ {t}) /\ Cardinality(Alive \ {t}) = Cardinality(Alive) - 1
      BY <3>1, AliveFinite, FS_RemoveElement
    <3>3. Cardinality(Alive') = Cardinality(Alive \ {t}) + 1
      BY <3>1, <3>2, FS_AddElement
    <3>4. Cardinality(Alive') = Cardinality(Alive)
      BY <1>0, <3>2, <3>3
    <3> QED BY <2>1, <2>2, <2>3, <2>5, <3>4
  <2> QED BY <2>4, <2>5
<1>2. CASE CreateFails(t)
  <2>1. /\ pc[t] = "creating" /\ pc' = [pc EXCEPT ![t] = IF t = Main THEN "failed" ELSE "lost"]
        /\ UNCHANGED <<stopped, cursor>>
    BY <1>2 DEF CreateFails, containerVars
  <2>2. pc' \in [Threads -> States]
    BY <2>1 DEF States, EndStates
  <2>3. t # Main => Alive' = Alive
    BY <2>1 DEF Alive, Living
  <2> QED BY <2>1, <2>2, <2>3
<1>3. CASE AddConsumer(t)
  <2>1. pc[t] = "adding" /\ UNCHANGED stopped
    BY <1>3 DEF AddConsumer
  <2>2. CASE t = Main
    <3>1. /\ cursor' = cursor + 1
          /\ pc' = [pc EXCEPT ![t] = IF cursor' < MaxConsumers THEN "creating" ELSE "running"]
      BY <1>3, <2>2 DEF AddConsumer
    <3>2. Alive' = Alive
      BY <2>2, <3>1 DEF Alive
    <3>3. pc' \in [Threads -> States]
      BY <3>1 DEF States, AddStates
    <3> QED BY <2>1, <2>2, <3>1, <3>2, <3>3
  <2>3. CASE t # Main
    <3>1. pc' = [pc EXCEPT ![t] = "ended"] /\ UNCHANGED cursor
      BY <1>3, <2>3 DEF AddConsumer
    <3>2. Alive' = Alive
      BY <2>1, <3>1 DEF Alive, Living, LoopStates
    <3>3. pc' \in [Threads -> States]
      BY <3>1 DEF States, EndStates
    <3> QED BY <2>1, <2>3, <3>1, <3>2, <3>3
  <2> QED BY <2>2, <2>3
<1> QED BY <1>1, <1>2, <1>3 DEF Add

LEMMA PlacesNext == PlacesInv /\ [Next]_vars => PlacesInv'
<1> SUFFICES ASSUME PlacesInv, [Next]_vars PROVE PlacesInv'
  OBVIOUS
<1> USE ThreadsAssumption DEF PlacesInv, Goto, Threads, ThreadsAssumption
<1>1. CASE \E c \in Consumers : LoopStep(c)
  BY <1>1, LoopStepKeepsPlaces
<1>2. CASE \E t \in Threads : Add(t)
  BY <1>2, AddKeepsPlaces
<1>3. CASE (\E c \in Consumers : Evict(c)) \/ Rebalance
  <2>1. UNCHANGED <<pc, stopped, cursor>>
    BY <1>3 DEF Evict, Rebalance, containerVars
  <2> QED BY <2>1 DEF Alive
<1>4. CASE StopBegins
  BY <1>4 DEF StopBegins, States
<1>5. CASE Stop
  BY <1>5 DEF Stop, StopNext, StopThrows, StopEnds, containerVars, States, EndStates
<1>6. CASE UNCHANGED vars
  BY <1>6 DEF vars, containerVars, Alive
<1> QED BY <1>1, <1>2, <1>3, <1>4, <1>5, <1>6 DEF Next

LEMMA PlacesInit == Init => PlacesInv
<1> SUFFICES ASSUME Init PROVE PlacesInv
  OBVIOUS
<1>1. Alive = {}
  <2>1. \A c \in Consumers : pc[c] = "unused"
    BY ThreadsAssumption DEF Init, Threads, ThreadsAssumption
  <2> QED BY <2>1 DEF Alive, Living, LoopStates
<1>2. pc \in [Threads -> States] /\ pc[Main] = "creating"
  BY DEF Init, States, AddStates, Threads
<1> QED BY <1>1, <1>2, FS_EmptySet, ConstantsAssumption DEF Init, PlacesInv, ConstantsAssumption

\* While the container runs, as many consumers poll, are about to be replaced or were lost
\* as there are places: failures and replacements neither double a place nor drop one.
THEOREM PlacesKept == Spec => []ConsumersAccounted
<1>1. PlacesInv => ConsumersAccounted
  BY DEF PlacesInv, ConsumersAccounted, Alive, Living
<1> QED BY <1>1, PlacesInit, PlacesNext, PTL DEF Spec
-------------------------------------------------------------------------------
\* Type correctness.  The first position of an element is one, and so it can be removed.
LEMMA FirstIndex ==
    ASSUME NEW I \in SUBSET Nat, I # {}
    PROVE  Min(I) \in I
<1> DEFINE R == OpToRel(<, Nat)
<1>1. \E x \in I : \A y \in I : ~(<<y, x>> \in R)
  BY WFMin, NatLessThanWellFounded
<1>2. \A x, y \in Nat : y < x => <<y, x>> \in R
  BY DEF OpToRel
<1> HIDE DEF R
<1>3. \E x \in I : \A y \in I : x <= y
  <2>1. PICK x \in I : \A y \in I : <<y, x>> \notin R
    BY <1>1
  <2>2. ASSUME NEW y \in I PROVE x <= y
    <3>1. x \in Nat /\ y \in Nat /\ ~(y < x)
      BY <1>2, <2>1
    <3> QED BY <3>1
  <2> QED BY <2>2
<1> QED BY <1>3 DEF Min

\* List.remove takes one occurrence out.
LEMMA RemoveFirstType ==
    ASSUME NEW S, NEW s \in Seq(S), NEW e
    PROVE  /\ RemoveFirst(s, e) \in Seq(S)
           /\ e \notin ToSet(s) => RemoveFirst(s, e) = s
           /\ ToSet(RemoveFirst(s, e)) \subseteq ToSet(s)
<1>1. CASE \E i \in 1 .. Len(s) : s[i] = e
  <2> DEFINE I == {i \in 1 .. Len(s) : s[i] = e}
             k == Min(I)
             a == SubSeq(s, 1, k - 1)
             b == SubSeq(s, k + 1, Len(s))
             r == a \o b
  <2>1. k \in 1 .. Len(s) /\ Len(s) \in Nat
    <3>1. Len(s) \in Nat
      OBVIOUS
    <3>2. I \subseteq 1 .. Len(s) /\ I # {}
      BY <1>1
    <3>3. I \in SUBSET Nat
      BY <3>1, <3>2
    <3> HIDE DEF I
    <3>4. k \in I
      BY <3>2, <3>3, FirstIndex
    <3> QED
      BY <3>1, <3>2, <3>4
  <2>2. RemoveFirst(s, e) = r
    BY <1>1 DEF RemoveFirst, RemoveAt, SelectInSeq
  <2> HIDE DEF k
  <2>3. /\ a \in Seq(S) /\ Len(a) = k - 1 /\ \A i \in 1 .. k - 1 : a[i] = s[i]
        /\ b \in Seq(S) /\ Len(b) = Len(s) - k /\ \A i \in 1 .. Len(s) - k : b[i] = s[k + i]
    BY <2>1
  <2> HIDE DEF a, b
  <2>4. r \in Seq(S) /\ Len(r) = Len(s) - 1
    <3>1. a \in Seq(S) /\ b \in Seq(S)
      BY <2>3
    <3>2. a \o b \in Seq(S) /\ Len(a \o b) = Len(a) + Len(b)
      BY <3>1
    <3>3. (k - 1) + (Len(s) - k) = Len(s) - 1
      BY <2>1
    <3> QED BY <2>3, <3>2, <3>3
  <2>5. ASSUME NEW i \in 1 .. Len(r) PROVE r[i] \in ToSet(s)
    <3>1. i \in 1 .. Len(a) + Len(b) /\ r[i] = IF i <= Len(a) THEN a[i] ELSE b[i - Len(a)]
      BY <2>1, <2>3, <2>4
    <3>2. CASE i <= Len(a)
      <4>1. i \in 1 .. k - 1 /\ i \in 1 .. Len(s) /\ r[i] = s[i]
        BY <2>1, <2>3, <3>1, <3>2
      <4> QED BY <4>1 DEF ToSet
    <3>3. CASE ~(i <= Len(a))
      <4>1. i - Len(a) \in 1 .. Len(s) - k /\ r[i] = s[k + (i - Len(a))]
        BY <2>1, <2>3, <3>1, <3>3
      <4>2. k + (i - Len(a)) \in 1 .. Len(s)
        BY <2>1, <2>3, <4>1
      <4> QED BY <4>1, <4>2 DEF ToSet
    <3> QED BY <3>2, <3>3
  <2>6. e \in ToSet(s)
    BY <1>1 DEF ToSet
  <2>7. ToSet(r) \subseteq ToSet(s)
    <3> HIDE DEF r, I
    <3>1. ASSUME NEW x \in ToSet(r) PROVE x \in ToSet(s)
      <4>1. PICK i \in 1 .. Len(r) : x = r[i]
        BY <2>4 DEF ToSet
      <4> QED BY <4>1, <2>5
    <3> QED BY <3>1
  <2> QED BY <2>2, <2>4, <2>6, <2>7
<1>2. CASE ~ \E i \in 1 .. Len(s) : s[i] = e
  BY <1>2 DEF RemoveFirst
<1> QED BY <1>1, <1>2 DEF ToSet

\* addConsumer adds the consumer that it has just created.
TypeInv == TypeOK /\ \A t \in Threads : pc[t] = "adding" => fresh[t] \in Consumers

LEMMA LoopStepKeepsTypes ==
    ASSUME TypeInv, OffsetTypes', NEW c \in Consumers, LoopStep(c)
    PROVE  TypeInv'
<1> USE ConstantsAssumption
    DEF TypeInv, TypeOK, OffsetTypes, Goto, Threads, Fault, ConstantsAssumption
<1>1. CASE LoopTest(c) \/ PollEmpty(c)
  BY <1>1 DEF LoopTest, PollEmpty, brokerVars, clientVars, containerVars
<1>2. CASE PollRecords(c)
  <2>1. /\ UNCHANGED <<commitSync, group, woken, running, containerVars, handled, faults>>
        /\ pc' = [pc EXCEPT ![c] = "handling"]
    BY <1>2 DEF PollRecords, brokerVars
  <2> QED BY <2>1 DEF containerVars
<1>3. CASE PollWakesUp(c)
  BY <1>3 DEF PollWakesUp, brokerVars, containerVars
<1>4. CASE PollFails(c)
  BY <1>4 DEF PollFails, brokerVars, clientVars, containerVars
<1>5. CASE \E r \in batch[c] : Handle(c, r)
  BY <1>5 DEF Handle, brokerVars, containerVars
<1>6. CASE Commit(c) \/ CommitNothing(c) \/ CommitAsyncFails(c)
  BY <1>6 DEF Commit, CommitNothing, CommitAsyncFails, brokerVars, clientVars, containerVars
<1>7. CASE CommitSyncThrows(c)
  <2>1. faults' = faults \/ (faults < MaxFaults /\ faults' = faults + 1)
    BY <1>7 DEF CommitSyncThrows
  <2>2. /\ woken' = [woken EXCEPT ![c] = FALSE]
        /\ UNCHANGED <<commitSync, group, position, batch, running, containerVars, handled>>
        /\ pc' = [pc EXCEPT ![c] = "lost"]
    BY <1>7 DEF CommitSyncThrows
  <2> QED BY <2>1, <2>2 DEF containerVars
<1>8. CASE Close(c)
  BY <1>8 DEF Close, containerVars
<1>9. CASE HandleShutdown(c)
  <2>1. consumers' \in Seq(Consumers)
    BY <1>9, RemoveFirstType DEF HandleShutdown
  <2>2. modified' \in BOOLEAN
    BY <1>9 DEF HandleShutdown
  <2> QED BY <1>9, <2>1, <2>2 DEF HandleShutdown, brokerVars, clientVars
<1> QED BY <1>1, <1>2, <1>3, <1>4, <1>5, <1>6, <1>7, <1>8, <1>9 DEF LoopStep

LEMMA TypesNext ==
    ASSUME TypeInv, OffsetTypes', [Next]_vars
    PROVE  TypeInv'
<1> USE ConstantsAssumption
    DEF TypeInv, TypeOK, OffsetTypes, Goto, Threads, Fault, ConstantsAssumption
<1>1. CASE \E c \in Consumers : LoopStep(c)
  BY <1>1, LoopStepKeepsTypes
<1>2. CASE \E c \in Consumers : Evict(c)
  BY <1>2 DEF Evict, clientVars, containerVars
<1>3. ASSUME NEW t \in Threads, Add(t) PROVE TypeInv'
  <2>1. CASE CreateConsumer(t)
    BY <2>1 DEF CreateConsumer, brokerVars, clientVars
  <2>2. CASE CreateFails(t)
    BY <2>2 DEF CreateFails, brokerVars, clientVars, containerVars
  <2>3. CASE AddConsumer(t)
    <3>1. consumers' \in Seq(Consumers)
      <4>1. consumers \in Seq(Consumers) /\ fresh[t] \in Consumers
        BY <2>3 DEF AddConsumer
      <4>2. Append(consumers, fresh[t]) \in Seq(Consumers)
        BY <4>1
      <4> QED BY <2>3, <4>1, <4>2 DEF AddConsumer
    <3>2. cursor' \in Nat /\ modified' \in BOOLEAN
      BY <2>3 DEF AddConsumer
    <3> QED BY <2>3, <3>1, <3>2 DEF AddConsumer, brokerVars, clientVars
  <2> QED BY <1>3, <2>1, <2>2, <2>3 DEF Add
<1>4. CASE StopBegins
  BY <1>4 DEF StopBegins, brokerVars, clientVars
<1>5. CASE StopNext
  BY <1>5 DEF StopNext, brokerVars
<1>6. CASE StopThrows
  BY <1>6 DEF StopThrows, brokerVars, clientVars, containerVars
<1>7. CASE StopEnds
  <2>1. consumers' = << >> /\ << >> \in Seq(Consumers)
    BY <1>7 DEF StopEnds
  <2> QED BY <1>7, <2>1 DEF StopEnds, brokerVars, clientVars
<1>8. CASE Rebalance
  <2>1. group' \subseteq Consumers
    BY <1>8 DEF Rebalance
  <2> QED BY <1>8, <2>1 DEF Rebalance, containerVars
<1>9. CASE UNCHANGED vars
  BY <1>9 DEF vars, brokerVars, clientVars, containerVars
<1> QED BY <1>1, <1>2, <1>3, <1>4, <1>5, <1>6, <1>7, <1>8, <1>9 DEF Next, Stop

\* Every field of the consumers, of their container and of the group has its type: above
\* all, no list operation leaves something else in the list and no commit an offset that
\* the partition does not have.
THEOREM TypeCorrect == Spec => []TypeOK
<1>1. Init => TypeInv
  <2> SUFFICES ASSUME Init PROVE TypeInv
    OBVIOUS
  <2>1. OffsetTypes
    BY OffsetsInit DEF OffsetsInv
  <2>2. \A t \in Threads : pc[t] # "adding"
    BY DEF Init
  <2>3. handled = {} /\ faults \in 0 .. MaxFaults /\ cursor \in Nat
    BY ConstantsAssumption DEF Init, ConstantsAssumption
  <2>4. consumers \in Seq(Consumers)
    BY DEF Init
  <2> QED BY <2>1, <2>2, <2>3, <2>4 DEF Init, TypeInv, TypeOK, OffsetTypes
<1>2. OffsetsInv /\ OffsetsInv' /\ TypeInv /\ [Next]_vars => TypeInv'
  BY TypesNext DEF OffsetsInv
<1>3. OffsetsInv /\ [Next]_vars => OffsetsInv'
  BY OffsetsNext
<1>4. TypeInv => TypeOK
  BY DEF TypeInv
<1> QED BY <1>1, <1>2, <1>3, <1>4, OffsetsInit, PTL DEF Spec
===============================================================================
