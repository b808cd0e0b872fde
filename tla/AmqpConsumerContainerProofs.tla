--------------------- MODULE AmqpConsumerContainerProofs ---------------------
(***************************************************************************)
(* For any pool size, any number of threads and consumers and any number   *)
(* of failures, a channel has one holder (OneHolder), a stop that nothing  *)
(* disturbed has stopped what is in the list (StopsListed), and while the  *)
(* container runs no consumer is forgotten or replaced twice               *)
(* (ConsumersAccounted).                                                   *)
(*                                                                         *)
(* OneHolder is not inductive: that the channel a thread is lent is not a  *)
(* consumer's follows from the pool's own books, which HolderInv states.   *)
(* Nor is StopsListed: ListInv says how far the loop of stop has come, and *)
(* that the list and the hands of the threads share no channel.            *)
(* ConsumersAccounted counts from start on: AccountInv says how many       *)
(* consumers start has added so far.                                       *)
(***************************************************************************)
EXTENDS AmqpConsumerContainer, FiniteSetTheorems, SequenceTheorems, TLAPS

\* The part of the type invariant the argument needs.
PoolTypes ==
    /\ chan \in [Channels -> {"none", "open", "down", "closed"}]
    /\ idle \in Seq(Channels)
    /\ taken \subseteq Channels
    /\ pc \in [Threads -> UserStates \cup AddStates \cup {"running"} \cup StopStates]
    /\ hand \in [Threads -> Channels \cup {None}]
    /\ subscribed \subseteq taken

\* A channel is idle once, or taken, or does not exist.
PoolBooks ==
    /\ \A i, j \in 1 .. Len(idle) : idle[i] = idle[j] => i = j
    /\ \A i \in 1 .. Len(idle) : idle[i] \notin taken /\ chan[idle[i]] # "none"
    /\ \A c \in taken : chan[c] # "none"

\* What a thread holds is taken, nobody else's, and not a consumer's if it is a user.
Hands ==
    /\ \A t \in Threads : hand[t] # None => hand[t] \in taken
    /\ \A t, o \in Threads : t # o /\ hand[t] # None => hand[t] # hand[o]
    /\ \A u \in Users : hand[u] \notin subscribed
    /\ \A t \in Threads : pc[t] \in {"using", "consuming", "adding"} => hand[t] # None

HolderInv == PoolTypes /\ PoolBooks /\ Hands

\* Most steps leave the pool alone, but for channels that close: threads may let go
\* of channels and consumers may end.
Quiet ==
    /\ UNCHANGED <<idle, taken>>
    /\ chan' \in [Channels -> {"none", "open", "down", "closed"}]
    /\ \A c \in Channels : chan'[c] = "none" => chan[c] = "none"
    /\ pc' \in [Threads -> UserStates \cup AddStates \cup {"running"} \cup StopStates]
    /\ hand' \in [Threads -> Channels \cup {None}]
    /\ \A t \in Threads : hand'[t] \in {hand[t], None}
    /\ \A t \in Threads :
         pc'[t] \in {"using", "consuming", "adding"} =>
            pc[t] \in {"using", "consuming", "adding"} /\ hand'[t] = hand[t]
    /\ subscribed' \subseteq subscribed

LEMMA QuietKeepsHolders ==
    ASSUME HolderInv, Quiet
    PROVE  HolderInv'
<1>1. PoolTypes'
  BY DEF HolderInv, PoolTypes, Quiet
<1>2. PoolBooks'
  <2>1. \A i \in 1 .. Len(idle) : idle[i] \in Channels
    BY ElementOfSeq DEF HolderInv, PoolTypes
  <2> QED
    BY <2>1 DEF HolderInv, PoolTypes, PoolBooks, Quiet
<1>3. Hands'
  BY ConstantsAssumption DEF HolderInv, PoolTypes, Hands, Quiet, Threads
<1> QED
  BY <1>1, <1>2, <1>3 DEF HolderInv

\* What the two operations on the list of idle channels do to it.
LEMMA TailOfIdle ==
    ASSUME NEW S, NEW s \in Seq(S), s # <<>>
    PROVE  /\ Head(s) = s[1] /\ Head(s) \in S /\ 1 \in 1 .. Len(s)
           /\ Tail(s) \in Seq(S)
           /\ Len(Tail(s)) = Len(s) - 1
           /\ Len(s) \in Nat
           /\ \A i \in 1 .. Len(Tail(s)) : i + 1 \in 1 .. Len(s) /\ Tail(s)[i] = s[i + 1]
BY HeadTailProperties, LenProperties, ElementOfSeq

LEMMA PushOnIdle ==
    ASSUME NEW S, NEW s \in Seq(S), NEW c \in S
    PROVE  /\ <<c>> \o s \in Seq(S)
           /\ Len(<<c>> \o s) = Len(s) + 1
           /\ Len(s) \in Nat
           /\ (<<c>> \o s)[1] = c
           /\ \A i \in 2 .. Len(s) + 1 : i - 1 \in 1 .. Len(s) /\ (<<c>> \o s)[i] = s[i - 1]
<1>1. <<c>> \in Seq(S) /\ Len(<<c>>) = 1 /\ <<c>>[1] = c
  OBVIOUS
<1> QED
  BY <1>1, ConcatProperties, LenProperties

-------------------------------------------------------------------------------
LEMMA GetChannelKeepsHolders ==
    ASSUME HolderInv, NEW t \in Threads, GetChannel(t)
    PROVE  HolderInv'
<1>0. Room => chan[NewChannel] = "none"
  BY DEF Room, NewChannel
<1>1. PICK c \in Channels :
        /\ \/ idle # <<>> /\ c = Head(idle) /\ idle' = Tail(idle) /\ UNCHANGED chan
           \/ /\ idle = <<>> /\ up /\ chan[c] = "none"
              /\ chan' = [chan EXCEPT ![c] = "open"] /\ UNCHANGED idle
        /\ taken' = taken \cup {c}
        /\ hand' = [hand EXCEPT ![t] = c]
  BY <1>0 DEF GetChannel
<1>2. /\ pc' = [pc EXCEPT ![t] = IF t \in Users THEN "using" ELSE "consuming"]
      /\ UNCHANGED subscribed
  BY DEF GetChannel, Goto
<1>3. c \notin taken /\ chan'[c] # "none" /\ c \in Channels
      /\ chan' \in [Channels -> {"none", "open", "down", "closed"}]
      /\ \A d \in Channels : d # c => chan'[d] = chan[d]
  BY <1>1, TailOfIdle DEF HolderInv, PoolTypes, PoolBooks
<1>4. /\ idle' \in Seq(Channels)
      /\ \A i, j \in 1 .. Len(idle') : idle'[i] = idle'[j] => i = j
      /\ \A i \in 1 .. Len(idle') : idle'[i] \notin taken /\ idle'[i] # c
      /\ \A i \in 1 .. Len(idle') : idle'[i] \in Channels /\ chan[idle'[i]] # "none"
  <2>1. CASE idle = <<>> /\ UNCHANGED idle
    BY <2>1 DEF HolderInv, PoolTypes
  <2>2. CASE idle # <<>> /\ c = Head(idle) /\ idle' = Tail(idle)
    <3>1. idle \in Seq(Channels)
      BY DEF HolderInv, PoolTypes
    <3>2. \A i \in 1 .. Len(idle) : idle[i] \in Channels
      BY <3>1, ElementOfSeq
    <3> QED
      BY <2>2, <3>1, <3>2, TailOfIdle DEF HolderInv, PoolBooks
  <2> QED
    BY <1>1, <2>1, <2>2
<1>5. PoolTypes'
  BY <1>1, <1>2, <1>3, <1>4
     DEF HolderInv, PoolTypes, UserStates, AddStates, Threads
<1>6. PoolBooks'
  BY <1>1, <1>3, <1>4 DEF HolderInv, PoolBooks, PoolTypes
<1>7. Hands'
  <2>1. \A o \in Threads : hand'[o] = IF o = t THEN c ELSE hand[o]
    BY <1>1 DEF HolderInv, PoolTypes
  <2>2. \A o \in Threads : hand[o] # c
    BY <1>3, ConstantsAssumption DEF HolderInv, Hands
  <2>3. c # None /\ c \notin subscribed
    BY <1>3, ConstantsAssumption DEF HolderInv, PoolTypes
  <2>4. \A o \in Threads : o # t => pc'[o] = pc[o]
    BY <1>2 DEF HolderInv, PoolTypes
  <2> QED
    BY <1>1, <1>2, <2>1, <2>2, <2>3, <2>4 DEF HolderInv, Hands, Threads
<1> QED
  BY <1>5, <1>6, <1>7 DEF HolderInv

LEMMA ReleaseChannelKeepsHolders ==
    ASSUME HolderInv, NEW u \in Users, ReleaseChannel(u)
    PROVE  HolderInv'
<1> DEFINE c == hand[u]
<1>1. /\ u \in Threads /\ c # None /\ c \in taken /\ c \in Channels
      /\ c \notin subscribed /\ chan[c] # "none"
      /\ \A o \in Threads : o # u => hand[o] # c
  BY DEF ReleaseChannel, Threads, HolderInv, Hands, PoolTypes, PoolBooks
<1>2. /\ taken' = taken \ {c}
      /\ hand' = [hand EXCEPT ![u] = None]
      /\ pc' = [pc EXCEPT ![u] = "idle"]
      /\ UNCHANGED subscribed
      /\ \/ chan' = [chan EXCEPT ![c] = "none"] /\ UNCHANGED idle
         \/ idle' = <<c>> \o idle /\ UNCHANGED chan
  BY DEF ReleaseChannel, Goto
<1>3. idle \in Seq(Channels) /\ \A i \in 1 .. Len(idle) : idle[i] \in Channels /\ idle[i] # c
  BY <1>1, ElementOfSeq DEF HolderInv, PoolTypes, PoolBooks
<1> HIDE DEF c
<1>4. idle' \in Seq(Channels) /\ PoolBooks'
  <2>1. CASE chan' = [chan EXCEPT ![c] = "none"] /\ UNCHANGED idle
    BY <1>1, <1>2, <1>3, <2>1 DEF HolderInv, PoolTypes, PoolBooks
  <2>2. CASE idle' = <<c>> \o idle /\ UNCHANGED chan
    <3>1. /\ idle' \in Seq(Channels) /\ Len(idle') = Len(idle) + 1 /\ Len(idle) \in Nat
          /\ idle'[1] = c
          /\ \A i \in 2 .. Len(idle) + 1 : i - 1 \in 1 .. Len(idle) /\ idle'[i] = idle[i - 1]
      BY <1>1, <1>3, <2>2, PushOnIdle
    <3>2. \A i \in 1 .. Len(idle') : i = 1 \/ i \in 2 .. Len(idle) + 1
      BY <3>1
    <3>3. \A i, j \in 1 .. Len(idle') : idle'[i] = idle'[j] => i = j
      <4> SUFFICES ASSUME NEW i \in 1 .. Len(idle'), NEW j \in 1 .. Len(idle'),
                          idle'[i] = idle'[j]
                   PROVE  i = j
        OBVIOUS
      <4>1. CASE i = 1 \/ j = 1
        BY <3>1, <3>2, <1>3, <4>1
      <4>2. CASE i \in 2 .. Len(idle) + 1 /\ j \in 2 .. Len(idle) + 1
        <5>1. idle[i - 1] = idle[j - 1]
          BY <3>1, <4>2
        <5>2. i - 1 = j - 1
          BY <3>1, <4>2, <5>1 DEF HolderInv, PoolBooks
        <5> QED
          BY <5>2
      <4> QED
        BY <3>2, <4>1, <4>2
    <3>4. \A i \in 1 .. Len(idle') : idle'[i] \notin taken' /\ chan'[idle'[i]] # "none"
      BY <3>1, <3>2, <1>1, <1>2, <2>2 DEF HolderInv, PoolBooks
    <3>5. \A d \in taken' : chan'[d] # "none"
      BY <1>2, <2>2 DEF HolderInv, PoolBooks
    <3> QED
      BY <3>1, <3>3, <3>4, <3>5 DEF PoolBooks
  <2> QED
    BY <1>2, <2>1, <2>2
<1>5. PoolTypes'
  BY <1>1, <1>2, <1>4 DEF HolderInv, PoolTypes, UserStates, Threads
<1>6. Hands'
  BY <1>1, <1>2, ConstantsAssumption DEF HolderInv, PoolTypes, Hands, Threads
<1> QED
  BY <1>4, <1>5, <1>6 DEF HolderInv

LEMMA ConsumeKeepsHolders ==
    ASSUME HolderInv, NEW t \in Adders, Consume(t)
    PROVE  HolderInv'
<1>1. /\ t \in Threads /\ t \notin Users
      /\ hand[t] # None /\ hand[t] \in taken
  BY ConstantsAssumption DEF Adders, Threads, Consume, HolderInv, Hands
<1>2. /\ UNCHANGED <<chan, idle, taken, hand>>
      /\ subscribed' = subscribed \cup {hand[t]}
      /\ pc' = [pc EXCEPT ![t] = "adding"]
  BY DEF Consume, Goto, poolVars
<1>3. PoolTypes' /\ PoolBooks'
  BY <1>1, <1>2 DEF HolderInv, PoolTypes, PoolBooks, AddStates
<1>4. Hands'
  <2>1. \A o \in Threads : pc'[o] = IF o = t THEN "adding" ELSE pc[o]
    BY <1>2 DEF HolderInv, PoolTypes
  <2>2. \A u \in Users : hand[u] # hand[t]
    BY <1>1 DEF HolderInv, Hands, Threads
  <2> QED
    BY <1>1, <1>2, <2>1, <2>2 DEF HolderInv, Hands
<1> QED
  BY <1>3, <1>4 DEF HolderInv

LEMMA ClosePoolKeepsHolders ==
    ASSUME HolderInv, ClosePool
    PROVE  HolderInv'
<1>1. /\ idle' = <<>>
      /\ UNCHANGED <<taken, hand, subscribed>>
      /\ pc' = [pc EXCEPT !["main"] = "closed"]
      /\ chan' = [c \in Channels |-> IF c \in ToSet(idle) THEN "none" ELSE chan[c]]
  BY DEF ClosePool, Goto
<1>2. \A c \in taken : c \notin ToSet(idle)
  <2>1. DOMAIN idle = 1 .. Len(idle)
    BY LenProperties DEF HolderInv, PoolTypes
  <2> QED
    BY <2>1 DEF ToSet, HolderInv, PoolBooks
<1>3. chan' \in [Channels -> {"none", "open", "down", "closed"}]
  BY <1>1 DEF HolderInv, PoolTypes
<1>4. PoolTypes'
  BY <1>1, <1>3 DEF HolderInv, PoolTypes, StopStates, Threads
<1>5. PoolBooks'
  BY <1>1, <1>2 DEF HolderInv, PoolTypes, PoolBooks
<1>6. Hands'
  BY <1>1 DEF HolderInv, PoolTypes, Hands, Threads
<1> QED
  BY <1>4, <1>5, <1>6 DEF HolderInv

-------------------------------------------------------------------------------
\* The other steps are quiet.
LEMMA OtherStepsAreQuiet ==
    ASSUME HolderInv,
           \/ \E t \in Threads : GetChannelFails(t)
           \/ \E u \in Users : Execute(u)
           \/ \E t \in Adders : ConsumeFails(t) \/ AddConsumer(t)
           \/ \E c \in Channels : HandleShutdown(c) \/ ChannelDies(c)
           \/ StopBegins \/ StopNext \/ StopThrows \/ StopEnds \/ CloseConnection
           \/ ConnectionFails \/ ConnectionRecovers
           \/ UNCHANGED vars
    PROVE  Quiet
<1> USE DEF HolderInv, PoolTypes, Quiet, UserStates, AddStates, StopStates, Threads,
            Adders, poolVars
<1>1. CASE \E t \in Threads : GetChannelFails(t)
  BY <1>1 DEF GetChannelFails, Throws, Goto
<1>2. CASE \E u \in Users : Execute(u)
  BY <1>2 DEF Execute, Goto
<1>3. CASE \E t \in Adders : ConsumeFails(t)
  BY <1>3 DEF ConsumeFails, Throws, Goto
<1>4. CASE \E t \in Adders : AddConsumer(t)
  BY <1>4 DEF AddConsumer, Goto
<1>5. CASE \E c \in Channels : HandleShutdown(c)
  BY <1>5 DEF HandleShutdown, Goto
<1>6. CASE \E c \in Channels : ChannelDies(c)
  BY <1>6 DEF ChannelDies
<1>7. CASE StopBegins
  BY <1>7 DEF StopBegins, Goto
<1>8. CASE StopNext
  BY <1>8 DEF StopNext, HolderInv, PoolBooks
<1>9. CASE StopThrows
  BY <1>9 DEF StopThrows, Goto
<1>10. CASE StopEnds
  BY <1>10 DEF StopEnds, Goto
<1>11. CASE CloseConnection
  BY <1>11 DEF CloseConnection, Goto
<1>12. CASE ConnectionFails
  BY <1>12 DEF ConnectionFails
<1>13. CASE ConnectionRecovers
  BY <1>13 DEF ConnectionRecovers
<1>14. CASE UNCHANGED vars
  BY <1>14 DEF vars
<1> QED
  BY <1>1, <1>2, <1>3, <1>4, <1>5, <1>6, <1>7, <1>8, <1>9, <1>10, <1>11, <1>12,
     <1>13, <1>14

THEOREM HolderInvariant == Spec => []HolderInv
<1>1. Init => HolderInv
  <2> SUFFICES ASSUME Init PROVE HolderInv
    OBVIOUS
  <2>1. PoolTypes
    BY DEF Init, PoolTypes, UserStates, AddStates, StopStates, Threads
  <2>2. PoolBooks
    BY DEF Init, PoolBooks
  <2>3. Hands
    BY ConstantsAssumption DEF Init, Hands, Threads
  <2> QED
    BY <2>1, <2>2, <2>3 DEF HolderInv
<1>2. HolderInv /\ [Next]_vars => HolderInv'
  <2> SUFFICES ASSUME HolderInv, [Next]_vars PROVE HolderInv'
    OBVIOUS
  <2>1. CASE \E t \in Threads : GetChannel(t)
    BY <2>1, GetChannelKeepsHolders
  <2>2. CASE \E u \in Users : ReleaseChannel(u)
    BY <2>2, ReleaseChannelKeepsHolders
  <2>3. CASE \E t \in Adders : Consume(t)
    BY <2>3, ConsumeKeepsHolders
  <2>4. CASE ClosePool
    BY <2>4, ClosePoolKeepsHolders
  <2>5. CASE ~ \/ \E t \in Threads : GetChannel(t)
               \/ \E u \in Users : ReleaseChannel(u)
               \/ \E t \in Adders : Consume(t)
               \/ ClosePool
    <3>1. Quiet
      BY <2>5, OtherStepsAreQuiet DEF Next, Add, Stop
    <3> QED
      BY <3>1, QuietKeepsHolders
  <2> QED
    BY <2>1, <2>2, <2>3, <2>4, <2>5
<1> QED
  BY <1>1, <1>2, PTL DEF Spec

\* A channel is accessed by one thread at a time, whatever closes, fails or recovers.
THEOREM ChannelHasOneHolder == Spec => []OneHolder
<1>1. HolderInv => OneHolder
  <2> SUFFICES ASSUME HolderInv PROVE OneHolder
    OBVIOUS
  <2>1. DOMAIN idle = 1 .. Len(idle)
    BY LenProperties DEF HolderInv, PoolTypes
  <2>2. \A c \in ToSet(idle) : c \notin taken /\ c # None
    BY <2>1, ElementOfSeq, ConstantsAssumption DEF ToSet, HolderInv, PoolTypes, PoolBooks
  <2> QED
    BY <2>2 DEF OneHolder, HolderInv, PoolTypes, Hands
<1> QED
  BY <1>1, HolderInvariant, PTL
-------------------------------------------------------------------------------
\* Type correctness of the fields that the pool's books do not need.  start adds no more
\* consumers than there are places.
FieldTypes ==
    /\ Len(idle) <= MaxIdle
    /\ up \in BOOLEAN
    /\ signals \in [Channels -> Nat]
    /\ started \in 0 .. MaxConsumers
    /\ pc["main"] \in AddStates => started < MaxConsumers
    /\ cursor \in Nat
    /\ modified \in BOOLEAN
    /\ abandoned \in Nat
    /\ faults \in 0 .. MaxFaults
    /\ outages \in 0 .. MaxOutages

LEMMA FieldTypesNext ==
    ASSUME HolderInv, FieldTypes, [Next]_vars
    PROVE  FieldTypes'
<1> USE ConstantsAssumption
    DEF FieldTypes, ConstantsAssumption, HolderInv, PoolTypes, Threads, Goto, AddStates
<1>0. ASSUME NEW t \in Threads, Throws(t)
      PROVE  /\ abandoned' \in Nat
             /\ modified' \in BOOLEAN
             /\ pc'["main"] \in AddStates => pc["main"] \in AddStates
  <2>1. abandoned' \in Nat
    BY <1>0 DEF Throws
  <2>2. modified' \in BOOLEAN
    BY <1>0 DEF Throws
  <2>3. pc'["main"] \in AddStates => pc["main"] \in AddStates
    BY <1>0 DEF Throws
  <2> QED BY <2>1, <2>2, <2>3
<1>1. CASE \E t \in Threads : GetChannel(t)
  <2>1. Len(idle') <= MaxIdle
    BY <1>1, TailOfIdle DEF GetChannel
  <2>2. PICK t \in Threads : pc[t] = "borrowing" /\ Goto(t, IF t \in Users THEN "using" ELSE "consuming")
    BY <1>1 DEF GetChannel
  <2>3. UNCHANGED <<up, modified, signals, stopVars, countVars>>
    BY <1>1 DEF GetChannel, listVars
  <2>4. pc'["main"] \in AddStates => pc["main"] \in AddStates
    BY <2>2
  <2> QED BY <2>1, <2>3, <2>4 DEF stopVars, countVars
<1>2. CASE \E t \in Threads : GetChannelFails(t)
  BY <1>2, <1>0 DEF GetChannelFails, poolVars, stopVars
<1>3. CASE \E u \in Users : Execute(u)
  BY <1>3 DEF Execute, poolVars, listVars, stopVars, countVars
<1>4. CASE \E u \in Users : ReleaseChannel(u)
  <2>1. PICK u \in Users : ReleaseChannel(u)
    BY <1>4
  <2>2. hand[u] \in Channels
    BY <2>1 DEF ReleaseChannel, Hands
  <2>3. Len(idle') <= MaxIdle
    BY <2>1, <2>2, PushOnIdle DEF ReleaseChannel
  <2>4. pc'["main"] = pc["main"]
    BY <2>1 DEF ReleaseChannel
  <2>5. UNCHANGED <<up, modified, signals, stopVars, countVars>>
    BY <2>1 DEF ReleaseChannel, listVars
  <2> QED BY <2>3, <2>4, <2>5 DEF stopVars, countVars
<1>5. CASE \E t \in Adders : Consume(t) \/ ConsumeFails(t)
  <2>1. CASE \E t \in Adders : Consume(t)
    BY <1>5, <2>1 DEF Consume, Adders, poolVars, listVars, stopVars, countVars
  <2>2. CASE \E t \in Adders : ConsumeFails(t)
    BY <2>2, <1>0 DEF ConsumeFails, Adders, poolVars, stopVars
  <2> QED BY <1>5, <2>1, <2>2
<1>6. CASE \E t \in Adders : AddConsumer(t)
  BY <1>6 DEF AddConsumer, Adders, poolVars, countVars
<1>7. CASE \E c \in Channels : HandleShutdown(c)
  <2>1. PICK c \in Channels : HandleShutdown(c)
    BY <1>7
  <2>2. signals' \in [Channels -> Nat]
    BY <2>1 DEF HandleShutdown
  <2>3. modified' \in BOOLEAN /\ pc'["main"] = pc["main"]
    BY <2>1 DEF HandleShutdown
  <2>4. UNCHANGED <<idle, up, started, cursor, abandoned, faults, outages>>
    BY <2>1 DEF HandleShutdown, poolVars, stopVars, countVars
  <2> QED BY <2>2, <2>3, <2>4
<1>8. CASE \E c \in Channels : ChannelDies(c)
  BY <1>8 DEF ChannelDies, listVars, stopVars
<1>9. CASE ConnectionFails
  <2>1. signals' \in [Channels -> Nat]
    BY <1>9 DEF ConnectionFails
  <2>2. up' = FALSE /\ outages' \in 0 .. MaxOutages
        /\ UNCHANGED <<idle, pc, modified, started, cursor, abandoned, faults>>
    BY <1>9 DEF ConnectionFails, listVars, stopVars
  <2> QED BY <2>1, <2>2
<1>10. CASE ConnectionRecovers
  BY <1>10 DEF ConnectionRecovers, listVars, stopVars, countVars
<1>11. CASE StopBegins
  BY <1>11 DEF StopBegins, poolVars, stopVars, countVars
<1>12. CASE StopNext
  BY <1>12 DEF StopNext, listVars, countVars
<1>13. CASE StopThrows \/ StopEnds
  BY <1>13 DEF StopThrows, StopEnds, poolVars, listVars, stopVars, countVars
<1>14. CASE CloseConnection
  BY <1>14 DEF CloseConnection, listVars, stopVars, countVars
<1>15. CASE ClosePool
  BY <1>15 DEF ClosePool, listVars, stopVars, countVars
<1>16. CASE UNCHANGED vars
  BY <1>16 DEF vars, poolVars, listVars, stopVars, countVars
<1> QED
  BY <1>1, <1>2, <1>3, <1>4, <1>5, <1>6, <1>7, <1>8, <1>9, <1>10, <1>11, <1>12, <1>13,
     <1>14, <1>15, <1>16 DEF Next, Add, Stop

-------------------------------------------------------------------------------
\* The list of the container.  A listed consumer's channel is lent out and in nobody's
\* hands, so no new subscription is for a consumer the loop of stop has passed.
Passed == cursor <= Len(consumers) /\ \A i \in 1 .. cursor : consumers[i] \notin subscribed

ListInv ==
    /\ consumers \in Seq(Channels)
    /\ cursor \in Nat
    /\ ToSet(consumers) \subseteq taken
    /\ \A t \in Threads : hand[t] \notin ToSet(consumers)
    /\ pc["main"] \notin StopStates => cursor = 0
    /\ pc["main"] = "stopping" /\ ~modified => Passed
    /\ StopsListed

\* Steps that leave the list alone, move main not at all, and at most take a channel away
\* that is not in the list or lend one that was not lent out.
LEMMA ListUnchanged ==
    ASSUME HolderInv, ListInv,
           UNCHANGED <<consumers, cursor, modified>>,
           pc'["main"] = pc["main"]
              \/ (pc["main"] \notin StopStates /\ pc'["main"] \notin StopStates),
           ToSet(consumers) \subseteq taken',
           \A t \in Threads : hand'[t] \notin ToSet(consumers),
           \A c \in subscribed' \ subscribed : c \notin ToSet(consumers)
    PROVE  ListInv'
<1>1. \A i \in 1 .. Len(consumers) : consumers[i] \in ToSet(consumers)
  BY DEF ListInv, ToSet
<1>2. pc["main"] = "stopping" /\ ~modified => Passed'
  BY <1>1 DEF Passed, ListInv
<1>3. StopsListed'
  BY DEF ListInv, StopsListed, StopStates
<1> QED BY <1>2, <1>3 DEF ListInv, StopStates

LEMMA PoolStepKeepsList ==
    ASSUME HolderInv, ListInv,
           \/ \E t \in Threads : GetChannel(t)
           \/ \E u \in Users : Execute(u) \/ ReleaseChannel(u)
           \/ \E t \in Adders : Consume(t)
           \/ \E c \in Channels : ChannelDies(c)
           \/ ConnectionFails \/ ConnectionRecovers \/ UNCHANGED vars
    PROVE  ListInv'
<1> USE ConstantsAssumption
    DEF ConstantsAssumption, HolderInv, PoolTypes, Hands, Threads, Goto, StopStates
<1>0. None \notin ToSet(consumers)
  BY DEF ListInv
<1>1. CASE \E t \in Threads : GetChannel(t)
  <2>1. PICK t \in Threads, c \in Channels :
          /\ pc[t] = "borrowing"
          /\ c \notin taken
          /\ taken' = taken \cup {c}
          /\ hand' = [hand EXCEPT ![t] = c]
          /\ pc' = [pc EXCEPT ![t] = IF t \in Users THEN "using" ELSE "consuming"]
          /\ UNCHANGED <<listVars, subscribed, stopVars>>
    <3>1. Room => chan[NewChannel] = "none"
      BY DEF Room, NewChannel
    <3>2. PICK t \in Threads : GetChannel(t)
      BY <1>1
    <3>3. PICK c \in Channels :
            /\ \/ idle # <<>> /\ c = Head(idle)
               \/ chan[c] = "none"
            /\ taken' = taken \cup {c}
            /\ hand' = [hand EXCEPT ![t] = c]
      BY <3>1, <3>2 DEF GetChannel
    <3>4. c \notin taken
      BY <3>3, TailOfIdle DEF PoolBooks
    <3> QED BY <3>2, <3>3, <3>4 DEF GetChannel
  <2>2. UNCHANGED <<consumers, cursor, modified, subscribed>>
    BY <2>1 DEF listVars, stopVars
  <2>3. c \notin ToSet(consumers) /\ ToSet(consumers) \subseteq taken'
    BY <2>1 DEF ListInv
  <2>4. \A o \in Threads : hand'[o] \notin ToSet(consumers)
    BY <2>1, <2>3 DEF ListInv
  <2>5. pc'["main"] = pc["main"]
           \/ (pc["main"] \notin StopStates /\ pc'["main"] \notin StopStates)
    BY <2>1
  <2> QED BY <2>2, <2>3, <2>4, <2>5, ListUnchanged
<1>2. CASE \E u \in Users : Execute(u)
  <2>1. /\ UNCHANGED <<consumers, cursor, modified, taken, hand, subscribed>>
        /\ pc'["main"] = pc["main"]
    BY <1>2 DEF Execute, poolVars, listVars, stopVars
  <2> QED BY <2>1, ListUnchanged DEF ListInv
<1>3. CASE \E u \in Users : ReleaseChannel(u)
  <2>1. PICK u \in Users : /\ taken' = taken \ {hand[u]}
                           /\ hand' = [hand EXCEPT ![u] = None]
                           /\ pc' = [pc EXCEPT ![u] = "idle"]
                           /\ UNCHANGED <<listVars, subscribed, stopVars>>
    BY <1>3 DEF ReleaseChannel
  <2>2. UNCHANGED <<consumers, cursor, modified, subscribed>> /\ pc'["main"] = pc["main"]
    BY <2>1 DEF listVars, stopVars
  <2>3. ToSet(consumers) \subseteq taken'
    BY <2>1 DEF ListInv
  <2>4. \A o \in Threads : hand'[o] \notin ToSet(consumers)
    BY <2>1, <1>0 DEF ListInv
  <2> QED BY <2>2, <2>3, <2>4, ListUnchanged
<1>4. CASE \E t \in Adders : Consume(t)
  <2>1. PICK t \in Adders : /\ pc[t] = "consuming"
                            /\ subscribed' = subscribed \cup {hand[t]}
                            /\ pc' = [pc EXCEPT ![t] = "adding"]
                            /\ UNCHANGED <<poolVars, hand, listVars, stopVars>>
    BY <1>4 DEF Consume
  <2>2. UNCHANGED <<consumers, cursor, modified, taken, hand>>
    BY <2>1 DEF poolVars, listVars, stopVars
  <2>3. t \in Threads /\ \A c \in subscribed' \ subscribed : c \notin ToSet(consumers)
    BY <2>1 DEF ListInv, Adders
  <2>4. pc'["main"] = pc["main"]
           \/ (pc["main"] \notin StopStates /\ pc'["main"] \notin StopStates)
    BY <2>1, <2>3
  <2> QED BY <2>2, <2>3, <2>4, ListUnchanged DEF ListInv
<1>5. CASE (\E c \in Channels : ChannelDies(c)) \/ ConnectionFails \/ ConnectionRecovers
           \/ UNCHANGED vars
  <2>1. /\ UNCHANGED <<consumers, cursor, modified, taken, hand, pc>>
        /\ subscribed' \subseteq subscribed
    BY <1>5 DEF ChannelDies, ConnectionFails, ConnectionRecovers, vars, poolVars, listVars,
                stopVars
  <2> QED BY <2>1, ListUnchanged DEF ListInv
<1> QED BY <1>1, <1>2, <1>3, <1>4, <1>5

\* The first position of an element is one, and so it can be removed.
LEMMA FirstIndex ==
    ASSUME NEW I \in SUBSET Nat, I # {}
    PROVE  Min(I) \in I
<1> DEFINE R == OpToRel(<, Nat)
<1>1. \E x \in I : \A y \in I : ~(<<y, x>> \in R)
  BY WFMin, NatLessThanWellFounded
<1>2. \A x, y \in Nat : y < x => <<y, x>> \in R
  BY DEF OpToRel
<1> HIDE DEF R
<1>3. \E x \in I : \A y \in I : x <= y
  <2>1. PICK x \in I : \A y \in I : <<y, x>> \notin R
    BY <1>1
  <2>2. ASSUME NEW y \in I PROVE x <= y
    <3>1. x \in Nat /\ y \in Nat /\ ~(y < x)
      BY <1>2, <2>1
    <3> QED BY <3>1
  <2> QED BY <2>2
<1> QED BY <1>3 DEF Min

\* List.remove takes one occurrence out.
LEMMA RemoveFirstType ==
    ASSUME NEW S, NEW s \in Seq(S), NEW e
    PROVE  /\ RemoveFirst(s, e) \in Seq(S)
           /\ e \notin ToSet(s) => RemoveFirst(s, e) = s
           /\ ToSet(RemoveFirst(s, e)) \subseteq ToSet(s)
<1>1. CASE \E i \in 1 .. Len(s) : s[i] = e
  <2> DEFINE I == {i \in 1 .. Len(s) : s[i] = e}
             k == Min(I)
             a == SubSeq(s, 1, k - 1)
             b == SubSeq(s, k + 1, Len(s))
             r == a \o b
  <2>1. k \in 1 .. Len(s) /\ Len(s) \in Nat
    <3>1. I \in SUBSET Nat /\ I # {} /\ Len(s) \in Nat
      BY <1>1
    <3>2. k \in I
      BY <3>1, FirstIndex
    <3> QED BY <3>1, <3>2
  <2>2. RemoveFirst(s, e) = r
    BY <1>1 DEF RemoveFirst, RemoveAt, SelectInSeq
  <2> HIDE DEF k
  <2>3. /\ a \in Seq(S) /\ Len(a) = k - 1 /\ \A i \in 1 .. k - 1 : a[i] = s[i]
        /\ b \in Seq(S) /\ Len(b) = Len(s) - k /\ \A i \in 1 .. Len(s) - k : b[i] = s[k + i]
    BY <2>1
  <2> HIDE DEF a, b
  <2>4. r \in Seq(S) /\ Len(r) = Len(s) - 1
    <3>1. a \in Seq(S) /\ b \in Seq(S)
      BY <2>3
    <3>2. a \o b \in Seq(S) /\ Len(a \o b) = Len(a) + Len(b)
      BY <3>1
    <3>3. (k - 1) + (Len(s) - k) = Len(s) - 1
      BY <2>1
    <3> QED BY <2>3, <3>2, <3>3
  <2>5. ASSUME NEW i \in 1 .. Len(r) PROVE r[i] \in ToSet(s)
    <3>1. i \in 1 .. Len(a) + Len(b) /\ r[i] = IF i <= Len(a) THEN a[i] ELSE b[i - Len(a)]
      BY <2>1, <2>3, <2>4
    <3>2. CASE i <= Len(a)
      <4>1. i \in 1 .. k - 1 /\ i \in 1 .. Len(s) /\ r[i] = s[i]
        BY <2>1, <2>3, <3>1, <3>2
      <4> QED BY <4>1 DEF ToSet
    <3>3. CASE ~(i <= Len(a))
      <4>1. i - Len(a) \in 1 .. Len(s) - k /\ r[i] = s[k + (i - Len(a))]
        BY <2>1, <2>3, <3>1, <3>3
      <4>2. k + (i - Len(a)) \in 1 .. Len(s)
        BY <2>1, <2>3, <4>1
      <4> QED BY <4>1, <4>2 DEF ToSet
    <3> QED BY <3>2, <3>3
  <2>6. e \in ToSet(s)
    BY <1>1 DEF ToSet
  <2>7. ToSet(r) \subseteq ToSet(s)
    <3> HIDE DEF r, I
    <3>1. ASSUME NEW x \in ToSet(r) PROVE x \in ToSet(s)
      <4>1. PICK i \in 1 .. Len(r) : x = r[i]
        BY <2>4 DEF ToSet
      <4> QED BY <4>1, <2>5
    <3> QED BY <3>1
  <2> QED BY <2>2, <2>4, <2>6, <2>7
<1>2. CASE ~ \E i \in 1 .. Len(s) : s[i] = e
  BY <1>2 DEF RemoveFirst
<1> QED BY <1>1, <1>2 DEF ToSet

LEMMA ListStepKeepsList ==
    ASSUME HolderInv, FieldTypes, ListInv,
           \/ \E t \in Threads : GetChannelFails(t)
           \/ \E t \in Adders : ConsumeFails(t) \/ AddConsumer(t)
           \/ \E c \in Channels : HandleShutdown(c)
    PROVE  ListInv'
<1> USE ConstantsAssumption
    DEF ConstantsAssumption, HolderInv, PoolTypes, Hands, FieldTypes, Threads, Goto,
        StopStates
<1>0. None \notin ToSet(consumers)
  BY DEF ListInv
<1>1. ASSUME NEW t \in Threads, Throws(t), pc[t] \in {"borrowing", "consuming"},
             UNCHANGED <<consumers, taken, subscribed, cursor>>,
             \A o \in Threads : hand'[o] \in {hand[o], None}
      PROVE  ListInv'
  <2>1. \A o \in Threads : hand'[o] \notin ToSet(consumers)
    BY <1>0, <1>1 DEF ListInv
  <2>2. CASE t = "main"
    <3>1. pc'["main"] = "stopping" /\ cursor = 0 /\ modified' = FALSE
      BY <1>1, <2>2 DEF Throws, ListInv
    <3> QED BY <1>1, <2>1, <3>1 DEF ListInv, Passed, StopsListed
  <2>3. CASE t # "main"
    <3>1. pc'["main"] = pc["main"] /\ UNCHANGED modified
      BY <1>1, <2>3 DEF Throws
    <3> QED BY <1>1, <2>1, <3>1 DEF ListInv, Passed, StopsListed
  <2> QED BY <2>2, <2>3
<1>2. CASE \E t \in Threads : GetChannelFails(t)
  BY <1>1, <1>2 DEF GetChannelFails, poolVars, stopVars
<1>3. CASE \E t \in Adders : ConsumeFails(t)
  BY <1>1, <1>3 DEF ConsumeFails, poolVars, stopVars, Adders
<1>4. CASE \E t \in Adders : AddConsumer(t)
  <2>1. PICK t \in Adders :
          /\ pc[t] = "adding"
          /\ consumers' = Append(consumers, hand[t]) \/ UNCHANGED consumers
          /\ modified' = TRUE
          /\ hand' = [hand EXCEPT ![t] = None]
          /\ pc'["main"] = pc["main"]
                \/ (pc["main"] \notin StopStates /\ pc'["main"] \notin StopStates)
          /\ UNCHANGED <<taken, subscribed, cursor>>
    <3>1. PICK t \in Adders : AddConsumer(t)
      BY <1>4
    <3>2. t \in Threads /\ pc[t] = "adding" /\ \E l \in {"borrowing", "running", "idle"} :
            /\ pc' = [pc EXCEPT ![t] = l]
            /\ t = "main" => l # "idle"
      BY <3>1 DEF AddConsumer, Adders
    <3>3. pc'["main"] = pc["main"]
             \/ (pc["main"] \notin StopStates /\ pc'["main"] \notin StopStates)
      BY <3>2
    <3> QED BY <3>1, <3>3 DEF AddConsumer, poolVars
  <2>2. t \in Threads /\ hand[t] \in taken /\ hand[t] \in Channels
    BY <2>1 DEF Adders
  <2>3. /\ consumers' \in Seq(Channels)
        /\ ToSet(consumers') \subseteq ToSet(consumers) \cup {hand[t]}
    <3>1. CASE UNCHANGED consumers
      BY <3>1 DEF ListInv
    <3>2. CASE consumers' = Append(consumers, hand[t])
      BY <2>2, <3>2, AppendProperties DEF ListInv, ToSet
    <3> QED BY <2>1, <3>1, <3>2
  <2>4. ToSet(consumers') \subseteq taken'
    BY <2>1, <2>2, <2>3 DEF ListInv
  <2>5. \A o \in Threads : hand'[o] \notin ToSet(consumers')
    BY <2>1, <2>2, <2>3, <2>4, <1>0 DEF ListInv
  <2> QED BY <2>1, <2>3, <2>4, <2>5 DEF ListInv, StopsListed
<1>5. CASE \E c \in Channels : HandleShutdown(c)
  <2>1. /\ consumers' \in Seq(Channels)
        /\ ToSet(consumers') \subseteq ToSet(consumers)
        /\ modified' = TRUE \/ UNCHANGED <<consumers, modified>>
    <3>1. PICK c \in Channels :
            \/ /\ consumers' = RemoveFirst(consumers, c)
               /\ modified' = (modified \/ consumers' # consumers)
            \/ UNCHANGED consumers /\ modified' = TRUE
      BY <1>5 DEF HandleShutdown
    <3>2. consumers' \in Seq(Channels) /\ ToSet(consumers') \subseteq ToSet(consumers)
      BY <3>1, RemoveFirstType DEF ListInv
    <3>3. modified \in BOOLEAN
      OBVIOUS
    <3>4. modified' = TRUE \/ UNCHANGED <<consumers, modified>>
      BY <3>1, <3>3, Zenon
    <3> QED BY <3>2, <3>4
  <2>2. UNCHANGED <<taken, hand, subscribed, cursor>> /\ pc'["main"] = pc["main"]
    BY <1>5 DEF HandleShutdown, poolVars, stopVars
  <2> QED BY <2>1, <2>2 DEF ListInv, StopsListed, Passed
<1> QED BY <1>2, <1>3, <1>4, <1>5

\* stop goes through the list.
LEMMA StopStepKeepsList ==
    ASSUME HolderInv, FieldTypes, ListInv, StopBegins \/ Stop
    PROVE  ListInv'
<1> USE DEF HolderInv, PoolTypes, FieldTypes, Threads, Goto, StopStates, ListInv
<1>0. \A c \in ToSet(consumers) : \E i \in 1 .. Len(consumers) : c = consumers[i]
  <2>1. DOMAIN consumers = 1 .. Len(consumers)
    BY LenProperties
  <2> QED BY <2>1 DEF ToSet
<1>1. CASE StopBegins
  <2>1. pc["main"] = "running" /\ pc'["main"] = "stopping" /\ cursor' = 0
    BY <1>1 DEF StopBegins, stopVars
  <2> QED BY <1>1, <2>1 DEF StopBegins, poolVars, stopVars, Passed, StopsListed
<1>2. CASE StopNext
  <2>1. /\ pc["main"] = "stopping" /\ cursor < Len(consumers)
        /\ subscribed' = subscribed \ {consumers[cursor + 1]}
        /\ cursor' = cursor + 1
        /\ UNCHANGED <<pc, taken, hand, consumers, modified>>
    BY <1>2 DEF StopNext, listVars
  <2>2. ~modified => Passed'
    BY <2>1 DEF Passed
  <2> QED BY <2>1, <2>2 DEF StopsListed
<1>3. CASE StopThrows
  BY <1>3 DEF StopThrows, poolVars, listVars, stopVars, StopsListed
<1>4. CASE StopEnds
  <2>1. /\ pc["main"] = "stopping" /\ cursor = Len(consumers) /\ pc'["main"] = "closing"
        /\ UNCHANGED <<taken, hand, consumers, modified, cursor, subscribed>>
    BY <1>4 DEF StopEnds, poolVars, listVars, stopVars
  <2>2. ~modified => subscribed \cap ToSet(consumers) = {}
    BY <1>0, <2>1 DEF Passed
  <2> QED BY <2>1, <2>2 DEF StopsListed
<1>5. CASE CloseConnection
  BY <1>5 DEF CloseConnection, listVars, stopVars, StopsListed
<1>6. CASE ClosePool
  <2>1. /\ pc["main"] = "draining" /\ pc'["main"] = "closed"
        /\ UNCHANGED <<taken, hand, consumers, modified, cursor, subscribed>>
    BY <1>6 DEF ClosePool, listVars, stopVars
  <2> QED BY <2>1 DEF StopsListed
<1> QED BY <1>1, <1>2, <1>3, <1>4, <1>5, <1>6 DEF Stop

ContainerInv == HolderInv /\ FieldTypes /\ ListInv

THEOREM ContainerInvariant == Spec => []ContainerInv
<1>1. Init => FieldTypes /\ ListInv
  <2> SUFFICES ASSUME Init PROVE FieldTypes /\ ListInv
    OBVIOUS
  <2>1. FieldTypes
    <3>1. /\ Len(idle) = 0 /\ signals \in [Channels -> Nat]
          /\ up \in BOOLEAN /\ modified \in BOOLEAN
          /\ started = 0 /\ cursor = 0 /\ abandoned = 0 /\ faults = 0 /\ outages = 0
      BY DEF Init
    <3> QED BY <3>1, ConstantsAssumption DEF FieldTypes, ConstantsAssumption
  <2>2. consumers \in Seq(Channels) /\ ToSet(consumers) = {} /\ pc["main"] = "borrowing"
    BY DEF Init, ToSet, Threads
  <2>3. ListInv
    BY <2>2 DEF Init, ListInv, StopsListed, StopStates
  <2> QED BY <2>1, <2>3
<1>2. HolderInv /\ FieldTypes /\ ListInv /\ [Next]_vars => FieldTypes' /\ ListInv'
  BY FieldTypesNext, PoolStepKeepsList, ListStepKeepsList, StopStepKeepsList
     DEF Next, Add
<1> QED BY <1>1, <1>2, HolderInvariant, PTL DEF Spec, ContainerInv

\* Every field of the pool, the container and its threads has its type: the pool keeps no
\* more idle channels than it may and start adds no more consumers than there are places.
THEOREM TypeCorrect == Spec => []TypeOK
<1>1. ContainerInv => TypeOK
  BY DEF ContainerInv, HolderInv, PoolTypes, FieldTypes, ListInv, TypeOK
<1> QED BY <1>1, ContainerInvariant, PTL

\* A stop that nothing disturbed leaves no listed consumer subscribed, whatever died or
\* was being replaced before.
THEOREM ListedAreStopped == Spec => []StopsListed
<1>1. ContainerInv => StopsListed
  BY DEF ContainerInv, ListInv
<1> QED BY <1>1, ContainerInvariant, PTL

-------------------------------------------------------------------------------
\* What a function counts, one by one.
Units(f, s) == {p \in s \X Nat : p[2] \in 1 .. f[p[1]]}

LEMMA UnitsOfOneMore ==
  ASSUME NEW S, NEW f \in [S -> Nat], NEW s \in SUBSET S, NEW x \in S \ s,
         IsFiniteSet(Units(f, s))
  PROVE  /\ IsFiniteSet(Units(f, s \cup {x}))
         /\ Cardinality(Units(f, s \cup {x})) = Cardinality(Units(f, s)) + f[x]
<1> DEFINE U == Units(f, s)
           V == {<<x, i>> : i \in 1 .. f[x]}
<1>1. IsFiniteSet(1 .. f[x]) /\ Cardinality(1 .. f[x]) = f[x]
  BY FS_Interval
<1>2. IsFiniteSet(V) /\ Cardinality(V) = f[x]
  <2>1. [i \in 1 .. f[x] |-> <<x, i>>] \in Bijection(1 .. f[x], V)
    BY DEF Bijection, Injection, Surjection, IsInjective
  <2>2. ExistsBijection(1 .. f[x], V)
    BY <2>1 DEF ExistsBijection
  <2>3. QED
    BY <1>1, <2>2, FS_Bijection
<1>3. Units(f, s \cup {x}) = U \cup V
  BY DEF Units
<1>4. U \cap V = {}
  BY DEF Units
<1>5. Cardinality(U) \in Nat
  BY FS_CardinalityType
<1>6. Cardinality(U \cup V) = Cardinality(U) + Cardinality(V) - 0 /\ IsFiniteSet(U \cup V)
  BY <1>2, <1>4, FS_Union, FS_EmptySet
<1>7. f[x] \in Nat
  OBVIOUS
<1>8. QED
  <2> HIDE DEF U, V
  <2>1. Cardinality(U \cup V) = Cardinality(U) + f[x]
    BY <1>2, <1>5, <1>6, <1>7
  <2>2. QED
    BY <1>3, <1>6, <2>1 DEF U

\* Of sets of elements of a finite set one is least: the induction over finite sets.
LEMMA LeastSet ==
  ASSUME NEW S, IsFiniteSet(S), NEW T, T \subseteq SUBSET S, T # {}
  PROVE  \E s \in T : \A t \in T : t \subseteq s => t = s
<1> DEFINE R == StrictSubsetOrdering(S)
<1>1. IsWellFoundedOn(R, SUBSET S)
  BY FS_StrictSubsetOrderingWellFounded, FS_FiniteSubsetsOfFinite
<1>2. \A t, s \in SUBSET S : t \subseteq s /\ t # s => <<t, s>> \in R
  BY DEF StrictSubsetOrdering
<1> HIDE DEF R
<1>3. \E s \in T : \A t \in T : <<t, s>> \notin R
  BY <1>1, WFMin
<1>4. QED
  BY <1>2, <1>3

LEMMA SumIsCardinality ==
  ASSUME NEW S, IsFiniteSet(S), NEW f \in [S -> Nat]
  PROVE  SumFunction(f) = Cardinality(Units(f, S)) /\ IsFiniteSet(Units(f, S))
<1> DEFINE pick(s) == CHOOSE x \in s : TRUE
           Sums(g) == g = [s \in SUBSET S |-> IF s = {} THEN 0 ELSE f[pick(s)] + g[s \ {pick(s)}]]
           units == [s \in SUBSET S |-> Cardinality(Units(f, s))]
           iter == CHOOSE g : Sums(g)
<1>1. SumFunction(f) = iter[S]
  BY DEF SumFunction, SumFunctionOnSet, FoldFunctionOnSet, MapThenFoldSet
<1>2. ASSUME NEW s \in SUBSET S, s # {}
      PROVE  \E x \in S, t \in SUBSET S : x = pick(s) /\ t = s \ {x} /\ x \notin t /\ t # s /\ s = t \cup {x}
  <2>1. pick(s) \in s
    BY <1>2
  <2> HIDE DEF pick
  <2>2. /\ pick(s) \in S /\ s \ {pick(s)} \in SUBSET S /\ pick(s) \notin s \ {pick(s)}
        /\ s \ {pick(s)} # s /\ s = (s \ {pick(s)}) \cup {pick(s)}
    BY <2>1
  <2>3. QED
    BY <2>2
<1> HIDE DEF pick
<1>3. \A s \in SUBSET S : IsFiniteSet(Units(f, s))
  <2> DEFINE bad == {s \in SUBSET S : ~IsFiniteSet(Units(f, s))}
  <2> SUFFICES ASSUME bad # {} PROVE FALSE
    OBVIOUS
  <2>1. PICK s \in bad : \A t \in bad : t \subseteq s => t = s
    <3> HIDE DEF bad
    <3>1. bad \subseteq SUBSET S
      BY DEF bad
    <3>2. QED
      BY <3>1, LeastSet
  <2>2. s # {}
    <3>1. Units(f, {}) = {}
      BY DEF Units
    <3>2. QED
      BY <3>1, FS_EmptySet
  <2>3. PICK x \in S, t \in SUBSET S : x \notin t /\ t # s /\ s = t \cup {x}
    BY <1>2, <2>2
  <2>4. IsFiniteSet(Units(f, t))
    BY <2>1, <2>3
  <2>5. IsFiniteSet(Units(f, t \cup {x}))
    BY <2>3, <2>4, UnitsOfOneMore
  <2>6. QED
    BY <2>3, <2>5
<1>4. Sums(units)
  <2> SUFFICES ASSUME NEW s \in SUBSET S
               PROVE  Cardinality(Units(f, s)) = IF s = {} THEN 0 ELSE f[pick(s)] + units[s \ {pick(s)}]
    OBVIOUS
  <2>1. CASE s = {}
    <3>1. Units(f, s) = {}
      BY <2>1 DEF Units
    <3>2. QED
      BY <2>1, <3>1, FS_EmptySet
  <2>2. CASE s # {}
    <3>1. PICK x \in S, t \in SUBSET S : x = pick(s) /\ t = s \ {x} /\ x \notin t /\ s = t \cup {x}
      BY <1>2, <2>2
    <3>2. IsFiniteSet(Units(f, t)) /\ units[t] = Cardinality(Units(f, t))
      BY <1>3, <3>1
    <3>3. Cardinality(Units(f, s)) = Cardinality(Units(f, t)) + f[x]
      BY <3>1, <3>2, UnitsOfOneMore
    <3>4. Cardinality(Units(f, t)) \in Nat /\ f[x] \in Nat
      BY <3>1, <3>2, FS_CardinalityType
    <3>5. Cardinality(Units(f, s)) = f[x] + units[t]
      BY <3>2, <3>3, <3>4
    <3>6. QED
      BY <2>2, <3>1, <3>5
  <2>3. QED
    BY <2>1, <2>2
<1> HIDE DEF units
<1>5. Sums(iter)
  BY <1>4
<1> HIDE DEF iter
<1>6. \A s \in SUBSET S : iter[s] = units[s]
  <2> DEFINE bad == {s \in SUBSET S : iter[s] # units[s]}
  <2> SUFFICES ASSUME bad # {} PROVE FALSE
    OBVIOUS
  <2>1. PICK s \in bad : \A t \in bad : t \subseteq s => t = s
    <3> HIDE DEF bad
    <3>1. bad \subseteq SUBSET S
      BY DEF bad
    <3>2. QED
      BY <3>1, LeastSet
  <2>2. /\ iter[s] = IF s = {} THEN 0 ELSE f[pick(s)] + iter[s \ {pick(s)}]
        /\ units[s] = IF s = {} THEN 0 ELSE f[pick(s)] + units[s \ {pick(s)}]
    BY <1>4, <1>5
  <2>3. s # {} => iter[s \ {pick(s)}] = units[s \ {pick(s)}]
    <3> SUFFICES ASSUME s # {} PROVE iter[s \ {pick(s)}] = units[s \ {pick(s)}]
      OBVIOUS
    <3>1. PICK x \in S, t \in SUBSET S : x = pick(s) /\ t = s \ {x} /\ t # s /\ s = t \cup {x}
      BY <1>2
    <3>2. QED
      BY <2>1, <3>1
  <2>4. QED
    BY <2>2, <2>3
<1>7. QED
  BY <1>1, <1>3, <1>6 DEF units

\* A sum is a number, 0 if all is 0, and grows by what one place grows by.
LEMMA SumType ==
  ASSUME NEW S, IsFiniteSet(S), NEW f \in [S -> Nat]
  PROVE  SumFunction(f) \in Nat
BY SumIsCardinality, FS_CardinalityType

LEMMA SumOfZeros ==
  ASSUME NEW S, IsFiniteSet(S), NEW f \in [S -> Nat], \A x \in S : f[x] = 0
  PROVE  SumFunction(f) = 0
<1>1. Units(f, S) = {}
  BY DEF Units
<1>2. QED
  BY <1>1, SumIsCardinality, FS_EmptySet

LEMMA SumOfOneMore ==
  ASSUME NEW S, IsFiniteSet(S), NEW f \in [S -> Nat], NEW g \in [S -> Nat], NEW x \in S,
         g = [f EXCEPT ![x] = @ + 1]
  PROVE  SumFunction(g) = SumFunction(f) + 1
<1>1. f[x] \in Nat /\ g[x] = f[x] + 1 /\ \A y \in S : y # x => g[y] = f[y]
  OBVIOUS
<1>2. Units(g, S) = Units(f, S) \cup {<<x, f[x] + 1>>} /\ <<x, f[x] + 1>> \notin Units(f, S)
  <2>1. \A i \in Nat : i \in 1 .. f[x] + 1 <=> i \in 1 .. f[x] \/ i = f[x] + 1
    BY <1>1
  <2>2. ASSUME NEW p \in S \X Nat PROVE p \in Units(g, S) <=> p \in Units(f, S) \/ p = <<x, f[x] + 1>>
    BY <1>1, <2>1 DEF Units
  <2>3. <<x, f[x] + 1>> \in S \X Nat
    BY <1>1
  <2>4. Units(f, S) \subseteq S \X Nat /\ Units(g, S) \subseteq S \X Nat
    BY DEF Units
  <2>5. <<x, f[x] + 1>> \notin Units(f, S)
    BY <1>1 DEF Units
  <2>6. QED
    BY <2>2, <2>3, <2>4, <2>5
<1>3. /\ SumFunction(f) = Cardinality(Units(f, S)) /\ IsFiniteSet(Units(f, S))
      /\ SumFunction(g) = Cardinality(Units(g, S))
  BY SumIsCardinality
<1>4. Cardinality(Units(f, S) \cup {<<x, f[x] + 1>>}) = Cardinality(Units(f, S)) + 1
  BY <1>2, <1>3, FS_AddElement
<1>5. QED
  BY <1>2, <1>3, <1>4

-------------------------------------------------------------------------------
\* A thread that has a channel for a consumer has not subscribed it yet.
NewConsumers == \A t \in Adders : pc[t] = "consuming" => hand[t] \notin subscribed

\* While start still adds consumers as well as when the container runs, the consumers are
\* as many as start has subscribed.
Account ==
    /\ Cardinality(subscribed) + Replacing + abandoned
          = started + (IF pc["main"] = "adding" THEN 1 ELSE 0)
    /\ pc["main"] = "running" => started = MaxConsumers

AccountInv ==
    /\ NewConsumers
    /\ outages = 0 /\ pc["main"] \in AddStates \cup {"running"} => Account

LEMMA NewConsumersNext ==
    ASSUME HolderInv, NewConsumers, [Next]_vars
    PROVE  NewConsumers'
<1> USE ConstantsAssumption
    DEF NewConsumers, HolderInv, PoolTypes, Hands, Adders, Threads, Goto, Throws
<1>1. ASSUME NEW t \in Threads, GetChannel(t) PROVE NewConsumers'
  <2>1. Room => chan[NewChannel] = "none"
    BY DEF Room, NewChannel
  <2>2. PICK c \in Channels : /\ (idle # <<>> /\ c = Head(idle)) \/ chan[c] = "none"
                              /\ hand' = [hand EXCEPT ![t] = c]
    BY <1>1, <2>1 DEF GetChannel
  <2>3. c \notin subscribed
    BY <2>2, TailOfIdle DEF PoolBooks
  <2>4. UNCHANGED subscribed /\ \A o \in Threads : o # t => pc'[o] = pc[o]
    BY <1>1 DEF GetChannel
  <2>5. QED
    BY <2>2, <2>3, <2>4
<1>2. ASSUME NEW t \in Threads, GetChannelFails(t) PROVE NewConsumers'
  BY <1>2 DEF GetChannelFails
<1>3. ASSUME NEW u \in Users, Execute(u) \/ ReleaseChannel(u) PROVE NewConsumers'
  BY <1>3 DEF Execute, ReleaseChannel
<1>4. ASSUME NEW t \in Adders, Consume(t) PROVE NewConsumers'
  BY <1>4 DEF Consume
<1>5. ASSUME NEW t \in Adders, ConsumeFails(t) \/ AddConsumer(t) PROVE NewConsumers'
  <2>1. UNCHANGED subscribed /\ hand' = [hand EXCEPT ![t] = None]
    BY <1>5 DEF ConsumeFails, AddConsumer
  <2>2. \A o \in Adders : o # t => pc'[o] = pc[o]
    <3>1. CASE ConsumeFails(t)
      BY <3>1 DEF ConsumeFails
    <3>2. CASE AddConsumer(t)
      <4>1. PICK l : pc' = [pc EXCEPT ![t] = l]
        <5>1. CASE t = "main"
          BY <3>2, <5>1 DEF AddConsumer
        <5>2. CASE t # "main"
          BY <3>2, <5>2 DEF AddConsumer
        <5> QED
          BY <5>1, <5>2
      <4> QED
        BY <4>1
    <3> QED
      BY <1>5, <3>1, <3>2
  <2>3. t \in Threads /\ None \notin subscribed
    <3>1. t \in Threads
      BY DEF Adders
    <3>2. subscribed \subseteq Channels /\ None \notin Channels
      OBVIOUS
    <3> QED
      BY <3>1, <3>2
  <2>4. QED
    BY <2>1, <2>2, <2>3
<1>6. ASSUME NEW c \in Channels, HandleShutdown(c) \/ ChannelDies(c) PROVE NewConsumers'
  BY <1>6 DEF HandleShutdown, ChannelDies
<1>7. CASE StopBegins \/ StopNext \/ StopThrows \/ StopEnds \/ CloseConnection \/ ClosePool
  BY <1>7 DEF StopBegins, StopNext, StopThrows, StopEnds, CloseConnection, ClosePool
<1>8. CASE ConnectionFails \/ ConnectionRecovers \/ UNCHANGED vars
  BY <1>8 DEF ConnectionFails, ConnectionRecovers, vars
<1>9. QED
  BY <1>1, <1>2, <1>3, <1>4, <1>5, <1>6, <1>7, <1>8 DEF Next, Add, Stop

\* A consumer is signalled, or a signal is served.
LEMMA SumOfSignals ==
    ASSUME signals \in [Channels -> Nat], signals' \in [Channels -> Nat], NEW c \in Channels
    PROVE  /\ signals' = [signals EXCEPT ![c] = @ + 1]
                 => SumFunction(signals') = SumFunction(signals) + 1
           /\ signals = [signals' EXCEPT ![c] = @ + 1]
                 => SumFunction(signals) = SumFunction(signals') + 1
<1>1. IsFiniteSet(Channels)
  BY ConstantsAssumption
<1>2. ASSUME NEW f \in [Channels -> Nat], NEW g \in [Channels -> Nat], g = [f EXCEPT ![c] = @ + 1]
      PROVE  SumFunction(g) = SumFunction(f) + 1
  BY <1>1, <1>2, SumOfOneMore
<1>3. QED
  BY <1>2

\* What changes the account.
LEMMA AccountNext ==
    ASSUME HolderInv, FieldTypes, FieldTypes', HolderInv', AccountInv, [Next]_vars,
           outages' = 0, pc'["main"] \in AddStates \cup {"running"}
    PROVE  Account'
<1> DEFINE n == Cardinality(subscribed)
           waiting == SumFunction(signals)
           serving == IF pc["shutdown"] \in {"borrowing", "consuming"} THEN 1 ELSE 0
           extra == IF pc["main"] = "adding" THEN 1 ELSE 0
<1> USE ConstantsAssumption DEF FieldTypes, HolderInv, PoolTypes, Threads, Goto, AddStates
<1>1. /\ IsFiniteSet(Channels)
      /\ IsFiniteSet(subscribed) /\ n \in Nat
      /\ signals \in [Channels -> Nat] /\ waiting \in Nat
      /\ abandoned \in Nat /\ started \in Nat
  <2>1. IsFiniteSet(Channels) /\ subscribed \subseteq Channels
    OBVIOUS
  <2>2. IsFiniteSet(subscribed)
    BY <2>1, FS_Subset
  <2>3. QED
    BY <2>1, <2>2, FS_CardinalityType, SumType
<1> DEFINE Balance == n + (waiting + serving) + abandoned = started + extra
<1>2. Account <=> Balance /\ (pc["main"] = "running" => started = MaxConsumers)
  BY DEF Account, Replacing
<1>3. Account' <=> Balance' /\ (pc'["main"] = "running" => started' = MaxConsumers)
  BY DEF Account, Replacing
<1>4. ASSUME outages = 0, pc["main"] \in AddStates \cup {"running"} PROVE Account
  BY <1>4 DEF AccountInv
\* A step that changes nothing of the account.
<1>5. ASSUME UNCHANGED <<subscribed, signals, abandoned, started, outages>>,
             pc'["shutdown"] = pc["shutdown"]
                \/ (pc["shutdown"] = "borrowing" /\ pc'["shutdown"] = "consuming"),
             pc'["main"] = pc["main"] \/ (pc["main"] = "borrowing" /\ pc'["main"] = "consuming")
      PROVE  Account'
  <2>1. Account
    BY <1>4, <1>5
  <2>2. /\ n' = n /\ waiting' = waiting /\ serving' = serving /\ extra' = extra
        /\ pc'["main"] = "running" => pc["main"] = "running"
    BY <1>5
  <2> HIDE DEF n, waiting, serving, extra
  <2>3. QED
    BY <1>2, <1>3, <1>5, <2>1, <2>2
<1>6. ASSUME NEW t \in Threads, Throws(t), pc[t] \in {"borrowing", "consuming"},
             UNCHANGED <<subscribed, signals, started, outages>>
      PROVE  Account'
  <2>1. t # "main"
    BY <1>6 DEF Throws
  <2>2. CASE t = "shutdown"
    <3>1. /\ pc'["main"] = pc["main"] /\ abandoned' = abandoned + 1
          /\ n' = n /\ waiting' = waiting /\ serving = 1 /\ serving' = 0 /\ extra' = extra
      BY <1>6, <2>2 DEF Throws
    <3>2. Account
      BY <1>4, <1>6, <3>1
    <3> HIDE DEF n, waiting, serving, extra
    <3>3. QED
      BY <1>1, <1>2, <1>3, <1>6, <3>1, <3>2
  <2>3. CASE t # "shutdown"
    <3>1. pc'["main"] = pc["main"] /\ pc'["shutdown"] = pc["shutdown"] /\ UNCHANGED abandoned
      BY <1>6, <2>1, <2>3 DEF Throws
    <3>2. QED
      BY <1>5, <1>6, <3>1
  <2>4. QED
    BY <2>2, <2>3
<1>7. ASSUME NEW t \in Threads, GetChannel(t) PROVE Account'
  <2>1. /\ pc[t] = "borrowing" /\ pc' = [pc EXCEPT ![t] = IF t \in Users THEN "using" ELSE "consuming"]
        /\ UNCHANGED <<subscribed, signals, abandoned, started, outages>>
    BY <1>7 DEF GetChannel, stopVars, countVars
  <2>2. QED
    BY <1>5, <2>1
<1>8. ASSUME NEW t \in Threads, GetChannelFails(t) PROVE Account'
  BY <1>6, <1>8 DEF GetChannelFails, stopVars
<1>9. ASSUME NEW u \in Users, Execute(u) \/ ReleaseChannel(u) PROVE Account'
  BY <1>5, <1>9 DEF Execute, ReleaseChannel, stopVars, countVars
<1>10. ASSUME NEW t \in Adders, Consume(t) PROVE Account'
  <2>1. /\ t \in Threads /\ pc[t] = "consuming" /\ hand[t] \notin subscribed
        /\ subscribed' = subscribed \cup {hand[t]}
        /\ pc' = [pc EXCEPT ![t] = "adding"]
        /\ UNCHANGED <<signals, abandoned, started, outages>>
    BY <1>10 DEF Consume, stopVars, countVars, Adders, AccountInv, NewConsumers
  <2>2. n' = n + 1 /\ waiting' = waiting
    BY <1>1, <2>1, FS_AddElement
  <2>3. Account /\ (pc'["main"] = "running" => pc["main"] = "running")
    BY <1>4, <2>1
  <2>4. \/ t = "main" /\ serving' = serving /\ extra = 0 /\ extra' = 1
        \/ t = "shutdown" /\ serving = 1 /\ serving' = 0 /\ extra' = extra
    BY <1>10, <2>1 DEF Adders
  <2>5. serving \in Nat /\ extra \in Nat
    OBVIOUS
  <2> HIDE DEF n, waiting, serving, extra
  <2>6. UNCHANGED <<abandoned, started>>
    BY <2>1
  <2>7. Balance
    BY <1>2, <2>3
  <2>8. CASE serving' = serving /\ extra = 0 /\ extra' = 1
    BY <1>1, <1>2, <1>3, <2>2, <2>3, <2>5, <2>6, <2>7, <2>8
  <2>9. CASE serving = 1 /\ serving' = 0 /\ extra' = extra
    BY <1>1, <1>2, <1>3, <2>2, <2>3, <2>5, <2>6, <2>7, <2>9
  <2>10. QED
    BY <2>4, <2>8, <2>9
<1>11. ASSUME NEW t \in Adders, ConsumeFails(t) PROVE Account'
  BY <1>6, <1>11 DEF ConsumeFails, stopVars, Adders
<1>12. ASSUME NEW t \in Adders, AddConsumer(t) PROVE Account'
  <2>1. t \in Threads /\ pc[t] = "adding" /\ UNCHANGED <<subscribed, signals, abandoned, outages>>
    BY <1>12 DEF AddConsumer, countVars, Adders
  <2>2. CASE t = "main"
    <3>1. /\ started' = started + 1
          /\ pc' = [pc EXCEPT !["main"] = IF started' < MaxConsumers THEN "borrowing" ELSE "running"]
      BY <1>12, <2>2 DEF AddConsumer
    <3>2. /\ n' = n /\ waiting' = waiting /\ serving' = serving /\ extra = 1 /\ extra' = 0
          /\ pc["main"] = "adding"
      BY <2>1, <2>2, <3>1
    <3>3. Account /\ (pc'["main"] = "running" => started' = MaxConsumers)
      BY <1>4, <2>1, <3>1, <3>2
    <3>4. serving \in Nat
      OBVIOUS
    <3> HIDE DEF n, waiting, serving, extra
    <3>5. QED
      BY <1>1, <1>2, <1>3, <2>1, <3>1, <3>2, <3>3, <3>4
  <2>3. CASE t = "shutdown"
    <3>1. UNCHANGED started /\ pc' = [pc EXCEPT !["shutdown"] = "idle"]
      BY <1>12, <2>3 DEF AddConsumer
    <3>2. /\ n' = n /\ waiting' = waiting /\ serving' = serving /\ extra' = extra
          /\ pc'["main"] = pc["main"]
      BY <2>1, <2>3, <3>1
    <3>3. Account
      BY <1>4, <2>1, <3>2
    <3> HIDE DEF n, waiting, serving, extra
    <3>4. QED
      BY <1>2, <1>3, <2>1, <3>1, <3>2, <3>3
  <2>4. QED
    BY <2>2, <2>3 DEF Adders
<1>13. ASSUME NEW c \in Channels, HandleShutdown(c) PROVE Account'
  <2>1. /\ signals[c] > 0 /\ signals' = [signals EXCEPT ![c] = @ - 1]
        /\ pc["shutdown"] = "idle" /\ pc' = [pc EXCEPT !["shutdown"] = "borrowing"]
        /\ UNCHANGED <<subscribed, abandoned, started, outages>>
    BY <1>13 DEF HandleShutdown, stopVars, countVars
  <2>2. waiting = waiting' + 1 /\ waiting' \in Nat
    <3>1. signals' \in [Channels -> Nat]
      OBVIOUS
    <3>2. signals = [signals' EXCEPT ![c] = @ + 1]
      <4>1. signals'[c] + 1 = signals[c] /\ \A d \in Channels : d # c => signals'[d] = signals[d]
        BY <1>1, <2>1
      <4>2. QED
        BY <1>1, <3>1, <4>1
    <3>3. SumFunction(signals) = SumFunction(signals') + 1 /\ SumFunction(signals') \in Nat
      BY <1>1, <3>1, <3>2, SumOfSignals, SumType
    <3>4. QED
      BY <3>3
  <2>3. n' = n /\ serving = 0 /\ serving' = 1 /\ extra' = extra /\ pc'["main"] = pc["main"]
    BY <2>1
  <2>4. Account
    BY <1>4, <2>1, <2>3
  <2> HIDE DEF n, waiting, serving, extra
  <2>5. QED
    BY <1>1, <1>2, <1>3, <2>1, <2>2, <2>3, <2>4
<1>14. ASSUME NEW c \in Channels, ChannelDies(c) PROVE Account'
  <2>1. /\ subscribed' = subscribed \ {c}
        /\ signals' = [signals EXCEPT ![c] = IF c \in subscribed THEN @ + 1 ELSE @]
        /\ UNCHANGED <<pc, abandoned, started, outages>>
    BY <1>14 DEF ChannelDies, stopVars
  <2>2. CASE c \in subscribed
    <3>1. n' = n - 1
      BY <1>1, <2>1, <2>2, FS_RemoveElement
    <3>2. waiting' = waiting + 1
      <4>1. signals' \in [Channels -> Nat] /\ signals' = [signals EXCEPT ![c] = @ + 1]
        BY <2>1, <2>2
      <4>2. SumFunction(signals') = SumFunction(signals) + 1
        BY <1>1, <4>1, SumOfSignals
      <4>3. QED
        BY <4>2
    <3>3. serving' = serving /\ extra' = extra /\ serving \in Nat /\ Account
      BY <1>4, <2>1
    <3> HIDE DEF n, waiting, serving, extra
    <3>4. QED
      BY <1>1, <1>2, <1>3, <2>1, <3>1, <3>2, <3>3
  <2>3. CASE c \notin subscribed
    <3>1. UNCHANGED subscribed /\ UNCHANGED signals
      BY <2>1, <2>3
    <3>2. QED
      BY <1>5, <2>1, <3>1
  <2>4. QED
    BY <2>2, <2>3
<1>15. CASE StopBegins \/ Stop
  BY <1>15 DEF StopBegins, Stop, StopNext, StopThrows, StopEnds, CloseConnection, ClosePool
<1>16. CASE ConnectionFails
  BY <1>16 DEF ConnectionFails
<1>17. CASE ConnectionRecovers \/ UNCHANGED vars
  <2>1. UNCHANGED <<subscribed, signals, abandoned, started, outages, pc>>
    BY <1>17 DEF ConnectionRecovers, vars, stopVars, countVars, poolVars, listVars
  <2>2. QED
    BY <1>5, <2>1
<1>18. QED
  BY <1>7, <1>8, <1>9, <1>10, <1>11, <1>12, <1>13, <1>14, <1>15, <1>16, <1>17 DEF Next, Add

\* While the container runs on one connection, every consumer it started is subscribed,
\* about to be replaced or was lost to a handleShutdown that threw: none is forgotten and
\* none is replaced twice.
THEOREM NoConsumerIsForgotten == Spec => []ConsumersAccounted
<1>1. Init => AccountInv
  <2> SUFFICES ASSUME Init PROVE AccountInv
    OBVIOUS
  <2>1. pc["main"] = "borrowing" /\ pc["shutdown"] = "idle"
    BY DEF Init, Threads
  <2>2. Cardinality(subscribed) = 0
    BY FS_EmptySet DEF Init
  <2>3. SumFunction(signals) = 0
    BY SumOfZeros, ConstantsAssumption DEF Init
  <2>4. Account
    BY <2>1, <2>2, <2>3 DEF Init, Account, Replacing
  <2>5. QED
    BY <2>4 DEF Init, AccountInv, NewConsumers, Adders
<1>2. ContainerInv /\ ContainerInv' /\ AccountInv /\ [Next]_vars => AccountInv'
  <2> SUFFICES ASSUME ContainerInv, ContainerInv', AccountInv, [Next]_vars PROVE AccountInv'
    OBVIOUS
  <2>1. HolderInv /\ HolderInv' /\ FieldTypes /\ FieldTypes'
    BY DEF ContainerInv
  <2>2. NewConsumers'
    BY <2>1, NewConsumersNext DEF AccountInv
  <2>3. outages' = 0 /\ pc'["main"] \in AddStates \cup {"running"} => Account'
    BY <2>1, AccountNext
  <2>4. QED
    BY <2>2, <2>3 DEF AccountInv, AddStates
<1>3. ContainerInv /\ AccountInv => ConsumersAccounted
  <2> SUFFICES ASSUME ContainerInv, AccountInv, pc["main"] = "running", outages = 0
               PROVE  Cardinality(subscribed) + Replacing + abandoned = MaxConsumers
    BY DEF ConsumersAccounted
  <2>1. Account
    BY DEF AccountInv
  <2>2. QED
    BY <2>1, ConstantsAssumption DEF Account
<1>4. QED
  BY <1>1, <1>2, <1>3, ContainerInvariant, PTL DEF Spec
===============================================================================
