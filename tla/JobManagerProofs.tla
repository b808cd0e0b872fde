--------------------------- MODULE JobManagerProofs ---------------------------
(***************************************************************************)
(* When every node of the cluster runs the same release, the job store     *)
(* holds that release's configuration: proved for any number of nodes,     *)
(* jobs and releases, and any failures.                                    *)
(***************************************************************************)
EXTENDS JobManager, TLAPS

AllOn(r) == \A n \in Nodes : release[n] = r

\* In its start n has not come as far as to have the trigger of j replaced.
Early(n, j) ==
    \/ pc[n] = "down"
    \/ pc[n] = "starting" /\ j >= next[n]
    \/ /\ pc[n] \in AddStates /\ ~firing[n]
       /\ j >= next[n] \/ (j = current[n] /\ pc[n] = "creating")

Updating(n, j) == pc[n] = "updating" /\ ~firing[n] /\ j = current[n]

\* In its start n has not finished with j.
Pending(n, j) ==
    \/ pc[n] = "down"
    \/ pc[n] = "starting" /\ j >= next[n]
    \/ pc[n] \in AddStates /\ ~firing[n] /\ (j >= next[n] \/ j = current[n])

\* Where a node is agrees with what its release says of the job it adds.
StepsFit ==
    \A n \in Nodes :
        /\ pc[n] \in {"creating", "updating"} =>
              current[n] \in Enabled[release[n]] \cap Scheduled[release[n]]
        /\ pc[n] \in {"storing", "triggering"} => current[n] \in Enabled[release[n]]
        /\ pc[n] \in {"listing", "unscheduling", "removing"} =>
              current[n] \notin Enabled[release[n]]
        /\ pc[n] \notin AddStates => ~firing[n]
        /\ pc[n] = "triggering" => firing[n]
        /\ pc[n] = "down" => next[n] = 1

\* Once every node runs release r, a job is as r wants it or some node has still to
\* see to it; a trigger that is missing is seen to by a node that has not looked yet.
TriggersKept ==
    \A r \in Releases, j \in Jobs :
        AllOn(r) /\ j \in Enabled[r] \cap Scheduled[r] =>
            \/ trigger[j] = r
            \/ \E n \in Nodes : Early(n, j)
            \/ trigger[j] # None /\ \E n \in Nodes : Updating(n, j)

JobsKept ==
    \A r \in Releases, j \in Jobs :
        AllOn(r) =>
            \/ job[j] = IF j \in Enabled[r] THEN r ELSE None
            \/ \E n \in Nodes : Pending(n, j)

IInv == TypeOK /\ StepsFit /\ TriggersKept /\ JobsKept

-------------------------------------------------------------------------------
\* The actions of one node.
NodeStep(n) ==
    \/ \E q \in Releases : ServerStarted(n, q)
    \/ AddNext(n) \/ StartScheduler(n)
    \/ ScheduleJob(n) \/ ScheduleJobThrows(n) \/ RescheduleJob(n)
    \/ StoreJob(n) \/ ListTriggers(n) \/ RemoveJob(n)
    \/ \E k \in {"schedule", "once"} : Unschedule(n, k) \/ UnscheduleThrows(n, k)
    \/ TriggerJob(n) \/ NodeStops(n) \/ NodeDies(n) \/ StoreFails(n)
    \/ \E j \in Jobs : FireNow(n, j) \/ RunOnce(n, j)

LEMMA NextActions == Next => \E n \in Nodes : NodeStep(n)
BY DEF Next, StartUp, AddJobStep, NodeStep

\* Type correctness, and the agreement of every node with its release.
LEMMA TypeInit == Init => TypeOK /\ StepsFit
BY ConstantsAssumption DEF Init, TypeOK, StepsFit, AddStates, Releases

LEMMA TypeStep ==
  ASSUME TypeOK, StepsFit, [Next]_vars
  PROVE  TypeOK' /\ StepsFit'
<1>1. CASE UNCHANGED vars
  BY <1>1 DEF TypeOK, StepsFit, vars, store, counts
<1>2. CASE Next
  <2>0. PICK n \in Nodes : NodeStep(n)
    BY <1>2, NextActions
  <2> USE ConstantsAssumption DEF TypeOK, StepsFit, store, counts, Goto
  <2>1. ASSUME NEW r \in Releases, ServerStarted(n, r) PROVE TypeOK' /\ StepsFit'
    BY <2>1 DEF ServerStarted, AddStates
  <2>2. CASE AddNext(n)
    BY <2>2 DEF AddNext, AddJob, AddStates, Jobs
  <2>3. CASE StartScheduler(n)
    BY <2>3 DEF StartScheduler, AddStates
  <2>4. CASE ScheduleJob(n)
    BY <2>4 DEF ScheduleJob, AddStates
  <2>5. CASE ScheduleJobThrows(n)
    BY <2>5 DEF ScheduleJobThrows, Throws, AddStates
  <2>6. CASE RescheduleJob(n)
    BY <2>6 DEF RescheduleJob, AddStates
  <2>7. CASE StoreJob(n)
    <3>1. current[n] \in Jobs /\ release[n] \in Releases /\ release[n] # None
      BY <2>7 DEF StoreJob, AddStates
    <3>2. job' = [job EXCEPT ![current[n]] = release[n]]
          /\ UNCHANGED <<trigger, once, release, next, listed, counts>>
      BY <2>7 DEF StoreJob
    <3>3. job' \in [Jobs -> Releases \cup {None}]
          /\ \A j \in Jobs : trigger'[j] # None \/ once'[j] => job'[j] # None
      BY <3>1, <3>2
    <3>4. \/ /\ pc' = [pc EXCEPT ![n] = "triggering"]
             /\ firing[n] /\ UNCHANGED <<current, firing>>
          \/ \E l \in {"running", "starting"} :
               /\ pc' = [pc EXCEPT ![n] = l]
               /\ current' = [current EXCEPT ![n] = None]
               /\ firing' = [firing EXCEPT ![n] = FALSE]
      BY <2>7, <3>1 DEF StoreJob, Added
    <3>5. pc[n] = "storing"
      BY <2>7 DEF StoreJob
    <3>6. /\ pc' \in [Nodes -> {"down", "starting", "running"} \cup AddStates]
          /\ current' \in [Nodes -> Jobs \cup {None}] /\ firing' \in [Nodes -> BOOLEAN]
          /\ \A m \in Nodes : current'[m] # None <=> pc'[m] \in AddStates
      <4>1. CASE UNCHANGED <<current, firing>>
        BY <3>1, <3>4, <3>5, <4>1 DEF AddStates
      <4>2. CASE ~ UNCHANGED <<current, firing>>
        <5>1. PICK l \in {"running", "starting"} :
                /\ pc' = [pc EXCEPT ![n] = l]
                /\ current' = [current EXCEPT ![n] = None]
                /\ firing' = [firing EXCEPT ![n] = FALSE]
          BY <3>4, <4>2
        <5>2. QED
          BY <5>1 DEF AddStates
      <4>3. QED
        BY <4>1, <4>2
    <3>7. StepsFit'
      BY <3>1, <3>2, <3>4, <3>5 DEF AddStates
    <3>8. QED
      BY <3>2, <3>3, <3>6, <3>7
  <2>8. CASE ListTriggers(n)
    <3> DEFINE found == {k \in {"schedule", "once"} :
                           IF k = "once" THEN once[current[n]] ELSE trigger[current[n]] # None}
    <3>1. listed' = [listed EXCEPT ![n] = found] /\ found \in SUBSET {"schedule", "once"}
      BY <2>8 DEF ListTriggers
    <3>2. \E l \in {"removing", "unscheduling"} : pc' = [pc EXCEPT ![n] = l]
      BY <2>8 DEF ListTriggers
    <3> HIDE DEF found
    <3>3. QED
      BY <2>8, <3>1, <3>2 DEF ListTriggers, AddStates
  <2>9. CASE RemoveJob(n)
    <3>1. current[n] \in Jobs /\ pc[n] \in AddStates
      BY <2>9 DEF RemoveJob, AddStates
    <3>2. job' = [job EXCEPT ![current[n]] = None] /\ trigger' = [trigger EXCEPT ![current[n]] = None]
          /\ once' = [once EXCEPT ![current[n]] = FALSE]
      BY <2>9 DEF RemoveJob, Remove
    <3>3. \A j \in Jobs : trigger'[j] # None \/ once'[j] => job'[j] # None
      BY <3>1, <3>2
    <3>4. \E l \in {"running", "starting"} :
             /\ pc' = [pc EXCEPT ![n] = l]
             /\ current' = [current EXCEPT ![n] = None]
             /\ firing' = [firing EXCEPT ![n] = FALSE]
      BY <2>9, <3>1 DEF RemoveJob, Added, AddStates
    <3>5. UNCHANGED <<release, next, listed, counts>>
      BY <2>9 DEF RemoveJob
    <3>6. /\ job' \in [Jobs -> Releases \cup {None}] /\ trigger' \in [Jobs -> Releases \cup {None}]
          /\ once' \in [Jobs -> BOOLEAN]
      BY <3>1, <3>2
    <3>8. /\ pc' \in [Nodes -> {"down", "starting", "running"} \cup AddStates]
          /\ current' \in [Nodes -> Jobs \cup {None}] /\ firing' \in [Nodes -> BOOLEAN]
          /\ \A m \in Nodes : current'[m] # None <=> pc'[m] \in AddStates
      BY <3>4 DEF AddStates
    <3>7. QED
      BY <3>1, <3>3, <3>4, <3>5, <3>6, <3>8 DEF AddStates
  <2>10. ASSUME NEW k \in {"schedule", "once"}, Unschedule(n, k) PROVE TypeOK' /\ StepsFit'
    <3>1. current[n] \in Jobs /\ pc[n] = "unscheduling"
      BY <2>10 DEF Unschedule, AddStates
    <3>2. \E l \in {"removing", "unscheduling"} : pc' = [pc EXCEPT ![n] = l]
      BY <2>10 DEF Unschedule
    <3>3. \/ trigger' = [trigger EXCEPT ![current[n]] = None] /\ UNCHANGED once
          \/ once' = [once EXCEPT ![current[n]] = FALSE] /\ UNCHANGED trigger
      BY <2>10 DEF Unschedule
    <3>4. listed' = [listed EXCEPT ![n] = @ \ {k}]
          /\ UNCHANGED <<job, release, next, current, firing, counts>>
      BY <2>10 DEF Unschedule
    <3>5. trigger' \in [Jobs -> Releases \cup {None}] /\ once' \in [Jobs -> BOOLEAN]
      BY <3>1, <3>3
    <3>7. ASSUME NEW j \in Jobs, trigger'[j] # None \/ once'[j] PROVE job'[j] # None
      <4>1. trigger[j] # None \/ once[j]
        BY <3>1, <3>3, <3>7
      <4>2. QED
        BY <3>4, <4>1
    <3>6. QED
      BY <3>1, <3>2, <3>4, <3>5, <3>7 DEF AddStates
  <2>11. ASSUME NEW k \in {"schedule", "once"}, UnscheduleThrows(n, k) PROVE TypeOK' /\ StepsFit'
    BY <2>11 DEF UnscheduleThrows, Throws, AddStates
  <2>12. CASE TriggerJob(n)
    BY <2>12 DEF TriggerJob, AddStates
  <2>13. CASE NodeStops(n)
    BY <2>13 DEF NodeStops, Ends, AddStates
  <2>14. CASE NodeDies(n)
    BY <2>14 DEF NodeDies, Ends, AddStates
  <2>15. CASE StoreFails(n)
    BY <2>15 DEF StoreFails, Throws, AddStates
  <2>16. ASSUME NEW j \in Jobs, FireNow(n, j) PROVE TypeOK' /\ StepsFit'
    BY <2>16 DEF FireNow, AddJob, AddStates
  <2>17. ASSUME NEW j \in Jobs, RunOnce(n, j) PROVE TypeOK' /\ StepsFit'
    BY <2>17 DEF RunOnce, AddStates
  <2>18. QED
    BY <2>0, <2>1, <2>2, <2>3, <2>4, <2>5, <2>6, <2>7, <2>8, <2>9, <2>10, <2>11, <2>12,
       <2>13, <2>14, <2>15, <2>16, <2>17 DEF NodeStep
<1>3. QED
  BY <1>1, <1>2

-------------------------------------------------------------------------------
\* What the steps of node n may do to the trigger and to the detail of job j when n is
\* at release r.
TriggerMoves(n, r, j) ==
    /\ trigger'[j] = trigger[j] \/ trigger'[j] = r
    /\ Early(n, j) => \/ Early(n, j)'
                      \/ trigger'[j] = r
                      \/ trigger'[j] # None /\ Updating(n, j)'
    /\ Updating(n, j) /\ trigger[j] # None => \/ Early(n, j)' \/ Updating(n, j)'
                                              \/ trigger'[j] = r

Wanted(r, j) == IF j \in Enabled[r] THEN r ELSE None

JobMoves(n, r, j) ==
    /\ job'[j] = job[j] \/ job'[j] = Wanted(r, j)
    /\ Pending(n, j) => Pending(n, j)' \/ job'[j] = Wanted(r, j)

\* A step of n leaves alone where the other nodes are.
OthersStay(n) ==
    \A m \in Nodes \ {n} : /\ pc'[m] = pc[m] /\ next'[m] = next[m]
                           /\ current'[m] = current[m] /\ firing'[m] = firing[m]

LEMMA OthersStep ==
  ASSUME TypeOK, NEW n \in Nodes, NodeStep(n)
  PROVE  OthersStay(n)
<1> USE ConstantsAssumption DEF TypeOK, Goto, OthersStay
<1>1. ASSUME NEW q \in Releases, ServerStarted(n, q) PROVE OthersStay(n)
  BY <1>1 DEF ServerStarted
<1>2. CASE AddNext(n)
  BY <1>2 DEF AddNext, AddJob
<1>3. CASE StartScheduler(n)
  BY <1>3 DEF StartScheduler
<1>4. CASE ScheduleJob(n)
  BY <1>4 DEF ScheduleJob
<1>5. CASE ScheduleJobThrows(n)
  BY <1>5 DEF ScheduleJobThrows, Throws
<1>6. CASE RescheduleJob(n)
  BY <1>6 DEF RescheduleJob
<1>7. CASE StoreJob(n)
  BY <1>7 DEF StoreJob, Added
<1>8. CASE ListTriggers(n)
  BY <1>8 DEF ListTriggers
<1>9. CASE RemoveJob(n)
  BY <1>9 DEF RemoveJob, Remove, Added
<1>10. CASE TriggerJob(n)
  BY <1>10 DEF TriggerJob
<1>11. CASE NodeStops(n)
  BY <1>11 DEF NodeStops, Ends
<1>12. CASE NodeDies(n)
  BY <1>12 DEF NodeDies, Ends
<1>13. CASE StoreFails(n)
  BY <1>13 DEF StoreFails, Throws
<1>14. ASSUME NEW k \in {"schedule", "once"}, Unschedule(n, k) PROVE OthersStay(n)
  BY <1>14 DEF Unschedule
<1>15. ASSUME NEW k \in {"schedule", "once"}, UnscheduleThrows(n, k) PROVE OthersStay(n)
  BY <1>15 DEF UnscheduleThrows, Throws
<1>16. ASSUME NEW i \in Jobs, FireNow(n, i) PROVE OthersStay(n)
  BY <1>16 DEF FireNow, AddJob
<1>17. ASSUME NEW i \in Jobs, RunOnce(n, i) PROVE OthersStay(n)
  BY <1>17 DEF RunOnce
<1>18. QED
  BY <1>1, <1>2, <1>3, <1>4, <1>5, <1>6, <1>7, <1>8, <1>9, <1>10, <1>11, <1>12, <1>13, <1>14, <1>15, <1>16, <1>17 DEF NodeStep

LEMMA TriggerStep ==
  ASSUME TypeOK, StepsFit, NEW n \in Nodes, NodeStep(n),
         NEW r \in Releases, NEW j \in Jobs, release[n] = r \/ pc[n] = "down", j \in Enabled[r] \cap Scheduled[r]
  PROVE  TriggerMoves(n, r, j)
<1> USE ConstantsAssumption DEF TypeOK, StepsFit, Goto, TriggerMoves, Early, Updating, AddStates, Jobs, store
<1>1. ASSUME NEW q \in Releases, ServerStarted(n, q) PROVE TriggerMoves(n, r, j)
  BY <1>1 DEF ServerStarted
<1>2. CASE AddNext(n)
  <2>1. /\ pc[n] = "starting" /\ next[n] \in 1 .. NumJobs /\ next[n] \in Jobs /\ j \in Int
        /\ next'[n] = next[n] + 1 /\ current'[n] = next[n] /\ ~firing'[n] /\ UNCHANGED store
        /\ release[n] = r
    <3>1. pc[n] = "starting" /\ next[n] <= NumJobs /\ next' = [next EXCEPT ![n] = @ + 1]
          /\ UNCHANGED <<store, firing>>
      BY <1>2 DEF AddNext
    <3>2. current' = [current EXCEPT ![n] = next[n]]
      BY <1>2 DEF AddNext, AddJob
    <3>3. next[n] \in 1 .. NumJobs + 1 /\ j \in Int
      OBVIOUS
    <3>4. next[n] \in 1 .. NumJobs
      BY <3>1, <3>3
    <3>5. next'[n] = next[n] + 1 /\ current'[n] = next[n]
      BY <3>1, <3>2
    <3>6. ~firing[n] /\ release[n] = r
      BY <3>1
    <3>7. QED
      BY <3>1, <3>3, <3>4, <3>5, <3>6
  <2>2. pc'[n] \in AddStates
    BY <1>2 DEF AddNext, AddJob
  <2>3. CASE j > next[n]
    BY <2>1, <2>2, <2>3
  <2>4. CASE j = next[n]
    <3>1. pc'[n] = IF trigger[j] = None THEN "creating" ELSE "updating"
      BY <1>2, <2>1, <2>4 DEF AddNext, AddJob
    <3>2. QED
      BY <2>1, <2>2, <2>4, <3>1
  <2>5. CASE j < next[n]
    BY <2>1, <2>5
  <2>6. QED
    BY <2>1, <2>3, <2>4, <2>5
<1>3. CASE StartScheduler(n)
  BY <1>3 DEF StartScheduler
<1>4. CASE ScheduleJob(n)
  BY <1>4 DEF ScheduleJob
<1>5. CASE ScheduleJobThrows(n)
  BY <1>5 DEF ScheduleJobThrows, Throws
<1>6. CASE RescheduleJob(n)
  BY <1>6 DEF RescheduleJob
<1>7. CASE StoreJob(n)
  BY <1>7 DEF StoreJob, Added
<1>8. CASE ListTriggers(n)
  BY <1>8 DEF ListTriggers
<1>9. CASE RemoveJob(n)
  BY <1>9 DEF RemoveJob, Remove, Added
<1>10. CASE TriggerJob(n)
  BY <1>10 DEF TriggerJob
<1>11. CASE NodeStops(n)
  BY <1>11 DEF NodeStops, Ends
<1>12. CASE NodeDies(n)
  BY <1>12 DEF NodeDies, Ends
<1>13. CASE StoreFails(n)
  BY <1>13 DEF StoreFails, Throws
<1>14. ASSUME NEW k \in {"schedule", "once"}, Unschedule(n, k) PROVE TriggerMoves(n, r, j)
  BY <1>14 DEF Unschedule
<1>15. ASSUME NEW k \in {"schedule", "once"}, UnscheduleThrows(n, k) PROVE TriggerMoves(n, r, j)
  BY <1>15 DEF UnscheduleThrows, Throws
<1>16. ASSUME NEW i \in Jobs, FireNow(n, i) PROVE TriggerMoves(n, r, j)
  BY <1>16 DEF FireNow, AddJob
<1>17. ASSUME NEW i \in Jobs, RunOnce(n, i) PROVE TriggerMoves(n, r, j)
  BY <1>17 DEF RunOnce
<1>18. QED
  BY <1>1, <1>2, <1>3, <1>4, <1>5, <1>6, <1>7, <1>8, <1>9, <1>10, <1>11, <1>12, <1>13, <1>14, <1>15, <1>16, <1>17 DEF NodeStep

LEMMA JobStep ==
  ASSUME TypeOK, StepsFit, NEW n \in Nodes, NodeStep(n),
         NEW r \in Releases, NEW j \in Jobs, release[n] = r \/ pc[n] = "down"
  PROVE  JobMoves(n, r, j)
<1> USE ConstantsAssumption DEF TypeOK, StepsFit, Goto, JobMoves, Pending, Wanted, AddStates, Jobs, store
<1>1. ASSUME NEW q \in Releases, ServerStarted(n, q) PROVE JobMoves(n, r, j)
  BY <1>1 DEF ServerStarted
<1>2. CASE AddNext(n)
  <2>1. /\ pc[n] = "starting" /\ next[n] \in 1 .. NumJobs /\ next[n] \in Jobs /\ j \in Int
        /\ next'[n] = next[n] + 1 /\ current'[n] = next[n] /\ ~firing'[n] /\ UNCHANGED store
        /\ release[n] = r
    <3>1. pc[n] = "starting" /\ next[n] <= NumJobs /\ next' = [next EXCEPT ![n] = @ + 1]
          /\ UNCHANGED <<store, firing>>
      BY <1>2 DEF AddNext
    <3>2. current' = [current EXCEPT ![n] = next[n]]
      BY <1>2 DEF AddNext, AddJob
    <3>3. next[n] \in 1 .. NumJobs + 1 /\ j \in Int
      OBVIOUS
    <3>4. next[n] \in 1 .. NumJobs
      BY <3>1, <3>3
    <3>5. next'[n] = next[n] + 1 /\ current'[n] = next[n]
      BY <3>1, <3>2
    <3>6. ~firing[n] /\ release[n] = r
      BY <3>1
    <3>7. QED
      BY <3>1, <3>3, <3>4, <3>5, <3>6
  <2>2. pc'[n] \in AddStates
    BY <1>2 DEF AddNext, AddJob
  <2>3. CASE j > next[n]
    BY <2>1, <2>2, <2>3
  <2>4. CASE j = next[n]
    BY <2>1, <2>2, <2>4
  <2>5. CASE j < next[n]
    BY <2>1, <2>5
  <2>6. QED
    BY <2>1, <2>3, <2>4, <2>5
<1>3. CASE StartScheduler(n)
  BY <1>3 DEF StartScheduler
<1>4. CASE ScheduleJob(n)
  BY <1>4 DEF ScheduleJob
<1>5. CASE ScheduleJobThrows(n)
  BY <1>5 DEF ScheduleJobThrows, Throws
<1>6. CASE RescheduleJob(n)
  BY <1>6 DEF RescheduleJob
<1>7. CASE StoreJob(n)
  BY <1>7 DEF StoreJob, Added
<1>8. CASE ListTriggers(n)
  BY <1>8 DEF ListTriggers
<1>9. CASE RemoveJob(n)
  BY <1>9 DEF RemoveJob, Remove, Added
<1>10. CASE TriggerJob(n)
  BY <1>10 DEF TriggerJob
<1>11. CASE NodeStops(n)
  BY <1>11 DEF NodeStops, Ends
<1>12. CASE NodeDies(n)
  BY <1>12 DEF NodeDies, Ends
<1>13. CASE StoreFails(n)
  BY <1>13 DEF StoreFails, Throws
<1>14. ASSUME NEW k \in {"schedule", "once"}, Unschedule(n, k) PROVE JobMoves(n, r, j)
  BY <1>14 DEF Unschedule
<1>15. ASSUME NEW k \in {"schedule", "once"}, UnscheduleThrows(n, k) PROVE JobMoves(n, r, j)
  BY <1>15 DEF UnscheduleThrows, Throws
<1>16. ASSUME NEW i \in Jobs, FireNow(n, i) PROVE JobMoves(n, r, j)
  BY <1>16 DEF FireNow, AddJob
<1>17. ASSUME NEW i \in Jobs, RunOnce(n, i) PROVE JobMoves(n, r, j)
  BY <1>17 DEF RunOnce
<1>18. QED
  BY <1>1, <1>2, <1>3, <1>4, <1>5, <1>6, <1>7, <1>8, <1>9, <1>10, <1>11, <1>12, <1>13, <1>14, <1>15, <1>16, <1>17 DEF NodeStep

-------------------------------------------------------------------------------
LEMMA TriggersStep ==
  ASSUME TypeOK, StepsFit, TriggersKept, NEW n \in Nodes, NodeStep(n)
  PROVE  TriggersKept'
<1> SUFFICES ASSUME NEW r \in Releases, NEW j \in Jobs, AllOn(r)',
                    j \in Enabled[r] \cap Scheduled[r]
             PROVE  \/ trigger'[j] = r
                    \/ \E m \in Nodes : Early(m, j)'
                    \/ trigger'[j] # None /\ \E m \in Nodes : Updating(m, j)'
  BY DEF TriggersKept
<1>1. OthersStay(n)
  BY OthersStep
<1>2. CASE pc[n] = "down"
  \* n has only just started.
  <2>1. \E q \in Releases : ServerStarted(n, q)
    BY <1>2 DEF NodeStep, AddNext, StartScheduler, ScheduleJob, ScheduleJobThrows,
       RescheduleJob, StoreJob, ListTriggers, RemoveJob, Unschedule, UnscheduleThrows,
       TriggerJob, NodeStops, NodeDies, StoreFails, FireNow, RunOnce, AddStates
  <2>2. pc'[n] = "starting" /\ next'[n] = 1
    BY <1>2, <2>1 DEF ServerStarted, Goto, TypeOK, StepsFit
  <2>3. Early(n, j)'
    BY <2>2 DEF Early, Jobs
  <2>4. QED
    BY <2>3
<1>3. CASE pc[n] # "down"
  <2>1. UNCHANGED release
    BY <1>3 DEF NodeStep, ServerStarted, AddNext, StartScheduler, ScheduleJob,
       ScheduleJobThrows, RescheduleJob, StoreJob, ListTriggers, RemoveJob, Unschedule,
       UnscheduleThrows, TriggerJob, NodeStops, NodeDies, StoreFails, FireNow, RunOnce, Ends
  <2>2. AllOn(r)
    BY <2>1 DEF AllOn
  <2>3. TriggerMoves(n, r, j)
    BY <2>2, TriggerStep DEF AllOn
  <2>4. \A m \in Nodes \ {n} : (Early(m, j) => Early(m, j)') /\ (Updating(m, j) => Updating(m, j)')
    BY <1>1 DEF OthersStay, Early, Updating
  <2>5. trigger[j] # None /\ trigger'[j] # r => trigger'[j] # None
    BY <2>3 DEF TriggerMoves
  <2>6. CASE trigger[j] = r
    BY <2>3, <2>6 DEF TriggerMoves
  <2>7. ASSUME NEW m \in Nodes, Early(m, j)
        PROVE  \/ trigger'[j] = r
               \/ \E l \in Nodes : Early(l, j)'
               \/ trigger'[j] # None /\ \E l \in Nodes : Updating(l, j)'
    BY <2>3, <2>4, <2>7 DEF TriggerMoves
  <2>8. ASSUME NEW m \in Nodes, Updating(m, j), trigger[j] # None
        PROVE  \/ trigger'[j] = r
               \/ \E l \in Nodes : Early(l, j)'
               \/ trigger'[j] # None /\ \E l \in Nodes : Updating(l, j)'
    BY <2>3, <2>4, <2>5, <2>8 DEF TriggerMoves
  <2>9. QED
    BY <2>2, <2>6, <2>7, <2>8 DEF TriggersKept
<1>4. QED
  BY <1>2, <1>3

LEMMA JobsStep ==
  ASSUME TypeOK, StepsFit, JobsKept, NEW n \in Nodes, NodeStep(n)
  PROVE  JobsKept'
<1> SUFFICES ASSUME NEW r \in Releases, NEW j \in Jobs, AllOn(r)'
             PROVE  job'[j] = Wanted(r, j) \/ \E m \in Nodes : Pending(m, j)'
  BY DEF JobsKept, Wanted
<1>1. OthersStay(n)
  BY OthersStep
<1>2. CASE pc[n] = "down"
  <2>1. \E q \in Releases : ServerStarted(n, q)
    BY <1>2 DEF NodeStep, AddNext, StartScheduler, ScheduleJob, ScheduleJobThrows,
       RescheduleJob, StoreJob, ListTriggers, RemoveJob, Unschedule, UnscheduleThrows,
       TriggerJob, NodeStops, NodeDies, StoreFails, FireNow, RunOnce, AddStates
  <2>2. pc'[n] = "starting" /\ next'[n] = 1
    BY <1>2, <2>1 DEF ServerStarted, Goto, TypeOK, StepsFit
  <2>3. Pending(n, j)'
    BY <2>2 DEF Pending, Jobs
  <2>4. QED
    BY <2>3
<1>3. CASE pc[n] # "down"
  <2>1. UNCHANGED release
    BY <1>3 DEF NodeStep, ServerStarted, AddNext, StartScheduler, ScheduleJob,
       ScheduleJobThrows, RescheduleJob, StoreJob, ListTriggers, RemoveJob, Unschedule,
       UnscheduleThrows, TriggerJob, NodeStops, NodeDies, StoreFails, FireNow, RunOnce, Ends
  <2>2. AllOn(r)
    BY <2>1 DEF AllOn
  <2>3. JobMoves(n, r, j)
    BY <2>2, JobStep DEF AllOn
  <2>4. \A m \in Nodes \ {n} : Pending(m, j) => Pending(m, j)'
    BY <1>1 DEF OthersStay, Pending
  <2>5. CASE job[j] = Wanted(r, j)
    BY <2>3, <2>5 DEF JobMoves
  <2>6. ASSUME NEW m \in Nodes, Pending(m, j)
        PROVE  job'[j] = Wanted(r, j) \/ \E l \in Nodes : Pending(l, j)'
    BY <2>3, <2>4, <2>6 DEF JobMoves
  <2>7. QED
    BY <2>2, <2>5, <2>6 DEF JobsKept, Wanted
<1>4. QED
  BY <1>2, <1>3

LEMMA InvInit == Init => IInv
<1> SUFFICES ASSUME Init PROVE TriggersKept /\ JobsKept
  BY TypeInit DEF IInv
<1>1. \A n \in Nodes, j \in Jobs : Early(n, j) /\ Pending(n, j)
  BY DEF Init, Early, Pending
<1>2. \E n \in Nodes : TRUE
  BY ConstantsAssumption
<1>3. QED
  BY <1>1, <1>2 DEF TriggersKept, JobsKept

LEMMA InvStep == IInv /\ [Next]_vars => IInv'
<1> SUFFICES ASSUME IInv, [Next]_vars PROVE IInv'
  OBVIOUS
<1> USE DEF IInv
<1>1. TypeOK' /\ StepsFit'
  BY TypeStep
<1>2. CASE Next
  BY <1>1, <1>2, NextActions, TriggersStep, JobsStep
<1>3. CASE UNCHANGED vars
  <2>1. \A r \in Releases : AllOn(r)' <=> AllOn(r)
    BY <1>3 DEF vars, AllOn
  <2>2. \A n \in Nodes, j \in Jobs : /\ Early(n, j)' <=> Early(n, j)
                                     /\ Updating(n, j)' <=> Updating(n, j)
                                     /\ Pending(n, j)' <=> Pending(n, j)
    BY <1>3 DEF vars, Early, Updating, Pending
  <2>3. UNCHANGED <<job, trigger>>
    BY <1>3 DEF vars, store
  <2>4. QED
    BY <1>1, <2>1, <2>2, <2>3 DEF TriggersKept, JobsKept
<1>4. QED
  BY <1>2, <1>3

\* Every state of every cluster is typed.
THEOREM TypeCorrect == Spec => []TypeOK
<1>1. IInv => TypeOK
  BY DEF IInv
<1>2. QED
  BY <1>1, InvInit, InvStep, PTL DEF Spec

\* When all nodes run one release, the store holds its configuration.
THEOREM ConfigApplied == Spec => []AppliedConfig
<1>1. ASSUME IInv PROVE AppliedConfig
  <2> SUFFICES ASSUME NEW r \in Releases, NEW j \in Jobs,
                      \A n \in Nodes : pc[n] = "running" /\ release[n] = r
               PROVE  Applied(r, j)
    BY DEF AppliedConfig
  <2>1. AllOn(r)
    BY DEF AllOn
  <2>2. \A n \in Nodes : ~Early(n, j) /\ ~Updating(n, j) /\ ~Pending(n, j)
    BY DEF Early, Updating, Pending, AddStates
  <2>3. job[j] = IF j \in Enabled[r] THEN r ELSE None
    BY <1>1, <2>1, <2>2 DEF IInv, JobsKept
  <2>4. j \in Enabled[r] \cap Scheduled[r] => trigger[j] = r
    BY <1>1, <2>1, <2>2 DEF IInv, TriggersKept
  <2>5. QED
    BY <2>3, <2>4 DEF Applied
<1>2. QED
  BY <1>1, InvInit, InvStep, PTL DEF Spec
===============================================================================
