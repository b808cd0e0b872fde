------------------------------ MODULE JobManager ------------------------------
(***************************************************************************)
(* JobManager on the nodes of a cluster that share one Quartz job store.   *)
(* A node that starts adds every configured job to the store, one call of  *)
(* the scheduler at a time, and then starts its scheduler; fireNow adds    *)
(* its job in the same way and triggers it.  Nodes are upgraded one by one *)
(* and whenever they restart, so nodes of several releases of the          *)
(* application, with other configurations, write to the store at once.     *)
(*                                                                         *)
(* Quartz is external: each call modelled as a step is one transaction of  *)
(* the store.  What a release gives a job (class, data, schedule) is named *)
(* by the release.                                                         *)
(***************************************************************************)
EXTENDS Integers, FiniteSets

CONSTANTS Nodes,
          NumJobs,      \* jobs of the configuration, each with its own name
          MaxRelease,   \* releases are 1 .. MaxRelease
          Enabled,      \* Enabled[r]: jobs that are enabled in release r
          Scheduled,    \* Scheduled[r]: jobs that have a schedule in release r
          None,
          MaxFaults,    \* bound: nodes that die and calls of the store that fail
          MaxFires      \* bound: calls of fireNow

Releases == 1 .. MaxRelease
Jobs == 1 .. NumJobs   \* in the order of the configuration

ASSUME ConstantsAssumption ==
    /\ NumJobs \in Nat
    /\ MaxRelease \in Nat \ {0}
    /\ MaxFaults \in Nat
    /\ MaxFires \in Nat
    /\ Enabled \in [Releases -> SUBSET Jobs]
    /\ Scheduled \in [Releases -> SUBSET Jobs]
    /\ None \notin Releases \cup Jobs
    /\ IsFiniteSet(Nodes) /\ Nodes # {}

VARIABLES job,      \* job[j]: the release that stored the detail of j, or None
          trigger,  \* trigger[j]: the release that stored the trigger of j, or None
          once,     \* once[j]: is there a trigger for one immediate run of j?
          release,  \* release[n]: the release node n runs, or ran last
          pc,       \* pc[n]: where node n is
          next,     \* next[n]: the job that serverStarted comes to next
          current,  \* current[n]: the job being added, or None
          firing,   \* firing[n]: is it fireNow that adds the job?
          listed,   \* listed[n]: triggers of current[n] that deleteJob is to remove
          faults,   \* how many faults have happened
          fires     \* how often fireNow was called

store == <<job, trigger, once>>
counts == <<faults, fires>>
vars == <<store, release, pc, next, current, firing, listed, counts>>

AddStates == {"creating", "updating", "storing",
              "listing", "unscheduling", "removing", "triggering"}

TypeOK ==
    /\ job \in [Jobs -> Releases \cup {None}]
    /\ trigger \in [Jobs -> Releases \cup {None}]
    /\ once \in [Jobs -> BOOLEAN]
    /\ \A j \in Jobs : trigger[j] # None \/ once[j] => job[j] # None
    /\ release \in [Nodes -> Releases]
    /\ pc \in [Nodes -> {"down", "starting", "running"} \cup AddStates]
    /\ next \in [Nodes -> 1 .. NumJobs + 1]
    /\ current \in [Nodes -> Jobs \cup {None}]
    /\ \A n \in Nodes : current[n] # None <=> pc[n] \in AddStates
    /\ firing \in [Nodes -> BOOLEAN]
    /\ listed \in [Nodes -> SUBSET {"schedule", "once"}]
    /\ faults \in 0 .. MaxFaults
    /\ fires \in 0 .. MaxFires

Init ==
    /\ job = [j \in Jobs |-> None]
    /\ trigger = [j \in Jobs |-> None]
    /\ once = [j \in Jobs |-> FALSE]
    /\ release = [n \in Nodes |-> 1]
    /\ pc = [n \in Nodes |-> "down"]
    /\ next = [n \in Nodes |-> 1]
    /\ current = [n \in Nodes |-> None]
    /\ firing = [n \in Nodes |-> FALSE]
    /\ listed = [n \in Nodes |-> {}]
    /\ faults = 0
    /\ fires = 0

-------------------------------------------------------------------------------
Goto(n, l) == pc' = [pc EXCEPT ![n] = l]

\* The process starts, perhaps with a later release: serverStarted.
ServerStarted(n, r) ==
    /\ pc[n] = "down"
    /\ r >= release[n]
    /\ release' = [release EXCEPT ![n] = r]
    /\ Goto(n, "starting")
    /\ UNCHANGED <<store, next, current, firing, listed, counts>>

\* The scheduler starts when every job has been added.
StartScheduler(n) ==
    /\ pc[n] = "starting"
    /\ next[n] > NumJobs
    /\ next' = [next EXCEPT ![n] = 1]
    /\ Goto(n, "running")
    /\ UNCHANGED <<store, release, current, firing, listed, counts>>

\* Mutant of AddJob: every trigger is created anew.
AddJobCreates(n, j) ==
    /\ current' = [current EXCEPT ![n] = j]
    /\ Goto(n, IF j \notin Enabled[release[n]] THEN "listing"
               ELSE IF j \notin Scheduled[release[n]] THEN "storing"
               ELSE "creating")

\* addJob: what the configuration of n says of the job.  createOrUpdateTrigger reads
\* the trigger of a job with a schedule.
AddJob(n, j) ==
    /\ current' = [current EXCEPT ![n] = j]
    /\ Goto(n, IF j \notin Enabled[release[n]] THEN "listing"
               ELSE IF j \notin Scheduled[release[n]] THEN "storing"
               ELSE IF trigger[j] = None THEN "creating" ELSE "updating")

\* serverStarted goes on with the next job of the configuration.
AddNext(n) ==
    /\ pc[n] = "starting"
    /\ next[n] <= NumJobs
    /\ next' = [next EXCEPT ![n] = @ + 1]
    /\ AddJob(n, next[n])
    /\ UNCHANGED <<store, release, firing, listed, counts>>

\* fireNow, if the scheduler is started.
FireNow(n, j) ==
    /\ pc[n] = "running"
    /\ AddJob(n, j)
    /\ firing' = [firing EXCEPT ![n] = TRUE]
    /\ fires < MaxFires
    /\ fires' = fires + 1
    /\ UNCHANGED <<store, release, next, listed, faults>>

\* addJob has returned a job to trigger, or none.
Added(n) ==
    IF firing[n] /\ current[n] \in Enabled[release[n]]
    THEN /\ Goto(n, "triggering")
         /\ UNCHANGED <<current, firing>>
    ELSE /\ Goto(n, IF firing[n] THEN "running" ELSE "starting")
         /\ current' = [current EXCEPT ![n] = None]
         /\ firing' = [firing EXCEPT ![n] = FALSE]

\* An exception of the scheduler: a JobException ends serverStarted and with it the
\* process, or it goes to the caller of fireNow.
Throws(n) ==
    /\ Goto(n, IF firing[n] THEN "running" ELSE "down")
    /\ next' = [next EXCEPT ![n] = 1]
    /\ current' = [current EXCEPT ![n] = None]
    /\ firing' = [firing EXCEPT ![n] = FALSE]

\* createOrUpdateTrigger: scheduler.scheduleJob stores the job with a new trigger.
ScheduleJob(n) ==
    /\ pc[n] = "creating"
    /\ LET j == current[n]
       IN  /\ job[j] = None
           /\ job' = [job EXCEPT ![j] = release[n]]
           /\ trigger' = [trigger EXCEPT ![j] = release[n]]
    /\ Goto(n, "storing")
    /\ UNCHANGED <<once, release, next, current, firing, listed, counts>>

\* ... or throws, because there is a job of that name.
ScheduleJobThrows(n) ==
    /\ pc[n] = "creating"
    /\ job[current[n]] # None
    /\ Throws(n)
    /\ UNCHANGED <<store, release, listed, counts>>

\* createOrUpdateTrigger: rescheduleJob replaces the trigger of the job, and does
\* nothing if the trigger is gone.
RescheduleJob(n) ==
    /\ pc[n] = "updating"
    /\ trigger' = [trigger EXCEPT ![current[n]] = IF @ = None THEN @ ELSE release[n]]
    /\ Goto(n, "storing")
    /\ UNCHANGED <<job, once, release, next, current, firing, listed, counts>>

\* Mutant of StoreJob: addJob does not replace a job that exists.
StoreJobIfAbsent(n) ==
    /\ pc[n] = "storing"
    /\ job' = [job EXCEPT ![current[n]] = IF @ = None THEN release[n] ELSE @]
    /\ Added(n)
    /\ UNCHANGED <<trigger, once, release, next, listed, counts>>

\* scheduler.addJob(jobDetail, true) adds or replaces the job, not its triggers.
StoreJob(n) ==
    /\ pc[n] = "storing"
    /\ job' = [job EXCEPT ![current[n]] = release[n]]
    /\ Added(n)
    /\ UNCHANGED <<trigger, once, release, next, listed, counts>>

\* deleteJob of a job that is not enabled: the scheduler lists its triggers,
ListTriggers(n) ==
    /\ pc[n] = "listing"
    /\ LET j == current[n]
           found == {k \in {"schedule", "once"} :
                        IF k = "once" THEN once[j] ELSE trigger[j] # None}
       IN  /\ listed' = [listed EXCEPT ![n] = found]
           /\ Goto(n, IF found = {} THEN "removing" ELSE "unscheduling")
    /\ UNCHANGED <<store, release, next, current, firing, counts>>

\* removes them one by one,
Unschedule(n, k) ==
    /\ pc[n] = "unscheduling"
    /\ k \in listed[n]
    /\ LET j == current[n]
       IN  \/ /\ k = "schedule" /\ trigger[j] # None
              /\ trigger' = [trigger EXCEPT ![j] = None]
              /\ UNCHANGED once
           \/ /\ k = "once" /\ once[j]
              /\ once' = [once EXCEPT ![j] = FALSE]
              /\ UNCHANGED trigger
    /\ listed' = [listed EXCEPT ![n] = @ \ {k}]
    /\ Goto(n, IF listed[n] = {k} THEN "removing" ELSE "unscheduling")
    /\ UNCHANGED <<job, release, next, current, firing, counts>>

\* throws if one is gone that it has listed,
UnscheduleThrows(n, k) ==
    /\ pc[n] = "unscheduling"
    /\ k \in listed[n]
    /\ LET j == current[n] IN IF k = "once" THEN ~once[j] ELSE trigger[j] = None
    /\ Throws(n)
    /\ listed' = [listed EXCEPT ![n] = {}]
    /\ UNCHANGED <<store, release, counts>>

Remove(j) ==
    /\ job' = [job EXCEPT ![j] = None]
    /\ trigger' = [trigger EXCEPT ![j] = None]
    /\ once' = [once EXCEPT ![j] = FALSE]

\* and removes the job with what triggers it has by then.  The jobs of a collection,
\* and any job here may be one, are removed by deleteJobs without listing.
RemoveJob(n) ==
    /\ pc[n] \in {"removing", "listing"}
    /\ Remove(current[n])
    /\ Added(n)
    /\ UNCHANGED <<release, next, listed, counts>>

\* fireNow: triggerJob stores a trigger for one run, or throws if the job is gone.
\* Bound: one such trigger per job at a time.
TriggerJob(n) ==
    /\ pc[n] = "triggering"
    /\ LET j == current[n]
       IN  /\ ~once[j]
           /\ once' = [once EXCEPT ![j] = job[j] # None]
    /\ Goto(n, "running")
    /\ current' = [current EXCEPT ![n] = None]
    /\ firing' = [firing EXCEPT ![n] = FALSE]
    /\ UNCHANGED <<job, trigger, release, next, listed, counts>>

\* A started scheduler runs j once, and Quartz removes the trigger.  Runs by the
\* schedule leave the store as it is.
RunOnce(n, j) ==
    /\ pc[n] \in {"running"} \cup {l \in AddStates : firing[n]}
    /\ once[j]
    /\ once' = [once EXCEPT ![j] = FALSE]
    /\ UNCHANGED <<job, trigger, release, pc, next, current, firing, listed, counts>>

Ends(n) ==
    /\ Goto(n, "down")
    /\ next' = [next EXCEPT ![n] = 1]
    /\ current' = [current EXCEPT ![n] = None]
    /\ firing' = [firing EXCEPT ![n] = FALSE]
    /\ listed' = [listed EXCEPT ![n] = {}]
    /\ UNCHANGED <<store, release, fires>>

\* A node at rest is stopped.
NodeStops(n) ==
    /\ pc[n] = "running"
    /\ Ends(n)
    /\ UNCHANGED faults

\* A node dies in the middle of its start or of fireNow.
NodeDies(n) ==
    /\ pc[n] \in {"starting"} \cup AddStates
    /\ faults < MaxFaults
    /\ faults' = faults + 1
    /\ Ends(n)

\* A call of the store fails.
StoreFails(n) ==
    /\ pc[n] \in AddStates
    /\ Throws(n)
    /\ listed' = [listed EXCEPT ![n] = {}]
    /\ faults < MaxFaults
    /\ faults' = faults + 1
    /\ UNCHANGED <<store, release, fires>>
-------------------------------------------------------------------------------
AddJobStep(n) ==
    \/ ScheduleJob(n) \/ ScheduleJobThrows(n) \/ RescheduleJob(n)
    \/ StoreJob(n) \/ ListTriggers(n) \/ RemoveJob(n)
    \/ \E k \in {"schedule", "once"} : Unschedule(n, k) \/ UnscheduleThrows(n, k)

StartUp(n) ==
    \/ \E r \in Releases : ServerStarted(n, r)
    \/ AddNext(n)
    \/ StartScheduler(n)

Next ==
    \E n \in Nodes :
        \/ StartUp(n) \/ AddJobStep(n) \/ TriggerJob(n) \/ NodeStops(n) \/ NodeDies(n)
        \/ StoreFails(n)
        \/ \E j \in Jobs : FireNow(n, j) \/ RunOnce(n, j)

Spec == Init /\ [][Next]_vars

\* A node that is down is started again, threads run, and the schedulers that come up
\* again and again come to what is to be run.
Fairness ==
    /\ \A n \in Nodes : WF_vars(StartUp(n)) /\ WF_vars(AddJobStep(n)) /\ WF_vars(TriggerJob(n))
    /\ \A j \in Jobs : SF_vars(\E n \in Nodes : RunOnce(n, j))

FairSpec == Spec /\ Fairness
-------------------------------------------------------------------------------
\* What the store should hold of job j under release r.
Applied(r, j) ==
    IF j \in Enabled[r]
    THEN job[j] = r /\ (j \in Scheduled[r] => trigger[j] = r)
    ELSE job[j] = None

\* When every node runs the same release, the store holds its configuration, whatever
\* nodes of other releases have written before and wherever they have died.
AppliedConfig ==
    \A r \in Releases :
        (\A n \in Nodes : pc[n] = "running" /\ release[n] = r) => \A j \in Jobs : Applied(r, j)

\* A job without the trigger that release[n] schedules for it.
Triggerless(n, j) ==
    j \in Enabled[release[n]] \cap Scheduled[release[n]] /\ job[j] # None /\ trigger[j] = None

\* A node that failed to start because of what other nodes did to the store at the same
\* time comes up if it is started again, unless a job is stored without its trigger.
StartUpHeals ==
    \A n \in Nodes :
        pc[n] = "down" ~> pc[n] = "running" \/ \E j \in Jobs : Triggerless(n, j)

\* What fireNow has triggered is run, or goes with its job, unless a job without its
\* trigger keeps the nodes from starting.
FiredRuns ==
    \A j \in Jobs :
        once[j] ~> ~once[j] \/ \E n \in Nodes, i \in Jobs : Triggerless(n, i)
===============================================================================
