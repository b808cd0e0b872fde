----------------------------- MODULE MCJobManager -----------------------------
(* Instances of JobManager for TLC. *)
EXTENDS JobManager

CONSTANTS n1, n2

daily == 1
report == 2

\* daily always has a schedule; report runs on demand at first, is given a schedule in
\* release 2 and is disabled in release 3.
EnabledJobs == [r \in 1 .. MaxRelease |-> IF r < 3 THEN {daily, report} ELSE {daily}]
ScheduledJobs == [r \in 1 .. MaxRelease |-> IF r = 1 THEN {daily} ELSE {daily, report}]
===============================================================================
