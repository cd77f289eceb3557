---------------------------- MODULE CountyReport ----------------------------
(***************************************************************************)
(* The jobs of the monthly commission report                               *)
(* (county_commission_report_service.py): each owner may have one under    *)
(* way, which runs in a thread of its own, and the newest Retained jobs    *)
(* are remembered, whatever they are doing.                                *)
(*                                                                         *)
(* Every access to the tables is a step under one lock; the end of a job   *)
(* is two of them.  The counting itself, page by page, changes no table.   *)
(***************************************************************************)
EXTENDS Naturals, FiniteSets, FiniteSetsExt

CONSTANTS
  Owner,
  Month,
  NoJob,
  Retained,   \* _MAX_RETAINED_JOBS
  MaxJobs     \* bound: jobs started

VARIABLES
  started,   \* jobs started so far, numbered
  jobs,      \* _JOBS: the owner, month and status of the jobs remembered
  active,    \* _ACTIVE_BY_MONTH
  thread     \* the thread of each job: "none", "start", "login", "read",
             \* "end" or "dead"

vars == <<started, jobs, active, thread>>

Job == 1..MaxJobs
Known == DOMAIN jobs
Busy == {"queued", "running"}

TypeOK ==
  /\ started \in 0..MaxJobs
  /\ Known \subseteq 1..started /\ Cardinality(Known) <= Retained
  /\ \A j \in Known : jobs[j] \in [owner : Owner, month : Month,
                                   status : Busy \cup {"complete", "failed"}]
  /\ active \in [Owner \X Month -> Known \cup {NoJob}]
  /\ thread \in [Job -> {"none", "start", "login", "read", "end", "dead"}]

Init ==
  /\ started = 0
  /\ jobs = <<>>
  /\ active = [om \in Owner \X Month |-> NoJob]
  /\ thread = [j \in Job |-> "none"]

-----------------------------------------------------------------------------
BusyJobs(o) == {j \in Known : jobs[j].owner = o /\ jobs[j].status \in Busy}

Kept(js) == IF Cardinality(js) > Retained THEN js \ {Min(js)} ELSE js

(* start_county_commission_job; the job of this month that is active would *)
(* be returned, and another one of this owner makes it refuse as busy.     *)
StartJob(o, m) ==
  /\ active[<<o, m>>] = NoJob
  /\ BusyJobs(o) = {}
  /\ started < MaxJobs
  /\ started' = started + 1
  /\ LET kept == Kept(Known \cup {started'})
     IN  /\ jobs' = [j \in kept |-> IF j = started'
              THEN [owner |-> o, month |-> m, status |-> "queued"] ELSE jobs[j]]
         /\ active' = [om \in Owner \X Month |->
              IF om = <<o, m>> THEN started'
              ELSE IF active[om] \in kept THEN active[om] ELSE NoJob]
  /\ thread' = [thread EXCEPT ![started'] = "start"]

Step(j, from, next) == thread[j] \in from /\ thread' = [thread EXCEPT ![j] = next]

SetStatus(j, status) ==
  /\ j \in Known
  /\ jobs' = [jobs EXCEPT ![j].status = status]
  /\ UNCHANGED <<started, active>>

Begin(j) == Step(j, {"start"}, "login") /\ SetStatus(j, "running")

LogIn(j) == Step(j, {"login"}, "read") /\ UNCHANGED <<started, jobs, active>>

(* The log-in is made outside the part whose errors become a failed job.   *)
LogInFails(j) == Step(j, {"login"}, "end") /\ UNCHANGED <<started, jobs, active>>

Complete(j) == Step(j, {"read"}, "end") /\ SetStatus(j, "complete")

(* The CAD fails, the pages do not end, or the tenant is refused. *)
Fail(j) == Step(j, {"login", "read"}, "end") /\ SetStatus(j, "failed")

(* finally: the month is free. *)
Finish(j) ==
  /\ Step(j, {"end"}, "dead")
  /\ j \in Known
  /\ active' = [om \in Owner \X Month |-> IF active[om] = j THEN NoJob ELSE active[om]]
  /\ UNCHANGED <<started, jobs>>

(* A thread whose job was dropped from the table ends with a KeyError. *)
Orphaned(j) ==
  /\ Step(j, {"start", "login", "read", "end"}, "dead")
  /\ j \notin Known
  /\ UNCHANGED <<started, jobs, active>>

Next ==
  \/ \E o \in Owner, m \in Month : StartJob(o, m)
  \/ \E j \in Job :
       Begin(j) \/ LogIn(j) \/ LogInFails(j) \/ Complete(j) \/ Fail(j) \/ Finish(j)
       \/ Orphaned(j)

Spec == Init /\ [][Next]_vars
-----------------------------------------------------------------------------
(* A report that makes its owner busy is being read: "Raised when another  *)
(* monthly report is already querying CentralSquare."                      *)
BusyMeansReading ==
  \A o \in Owner : \A j \in BusyJobs(o) : thread[j] # "dead"
=============================================================================
