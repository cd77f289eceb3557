--------------------------- MODULE DomesticReport ---------------------------
(***************************************************************************)
(* The year-to-date report of domestic calls                               *)
(* (domestic_call_report_service.py): one background job at a time for the *)
(* whole process, which counts the calls of each month page by page while  *)
(* new ones come in, and remembers for a day what it counted for a month   *)
(* that is over.                                                           *)
(*                                                                         *)
(* The clock is read twice, once for the days to ask about and once to     *)
(* tell which months are over.  Which calls are domestic is left out: a    *)
(* count stands for all the numbers taken from the same pages.             *)
(***************************************************************************)
EXTENDS Naturals, FiniteSetsExt, Sequences

CONSTANTS
  Tenant,
  NoTenant,
  NoCount,
  DaysPerMonth,
  PageSize,
  Retained,     \* _MAX_RETAINED_JOBS
  CacheDays,    \* PAST_MONTH_CACHE_SECONDS
  Months,       \* bound: months of the year
  MaxJobs,      \* bound: jobs started
  MaxCalls      \* bound: calls a day

VARIABLES
  today,
  calls,    \* the day of each call, in the order they came in
  jobs,     \* _JOBS: [tenant, status, months], oldest first by number
  kept,     \* the jobs not yet evicted
  thread,   \* where the thread of each job is: see Steps
  to,       \* the day before which a job counts
  asof,     \* the day it takes for today
  skip,     \* calls of the month it is at that it has read
  cache,    \* _MONTH_CACHE: [count, day] for each tenant and month
  torn      \* history: a job whose two readings of the clock lay on
            \* different days was started

clock  == <<today, calls>>
reader == <<thread, to, asof, skip>>
vars == <<clock, jobs, kept, reader, cache, torn>>

Day   == 0..(Months * DaysPerMonth - 1)
Month == 0..(Months - 1)
Job   == 1..MaxJobs
Steps == {"none", "start", "window", "now", "read", "dead"}
Active == {"queued", "running"}

NoMonths == [m \in Month |-> NoCount]
NoJob == [tenant |-> NoTenant, status |-> "none", months |-> NoMonths]
Reported   == [count : Nat, over : BOOLEAN]
Remembered == [count : Nat, day : Day]

TypeOK ==
  /\ today \in Day /\ calls \in Seq(Day)
  /\ jobs \in [Job -> [tenant : Tenant \cup {NoTenant},
                       status : Active \cup {"none", "complete", "failed"},
                       months : [Month -> Reported \cup {NoCount}]]]
  /\ kept \subseteq Job /\ Cardinality(kept) <= Retained
  /\ thread \in [Job -> Steps]
  /\ to \in [Job -> 0..(Months * DaysPerMonth)] /\ asof \in [Job -> Day]
  /\ skip \in [Job -> Nat]
  /\ cache \in [Tenant -> [Month -> Remembered \cup {NoCount}]]
  /\ torn \in BOOLEAN

Init ==
  /\ today = 0 /\ calls = <<>>
  /\ jobs = [j \in Job |-> NoJob] /\ kept = {}
  /\ thread = [j \in Job |-> "none"]
  /\ to = [j \in Job |-> 0] /\ asof = to /\ skip = to
  /\ cache = [t \in Tenant |-> NoMonths]
  /\ torn = FALSE

-----------------------------------------------------------------------------
Midnight ==
  /\ today + 1 \in Day
  /\ today' = today + 1
  /\ UNCHANGED <<calls, jobs, kept, reader, cache, torn>>

CallComesIn ==
  /\ Cardinality({i \in DOMAIN calls : calls[i] = today}) < MaxCalls
  /\ calls' = Append(calls, today)
  /\ UNCHANGED <<today, jobs, kept, reader, cache, torn>>

Running(j) == jobs[j].status \in Active

(* start_domestic_job, when no job is queued or running; else it returns   *)
(* that job or says it is busy.                                            *)
StartJob(t) ==
  /\ \A j \in kept : ~Running(j)
  /\ LET j == Cardinality({k \in Job : jobs[k].status # "none"}) + 1
         more == kept \cup {j}
     IN  /\ j \in Job
         /\ jobs' = [jobs EXCEPT ![j] =
              [tenant |-> t, status |-> "queued", months |-> NoMonths]]
         /\ kept' = IF Cardinality(more) > Retained THEN more \ {Min(more)} ELSE more
         /\ thread' = [thread EXCEPT ![j] = "start"]
  /\ UNCHANGED <<clock, to, asof, skip, cache, torn>>

Step(j, from, next) == thread[j] = from /\ thread' = [thread EXCEPT ![j] = next]

Begin(j) ==
  /\ Step(j, "start", "window")
  /\ jobs' = [jobs EXCEPT ![j].status = "running"]
  /\ UNCHANGED <<clock, kept, to, asof, skip, cache, torn>>

(* year_to_date_window: up to the end of today. *)
Window(j) ==
  /\ Step(j, "window", "now")
  /\ to' = [to EXCEPT ![j] = today + 1]
  /\ UNCHANGED <<clock, jobs, kept, asof, skip, cache, torn>>

(* summarize: now *)
Now(j) ==
  /\ Step(j, "now", "read")
  /\ asof' = [asof EXCEPT ![j] = today]
  /\ torn' = (torn \/ to[j] # today + 1)
  /\ UNCHANGED <<clock, jobs, kept, to, skip, cache>>

-----------------------------------------------------------------------------
(* The month it is at, and the end of the days it asks about in it. *)
At(j) == CHOOSE m \in Month :
           /\ \A k \in Month : k < m <=> jobs[j].months[k] # NoCount
FirstDay(m) == m * DaysPerMonth
EndDay(j, m) == Min({FirstDay(m + 1), to[j]})
Done(j) == \A m \in Month : FirstDay(m) < to[j] => jobs[j].months[m] # NoCount

CallsOf(m, end) ==
  Cardinality({i \in DOMAIN calls : calls[i] >= FirstDay(m) /\ calls[i] < end})
AllCalls(m) == CallsOf(m, FirstDay(m + 1))

OverToday(j, m) == EndDay(j, m) <= today   \* fault: the clock after the count
Over(j, m) == EndDay(j, m) <= asof[j]

Report(j, count, over) ==
  /\ jobs' = [jobs EXCEPT ![j].months[At(j)] = [count |-> count, over |-> over]]
  /\ skip' = [skip EXCEPT ![j] = 0]

Reuse(j) ==
  /\ thread[j] = "read" /\ ~Done(j)
  /\ LET m == At(j)
         old == cache[jobs[j].tenant][m]
     IN  /\ Over(j, m) /\ old # NoCount
         /\ today - old.day <= CacheDays
         /\ Report(j, old.count, TRUE)
  /\ UNCHANGED <<clock, kept, thread, to, asof, cache, torn>>

Rows(j) == Min({PageSize, CallsOf(At(j), EndDay(j, At(j))) - skip[j]})

(* scan_month: a page that is full; the next one is asked for where it ends. *)
FullPage(j) ==
  /\ thread[j] = "read" /\ ~Done(j)
  /\ Rows(j) = PageSize
  /\ skip' = [skip EXCEPT ![j] = @ + PageSize]
  /\ UNCHANGED <<clock, jobs, kept, thread, to, asof, cache, torn>>

(* The page that is not full ends the month. *)
LastPage(j) ==
  /\ thread[j] = "read" /\ ~Done(j)
  /\ Rows(j) < PageSize
  /\ LET m == At(j)
         count == skip[j] + Rows(j)
         over == Over(j, m)
     IN  /\ Report(j, count, over)
         /\ cache' = IF over
              THEN [cache EXCEPT ![jobs[j].tenant][m] = [count |-> count, day |-> today]]
              ELSE cache
  /\ UNCHANGED <<clock, kept, thread, to, asof, torn>>

End(j, status) ==
  /\ thread' = [thread EXCEPT ![j] = "dead"]
  /\ jobs' = [jobs EXCEPT ![j].status = status]
  /\ UNCHANGED <<clock, kept, to, asof, skip, cache, torn>>

Complete(j) == thread[j] = "read" /\ Done(j) /\ End(j, "complete")

(* Whatever is raised, by the CAD or by the tenant's missing connector. *)
Fail(j) == thread[j] \in {"window", "now", "read"} /\ End(j, "failed")

Next ==
  \/ Midnight \/ CallComesIn
  \/ \E t \in Tenant : StartJob(t)
  \/ \E j \in Job :
       Begin(j) \/ Window(j) \/ Now(j) \/ Reuse(j) \/ FullPage(j) \/ LastPage(j)
       \/ Complete(j) \/ Fail(j)

Spec == Init /\ [][Next]_vars
-----------------------------------------------------------------------------
(* A month that a complete report gives as over is counted to its last     *)
(* call, fresh or remembered, and one job reads the CAD at a time.  (When  *)
(* midnight falls between a job's two readings of the clock, it takes and  *)
(* remembers an unfinished month for one that is over.)                    *)
OverIsWhole ==
  /\ Cardinality({j \in Job : thread[j] \notin {"none", "dead"}}) <= 1
  /\ ~torn =>
       \A j \in kept, m \in Month :
         LET r == jobs[j].months[m]
         IN  (jobs[j].status = "complete" /\ r # NoCount) =>
               (r.over => r.count = AllCalls(m))

(* "remembers finished past months": a month with days to come is not. *)
OnlyPastRemembered ==
  \A t \in Tenant, m \in Month : cache[t][m] # NoCount => FirstDay(m + 1) <= today
=============================================================================
