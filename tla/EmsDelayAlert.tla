---------------------------- MODULE EmsDelayAlert ----------------------------
(***************************************************************************)
(* The worker that pages EMS supervisors about calls no ambulance answers  *)
(* (scripts/ems_delay_alert_worker.py, ems_delay_alert_service.py and its  *)
(* database): it reads the active calls, goes through them one by one, and *)
(* repeats a page every Repeat minutes as long as a call waits.            *)
(*                                                                         *)
(* The CAD changes while an evaluation works on what it read, a page is no *)
(* part of a transaction, its answer may be lost, and the worker may die   *)
(* between any two commits.                                                *)
(* alert_count only numbers the messages and is left out; dry runs differ  *)
(* from live ones in the page alone.                                       *)
(***************************************************************************)
EXTENDS Integers, FiniteSets

CONSTANTS
  Call,
  Scheduled,   \* the prescheduled calls; the others are transfers
  Threshold,   \* ems_delay_threshold_minutes
  Repeat,      \* ems_delay_repeat_minutes
  Retry,       \* minutes between attempts after a failure
  Absent,      \* a call the CAD does not list as active
  Responding,  \* a call an EMS unit has started for
  Waiting,     \* an active call no EMS unit has started for
  NoTime,
  MaxTime      \* bound: the last tick of the clock

ASSUME ConstantsAssumption ==
  /\ Threshold \in Nat \ {0} /\ Repeat \in Nat \ {0} /\ Retry \in Nat \ {0}
  /\ MaxTime \in Nat
  /\ Scheduled \subseteq Call
  /\ {Absent, Responding, NoTime} \cap Int = {}
  /\ Absent # Responding /\ Waiting \notin {Absent, Responding}

VARIABLES
  now,
  cad,     \* the CAD: a call is Absent, Waiting or Responding
  ref,     \* its reference time, NoTime before it first comes in
  row,     \* lcdash_alerting.ems_delay_alerts
  pc,      \* "idle", "calls", "page", "record"
  at,      \* the time the evaluation started
  read,    \* calls as the evaluation read them: Absent, Responding, or the
           \* reference time of a waiting call
  todo,    \* active calls it has not come to
  turn,    \* the call it is paging about
  paged,   \* history: start of the last evaluation that paged about a call
  broken,  \* history: since the last page about a call its alert was
           \* resolved, or the worker died before it was recorded
  unheard  \* history: the answer to the last page about a call was lost

outside == <<now, cad, ref>>
worker  == <<pc, at, read, todo, turn>>
history == <<paged, broken, unheard>>
vars    == <<outside, row, worker, history>>

Time == 0..(MaxTime + Threshold + Repeat + Retry)
Reading == (0..MaxTime) \cup {Absent, Responding}
NoRow == [status |-> "none", next |-> NoTime]
Open == {"waiting", "live", "error"}

TypeOK ==
  /\ now \in 0..MaxTime
  /\ cad \in [Call -> {Absent, Waiting, Responding}]
  /\ ref \in [Call -> 0..MaxTime \cup {NoTime}]
  /\ \A c \in Call : cad[c] = Waiting => ref[c] # NoTime
  /\ row \in [Call -> [status : Open \cup {"none", "resolved"}, next : Time \cup {NoTime}]]
  /\ \A c \in Call : row[c].status = "resolved" => row[c].next = NoTime
  /\ pc \in {"idle", "calls", "page", "record"}
  /\ at \in 0..now
  /\ read \in [Call -> Reading]
  /\ todo \subseteq {c \in Call : read[c] # Absent}
  /\ turn \subseteq Call /\ Cardinality(turn) <= 1
  /\ pc \in {"page", "record"} <=> turn # {}
  /\ paged \in [Call -> 0..now \cup {NoTime}]
  /\ broken \in [Call -> BOOLEAN] /\ unheard \in [Call -> BOOLEAN]

Nobody == [c \in Call |-> Absent]

Init ==
  /\ now = 0
  /\ cad = Nobody /\ ref = [c \in Call |-> NoTime]
  /\ row = [c \in Call |-> NoRow]
  /\ pc = "idle" /\ at = 0 /\ read = Nobody /\ todo = {} /\ turn = {}
  /\ paged = [c \in Call |-> NoTime]
  /\ broken = [c \in Call |-> FALSE] /\ unheard = [c \in Call |-> FALSE]

-----------------------------------------------------------------------------
(* The CAD. *)

Tick ==
  /\ now < MaxTime
  /\ now' = now + 1
  /\ UNCHANGED <<cad, ref, row, worker, history>>

(* A transfer counts from when it came in, a prescheduled call from the    *)
(* time it is booked for.                                                  *)
Enter(c) ==
  /\ cad[c] = Absent /\ ref[c] = NoTime
  /\ cad' = [cad EXCEPT ![c] = Waiting]
  /\ \E t \in IF c \in Scheduled THEN now..MaxTime ELSE {now} :
       ref' = [ref EXCEPT ![c] = t]
  /\ UNCHANGED <<now, row, worker, history>>

Reschedule(c) ==
  /\ c \in Scheduled /\ ref[c] # NoTime
  /\ \E t \in 0..MaxTime : ref' = [ref EXCEPT ![c] = t]
  /\ UNCHANGED <<now, cad, row, worker, history>>

(* A unit starts for it or gives it up; it leaves the monitored calls or   *)
(* comes back to them.                                                     *)
Progress(c) ==
  /\ ref[c] # NoTime
  /\ \E state \in {Absent, Waiting, Responding} : cad' = [cad EXCEPT ![c] = state]
  /\ UNCHANGED <<now, ref, row, worker, history>>

-----------------------------------------------------------------------------
(* evaluate_ems_delay_alerts. *)

Waits(c) == read[c] \notin {Absent, Responding}

Eligible(c) == read[c] + Threshold

Forget ==
  /\ pc' = "idle" /\ at' = 0 /\ read' = Nobody /\ todo' = {} /\ turn' = {}

Start ==
  /\ pc = "idle"
  /\ pc' = "calls" /\ at' = now
  /\ read' = [c \in Call |-> IF cad[c] = Waiting THEN ref[c] ELSE cad[c]]
  /\ todo' = {c \in Call : cad[c] # Absent}
  /\ UNCHANGED <<turn, outside, row, history>>

(* fault: the old time of the next page is left *)
ResolvedButTimed(r) == [r EXCEPT !.status = "resolved"]

Resolved(r) == [status |-> "resolved", next |-> NoTime]

Resolve(calls) ==
  LET open == {c \in calls : row[c].status \in Open} IN
  /\ row' = [c \in Call |-> IF c \in open THEN Resolved(row[c]) ELSE row[c]]
  /\ broken' = [c \in Call |-> broken[c] \/ c \in open]
  /\ UNCHANGED <<paged, unheard>>

(* resolve_alert *)
Answered(c) ==
  /\ pc = "calls" /\ c \in todo /\ read[c] = Responding
  /\ todo' = todo \ {c}
  /\ Resolve({c})
  /\ UNCHANGED <<outside, pc, at, read, turn>>

(* fault: the next page follows the schedule *)
ObservedAsScheduled(c) ==
  [status |-> IF row[c].status \in Open THEN row[c].status ELSE "waiting",
   next   |-> Eligible(c)]

(* observe_candidate: only a new row gets a time from the schedule. *)
Observed(c) ==
  [status |-> IF row[c].status \in Open THEN row[c].status ELSE "waiting",
   next   |-> IF row[c] = NoRow THEN Eligible(c) ELSE row[c].next]

ToPage(c) ==
  /\ at >= Eligible(c)
  /\ row'[c].next # NoTime => at >= row'[c].next

Observe(c) ==
  /\ pc = "calls" /\ c \in todo /\ Waits(c)
  /\ todo' = todo \ {c}
  /\ row' = [row EXCEPT ![c] = Observed(c)]
  /\ IF ToPage(c) THEN pc' = "page" /\ turn' = {c} ELSE UNCHANGED <<pc, turn>>
  /\ UNCHANGED <<outside, at, read, history>>

(* The CAD takes the page for one supervisor at least, when it is asked or *)
(* after the worker has ceased to wait.                                    *)
Page(c) ==
  /\ pc = "page" /\ c \in turn
  /\ pc' = "record"
  /\ paged' = [paged EXCEPT ![c] = at]
  /\ broken' = [broken EXCEPT ![c] = FALSE]
  /\ unheard' = [unheard EXCEPT ![c] = FALSE]
  /\ UNCHANGED <<outside, row, at, read, todo, turn>>

(* record_live_delivery *)
RecordDelivery(c) ==
  /\ pc = "record" /\ c \in turn
  /\ row' = [row EXCEPT ![c] = [status |-> "live", next |-> at + Repeat]]
  /\ pc' = "calls" /\ turn' = {}
  /\ UNCHANGED <<outside, at, read, todo, history>>

(* fault: a page that failed counts as sent *)
NotSentCounted == [status |-> "live", next |-> at + Repeat]

NotSent == [status |-> "error", next |-> at + Retry]

(* record_delivery_issue: there is nobody to page, or every page failed    *)
(* for all the worker knows; one the CAD took fails as well when its       *)
(* answer is late, lost, or not JSON.                                      *)
RecordIssue(c) ==
  /\ pc \in {"page", "record"} /\ c \in turn
  /\ row' = [row EXCEPT ![c] = NotSent]
  /\ pc' = "calls" /\ turn' = {}
  /\ unheard' = [unheard EXCEPT ![c] = @ \/ pc = "record"]
  /\ UNCHANGED <<outside, at, read, todo, paged, broken>>

(* fault: nothing to do when no call is observed *)
MissingIfAny == IF read = Nobody THEN {} ELSE {c \in Call : read[c] = Absent}

Missing == {c \in Call : read[c] = Absent}

(* resolve_missing_alerts ends the evaluation. *)
Finish ==
  /\ pc = "calls" /\ todo = {}
  /\ Resolve(Missing)
  /\ Forget
  /\ UNCHANGED outside

(* The CAD or the database refuses, or the worker is restarted. *)
Die ==
  /\ pc # "idle"
  /\ Forget
  /\ broken' = [c \in Call |-> broken[c] \/ (pc = "record" /\ c \in turn)]
  /\ UNCHANGED <<outside, row, paged, unheard>>

-----------------------------------------------------------------------------
Next ==
  \/ Tick \/ Start \/ Finish \/ Die
  \/ \E c \in Call :
       \/ Enter(c) \/ Reschedule(c) \/ Progress(c) \/ Answered(c) \/ Observe(c)
       \/ Page(c) \/ RecordDelivery(c) \/ RecordIssue(c)

Spec == Init /\ [][Next]_vars

-----------------------------------------------------------------------------
(* A page whose answer was lost counts as failed and is repeated sooner. *)
Distance(c) == IF unheard[c] THEN Retry ELSE Repeat

(* Pages about a call are Repeat minutes apart by the clocks of their      *)
(* evaluations, through failed attempts and reschedules, or Retry minutes  *)
(* when the answer to the first was lost, unless its alert was resolved or *)
(* the worker died before the page was recorded.                           *)
RepeatsSpaced ==
  [][\A c \in Call :
       pc = "page" /\ pc' = "record" /\ c \in turn
       => paged[c] = NoTime \/ broken[c] \/ at - paged[c] >= Distance(c)]_vars

Due(c) == Waits(c) /\ at >= Eligible(c)

(* An evaluation that comes to its end leaves no call it read as due       *)
(* without a page in the last Repeat minutes, a failed attempt to be       *)
(* repeated after Retry, or a first page that was planned for later when   *)
(* the call was first seen; whatever died or was resolved before.          *)
NobodyForgotten ==
  pc = "calls" /\ todo = {} =>
    \A c \in Call : Due(c) =>
      \/ paged[c] # NoTime /\ at - paged[c] < Repeat
      \/ row[c].status \in {"waiting", "error"} /\ at < row[c].next

(* After an evaluation just the alerts of the calls it read as waiting are *)
(* open, whatever earlier ones left behind.                                *)
SettledAfterRun ==
  [][Finish =>
       {c \in Call : row'[c].status \in Open} = {c \in Call : Waits(c)}]_vars
=============================================================================
