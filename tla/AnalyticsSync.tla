---------------------------- MODULE AnalyticsSync ----------------------------
(***************************************************************************)
(* The collector of completed calls (app/services/analytics_collector.py,  *)
(* run every five minutes by scripts/analytics_worker.py): it searches the *)
(* CAD for calls closed in a window, page by page, stores the analytics of *)
(* each, and moves its high-water mark to the end of the window when the   *)
(* run was complete.                                                       *)
(*                                                                         *)
(* The CAD answers each page from what it holds at that moment, and a call *)
(* may show up in its search some time after it was closed.                *)
(***************************************************************************)
EXTENDS Integers, FiniteSets

CONSTANTS
  Call,       \* CFS numbers; naturals, the order of calls closed together
  PageSize,   \* page_size
  MaxCalls,   \* ANALYTICS_MAX_CALLS_PER_RUN
  Overlap,    \* ANALYTICS_OVERLAP_MINUTES
  Lookback,   \* ANALYTICS_INITIAL_LOOKBACK_HOURS
  Lag,        \* the longest a closed call stays out of the CAD's search
  NoTime,
  MaxTime     \* bound: the last tick of the clock

ASSUME ConstantsAssumption ==
  /\ Call \subseteq Nat /\ IsFiniteSet(Call)
  /\ PageSize \in Nat \ {0} /\ MaxCalls \in Nat \ {0}
  /\ Overlap \in Nat /\ Lookback \in Nat /\ MaxTime \in Nat
  /\ Lag \in 0..Overlap
  /\ NoTime \notin Int

VARIABLES
  now,
  closedAt,   \* when a call was closed, NoTime while it is open
  visible,    \* closed calls the CAD's search returns
  stored,     \* calls in lcdash_analytics.calls
  watermark,  \* sync_state.completed_calls_through, NoTime at first
  pc,
  window,     \* the run's window, <<start, end>>
  skip,       \* the run's position in the search
  found,      \* calls_by_number
  todo,       \* discovered calls not handled yet
  truncated,
  failed,     \* some call's analytics could not be had
  since,      \* history: start of the first window ever completed
  overflowed  \* history: a run's window ever held more than MaxCalls

cad  == <<now, closedAt, visible>>
run  == <<window, skip, found, todo, truncated, failed>>
ghosts == <<since, overflowed>>
vars == <<cad, stored, watermark, pc, run, ghosts>>

Time == Int \cup {NoTime}

TypeOK ==
  /\ now \in Nat
  /\ closedAt \in [Call -> Time]
  /\ visible \subseteq {c \in Call : closedAt[c] # NoTime}
  /\ stored \subseteq visible
  /\ watermark \in Time
  /\ pc \in {"idle", "search", "collect"}
  /\ window \in Int \X Int
  /\ skip \in Nat
  /\ found \subseteq visible
  /\ todo \subseteq found
  /\ truncated \in BOOLEAN /\ failed \in BOOLEAN
  /\ since \in Time /\ overflowed \in BOOLEAN

Init ==
  /\ now = 0
  /\ closedAt = [c \in Call |-> NoTime]
  /\ visible = {} /\ stored = {}
  /\ watermark = NoTime
  /\ pc = "idle"
  /\ window = <<0, 0>> /\ skip = 0 /\ found = {} /\ todo = {}
  /\ truncated = FALSE /\ failed = FALSE
  /\ since = NoTime /\ overflowed = FALSE

-----------------------------------------------------------------------------
(* The CAD. *)

Unseen == {c \in Call : closedAt[c] # NoTime} \ visible

Tick ==
  /\ now < MaxTime
  /\ \A c \in Unseen : now < closedAt[c] + Lag
  /\ now' = now + 1
  /\ UNCHANGED <<closedAt, visible, stored, watermark, pc, run, ghosts>>

Close(c) ==
  /\ closedAt[c] = NoTime
  /\ closedAt' = [closedAt EXCEPT ![c] = now]
  /\ visible' \in {visible, visible \cup {c}}
  /\ UNCHANGED <<now, stored, watermark, pc, run, ghosts>>

Appear(c) ==
  /\ c \in Unseen
  /\ visible' = visible \cup {c}
  /\ UNCHANGED <<now, closedAt, stored, watermark, pc, run, ghosts>>

(* RecordClosedFrom .. RecordClosedTo, ascending by closing time. *)
Results == {c \in visible : closedAt[c] >= window[1] /\ closedAt[c] <= window[2]}

Before(c, d) ==
  closedAt[c] < closedAt[d] \/ (closedAt[c] = closedAt[d] /\ c < d)

Position(c) == Cardinality({d \in Results : Before(d, c)})

Page == {c \in Results : Position(c) >= skip /\ Position(c) < skip + PageSize}

-----------------------------------------------------------------------------
(* run_analytics_sync; its variables are gone when it returns. *)

Return ==
  /\ pc' = "idle"
  /\ window' = <<0, 0>> /\ skip' = 0 /\ found' = {} /\ todo' = {}
  /\ truncated' = FALSE /\ failed' = FALSE

(* faults: no overlap; no look-back before the first mark *)
WindowStartNoOverlap == IF watermark = NoTime THEN now - Lookback ELSE watermark
WindowStartUnset == IF watermark = NoTime THEN NoTime ELSE watermark - Overlap

WindowStart ==
  IF watermark = NoTime THEN now - Lookback ELSE watermark - Overlap

StartRun ==
  /\ pc = "idle"
  /\ pc' = "search"
  /\ window' = <<WindowStart, now>>
  /\ UNCHANGED <<cad, stored, watermark, skip, found, todo, truncated, failed, ghosts>>

(* The part of the page the loop takes before it has MaxCalls calls. *)
Taken ==
  {c \in Page : Cardinality(found \cup {d \in Page : Before(d, c)}) < MaxCalls}

(* discover_completed_calls: one page of the search. *)
Search ==
  LET full == Cardinality(found') >= MaxCalls
      long == Cardinality(Page) = PageSize
  IN
  /\ pc = "search"
  /\ found' = found \cup Taken
  /\ todo' = found'
  /\ truncated' = (full /\ long)
  /\ IF long /\ ~full
       THEN skip' = skip + PageSize /\ pc' = "search"
       ELSE skip' = skip /\ pc' = "collect"
  /\ overflowed' = (overflowed \/ Cardinality(Results) > MaxCalls)
  /\ UNCHANGED <<cad, stored, watermark, window, failed, since>>

Collect(c) ==
  /\ pc = "collect" /\ c \in todo
  /\ todo' = todo \ {c}
  /\ stored' = stored \cup {c}
  /\ UNCHANGED <<cad, watermark, pc, window, skip, found, truncated, failed, ghosts>>

(* The CAD refuses the call's analytics, or they are malformed. *)
CollectFails(c) ==
  /\ pc = "collect" /\ c \in todo
  /\ todo' = todo \ {c}
  /\ failed' = TRUE
  /\ UNCHANGED <<cad, stored, watermark, pc, window, skip, found, truncated, ghosts>>

(* fault: a run with failures moves the mark *)
CompleteEnough == ~truncated

Complete == ~failed /\ ~truncated

NewMark == window[2]

(* A partial run leaves the high-water mark where it was. *)
Finish ==
  /\ pc = "collect" /\ todo = {}
  /\ Return
  /\ IF Complete
       THEN /\ watermark' = NewMark
            /\ since' = IF since = NoTime THEN window[1] ELSE since
       ELSE UNCHANGED <<watermark, since>>
  /\ UNCHANGED <<cad, stored, overflowed>>

(* The search or the database fails, or the worker restarts. *)
Abort ==
  /\ pc # "idle"
  /\ Return
  /\ UNCHANGED <<cad, stored, watermark, ghosts>>

-----------------------------------------------------------------------------
Worker ==
  \/ StartRun \/ Search \/ Finish
  \/ \E c \in Call : Collect(c)

Failure == Abort \/ \E c \in Call : CollectFails(c)

Next ==
  \/ Tick \/ Worker \/ Failure
  \/ \E c \in Call : Close(c) \/ Appear(c)

Spec == Init /\ [][Next]_vars

(* The worker's loop starts a run every interval and each step of a run    *)
(* comes to an end; closed calls show up in the CAD's search in the end.   *)
FairSpec ==
  /\ Spec
  /\ WF_vars(Worker)
  /\ \A c \in Call : WF_vars(Appear(c))

-----------------------------------------------------------------------------
(* "Completeness (no missed calls)": once the high-water mark has passed a *)
(* call by the longest delay of the CAD, the call is stored: retries,      *)
(* restarts, calls that show up late and pages that shift under the search *)
(* notwithstanding.                                                        *)
Missed(c) ==
  /\ closedAt[c] # NoTime /\ watermark # NoTime
  /\ since <= closedAt[c] /\ closedAt[c] + Lag < watermark
  /\ c \notin stored

NoMissedCalls == \A c \in Call : ~Missed(c)

(* It holds as long as no run finds more than MaxCalls calls. *)
NoMissedCallsWithinLimit == ~overflowed => NoMissedCalls

(* The high-water mark never moves back, so a window once completed is     *)
(* searched again only as far as the overlap reaches.                      *)
WatermarkAdvances ==
  [][watermark # NoTime => watermark' # NoTime /\ watermark' >= watermark]_vars

(* Once requests to the CAD have stopped failing, and the worker being     *)
(* restarted, every closed call gets stored, also those that runs failed   *)
(* on before; unless some window holds more calls than a run takes: then   *)
(* the mark stays, and every later run takes the same first calls.  (A     *)
(* Finish that finds the mark where it is has the effect of an Abort.)     *)
Quiet == <>[][Failure => Finish]_vars

EveryCallCollected ==
  Quiet => \A c \in Call : (closedAt[c] # NoTime) ~> (c \in stored \/ overflowed)
=============================================================================
