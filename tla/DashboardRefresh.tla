-------------------------- MODULE DashboardRefresh --------------------------
(***************************************************************************)
(* How the dashboard keeps its snapshot up to date (lcdash-dashboard.js):  *)
(* a countdown of seconds, the update channel and a button ask for a       *)
(* refresh; one runs at a time, and what is asked for meanwhile is done    *)
(* after it.  An event waits half a second for others like it.             *)
(*                                                                         *)
(* Time passes in Tick, the handler that runs every second; timers of less *)
(* than a second fire at any moment.                                       *)
(***************************************************************************)
EXTENDS Naturals

CONSTANTS
  Refresh,   \* REFRESH_SECONDS
  Stale,     \* STALE_AFTER_SECONDS
  Timeout    \* REQUEST_TIMEOUT_MS, in seconds

VARIABLES
  countdown,  \* secondsUntilRefresh
  fetching,   \* refreshInProgress
  waited,     \* for how many seconds
  pending,    \* refreshPending
  debounce,   \* realtimeRefreshTimer runs
  soon,       \* a refresh is due as soon as the handlers have run
  age,        \* seconds since lastSuccessfulRefresh, at most Stale
  badge,      \* what the page says of its data
  unasked     \* history: an event came after the last request was sent

vars == <<countdown, fetching, waited, pending, debounce, soon, age, badge, unasked>>

TypeOK ==
  /\ countdown \in 0..Refresh /\ waited \in 0..Timeout /\ age \in 0..Stale
  /\ {fetching, pending, debounce, soon, unasked} \subseteq BOOLEAN
  /\ badge \in {"verified", "last verified", "last known", "unavailable", "stale"}

Init ==
  /\ countdown = Refresh /\ waited = 0 /\ age = 0
  /\ fetching = FALSE /\ pending = FALSE /\ debounce = FALSE /\ soon = FALSE
  /\ badge \in {"verified", "last verified", "unavailable"}
  /\ unasked = FALSE

-----------------------------------------------------------------------------
DropIfBusy ==  \* fault: what is asked for during a refresh is forgotten
  /\ fetching' = TRUE /\ unasked' = (fetching /\ unasked)
  /\ UNCHANGED pending

refreshDashboard ==
  /\ fetching' = TRUE /\ unasked' = (fetching /\ unasked)
  /\ pending' = (pending \/ fetching)

(* markStaleIfNeeded, after whatever else was said of the data. *)
Say(words, a) ==
  /\ age' = a
  /\ badge' = IF a >= Stale THEN "stale" ELSE words

Older == IF age < Stale THEN age + 1 ELSE age

(* timerTick, every second. *)
Tick ==
  /\ fetching => waited < Timeout
  /\ Say(badge, Older)
  /\ waited' = IF fetching THEN waited + 1 ELSE 0
  /\ \/ countdown = 0 /\ refreshDashboard /\ UNCHANGED countdown
     \/ countdown > 0 /\ countdown' = countdown - 1 /\ UNCHANGED <<fetching, pending, unasked>>
  /\ UNCHANGED <<debounce, soon>>

(* handleRealtimeEvent: the half second begins anew. *)
Event ==
  /\ debounce' = TRUE /\ unasked' = TRUE
  /\ UNCHANGED <<countdown, fetching, waited, pending, soon, age, badge>>

DebounceEnds ==
  /\ debounce /\ debounce' = FALSE
  /\ refreshDashboard
  /\ UNCHANGED <<countdown, waited, soon, age, badge>>

(* The refresh asked for while another one ran. *)
SoonComes ==
  /\ soon /\ soon' = FALSE
  /\ refreshDashboard
  /\ UNCHANGED <<countdown, waited, debounce, age, badge>>

(* The button is disabled while a refresh runs; a waiting timer is not     *)
(* needed any more.                                                        *)
Click ==
  /\ ~fetching
  /\ debounce' = FALSE
  /\ refreshDashboard
  /\ UNCHANGED <<countdown, waited, soon, age, badge>>

(* The page is looked at again. *)
Visible ==
  /\ age > Refresh
  /\ countdown' = 0
  /\ Say(badge, age) /\ refreshDashboard
  /\ UNCHANGED <<waited, debounce, soon>>

(* The end of refreshDashboard. *)
Done ==
  /\ fetching /\ fetching' = FALSE /\ pending' = FALSE /\ waited' = 0
  /\ soon' = (soon \/ pending)
  /\ countdown' = IF pending THEN 0 ELSE Refresh
  /\ UNCHANGED <<debounce, unasked>>

(* A snapshot that was read a seconds ago, which the server says is its    *)
(* current one or the last it could verify.                                *)
Receive(a) ==
  /\ Done
  /\ \E words \in {"verified", "last verified"} : Say(words, a)

ReceiveNothing == Done /\ Say("unavailable", age)

(* An error, a lost session or the time-out. *)
RequestFails == Done /\ Say("last known", age)

Next ==
  \/ Tick \/ Event \/ DebounceEnds \/ SoonComes \/ Click \/ Visible
  \/ ReceiveNothing \/ RequestFails
  \/ \E a \in 0..Stale : Receive(a)

Spec == Init /\ [][Next]_vars
-----------------------------------------------------------------------------
(* An event the browser was told of is asked about: as long as no request  *)
(* was sent after it, one is due, whatever timers, refreshes, failures and *)
(* clicks come together.                                                   *)
NoEventForgotten == unasked => debounce \/ soon \/ (pending /\ fetching)

(* Not so: "The existing 30-second snapshot refresh" follows another one   *)
(* at once only if something happened.  The countdown stays 0 during a     *)
(* refresh, and the next tick takes that for a second one.                 *)
RefreshIsSpaced == pending => unasked
=============================================================================
