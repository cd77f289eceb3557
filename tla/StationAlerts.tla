---------------------------- MODULE StationAlerts ----------------------------
(***************************************************************************)
(* The page that alerts a fire station (lcdash-station-alerts.js) and the  *)
(* snapshot it polls (station_alert_service.py).  Polls may overlap and be *)
(* answered in any order, and alerts arrive while another one is on the    *)
(* screen and in the moment between two of them.  StationSound models what *)
(* is heard of them.                                                       *)
(*                                                                         *)
(* One unit stands for a station: choosing stations is choosing units. An  *)
(* alert is its event id: the call, the chosen units on it and the time of *)
(* the latest assignment.  Of equal polls, or answers, one is kept.        *)
(***************************************************************************)
EXTENDS Naturals, FiniteSetsExt, SequencesExt, Orders

CONSTANTS
  Call, Unit,
  NoAlert,
  MaxAssign, MaxPolls, MaxChoices   \* bounds: assignments, open polls, choices

VARIABLES
  since,      \* when a unit was assigned to a call, 0 if it is not
  clock,      \* number of assignments
  chosen,     \* selectedStations
  choices,    \* how often they were chosen
  first,      \* firstSnapshotForStation
  seen,       \* seenEventIds
  pending,    \* pendingAlerts
  shown,      \* the alert of the visible overlay, or NoAlert
  due,        \* alerts of running timers of 250 ms, oldest first
  asked,      \* units of the polls the server has yet to answer
  answers     \* answers under way to the page

page  == <<chosen, choices, first, seen, pending, due>>
polls == <<asked, answers>>
world == <<since, clock>>
vars  == <<world, page, shown, polls>>

Alert  == [call : Call, units : SUBSET Unit, at : 1..MaxAssign]
Test   == [call |-> NoAlert, units |-> {}, at |-> 0]

TypeOK ==
  /\ since \in [Call -> [Unit -> 0..MaxAssign]] /\ clock \in 0..MaxAssign
  /\ chosen \subseteq Unit /\ choices \in 0..MaxChoices
  /\ first \in BOOLEAN /\ seen \subseteq Alert
  /\ pending \in Seq(Alert) /\ due \in Seq(Alert)
  /\ shown \in Alert \cup {Test, NoAlert}
  /\ asked \subseteq SUBSET Unit /\ \A a \in answers : a \in Seq(Alert)

Init ==
  /\ since = [c \in Call |-> [u \in Unit |-> 0]] /\ clock = 0
  /\ chosen \in SUBSET Unit /\ first = (chosen = {})
  /\ choices = 0 /\ seen = {} /\ pending = <<>> /\ due = <<>> /\ shown = NoAlert
  /\ asked = {} /\ answers = {}

-----------------------------------------------------------------------------
(* The CAD assigns units and clears them. *)
Assign(c, u) ==
  /\ clock < MaxAssign
  /\ clock' = clock + 1 /\ since' = [since EXCEPT ![c][u] = clock + 1]
  /\ UNCHANGED <<page, shown, polls>>

Clear(c, u) ==
  /\ since[c][u] > 0
  /\ since' = [since EXCEPT ![c][u] = 0]
  /\ UNCHANGED <<clock, page, shown, polls>>

(* build_station_alert_snapshot: one alert a call, the newest first. *)
On(c, units) == {u \in units : since[c][u] > 0}
AlertOf(c, units) ==
  [call |-> c, units |-> On(c, units), at |-> Max({since[c][u] : u \in On(c, units)})]
Snapshot(units) ==
  LET alerts == {AlertOf(c, units) : c \in {d \in Call : On(d, units) # {}}}
      times  == Reverse(InOrder({a.at : a \in alerts}))
  IN  [i \in DOMAIN times |-> CHOOSE a \in alerts : a.at = times[i]]

-----------------------------------------------------------------------------
(* The page polls whether or not the last poll was answered. *)
Ask(units) ==
  /\ Cardinality(asked) + Cardinality(answers) < MaxPolls
  /\ asked' = asked \cup {units} /\ UNCHANGED answers

Poll == chosen # {} /\ Ask(chosen) /\ UNCHANGED <<world, page, shown>>

(* The server reads the CAD; when it cannot, its answer has no alerts.     *)
Serve(units) ==
  /\ units \in asked /\ asked' = asked \ {units}
  /\ \E alerts \in {Snapshot(units), <<>>} : answers' = answers \cup {alerts}
  /\ UNCHANGED <<world, page, shown>>

PollFails ==
  /\ \/ \E units \in asked : asked' = asked \ {units} /\ UNCHANGED answers
     \/ \E alerts \in answers : answers' = answers \ {alerts} /\ UNCHANGED asked
  /\ UNCHANGED <<world, page, shown>>

RestReplaced(new) == new                 \* fault: what was queued is dropped
Queued(new) == pending \o new

(* baselineOrAlert: what the first answer holds counts as seen. *)
Deliver(alerts) ==
  LET new == Without(alerts, seen)
  IN /\ alerts \in answers /\ answers' = answers \ {alerts}
     /\ first' = FALSE /\ seen' = seen \cup Range(alerts)
     /\ IF first \/ new = <<>> THEN UNCHANGED <<pending, shown>>
        ELSE IF shown # NoAlert THEN pending' = Queued(new) /\ UNCHANGED shown
        ELSE pending' = Queued(Tail(new)) /\ shown' = Head(new)
     /\ UNCHANGED <<world, chosen, choices, due, asked>>

-----------------------------------------------------------------------------
(* hideAlert, by the button or the Escape key: the next one is due. *)
Acknowledge ==
  /\ shown # NoAlert
  /\ shown' = NoAlert
  /\ IF pending = <<>> THEN UNCHANGED <<pending, due>>
     ELSE pending' = Tail(pending) /\ due' = Append(due, Head(pending))
  /\ UNCHANGED <<world, chosen, choices, first, seen, polls>>

(* The timer does not look whether the overlay is visible by now. *)
TimerFires ==
  /\ due # <<>>
  /\ shown' = Head(due) /\ due' = Tail(due)
  /\ UNCHANGED <<world, chosen, choices, first, seen, pending, polls>>

(* chooseStations; the overlay covers the page while it is visible.        *)
Choose(units) ==
  /\ shown = NoAlert /\ choices < MaxChoices
  /\ chosen' = units /\ choices' = choices + 1
  /\ first' = TRUE /\ seen' = {} /\ pending' = <<>>
  /\ IF units = {} THEN UNCHANGED polls ELSE Ask(units)
  /\ UNCHANGED <<world, shown, due>>

-----------------------------------------------------------------------------
(* testAlert shows a made-up alert. *)
TestAlert ==
  /\ shown = NoAlert /\ shown' = Test
  /\ UNCHANGED <<world, page, polls>>

Next ==
  \/ \E c \in Call, u \in Unit : Assign(c, u) \/ Clear(c, u)
  \/ \E units \in SUBSET Unit : Choose(units) \/ Serve(units)
  \/ \E alerts \in answers : Deliver(alerts)
  \/ Poll \/ PollFails \/ Acknowledge \/ TimerFires \/ TestAlert

Spec == Init /\ [][Next]_vars
-----------------------------------------------------------------------------
(* No assignment gets lost on the page unseen: one that is found to be new *)
(* is put on the screen or in the queue for it, however polls overlap, and *)
(* until other stations are chosen nothing leaves the screen, the queue or *)
(* the timers but what was on the screen: by a person, or by the timer,    *)
(* which shows its alert over another one.                                 *)
Held == ({shown} \cup Range(pending) \cup Range(due)) \cap Alert
Found == IF first THEN {} ELSE seen' \ seen
OnlyShownLeaves ==
  [][choices' = choices => (Held \cup Found) \ Held' \subseteq {shown}]_vars
=============================================================================
