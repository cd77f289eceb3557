-------------------------- MODULE SegmentDelivery --------------------------
(***************************************************************************)
(* What the radio listener promises about a published segment, whatever    *)
(* its files and processes do: it waits until the server has it or someone *)
(* has to look at it, a segment counts as delivered only when the server   *)
(* has stored it, and a delivered segment is never handled again.          *)
(***************************************************************************)
CONSTANT Segment

VARIABLES
  status,   \* where each segment stands
  stored    \* the segments the server has ever stored

vars == <<status, stored>>

Statuses == {"absent", "waiting", "set_aside", "delivered"}

TypeOK == status \in [Segment -> Statuses] /\ stored \subseteq Segment

Init ==
  /\ status = [s \in Segment |-> "absent"]
  /\ stored = {}

Move(s, from, to) ==
  /\ status[s] = from
  /\ status' = [status EXCEPT ![s] = to]
  /\ UNCHANGED stored

Publish(s)  == Move(s, "absent", "waiting")
SetAside(s) == Move(s, "waiting", "set_aside")
Requeue(s)  == Move(s, "set_aside", "waiting")
Deliver(s)  == s \in stored /\ Move(s, "waiting", "delivered")

(* The server may store a segment the listener has published at any time:  *)
(* requests outlive the client that sent them.                             *)
Store(s) ==
  /\ status[s] # "absent"
  /\ stored' = stored \cup {s}
  /\ UNCHANGED status

Next ==
  \E s \in Segment :
    Publish(s) \/ SetAside(s) \/ Requeue(s) \/ Deliver(s) \/ Store(s)

Spec == Init /\ [][Next]_vars
=============================================================================
