---------------------------- MODULE MCApplication ----------------------------
(***************************************************************************)
(* Five more parts of the application that share nothing, checked in one   *)
(* run: the review of who has access, with three accounts, two of them     *)
(* admins, and two requests at a time; the script that matches the         *)
(* accounts to a list; the admins' document library; the budget of the     *)
(* cloud assistant; and in the browser the dashboard's refresh.            *)
(* "part" says which of them moves, from the first state on, and the       *)
(* others stay as they begin.  Requests of the review are interchangeable, *)
(* and so are its two admins.                                              *)
(***************************************************************************)
EXTENDS PilotAccess, AppParts, TLC

VARIABLES
  part

(* Two more users, and another role for the first. *)
ApprovedLists == {<<"user", "none", "none">>, <<"admin", "admin", "user">>}

advisory == <<
  a_today, a_day, a_count, a_pc, a_path, a_rounds, a_used, a_paid, a_calls>>
dashboard == <<
  d_countdown, d_fetching, d_waited, d_pending, d_debounce, d_soon, d_age,
  d_badge, d_unasked>>
sync == <<
  u_approved, u_pool, u_seen, u_unread, u_plan, u_pc, u_disturbed>>
library == <<
  k_bucket, k_index, k_job, k_pc, k_uploads, k_syncs, k_due, k_reading>>

all == <<
  part, vars, advisory, dashboard, sync, library>>

ApplicationInit ==
  /\ part \in {
      "access", "advisory", "dashboard", "sync", "library"}
  /\ Init
  /\ Advisory!Init
  /\ Dashboard!Init
  /\ Sync!Init
  /\ Library!Init
  /\ part = "dashboard" \/ d_badge = "verified"
  /\ part = "sync" \/ (u_approved[1] = "admin" /\ u_pool = u_seen)

ApplicationNext ==
  \/ /\ part = "access" /\ Next
     /\ UNCHANGED <<
          part, advisory, dashboard, sync, library>>
  \/ /\ part = "advisory" /\ Advisory!Next
     /\ UNCHANGED <<
          part, vars, dashboard, sync, library>>
  \/ /\ part = "dashboard" /\ Dashboard!Next
     /\ UNCHANGED <<
          part, vars, advisory, sync, library>>
  \/ /\ part = "sync" /\ Sync!Next
     /\ UNCHANGED <<
          part, vars, advisory, dashboard, library>>
  \/ /\ part = "library" /\ Library!Next
     /\ UNCHANGED <<
          part, vars, advisory, dashboard, sync>>

ApplicationSpec == ApplicationInit /\ [][ApplicationNext]_all
-----------------------------------------------------------------------------
Symmetry == Permutations(Handler) \cup Permutations(FirstAdmins)

(* Each component's state is of its type. *)
AllTypesOK ==
  /\ TypeOK /\ Advisory!TypeOK /\ Dashboard!TypeOK /\ Sync!TypeOK
  /\ Library!TypeOK
=============================================================================
