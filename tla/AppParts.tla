------------------------------- MODULE AppParts -------------------------------
(***************************************************************************)
(* Parts of the application that share nothing, each with constants and    *)
(* variables of its own: the daily budget of the cloud assistant, the      *)
(* refresh of the dashboard, the script that matches the user pool to a    *)
(* list, and the document library of the admins.                           *)
(***************************************************************************)
EXTENDS Naturals, FiniteSets

-----------------------------------------------------------------------------
(* The budget of the cloud assistant (CloudAdvisory). *)

CONSTANTS Question, Limit, MaxRounds, MaxDay

VARIABLES
  a_today, a_day, a_count, a_pc, a_path, a_rounds, a_used, a_paid, a_calls

Advisory == INSTANCE CloudAdvisory WITH
  Request <- Question, today <- a_today, day <- a_day, count <- a_count,
  pc <- a_pc, path <- a_path, rounds <- a_rounds, used <- a_used,
  paid <- a_paid, calls <- a_calls

BudgetConstants ==
  /\ IsFiniteSet(Question) /\ Limit \in Nat /\ MaxRounds \in Nat /\ MaxDay \in Nat

ASSUME BudgetAssumption == BudgetConstants

(* What the names of the properties say is told in the modules they are    *)
(* from: the daily budget of model calls holds on all paths together, ...  *)
BudgetHolds == Advisory!BudgetHolds

-----------------------------------------------------------------------------
(* The dashboard's refresh (DashboardRefresh). *)

CONSTANTS RefreshSeconds, StaleSeconds, RequestSeconds

VARIABLES
  d_countdown, d_fetching, d_waited, d_pending, d_debounce, d_soon, d_age,
  d_badge, d_unasked

Dashboard == INSTANCE DashboardRefresh WITH
  Refresh <- RefreshSeconds, Stale <- StaleSeconds, Timeout <- RequestSeconds,
  countdown <- d_countdown, fetching <- d_fetching, waited <- d_waited,
  pending <- d_pending, debounce <- d_debounce, soon <- d_soon, age <- d_age,
  badge <- d_badge, unasked <- d_unasked

DashboardConstants ==
  RefreshSeconds \in Nat /\ StaleSeconds \in Nat /\ RequestSeconds \in Nat

ASSUME DashboardAssumption == DashboardConstants

(* ... the dashboard asks about every event it is told of, ... *)
NoEventForgotten == Dashboard!NoEventForgotten

-----------------------------------------------------------------------------
(* The user pool made to match a list (UserSync). *)

CONSTANTS Person, PersonGroup, NotListed, UserLists

VARIABLES u_approved, u_pool, u_seen, u_unread, u_plan, u_pc, u_disturbed

Sync == INSTANCE UserSync WITH
  User <- Person, Group <- PersonGroup, NotApproved <- NotListed,
  Lists <- UserLists, approved <- u_approved, pool <- u_pool,
  seen <- u_seen, unread <- u_unread, plan <- u_plan, pc <- u_pc,
  disturbed <- u_disturbed

SyncConstants ==
  /\ Person \subseteq Nat /\ IsFiniteSet(PersonGroup) /\ NotListed \notin PersonGroup
  /\ UserLists \subseteq [Person -> PersonGroup \cup {NotListed}]

ASSUME SyncAssumption == SyncConstants

(* ... a sync that gets through leaves the accounts as declared, ... *)
SyncSettles == Sync!SyncSettles

-----------------------------------------------------------------------------
(* The document library of the admins (KnowledgeUpload). *)

CONSTANTS DocName, Librarian, NoDoc, MaxUploads, MaxSyncs

VARIABLES
  k_bucket, k_index, k_job, k_pc, k_uploads, k_syncs, k_due, k_reading

Library == INSTANCE KnowledgeUpload WITH
  Name <- DocName, Admin <- Librarian, NoDoc <- NoDoc, MaxUploads <- MaxUploads,
  MaxSyncs <- MaxSyncs, bucket <- k_bucket, index <- k_index, job <- k_job,
  pc <- k_pc, uploads <- k_uploads, syncs <- k_syncs, due <- k_due,
  reading <- k_reading

LibraryConstants == MaxUploads \in Nat /\ MaxSyncs \in Nat /\ NoDoc \notin Nat

ASSUME LibraryAssumption == LibraryConstants

(* ... and a sync answered as complete has covered what was there. *)
DoneMeansServed == Library!DoneMeansServed
=============================================================================
