----------------------------- MODULE PilotAccess -----------------------------
(***************************************************************************)
(* Access review of the cloud pilot (app/services/pilot_access_service.py  *)
(* behind the /api/admin/users routes): admins invite, re-role, disable,   *)
(* enable and delete accounts of the Cognito user pool.                    *)
(*                                                                         *)
(* Cognito has no transactions: a request is a sequence of calls to it,    *)
(* each acting on the pool as it is then, and the guards look at what      *)
(* earlier calls returned.                                                 *)
(***************************************************************************)
EXTENDS Naturals, FiniteSets

CONSTANTS
  User, Role, Admin,
  FirstAdmins,    \* the admins the pool starts with
  Handler,        \* requests under way at once
  NoJob

ASSUME ConstantsAssumption ==
  /\ Admin \in Role
  /\ FirstAdmins \subseteq User /\ FirstAdmins # {}

VARIABLES
  exists, enabled,  \* accounts of the pool
  groups,           \* the role groups an account is in
  sessions,         \* users whose session says they are admins
  pc, job,          \* the requests: what they do, to whom
  seen,             \* the groups of the target as a request read them
  overlapped,       \* history: two requests that take an admin's access away
                    \* were ever under way together
  crossed           \* history: two that give one account a role were

pool == <<exists, enabled, groups>>
requests == <<pc, job, seen>>
history == <<overlapped, crossed>>
vars == <<pool, sessions, requests, history>>

Job == [op : {"set_role", "disable", "delete", "invite"},
        target : User, role : Role, takes : BOOLEAN]

TypeOK ==
  /\ exists \subseteq User
  /\ enabled \subseteq exists
  /\ groups \in [User -> SUBSET Role]
  /\ \A u \in User \ exists : groups[u] = {}
  /\ sessions \subseteq User
  /\ pc \in [Handler -> {"idle", "guard", "write", "add"}]
  /\ job \in [Handler -> Job \cup {NoJob}]
  /\ \A h \in Handler : pc[h] # "idle" => job[h] \in Job
  /\ seen \in [Handler -> SUBSET Role]
  /\ overlapped \in BOOLEAN /\ crossed \in BOOLEAN

Init ==
  /\ exists = FirstAdmins /\ enabled = FirstAdmins
  /\ groups = [u \in User |-> IF u \in FirstAdmins THEN {Admin} ELSE {}]
  /\ sessions = FirstAdmins
  /\ pc = [h \in Handler |-> "idle"]
  /\ job = [h \in Handler |-> NoJob]
  /\ seen = [h \in Handler |-> {}]
  /\ overlapped = FALSE /\ crossed = FALSE

-----------------------------------------------------------------------------
EnabledAdmins == {u \in enabled : Admin \in groups[u]}

Go(h, p) == pc' = [pc EXCEPT ![h] = p]

End(h) ==
  /\ Go(h, "idle")
  /\ job' = [job EXCEPT ![h] = NoJob]
  /\ seen' = [seen EXCEPT ![h] = {}]

(* _require_pilot_admin looks at the session only, and a session carries   *)
(* the groups of its sign-in, whatever happens to the account meanwhile:   *)
(* here, whoever was ever an admin has a session that says so.             *)
_require_pilot_admin(actor) == actor \in sessions

(* fault: accounts that are gone are not noticed *)
NoticedNever(t) == TRUE

(* Cognito refuses a call about an account it does not have. *)
Found(t) == t \in exists

(* Requests that may leave the target without its admin access. *)
Takes(op, p) == op \in {"disable", "delete"} \/ p = "guard"

Taking == {h \in Handler : pc[h] # "idle" /\ job[h].takes}

Giving(u) ==
  {h \in Handler : /\ pc[h] # "idle" /\ job[h].target = u
                   /\ job[h].op \in {"set_role", "invite"}}

Begin(h, op, actor, target, role, p) ==
  /\ pc[h] = "idle" /\ _require_pilot_admin(actor)
  /\ Go(h, p)
  /\ job' = [job EXCEPT ![h] = [op |-> op, target |-> target, role |-> role,
                                takes |-> Takes(op, p)]]
  /\ seen' = [seen EXCEPT ![h] = groups[target]]
  /\ overlapped' = (overlapped \/ (Takes(op, p) /\ Taking # {}))
  /\ crossed' = (crossed \/ (op = "set_role" /\ Giving(target) # {}))
  /\ UNCHANGED <<pool, sessions>>

(* Demoting an admin needs another one, and never oneself. *)
BeginSetRole(h, actor, target, role) ==
  /\ Found(target)
  /\ IF Admin \in groups[target] /\ role # Admin
       THEN actor # target /\ Begin(h, "set_role", actor, target, role, "guard")
       ELSE Begin(h, "set_role", actor, target, role, "write")

BeginRemoval(h, op, actor, target) ==
  /\ op \in {"disable", "delete"}
  /\ Found(target) /\ actor # target
  /\ Begin(h, op, actor, target, Admin,
           IF Admin \in groups[target] THEN "guard" ELSE "write")

(* fault: disabled admins count *)
AnyOtherAdmin(t) == \E u \in exists \ {t} : Admin \in groups[u]

_other_enabled_admin_exists(t) == EnabledAdmins \ {t} # {}

Guard(h) ==
  /\ pc[h] = "guard"
  /\ IF _other_enabled_admin_exists(job[h].target)
       THEN Go(h, "write") /\ UNCHANGED <<job, seen>>
       ELSE End(h)
  /\ UNCHANGED <<pool, sessions, history>>

Disable(h) ==
  /\ pc[h] = "write" /\ job[h].op = "disable"
  /\ enabled' = enabled \ {job[h].target}
  /\ End(h)
  /\ UNCHANGED <<exists, groups, sessions, history>>

Delete(h) ==
  LET t == job[h].target IN
  /\ pc[h] = "write" /\ job[h].op = "delete"
  /\ exists' = exists \ {t} /\ enabled' = enabled \ {t}
  /\ groups' = [groups EXCEPT ![t] = {}]
  /\ End(h)
  /\ UNCHANGED <<sessions, history>>

(* fault: only the admin group is removed *)
OnlyAdminRemoved(h) == (seen[h] \cap {Admin}) \ {job[h].role}

(* set_role removes the other groups it saw, one call each, ... *)
ToRemove(h) == seen[h] \ {job[h].role}

RemoveGroup(h, g) ==
  LET t == job[h].target IN
  /\ pc[h] = "write" /\ job[h].op = "set_role"
  /\ Found(t) /\ g \in ToRemove(h)
  /\ groups' = [groups EXCEPT ![t] = @ \ {g}]
  /\ seen' = [seen EXCEPT ![h] = @ \ {g}]
  /\ UNCHANGED <<exists, enabled, sessions, pc, job, history>>

(* ... and then adds the new one, unless it saw it. *)
AddGroup(h) ==
  LET t == job[h].target
      r == job[h].role
  IN
  /\ \/ pc[h] = "add"
     \/ pc[h] = "write" /\ job[h].op = "set_role" /\ ToRemove(h) = {}
  /\ Found(t)
  /\ groups' = IF r \in seen[h] THEN groups
               ELSE [groups EXCEPT ![t] = @ \cup {r}]
  /\ sessions' = IF r = Admin THEN sessions \cup {t} ELSE sessions
  /\ End(h)
  /\ UNCHANGED <<exists, enabled, history>>

(* invite_user creates the account and then adds its group. *)
Invite(h, actor, target, role) ==
  /\ pc[h] = "idle" /\ _require_pilot_admin(actor) /\ target \notin exists
  /\ exists' = exists \cup {target} /\ enabled' = enabled \cup {target}
  /\ job' = [job EXCEPT ![h] = [op |-> "invite", target |-> target, role |-> role,
                                takes |-> FALSE]]
  /\ Go(h, "add")
  /\ crossed' = (crossed \/ Giving(target) # {})
  /\ UNCHANGED <<groups, sessions, seen, overlapped>>

Enable(actor, target) ==
  /\ _require_pilot_admin(actor) /\ Found(target)
  /\ enabled' = enabled \cup {target}
  /\ UNCHANGED <<exists, groups, sessions, requests, history>>

(* A call to Cognito fails, the account is gone, or the task dies: what    *)
(* was done stays done.                                                    *)
Die(h) ==
  /\ pc[h] # "idle"
  /\ End(h)
  /\ UNCHANGED <<pool, sessions, history>>

-----------------------------------------------------------------------------
Next ==
  \/ \E h \in Handler, a, t \in User :
       \/ \E r \in Role : BeginSetRole(h, a, t, r) \/ Invite(h, a, t, r)
       \/ \E op \in {"disable", "delete"} : BeginRemoval(h, op, a, t)
  \/ \E a, t \in User : Enable(a, t)
  \/ \E h \in Handler :
       \/ Guard(h) \/ Disable(h) \/ Delete(h) \/ AddGroup(h) \/ Die(h)
       \/ \E g \in Role : RemoveGroup(h, g)

Spec == Init /\ [][Next]_vars

-----------------------------------------------------------------------------
(* "Never removing the last enabled admin": some enabled account is an     *)
(* admin, whatever else is under way and wherever a request dies, as long  *)
(* as the requests that take access away come one after the other.         *)
AdminRemainsIfSerial == overlapped \/ EnabledAdmins # {}

(* An account has one role at most, whatever becomes of the requests and   *)
(* of what else is done to it, as long as no two of them give the same     *)
(* account a role together.                                                *)
OneRoleUnlessCrossed ==
  crossed \/ \A u \in User : Cardinality(groups[u]) <= 1

(* "Checked against live pool state on every mutation rather than cached,  *)
(* because two admins editing at once is exactly when the guard matters":  *)
(* some enabled account is an admin, however requests interleave.          *)
AdminRemains == EnabledAdmins # {}
=============================================================================
