------------------------------- MODULE UserSync -------------------------------
(***************************************************************************)
(* The user pool made to match a list of approved users                    *)
(* (scripts/sync_cognito_users.py with app/tools/cognito_user_sync.py).    *)
(* The script reads the pool, plans what to change, and changes it call by *)
(* call; it may fail at any of them and is run again.  Meanwhile admins    *)
(* change the pool over the access page, see PilotAccess.                  *)
(*                                                                         *)
(* An account is read in one step.  Groups the list does not know of are   *)
(* left alone by the script and left out here.                             *)
(***************************************************************************)
EXTENDS Naturals, FiniteSetsExt

CONSTANTS
  User,   \* numbers, in the order of their addresses
  Group, NotApproved,
  Lists   \* the lists of approved users there may be, none of them empty
          \* (parse_approved_users)

VARIABLES
  approved,   \* the list: the group of each user in it
  pool,       \* the accounts: their status and their groups
  seen,       \* the accounts as the script has read them
  unread,     \* those it still has to read
  plan,       \* the calls it has still to make
  pc,         \* "idle", "read", "apply" or "done"
  disturbed   \* history: the pool was changed by others since it began to read

run  == <<seen, unread, plan, pc>>
vars == <<approved, pool, run, disturbed>>

Account == [status : {"none", "enabled", "disabled"}, groups : SUBSET Group]
NoAccount == [status |-> "none", groups |-> {}]
Accounts == {a \in Account : a.status = "none" => a = NoAccount}

Call == [kind : {"create", "enable", "disable"}, user : User]
          \cup [kind : {"add", "remove"}, user : User, group : Group]

Unseen == [u \in User |-> NoAccount]

TypeOK ==
  /\ approved \in Lists /\ approved \in [User -> Group \cup {NotApproved}]
  /\ {pool, seen} \subseteq [User -> Accounts]
  /\ unread \subseteq User
  /\ plan \subseteq Call
  /\ pc \in {"idle", "read", "apply", "done"} /\ disturbed \in BOOLEAN
  /\ (unread # {} => pc = "read") /\ (plan # {} => pc = "apply")

Init ==
  /\ approved \in Lists
  /\ pool \in [User -> {NoAccount} \cup [status : {"enabled"}, groups : {{g} : g \in Group}]]
  /\ seen = Unseen /\ unread = {}
  /\ plan = {} /\ pc = "idle" /\ disturbed = FALSE

-----------------------------------------------------------------------------
Running == pc \in {"read", "apply"}

(* One call of the access page or the console to Cognito: one at most      *)
(* while the script runs (bound).                                          *)
Others(u) ==
  LET a == pool[u] IN
  /\ ~disturbed
  /\ \E b \in {c \in Accounts : c # a} :
       /\ \/ a.status = "none" /\ b.status = "enabled" /\ b.groups = {}
          \/ b.status = "none"
          \/ {a.status, b.status} = {"enabled", "disabled"} /\ a.groups = b.groups
          \/ /\ a.status = b.status
             /\ \E g \in Group : b.groups \in {a.groups \cup {g}, a.groups \ {g}}
       /\ pool' = [pool EXCEPT ![u] = b]
  /\ disturbed' = Running
  /\ pc' = IF Running THEN pc ELSE "idle"
  /\ UNCHANGED <<approved, seen, unread, plan>>

-----------------------------------------------------------------------------
(* The file is edited, and the script run. *)
Start ==
  /\ pc \in {"idle", "done"} /\ pc' = "read" /\ unread' = User
  /\ approved' \in Lists
  /\ disturbed' = FALSE
  /\ UNCHANGED <<pool, seen, plan>>

Read(u) ==
  /\ u \in unread /\ unread' = unread \ {u}
  /\ seen' = [seen EXCEPT ![u] = pool[u]]
  /\ UNCHANGED <<approved, pool, plan, pc, disturbed>>

On(u, kind)    == [kind |-> kind, user |-> u]
In(u, kind, g) == [kind |-> kind, user |-> u, group |-> g]

(* fault: only the new group is looked at *)
NoStale(u) == {}

(* "Exactly one managed group." *)
Stale(u) == seen[u].groups \ {approved[u]}

Planned(u) ==
  LET g == approved[u] IN
  IF seen[u].status = "none"
    THEN {On(u, "create"), In(u, "add", g)}
    ELSE {c \in {On(u, "enable")} : seen[u].status = "disabled"}
           \cup {In(u, "remove", s) : s \in Stale(u)}
           \cup {c \in {In(u, "add", g)} : g \notin seen[u].groups}

(* The order of the calls, but for a user's removals: approved users first *)
(* and one after another, their accounts before their groups.              *)
Sooner(c, d) ==
  \/ c.kind # "disable" /\ d.kind = "disable"
  \/ (c.kind = "disable") = (d.kind = "disable") /\ c.user < d.user
  \/ /\ c.user = d.user
     /\ \/ c.kind \in {"create", "enable"} /\ d.kind \in {"remove", "add"}
        \/ c.kind = "remove" /\ d.kind = "add"

Enabled   == {u \in User : seen[u].status = "enabled"}
Removed   == {u \in Enabled : approved[u] = NotApproved}
TooMany   == Cardinality(Removed) > Max({1, Cardinality(Enabled) \div 2})

(* A run of which others changed the pool is not one to judge by. *)
Continue(rest) ==
  IF rest # {} THEN pc' = "apply" /\ UNCHANGED <<seen, disturbed>>
  ELSE /\ pc' = IF disturbed THEN "idle" ELSE "done"
       /\ seen' = Unseen /\ disturbed' = FALSE

(* Too many users to be disabled are refused, unless the operator says so. *)
plan_user_sync ==
  /\ pc = "read" /\ unread = {}
  /\ LET kept == {u \in User : approved[u] # NotApproved}
         new  == (UNION {Planned(u) : u \in kept}) \cup {On(u, "disable") : u \in Removed}
     IN  \/ /\ TooMany /\ pc' = "idle"
            /\ seen' = Unseen /\ disturbed' = FALSE /\ UNCHANGED plan
         \/ plan' = new /\ Continue(new)
  /\ UNCHANGED <<approved, pool, unread>>

After(c) ==
  LET a == pool[c.user] IN
  CASE c.kind = "create"  -> [a EXCEPT !.status = "enabled"]
    [] c.kind = "enable"  -> [a EXCEPT !.status = "enabled"]
    [] c.kind = "disable" -> [a EXCEPT !.status = "disabled"]
    [] c.kind = "add"     -> [a EXCEPT !.groups = @ \cup {c.group}]
    [] c.kind = "remove"  -> [a EXCEPT !.groups = @ \ {c.group}]

(* One call of apply_plan.  Cognito wants the account to be there, or, to  *)
(* create it, not to be.                                                   *)
Apply ==
  /\ \E c \in plan :
       /\ \A d \in plan : ~Sooner(d, c)
       /\ (c.kind = "create") = (pool[c.user].status = "none")
       /\ pool' = [pool EXCEPT ![c.user] = After(c)]
       /\ plan' = plan \ {c} /\ Continue(plan \ {c})
  /\ UNCHANGED <<approved, unread>>

(* A call fails, or the script is stopped. *)
Fail ==
  /\ Running /\ pc' = "idle"
  /\ plan' = {} /\ unread' = {} /\ seen' = Unseen /\ disturbed' = FALSE
  /\ UNCHANGED <<approved, pool>>

Next ==
  \/ Start \/ plan_user_sync \/ Apply \/ Fail
  \/ \E u \in User : Read(u) \/ Others(u)

Spec == Init /\ [][Next]_vars
-----------------------------------------------------------------------------
AsDeclared(u) ==
  IF approved[u] = NotApproved
    THEN pool[u].status # "enabled"
    ELSE pool[u] = [status |-> "enabled", groups |-> {approved[u]}]

(* "Re-run ...; the script is idempotent": a run that gets through leaves  *)
(* the pool as the list says, wherever earlier ones stopped, unless others *)
(* changed the pool meanwhile; and no run that stops leaves an account     *)
(* with more roles than it had.                                            *)
SyncSettles ==
  ~disturbed =>
    /\ pc = "done" => \A u \in User : AsDeclared(u)
    /\ pc = "apply" => \A u \in User :
         Cardinality(pool[u].groups) <= Max({1, Cardinality(seen[u].groups)})

(* Not so: an account is enabled again before the groups it had are taken  *)
(* away, and keeps them if the script stops there.                         *)
NoOldRole ==
  pc = "apply" /\ ~disturbed =>
    \A u \in User : /\ seen[u].status = "disabled" /\ pool[u].status = "enabled"
                    => pool[u].groups \subseteq {approved[u]}
=============================================================================
