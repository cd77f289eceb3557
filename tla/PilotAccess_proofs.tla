------------------------- MODULE PilotAccess_proofs -------------------------
(***************************************************************************)
(* Proofs about PilotAccess: with any number of accounts, roles and        *)
(* requests, the last-admin guard is right as long as the requests that    *)
(* take an admin's access away come one after the other, and an account    *)
(* keeps one role as long as no two requests give it one together.  Then   *)
(* about the document library of the run it is composed in: COMPLETE means *)
(* served.  At the end, the types of the application's parts side by side. *)
(***************************************************************************)
EXTENDS MCApplication, PageParts_proofs, FiniteSetTheorems, TLAPS

(* What a request is at each of its steps. *)
JobsOK ==
  \A h \in Handler :
    /\ pc[h] = "idle" => seen[h] = {}
    /\ pc[h] = "guard" => job[h].takes
    /\ pc[h] = "add" => job[h].op = "invite"
    /\ pc[h] # "idle" /\ job[h].op = "invite" => ~job[h].takes /\ seen[h] = {}
    /\ pc[h] # "idle" /\ job[h].op \in {"disable", "delete"} => job[h].takes

(* A request that passed its guard, or needed none, leaves another admin   *)
(* behind; one that takes nothing away does not touch the admin group.     *)
GuardOK ==
  ~overlapped =>
    /\ EnabledAdmins # {}
    /\ \A h, k \in Taking : h = k
    /\ \A h \in Taking : pc[h] = "write" => EnabledAdmins \ {job[h].target} # {}

GentleOK ==
  \A h \in Handler :
    pc[h] # "idle" /\ job[h].op = "set_role" /\ ~job[h].takes =>
      Admin \notin ToRemove(h)

(* The one request that gives an account a role knows all it has. *)
RolesOK ==
  ~crossed => \A u \in User :
    /\ \A r, q \in groups[u] : r = q
    /\ \A h, k \in Giving(u) : h = k
    /\ \A h \in Giving(u) : groups[u] \subseteq seen[h]

IInv == TypeOK /\ JobsOK /\ GuardOK /\ GentleOK /\ RolesOK
-----------------------------------------------------------------------------
(* A request that ends leaves the others as they are. *)
LEMMA EndLeaves ==
  ASSUME TypeOK, NEW h \in Handler, End(h)
  PROVE  /\ pc' \in [Handler -> {"idle", "guard", "write", "add"}]
         /\ job' \in [Handler -> Job \cup {NoJob}]
         /\ seen' \in [Handler -> SUBSET Role]
         /\ \A k \in Handler : pc'[k] # "idle" => job'[k] \in Job
         /\ pc'[h] = "idle" /\ job'[h] = NoJob /\ seen'[h] = {}
         /\ \A k \in Handler \ {h} :
              pc'[k] = pc[k] /\ job'[k] = job[k] /\ seen'[k] = seen[k]
         /\ Taking' = Taking \ {h}
         /\ \A u \in User : Giving(u)' = Giving(u) \ {h}
<1>1. /\ pc'[h] = "idle" /\ job'[h] = NoJob /\ seen'[h] = {}
      /\ \A k \in Handler \ {h} :
           pc'[k] = pc[k] /\ job'[k] = job[k] /\ seen'[k] = seen[k]
  BY DEF TypeOK, End, Go
<1>2. /\ pc' \in [Handler -> {"idle", "guard", "write", "add"}]
      /\ job' \in [Handler -> Job \cup {NoJob}]
      /\ seen' \in [Handler -> SUBSET Role]
  BY DEF TypeOK, End, Go
<1>3. Taking' = Taking \ {h} /\ \A u \in User : Giving(u)' = Giving(u) \ {h}
  BY <1>1 DEF Taking, Giving
<1> QED BY <1>1, <1>2, <1>3 DEF TypeOK

(* Ending, with the pool as it was. *)
LEMMA EndKeeps ==
  ASSUME IInv, NEW h \in Handler, End(h), UNCHANGED <<pool, sessions, history>>
  PROVE  IInv'
<1> USE DEF IInv, pool, history
<1>1. TypeOK' /\ JobsOK'
  BY EndLeaves DEF TypeOK, JobsOK
<1>2. GuardOK'
  BY EndLeaves DEF GuardOK, EnabledAdmins, Taking
<1>3. GentleOK'
  BY EndLeaves DEF GentleOK, ToRemove
<1>4. RolesOK'
  BY EndLeaves DEF RolesOK, Giving
<1> QED BY <1>1, <1>2, <1>3, <1>4

LEMMA BeginKeeps ==
  ASSUME IInv, NEW h \in Handler, NEW op \in {"set_role", "disable", "delete"},
         NEW a \in User, NEW t \in User, NEW r \in Role, NEW p \in {"guard", "write"},
         Begin(h, op, a, t, r, p),
         p = "write" => Admin \notin groups[t] \/ (op = "set_role" /\ r = Admin)
  PROVE  IInv'
<1> DEFINE j == [op |-> op, target |-> t, role |-> r, takes |-> Takes(op, p)]
<1> USE DEF IInv, pool, history
<1>1. j \in Job /\ j.takes = Takes(op, p) /\ j.op = op /\ j.target = t /\ j.role = r
  BY DEF Job, Takes
<1>2. /\ pc[h] = "idle" /\ pc'[h] = p /\ job'[h] = j /\ seen'[h] = groups[t]
      /\ \A k \in Handler \ {h} :
           pc'[k] = pc[k] /\ job'[k] = job[k] /\ seen'[k] = seen[k]
  BY DEF Begin, Go, TypeOK
<1>3. /\ pc' \in [Handler -> {"idle", "guard", "write", "add"}]
      /\ job' \in [Handler -> Job \cup {NoJob}]
      /\ seen' \in [Handler -> SUBSET Role]
  BY <1>1 DEF Begin, Go, TypeOK
<1>4. TypeOK'
  BY <1>1, <1>2, <1>3 DEF TypeOK, Begin
<1>5. JobsOK'
  <2>1. p = "guard" => j.takes
    BY <1>1 DEF Takes
  <2>2. op \in {"disable", "delete"} => j.takes
    BY <1>1 DEF Takes
  <2> HIDE DEF j
  <2> QED BY <1>1, <1>2, <2>1, <2>2 DEF JobsOK
<1>6. Taking' = IF Takes(op, p) THEN Taking \cup {h} ELSE Taking
  BY <1>1, <1>2 DEF Taking
<1>7. GuardOK'
  <2>1. EnabledAdmins' = EnabledAdmins
    BY DEF EnabledAdmins, Begin
  <2>2. CASE Takes(op, p)
    <3> SUFFICES ASSUME ~overlapped'
                 PROVE  /\ EnabledAdmins # {}
                        /\ \A k, l \in Taking' : k = l
                        /\ \A k \in Taking' : pc'[k] = "write" =>
                              EnabledAdmins \ {job'[k].target} # {}
      BY <2>1 DEF GuardOK
    <3>1. ~overlapped /\ Taking = {} /\ Taking' = {h}
      BY <2>2, <1>6 DEF Begin
    <3>2. p = "write" => op # "set_role"
      BY <2>2 DEF Takes
    <3>3. p = "write" => t \notin EnabledAdmins
      BY <3>2 DEF EnabledAdmins
    <3> QED BY <1>1, <1>2, <3>1, <3>3 DEF GuardOK
  <2>3. CASE ~Takes(op, p)
    <3>1. Taking' = Taking /\ \A k \in Taking : pc'[k] = pc[k] /\ job'[k] = job[k]
      BY <1>2, <1>6, <2>3 DEF Taking
    <3>2. ~overlapped' => ~overlapped
      BY DEF Begin
    <3> QED BY <2>1, <3>1, <3>2 DEF GuardOK
  <2> QED BY <2>2, <2>3
<1>8. GentleOK'
  BY <1>1, <1>2 DEF GentleOK, ToRemove, Takes
<1>9. RolesOK'
  <2> SUFFICES ASSUME ~crossed', NEW u \in User
               PROVE  /\ \A x, y \in groups[u] : x = y
                      /\ \A k, l \in Giving(u)' : k = l
                      /\ \A k \in Giving(u)' : groups[u] \subseteq seen'[k]
    BY DEF RolesOK, Begin
  <2>1. ~crossed /\ (op = "set_role" => Giving(t) = {})
    BY DEF Begin
  <2>2. Giving(u)' = IF op = "set_role" /\ u = t THEN Giving(u) \cup {h} ELSE Giving(u)
    BY <1>1, <1>2 DEF Giving
  <2> QED BY <1>2, <2>1, <2>2 DEF RolesOK, Giving
<1> QED BY <1>4, <1>5, <1>7, <1>8, <1>9

LEMMA BeginsKeep ==
  ASSUME IInv, NEW h \in Handler, NEW a \in User, NEW t \in User,
         \/ \E r \in Role : BeginSetRole(h, a, t, r)
         \/ \E op \in {"disable", "delete"} : BeginRemoval(h, op, a, t)
  PROVE  IInv'
<1>1. ASSUME NEW r \in Role, BeginSetRole(h, a, t, r) PROVE IInv'
  BY <1>1, BeginKeeps DEF BeginSetRole
<1>2. ASSUME NEW op \in {"disable", "delete"}, BeginRemoval(h, op, a, t) PROVE IInv'
  BY <1>2, BeginKeeps, ConstantsAssumption DEF BeginRemoval
<1> QED BY <1>1, <1>2

LEMMA GuardKeeps ==
  ASSUME IInv, NEW h \in Handler, Guard(h)
  PROVE  IInv'
<1>1. CASE End(h)
  BY <1>1, EndKeeps DEF Guard
<1>2. CASE ~End(h)
  <2> USE <1>2 DEF IInv, Guard, pool, history
  <2>1. /\ pc' = [pc EXCEPT ![h] = "write"] /\ UNCHANGED <<job, seen>>
        /\ EnabledAdmins \ {job[h].target} # {}
    BY DEF Go, _other_enabled_admin_exists
  <2>2. pc[h] = "guard" /\ pc'[h] = "write"
        /\ \A k \in Handler \ {h} : pc'[k] = pc[k]
    BY <2>1 DEF TypeOK
  <2>3. TypeOK' /\ JobsOK'
    BY <2>1, <2>2 DEF TypeOK, JobsOK
  <2>4. Taking' = Taking /\ \A u \in User : Giving(u)' = Giving(u)
    BY <2>1, <2>2 DEF Taking, Giving
  <2>5. GuardOK'
    BY <2>1, <2>2, <2>4 DEF GuardOK, EnabledAdmins, Taking
  <2>6. GentleOK'
    BY <2>1, <2>2 DEF GentleOK, ToRemove
  <2>7. RolesOK'
    BY <2>1, <2>4 DEF RolesOK
  <2> QED BY <2>3, <2>5, <2>6, <2>7
<1> QED BY <1>1, <1>2

LEMMA RemovalKeeps ==
  ASSUME IInv, NEW h \in Handler, Disable(h) \/ Delete(h)
  PROVE  IInv'
<1> DEFINE t == job[h].target
<1> USE DEF IInv, history
<1>1. /\ End(h) /\ h \in Taking /\ pc[h] = "write" /\ t \in User
      /\ UNCHANGED <<sessions, history>>
      /\ exists' \subseteq exists /\ enabled' = enabled \ {t}
      /\ enabled' \subseteq exists' /\ exists \ {t} \subseteq exists'
      /\ groups' \in {groups, [groups EXCEPT ![t] = {}]}
      /\ \A u \in User \ exists' : groups'[u] = {}
  BY DEF Disable, Delete, TypeOK, JobsOK, Taking, Job
<1>2. /\ groups' \in [User -> SUBSET Role]
      /\ \A u \in User : groups'[u] \subseteq groups[u] /\ (u # t => groups'[u] = groups[u])
  BY <1>1 DEF TypeOK
<1>3. TypeOK'
  BY <1>1, <1>2, EndLeaves DEF TypeOK
<1>4. JobsOK'
  BY <1>1, EndLeaves DEF JobsOK, TypeOK
<1>5. GuardOK'
  <2> SUFFICES ASSUME ~overlapped
               PROVE  EnabledAdmins' # {} /\ Taking' = {}
    BY <1>1 DEF GuardOK
  <2>1. EnabledAdmins' = EnabledAdmins \ {t}
    BY <1>1, <1>2 DEF EnabledAdmins, TypeOK
  <2> QED BY <1>1, <2>1, EndLeaves DEF GuardOK
<1>6. GentleOK'
  BY <1>1, EndLeaves DEF GentleOK, ToRemove
<1>7. RolesOK'
  BY <1>1, <1>2, EndLeaves DEF RolesOK, Giving
<1> QED BY <1>3, <1>4, <1>5, <1>6, <1>7

LEMMA RemoveGroupKeeps ==
  ASSUME IInv, NEW h \in Handler, NEW g \in Role, RemoveGroup(h, g)
  PROVE  IInv'
<1> DEFINE t == job[h].target
<1> USE DEF IInv, RemoveGroup, history
<1>1. /\ t \in User /\ job[h].op = "set_role" /\ g # job[h].role /\ g \in seen[h]
      /\ pc[h] = "write"
  BY DEF TypeOK, Job, ToRemove
<1>2. /\ groups'[t] = groups[t] \ {g} /\ seen'[h] = seen[h] \ {g}
      /\ \A u \in User \ {t} : groups'[u] = groups[u]
      /\ \A k \in Handler \ {h} : seen'[k] = seen[k]
      /\ groups' \in [User -> SUBSET Role] /\ seen' \in [Handler -> SUBSET Role]
  BY <1>1 DEF TypeOK
<1>3. TypeOK'
  BY <1>1, <1>2 DEF TypeOK
<1>4. JobsOK'
  BY <1>1, <1>2 DEF JobsOK
<1>5. Taking' = Taking /\ \A u \in User : Giving(u)' = Giving(u)
  BY DEF Taking, Giving
<1>6. GuardOK'
  <2>1. CASE h \in Taking
    <3>1. EnabledAdmins \ {t} \subseteq EnabledAdmins'
      BY <1>2 DEF EnabledAdmins, TypeOK
    <3> QED BY <1>1, <1>5, <2>1, <3>1 DEF GuardOK, Taking
  <2>2. CASE h \notin Taking
    <3>1. g # Admin
      BY <1>1, <2>2 DEF GentleOK, Taking, ToRemove
    <3>2. EnabledAdmins' = EnabledAdmins
      BY <1>2, <3>1 DEF EnabledAdmins, TypeOK
    <3> QED BY <1>5, <3>2 DEF GuardOK
  <2> QED BY <2>1, <2>2
<1>7. GentleOK'
  BY <1>2 DEF GentleOK, ToRemove
<1>8. RolesOK'
  <2>1. h \in Giving(t)
    BY <1>1 DEF Giving
  <2> SUFFICES ASSUME ~crossed, NEW u \in User
               PROVE  /\ \A r, q \in groups'[u] : r = q
                      /\ \A k, l \in Giving(u) : k = l
                      /\ \A k \in Giving(u) : groups'[u] \subseteq seen'[k]
    BY <1>5 DEF RolesOK
  <2>2. CASE u = t
    BY <1>2, <2>1, <2>2 DEF RolesOK
  <2>3. CASE u # t
    <3>1. h \notin Giving(u)
      BY <2>3 DEF Giving
    <3> QED BY <1>2, <2>3, <3>1 DEF RolesOK, Giving
  <2> QED BY <2>2, <2>3
<1> QED BY <1>3, <1>4, <1>6, <1>7, <1>8

LEMMA AddGroupKeeps ==
  ASSUME IInv, NEW h \in Handler, AddGroup(h)
  PROVE  IInv'
<1> DEFINE t == job[h].target
           r == job[h].role
<1> USE DEF IInv, AddGroup, history
<1>1. /\ t \in User /\ r \in Role /\ t \in exists /\ h \in Giving(t)
      /\ End(h) /\ UNCHANGED <<exists, enabled, overlapped, crossed>>
      /\ seen[h] \subseteq {r}
  BY DEF TypeOK, Job, JobsOK, Giving, Found, ToRemove
<1>2. /\ groups' \in [User -> SUBSET Role]
      /\ \A u \in User \ {t} : groups'[u] = groups[u]
      /\ groups'[t] = IF r \in seen[h] THEN groups[t] ELSE groups[t] \cup {r}
  BY <1>1 DEF TypeOK
<1>3. sessions' \subseteq User
  BY <1>1 DEF TypeOK
<1>4. TypeOK'
  BY <1>1, <1>2, <1>3, EndLeaves DEF TypeOK
<1>5. JobsOK'
  BY <1>1, EndLeaves DEF JobsOK, TypeOK
<1>6. EnabledAdmins \subseteq EnabledAdmins'
  BY <1>1, <1>2 DEF EnabledAdmins, TypeOK
<1>7. GuardOK'
  BY <1>1, <1>6, EndLeaves DEF GuardOK, Taking
<1>8. GentleOK'
  BY <1>1, EndLeaves DEF GentleOK, ToRemove
<1>9. RolesOK'
  <2> SUFFICES ASSUME ~crossed, NEW u \in User
               PROVE  /\ \A x, y \in groups'[u] : x = y
                      /\ \A k, l \in Giving(u)' : k = l
                      /\ \A k \in Giving(u)' : groups'[u] \subseteq seen'[k]
    BY <1>1 DEF RolesOK
  <2>1. CASE u = t
    <3>1. groups[t] \subseteq seen[h] /\ \A k \in Giving(t) : k = h
      BY <1>1 DEF RolesOK
    <3>2. Giving(u)' = Giving(u) \ {h}
      BY <1>1, EndLeaves
    <3>3. Giving(u)' = {} /\ groups'[u] \subseteq {r}
      BY <1>1, <1>2, <2>1, <3>1, <3>2
    <3> QED BY <3>3
  <2>2. CASE u # t
    BY <1>1, <1>2, <2>2, EndLeaves DEF RolesOK, Giving
  <2> QED BY <2>1, <2>2
<1> QED BY <1>4, <1>5, <1>7, <1>8, <1>9

LEMMA InviteKeeps ==
  ASSUME IInv, NEW h \in Handler, NEW a \in User, NEW t \in User, NEW r \in Role,
         Invite(h, a, t, r)
  PROVE  IInv'
<1> DEFINE j == [op |-> "invite", target |-> t, role |-> r, takes |-> FALSE]
<1> USE DEF IInv, Invite, history
<1>1. j \in Job /\ j.op = "invite" /\ j.target = t /\ j.role = r /\ ~j.takes
  BY DEF Job
<1>2. /\ pc[h] = "idle" /\ pc'[h] = "add" /\ job'[h] = j
      /\ \A k \in Handler \ {h} : pc'[k] = pc[k] /\ job'[k] = job[k]
  BY DEF Go, TypeOK
<1>3. TypeOK'
  BY <1>1, <1>2 DEF Go, TypeOK
<1>4. JobsOK'
  <2> HIDE DEF j
  <2> QED BY <1>1, <1>2 DEF JobsOK
<1>5. Taking' = Taking
  <2> HIDE DEF j
  <2> QED BY <1>1, <1>2 DEF Taking
<1>6. GuardOK'
  BY <1>2, <1>5 DEF GuardOK, EnabledAdmins, TypeOK, Taking
<1>7. GentleOK'
  <2> HIDE DEF j
  <2> QED BY <1>1, <1>2 DEF GentleOK, ToRemove
<1>8. RolesOK'
  <2> SUFFICES ASSUME ~crossed', NEW u \in User
               PROVE  /\ \A x, y \in groups[u] : x = y
                      /\ \A k, l \in Giving(u)' : k = l
                      /\ \A k \in Giving(u)' : groups[u] \subseteq seen[k]
    BY DEF RolesOK
  <2>1. ~crossed /\ Giving(t) = {} /\ groups[t] = {}
    BY DEF TypeOK
  <2>2. Giving(u)' = IF u = t THEN {h} ELSE Giving(u)
    <3> HIDE DEF j
    <3> QED BY <1>1, <1>2, <2>1 DEF Giving
  <2> QED BY <2>1, <2>2 DEF RolesOK
<1> QED BY <1>3, <1>4, <1>6, <1>7, <1>8

LEMMA EnableKeeps ==
  ASSUME IInv, NEW a \in User, NEW t \in User, Enable(a, t)
  PROVE  IInv'
<1> USE DEF IInv, Enable, requests, history
<1>1. TypeOK' /\ JobsOK'
  BY DEF TypeOK, JobsOK, Found
<1>2. EnabledAdmins \subseteq EnabledAdmins'
  BY DEF EnabledAdmins
<1>3. GuardOK'
  BY <1>2 DEF GuardOK, Taking
<1>4. GentleOK' /\ RolesOK'
  BY DEF GentleOK, RolesOK, ToRemove, Giving
<1> QED BY <1>1, <1>3, <1>4
-----------------------------------------------------------------------------
LEMMA InitInvariant == Init => IInv
<1> SUFFICES ASSUME Init PROVE IInv
  OBVIOUS
<1> USE ConstantsAssumption DEF Init
<1>1. TypeOK /\ JobsOK
  BY DEF TypeOK, JobsOK
<1>2. GuardOK
  BY DEF GuardOK, EnabledAdmins, Taking
<1>3. GentleOK /\ RolesOK
  BY DEF GentleOK, RolesOK, Giving
<1> QED BY <1>1, <1>2, <1>3 DEF IInv

LEMMA NextKeeps == IInv /\ [Next]_vars => IInv'
<1> SUFFICES ASSUME IInv, [Next]_vars PROVE IInv'
  OBVIOUS
<1>1. CASE UNCHANGED vars
  BY <1>1 DEF vars, pool, requests, history, IInv, TypeOK, JobsOK, GuardOK, GentleOK,
     RolesOK, EnabledAdmins, Taking, Giving, ToRemove
<1>2. CASE Next
  <2>1. ASSUME NEW h \in Handler, Die(h) PROVE IInv'
    BY <2>1, EndKeeps DEF Die
  <2> QED BY <1>2, <2>1, BeginsKeep, InviteKeeps, EnableKeeps, GuardKeeps, RemovalKeeps,
             AddGroupKeeps, RemoveGroupKeeps DEF Next
<1> QED BY <1>1, <1>2

(* IInv is an inductive invariant of access review. *)
THEOREM Invariant == Spec => []IInv
  BY InitInvariant, NextKeeps, PTL DEF Spec

(* Every variable keeps its type. *)
THEOREM TypeCorrect == Spec => []TypeOK
<1>1. IInv => TypeOK
  BY DEF IInv
<1> QED BY <1>1, Invariant, PTL

(* An enabled admin remains as long as the requests that take an admin's   *)
(* access away do not overlap.                                             *)
THEOREM AdminRemainsSerially == Spec => []AdminRemainsIfSerial
<1>1. IInv => AdminRemainsIfSerial
  BY DEF IInv, GuardOK, AdminRemainsIfSerial
<1> QED BY <1>1, Invariant, PTL

(* An account has at most one role as long as no two requests give it one  *)
(* together.                                                               *)
THEOREM OneRole == Spec => []OneRoleUnlessCrossed
<1>1. IInv => OneRoleUnlessCrossed
  <2> SUFFICES ASSUME IInv, ~crossed, NEW u \in User
               PROVE  Cardinality(groups[u]) <= 1
    BY DEF OneRoleUnlessCrossed
  <2>1. groups[u] = {} \/ \E r : groups[u] = {r}
    BY DEF IInv, RolesOK
  <2> QED BY <2>1, FS_EmptySet, FS_Singleton
<1> QED BY <1>1, Invariant, PTL

-----------------------------------------------------------------------------
(* The document library of the admins (KnowledgeUpload). *)

(* Where an admin can be; a sync that is at the second source may have     *)
(* started the first.                                                      *)
AdminAt(p, n) ==
  \/ p = <<"idle">>
  \/ \E d \in Library!Source, name \in DocName : p = <<"delete", d, name>>
  \/ \E d \in Library!Source, s \in 0..1, held \in SUBSET (1..n) :
       p = <<"sync", d, s, held>> /\ (d = 1 => s = 0)

(* Uploads are numbered as they come, in the bucket and whatever is seen   *)
(* there.                                                                  *)
LibraryTypes ==
  /\ k_uploads \in 0..MaxUploads /\ k_syncs \in 0..MaxSyncs
  /\ k_bucket \in [Library!Source -> [DocName -> (1..k_uploads) \cup {NoDoc}]]
  /\ k_index \in [Library!Source -> SUBSET (1..k_uploads)]
  /\ k_job \in [Library!Source -> [status : Library!Found, covers : SUBSET (1..k_uploads)]]
  /\ k_pc = [a \in Librarian |-> k_pc[a]]
  /\ \A a \in Librarian : AdminAt(k_pc[a], k_uploads)
  /\ k_due \subseteq 1..k_uploads
  /\ k_reading \in [first : Library!Found \cup {"none"}, second : Library!Found \cup {"none"},
                     due : SUBSET (1..k_uploads)]

(* The newest job of source d has read upload u, or is going to. *)
Covered(u, d) ==
  /\ k_job[d].status # "NEVER_RUN"
  /\ k_job[d].status = "IN_PROGRESS" => u \in k_job[d].covers
  /\ k_job[d].status = "COMPLETE" => u \in k_index[d]

(* What a sync that started every source saw is covered in all of them,    *)
(* and what a sync saw that has started the first, in this one.            *)
AllCovered ==
  \A d \in Library!Source : \A u \in k_due \cap Library!In(d) : Covered(u, d)
FirstCovered ==
  \A a \in Librarian : \A held :
    k_pc[a] = <<"sync", 2, 1, held>> =>
      \A u \in held \cap Library!In(1) : Covered(u, 1)

(* Upload u is served from source d, and no job is about to replace it. *)
ServedFrom(u, d) ==
  /\ u \in k_index[d]
  /\ k_job[d].status = "IN_PROGRESS" => u \in k_job[d].covers

(* What a source with this status, when it was asked, had of what was due. *)
ReadAs(status, d) ==
  /\ status = "COMPLETE" =>
       \A u \in k_reading.due \cap Library!In(d) : ServedFrom(u, d)
  /\ status = "NEVER_RUN" => k_reading.due \cap Library!In(d) = {}

ReadingOK ==
  /\ k_reading.due \subseteq k_due
  /\ ReadAs(k_reading.first, 1) /\ ReadAs(k_reading.second, 2)
  /\ k_reading.second # "none" =>
       /\ k_reading.first # "none"
       /\ Library!Overall(k_reading.first, k_reading.second) = "COMPLETE"

LibraryOK == LibraryTypes /\ AllCovered /\ FirstCovered /\ ReadingOK

(* If no job is being stopped, the status is COMPLETE if that of every     *)
(* source is that has had a job.                                           *)
LEMMA CompleteIsAll ==
  ASSUME NEW one \in Library!Found \ {"STOPPING"}, NEW two \in Library!Found \ {"STOPPING"},
         Library!Overall(one, two) = "COMPLETE"
  PROVE  {one, two} \subseteq {"COMPLETE", "NEVER_RUN"}
<1> DEFINE found == {one, two} \ {"NEVER_RUN"}
           first == {i \in DOMAIN Library!Precedence : Library!Precedence[i] \in found}
<1>0. /\ DOMAIN Library!Precedence = 1..5
      /\ Library!Precedence[1] = "IN_PROGRESS" /\ Library!Precedence[2] = "STARTING"
      /\ Library!Precedence[3] = "FAILED" /\ Library!Precedence[4] = "STOPPED"
      /\ Library!Precedence[5] = "COMPLETE"
  BY DEF Library!Precedence
<1>1. \A s \in found : s \in {"IN_PROGRESS", "STARTING", "FAILED", "STOPPED", "COMPLETE"}
  BY DEF Library!Found, Library!Statuses, Library!Running
<1>2. \A s \in found : \E i \in first : Library!Precedence[i] = s
  BY <1>0, <1>1
<1>3. first \subseteq 1..5 /\ \A i \in first : Library!Precedence[i] \in found
  BY <1>0
<1>4. Library!Overall(one, two) =
        IF found = {} THEN "NEVER_RUN"
        ELSE IF first # {} THEN Library!Precedence[Library!Min(first)]
        ELSE IF one = "NEVER_RUN" THEN two ELSE one
  BY Zenon DEF Library!Overall
<1> HIDE DEF first
<1>5. first # {} /\ Library!Precedence[Library!Min(first)] = "COMPLETE"
  BY <1>2, <1>4
<1>6. \E i \in first : \A j \in first : i <= j
  <2>1. CASE 1 \in first
    BY <1>3, <2>1
  <2>2. CASE 1 \notin first /\ 2 \in first
    BY <1>3, <2>2
  <2>3. CASE 1 \notin first /\ 2 \notin first /\ 3 \in first
    BY <1>3, <2>3
  <2>4. CASE 1 \notin first /\ 2 \notin first /\ 3 \notin first /\ 4 \in first
    BY <1>3, <2>4
  <2>5. CASE first \subseteq {5}
    <3>1. 5 \in first
      BY <1>5, <2>5
    <3> QED BY <2>5, <3>1
  <2> QED BY <1>3, <2>1, <2>2, <2>3, <2>4, <2>5
<1>7. Library!Min(first) \in first /\ \A j \in first : Library!Min(first) <= j
  BY <1>6 DEF Library!Min
<1>8. Library!Min(first) = 5
  <2> DEFINE m == Library!Min(first)
  <2>1. m \in 1..5 /\ Library!Precedence[m] = "COMPLETE"
    BY <1>3, <1>5, <1>7
  <2> HIDE DEF m
  <2>2. m = 5
    BY <1>0, <2>1
  <2> QED BY <2>2 DEF m
<1>9. \A s \in found : s = "COMPLETE"
  BY <1>0, <1>2, <1>3, <1>7, <1>8
<1> QED BY <1>9

(* A sync is at the source it says. *)
LEMMA SyncIsAt ==
  ASSUME NEW a \in Librarian, NEW d, Library!SyncAt(a, d), NEW n, AdminAt(k_pc[a], n)
  PROVE  \E s \in 0..1, held \in SUBSET (1..n) :
           k_pc[a] = <<"sync", d, s, held>> /\ (d = 1 => s = 0)
<1>1. k_pc[a] # <<"idle">>
  BY DEF Library!SyncAt
<1>2. \A e, name : k_pc[a] # <<"delete", e, name>>
  BY DEF Library!SyncAt
<1>3. PICK e \in Library!Source, s \in 0..1, held \in SUBSET (1..n) :
        k_pc[a] = <<"sync", e, s, held>> /\ (e = 1 => s = 0)
  BY <1>1, <1>2 DEF AdminAt
<1>4. e = d
  BY <1>3 DEF Library!SyncAt
<1> QED BY <1>3, <1>4

LEMMA SeenBefore ==
  ASSUME LibraryTypes, NEW a \in Librarian, NEW held, k_pc[a] = <<"sync", 2, 1, held>>
  PROVE  held \subseteq 1..k_uploads
<1>1. AdminAt(k_pc[a], k_uploads)
  BY DEF LibraryTypes
<1>2. Library!SyncAt(a, 2)
  BY DEF Library!SyncAt
<1>3. PICK s \in 0..1, other \in SUBSET (1..k_uploads) : k_pc[a] = <<"sync", 2, s, other>>
  BY <1>1, <1>2, SyncIsAt
<1>4. held = other
  BY <1>3
<1> QED BY <1>4

LEMMA LibraryTypesNext ==
  ASSUME LibraryConstants, LibraryTypes, Library!Next
  PROVE  LibraryTypes'
<1> USE DEF LibraryConstants
<1>0. /\ k_uploads \in Nat /\ k_uploads' \in Nat /\ k_uploads <= k_uploads'
      /\ k_uploads' \in 0..MaxUploads /\ k_syncs' \in 0..MaxSyncs
  <2>1. /\ k_uploads \in Nat /\ k_uploads <= MaxUploads /\ k_syncs \in Nat
        /\ k_syncs <= MaxSyncs
    BY DEF LibraryTypes
  <2>2. /\ k_uploads' = k_uploads \/ (k_uploads < MaxUploads /\ k_uploads' = k_uploads + 1)
        /\ k_syncs' = k_syncs \/ (k_syncs < MaxSyncs /\ k_syncs' = k_syncs + 1)
    BY DEF Library!Next, Library!UploadDocument, Library!FindDocument,
           Library!DeleteDocument, Library!StartSync, Library!StartJob, Library!SourceBusy,
           Library!StartFails, Library!JobReads, Library!JobDone, Library!JobStopping,
           Library!JobStopped, Library!JobFails, Library!Turn, Library!AskFirst,
           Library!IngestionStatus
  <2> QED BY <2>1, <2>2
<1>1. 1..k_uploads \subseteq 1..k_uploads'
  BY <1>0
<1>2. k_bucket' \in [Library!Source -> [DocName -> (1..k_uploads') \cup {NoDoc}]]
  <2>1. ASSUME UNCHANGED k_bucket
        PROVE  k_bucket' \in [Library!Source -> [DocName -> (1..k_uploads') \cup {NoDoc}]]
    BY <1>1, <2>1 DEF LibraryTypes
  <2>2. ASSUME NEW d \in Library!Source, NEW n \in DocName, NEW value \in (1..k_uploads') \cup {NoDoc},
               k_bucket' = [k_bucket EXCEPT ![d][n] = value]
        PROVE  k_bucket' \in [Library!Source -> [DocName -> (1..k_uploads') \cup {NoDoc}]]
    BY <1>1, <2>2 DEF LibraryTypes
  <2>3. ASSUME NEW d \in Library!Source, NEW n \in DocName, NEW lookFails \in BOOLEAN,
               Library!UploadDocument(d, n, lookFails)
        PROVE  k_bucket' \in [Library!Source -> [DocName -> (1..k_uploads') \cup {NoDoc}]]
    <3>1. k_uploads' \in 1..k_uploads'
      BY <1>0, <2>3 DEF Library!UploadDocument
    <3> QED BY <2>2, <2>3, <3>1 DEF Library!UploadDocument
  <2> QED BY <2>1, <2>2, <2>3
          DEF Library!Next, Library!FindDocument, Library!DeleteDocument, Library!StartSync,
              Library!StartJob, Library!SourceBusy, Library!StartFails, Library!JobReads,
              Library!JobDone, Library!JobStopping, Library!JobStopped, Library!JobFails,
              Library!Turn, Library!AskFirst, Library!IngestionStatus
<1> DEFINE Jobs == [status : Library!Found, covers : SUBSET (1..k_uploads)]
<1> DEFINE IndexAndJobs == /\ k_index' \in [Library!Source -> SUBSET (1..k_uploads)]
                           /\ k_job' \in [Library!Source -> Jobs]
<1>3. IndexAndJobs
  <2>1. ASSUME UNCHANGED <<k_index, k_job>>
        PROVE  IndexAndJobs
    BY <2>1 DEF LibraryTypes
  <2>2. ASSUME NEW d \in Library!Source, NEW status \in Library!Found,
               NEW covers \in SUBSET (1..k_uploads), UNCHANGED k_index,
               k_job' = [k_job EXCEPT ![d] = Library!Job(status, covers)]
        PROVE  IndexAndJobs
    BY <2>2 DEF LibraryTypes, Library!Job
  <2>3. ASSUME NEW d \in Library!Source, Library!JobDone(d)
        PROVE  IndexAndJobs
    <3>1. k_job[d].covers \subseteq 1..k_uploads
      BY DEF LibraryTypes
    <3>2. k_index' \in [Library!Source -> SUBSET (1..k_uploads)]
      BY <2>3, <3>1 DEF Library!JobDone, LibraryTypes
    <3>3. k_job' \in [Library!Source -> Jobs]
      BY <2>3 DEF Library!JobDone, Library!Turn, Library!Job, Library!Found, Library!Statuses,
                    LibraryTypes
    <3> QED BY <3>2, <3>3
  <2>4. ASSUME NEW d \in Library!Source PROVE Library!In(d) \subseteq 1..k_uploads
    BY DEF Library!In, LibraryTypes
  <2>5. ASSUME NEW d \in Library!Source, NEW a \in Librarian,
               Library!StartJob(a, d)
        PROVE  IndexAndJobs
    <3>1. /\ k_index' = k_index /\ k_job' = [k_job EXCEPT ![d] = Library!Job("STARTING", {})]
          /\ "STARTING" \in Library!Found /\ {} \in SUBSET (1..k_uploads)
      BY <2>5 DEF Library!StartJob, Library!Found, Library!Statuses, Library!Running
    <3> QED BY <2>2, <3>1
  <2>6. ASSUME NEW d \in Library!Source, Library!JobReads(d)
        PROVE  IndexAndJobs
    BY <2>2, <2>4, <2>6
       DEF Library!JobReads, Library!Turn, Library!Found, Library!Statuses, Library!Running
  <2>7. ASSUME NEW d \in Library!Source,
               Library!JobStopping(d) \/ Library!JobStopped(d) \/ Library!JobFails(d)
        PROVE  IndexAndJobs
    <3>1. PICK status \in {"STOPPING", "STOPPED", "FAILED"} :
            k_job' = [k_job EXCEPT ![d] = Library!Job(status, {})] /\ UNCHANGED k_index
      BY <2>7 DEF Library!JobStopping, Library!JobStopped, Library!JobFails, Library!Turn
    <3>2. status \in Library!Found /\ {} \in SUBSET (1..k_uploads)
      BY DEF Library!Found, Library!Statuses
    <3> QED BY <2>2, <3>1, <3>2
  <2> QED BY <2>1, <2>3, <2>5, <2>6, <2>7
          DEF Library!Next, Library!UploadDocument, Library!FindDocument,
              Library!DeleteDocument, Library!StartSync, Library!SourceBusy, Library!StartFails,
              Library!AskFirst, Library!IngestionStatus
<1>4. /\ k_index' \in [Library!Source -> SUBSET (1..k_uploads')]
      /\ k_job' \in [Library!Source -> [status : Library!Found, covers : SUBSET (1..k_uploads')]]
  <2>1. SUBSET (1..k_uploads) \subseteq SUBSET (1..k_uploads')
    BY <1>1
  <2> QED BY <1>3, <2>1
<1>5. \A p : AdminAt(p, k_uploads) => AdminAt(p, k_uploads')
  <2>1. \A held \in SUBSET (1..k_uploads) : held \in SUBSET (1..k_uploads')
    BY <1>1
  <2> QED BY <2>1 DEF AdminAt
<1> DEFINE AdminsAt == /\ k_pc' = [b \in Librarian |-> k_pc'[b]]
                       /\ \A b \in Librarian : AdminAt(k_pc'[b], k_uploads)
<1>6. AdminsAt
  <2>1. ASSUME UNCHANGED k_pc
        PROVE  AdminsAt
    BY <2>1 DEF LibraryTypes
  <2>2. ASSUME NEW a \in Librarian, NEW p, AdminAt(p, k_uploads), k_pc' = [k_pc EXCEPT ![a] = p]
        PROVE  AdminsAt
    BY <2>2 DEF LibraryTypes
  <2>3. AdminAt(<<"idle">>, k_uploads)
    BY DEF AdminAt
  <2>4. ASSUME NEW a \in Librarian, NEW d \in Library!Source, NEW n \in DocName,
               Library!FindDocument(a, d, n)
        PROVE  AdminsAt
    <3>1. AdminAt(<<"delete", d, n>>, k_uploads)
      BY DEF AdminAt
    <3> QED BY <2>2, <2>4, <3>1 DEF Library!FindDocument
  <2>5. ASSUME NEW a \in Librarian, Library!StartSync(a)
        PROVE  AdminsAt
    <3>1. Library!Stored \subseteq 1..k_uploads
      BY DEF Library!Stored, Library!In, LibraryTypes
    <3>2. AdminAt(<<"sync", 1, 0, Library!Stored>>, k_uploads)
      BY <3>1 DEF AdminAt, Library!Source
    <3> QED BY <2>2, <2>5, <3>2 DEF Library!StartSync
  <2>6. ASSUME NEW a \in Librarian, NEW d \in Library!Source,
               Library!StartJob(a, d) \/ Library!SourceBusy(a, d)
        PROVE  AdminsAt
    <3>1. PICK s \in 0..1, held \in SUBSET (1..k_uploads) :
            k_pc[a] = <<"sync", d, s, held>> /\ (d = 1 => s = 0)
      BY <2>6, SyncIsAt DEF Library!StartJob, Library!SourceBusy, LibraryTypes
    <3>2. PICK t \in {s, s + 1} :
            k_pc' = [k_pc EXCEPT ![a] = IF d = 2 THEN <<"idle">> ELSE <<"sync", 2, t, held>>]
      BY <2>6, <3>1 DEF Library!StartJob, Library!SourceBusy, Library!Proceed
    <3>3. CASE d = 2
      BY <2>2, <2>3, <3>2, <3>3
    <3>4. CASE d # 2
      <4>1. t \in 0..1 /\ 2 \in Library!Source
        BY <3>1, <3>2, <3>4 DEF Library!Source
      <4>2. AdminAt(<<"sync", 2, t, held>>, k_uploads)
        BY <4>1 DEF AdminAt
      <4> QED BY <2>2, <3>2, <3>4, <4>2
    <3> QED BY <3>3, <3>4
  <2>7. ASSUME NEW a \in Librarian, NEW d \in Library!Source, NEW n \in DocName,
               Library!DeleteDocument(a, d, n)
        PROVE  AdminsAt
    BY <2>2, <2>3, <2>7 DEF Library!DeleteDocument
  <2>8. ASSUME NEW a \in Librarian, NEW d \in Library!Source, Library!StartFails(a, d)
        PROVE  AdminsAt
    BY <2>2, <2>3, <2>8 DEF Library!StartFails
  <2> QED BY <2>1, <2>4, <2>5, <2>6, <2>7, <2>8
          DEF Library!Next, Library!UploadDocument, Library!JobReads, Library!JobDone,
              Library!JobStopping, Library!JobStopped, Library!JobFails, Library!Turn,
              Library!AskFirst, Library!IngestionStatus
<1>7. k_due' \subseteq 1..k_uploads
  <2>1. CASE UNCHANGED k_due
    BY <2>1 DEF LibraryTypes
  <2>2. ASSUME NEW a \in Librarian, NEW d \in Library!Source,
               Library!StartJob(a, d) \/ Library!SourceBusy(a, d)
        PROVE  k_due' \subseteq 1..k_uploads
    <3>1. PICK s \in 0..1, held \in SUBSET (1..k_uploads) :
            k_pc[a] = <<"sync", d, s, held>> /\ (d = 1 => s = 0)
      BY <2>2, SyncIsAt DEF Library!StartJob, Library!SourceBusy, LibraryTypes
    <3>2. k_due' = k_due \/ k_due' = k_due \cup held
      BY <2>2, <3>1 DEF Library!StartJob, Library!SourceBusy, Library!Proceed
    <3> QED BY <3>2 DEF LibraryTypes
  <2> QED BY <2>1, <2>2
          DEF Library!Next, Library!UploadDocument, Library!FindDocument,
              Library!DeleteDocument, Library!StartSync, Library!StartFails,
              Library!JobReads, Library!JobDone, Library!JobStopping, Library!JobStopped,
              Library!JobFails, Library!Turn, Library!AskFirst, Library!IngestionStatus
<1>8. k_reading' \in [first : Library!Found \cup {"none"}, second : Library!Found \cup {"none"},
                      due : SUBSET (1..k_uploads)]
  <2>1. \A d \in Library!Source : k_job[d].status \in Library!Found
    BY DEF LibraryTypes
  <2>2. ASSUME Library!AskFirst \/ Library!IngestionStatus
        PROVE  k_reading' \in [first : Library!Found \cup {"none"},
                               second : Library!Found \cup {"none"}, due : SUBSET (1..k_uploads)]
    BY <2>1, <2>2 DEF Library!AskFirst, Library!IngestionStatus, Library!NoRequest, LibraryTypes,
                      Library!Source
  <2>3. CASE UNCHANGED k_reading
    BY <2>3 DEF LibraryTypes
  <2> QED BY <2>2, <2>3
          DEF Library!Next, Library!UploadDocument, Library!FindDocument,
              Library!DeleteDocument, Library!StartSync, Library!StartJob,
              Library!SourceBusy, Library!StartFails, Library!JobReads, Library!JobDone,
              Library!JobStopping, Library!JobStopped, Library!JobFails, Library!Turn
<1>9. k_reading' \in [first : Library!Found \cup {"none"}, second : Library!Found \cup {"none"},
                      due : SUBSET (1..k_uploads')]
  BY <1>1, <1>8
<1> QED BY <1>0, <1>1, <1>2, <1>4, <1>5, <1>6, <1>7, <1>9 DEF LibraryTypes

(* A step that adds nothing to what must be covered, and uncovers nothing. *)
LEMMA CoverKept ==
  ASSUME LibraryTypes, AllCovered, FirstCovered, UNCHANGED k_due,
         \A d \in Library!Source : Library!In(d)' \cap (1..k_uploads) \subseteq Library!In(d),
         \A d \in Library!Source : \A u \in Library!In(d) : Covered(u, d) => Covered(u, d)',
         \A a \in Librarian : \A held :
           k_pc'[a] = <<"sync", 2, 1, held>> => k_pc[a] = <<"sync", 2, 1, held>>
  PROVE  AllCovered' /\ FirstCovered'
<1>1. ASSUME NEW d \in Library!Source, NEW u \in k_due', u \in Library!In(d)'
      PROVE  Covered(u, d)'
  <2>1. u \in k_due /\ u \in 1..k_uploads
    BY DEF LibraryTypes
  <2>2. u \in Library!In(d)
    BY <1>1, <2>1
  <2> QED BY <2>1, <2>2 DEF AllCovered
<1>2. ASSUME NEW a \in Librarian, NEW held, k_pc'[a] = <<"sync", 2, 1, held>>,
             NEW u \in held, u \in Library!In(1)'
      PROVE  Covered(u, 1)'
  <2>1. k_pc[a] = <<"sync", 2, 1, held>> /\ 1 \in Library!Source
    BY <1>2 DEF Library!Source
  <2>2. u \in 1..k_uploads
    BY <2>1, SeenBefore
  <2>3. u \in Library!In(1)
    BY <1>2, <2>1, <2>2
  <2> QED BY <2>1, <2>3 DEF FirstCovered
<1> QED BY <1>1, <1>2 DEF AllCovered, FirstCovered, Library!Source

LEMMA CoverNext ==
  ASSUME LibraryConstants, LibraryTypes, AllCovered, FirstCovered, Library!Next
  PROVE  AllCovered' /\ FirstCovered'
<1>1. ASSUME UNCHANGED k_bucket, NEW d \in Library!Source
      PROVE  Library!In(d)' = Library!In(d)
  BY <1>1 DEF Library!In
<1>2. ASSUME UNCHANGED <<k_job, k_index>>, NEW d, NEW u, Covered(u, d)
      PROVE  Covered(u, d)'
  BY <1>2 DEF Covered
<1>3. ASSUME NEW a \in Librarian, NEW p, k_pc' = [k_pc EXCEPT ![a] = p],
             \A held : p # <<"sync", 2, 1, held>>
      PROVE  \A b \in Librarian : \A held :
               k_pc'[b] = <<"sync", 2, 1, held>> => k_pc[b] = <<"sync", 2, 1, held>>
  BY <1>3 DEF LibraryTypes
<1>4. \A held : <<"idle">> # <<"sync", 2, 1, held>>
  OBVIOUS
<1>5. ASSUME NEW d \in Library!Source, NEW n \in DocName, NEW lookFails \in BOOLEAN,
             Library!UploadDocument(d, n, lookFails)
      PROVE  AllCovered' /\ FirstCovered'
  <2>1. /\ k_bucket' = [k_bucket EXCEPT ![d][n] = k_uploads'] /\ k_uploads' = k_uploads + 1
        /\ UNCHANGED <<k_index, k_job, k_pc, k_due>>
    BY <1>5 DEF Library!UploadDocument
  <2>2. ASSUME NEW e \in Library!Source, NEW u \in Library!In(e)', u \in 1..k_uploads
        PROVE  u \in Library!In(e)
    <3>1. PICK m \in DocName : u = k_bucket'[e][m] /\ u # NoDoc
      BY <2>2 DEF Library!In
    <3>2. u # k_uploads'
      BY <2>1, <2>2 DEF LibraryTypes
    <3>3. u = k_bucket[e][m]
      BY <2>1, <3>1, <3>2 DEF LibraryTypes
    <3> QED BY <3>1, <3>3 DEF Library!In
  <2> QED BY <1>2, <2>1, <2>2, CoverKept
<1>6. ASSUME NEW a \in Librarian, NEW d \in Library!Source, NEW n \in DocName,
             Library!FindDocument(a, d, n)
      PROVE  AllCovered' /\ FirstCovered'
  <2>1. \A held : <<"delete", d, n>> # <<"sync", 2, 1, held>>
    OBVIOUS
  <2>2. k_pc' = [k_pc EXCEPT ![a] = <<"delete", d, n>>]
        /\ UNCHANGED <<k_bucket, k_index, k_job, k_due>>
    BY <1>6 DEF Library!FindDocument
  <2> QED BY <1>1, <1>2, <1>3, <2>1, <2>2, CoverKept
<1>7. ASSUME NEW a \in Librarian, NEW d \in Library!Source, NEW n \in DocName,
             Library!DeleteDocument(a, d, n)
      PROVE  AllCovered' /\ FirstCovered'
  <2>1. /\ k_pc' = [k_pc EXCEPT ![a] = <<"idle">>]
        /\ k_bucket' = [k_bucket EXCEPT ![d][n] = NoDoc]
        /\ UNCHANGED <<k_index, k_job, k_due>>
    BY <1>7 DEF Library!DeleteDocument
  <2>2. ASSUME NEW e \in Library!Source, NEW u \in Library!In(e)'
        PROVE  u \in Library!In(e)
    <3>1. PICK m \in DocName : u = k_bucket'[e][m] /\ u # NoDoc
      BY <2>2 DEF Library!In
    <3>2. u = k_bucket[e][m]
      BY <2>1, <3>1 DEF LibraryTypes
    <3> QED BY <3>1, <3>2 DEF Library!In
  <2> QED BY <1>2, <1>3, <1>4, <2>1, <2>2, CoverKept
<1>8. ASSUME NEW a \in Librarian, Library!StartSync(a)
      PROVE  AllCovered' /\ FirstCovered'
  <2>1. \A held : <<"sync", 1, 0, Library!Stored>> # <<"sync", 2, 1, held>>
    OBVIOUS
  <2>2. k_pc' = [k_pc EXCEPT ![a] = <<"sync", 1, 0, Library!Stored>>]
        /\ UNCHANGED <<k_bucket, k_index, k_job, k_due>>
    BY <1>8 DEF Library!StartSync
  <2> QED BY <1>1, <1>2, <1>3, <2>1, <2>2, CoverKept
<1>9. ASSUME NEW a \in Librarian, NEW d \in Library!Source, Library!StartFails(a, d)
      PROVE  AllCovered' /\ FirstCovered'
  <2>1. k_pc' = [k_pc EXCEPT ![a] = <<"idle">>] /\ UNCHANGED <<k_bucket, k_index, k_job, k_due>>
    BY <1>9 DEF Library!StartFails
  <2> QED BY <1>1, <1>2, <1>3, <1>4, <2>1, CoverKept
<1>10. ASSUME NEW a \in Librarian, NEW d \in Library!Source, Library!SourceBusy(a, d)
       PROVE  AllCovered' /\ FirstCovered'
  <2>1. PICK s \in 0..1, held \in SUBSET (1..k_uploads) :
          k_pc[a] = <<"sync", d, s, held>> /\ (d = 1 => s = 0)
    BY <1>10, SyncIsAt DEF Library!SourceBusy, LibraryTypes
  <2>2. /\ k_pc' = [k_pc EXCEPT ![a] = IF d = 2 THEN <<"idle">> ELSE <<"sync", 2, s, held>>]
        /\ UNCHANGED <<k_bucket, k_index, k_job, k_due>>
    BY <1>10, <2>1 DEF Library!SourceBusy, Library!Proceed
  <2>3. \A other : (IF d = 2 THEN <<"idle">> ELSE <<"sync", 2, s, held>>) # <<"sync", 2, 1, other>>
    BY <2>1 DEF Library!Source
  <2> QED BY <1>1, <1>2, <1>3, <2>2, <2>3, CoverKept
<1>11. ASSUME NEW a \in Librarian, NEW d \in Library!Source, Library!StartJob(a, d)
       PROVE  AllCovered' /\ FirstCovered'
  <2>1. PICK s \in 0..1, held \in SUBSET (1..k_uploads) :
          k_pc[a] = <<"sync", d, s, held>> /\ (d = 1 => s = 0)
    BY <1>11, SyncIsAt DEF Library!StartJob, LibraryTypes
  <2>2. /\ k_pc' = [k_pc EXCEPT ![a] = IF d = 2 THEN <<"idle">> ELSE <<"sync", 2, s + 1, held>>]
        /\ k_due' = IF d = 2 /\ s + 1 = 2 THEN k_due \cup held ELSE k_due
        /\ k_job' = [k_job EXCEPT ![d] = Library!Job("STARTING", {})]
        /\ UNCHANGED <<k_bucket, k_index>>
    BY <1>11, <2>1 DEF Library!StartJob, Library!Proceed
  <2>3. \A u : Covered(u, d)'
    BY <2>2 DEF Covered, LibraryTypes, Library!Job
  <2>4. ASSUME NEW e \in Library!Source, NEW u, Covered(u, e) PROVE Covered(u, e)'
    <3>1. CASE e = d
      BY <2>3, <3>1
    <3>2. CASE e # d
      BY <2>2, <2>4, <3>2 DEF Covered, LibraryTypes
    <3> QED BY <3>1, <3>2
  <2>5. CASE d = 1
    <3>1. FirstCovered'
      BY <2>3, <2>5 DEF FirstCovered
    <3>2. AllCovered'
      BY <1>1, <2>2, <2>4, <2>5 DEF AllCovered, Library!Source
    <3> QED BY <3>1, <3>2
  <2>6. CASE d = 2
    <3>1. \A b \in Librarian : \A other :
            k_pc'[b] = <<"sync", 2, 1, other>> => k_pc[b] = <<"sync", 2, 1, other>>
      BY <1>3, <1>4, <2>2, <2>6
    <3>2. CASE s = 0
      BY <1>1, <2>2, <2>4, <3>1, <3>2, CoverKept
    <3>3. CASE s = 1
      <4>1. FirstCovered'
        BY <1>1, <2>2, <2>4, <3>1 DEF FirstCovered, Library!Source
      <4>2. ASSUME NEW u \in k_due', u \in Library!In(1)'
            PROVE  Covered(u, 1)'
        <5>1. u \in Library!In(1) /\ 1 \in Library!Source
          BY <1>1, <2>2, <4>2 DEF Library!Source
        <5>2. CASE u \in k_due
          BY <2>4, <5>1, <5>2 DEF AllCovered
        <5>3. CASE u \in held
          BY <2>1, <2>4, <2>6, <3>3, <5>1, <5>3 DEF FirstCovered
        <5> QED BY <2>2, <2>6, <3>3, <4>2, <5>2, <5>3
      <4>3. \A u : Covered(u, 2)'
        BY <2>3, <2>6
      <4> QED BY <4>1, <4>2, <4>3 DEF AllCovered, Library!Source
    <3> QED BY <3>2, <3>3
  <2> QED BY <2>5, <2>6 DEF Library!Source
<1>12. ASSUME NEW d \in Library!Source,
              Library!JobReads(d) \/ Library!JobDone(d) \/ Library!JobStopping(d)
                \/ Library!JobStopped(d) \/ Library!JobFails(d)
       PROVE  AllCovered' /\ FirstCovered'
  <2>1. UNCHANGED <<k_bucket, k_pc, k_due>>
    BY <1>12 DEF Library!JobReads, Library!JobDone, Library!JobStopping, Library!JobStopped,
                 Library!JobFails, Library!Turn
  <2>2. ASSUME NEW e \in Library!Source, NEW u \in Library!In(e), Covered(u, e)
        PROVE  Covered(u, e)'
    <3>1. CASE e # d
      <4>1. k_job'[e] = k_job[e] /\ k_index'[e] = k_index[e]
        BY <1>12, <3>1 DEF Library!JobReads, Library!JobDone, Library!JobStopping,
                           Library!JobStopped, Library!JobFails, Library!Turn, LibraryTypes
      <4> QED BY <2>2, <4>1 DEF Covered
    <3>2. CASE e = d
      <4>1. CASE Library!JobReads(d)
        BY <2>2, <3>2, <4>1 DEF Library!JobReads, Library!Turn, Library!Job, Covered, LibraryTypes
      <4>2. CASE Library!JobDone(d)
        BY <2>2, <3>2, <4>2 DEF Library!JobDone, Library!Turn, Library!Job, Covered, LibraryTypes
      <4>3. CASE Library!JobStopping(d) \/ Library!JobStopped(d) \/ Library!JobFails(d)
        BY <2>2, <3>2, <4>3 DEF Library!JobStopping, Library!JobStopped, Library!JobFails,
                                Library!Turn, Library!Job, Covered, LibraryTypes
      <4> QED BY <1>12, <4>1, <4>2, <4>3
    <3> QED BY <3>1, <3>2
  <2> QED BY <1>1, <2>1, <2>2, CoverKept
<1>13. ASSUME Library!AskFirst \/ Library!IngestionStatus
       PROVE  AllCovered' /\ FirstCovered'
  <2>1. UNCHANGED <<k_bucket, k_index, k_job, k_pc, k_due>>
    BY <1>13 DEF Library!AskFirst, Library!IngestionStatus
  <2> QED BY <1>1, <1>2, <2>1, CoverKept
<1> QED BY <1>5, <1>6, <1>7, <1>8, <1>9, <1>10, <1>11, <1>12, <1>13 DEF Library!Next

(* Nothing that was there comes back: uploads have numbers of their own. *)
LEMMA GoneStaysGone ==
  ASSUME LibraryTypes, Library!Next, NEW d \in Library!Source, NEW u \in 1..k_uploads,
         u \in Library!In(d)'
  PROVE  u \in Library!In(d)
<1>1. PICK m \in DocName : u = k_bucket'[d][m] /\ u # NoDoc
  BY DEF Library!In
<1>2. k_bucket'[d][m] = k_bucket[d][m] \/ k_bucket'[d][m] = k_uploads + 1 \/ k_bucket'[d][m] = NoDoc
  <2>1. CASE UNCHANGED k_bucket
    BY <2>1
  <2>2. ASSUME NEW e \in Library!Source, NEW n \in DocName, NEW value,
               k_bucket' = [k_bucket EXCEPT ![e][n] = value]
        PROVE  k_bucket'[d][m] = k_bucket[d][m] \/ k_bucket'[d][m] = value
    BY <2>2 DEF LibraryTypes
  <2>3. ASSUME NEW e \in Library!Source, NEW n \in DocName, NEW lookFails \in BOOLEAN,
               Library!UploadDocument(e, n, lookFails)
        PROVE  k_bucket'[d][m] = k_bucket[d][m] \/ k_bucket'[d][m] = k_uploads + 1
    BY <2>2, <2>3 DEF Library!UploadDocument
  <2>4. ASSUME NEW e \in Library!Source, NEW n \in DocName, NEW a \in Librarian,
               Library!DeleteDocument(a, e, n)
        PROVE  k_bucket'[d][m] = k_bucket[d][m] \/ k_bucket'[d][m] = NoDoc
    BY <2>2, <2>4 DEF Library!DeleteDocument
  <2> QED BY <2>1, <2>3, <2>4
          DEF Library!Next, Library!FindDocument, Library!StartSync, Library!StartJob,
              Library!SourceBusy, Library!StartFails, Library!JobReads, Library!JobDone,
              Library!JobStopping, Library!JobStopped, Library!JobFails, Library!Turn,
              Library!AskFirst, Library!IngestionStatus
<1>3. u # k_uploads + 1
  BY DEF LibraryTypes
<1> QED BY <1>1, <1>2, <1>3 DEF Library!In

(* What is served and still there is read by every later job. *)
LEMMA ServedStays ==
  ASSUME LibraryTypes, Library!Next, NEW d \in Library!Source, NEW u \in Library!In(d),
         ServedFrom(u, d)
  PROVE  ServedFrom(u, d)'
<1>1. CASE UNCHANGED <<k_index, k_job>>
  BY <1>1 DEF ServedFrom
<1>2. ASSUME NEW e \in Library!Source, NEW status, NEW covers, UNCHANGED k_index,
             k_job' = [k_job EXCEPT ![e] = Library!Job(status, covers)],
             e = d /\ status = "IN_PROGRESS" => u \in covers
      PROVE  ServedFrom(u, d)'
  BY <1>2 DEF ServedFrom, Library!Job, LibraryTypes
<1>3. ASSUME NEW a \in Librarian, NEW e \in Library!Source, Library!StartJob(a, e)
      PROVE  ServedFrom(u, d)'
  BY <1>2, <1>3 DEF Library!StartJob
<1>4. ASSUME NEW e \in Library!Source, Library!JobReads(e)
      PROVE  ServedFrom(u, d)'
  BY <1>2, <1>4 DEF Library!JobReads, Library!Turn
<1>5. ASSUME NEW e \in Library!Source, Library!JobDone(e)
      PROVE  ServedFrom(u, d)'
  <2>1. /\ k_index' = [k_index EXCEPT ![e] = k_job[e].covers]
        /\ k_job[e].status = "IN_PROGRESS"
        /\ k_job' = [k_job EXCEPT ![e] = Library!Job("COMPLETE", {})]
    BY <1>5 DEF Library!JobDone, Library!Turn
  <2> QED BY <2>1 DEF ServedFrom, Library!Job, LibraryTypes
<1>6. ASSUME NEW e \in Library!Source,
             Library!JobStopping(e) \/ Library!JobStopped(e) \/ Library!JobFails(e)
      PROVE  ServedFrom(u, d)'
  BY <1>2, <1>6 DEF Library!JobStopping, Library!JobStopped, Library!JobFails, Library!Turn
<1> QED BY <1>1, <1>3, <1>4, <1>5, <1>6
        DEF Library!Next, Library!UploadDocument, Library!FindDocument,
            Library!DeleteDocument, Library!StartSync, Library!SourceBusy, Library!StartFails,
            Library!AskFirst, Library!IngestionStatus

(* The newest job of a source is covered as the status says it is. *)
LEMMA CoveredAsRead ==
  ASSUME AllCovered, NEW d \in Library!Source, NEW u \in k_due \cap Library!In(d)
  PROVE  /\ k_job[d].status = "COMPLETE" => ServedFrom(u, d)
         /\ k_job[d].status # "NEVER_RUN"
<1>1. Covered(u, d)
  BY DEF AllCovered
<1> QED BY <1>1 DEF Covered, ServedFrom

LEMMA ReadingNext ==
  ASSUME LibraryTypes, AllCovered, ReadingOK, Library!Next
  PROVE  ReadingOK'
<1>1. CASE Library!AskFirst
  <2>1. /\ k_reading' = [first |-> k_job[1].status, second |-> "none", due |-> k_due]
        /\ UNCHANGED <<k_bucket, k_index, k_job, k_due>>
    BY <1>1 DEF Library!AskFirst
  <2>2. Library!In(1)' = Library!In(1) /\ 1 \in Library!Source
    BY <2>1 DEF Library!In, Library!Source
  <2>3. \A u : ServedFrom(u, 1)' <=> ServedFrom(u, 1)
    BY <2>1 DEF ServedFrom
  <2>4. ReadAs(k_reading.first, 1)'
    BY <2>1, <2>2, <2>3, CoveredAsRead DEF ReadAs
  <2>5. ReadAs(k_reading.second, 2)'
    BY <2>1 DEF ReadAs
  <2> QED BY <2>1, <2>4, <2>5 DEF ReadingOK
<1>2. CASE Library!IngestionStatus
  <2>1. UNCHANGED <<k_bucket, k_index, k_job, k_due>>
    BY <1>2 DEF Library!IngestionStatus
  <2>2. \A d : Library!In(d)' = Library!In(d)
    BY <2>1 DEF Library!In
  <2>3. \A u, d : ServedFrom(u, d)' <=> ServedFrom(u, d)
    BY <2>1 DEF ServedFrom
  <2>4. CASE k_reading' = Library!NoRequest
    BY <2>4 DEF Library!NoRequest, ReadingOK, ReadAs
  <2>5. CASE /\ k_reading' = [k_reading EXCEPT !.second = k_job[2].status]
             /\ Library!Overall(k_reading.first, k_job[2].status) = "COMPLETE"
    <3>1. /\ k_reading'.first = k_reading.first /\ k_reading'.second = k_job[2].status
          /\ k_reading'.due = k_reading.due /\ k_reading.due \subseteq k_due
          /\ 2 \in Library!Source /\ k_reading.first # "none"
      BY <1>2, <2>5 DEF LibraryTypes, ReadingOK, Library!Source, Library!IngestionStatus
    <3>2. ReadAs(k_reading.first, 1)'
      BY <2>2, <2>3, <3>1 DEF ReadAs, ReadingOK
    <3>3. ReadAs(k_reading.second, 2)'
      BY <2>2, <2>3, <3>1, CoveredAsRead DEF ReadAs
    <3> QED BY <2>1, <2>5, <3>1, <3>2, <3>3 DEF ReadingOK
  <2> QED BY <1>2, <2>4, <2>5 DEF Library!IngestionStatus
<1>3. CASE UNCHANGED k_reading /\ k_due \subseteq k_due'
  <2>1. ASSUME NEW status, NEW d \in Library!Source, ReadAs(status, d)
        PROVE  ReadAs(status, d)'
    <3>1. ASSUME NEW u \in k_reading'.due, u \in Library!In(d)'
          PROVE  u \in k_reading.due /\ u \in Library!In(d)
      <4>1. u \in k_reading.due /\ u \in 1..k_uploads
        BY <1>3, <3>1 DEF LibraryTypes
      <4> QED BY <3>1, <4>1, GoneStaysGone
    <3> QED BY <2>1, <3>1, ServedStays DEF ReadAs
  <2>2. 1 \in Library!Source /\ 2 \in Library!Source
    BY DEF Library!Source
  <2>3. k_reading' = k_reading
    BY <1>3
  <2>4. PICK one, two : one = k_reading.first /\ two = k_reading.second
    OBVIOUS
  <2>5. ReadAs(one, 1)' /\ ReadAs(two, 2)'
    BY <2>1, <2>2, <2>4 DEF ReadingOK
  <2> QED BY <1>3, <2>3, <2>4, <2>5 DEF ReadingOK
<1>4. Library!AskFirst \/ Library!IngestionStatus \/ (UNCHANGED k_reading /\ k_due \subseteq k_due')
  BY DEF Library!Next, Library!UploadDocument, Library!FindDocument, Library!DeleteDocument,
         Library!StartSync, Library!StartJob, Library!SourceBusy, Library!Proceed,
         Library!StartFails, Library!JobReads, Library!JobDone, Library!JobStopping,
         Library!JobStopped, Library!JobFails, Library!Turn
<1> QED BY <1>1, <1>2, <1>3, <1>4

LEMMA LibraryNext ==
  LibraryConstants /\ LibraryOK /\ [Library!Next]_(Library!vars) => LibraryOK'
<1>1. LibraryOK /\ UNCHANGED Library!vars => LibraryOK'
  BY DEF LibraryOK, Library!vars, LibraryTypes, AllCovered, FirstCovered, Covered,
         Library!In, AdminAt, ReadingOK, ReadAs, ServedFrom
<1> QED BY <1>1, LibraryTypesNext, CoverNext, ReadingNext DEF LibraryOK

LEMMA LibraryInvariant == Library!Spec => []LibraryOK
<1> USE LibraryAssumption
<1>1. Library!Init => LibraryOK
  <2> SUFFICES ASSUME Library!Init
               PROVE  LibraryTypes /\ AllCovered /\ FirstCovered /\ ReadingOK
    BY DEF LibraryOK
  <2>1. LibraryTypes
    BY DEF Library!Init, LibraryTypes, LibraryConstants, Library!Job, AdminAt, Library!Found,
           Library!NoRequest
  <2>2. AllCovered /\ FirstCovered
    BY DEF Library!Init, AllCovered, FirstCovered
  <2>3. ReadingOK
    BY DEF Library!Init, ReadingOK, ReadAs, Library!NoRequest
  <2> QED BY <2>1, <2>2, <2>3
<1>2. LibraryConstants
  OBVIOUS
<1> QED BY <1>1, <1>2, LibraryNext, PTL DEF Library!Spec

(* When the library's status is answered COMPLETE (ingestion_status) over  *)
(* jobs none of which is being stopped, documents that a sync of every     *)
(* source found and that are still there are served, whatever uploads,     *)
(* removals, syncs and jobs overlapped with it and with each other.        *)
THEOREM CompleteMeansServed == Library!Spec => []DoneMeansServed
<1> USE LibraryAssumption
<1>1. LibraryOK => Library!DoneMeansServed
  <2> SUFFICES ASSUME LibraryOK, Library!SaidComplete, ~Library!Stopping,
                      NEW u \in k_reading.due, u \in Library!Stored
               PROVE  u \in k_index[1] \cup k_index[2]
    BY DEF Library!DoneMeansServed, Library!Served
  <2>1. /\ k_reading.first \in Library!Found \ {"STOPPING"}
        /\ k_reading.second \in Library!Found \ {"STOPPING"}
        /\ Library!Overall(k_reading.first, k_reading.second) = "COMPLETE"
    BY DEF LibraryOK, LibraryTypes, ReadingOK, Library!SaidComplete, Library!Stopping
  <2>2. {k_reading.first, k_reading.second} \subseteq {"COMPLETE", "NEVER_RUN"}
    BY <2>1, CompleteIsAll
  <2>3. u \in Library!In(1) \/ u \in Library!In(2)
    BY DEF Library!Stored, Library!Source
  <2>4. u \in Library!In(1) => u \in k_index[1]
    BY <2>2 DEF LibraryOK, ReadingOK, ReadAs, ServedFrom
  <2>5. u \in Library!In(2) => u \in k_index[2]
    BY <2>2 DEF LibraryOK, ReadingOK, ReadAs, ServedFrom
  <2> QED BY <2>3, <2>4, <2>5
<1> QED BY <1>1, LibraryInvariant, PTL DEF DoneMeansServed

(* What the library keeps is of its types: what lies in the bucket, what   *)
(* is served, and what jobs and syncs have seen are uploads.               *)
THEOREM LibraryTypesHold == Library!Spec => []Library!TypeOK
<1> USE LibraryAssumption
<1>1. LibraryOK => Library!TypeOK
  <2> SUFFICES ASSUME LibraryTypes PROVE Library!TypeOK
    BY DEF LibraryOK
  <2>1. (1..k_uploads) \subseteq Library!Upload
    BY DEF LibraryTypes, LibraryConstants, Library!Upload
  <2>2. ASSUME NEW a \in Librarian
        PROVE  k_pc[a] \in {<<"idle">>} \cup ({"delete"} \X Library!Source \X DocName)
                 \cup ({"sync"} \X Library!Source \X (0..2) \X SUBSET Library!Upload)
    <3>1. CASE k_pc[a] = <<"idle">>
      BY <3>1
    <3>2. ASSUME NEW d \in Library!Source, NEW n \in DocName, k_pc[a] = <<"delete", d, n>>
          PROVE  k_pc[a] \in {"delete"} \X Library!Source \X DocName
      BY <3>2
    <3>3. ASSUME NEW d \in Library!Source, NEW s \in 0..1, NEW held \in SUBSET (1..k_uploads),
                 k_pc[a] = <<"sync", d, s, held>>
          PROVE  k_pc[a] \in {"sync"} \X Library!Source \X (0..2) \X SUBSET Library!Upload
      <4>1. d \in Library!Source /\ s \in 0..2 /\ held \in SUBSET Library!Upload
        BY <2>1
      <4>2. <<"sync", d, s, held>>
              \in {"sync"} \X Library!Source \X (0..2) \X SUBSET Library!Upload
        BY ONLY <4>1, Zenon
      <4> QED BY ONLY <3>3, <4>2
    <3>4. AdminAt(k_pc[a], k_uploads)
      BY DEF LibraryTypes
    <3> QED BY <3>1, <3>2, <3>3, <3>4 DEF AdminAt
  <2>3. /\ k_bucket \in [Library!Source -> [DocName -> Library!Upload \cup {NoDoc}]]
        /\ k_index \in [Library!Source -> SUBSET Library!Upload]
        /\ k_job \in [Library!Source -> [status : Library!Found, covers : SUBSET Library!Upload]]
        /\ k_due \subseteq Library!Upload
        /\ k_reading \in [first : Library!Found \cup {"none"}, second : Library!Found \cup {"none"},
                           due : SUBSET Library!Upload]
    <3> DEFINE U == 1..k_uploads
               S == Library!Found
               T == Library!Found \cup {"none"}
    <3>1. /\ k_bucket \in [Library!Source -> [DocName -> U \cup {NoDoc}]]
          /\ k_index \in [Library!Source -> SUBSET U]
          /\ k_job \in [Library!Source -> [status : S, covers : SUBSET U]]
          /\ k_due \subseteq U
          /\ k_reading \in [first : T, second : T, due : SUBSET U]
      BY DEF LibraryTypes
    <3>2. U \subseteq Library!Upload
      BY <2>1
    <3> HIDE DEF U, S, T
    <3>3. [DocName -> U \cup {NoDoc}] \subseteq [DocName -> Library!Upload \cup {NoDoc}]
      BY <3>2
    <3>4. [status : S, covers : SUBSET U] \subseteq [status : S, covers : SUBSET Library!Upload]
      BY <3>2
    <3>5. [first : T, second : T, due : SUBSET U]
            \subseteq [first : T, second : T, due : SUBSET Library!Upload]
      BY <3>2
    <3> QED BY <3>1, <3>2, <3>3, <3>4, <3>5 DEF S, T
  <2> QED BY <2>2, <2>3 DEF LibraryTypes, Library!TypeOK
<1> QED BY <1>1, LibraryInvariant, PTL

-----------------------------------------------------------------------------
(* The application's parts side by side (MCApplication).  One of them      *)
(* moves, and each behaves as it does alone.                               *)
LEMMA ApplicationFollow ==
  ApplicationSpec =>
    /\ Spec /\ Advisory!Spec /\ Dashboard!Spec /\ Sync!Spec /\ Library!Spec
<1>1. ApplicationInit =>
        /\ Init /\ Advisory!Init /\ Dashboard!Init /\ Sync!Init /\ Library!Init
  BY DEF ApplicationInit
<1> USE DEF ApplicationNext, all
<1>2. [ApplicationNext]_all => [Next]_vars
  OBVIOUS
<1>3. [ApplicationNext]_all => [Advisory!Next]_(Advisory!vars)
  BY DEF advisory, Advisory!vars
<1>4. [ApplicationNext]_all => [Dashboard!Next]_(Dashboard!vars)
  BY DEF dashboard, Dashboard!vars
<1>5. [ApplicationNext]_all => [Sync!Next]_(Sync!vars)
  BY DEF sync, Sync!vars, Sync!run
<1>6. [ApplicationNext]_all => [Library!Next]_(Library!vars)
  BY DEF library, Library!vars
<1> HIDE DEF ApplicationNext, all
<1> QED BY <1>1, <1>2, <1>3, <1>4, <1>5, <1>6,
           PTL DEF ApplicationSpec, Spec, Advisory!Spec, Dashboard!Spec, Sync!Spec,
                   Library!Spec

(* Each of them keeps to its types, whatever its constants are.            *)
THEOREM AllTypesCorrect == ApplicationSpec => []AllTypesOK
<1>1. BudgetOK => Advisory!TypeOK
  BY DEF BudgetOK
<1>2. RefreshOK => Dashboard!TypeOK
  BY DEF RefreshOK
<1> QED BY <1>1, <1>2, ApplicationFollow, TypeCorrect, AdvisoryInvariant,
           DashboardInvariant, SyncTypesHold, LibraryTypesHold,
           PTL DEF AllTypesOK
=============================================================================
