------------------------------ MODULE RadioUnits ------------------------------
(***************************************************************************)
(* The names of radio IDs ("98426 = Medic 4"): a limited table in          *)
(* PostgreSQL that admins edit, and the cache of it in every web process   *)
(* (RadioService.set_unit, remove_unit, _unit_names).                      *)
(*                                                                         *)
(* The service counts before it inserts, and a reader stores in the cache  *)
(* what it fetched before: both act on what they read some steps ago.      *)
(* Fixes, watch terms and hints are limited, and the fixes cached, in the  *)
(* same way.                                                               *)
(***************************************************************************)
EXTENDS Integers, FiniteSets

CONSTANTS
  Radio, Name, NoName,
  Process,       \* web processes, one cache each
  Admin,         \* handlers of set_unit and remove_unit
  Reader,        \* handlers that show names
  MaxUnits,      \* MAX_UNITS
  CacheSeconds,  \* UNIT_CACHE_SECONDS
  NoCache,
  MaxClock       \* bound: the last tick of the clock

ASSUME ConstantsAssumption ==
  /\ NoName \notin Name
  /\ MaxUnits \in Nat \ {0} /\ CacheSeconds \in Nat /\ MaxClock \in Nat
  /\ IsFiniteSet(Radio) /\ IsFiniteSet(Admin)

VARIABLES
  clock,
  names,      \* lcdash_radio.units, committed
  changedAt,  \* history: when a radio ID's name last changed
  cache,      \* _unit_cache of every process: time and names, or NoCache
  apc,        \* where an admin's request is
  request,    \* its process, radio ID and new name (NoName removes)
  rpc,        \* where a reader is
  reading     \* its process, the time it started and the names it fetched

table   == <<names, changedAt>>
admins  == <<apc, request>>
readers == <<rpc, reading>>
vars    == <<clock, table, cache, admins, readers>>

Names == [Radio -> Name \cup {NoName}]

TypeOK ==
  /\ clock \in Nat
  /\ names \in Names
  /\ changedAt \in [Radio -> Nat]
  /\ cache \in [Process -> [at : Nat, names : Names] \cup {NoCache}]
  /\ apc \in [Admin -> {"idle", "count", "write", "written", "drop"}]
  /\ DOMAIN request = Admin
  /\ \A a \in Admin : apc[a] # "idle" =>
       request[a] \in [process : Process, radio : Radio, name : Name \cup {NoName}]
  /\ rpc \in [Reader -> {"idle", "fetch", "store"}]
  /\ DOMAIN reading = Reader
  /\ \A r \in Reader : rpc[r] # "idle" =>
       reading[r] \in [process : Process, at : Nat, names : Names]

NoNames == [r \in Radio |-> NoName]

Init ==
  /\ clock = 0
  /\ names = NoNames
  /\ changedAt = [r \in Radio |-> 0]
  /\ cache = [p \in Process |-> NoCache]
  /\ apc = [a \in Admin |-> "idle"]
  /\ request = [a \in Admin |-> NoCache]
  /\ rpc = [r \in Reader |-> "idle"]
  /\ reading = [r \in Reader |-> NoCache]

Tick ==
  /\ clock < MaxClock
  /\ clock' = clock + 1
  /\ UNCHANGED <<table, cache, admins, readers>>

Named == {r \in Radio : names[r] # NoName}

Fresh(p) == cache[p] # NoCache /\ clock - cache[p].at < CacheSeconds

-----------------------------------------------------------------------------
(* set_unit and remove_unit. *)

GoA(a, p) == apc' = [apc EXCEPT ![a] = p]

EndA(a) ==
  /\ GoA(a, "idle")
  /\ request' = [request EXCEPT ![a] = NoCache]

(* set_unit reads the old name first. *)
StartSet(a, p, r, n) ==
  /\ apc[a] = "idle"
  /\ request' = [request EXCEPT ![a] = [process |-> p, radio |-> r, name |-> n]]
  /\ GoA(a, IF names[r] = NoName THEN "count" ELSE "write")
  /\ UNCHANGED <<clock, table, cache, readers>>

FullBelow == Cardinality(Named) > MaxUnits     \* fault: off by one

(* The limit concerns new names only. *)
Full == Cardinality(Named) >= MaxUnits

Count(a) ==
  /\ apc[a] = "count"
  /\ IF Full THEN EndA(a) ELSE GoA(a, "write") /\ UNCHANGED request
  /\ UNCHANGED <<clock, table, cache, readers>>

StartRemove(a, p, r) ==
  /\ apc[a] = "idle"
  /\ request' = [request EXCEPT ![a] = [process |-> p, radio |-> r, name |-> NoName]]
  /\ GoA(a, "write")
  /\ UNCHANGED <<clock, table, cache, readers>>

(* upsert_unit or delete_unit: a row another transaction has written is    *)
(* waited for; removing a name that is not there is a 404.                 *)
Write(a) ==
  LET r == request[a].radio IN
  /\ apc[a] = "write"
  /\ \A b \in Admin : ~(apc[b] = "written" /\ request[b].radio = r)
  /\ IF request[a].name = NoName /\ names[r] = NoName
       THEN EndA(a)
       ELSE GoA(a, "written") /\ UNCHANGED request
  /\ UNCHANGED <<clock, table, cache, readers>>

(* _audit commits the name with its audit record. *)
Commit(a) ==
  LET q == request[a] IN
  /\ apc[a] = "written"
  /\ names' = [names EXCEPT ![q.radio] = q.name]
  /\ changedAt' = [changedAt EXCEPT ![q.radio] = clock]
  /\ GoA(a, "drop")
  /\ UNCHANGED <<clock, cache, request, readers>>

(* _drop_unit_cache: of this process only; then the admin is answered. *)
Drop(a) ==
  /\ apc[a] = "drop"
  /\ cache' = [cache EXCEPT ![request[a].process] = NoCache]
  /\ EndA(a)
  /\ UNCHANGED <<clock, table, readers>>

(* A statement or the audit fails and rolls the change back. *)
Fail(a) ==
  /\ apc[a] \in {"count", "write", "written"}
  /\ EndA(a)
  /\ UNCHANGED <<clock, table, cache, readers>>

(* The process restarts: its requests end and its cache is gone. *)
Restart(p) ==
  /\ cache' = [cache EXCEPT ![p] = NoCache]
  /\ LET hit == {a \in Admin : apc[a] # "idle" /\ request[a].process = p}
         lost == {r \in Reader : rpc[r] # "idle" /\ reading[r].process = p}
     IN  /\ apc' = [a \in Admin |-> IF a \in hit THEN "idle" ELSE apc[a]]
         /\ request' = [a \in Admin |-> IF a \in hit THEN NoCache ELSE request[a]]
         /\ rpc' = [r \in Reader |-> IF r \in lost THEN "idle" ELSE rpc[r]]
         /\ reading' = [r \in Reader |-> IF r \in lost THEN NoCache ELSE reading[r]]
  /\ UNCHANGED <<clock, table>>

-----------------------------------------------------------------------------
(* _unit_names. *)

(* The clock is read before the table is. *)
StartRead(r, p) ==
  /\ rpc[r] = "idle" /\ ~Fresh(p)
  /\ rpc' = [rpc EXCEPT ![r] = "fetch"]
  /\ reading' = [reading EXCEPT ![r] = [process |-> p, at |-> clock, names |-> NoNames]]
  /\ UNCHANGED <<clock, table, cache, admins>>

Fetch(r) ==
  /\ rpc[r] = "fetch"
  /\ rpc' = [rpc EXCEPT ![r] = "store"]
  /\ reading' = [reading EXCEPT ![r].names = names]
  /\ UNCHANGED <<clock, table, cache, admins>>

EntryStampedLate(r) == [at |-> clock, names |-> reading[r].names]  \* fault

Entry(r) == [at |-> reading[r].at, names |-> reading[r].names]

Store(r) ==
  /\ rpc[r] = "store"
  /\ cache' = [cache EXCEPT ![reading[r].process] = Entry(r)]
  /\ rpc' = [rpc EXCEPT ![r] = "idle"]
  /\ reading' = [reading EXCEPT ![r] = NoCache]
  /\ UNCHANGED <<clock, table, admins>>

-----------------------------------------------------------------------------
Next ==
  \/ Tick
  \/ \E p \in Process : Restart(p)
  \/ \E a \in Admin :
       \/ \E p \in Process, r \in Radio :
            StartRemove(a, p, r) \/ \E n \in Name : StartSet(a, p, r, n)
       \/ Count(a) \/ Write(a) \/ Commit(a) \/ Drop(a) \/ Fail(a)
  \/ \E r \in Reader :
       Fetch(r) \/ Store(r) \/ \E p \in Process : StartRead(r, p)

Spec == Init /\ [][Next]_vars

-----------------------------------------------------------------------------
(* "Another process catches up within the cache window": a cached name     *)
(* that is out of date was changed less than CacheSeconds ago, whoever     *)
(* changed it and however slow the reader that cached it was.              *)
StaleOnlyWithinWindow ==
  \A p \in Process, r \in Radio :
    Fresh(p) /\ cache[p].names[r] # names[r] =>
      clock - changedAt[r] < CacheSeconds

(* Admins who all counted before any of them inserted pass the limit       *)
(* together, but the table never gets further beyond it than that.         *)
OvershootBounded == Cardinality(Named) < MaxUnits + Cardinality(Admin)
=============================================================================
