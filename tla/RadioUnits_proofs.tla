------------------------- MODULE RadioUnits_proofs -------------------------
(***************************************************************************)
(* Proofs about RadioUnits: with any number of admins, readers, processes  *)
(* and radio IDs, the table passes its limit by fewer names than there are *)
(* admins at once, and a cache shows an old name only within its window.   *)
(***************************************************************************)
EXTENDS RadioUnits, FiniteSetTheorems, TLAPS

(* Admins past the count, or that needed none, with a name to write. *)
Adding == {a \in Admin : apc[a] \in {"write", "written"} /\ request[a].name # NoName}

(* The radio IDs they name. *)
Coming == {request[a].radio : a \in Adding}

(* Named or about to be.  An admin who replaces a name is in here from the *)
(* start, so that another one who removes it meanwhile makes no difference.*)
Taken == Named \cup Coming

TakenOK == Cardinality(Taken) < MaxUnits + Cardinality(Admin)

(* Names seen at the time at are current, or changed since then. *)
SeenAt(seen, at) ==
  at <= clock /\ \A r \in Radio : seen[r] # names[r] => changedAt[r] >= at

(* A cache counts from before its names were fetched, and so does a reader *)
(* that has fetched some.                                                  *)
CachesOK ==
  /\ \A p \in Process : cache[p] # NoCache => SeenAt(cache[p].names, cache[p].at)
  /\ \A r \in Reader :
       /\ rpc[r] = "fetch" => reading[r].at <= clock
       /\ rpc[r] = "store" => SeenAt(reading[r].names, reading[r].at)

IInv == TypeOK /\ TakenOK /\ CachesOK
-----------------------------------------------------------------------------
(* What a step does to the table and the clock: time goes on, and a name   *)
(* that changes is marked with a time not before the step.                 *)
TableMoves ==
  /\ clock <= clock'
  /\ \A r \in Radio :
       (names'[r] = names[r] /\ changedAt'[r] = changedAt[r]) \/ changedAt'[r] >= clock

LEMMA SeenStays ==
  ASSUME TypeOK, TypeOK', TableMoves, NEW seen, NEW at \in Nat, SeenAt(seen, at)
  PROVE  SeenAt(seen, at)'
<1>1. clock \in Nat /\ clock' \in Nat /\ at <= clock
  BY DEF TypeOK, SeenAt
<1>2. ASSUME NEW r \in Radio, seen[r] # names'[r] PROVE changedAt'[r] >= at
  <2>1. changedAt[r] \in Nat /\ changedAt'[r] \in Nat
    BY DEF TypeOK
  <2> QED BY <1>1, <1>2, <2>1 DEF SeenAt, TableMoves
<1> QED BY <1>1, <1>2 DEF SeenAt, TableMoves

LEMMA EntryTypes ==
  ASSUME TypeOK
  PROVE  /\ \A p \in Process : cache[p] # NoCache =>
              cache[p].at \in Nat /\ cache[p].names \in Names
         /\ \A r \in Reader : rpc[r] # "idle" =>
              /\ reading[r].at \in Nat /\ reading[r].names \in Names
              /\ reading[r].process \in Process
BY DEF TypeOK

(* A step after which no cache holds anything new keeps caches right. *)
LEMMA CachesStay ==
  ASSUME IInv, TypeOK', TableMoves,
         \A p \in Process : cache'[p] = cache[p] \/ cache'[p] = NoCache,
         \A r \in Reader :
           rpc'[r] = "idle" \/ (rpc'[r] = rpc[r] /\ reading'[r] = reading[r])
  PROVE  CachesOK'
<1>1. ASSUME NEW p \in Process, cache'[p] # NoCache
      PROVE  SeenAt(cache[p].names, cache[p].at)' /\ cache'[p] = cache[p]
  <2>1. cache[p].at \in Nat /\ SeenAt(cache[p].names, cache[p].at) /\ cache'[p] = cache[p]
    BY <1>1, EntryTypes DEF IInv, CachesOK
  <2>2. PICK seen, at : seen = cache[p].names /\ at = cache[p].at
    OBVIOUS
  <2>3. SeenAt(seen, at)'
    BY <2>1, <2>2, SeenStays DEF IInv
  <2> QED BY <2>1, <2>2, <2>3
<1>2. ASSUME NEW r \in Reader, rpc'[r] = "store"
      PROVE  SeenAt(reading[r].names, reading[r].at)'
  <2>1. /\ reading[r].at \in Nat /\ SeenAt(reading[r].names, reading[r].at)
        /\ reading'[r] = reading[r]
    BY <1>2, EntryTypes DEF IInv, CachesOK
  <2>2. PICK seen, at : seen = reading[r].names /\ at = reading[r].at
    OBVIOUS
  <2>3. SeenAt(seen, at)'
    BY <2>1, <2>2, SeenStays DEF IInv
  <2> QED BY <2>1, <2>2, <2>3
<1>3. ASSUME NEW r \in Reader, rpc'[r] = "fetch"
      PROVE  reading'[r].at <= clock'
  <2>1. /\ reading[r].at \in Nat /\ reading[r].at <= clock
        /\ reading'[r] = reading[r]
    BY <1>3, EntryTypes DEF IInv, CachesOK
  <2> QED BY <2>1 DEF IInv, TypeOK, TableMoves
<1> QED BY <1>1, <1>2, <1>3 DEF CachesOK

LEMMA TakenFinite == IsFiniteSet(Radio) /\ IsFiniteSet(Admin) /\ MaxUnits \in Nat
BY ConstantsAssumption

LEMMA ComingRadios == TypeOK => Taken \subseteq Radio
BY DEF TypeOK, Taken, Coming, Adding, Named

(* A step after which no more radio IDs are taken keeps the bound. *)
LEMMA TakenShrinks ==
  ASSUME TypeOK, TypeOK', TakenOK, Taken' \subseteq Taken
  PROVE  TakenOK'
<1>1. IsFiniteSet(Taken)
  BY ComingRadios, TakenFinite, FS_Subset
<1>2. Cardinality(Taken') <= Cardinality(Taken) /\ IsFiniteSet(Taken')
  BY <1>1, FS_Subset
<1>3. /\ Cardinality(Taken) \in Nat /\ Cardinality(Taken') \in Nat
      /\ Cardinality(Admin) \in Nat
  BY <1>1, <1>2, TakenFinite, FS_CardinalityType
<1> QED BY <1>2, <1>3, TakenFinite DEF TakenOK

(* Admins of a set name no more radio IDs than there are admins. *)
LEMMA ComingBounded ==
  ASSUME NEW A \in SUBSET Admin, NEW q, NEW C, C = {q[a].radio : a \in A}
  PROVE  IsFiniteSet(C) /\ Cardinality(C) <= Cardinality(Admin)
<1>1. IsFiniteSet(A) /\ Cardinality(A) <= Cardinality(Admin)
  BY TakenFinite, FS_Subset
<1>2. [a \in A |-> q[a].radio] \in Surjection(A, C)
  BY DEF Surjection
<1>3. IsFiniteSet(C) /\ Cardinality(C) <= Cardinality(A)
  BY <1>1, <1>2, FS_Surjection
<1>4. /\ Cardinality(C) \in Nat /\ Cardinality(A) \in Nat
      /\ Cardinality(Admin) \in Nat
  BY <1>1, <1>3, TakenFinite, FS_CardinalityType
<1> QED BY <1>1, <1>3, <1>4

LEMMA InitHolds == Init => IInv
<1> SUFFICES ASSUME Init PROVE IInv
  OBVIOUS
<1> USE ConstantsAssumption DEF Init
<1>1. TypeOK
  BY DEF TypeOK, Names, NoNames
<1>2. TakenOK
  <2>1. Taken = {}
    BY DEF Taken, Named, NoNames, Coming, Adding
  <2> QED BY <2>1, FS_EmptySet, FS_CardinalityType DEF TakenOK
<1>3. CachesOK
  BY DEF CachesOK
<1> QED BY <1>1, <1>2, <1>3 DEF IInv
-----------------------------------------------------------------------------
LEMMA TickKeeps == IInv /\ Tick => IInv'
<1> SUFFICES ASSUME IInv, Tick PROVE IInv'
  OBVIOUS
<1> USE DEF Tick, table, admins, readers
<1>1. TypeOK'
  BY DEF IInv, TypeOK
<1>2. Taken' = Taken
  BY DEF Taken, Named, Coming, Adding
<1>3. TableMoves
  BY DEF TableMoves, IInv, TypeOK
<1> QED BY <1>1, <1>2, <1>3, TakenShrinks, CachesStay DEF IInv

LEMMA RestartKeeps ==
  ASSUME IInv, NEW p \in Process, Restart(p)
  PROVE  IInv'
<1>1. TypeOK'
  BY DEF IInv, TypeOK, Restart, table
<1>2. Taken' \subseteq Taken
  <2>1. names' = names
    BY DEF Restart, table
  <2>2. \A a \in Admin : apc'[a] = "idle" \/ (apc'[a] = apc[a] /\ request'[a] = request[a])
    BY DEF Restart, IInv, TypeOK
  <2> QED BY <2>1, <2>2 DEF Taken, Named, Coming, Adding
<1>3. TableMoves
  BY DEF TableMoves, Restart, table, IInv, TypeOK
<1>4. /\ \A q \in Process : cache'[q] = cache[q] \/ cache'[q] = NoCache
      /\ \A r \in Reader :
           rpc'[r] = "idle" \/ (rpc'[r] = rpc[r] /\ reading'[r] = reading[r])
  BY DEF Restart, IInv, TypeOK
<1> QED BY <1>1, <1>2, <1>3, <1>4, TakenShrinks, CachesStay DEF IInv

(* An admin's step that leaves the caches and the table alone. *)
LEMMA AdminStep ==
  ASSUME IInv, TypeOK', UNCHANGED <<clock, table, cache, readers>>,
         Taken' \subseteq Taken
  PROVE  IInv'
<1>1. TableMoves
  BY DEF TableMoves, table, IInv, TypeOK
<1> QED BY <1>1, TakenShrinks, CachesStay DEF IInv, readers

(* What an admin that ends, or goes on to p with request q, leaves alone. *)
LEMMA AdminMoves ==
  ASSUME TypeOK, NEW a \in Admin, NEW p, NEW q,
         apc' = [apc EXCEPT ![a] = p],
         request' = [request EXCEPT ![a] = q] \/ (request' = request /\ q = request[a]),
         p \in {"idle", "count", "write", "written", "drop"},
         p # "idle" => q \in [process : Process, radio : Radio, name : Name \cup {NoName}]
  PROVE  /\ apc' \in [Admin -> {"idle", "count", "write", "written", "drop"}]
         /\ DOMAIN request' = Admin
         /\ \A b \in Admin : apc'[b] # "idle" =>
              request'[b] \in [process : Process, radio : Radio, name : Name \cup {NoName}]
         /\ apc'[a] = p /\ request'[a] = q
         /\ \A b \in Admin \ {a} : apc'[b] = apc[b] /\ request'[b] = request[b]
BY DEF TypeOK

LEMMA StartSetKeeps ==
  ASSUME IInv, NEW a \in Admin, NEW p \in Process, NEW r \in Radio, NEW n \in Name,
         StartSet(a, p, r, n)
  PROVE  IInv'
<1> DEFINE q == [process |-> p, radio |-> r, name |-> n]
           to == IF names[r] = NoName THEN "count" ELSE "write"
<1>1. /\ apc[a] = "idle" /\ apc' = [apc EXCEPT ![a] = to]
      /\ request' = [request EXCEPT ![a] = q]
      /\ UNCHANGED <<clock, table, cache, readers>>
  BY DEF StartSet, GoA
<1>2. q \in [process : Process, radio : Radio, name : Name \cup {NoName}]
  OBVIOUS
<1>3. /\ TypeOK' /\ apc'[a] = to /\ request'[a] = q
      /\ \A b \in Admin \ {a} : apc'[b] = apc[b] /\ request'[b] = request[b]
  BY <1>1, <1>2, AdminMoves DEF IInv, TypeOK, table, readers
<1>4. to = "write" => r \in Named
  BY DEF Named
<1>5. Taken' \subseteq Taken
  BY <1>1, <1>3, <1>4 DEF Taken, Named, Coming, Adding, table
<1> QED BY <1>1, <1>3, <1>5, AdminStep

LEMMA StartRemoveKeeps ==
  ASSUME IInv, NEW a \in Admin, NEW p \in Process, NEW r \in Radio,
         StartRemove(a, p, r)
  PROVE  IInv'
<1> DEFINE q == [process |-> p, radio |-> r, name |-> NoName]
<1>1. /\ apc' = [apc EXCEPT ![a] = "write"]
      /\ request' = [request EXCEPT ![a] = q]
      /\ UNCHANGED <<clock, table, cache, readers>>
  BY DEF StartRemove, GoA
<1>2. q \in [process : Process, radio : Radio, name : Name \cup {NoName}]
  OBVIOUS
<1>3. /\ TypeOK' /\ request'[a] = q
      /\ \A b \in Admin \ {a} : apc'[b] = apc[b] /\ request'[b] = request[b]
  BY <1>1, <1>2, AdminMoves DEF IInv, TypeOK, table, readers
<1>4. Taken' \subseteq Taken
  BY <1>1, <1>3 DEF Taken, Named, Coming, Adding, table
<1> QED BY <1>1, <1>3, <1>4, AdminStep

LEMMA EndKeeps ==
  ASSUME IInv, NEW a \in Admin, EndA(a), UNCHANGED <<clock, table, readers>>,
         \A p \in Process : cache'[p] = cache[p] \/ cache'[p] = NoCache,
         cache' \in [Process -> [at : Nat, names : Names] \cup {NoCache}]
  PROVE  IInv'
<1>1. /\ apc' = [apc EXCEPT ![a] = "idle"]
      /\ request' = [request EXCEPT ![a] = NoCache]
  BY DEF EndA, GoA
<1>2. /\ TypeOK' /\ apc'[a] = "idle"
      /\ \A b \in Admin \ {a} : apc'[b] = apc[b] /\ request'[b] = request[b]
  BY <1>1, AdminMoves DEF IInv, TypeOK, table, readers
<1>3. Taken' \subseteq Taken
  BY <1>2 DEF Taken, Named, Coming, Adding, table
<1>4. TableMoves
  BY DEF TableMoves, table, IInv, TypeOK
<1> QED BY <1>2, <1>3, <1>4, TakenShrinks, CachesStay DEF IInv, readers

(* The one step that takes more: it found the table below its limit, and   *)
(* every admin adds at most one name to it.                                *)
LEMMA CountKeeps ==
  ASSUME IInv, NEW a \in Admin, Count(a)
  PROVE  IInv'
<1>1. CASE Full
  BY <1>1, EndKeeps DEF Count, IInv, TypeOK
<1>2. CASE ~Full
  <2>1. /\ apc[a] = "count" /\ apc' = [apc EXCEPT ![a] = "write"]
        /\ request' = request /\ UNCHANGED <<clock, table, cache, readers>>
    BY <1>2 DEF Count, GoA
  <2>2. TypeOK'
    BY <2>1, AdminMoves DEF IInv, TypeOK, table, readers
  <2>3. IsFiniteSet(Coming') /\ Cardinality(Coming') <= Cardinality(Admin)
    <3>1. Adding' \in SUBSET Admin /\ Coming' = {request'[b].radio : b \in Adding'}
      BY DEF Adding, Coming
    <3> QED BY <3>1, ComingBounded
  <2>4. Taken' = Named \cup Coming'
    BY <2>1 DEF Taken, Named, table
  <2>5. IsFiniteSet(Named) /\ ~(Cardinality(Named) >= MaxUnits)
    BY <1>2, TakenFinite, FS_Subset DEF Named, Full
  <2>6. /\ IsFiniteSet(Named \cap Coming')
        /\ Cardinality(Taken')
             = Cardinality(Named) + Cardinality(Coming') - Cardinality(Named \cap Coming')
    BY <2>3, <2>4, <2>5, FS_Union, FS_Intersection
  <2>7. /\ Cardinality(Named) \in Nat /\ Cardinality(Coming') \in Nat
        /\ Cardinality(Named \cap Coming') \in Nat /\ Cardinality(Admin) \in Nat
    BY <2>3, <2>5, <2>6, TakenFinite, FS_CardinalityType
  <2>8. TakenOK'
    BY <2>3, <2>5, <2>6, <2>7, TakenFinite DEF TakenOK
  <2>9. TableMoves
    BY <2>1 DEF TableMoves, table, IInv, TypeOK
  <2> QED BY <2>1, <2>2, <2>8, <2>9, CachesStay DEF IInv, readers
<1> QED BY <1>1, <1>2

LEMMA WriteKeeps ==
  ASSUME IInv, NEW a \in Admin, Write(a)
  PROVE  IInv'
<1>1. /\ apc[a] = "write" /\ UNCHANGED <<clock, table, cache, readers>>
      /\ EndA(a) \/ (GoA(a, "written") /\ request' = request)
  BY DEF Write
<1>2. CASE EndA(a)
  BY <1>1, <1>2, EndKeeps DEF IInv, TypeOK
<1>3. CASE GoA(a, "written") /\ request' = request
  <2>1. apc' = [apc EXCEPT ![a] = "written"]
    BY <1>3 DEF GoA
  <2>2. /\ TypeOK' /\ \A b \in Admin \ {a} : apc'[b] = apc[b]
    BY <1>1, <1>3, <2>1, AdminMoves DEF IInv, TypeOK, table, readers
  <2>3. Taken' \subseteq Taken
    BY <1>1, <1>3, <2>2 DEF Taken, Named, Coming, Adding, table
  <2> QED BY <1>1, <2>2, <2>3, AdminStep
<1> QED BY <1>1, <1>2, <1>3

(* A name that comes was taken before, and one that goes is given back. *)
LEMMA CommitKeeps ==
  ASSUME IInv, NEW a \in Admin, Commit(a)
  PROVE  IInv'
<1>1. PICK r \in Radio, n \in Name \cup {NoName} :
        r = request[a].radio /\ n = request[a].name
  BY DEF IInv, TypeOK, Commit
<1>2. /\ apc[a] = "written" /\ apc' = [apc EXCEPT ![a] = "drop"]
      /\ request' = request /\ names' = [names EXCEPT ![r] = n]
      /\ changedAt' = [changedAt EXCEPT ![r] = clock]
      /\ UNCHANGED <<clock, cache, readers>>
  BY <1>1 DEF Commit, GoA
<1>3. /\ names' \in Names /\ changedAt' \in [Radio -> Nat]
      /\ names'[r] = n /\ changedAt'[r] = clock
      /\ \A u \in Radio \ {r} : names'[u] = names[u] /\ changedAt'[u] = changedAt[u]
  BY <1>2 DEF IInv, TypeOK, Names
<1>4. /\ TypeOK' /\ apc'[a] = "drop"
      /\ \A b \in Admin \ {a} : apc'[b] = apc[b]
  BY <1>2, <1>3, AdminMoves DEF IInv, TypeOK, readers
<1>5. n # NoName => r \in Coming
  BY <1>1, <1>2 DEF Coming, Adding
<1>6. Taken' \subseteq Taken
  <2>1. Named' \subseteq Taken
    BY <1>3, <1>5 DEF Taken, Named
  <2>2. Coming' \subseteq Coming
    BY <1>2, <1>4 DEF Coming, Adding
  <2> QED BY <2>1, <2>2 DEF Taken
<1>7. TableMoves
  BY <1>2, <1>3 DEF TableMoves, IInv, TypeOK
<1> QED BY <1>2, <1>4, <1>6, <1>7, TakenShrinks, CachesStay DEF IInv, readers

LEMMA DropKeeps ==
  ASSUME IInv, NEW a \in Admin, Drop(a)
  PROVE  IInv'
BY EndKeeps DEF Drop, IInv, TypeOK

LEMMA FailKeeps ==
  ASSUME IInv, NEW a \in Admin, Fail(a)
  PROVE  IInv'
BY EndKeeps DEF Fail, IInv, TypeOK

-----------------------------------------------------------------------------
LEMMA StartReadKeeps ==
  ASSUME IInv, NEW r \in Reader, NEW p \in Process, StartRead(r, p)
  PROVE  IInv'
<1> DEFINE d == [process |-> p, at |-> clock, names |-> NoNames]
<1>1. /\ rpc' = [rpc EXCEPT ![r] = "fetch"] /\ reading' = [reading EXCEPT ![r] = d]
      /\ UNCHANGED <<clock, table, cache, admins>>
  BY DEF StartRead
<1>2. d \in [process : Process, at : Nat, names : Names] /\ d.at = clock
  BY DEF IInv, TypeOK, Names, NoNames
<1> HIDE DEF d
<1>3. /\ rpc' \in [Reader -> {"idle", "fetch", "store"}] /\ DOMAIN reading' = Reader
      /\ rpc'[r] = "fetch" /\ reading'[r] = d
      /\ \A u \in Reader \ {r} : rpc'[u] = rpc[u] /\ reading'[u] = reading[u]
  BY <1>1 DEF IInv, TypeOK
<1>4. TypeOK'
  BY <1>1, <1>2, <1>3 DEF IInv, TypeOK, table, admins
<1>5. Taken' = Taken
  BY <1>1 DEF Taken, Named, Coming, Adding, table, admins
<1>6. ASSUME NEW seen, NEW at PROVE SeenAt(seen, at)' = SeenAt(seen, at)
  BY <1>1 DEF SeenAt, table
<1>7. CachesOK'
  BY <1>1, <1>2, <1>3, <1>6 DEF IInv, TypeOK, CachesOK
<1> QED BY <1>4, <1>5, <1>7, TakenShrinks DEF IInv

LEMMA FetchKeeps ==
  ASSUME IInv, NEW r \in Reader, Fetch(r)
  PROVE  IInv'
<1> DEFINE d == [process |-> reading[r].process, at |-> reading[r].at, names |-> names]
<1>1. /\ rpc[r] = "fetch" /\ rpc' = [rpc EXCEPT ![r] = "store"]
      /\ reading' = [reading EXCEPT ![r] = [@ EXCEPT !.names = names]]
      /\ UNCHANGED <<clock, table, cache, admins>>
  BY DEF Fetch
<1>2. reading[r] \in [process : Process, at : Nat, names : Names] /\ names \in Names
  BY <1>1 DEF IInv, TypeOK
<1>3. d \in [process : Process, at : Nat, names : Names]
      /\ d.at = reading[r].at /\ d.names = names
  BY <1>2
<1>4. [reading[r] EXCEPT !.names = names] = d
  BY <1>2
<1> HIDE DEF d
<1>5. /\ rpc' \in [Reader -> {"idle", "fetch", "store"}] /\ DOMAIN reading' = Reader
      /\ rpc'[r] = "store" /\ reading'[r] = d
      /\ \A u \in Reader \ {r} : rpc'[u] = rpc[u] /\ reading'[u] = reading[u]
  BY <1>1, <1>4 DEF IInv, TypeOK
<1>6. TypeOK'
  BY <1>1, <1>3, <1>5 DEF IInv, TypeOK, table, admins
<1>7. Taken' = Taken
  BY <1>1 DEF Taken, Named, Coming, Adding, table, admins
<1>8. ASSUME NEW seen, NEW at PROVE SeenAt(seen, at)' = SeenAt(seen, at)
  BY <1>1 DEF SeenAt, table
<1>9. SeenAt(d.names, d.at)
  BY <1>1, <1>3 DEF IInv, CachesOK, SeenAt
<1>10. CachesOK'
  BY <1>1, <1>5, <1>8, <1>9 DEF IInv, TypeOK, CachesOK
<1> QED BY <1>6, <1>7, <1>10, TakenShrinks DEF IInv

LEMMA StoreKeeps ==
  ASSUME IInv, NEW r \in Reader, Store(r)
  PROVE  IInv'
<1>1. /\ rpc[r] = "store" /\ cache' = [cache EXCEPT ![reading[r].process] = Entry(r)]
      /\ rpc' = [rpc EXCEPT ![r] = "idle"] /\ reading' = [reading EXCEPT ![r] = NoCache]
      /\ UNCHANGED <<clock, table, admins>>
  BY DEF Store
<1>2. PICK p \in Process : p = reading[r].process
  BY <1>1, EntryTypes DEF IInv
<1>3. /\ Entry(r) \in [at : Nat, names : Names]
      /\ SeenAt(Entry(r).names, Entry(r).at)
  BY <1>1, EntryTypes DEF IInv, CachesOK, Entry
<1>4. /\ cache' \in [Process -> [at : Nat, names : Names] \cup {NoCache}]
      /\ cache'[p] = Entry(r) /\ \A q \in Process \ {p} : cache'[q] = cache[q]
      /\ rpc' \in [Reader -> {"idle", "fetch", "store"}] /\ DOMAIN reading' = Reader
      /\ rpc'[r] = "idle"
      /\ \A u \in Reader \ {r} : rpc'[u] = rpc[u] /\ reading'[u] = reading[u]
  BY <1>1, <1>2, <1>3 DEF IInv, TypeOK
<1>5. TypeOK'
  BY <1>1, <1>4 DEF IInv, TypeOK, table, admins
<1>6. Taken' = Taken
  BY <1>1 DEF Taken, Named, Coming, Adding, table, admins
<1>7. ASSUME NEW seen, NEW at PROVE SeenAt(seen, at)' = SeenAt(seen, at)
  BY <1>1 DEF SeenAt, table
<1>8. CachesOK'
  BY <1>1, <1>3, <1>4, <1>7 DEF IInv, TypeOK, CachesOK
<1> QED BY <1>5, <1>6, <1>8, TakenShrinks DEF IInv

-----------------------------------------------------------------------------
LEMMA NextKeeps == IInv /\ [Next]_vars => IInv'
<1> SUFFICES ASSUME IInv, [Next]_vars PROVE IInv'
  OBVIOUS
<1>1. CASE UNCHANGED vars
  <2>1. TypeOK'
    BY <1>1 DEF IInv, TypeOK, vars, table, admins, readers
  <2>2. Taken' = Taken
    BY <1>1 DEF Taken, Named, Coming, Adding, vars, table, admins
  <2> QED BY <1>1, <2>1, <2>2, AdminStep DEF vars
<1>2. ASSUME NEW a \in Admin, NEW p \in Process, NEW r \in Radio,
             StartRemove(a, p, r) \/ \E n \in Name : StartSet(a, p, r, n)
      PROVE  IInv'
  BY <1>2, StartRemoveKeeps, StartSetKeeps
<1>3. ASSUME NEW a \in Admin, Count(a) \/ Write(a) \/ Commit(a) \/ Drop(a) \/ Fail(a)
      PROVE  IInv'
  BY <1>3, CountKeeps, WriteKeeps, CommitKeeps, DropKeeps, FailKeeps
<1>4. ASSUME NEW r \in Reader,
             Fetch(r) \/ Store(r) \/ \E p \in Process : StartRead(r, p)
      PROVE  IInv'
  BY <1>4, FetchKeeps, StoreKeeps, StartReadKeeps
<1> QED BY <1>1, <1>2, <1>3, <1>4, TickKeeps, RestartKeeps DEF Next

LEMMA Invariant == Spec => []IInv
BY InitHolds, NextKeeps, PTL DEF Spec

(* Variables keep their types, for any number of processes and handlers. *)
THEOREM TypeCorrect == Spec => []TypeOK
<1>1. IInv => TypeOK
  BY DEF IInv
<1> QED BY <1>1, Invariant, PTL

(* However many admins add names at once (set_unit counts, then inserts),  *)
(* they pass MAX_UNITS by less than their number, and removals and         *)
(* replacements under way do not add to that.                              *)
THEOREM OvershootIsBounded == Spec => []OvershootBounded
<1>1. IInv => OvershootBounded
  <2> SUFFICES ASSUME IInv PROVE OvershootBounded
    OBVIOUS
  <2>1. IsFiniteSet(Taken)
    BY ComingRadios, TakenFinite, FS_Subset DEF IInv
  <2>2. IsFiniteSet(Named) /\ Cardinality(Named) <= Cardinality(Taken)
    BY <2>1, FS_Subset DEF Taken
  <2>3. /\ Cardinality(Named) \in Nat /\ Cardinality(Taken) \in Nat
        /\ Cardinality(Admin) \in Nat
    BY <2>1, <2>2, TakenFinite, FS_CardinalityType
  <2> QED BY <2>2, <2>3, TakenFinite DEF IInv, TakenOK, OvershootBounded
<1> QED BY <1>1, Invariant, PTL

(* A name the cache still shows and the table no longer has was changed    *)
(* less than UNIT_CACHE_SECONDS ago (_unit_names reads the clock before it *)
(* reads the table).                                                       *)
THEOREM CachesCatchUp == Spec => []StaleOnlyWithinWindow
<1>1. ASSUME IInv, NEW p \in Process, NEW r \in Radio,
             Fresh(p), cache[p].names[r] # names[r]
      PROVE  clock - changedAt[r] < CacheSeconds
  <2>1. /\ cache[p] # NoCache /\ clock - cache[p].at < CacheSeconds
        /\ cache[p].at \in Nat /\ clock \in Nat /\ changedAt[r] \in Nat
        /\ CacheSeconds \in Nat
    BY <1>1, EntryTypes, ConstantsAssumption DEF Fresh, IInv, TypeOK
  <2>2. changedAt[r] >= cache[p].at
    BY <1>1, <2>1 DEF IInv, CachesOK, SeenAt
  <2> QED BY <2>1, <2>2
<1>2. IInv => StaleOnlyWithinWindow
  BY <1>1 DEF StaleOnlyWithinWindow
<1> QED BY <1>2, Invariant, PTL
=============================================================================
