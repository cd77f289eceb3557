-------------------------- MODULE PageParts_proofs --------------------------
(***************************************************************************)
(* Proofs about parts of the pages, and of the application behind them,    *)
(* that share nothing, one after another: each is an instance with         *)
(* variables of its own, and its constants are parameters here as they are *)
(* there.  First what several of them need about sets of numbers.          *)
(***************************************************************************)
EXTENDS
  PageParts, AppParts, Orders, Integers, Sequences, FiniteSets,
  FiniteSetTheorems, FunctionTheorems, WellFoundedInduction, TLAPS

-----------------------------------------------------------------------------
(* A finite set of numbers has a least and a greatest one.                   *)

LEMMA LeastOf ==
  ASSUME NEW T \in SUBSET Int, IsFiniteSet(T), T # {}
  PROVE  \E n \in T : \A m \in T : n <= m
<1> DEFINE Below(n) == {x \in T : x <= n}
           C == {Below(n) : n \in T}
<1>1. IsWellFoundedOn(StrictSubsetOrdering(T), SUBSET T)
  BY FS_StrictSubsetOrderingWellFounded, FS_FiniteSubsetsOfFinite
<1>2. C \subseteq SUBSET T /\ C # {}
  OBVIOUS
<1>3. PICK D \in C : \A E \in C : ~(<<E, D>> \in StrictSubsetOrdering(T))
  <2> HIDE DEF C
  <2> QED BY <1>1, <1>2, WFMin
<1>4. PICK n \in T : D = Below(n)
  OBVIOUS
<1>5. ASSUME NEW m \in T, ~(n <= m) PROVE FALSE
  <2>1. m < n
    BY <1>5
  <2>2. Below(m) \subseteq Below(n) /\ n \in Below(n) /\ n \notin Below(m)
    <3>1. \A x \in T : x <= m => x <= n
      BY <2>1
    <3>2. n <= n /\ ~(n <= m)
      BY <1>5
    <3>3. Below(m) \subseteq Below(n)
      BY <3>1
    <3> QED BY <3>2, <3>3
  <2>3. Below(m) \in C
    OBVIOUS
  <2> QED BY <1>2, <1>3, <1>4, <2>2, <2>3 DEF StrictSubsetOrdering
<1> QED BY <1>5

LEMMA GreatestOf ==
  ASSUME NEW T \in SUBSET Int, IsFiniteSet(T), T # {}
  PROVE  \E n \in T : \A m \in T : n >= m
<1> DEFINE Above(n) == {x \in T : x >= n}
           C == {Above(n) : n \in T}
<1>1. IsWellFoundedOn(StrictSubsetOrdering(T), SUBSET T)
  BY FS_StrictSubsetOrderingWellFounded, FS_FiniteSubsetsOfFinite
<1>2. C \subseteq SUBSET T /\ C # {}
  OBVIOUS
<1>3. PICK D \in C : \A E \in C : ~(<<E, D>> \in StrictSubsetOrdering(T))
  <2> HIDE DEF C
  <2> QED BY <1>1, <1>2, WFMin
<1>4. PICK n \in T : D = Above(n)
  OBVIOUS
<1>5. ASSUME NEW m \in T, ~(n >= m) PROVE FALSE
  <2>1. m > n
    BY <1>5
  <2>2. Above(m) \subseteq Above(n) /\ n \in Above(n) /\ n \notin Above(m)
    <3>1. \A x \in T : x >= m => x >= n
      BY <2>1
    <3>2. n >= n /\ ~(n >= m)
      BY <1>5
    <3>3. Above(m) \subseteq Above(n)
      BY <3>1
    <3> QED BY <3>2, <3>3
  <2>3. Above(m) \in C
    OBVIOUS
  <2> QED BY <1>2, <1>3, <1>4, <2>2, <2>3 DEF StrictSubsetOrdering
<1> QED BY <1>5

-----------------------------------------------------------------------------
(* Sets in their order, and sequences without some elements (Orders). *)

(* A set of numbers is put in order, with none of them left out: whoever   *)
(* has fewer smaller ones comes first, and their numbers fill 0..n-1.      *)
LEMMA InOrderIs ==
  ASSUME NEW S \in SUBSET Int, IsFiniteSet(S)
  PROVE  /\ Cardinality(S) \in Nat
         /\ InOrder(S) \in [1..Cardinality(S) -> S]
         /\ \A i, j \in 1..Cardinality(S) : i < j => InOrder(S)[i] < InOrder(S)[j]
         /\ \A s \in S : \E i \in 1..Cardinality(S) : InOrder(S)[i] = s
<1> DEFINE n == Cardinality(S)
           Below(s) == {t \in S : t < s}
           rank == [s \in S |-> Cardinality(Below(s)) + 1]
<1>1. n \in Nat
  BY FS_CardinalityType
<1>2. ASSUME NEW s \in S
      PROVE  /\ IsFiniteSet(Below(s)) /\ Cardinality(Below(s)) \in Nat
             /\ Cardinality(Below(s)) < n
  <2>1. Below(s) \in SUBSET S /\ s \notin Below(s)
    OBVIOUS
  <2> HIDE DEF Below
  <2>2. /\ IsFiniteSet(Below(s)) /\ Cardinality(Below(s)) <= n
        /\ n = Cardinality(Below(s)) => S = Below(s)
    BY <2>1, FS_Subset
  <2>3. Cardinality(Below(s)) \in Nat
    BY <2>2, FS_CardinalityType
  <2> HIDE DEF n
  <2> QED BY <1>1, <2>1, <2>2, <2>3
<1>3. ASSUME NEW s \in S, NEW t \in S, s < t
      PROVE  Cardinality(Below(s)) < Cardinality(Below(t))
  <2>1. Below(s) \in SUBSET Below(t) /\ s \in Below(t) /\ s \notin Below(s)
    <3>1. s \in Below(t) /\ s \notin Below(s)
      BY <1>3
    <3>2. \A r \in S : r < s => r < t
      BY <1>3
    <3> QED BY <3>1, <3>2
  <2> HIDE DEF Below
  <2>2. /\ Cardinality(Below(s)) <= Cardinality(Below(t))
        /\ Cardinality(Below(t)) = Cardinality(Below(s)) => Below(t) = Below(s)
    BY <1>2, <2>1, FS_Subset
  <2> QED BY <1>2, <2>1, <2>2
<1>4. \A s, t \in S : rank[s] = rank[t] => s = t
  <2> TAKE s, t \in S
  <2>1. s < t \/ t < s \/ s = t
    OBVIOUS
  <2>2. /\ s < t => Cardinality(Below(s)) < Cardinality(Below(t))
        /\ t < s => Cardinality(Below(t)) < Cardinality(Below(s))
    BY <1>3
  <2>3. rank[s] = Cardinality(Below(s)) + 1 /\ rank[t] = Cardinality(Below(t)) + 1
    OBVIOUS
  <2> HIDE DEF Below, rank
  <2> QED BY <1>2, <2>1, <2>2, <2>3
<1>5. rank \in [S -> 1..n]
  <2> HIDE DEF Below, n
  <2> QED BY <1>1, <1>2
<1>6. IsFiniteSet(1..n) /\ Cardinality(1..n) = n
  <2>1. 1 \in Int /\ n \in Int
    BY <1>1
  <2> HIDE DEF n
  <2> QED BY <1>1, <2>1, FS_Interval
<1>7. ASSUME NEW i \in 1..n PROVE \E s \in S : Cardinality(Below(s)) = i - 1
  <2> HIDE DEF rank
  <2>1. rank \in Injection(S, 1..n)
    BY <1>4, <1>5 DEF Injection, IsInjective
  <2>2. rank \in Surjection(S, 1..n)
    <3> HIDE DEF n
    <3>1. Cardinality(S) = Cardinality(1..n)
      BY <1>6 DEF n
    <3> QED BY <1>6, <2>1, <3>1, FS_Injection
  <2>3. PICK s \in S : rank[s] = i
    BY <2>2 DEF Surjection
  <2>4. rank[s] = Cardinality(Below(s)) + 1
    BY DEF rank
  <2> HIDE DEF Below, n
  <2> QED BY <1>2, <2>3, <2>4
<1> DEFINE f == InOrder(S)
<1>8. ASSUME NEW i \in 1..n PROVE f[i] \in S /\ Cardinality(Below(f[i])) = i - 1
  <2>1. f[i] = CHOOSE s \in S : Cardinality(Below(s)) = i - 1
    BY DEF InOrder
  <2> HIDE DEF Below, f, n
  <2> QED BY <1>7, <2>1
<1>9. f \in [1..n -> S]
  <2> DEFINE C(i) == CHOOSE s \in S : Cardinality(Below(s)) = i - 1
  <2>1. f = [i \in 1..n |-> C(i)]
    BY Zenon DEF InOrder
  <2> HIDE DEF f, n, C
  <2> QED BY <1>8, <2>1
<1>10. ASSUME NEW i \in 1..n, NEW j \in 1..n, i < j PROVE f[i] < f[j]
  <2>1. f[i] \in Int /\ f[j] \in Int
    BY <1>8
  <2>2. f[i] # f[j]
    <3>1. /\ Cardinality(Below(f[i])) = i - 1
          /\ Cardinality(Below(f[j])) = j - 1
      BY <1>8
    <3>2. i - 1 # j - 1
      BY <1>1, <1>10
    <3> HIDE DEF Below, f, n
    <3> QED BY <3>1, <3>2
  <2>3. CASE f[j] < f[i]
    <3>1. Cardinality(Below(f[j])) < Cardinality(Below(f[i]))
      BY <1>3, <1>8, <2>3
    <3> HIDE DEF Below, f, n
    <3> QED BY <1>1, <1>8, <1>10, <3>1
  <2> HIDE DEF f
  <2> QED BY <2>1, <2>2, <2>3
<1>11. ASSUME NEW s \in S PROVE \E i \in 1..n : f[i] = s
  <2>1. rank[s] \in 1..n /\ rank[s] = Cardinality(Below(s)) + 1
    BY <1>5
  <2>2. PICK i : i = rank[s]
    OBVIOUS
  <2> HIDE DEF f, n
  <2>3. i \in 1..n /\ f[i] \in S /\ Cardinality(Below(f[i])) = i - 1
    BY <1>8, <2>1, <2>2
  <2>4. rank[f[i]] = Cardinality(Below(f[i])) + 1
    BY <2>3
  <2> HIDE DEF Below, rank
  <2>5. rank[f[i]] = rank[s]
    BY <1>1, <2>2, <2>3, <2>4
  <2> QED BY <1>4, <2>3, <2>5
<1> HIDE DEF f
<1> QED BY <1>1, <1>9, <1>10, <1>11 DEF f

(* The elements of a sequence, ... *)
Elements(s) == {s[i] : i \in DOMAIN s}

(* ... of one after another, ... *)
LEMMA ElementsJoined ==
  ASSUME NEW X, NEW s \in Seq(X), NEW t \in Seq(X)
  PROVE  s \o t \in Seq(X) /\ Elements(s \o t) = Elements(s) \cup Elements(t)
<1> DEFINE u == s \o t
           m == Len(s)
           n == Len(t)
<1>1. /\ m \in Nat /\ n \in Nat /\ DOMAIN s = 1..m /\ DOMAIN t = 1..n
      /\ u \in Seq(X) /\ DOMAIN u = 1..(m + n)
      /\ \A i \in 1..(m + n) : u[i] = IF i <= m THEN s[i] ELSE t[i - m]
  OBVIOUS
<1> HIDE DEF u, m, n
<1>2. \A i \in 1..m : i \in 1..(m + n) /\ u[i] = s[i]
  BY <1>1
<1>3. \A i \in 1..n : m + i \in 1..(m + n) /\ u[m + i] = t[i]
  BY <1>1
<1>4. \A i \in 1..(m + n) : i \in 1..m \/ i - m \in 1..n
  BY <1>1
<1>5. \A x \in Elements(s) : x \in Elements(u)
  BY <1>1, <1>2 DEF Elements
<1>6. \A x \in Elements(t) : x \in Elements(u)
  <2> SUFFICES ASSUME NEW i \in 1..n PROVE t[i] \in Elements(u)
    BY <1>1 DEF Elements
  <2>1. m + i \in DOMAIN u /\ u[m + i] = t[i]
    BY <1>1, <1>3
  <2> QED BY <2>1 DEF Elements
<1>7. \A x \in Elements(u) : x \in Elements(s) \cup Elements(t)
  <2> SUFFICES ASSUME NEW i \in 1..(m + n) PROVE u[i] \in Elements(s) \cup Elements(t)
    BY <1>1 DEF Elements
  <2>1. CASE i \in 1..m
    BY <1>1, <1>2, <2>1 DEF Elements
  <2>2. CASE i \notin 1..m
    <3>1. i - m \in DOMAIN t
      BY <1>1, <1>4, <2>2
    <3>2. u[i] = t[i - m]
      BY <1>1, <2>2
    <3> QED BY <3>1, <3>2 DEF Elements
  <2> QED BY <2>1, <2>2
<1> QED BY <1>1, <1>5, <1>6, <1>7 DEF u

(* ... and of the first and the rest. *)
LEMMA ElementsSplit ==
  ASSUME NEW X, NEW s \in Seq(X), s # <<>>
  PROVE  /\ Head(s) \in X /\ Tail(s) \in Seq(X)
         /\ Elements(s) = {Head(s)} \cup Elements(Tail(s))
<1> DEFINE t == Tail(s)
           n == Len(s)
<1>1. /\ n \in Nat /\ n >= 1 /\ DOMAIN s = 1..n /\ Head(s) = s[1] /\ s[1] \in X
      /\ t \in Seq(X) /\ DOMAIN t = 1..(n - 1)
      /\ \A i \in 1..(n - 1) : t[i] = s[i + 1]
  OBVIOUS
<1> HIDE DEF t, n
<1>2. \A i \in 1..n : i = 1 \/ (i - 1 \in 1..(n - 1) /\ t[i - 1] = s[i])
  <2> TAKE i \in 1..n
  <2>1. CASE i # 1
    <3>1. i - 1 \in 1..(n - 1) /\ i - 1 + 1 = i
      BY <1>1, <2>1
    <3> QED BY <1>1, <3>1
  <2> QED BY <2>1
<1>3. \A i \in 1..(n - 1) : i + 1 \in 1..n /\ t[i] = s[i + 1]
  BY <1>1
<1>4. 1 \in 1..n
  BY <1>1
<1>5. \A x \in Elements(s) : x = s[1] \/ x \in Elements(t)
  <2> SUFFICES ASSUME NEW i \in 1..n, i # 1 PROVE s[i] \in Elements(t)
    BY <1>1 DEF Elements
  <2>1. i - 1 \in DOMAIN t /\ t[i - 1] = s[i]
    BY <1>1, <1>2
  <2> QED BY <2>1 DEF Elements
<1>6. \A x \in Elements(t) : x \in Elements(s)
  <2> SUFFICES ASSUME NEW i \in 1..(n - 1) PROVE t[i] \in Elements(s)
    BY <1>1 DEF Elements
  <2>1. i + 1 \in DOMAIN s /\ t[i] = s[i + 1]
    BY <1>1, <1>3
  <2> QED BY <2>1 DEF Elements
<1>7. s[1] \in Elements(s)
  BY <1>1, <1>4 DEF Elements
<1>8. Elements(s) = {s[1]} \cup Elements(t)
  BY <1>5, <1>6, <1>7
<1> QED BY <1>1, <1>8 DEF t

(* What is left of a sequence is what is not taken away, in its order.     *)
LEMMA WithoutIs ==
  ASSUME NEW X, NEW s \in Seq(X), NEW T
  PROVE  /\ Without(s, T) \in Seq(X)
         /\ Elements(Without(s, T)) = Elements(s) \ T
<1> DEFINE S == {k \in DOMAIN s : s[k] \notin T}
           o == InOrder(S)
           w == Without(s, T)
           n == Cardinality(S)
<1>1. S \in SUBSET Int /\ IsFiniteSet(S)
  <2>1. Len(s) \in Nat /\ DOMAIN s = 1..Len(s)
    OBVIOUS
  <2>2. 1 \in Int /\ Len(s) \in Int
    BY <2>1
  <2>3. IsFiniteSet(1..Len(s))
    BY ONLY <2>2, FS_Interval
  <2> QED BY <2>1, <2>3, FS_Subset
<1>2. /\ n \in Nat /\ o \in [1..n -> S]
      /\ \A k \in S : \E i \in 1..n : o[i] = k
  <2> HIDE DEF S
  <2> QED BY <1>1, InOrderIs
<1>3. w = [i \in DOMAIN o |-> s[o[i]]]
  BY DEF Without
<1> HIDE DEF o, w, n
<1>4. DOMAIN o = 1..n
  BY <1>2
<1>5. DOMAIN w = 1..n /\ \A i \in 1..n : w[i] = s[o[i]]
  BY <1>3, <1>4
<1>6. \A i \in 1..n : w[i] \in X /\ w[i] \notin T /\ \E k \in DOMAIN s : w[i] = s[k]
  BY <1>2, <1>5
<1>7. w \in Seq(X)
  <2>1. w \in [1..n -> X]
    BY <1>3, <1>4, <1>5, <1>6
  <2> QED BY <1>2, <2>1
<1>8. \A k \in DOMAIN s : s[k] \in T \/ \E i \in 1..n : w[i] = s[k]
  BY <1>2, <1>5
<1>9. {w[i] : i \in DOMAIN w} = {s[k] : k \in DOMAIN s} \ T
  <2>1. \A x \in {w[i] : i \in DOMAIN w} : x \in {s[k] : k \in DOMAIN s} \ T
    BY <1>5, <1>6
  <2>2. \A x \in {s[k] : k \in DOMAIN s} \ T : x \in {w[i] : i \in DOMAIN w}
    BY <1>5, <1>8
  <2> QED BY <2>1, <2>2
<1> QED BY <1>7, <1>9 DEF w, Elements

(* Sequences of numbers that increase. *)
Increasing(q) == \A i, j \in DOMAIN q : i < j => q[i] < q[j]

(* A part of a sequence has no others of its elements, in no other order.  *)
LEMMA PartIs ==
  ASSUME NEW X, NEW s \in Seq(X), NEW a \in Nat \ {0}, NEW b \in Nat, b <= Len(s)
  PROVE  /\ SubSeq(s, a, b) \in Seq(X)
         /\ DOMAIN SubSeq(s, a, b) = 1..(b - a + 1)
         /\ \A i \in 1..(b - a + 1) :
              i + a - 1 \in DOMAIN s /\ SubSeq(s, a, b)[i] = s[i + a - 1]
<1> DEFINE r == SubSeq(s, a, b)
           n == b - a + 1
<1>1. Len(s) \in Nat /\ DOMAIN s = 1..Len(s) /\ n \in Int
  OBVIOUS
<1>2. r = [i \in 1..n |-> s[a + i - 1]]
  OBVIOUS
<1> HIDE DEF r
<1>3. ASSUME NEW i \in 1..n PROVE i + a - 1 \in DOMAIN s /\ r[i] = s[i + a - 1]
  <2>1. i + a - 1 \in 1..Len(s) /\ a + i - 1 = i + a - 1
    BY <1>1
  <2> QED BY <1>1, <1>2, <2>1
<1>4. r \in Seq(X)
  <2>1. r \in [1..n -> X]
    BY <1>1, <1>2, <1>3
  <2>2. CASE n >= 0
    <3>1. n \in Nat
      BY <1>1, <2>2
    <3> HIDE DEF n
    <3> QED BY <2>1, <3>1
  <2>3. CASE n < 0
    <3>1. 1..n = 1..0
      BY <1>1, <2>3
    <3>2. r \in [1..0 -> X]
      <4> HIDE DEF n
      <4> QED BY <2>1, <3>1
    <3>3. r \in UNION {[1..k -> X] : k \in Nat}
      BY <3>2
    <3> QED BY <3>3
  <2> QED BY <1>1, <2>2, <2>3
<1> HIDE DEF n
<1> QED BY <1>2, <1>3, <1>4 DEF r, n

LEMMA PartIncreases ==
  ASSUME NEW X, NEW s \in Seq(X), NEW a \in Nat \ {0}, NEW b \in Nat, b <= Len(s)
  PROVE  /\ Elements(SubSeq(s, a, b)) \subseteq Elements(s)
         /\ Increasing(s) => Increasing(SubSeq(s, a, b))
<1> DEFINE r == SubSeq(s, a, b)
           n == b - a + 1
<1>1. /\ DOMAIN r = 1..n
      /\ \A i \in 1..n : i + a - 1 \in DOMAIN s /\ r[i] = s[i + a - 1]
  BY PartIs
<1> HIDE DEF r, n
<1>2. Elements(r) \subseteq Elements(s)
  BY <1>1 DEF Elements
<1>3. ASSUME Increasing(s), NEW i \in 1..n, NEW j \in 1..n, i < j PROVE r[i] < r[j]
  <2>1. i + a - 1 < j + a - 1
    BY <1>3
  <2> QED BY <1>1, <1>3, <2>1 DEF Increasing
<1> QED BY <1>1, <1>2, <1>3 DEF r, Increasing

LEMMA JoinIncreases ==
  ASSUME NEW X \in SUBSET Nat, NEW s \in Seq(X), NEW t \in Seq(X),
         Increasing(s), Increasing(t), \A x \in Elements(s), y \in Elements(t) : x < y
  PROVE  Increasing(s \o t)
<1> DEFINE u == s \o t
           m == Len(s)
           n == Len(t)
<1>1. /\ m \in Nat /\ n \in Nat /\ DOMAIN s = 1..m /\ DOMAIN t = 1..n
      /\ DOMAIN u = 1..(m + n)
      /\ \A i \in 1..(m + n) : u[i] = IF i <= m THEN s[i] ELSE t[i - m]
  OBVIOUS
<1> HIDE DEF u, m, n
<1>2. SUFFICES ASSUME NEW i \in 1..(m + n), NEW j \in 1..(m + n), i < j
               PROVE  u[i] < u[j]
  BY <1>1 DEF u, Increasing
<1>3. CASE j <= m
  <2>1. i \in 1..m /\ j \in 1..m
    BY <1>1, <1>2, <1>3
  <2> QED BY <1>1, <1>2, <2>1 DEF Increasing
<1>4. CASE i <= m /\ j > m
  <2>1. i \in 1..m /\ j - m \in 1..n
    BY <1>1, <1>4
  <2>2. s[i] \in Elements(s) /\ t[j - m] \in Elements(t)
    BY <1>1, <2>1 DEF Elements
  <2>3. u[i] = s[i] /\ u[j] = t[j - m]
    BY <1>1, <1>4
  <2> QED BY <2>2, <2>3
<1>5. CASE i > m
  <2>1. i - m \in 1..n /\ j - m \in 1..n /\ i - m < j - m
    BY <1>1, <1>2, <1>5
  <2>2. u[i] = t[i - m] /\ u[j] = t[j - m]
    BY <1>1, <1>2, <1>5
  <2> QED BY <1>1, <2>1, <2>2 DEF Increasing
<1> QED BY <1>1, <1>3, <1>4, <1>5

-----------------------------------------------------------------------------
(* What a station sees of its alerts (StationAlerts). *)

LEMMA StationInOrder == \A S : Station!InOrder(S) = InOrder(S)
BY Zenon DEF Station!InOrder, InOrder, Station!Cardinality, Cardinality

LEMMA StationWithout == \A s, T : Station!Without(s, T) = Without(s, T)
BY StationInOrder DEF Station!Without, Without

LEMMA StationMax ==
  ASSUME NEW T \in SUBSET Int, IsFiniteSet(T), T # {}
  PROVE  Station!Max(T) \in T
BY GreatestOf DEF Station!Max

(* The server's answer is a sequence of alerts. *)
LEMMA SnapshotTyped ==
  ASSUME StationConstants, Station!TypeOK, NEW units \in SUBSET Unit
  PROVE  Station!Snapshot(units) \in Seq(Station!Alert)
<1> DEFINE called == {d \in Incident : Station!On(d, units) # {}}
           alerts == {Station!AlertOf(c, units) : c \in called}
           T == {a.at : a \in alerts}
           o == InOrder(T)
           n == Cardinality(T)
           times == Station!Reverse(o)
<1>1. MaxAssign \in Nat /\ l_since \in [Incident -> [Unit -> 0..MaxAssign]]
  BY DEF StationConstants, Station!TypeOK
<1>2. ASSUME NEW c \in called PROVE Station!AlertOf(c, units) \in Station!Alert
  <2> DEFINE on == Station!On(c, units)
             S == {l_since[c][u] : u \in on}
  <2>1. on \subseteq units /\ on # {} /\ c \in Incident
    BY DEF Station!On
  <2>2. \A u \in on : l_since[c][u] \in 1..MaxAssign
    BY <1>1, <2>1 DEF Station!On
  <2>3. S \in SUBSET (1..MaxAssign) /\ S # {}
    <3> HIDE DEF on
    <3> QED BY <2>1, <2>2
  <2>4. IsFiniteSet(1..MaxAssign)
    <3>1. 1 \in Int /\ MaxAssign \in Int
      BY <1>1
    <3> QED BY ONLY <3>1, FS_Interval
  <2>5. Station!Max(S) \in S
    <3> HIDE DEF S
    <3>1. S \in SUBSET Int
      BY <2>3
    <3>2. IsFiniteSet(S)
      BY <2>3, <2>4, FS_Subset
    <3> QED BY <2>3, <3>1, <3>2, StationMax
  <2>6. Station!Max(S) \in 1..MaxAssign
    BY <2>3, <2>5
  <2>7. Station!AlertOf(c, units) = [call |-> c, units |-> on, at |-> Station!Max(S)]
    BY DEF Station!AlertOf
  <2>8. on \in SUBSET Unit
    BY <2>1
  <2> HIDE DEF on, S
  <2> QED BY <2>1, <2>6, <2>7, <2>8 DEF Station!Alert
<1>3. \A a \in alerts : a \in Station!Alert
  <2> HIDE DEF called
  <2> QED BY <1>2
<1>4. \A a \in Station!Alert : a.at \in 1..MaxAssign
  BY DEF Station!Alert
<1> HIDE DEF alerts, called
<1>5. T \in SUBSET Int /\ IsFiniteSet(T)
  <2>1. T \in SUBSET (1..MaxAssign)
    BY <1>3, <1>4
  <2>2. IsFiniteSet(1..MaxAssign)
    <3>1. 1 \in Int /\ MaxAssign \in Int
      BY <1>1
    <3> QED BY ONLY <3>1, FS_Interval
  <2> HIDE DEF T
  <2>3. IsFiniteSet(T)
    BY <2>1, <2>2, FS_Subset
  <2> QED BY <2>1, <2>3
<1>6. n \in Nat /\ o \in [1..n -> T]
  <2> HIDE DEF T
  <2> QED BY <1>5, InOrderIs
<1>7. Station!Snapshot(units)
        = [i \in DOMAIN times |-> CHOOSE a \in alerts : a.at = times[i]]
  <2> HIDE DEF T, o, n, times
  <2>1. Station!InOrder(T) = o
    BY StationInOrder DEF o
  <2>2. Station!Snapshot(units)
          = [i \in DOMAIN Station!Reverse(Station!InOrder(T)) |->
               CHOOSE a \in alerts : a.at = Station!Reverse(Station!InOrder(T))[i]]
    BY Zenon DEF Station!Snapshot, alerts, called, T
  <2> QED BY <2>1, <2>2, Zenon DEF times
<1>8. DOMAIN times = 1..n /\ \A i \in 1..n : times[i] \in T
  <2> HIDE DEF T, o, n
  <2>1. Len(o) = n
    BY <1>6
  <2>2. times = [i \in 1..n |-> o[n - i + 1]]
    BY <2>1 DEF Station!Reverse
  <2>3. \A i \in 1..n : n - i + 1 \in 1..n
    BY <1>6
  <2> HIDE DEF times
  <2> QED BY <1>6, <2>2, <2>3
<1> HIDE DEF times
<1>9. \A i \in 1..n : \E a \in alerts : a.at = times[i]
  BY <1>8
<1>10. \A i \in 1..n : (CHOOSE a \in alerts : a.at = times[i]) \in Station!Alert
  BY <1>3, <1>9
<1> HIDE DEF n, T
<1>11. Station!Snapshot(units) \in [1..n -> Station!Alert]
  BY <1>7, <1>8, <1>10
<1> QED BY <1>6, <1>11

LEMMA StationBegins == StationConstants /\ Station!Init => Station!TypeOK
<1> SUFFICES ASSUME StationConstants, Station!Init PROVE Station!TypeOK
  OBVIOUS
<1>1. <<>> \in Seq(Station!Alert)
  OBVIOUS
<1>2. l_since \in [Incident -> [Unit -> 0..MaxAssign]] /\ l_clock \in 0..MaxAssign
  BY DEF Station!Init, StationConstants
<1> QED BY <1>1, <1>2 DEF Station!Init, Station!TypeOK, StationConstants

(* What an answer brings that the page has not seen is put on the screen   *)
(* or in the queue, where what was there stays.                            *)
LEMMA DeliverHolds ==
  ASSUME StationConstants, Station!TypeOK, NEW alerts \in l_answers,
         Station!Deliver(alerts)
  PROVE  /\ Station!TypeOK'
         /\ (Station!Held \cup Station!Found) \ Station!Held' \subseteq {l_shown}
<1> DEFINE A == Station!Alert
           new == Station!Without(alerts, l_seen)
           came == Elements(alerts)
<1>1. /\ l_pending \in Seq(A) /\ l_due \in Seq(A) /\ alerts \in Seq(A)
      /\ l_seen \subseteq A /\ l_shown \in A \cup {Station!Test, NoAlert}
  BY DEF Station!TypeOK
<1>2. /\ new \in Seq(A)
      /\ Elements(new) = came \ l_seen
  <2> HIDE DEF A
  <2>1. new = Without(alerts, l_seen)
    BY StationWithout
  <2> HIDE DEF new
  <2> QED BY <1>1, <2>1, WithoutIs
<1>3. /\ l_first' = FALSE /\ l_seen' = l_seen \cup came
      /\ l_answers' = l_answers \ {alerts} /\ l_asked' = l_asked
      /\ UNCHANGED <<l_since, l_clock, l_chosen, l_choices, l_due>>
      /\ IF l_first \/ new = <<>> THEN UNCHANGED <<l_pending, l_shown>>
         ELSE IF l_shown # NoAlert
                THEN l_pending' = l_pending \o new /\ UNCHANGED l_shown
                ELSE l_pending' = l_pending \o Tail(new) /\ l_shown' = Head(new)
  BY Zenon DEF Station!Deliver, Station!Queued, Station!world, Station!Range, Elements
<1>4. came \subseteq A
  BY <1>1 DEF Elements
<1>5. Station!Found = IF l_first THEN {} ELSE came \ l_seen
  <2>1. (l_seen \cup came) \ l_seen = came \ l_seen
    OBVIOUS
  <2> QED BY <1>3, <2>1 DEF Station!Found
<1> HIDE DEF A, new, came
<1>6. Station!Held = ({l_shown} \cup Elements(l_pending) \cup Elements(l_due)) \cap A
  BY DEF Station!Held, Station!Range, Elements, A
<1>7. Station!Held' = ({l_shown'} \cup Elements(l_pending') \cup Elements(l_due)) \cap A
  BY <1>3 DEF Station!Held, Station!Range, Elements, A
<1>8. CASE l_first \/ new = <<>>
  <2>1. Station!Held' = Station!Held
    BY <1>3, <1>6, <1>7, <1>8
  <2>2. Station!Found = {}
    <3>1. new = <<>> => Elements(new) = {}
      BY DEF Elements
    <3> QED BY <1>2, <1>5, <1>8, <3>1
  <2>3. Station!TypeOK'
    BY <1>1, <1>3, <1>4, <1>8 DEF Station!TypeOK, A
  <2> QED BY <2>1, <2>2, <2>3
<1>9. CASE ~l_first /\ new # <<>> /\ l_shown # NoAlert
  <2>1. l_pending' = l_pending \o new /\ l_shown' = l_shown
    BY <1>3, <1>9
  <2>2. /\ l_pending' \in Seq(A)
        /\ Elements(l_pending') = Elements(l_pending) \cup Elements(new)
    BY <1>1, <1>2, <2>1, ElementsJoined
  <2>3. Station!TypeOK'
    BY <1>1, <1>3, <1>4, <2>1, <2>2 DEF Station!TypeOK, A
  <2> QED BY <1>2, <1>4, <1>5, <1>6, <1>7, <2>1, <2>2, <2>3
<1>10. CASE ~l_first /\ new # <<>> /\ l_shown = NoAlert
  <2>1. l_pending' = l_pending \o Tail(new) /\ l_shown' = Head(new)
    BY <1>3, <1>10
  <2>2. /\ Head(new) \in A /\ Tail(new) \in Seq(A)
        /\ Elements(new) = {Head(new)} \cup Elements(Tail(new))
    BY <1>2, <1>10, ElementsSplit
  <2>3. /\ l_pending' \in Seq(A)
        /\ Elements(l_pending') = Elements(l_pending) \cup Elements(Tail(new))
    <3>1. PICK rest : rest = Tail(new)
      OBVIOUS
    <3>2. rest \in Seq(A) /\ l_pending \in Seq(A)
      BY <1>1, <2>2, <3>1
    <3>3. /\ l_pending \o rest \in Seq(A)
          /\ Elements(l_pending \o rest) = Elements(l_pending) \cup Elements(rest)
      BY ONLY <3>2, ElementsJoined
    <3>4. l_pending' = l_pending \o rest
      BY <2>1, <3>1
    <3> QED BY <3>1, <3>3, <3>4, Zenon
  <2>4. Station!TypeOK'
    BY <1>1, <1>3, <1>4, <2>1, <2>2, <2>3 DEF Station!TypeOK, A
  <2> QED BY <1>2, <1>4, <1>5, <1>6, <1>7, <2>1, <2>2, <2>3, <2>4
<1> QED BY <1>8, <1>9, <1>10

LEMMA AcknowledgeHolds ==
  ASSUME StationConstants, Station!TypeOK, Station!Acknowledge
  PROVE  /\ Station!TypeOK'
         /\ Station!Found = {} /\ Station!Held \ Station!Held' \subseteq {l_shown}
<1> DEFINE A == Station!Alert
<1>1. l_pending \in Seq(A) /\ l_due \in Seq(A)
  BY DEF Station!TypeOK
<1>2. /\ l_shown' = NoAlert
      /\ UNCHANGED <<l_since, l_clock, l_chosen, l_choices, l_first, l_seen, l_asked,
                     l_answers>>
      /\ IF l_pending = <<>> THEN UNCHANGED <<l_pending, l_due>>
         ELSE l_pending' = Tail(l_pending) /\ l_due' = Append(l_due, Head(l_pending))
  BY DEF Station!Acknowledge, Station!world, Station!polls
<1>3. Station!Found = {}
  BY <1>2 DEF Station!Found
<1> HIDE DEF A
<1>4. /\ Station!Held = ({l_shown} \cup Elements(l_pending) \cup Elements(l_due)) \cap A
      /\ Station!Held' = ({l_shown'} \cup Elements(l_pending') \cup Elements(l_due')) \cap A
  BY DEF Station!Held, Station!Range, Elements, A
<1>5. CASE l_pending = <<>>
  <2>1. Station!TypeOK'
    BY <1>1, <1>2, <1>5 DEF Station!TypeOK, A
  <2> QED BY <1>2, <1>3, <1>4, <1>5, <2>1
<1>6. CASE l_pending # <<>>
  <2>1. /\ Head(l_pending) \in A /\ Tail(l_pending) \in Seq(A)
        /\ Elements(l_pending) = {Head(l_pending)} \cup Elements(Tail(l_pending))
    BY <1>1, <1>6, ElementsSplit
  <2>2. PICK a : a = Head(l_pending)
    OBVIOUS
  <2>3. /\ Append(l_due, a) \in Seq(A)
        /\ Elements(Append(l_due, a)) = Elements(l_due) \cup {a}
    <3>1. /\ Append(l_due, a) \in Seq(A)
          /\ DOMAIN l_due = 1..Len(l_due) /\ Len(l_due) \in Nat
          /\ DOMAIN Append(l_due, a) = 1..(Len(l_due) + 1)
          /\ Append(l_due, a)[Len(l_due) + 1] = a
          /\ \A i \in 1..Len(l_due) : Append(l_due, a)[i] = l_due[i]
      BY <1>1, <2>1, <2>2
    <3>2. Len(l_due) + 1 \in 1..(Len(l_due) + 1)
      BY <3>1
    <3>3. \A i \in 1..Len(l_due) : i \in 1..(Len(l_due) + 1)
      BY <3>1
    <3>4. \A i \in 1..(Len(l_due) + 1) : i \in 1..Len(l_due) \/ i = Len(l_due) + 1
      BY <3>1
    <3>5. \A x \in Elements(Append(l_due, a)) : x \in Elements(l_due) \cup {a}
      BY <3>1, <3>4 DEF Elements
    <3>6. \A x \in Elements(l_due) \cup {a} : x \in Elements(Append(l_due, a))
      BY <3>1, <3>2, <3>3 DEF Elements
    <3> QED BY <3>1, <3>5, <3>6
  <2>4. l_pending' = Tail(l_pending) /\ l_due' = Append(l_due, a)
    BY <1>2, <1>6, <2>2
  <2>5. Station!TypeOK'
    <3>1. l_pending' \in Seq(A) /\ l_due' \in Seq(A)
      BY <2>1, <2>3, <2>4
    <3> QED BY <1>2, <3>1 DEF Station!TypeOK, A
  <2> QED BY <1>2, <1>3, <1>4, <2>1, <2>2, <2>3, <2>4, <2>5
<1> QED BY <1>5, <1>6

LEMMA TimerHolds ==
  ASSUME StationConstants, Station!TypeOK, Station!TimerFires
  PROVE  /\ Station!TypeOK'
         /\ Station!Found = {} /\ Station!Held \ Station!Held' \subseteq {l_shown}
<1> DEFINE A == Station!Alert
<1>1. l_pending \in Seq(A) /\ l_due \in Seq(A)
  BY DEF Station!TypeOK
<1>2. /\ l_due # <<>> /\ l_shown' = Head(l_due) /\ l_due' = Tail(l_due)
      /\ UNCHANGED <<l_since, l_clock, l_chosen, l_choices, l_first, l_seen, l_pending,
                     l_asked, l_answers>>
  BY DEF Station!TimerFires, Station!world, Station!polls
<1>3. Station!Found = {}
  BY <1>2 DEF Station!Found
<1> HIDE DEF A
<1>4. /\ Station!Held = ({l_shown} \cup Elements(l_pending) \cup Elements(l_due)) \cap A
      /\ Station!Held' = ({l_shown'} \cup Elements(l_pending') \cup Elements(l_due')) \cap A
  BY DEF Station!Held, Station!Range, Elements, A
<1>5. /\ Head(l_due) \in A /\ Tail(l_due) \in Seq(A)
      /\ Elements(l_due) = {Head(l_due)} \cup Elements(Tail(l_due))
  BY <1>1, <1>2, ElementsSplit
<1>6. Station!TypeOK'
  BY <1>2, <1>5 DEF Station!TypeOK, A
<1> QED BY <1>2, <1>3, <1>4, <1>5, <1>6

(* The polls, the assignments and the test alert leave the alerts alone.   *)
LEMMA ElsewhereHolds ==
  ASSUME l_shown' = l_shown \/ l_shown = NoAlert,
         UNCHANGED <<l_pending, l_due, l_first, l_seen>>
  PROVE  Station!Found = {} /\ Station!Held \ Station!Held' \subseteq {l_shown}
<1> DEFINE A == Station!Alert
<1>1. Station!Found = {}
  BY DEF Station!Found
<1> HIDE DEF A
<1>2. /\ Station!Held = ({l_shown} \cup Elements(l_pending) \cup Elements(l_due)) \cap A
      /\ Station!Held' = ({l_shown'} \cup Elements(l_pending') \cup Elements(l_due')) \cap A
  BY DEF Station!Held, Station!Range, Elements, A
<1> QED BY <1>1, <1>2

LEMMA StationTypesElsewhere ==
  ASSUME StationConstants, Station!TypeOK
  PROVE  /\ \A c \in Incident, u \in Unit :
              Station!Assign(c, u) \/ Station!Clear(c, u) => Station!TypeOK'
         /\ \A units \in SUBSET Unit :
              Station!Choose(units) \/ Station!Serve(units) => Station!TypeOK'
         /\ Station!Poll \/ Station!PollFails \/ Station!TestAlert => Station!TypeOK'
<1> DEFINE A == Station!Alert
<1>1. /\ l_since \in [Incident -> [Unit -> 0..MaxAssign]] /\ l_clock \in 0..MaxAssign
      /\ l_chosen \subseteq Unit /\ l_choices \in 0..MaxChoices
      /\ l_first \in BOOLEAN /\ l_seen \subseteq A
      /\ l_pending \in Seq(A) /\ l_due \in Seq(A)
      /\ l_shown \in A \cup {Station!Test, NoAlert}
      /\ l_asked \subseteq SUBSET Unit /\ \A a \in l_answers : a \in Seq(A)
      /\ MaxAssign \in Nat /\ MaxChoices \in Nat
  BY DEF Station!TypeOK, StationConstants
<1>2. ASSUME NEW c \in Incident, NEW u \in Unit, Station!Assign(c, u)
      PROVE  Station!TypeOK'
  <2>1. /\ l_clock < MaxAssign /\ l_clock' = l_clock + 1
        /\ l_since' = [l_since EXCEPT ![c][u] = l_clock + 1]
    BY <1>2 DEF Station!Assign
  <2>2. l_clock' \in 0..MaxAssign
    BY <1>1, <2>1
  <2>3. l_since' \in [Incident -> [Unit -> 0..MaxAssign]]
    BY <1>1, <2>1, <2>2
  <2> QED BY <1>1, <1>2, <2>2, <2>3
          DEF Station!Assign, Station!TypeOK, Station!page, Station!polls
<1>3. ASSUME NEW c \in Incident, NEW u \in Unit, Station!Clear(c, u)
      PROVE  Station!TypeOK'
  <2>1. l_since' = [l_since EXCEPT ![c][u] = 0]
    BY <1>3 DEF Station!Clear
  <2>2. 0 \in 0..MaxAssign
    BY <1>1
  <2>3. l_since' \in [Incident -> [Unit -> 0..MaxAssign]]
    BY <1>1, <2>1, <2>2
  <2> QED BY <1>1, <1>3, <2>3
          DEF Station!Clear, Station!TypeOK, Station!page, Station!polls
<1>4. ASSUME NEW units \in SUBSET Unit, Station!Choose(units)
      PROVE  Station!TypeOK'
  <2>1. /\ l_choices < MaxChoices /\ l_choices' = l_choices + 1 /\ l_chosen' = units
        /\ l_first' = TRUE /\ l_seen' = {} /\ l_pending' = <<>>
        /\ l_asked' = l_asked \/ l_asked' = l_asked \cup {units}
        /\ UNCHANGED <<l_since, l_clock, l_shown, l_due, l_answers>>
    BY <1>4 DEF Station!Choose, Station!Ask, Station!world, Station!polls
  <2>2. l_choices' \in 0..MaxChoices
    BY <1>1, <2>1
  <2>3. <<>> \in Seq(A)
    OBVIOUS
  <2> QED BY <1>1, <2>1, <2>2, <2>3 DEF Station!TypeOK
<1>5. ASSUME NEW units \in SUBSET Unit, Station!Serve(units)
      PROVE  Station!TypeOK'
  <2>1. Station!Snapshot(units) \in Seq(A) /\ <<>> \in Seq(A)
    BY SnapshotTyped
  <2>2. PICK alerts \in {Station!Snapshot(units), <<>>} :
          l_answers' = l_answers \cup {alerts}
    BY <1>5 DEF Station!Serve
  <2>3. \A a \in l_answers' : a \in Seq(A)
    BY <1>1, <2>1, <2>2
  <2> QED BY <1>1, <1>5, <2>3
          DEF Station!Serve, Station!TypeOK, Station!page, Station!world
<1>6. ASSUME Station!Poll \/ Station!PollFails \/ Station!TestAlert
      PROVE  Station!TypeOK'
  <2>1. /\ UNCHANGED <<l_since, l_clock, l_chosen, l_choices, l_first, l_seen,
                       l_pending, l_due>>
        /\ l_shown' \in {l_shown, Station!Test}
        /\ l_asked' \subseteq l_asked \cup {l_chosen} /\ l_answers' \subseteq l_answers
    BY <1>6 DEF Station!Poll, Station!PollFails, Station!TestAlert, Station!Ask,
                Station!world, Station!page, Station!polls
  <2> QED BY <1>1, <2>1 DEF Station!TypeOK
<1> QED BY <1>2, <1>3, <1>4, <1>5, <1>6

LEMMA StationNext ==
  ASSUME StationConstants, Station!TypeOK, [Station!Next]_(Station!vars)
  PROVE  /\ Station!TypeOK'
         /\ \/ Station!Held \cup Station!Found \subseteq Station!Held' \cup {l_shown}
            \/ l_choices' # l_choices
<1> DEFINE Holds ==
             Station!Held \cup Station!Found \subseteq Station!Held' \cup {l_shown}
<1>1. CASE UNCHANGED Station!vars
  <2>1. UNCHANGED <<l_since, l_clock, l_chosen, l_choices, l_first, l_seen, l_pending,
                    l_due, l_shown, l_asked, l_answers>>
    BY <1>1 DEF Station!vars, Station!world, Station!page, Station!polls
  <2> QED BY <2>1, ElsewhereHolds DEF Station!TypeOK
<1>2. ASSUME NEW c \in Incident, NEW u \in Unit,
             Station!Assign(c, u) \/ Station!Clear(c, u)
      PROVE  Station!TypeOK' /\ Holds
  <2>1. UNCHANGED <<l_pending, l_due, l_first, l_seen, l_shown>>
    BY <1>2 DEF Station!Assign, Station!Clear, Station!page
  <2> QED BY <1>2, <2>1, ElsewhereHolds, StationTypesElsewhere
<1>3. ASSUME NEW units \in SUBSET Unit, Station!Serve(units)
      PROVE  Station!TypeOK' /\ Holds
  <2>1. UNCHANGED <<l_pending, l_due, l_first, l_seen, l_shown>>
    BY <1>3 DEF Station!Serve, Station!page
  <2> QED BY <1>3, <2>1, ElsewhereHolds, StationTypesElsewhere
<1>4. ASSUME NEW units \in SUBSET Unit, Station!Choose(units)
      PROVE  Station!TypeOK' /\ l_choices' # l_choices
  <2>1. l_choices' = l_choices + 1 /\ l_choices \in Nat
    BY <1>4 DEF Station!Choose, Station!TypeOK, StationConstants
  <2> QED BY <1>4, <2>1, StationTypesElsewhere
<1>5. ASSUME Station!Poll \/ Station!PollFails \/ Station!TestAlert
      PROVE  Station!TypeOK' /\ Holds
  <2>1. /\ UNCHANGED <<l_pending, l_due, l_first, l_seen>>
        /\ l_shown' = l_shown \/ l_shown = NoAlert
    BY <1>5 DEF Station!Poll, Station!PollFails, Station!TestAlert, Station!page
  <2> QED BY <1>5, <2>1, ElsewhereHolds, StationTypesElsewhere
<1>6. ASSUME NEW alerts \in l_answers, Station!Deliver(alerts)
      PROVE  Station!TypeOK' /\ Holds
  BY <1>6, DeliverHolds
<1>7. CASE Station!Acknowledge
  BY <1>7, AcknowledgeHolds
<1>8. CASE Station!TimerFires
  BY <1>8, TimerHolds
<1> HIDE DEF Holds
<1>9. CASE Station!Next
  BY <1>2, <1>3, <1>4, <1>5, <1>6, <1>7, <1>8, <1>9, Zenon DEF Station!Next, Holds
<1> QED BY <1>1, <1>9

LEMMA StationInvariant == Station!Spec => []Station!TypeOK
<1>1. Station!Init => Station!TypeOK
  BY StationAssumption, StationBegins
<1>2. Station!TypeOK /\ [Station!Next]_(Station!vars) => Station!TypeOK'
  BY StationAssumption, StationNext
<1> QED BY <1>1, <1>2, PTL DEF Station!Spec

(* No assignment gets lost on a station's page (baselineOrAlert, hideAlert *)
(* and its timer): a new alert comes to the screen or into the queue,      *)
(* which it leaves for the screen only, however polls and answers overlap. *)
THEOREM AlertsAreShown == Station!Spec => OnlyShownLeaves
<1>1. Station!TypeOK /\ [Station!Next]_(Station!vars)
      => [l_choices' = l_choices =>
           (Station!Held \cup Station!Found) \ Station!Held' \subseteq {l_shown}]_(Station!vars)
  BY StationAssumption, StationNext
<1> QED BY <1>1, StationInvariant, PTL DEF Station!Spec, OnlyShownLeaves, Station!OnlyShownLeaves

-----------------------------------------------------------------------------
(* The sound of the station alerts (StationSound). *)

(* The announcement is released after the tone has ended only. *)
SoundOK ==
  /\ Sound!TypeOK
  /\ s_release => ~s_tone
  /\ Sound!NoSpeechOverTone

LEMMA SoundNext == SoundOK /\ [Sound!Next]_(Sound!vars) => SoundOK'
<1> SUFFICES ASSUME SoundOK, [Sound!Next]_(Sound!vars) PROVE SoundOK'
  OBVIOUS
<1> USE DEF SoundOK, Sound!TypeOK, Sound!NoSpeechOverTone, Sound!Player
<1>1. CASE UNCHANGED Sound!vars
  BY <1>1 DEF Sound!vars
<1>2. ASSUME NEW announced \in BOOLEAN, Sound!Show(announced) PROVE SoundOK'
  BY <1>2 DEF Sound!Show, Sound!StartTone, Sound!NotReleased
<1>3. ASSUME NEW p \in Sound!Player, Sound!Started(p) PROVE SoundOK'
  BY <1>3 DEF Sound!Started
<1>4. ASSUME NEW p \in Sound!Player, Sound!Refused(p) PROVE SoundOK'
  BY <1>4 DEF Sound!Refused, Sound!Rejected, Sound!NoSpeech, Sound!NotReleased
<1>5. ASSUME NEW p \in Sound!Player, Sound!CutShort(p) PROVE SoundOK'
  BY <1>5 DEF Sound!CutShort, Sound!Rejected, Sound!NoSpeech, Sound!NotReleased
<1>6. CASE Sound!Hide
  BY <1>6 DEF Sound!Hide, Sound!StopTone, Sound!NoSpeech, Sound!NotReleased
<1>7. CASE Sound!TestAlert
  BY <1>7 DEF Sound!TestAlert, Sound!StartTone, Sound!NotReleased
<1>8. CASE Sound!Arm
  BY <1>8 DEF Sound!Arm
<1>9. CASE Sound!ToneEnds
  BY <1>9 DEF Sound!ToneEnds, Sound!Speak, Sound!Audible
<1>10. CASE Sound!SpeechComes
  <2>1. CASE Sound!Audible /\ s_release
    BY <1>10, <2>1 DEF Sound!SpeechComes, Sound!Speak
  <2>2. CASE ~(Sound!Audible /\ s_release)
    BY <1>10, <2>2 DEF Sound!SpeechComes, Sound!Audible
  <2> QED BY <2>1, <2>2
<1>11. CASE Sound!SpeechFails
  BY <1>11 DEF Sound!SpeechFails
<1>12. CASE Sound!SpeechEnds
  BY <1>12 DEF Sound!SpeechEnds, Sound!NoSpeech, Sound!NotReleased
<1> QED BY <1>1, <1>2, <1>3, <1>4, <1>5, <1>6, <1>7, <1>8, <1>9, <1>10, <1>11, <1>12
        DEF Sound!Next

LEMMA SoundInvariant == Sound!Spec => []SoundOK
<1>1. Sound!Init => SoundOK
  BY DEF Sound!Init, SoundOK, Sound!TypeOK, Sound!NoSpeechOverTone, Sound!Player
<1> QED BY <1>1, SoundNext, PTL DEF Sound!Spec

(* Announcements never overlap the paging tone (playDispatchTone,          *)
(* releasePreparedAnnouncement), whenever they are ready and whichever     *)
(* player is refused.                                                      *)
THEOREM SpeechWaitsForTone == Sound!Spec => []NoSpeechOverTone
<1>1. SoundOK => Sound!NoSpeechOverTone
  BY DEF SoundOK
<1> QED BY <1>1, SoundInvariant, PTL DEF NoSpeechOverTone

-----------------------------------------------------------------------------
(* The radio page that plays new calls (RadioScanner). *)

(* The newest page of a tab, of the calls stored. *)
PageOf(stored, t) ==
  {s \in stored \cap ListedIn[t] :
     Cardinality({u \in stored \cap ListedIn[t] : u > s}) < FeedPage}

(* Calls are stored in the order of their numbers, ...                     *)
CallsOK ==
  /\ IsFiniteSet(f_stored) /\ f_stored \subseteq RadioCall
  /\ \A s \in f_stored : 1..s \subseteq f_stored
  /\ f_before \subseteq f_stored /\ f_active \in RadioTab
  /\ f_on \in BOOLEAN /\ f_blocked \in BOOLEAN
  /\ f_foreign \in BOOLEAN /\ f_expired \in BOOLEAN

(* ... a tab asks for the newest only when it has a list, ...              *)
ListsOK ==
  /\ f_loaded \in [RadioTab -> BOOLEAN] /\ f_quiet \in [RadioTab -> BOOLEAN]
  /\ f_shown \in [RadioTab -> SUBSET f_stored]
  /\ \A t \in RadioTab : f_shown[t] \subseteq ListedIn[t]
  /\ f_ask \in [RadioTab -> {"no", "first", "newest"}]
  /\ \A t \in RadioTab : f_ask[t] = "newest" => f_loaded[t]

(* ... the scanner plays no noise, ...                                     *)
PlaysOK ==
  /\ f_current # NoCall => f_current \in Scanner!Card /\ f_current.call \in f_stored
  /\ f_promise \in {"no", "auto", "person"}
  /\ f_promise # "no" => f_current # NoCall
  /\ f_promise = "auto" => f_current.call \notin NoiseCalls

WaitsOK == f_queue \in Seq(f_stored \ NoiseCalls) /\ f_last \in f_stored \cup {0}

(* ... does not sleep while a call waits, ...                              *)
AwakeOK == f_on /\ ~f_blocked /\ f_queue # <<>> => f_current # NoCall \/ f_expired

(* ... and what the list of the tab has not got yet is newer than all that *)
(* waits or has played last, ...                                           *)
Past == {f_last} \cup Elements(f_queue)
NewOn(t) == PageOf(f_stored, t) \ f_shown[t]
LineOK ==
  \/ f_foreign
  \/ /\ Increasing(f_queue) /\ \A q \in Elements(f_queue) : f_last < q
     /\ Past \cap f_before = {}
     /\ f_loaded[f_active] => \A s \in NewOn(f_active), q \in Past : q < s

(* ... and came after the scanner began to listen, unless the next refresh *)
(* is a quiet one.                                                         *)
HearsOK ==
  f_on /\ f_loaded[f_active] /\ ~f_quiet[f_active] => NewOn(f_active) \cap f_before = {}

ScannerOK == CallsOK /\ ListsOK /\ PlaysOK /\ WaitsOK /\ AwakeOK /\ LineOK /\ HearsOK

LEMMA ScannerPage == \A t : Scanner!Page(t) = PageOf(f_stored, t)
BY Zenon DEF Scanner!Page, PageOf, Scanner!Cardinality, Cardinality

LEMMA ScannerInOrder == \A S : Scanner!InOrder(S) = InOrder(S)
BY Zenon DEF Scanner!InOrder, InOrder, Scanner!Cardinality, Cardinality

LEMMA ScannerMin ==
  ASSUME NEW T \in SUBSET Int, IsFiniteSet(T), T # {}
  PROVE  Scanner!Min(T) \in T
BY LeastOf DEF Scanner!Min

LEMMA ScannerMax ==
  ASSUME NEW T \in SUBSET Int, IsFiniteSet(T), T # {}
  PROVE  Scanner!Max(T) \in T /\ \A m \in T : Scanner!Max(T) >= m
BY GreatestOf DEF Scanner!Max

(* Whatever starts next is one of those that waited, and those behind it   *)
(* wait on.                                                                *)
LEMMA PumpIs ==
  ASSUME CallsOK, WaitsOK, NEW q \in Seq(f_stored \ NoiseCalls), NEW cards,
         RadioCall \subseteq Nat \ {0}, NoCall \notin Scanner!Card,
         f_stored' = f_stored, f_on' = f_on, f_blocked' \in BOOLEAN, Scanner!Pump(q, cards)
  PROVE  /\ PlaysOK' /\ WaitsOK' /\ AwakeOK' /\ f_expired' \in BOOLEAN
         /\ Past' \subseteq {f_last} \cup Elements(q)
         /\ Increasing(q) => Increasing(f_queue')
         /\ Increasing(q) /\ (\A x \in Elements(q) : f_last < x)
              => \A x \in Elements(f_queue') : f_last' < x
<1> DEFINE X == f_stored \ NoiseCalls
           ready == {i \in DOMAIN q : q[i] \in cards}
<1>0. /\ X \subseteq f_stored /\ f_stored \subseteq Nat /\ q \in Seq(X)
      /\ Len(q) \in Nat /\ DOMAIN q = 1..Len(q)
      /\ \A i \in DOMAIN q : q[i] \in X /\ q[i] \in Elements(q)
  BY DEF CallsOK, Elements
<1>1. CASE ~f_on \/ f_blocked'
  <2>1. /\ f_queue' = q /\ f_current' = NoCall /\ f_promise' = "no"
        /\ f_last' = f_last /\ f_expired' = f_expired
    BY <1>1 DEF Scanner!Pump
  <2>2. PlaysOK' /\ AwakeOK' /\ f_expired' \in BOOLEAN
    BY <1>1, <2>1 DEF PlaysOK, AwakeOK, CallsOK
  <2>3. WaitsOK'
    BY <2>1 DEF WaitsOK
  <2> QED BY <2>1, <2>2, <2>3 DEF Past
<1>2. CASE ~(~f_on \/ f_blocked') /\ ready = {}
  <2>1. /\ f_queue' = <<>> /\ f_current' = NoCall /\ f_promise' = "no"
        /\ f_last' = f_last /\ f_expired' = FALSE
    BY <1>2 DEF Scanner!Pump
  <2>2. Elements(<<>>) = {} /\ Increasing(<<>>) /\ <<>> \in Seq(X)
    BY DEF Elements, Increasing
  <2>3. PlaysOK' /\ AwakeOK' /\ WaitsOK'
    BY <2>1, <2>2 DEF PlaysOK, AwakeOK, WaitsOK
  <2> QED BY <2>1, <2>2, <2>3 DEF Past
<1>3. CASE ~(~f_on \/ f_blocked') /\ ready # {}
  <2> DEFINE i == Scanner!Min(ready)
  <2>1. i \in ready
    <3>1. ready \in SUBSET (1..Len(q))
      BY <1>0
    <3>2. IsFiniteSet(1..Len(q))
      <4>1. 1 \in Int /\ Len(q) \in Int
        BY <1>0
      <4> QED BY ONLY <4>1, FS_Interval
    <3> HIDE DEF ready
    <3>3. IsFiniteSet(ready)
      BY <3>1, <3>2, FS_Subset
    <3>4. ready \in SUBSET Int
      BY <1>0, <3>1
    <3> QED BY <1>3, <3>3, <3>4, ScannerMin
  <2>2. /\ f_expired' = FALSE
        /\ f_queue' = SubSeq(q, i + 1, Len(q)) /\ f_last' = q[i]
        /\ f_promise' = "auto"
        /\ f_current' = [call |-> q[i], tab |-> f_active, state |-> "loading", here |-> TRUE]
    BY <1>3, Zenon DEF Scanner!Pump, Scanner!Load
  <2> HIDE DEF i
  <2>3. i \in 1..Len(q) /\ q[i] \in X /\ q[i] \in cards
    BY <1>0, <2>1
  <2> DEFINE r == SubSeq(q, i + 1, Len(q))
             n == Len(q) - (i + 1) + 1
  <2>4. i + 1 \in Nat \ {0} /\ Len(q) \in Nat /\ Len(q) <= Len(q)
    BY <1>0, <2>3
  <2>5. /\ r \in Seq(X) /\ DOMAIN r = 1..n
        /\ \A k \in 1..n : k + (i + 1) - 1 \in DOMAIN q /\ r[k] = q[k + (i + 1) - 1]
        /\ Elements(r) \subseteq Elements(q) /\ (Increasing(q) => Increasing(r))
    <3> HIDE DEF X
    <3>1. PICK a : a = i + 1
      OBVIOUS
    <3>2. PICK b : b = Len(q)
      OBVIOUS
    <3>3. /\ a \in Nat \ {0} /\ b \in Nat /\ b <= Len(q) /\ q \in Seq(X)
      BY <1>0, <2>4, <3>1, <3>2
    <3>4. /\ SubSeq(q, a, b) \in Seq(X) /\ DOMAIN SubSeq(q, a, b) = 1..(b - a + 1)
          /\ \A k \in 1..(b - a + 1) :
               k + a - 1 \in DOMAIN q /\ SubSeq(q, a, b)[k] = q[k + a - 1]
      BY <3>3, PartIs
    <3>5. /\ Elements(SubSeq(q, a, b)) \subseteq Elements(q)
          /\ Increasing(q) => Increasing(SubSeq(q, a, b))
      BY <3>3, PartIncreases
    <3> QED BY <3>1, <3>2, <3>4, <3>5, Zenon
  <2> HIDE DEF r
  <2>6. ASSUME Increasing(q), NEW x \in Elements(r) PROVE q[i] < x
    <3>1. PICK k \in 1..n : x = r[k]
      BY <2>5, <2>6 DEF Elements
    <3>2. k + (i + 1) - 1 \in DOMAIN q /\ x = q[k + (i + 1) - 1]
      BY <2>5, <3>1
    <3>3. i < k + (i + 1) - 1
      BY <2>3, <3>1
    <3> QED BY <1>0, <1>3, <2>3, <2>6, <3>2, <3>3 DEF Increasing
  <2>7. q[i] \in f_stored /\ q[i] \in RadioCall /\ q[i] \notin NoiseCalls
    BY <2>3 DEF CallsOK
  <2>8. f_current' \in Scanner!Card /\ f_current'.call = q[i]
    BY <2>2, <2>7 DEF CallsOK, Scanner!Card
  <2>9. f_current' # NoCall
    BY <2>8
  <2>10. PlaysOK' /\ AwakeOK'
    BY <2>2, <2>7, <2>8, <2>9 DEF PlaysOK, AwakeOK
  <2>11. WaitsOK'
    BY <2>2, <2>5, <2>7 DEF WaitsOK, r
  <2>12. Past' \subseteq {f_last} \cup Elements(q)
    BY <1>0, <2>2, <2>3, <2>5 DEF Past, r
  <2>13. Increasing(q) => Increasing(f_queue')
    BY <2>2, <2>5 DEF r
  <2>14. Increasing(q) => \A x \in Elements(f_queue') : f_last' < x
    BY <2>2, <2>6 DEF r
  <2> QED BY <2>2, <2>10, <2>11, <2>12, <2>13, <2>14
<1> QED BY <1>1, <1>2, <1>3

(* What is new comes behind what waits, oldest first, and the oldest of    *)
(* too many are skipped.                                                   *)
LEMMA OfferedIs ==
  ASSUME CallsOK, WaitsOK, ScannerConstants, NEW S \in SUBSET (f_stored \ NoiseCalls)
  PROVE  LET q == Scanner!Offered(S) IN
         /\ q \in Seq(f_stored \ NoiseCalls)
         /\ Elements(q) \subseteq Elements(f_queue) \cup S
         /\ Increasing(f_queue) /\ (\A x \in Elements(f_queue), y \in S : x < y)
              => Increasing(q)
<1> DEFINE X == f_stored \ NoiseCalls
           o == InOrder(S)
           u == f_queue \o o
           n == Cardinality(S)
           skip == Scanner!Max({0, Len(u) - ScanQueue})
<1>1. /\ X \in SUBSET Nat /\ S \in SUBSET X /\ S \in SUBSET Int /\ IsFiniteSet(S)
      /\ f_queue \in Seq(X) /\ ScanQueue \in Nat
  <2>1. IsFiniteSet(f_stored) /\ S \in SUBSET f_stored
    BY DEF CallsOK
  <2>2. IsFiniteSet(S)
    BY <2>1, FS_Subset
  <2>3. f_stored \subseteq Nat
    BY DEF CallsOK, ScannerConstants
  <2>4. X \in SUBSET Nat /\ S \in SUBSET X
    BY <2>3
  <2>5. f_queue \in Seq(X) /\ ScanQueue \in Nat
    BY DEF WaitsOK, ScannerConstants
  <2>6. S \in SUBSET Int
    <3> HIDE DEF X
    <3> QED BY <2>4
  <2> QED BY <2>2, <2>4, <2>5, <2>6
<1>2. /\ n \in Nat /\ o \in [1..n -> S]
      /\ \A i, j \in 1..n : i < j => o[i] < o[j]
  <2> HIDE DEF X
  <2> QED BY <1>1, InOrderIs
<1>3. Scanner!Offered(S) = SubSeq(u, 1 + skip, Len(u))
  <2>1. Scanner!InOrder(S) = o
    BY ScannerInOrder
  <2> HIDE DEF o
  <2> QED BY <2>1 DEF Scanner!Offered
<1> HIDE DEF o, n, X
<1>4. /\ o \in Seq(X) /\ Elements(o) \subseteq S /\ Increasing(o)
  <2>1. o \in [1..n -> X]
    BY <1>1, <1>2
  <2>2. DOMAIN o = 1..n
    BY <1>2
  <2> QED BY <1>2, <2>1, <2>2 DEF Elements, Increasing
<1>5. u \in Seq(X) /\ Elements(u) = Elements(f_queue) \cup Elements(o)
  BY <1>1, <1>4, ElementsJoined
<1>6. ASSUME Increasing(f_queue), \A x \in Elements(f_queue), y \in S : x < y
      PROVE  Increasing(u)
  <2>1. \A x \in Elements(f_queue), y \in Elements(o) : x < y
    BY <1>4, <1>6
  <2> QED BY <1>1, <1>4, <1>6, <2>1, JoinIncreases
<1> HIDE DEF u
<1>7. Len(u) \in Nat
  BY <1>5
<1>8. skip \in Nat /\ skip <= Len(u)
  <2> DEFINE T == {0, Len(u) - ScanQueue}
  <2>1. T \in SUBSET Int /\ T # {}
    BY <1>1, <1>7
  <2>2. IsFiniteSet(T)
    BY FS_EmptySet, FS_AddElement
  <2>3. 0 \in T /\ \A x \in T : x <= Len(u)
    BY <1>1, <1>7
  <2>4. skip = Scanner!Max(T)
    OBVIOUS
  <2> HIDE DEF T, skip
  <2>5. Scanner!Max(T) \in T /\ \A m \in T : Scanner!Max(T) >= m
    BY <2>1, <2>2, ScannerMax
  <2>6. skip \in Int /\ skip >= 0 /\ skip <= Len(u)
    BY <2>1, <2>3, <2>4, <2>5
  <2> QED BY <2>6
<1> HIDE DEF skip
<1>9. PICK a : a = 1 + skip
  OBVIOUS
<1>10. PICK b : b = Len(u)
  OBVIOUS
<1>11. a \in Nat \ {0} /\ b \in Nat /\ b <= Len(u)
  BY <1>7, <1>8, <1>9, <1>10
<1>12. /\ SubSeq(u, a, b) \in Seq(X) /\ Elements(SubSeq(u, a, b)) \subseteq Elements(u)
       /\ Increasing(u) => Increasing(SubSeq(u, a, b))
  BY <1>5, <1>11, PartIs, PartIncreases
<1>13. Scanner!Offered(S) = SubSeq(u, a, b)
  BY <1>3, <1>9, <1>10
<1> QED BY <1>4, <1>5, <1>6, <1>12, <1>13 DEF X

(* The lists of some tabs go. *)
LEMMA ClearIs ==
  ASSUME ListsOK, PlaysOK, NoCall \notin Scanner!Card, NEW T \in SUBSET RadioTab,
         NEW F \in SUBSET T, Scanner!Clear(T, F), f_stored' = f_stored
  PROVE  /\ ListsOK' /\ PlaysOK' /\ (f_current # NoCall => f_current' # NoCall)
         /\ \A t \in T : ~f_loaded'[t]
<1>1. /\ f_loaded' = [t \in RadioTab |-> f_loaded[t] /\ t \notin T]
      /\ f_shown' = [t \in RadioTab |-> IF t \in T THEN {} ELSE f_shown[t]]
      /\ f_quiet' = [t \in RadioTab |-> f_quiet[t] /\ t \notin T]
      /\ f_ask' = [t \in RadioTab |-> IF t \in F THEN "first"
                                      ELSE IF t \in T THEN "no" ELSE f_ask[t]]
      /\ f_current' = IF f_current # NoCall /\ f_current.tab \in T
                        THEN [f_current EXCEPT !.here = FALSE] ELSE f_current
      /\ f_promise' = f_promise
  BY Zenon DEF Scanner!Clear
<1>2. ListsOK'
  <2>1. /\ f_loaded' \in [RadioTab -> BOOLEAN] /\ f_quiet' \in [RadioTab -> BOOLEAN]
        /\ \A t \in RadioTab : f_loaded'[t] = (f_loaded[t] /\ t \notin T)
    BY <1>1, Zenon
  <2>2. /\ f_shown' \in [RadioTab -> SUBSET f_stored']
        /\ \A t \in RadioTab : f_shown'[t] \subseteq ListedIn[t]
    BY <1>1 DEF ListsOK
  <2>3. f_ask' \in [RadioTab -> {"no", "first", "newest"}]
    BY <1>1 DEF ListsOK
  <2>4. ASSUME NEW t \in RadioTab, f_ask'[t] = "newest" PROVE f_loaded'[t]
    <3>1. t \notin F /\ t \notin T /\ f_ask[t] = "newest"
      BY <1>1, <2>4
    <3>2. f_loaded[t]
      BY <3>1 DEF ListsOK
    <3> QED BY <2>1, <3>1, <3>2
  <2> QED BY <2>1, <2>2, <2>3, <2>4 DEF ListsOK
<1>3. CASE f_current = NoCall
  <2>1. f_current' = NoCall
    BY <1>1, <1>3
  <2> QED BY <1>1, <1>2, <1>3, <2>1 DEF PlaysOK
<1>4. CASE f_current # NoCall
  <2>1. f_current \in Scanner!Card
    BY <1>4 DEF PlaysOK
  <2>2. f_current' \in Scanner!Card /\ f_current'.call = f_current.call
    BY <1>1, <2>1 DEF Scanner!Card
  <2>3. f_current' # NoCall
    BY <2>2
  <2>4. f_promise' = f_promise
    BY <1>1
  <2>5. PlaysOK'
    BY <1>4, <2>2, <2>3, <2>4 DEF PlaysOK
  <2> QED BY <1>1, <1>2, <2>3, <2>5
<1> QED BY <1>3, <1>4

(* A tab without a list is loaded, any other asked for what is new.        *)
LEMMA RefreshIs ==
  ASSUME ListsOK, PlaysOK, NoCall \notin Scanner!Card, NEW t \in RadioTab,
         NEW q \in BOOLEAN, Scanner!RefreshNewest(t, q), f_stored' = f_stored
  PROVE  /\ ListsOK' /\ PlaysOK' /\ (f_current # NoCall => f_current' # NoCall)
         /\ f_loaded'[t] => /\ f_loaded[t] /\ f_shown' = f_shown
                            /\ f_quiet'[t] = q
<1>1. CASE f_ask[t] = "no" /\ ~f_loaded[t]
  <2>1. Scanner!Clear({t}, {t})
    BY <1>1 DEF Scanner!RefreshNewest
  <2>2. PICK T \in SUBSET RadioTab : T = {t}
    OBVIOUS
  <2>3. Scanner!Clear(T, T)
    BY <2>1, <2>2
  <2>4. /\ ListsOK' /\ PlaysOK' /\ (f_current # NoCall => f_current' # NoCall)
        /\ \A u \in T : ~f_loaded'[u]
    BY <2>3, ClearIs
  <2> QED BY <2>2, <2>4
<1>2. CASE ~(f_ask[t] = "no" /\ ~f_loaded[t])
  <2>1. /\ f_ask' = [f_ask EXCEPT ![t] = IF f_ask[t] = "no" THEN "newest" ELSE f_ask[t]]
        /\ f_quiet' = [f_quiet EXCEPT ![t] = q]
        /\ f_loaded' = f_loaded /\ f_shown' = f_shown
        /\ f_current' = f_current /\ f_promise' = f_promise
    BY <1>2 DEF Scanner!RefreshNewest, Scanner!player
  <2>2. PlaysOK'
    BY <2>1 DEF PlaysOK
  <2>3. f_quiet' \in [RadioTab -> BOOLEAN] /\ f_quiet'[t] = q
    BY <2>1 DEF ListsOK
  <2>4. /\ f_ask' \in [RadioTab -> {"no", "first", "newest"}]
        /\ \A u \in RadioTab : u # t => f_ask'[u] = f_ask[u]
        /\ f_ask'[t] = IF f_ask[t] = "no" THEN "newest" ELSE f_ask[t]
    BY <2>1 DEF ListsOK
  <2>5. ASSUME NEW u \in RadioTab, f_ask'[u] = "newest" PROVE f_loaded'[u]
    <3>1. CASE u # t
      BY <2>1, <2>4, <2>5, <3>1 DEF ListsOK
    <3>2. CASE u = t
      BY <1>2, <2>1, <2>4, <2>5, <3>2 DEF ListsOK
    <3> QED BY <3>1, <3>2
  <2>6. ListsOK'
    BY <2>1, <2>3, <2>4, <2>5 DEF ListsOK
  <2> QED BY <2>1, <2>2, <2>3, <2>6
<1> QED BY <1>1, <1>2

(* What the line and the quiet refreshes promise is kept as long as the    *)
(* list of the tab is up to date or as it was.                             *)
LEMMA LineStays ==
  ASSUME LineOK, UNCHANGED <<f_stored, f_active, f_before, f_foreign>>,
         Past' \subseteq Past,
         Increasing(f_queue) => Increasing(f_queue'),
         Increasing(f_queue) /\ (\A x \in Elements(f_queue) : f_last < x)
           => \A x \in Elements(f_queue') : f_last' < x,
         f_loaded'[f_active] =>
           \/ PageOf(f_stored, f_active) \subseteq f_shown'[f_active]
           \/ f_loaded[f_active] /\ f_shown'[f_active] = f_shown[f_active]
  PROVE  LineOK'
<1>1. NewOn(f_active)' = PageOf(f_stored, f_active) \ f_shown'[f_active]
  BY DEF NewOn
<1> HIDE DEF Past
<1>2. CASE f_foreign
  BY <1>2 DEF LineOK
<1>3. CASE ~f_foreign
  <2>1. f_loaded'[f_active] => \A s \in NewOn(f_active)', q \in Past' : q < s
    BY <1>1, <1>3 DEF LineOK, NewOn
  <2>2. Past' \cap f_before' = {}
    BY <1>3 DEF LineOK
  <2>3. Increasing(f_queue') /\ \A x \in Elements(f_queue') : f_last' < x
    BY <1>3 DEF LineOK
  <2> QED BY <2>1, <2>2, <2>3 DEF LineOK
<1> QED BY <1>2, <1>3

LEMMA HearsStays ==
  ASSUME HearsOK, UNCHANGED <<f_stored, f_active, f_before, f_on>>,
         f_loaded'[f_active] =>
           \/ PageOf(f_stored, f_active) \subseteq f_shown'[f_active]
           \/ /\ f_loaded[f_active] /\ f_shown'[f_active] = f_shown[f_active]
              /\ f_quiet'[f_active] = f_quiet[f_active]
  PROVE  HearsOK'
<1>1. NewOn(f_active)' = PageOf(f_stored, f_active) \ f_shown'[f_active]
  BY DEF NewOn
<1> QED BY <1>1 DEF HearsOK, NewOn

LEMMA ScannerBegins == ScannerConstants /\ Scanner!Init => ScannerOK
<1> SUFFICES ASSUME ScannerConstants, Scanner!Init PROVE ScannerOK
  OBVIOUS
<1>1. /\ f_stored = FirstCalls /\ f_active = StartTab
      /\ f_loaded = [t \in RadioTab |-> FALSE] /\ f_quiet = f_loaded
      /\ f_shown = [t \in RadioTab |-> {}]
      /\ f_ask = [t \in RadioTab |-> IF t = StartTab THEN "first" ELSE "no"]
      /\ f_on = FALSE /\ f_blocked = FALSE /\ f_queue = <<>>
      /\ f_current = NoCall /\ f_promise = "no"
      /\ f_last = 0 /\ f_before = {} /\ f_foreign = FALSE /\ f_expired = FALSE
  BY DEF Scanner!Init
<1>2. CallsOK
  BY <1>1 DEF CallsOK, ScannerConstants
<1>3. ListsOK
  BY <1>1 DEF ListsOK
<1>4. PlaysOK /\ AwakeOK /\ HearsOK
  BY <1>1 DEF PlaysOK, AwakeOK, HearsOK
<1>5. WaitsOK
  BY <1>1 DEF WaitsOK
<1>6. LineOK
  <2>1. Elements(f_queue) = {} /\ Increasing(f_queue)
    BY <1>1 DEF Elements, Increasing
  <2>2. ~f_loaded[f_active]
    BY <1>1 DEF ScannerConstants
  <2> QED BY <1>1, <2>1, <2>2 DEF LineOK
<1> QED BY <1>2, <1>3, <1>4, <1>5, <1>6 DEF ScannerOK

(* A call that is stored is newer than all that are: it is the only one    *)
(* that can become new on a page.                                          *)
LEMMA ArriveKeeps ==
  ASSUME ScannerConstants, ScannerOK, NEW s \in RadioCall, Scanner!Arrive(s)
  PROVE  ScannerOK'
<1>1. /\ s \notin f_stored /\ 1..(s - 1) \subseteq f_stored
      /\ f_stored' = f_stored \cup {s}
      /\ UNCHANGED <<f_active, f_loaded, f_shown, f_ask, f_quiet, f_on, f_blocked, f_queue,
                     f_current, f_promise, f_last, f_before, f_foreign, f_expired>>
  BY DEF Scanner!Arrive, Scanner!tabs, Scanner!player, Scanner!scan
<1>2. CallsOK /\ ListsOK /\ PlaysOK /\ WaitsOK /\ AwakeOK /\ LineOK /\ HearsOK
  BY DEF ScannerOK
<1>3. s \in Nat \ {0} /\ f_stored \subseteq Nat \ {0}
  BY <1>2 DEF ScannerConstants, CallsOK
<1>4. \A u \in f_stored : u < s
  <2> SUFFICES ASSUME NEW u \in f_stored, u > s PROVE FALSE
    BY <1>1, <1>3
  <2>1. s \in 1..u /\ 1..u \subseteq f_stored
    BY <1>2, <1>3 DEF CallsOK
  <2> QED BY <1>1, <2>1
<1>5. CallsOK'
  <2>1. IsFiniteSet(f_stored')
    BY <1>1, <1>2, FS_AddElement DEF CallsOK
  <2>2. 1..s \subseteq f_stored'
    <3>1. \A k \in 1..s : k = s \/ k \in 1..(s - 1)
      BY <1>3
    <3> QED BY <1>1, <3>1
  <2>3. \A u \in f_stored' : 1..u \subseteq f_stored'
    BY <1>1, <1>2, <2>2 DEF CallsOK
  <2> QED BY <1>1, <1>2, <2>1, <2>3 DEF CallsOK
<1>6. ListsOK' /\ PlaysOK' /\ AwakeOK'
  BY <1>1, <1>2 DEF ListsOK, PlaysOK, AwakeOK
<1>7. WaitsOK'
  <2>1. f_queue \in Seq(f_stored' \ NoiseCalls)
    BY <1>1, <1>2 DEF WaitsOK
  <2> QED BY <1>1, <1>2, <2>1 DEF WaitsOK
<1>8. NewOn(f_active)' \subseteq NewOn(f_active) \cup {s}
  <2> DEFINE t == f_active
  <2> SUFFICES ASSUME NEW r \in PageOf(f_stored', t), r # s PROVE r \in PageOf(f_stored, t)
    BY <1>1 DEF NewOn
  <2> DEFINE R == {u \in f_stored \cap ListedIn[t] : u > r}
             Q == {u \in f_stored' \cap ListedIn[t] : u > r}
  <2>1. R \in SUBSET Q /\ r \in f_stored \cap ListedIn[t] /\ Cardinality(Q) < FeedPage
    BY <1>1 DEF PageOf
  <2>2. IsFiniteSet(Q) /\ Q \in SUBSET f_stored'
    <3>1. Q \in SUBSET f_stored'
      OBVIOUS
    <3> HIDE DEF Q
    <3> QED BY <1>5, <3>1, FS_Subset DEF CallsOK
  <2> HIDE DEF R, Q
  <2>3. IsFiniteSet(R) /\ Cardinality(R) <= Cardinality(Q)
    BY <2>1, <2>2, FS_Subset
  <2>4. Cardinality(R) \in Nat /\ Cardinality(Q) \in Nat /\ FeedPage \in Nat
    BY <2>2, <2>3, FS_CardinalityType DEF ScannerConstants
  <2>5. Cardinality(R) < FeedPage
    BY <2>1, <2>3, <2>4
  <2> QED BY <2>1, <2>5 DEF PageOf, R
<1>9. LineOK'
  <2>1. \A q \in Past : q < s
    <3>1. Past \subseteq f_stored \cup {0}
      BY <1>2 DEF WaitsOK, Past, Elements
    <3> QED BY <1>3, <1>4, <3>1
  <2>2. Past' = Past
    BY <1>1 DEF Past
  <2> HIDE DEF Past
  <2> QED BY <1>1, <1>2, <1>8, <2>1, <2>2 DEF LineOK
<1>10. HearsOK'
  <2>1. s \notin f_before
    BY <1>1, <1>2 DEF CallsOK
  <2> QED BY <1>1, <1>2, <1>8, <2>1 DEF HearsOK
<1> QED BY <1>5, <1>6, <1>7, <1>9, <1>10 DEF ScannerOK

(* What the player tells and the reader presses is about a call that is    *)
(* with it.                                                                *)
LEMMA PlayerKeeps ==
  ASSUME ScannerConstants, ScannerOK, PlaysOK', f_current' # NoCall,
         UNCHANGED <<f_stored, f_active, f_loaded, f_shown, f_ask, f_quiet, f_on, f_blocked,
                     f_queue, f_last, f_before, f_foreign, f_expired>>
  PROVE  ScannerOK'
<1>1. CallsOK' /\ ListsOK' /\ WaitsOK'
  BY DEF ScannerOK, CallsOK, ListsOK, WaitsOK
<1>2. AwakeOK'
  BY DEF AwakeOK
<1>3. LineOK' /\ HearsOK'
  BY DEF ScannerOK, LineOK, HearsOK, Past, NewOn
<1> QED BY <1>1, <1>2, <1>3 DEF ScannerOK

LEMMA PlayingKeeps ==
  ASSUME ScannerConstants, ScannerOK, Scanner!Playing \/ Scanner!Buffering
  PROVE  ScannerOK'
<1>1. /\ f_current # NoCall
      /\ \E state \in {"playing", "loading"} : f_current' = [f_current EXCEPT !.state = state]
      /\ f_promise' \in {f_promise, "no"}
      /\ UNCHANGED <<f_stored, f_active, f_loaded, f_shown, f_ask, f_quiet, f_on, f_blocked,
                     f_queue, f_last, f_before, f_foreign, f_expired>>
  BY DEF Scanner!Playing, Scanner!Buffering, Scanner!tabs, Scanner!scan
<1>2. f_current \in Scanner!Card /\ f_current.call \in f_stored /\ PlaysOK
  BY <1>1 DEF ScannerOK, PlaysOK
<1>3. f_current' \in Scanner!Card /\ f_current'.call = f_current.call
  BY <1>1, <1>2 DEF Scanner!Card
<1>4. f_current' # NoCall
  BY <1>3 DEF ScannerConstants
<1>5. PlaysOK'
  BY <1>1, <1>2, <1>3, <1>4 DEF PlaysOK
<1> QED BY <1>1, <1>4, <1>5, PlayerKeeps

LEMMA PressKeeps ==
  ASSUME ScannerConstants, ScannerOK, NEW s, Scanner!Press(s)
  PROVE  ScannerOK'
<1>1. /\ s \in f_shown[f_active]
      /\ \/ /\ f_current' = [call |-> s, tab |-> f_active, state |-> "loading", here |-> TRUE]
            /\ f_promise' = "person"
         \/ /\ f_current # NoCall
            /\ f_current' = [f_current EXCEPT !.state = "paused"] /\ f_promise' = "no"
      /\ UNCHANGED <<f_stored, f_active, f_loaded, f_shown, f_ask, f_quiet, f_on, f_blocked,
                     f_queue, f_last, f_before, f_foreign, f_expired>>
  BY DEF Scanner!Press, Scanner!Load, Scanner!tabs, Scanner!scan
<1>2. f_active \in RadioTab /\ s \in f_stored /\ s \in RadioCall
  BY <1>1 DEF ScannerOK, CallsOK, ListsOK
<1>3. f_current' \in Scanner!Card /\ f_current'.call \in f_stored
  <2>1. CASE f_current' = [call |-> s, tab |-> f_active, state |-> "loading", here |-> TRUE]
    BY <1>2, <2>1 DEF Scanner!Card
  <2>2. CASE f_current # NoCall /\ f_current' = [f_current EXCEPT !.state = "paused"]
    <3>1. f_current \in Scanner!Card /\ f_current.call \in f_stored
      BY <2>2 DEF ScannerOK, PlaysOK
    <3> QED BY <2>2, <3>1 DEF Scanner!Card
  <2> QED BY <1>1, <2>1, <2>2
<1>4. f_current' # NoCall
  BY <1>3 DEF ScannerConstants
<1>5. f_promise' \in {"no", "person"}
  BY <1>1
<1>6. PlaysOK'
  BY <1>1, <1>3, <1>4, <1>5 DEF PlaysOK
<1> QED BY <1>1, <1>4, <1>6, PlayerKeeps

(* The end of a call, an error, and a click while nothing plays.           *)
LEMMA ReleaseKeeps ==
  ASSUME ScannerConstants, ScannerOK, Scanner!Ended \/ Scanner!Error \/ Scanner!Click
  PROVE  ScannerOK'
<1>1. CallsOK /\ ListsOK /\ PlaysOK /\ WaitsOK /\ AwakeOK /\ LineOK /\ HearsOK
  BY DEF ScannerOK
<1>2. UNCHANGED <<f_stored, f_active, f_loaded, f_shown, f_ask, f_quiet, f_on, f_before,
                  f_foreign>>
  BY DEF Scanner!Ended, Scanner!Error, Scanner!Click, Scanner!tabs
<1>3. /\ f_blocked' \in BOOLEAN
      /\ \/ Scanner!Pump(f_queue, f_shown[f_active])
         \/ f_current # NoCall /\ UNCHANGED <<f_queue, f_current, f_promise, f_last, f_expired>>
  BY <1>1 DEF Scanner!Ended, Scanner!Error, Scanner!Release, Scanner!Click, Scanner!player,
              CallsOK
<1>4. ListsOK'
  BY <1>1, <1>2 DEF ListsOK
<1>5. /\ PlaysOK' /\ WaitsOK' /\ AwakeOK' /\ f_expired' \in BOOLEAN
      /\ Past' \subseteq Past
      /\ Increasing(f_queue) => Increasing(f_queue')
      /\ Increasing(f_queue) /\ (\A x \in Elements(f_queue) : f_last < x)
           => \A x \in Elements(f_queue') : f_last' < x
  <2>1. CASE Scanner!Pump(f_queue, f_shown[f_active])
    <3>1. /\ f_queue \in Seq(f_stored \ NoiseCalls) /\ RadioCall \subseteq Nat \ {0}
          /\ NoCall \notin Scanner!Card
      BY <1>1 DEF WaitsOK, ScannerConstants
    <3> QED BY <1>1, <1>2, <1>3, <2>1, <3>1, PumpIs DEF Past
  <2>2. CASE f_current # NoCall /\ UNCHANGED <<f_queue, f_current, f_promise, f_last, f_expired>>
    BY <1>1, <1>2, <2>2 DEF PlaysOK, WaitsOK, AwakeOK, CallsOK, Past
  <2> QED BY <1>3, <2>1, <2>2
<1>6. CallsOK'
  BY <1>1, <1>2, <1>3, <1>5 DEF CallsOK
<1>7. LineOK'
  BY <1>1, <1>2, <1>5, LineStays
<1>8. HearsOK'
  BY <1>1, <1>2, HearsStays
<1> QED BY <1>4, <1>5, <1>6, <1>7, <1>8 DEF ScannerOK

(* The browser wants a click first: the call that was to start waits.      *)
LEMMA RefusedKeeps ==
  ASSUME ScannerConstants, ScannerOK, Scanner!Refused
  PROVE  ScannerOK'
<1> DEFINE c == f_current.call
           X == f_stored \ NoiseCalls
<1>1. CallsOK /\ ListsOK /\ PlaysOK /\ WaitsOK /\ AwakeOK /\ LineOK /\ HearsOK
  BY DEF ScannerOK
<1>2. /\ f_promise = "auto" /\ f_current' = NoCall /\ f_promise' = "no"
      /\ f_queue' = <<c>> \o f_queue /\ f_blocked' = TRUE
      /\ f_last' = 0 /\ f_foreign' = (f_foreign \/ f_last # c)
      /\ UNCHANGED <<f_stored, f_active, f_loaded, f_shown, f_ask, f_quiet, f_on, f_before,
                     f_expired>>
  BY DEF Scanner!Refused, Scanner!tabs
<1>3. c \in X /\ c \in f_stored
  BY <1>1, <1>2 DEF PlaysOK
<1>4. /\ X \in SUBSET Nat /\ 0 \notin f_before
      /\ \A s \in f_stored : 0 < s
  <2>1. f_stored \subseteq Nat \ {0} /\ f_before \subseteq f_stored
    BY <1>1 DEF CallsOK, ScannerConstants
  <2>2. X \in SUBSET Nat
    BY <2>1
  <2> QED BY <2>1, <2>2
<1>5. f_queue \in Seq(X) /\ f_last \in f_stored \cup {0}
  BY <1>1 DEF WaitsOK
<1> HIDE DEF c, X
<1>6. <<c>> \in Seq(X) /\ Elements(<<c>>) = {c} /\ Increasing(<<c>>)
  BY <1>3 DEF Elements, Increasing
<1>7. /\ f_queue' \in Seq(X)
      /\ Elements(f_queue') = {c} \cup Elements(f_queue)
  <2>1. PICK first : first = <<c>>
    OBVIOUS
  <2>2. first \in Seq(X) /\ f_queue \in Seq(X)
    BY <1>5, <1>6, <2>1
  <2>3. /\ first \o f_queue \in Seq(X)
        /\ Elements(first \o f_queue) = Elements(first) \cup Elements(f_queue)
    BY ONLY <2>2, ElementsJoined
  <2> QED BY <1>2, <1>6, <2>1, <2>3, Zenon
<1>8. CallsOK' /\ ListsOK' /\ PlaysOK' /\ AwakeOK' /\ HearsOK'
  <2>1. CallsOK' /\ PlaysOK' /\ AwakeOK'
    <3>1. f_foreign' \in BOOLEAN
      BY <1>2
    <3> QED BY <1>1, <1>2, <3>1 DEF CallsOK, PlaysOK, AwakeOK
  <2>2. ListsOK'
    BY <1>1, <1>2 DEF ListsOK
  <2>3. HearsOK'
    BY <1>1, <1>2, HearsStays
  <2> QED BY <2>1, <2>2, <2>3
<1>9. WaitsOK'
  BY <1>2, <1>7 DEF WaitsOK, X
<1>10. LineOK'
  <2>1. CASE f_foreign'
    BY <2>1 DEF LineOK
  <2>2. CASE ~f_foreign'
    <3>1. ~f_foreign /\ f_last = c
      BY <1>2, <2>2
    <3>2. /\ Increasing(f_queue) /\ \A q \in Elements(f_queue) : c < q
          /\ Past \cap f_before = {}
          /\ f_loaded[f_active] => \A s \in NewOn(f_active), q \in Past : q < s
      BY <1>1, <3>1 DEF LineOK
    <3>3. Past = {c} \cup Elements(f_queue) /\ Past' = {0} \cup Past
      BY <1>2, <1>7, <3>1 DEF Past
    <3>4. Increasing(f_queue')
      BY <1>2, <1>4, <1>5, <1>6, <3>2, JoinIncreases
    <3>5. \A q \in Elements(f_queue') : 0 < q
      <4>1. Elements(f_queue) \subseteq X
        BY <1>5 DEF Elements
      <4>2. Elements(f_queue') \subseteq f_stored
        BY <1>3, <1>7, <4>1 DEF X
      <4> QED BY <1>4, <4>2
    <3>6. NewOn(f_active)' = NewOn(f_active) /\ \A s \in NewOn(f_active) : 0 < s
      <4>1. NewOn(f_active) \subseteq f_stored
        BY DEF NewOn, PageOf
      <4>2. NewOn(f_active)' = NewOn(f_active)
        BY <1>2 DEF NewOn
      <4> QED BY <1>4, <4>1, <4>2
    <3> HIDE DEF Past
    <3> QED BY <1>2, <1>4, <3>2, <3>3, <3>4, <3>5, <3>6 DEF LineOK
  <2> QED BY <2>1, <2>2
<1> QED BY <1>8, <1>9, <1>10 DEF ScannerOK

LEMMA ExpireKeeps ==
  ASSUME ScannerConstants, ScannerOK, Scanner!Expire
  PROVE  ScannerOK'
<1>1. CallsOK /\ ListsOK /\ PlaysOK /\ WaitsOK /\ AwakeOK /\ LineOK /\ HearsOK
  BY DEF ScannerOK
<1>2. /\ f_current' = NoCall /\ f_promise' = "no" /\ f_expired' = TRUE
      /\ UNCHANGED <<f_stored, f_active, f_loaded, f_shown, f_ask, f_quiet, f_on, f_blocked,
                     f_queue, f_last, f_before, f_foreign>>
  BY DEF Scanner!Expire, Scanner!tabs
<1>3. CallsOK' /\ ListsOK' /\ PlaysOK' /\ WaitsOK' /\ AwakeOK'
  BY <1>1, <1>2 DEF CallsOK, ListsOK, PlaysOK, WaitsOK, AwakeOK
<1>4. LineOK' /\ HearsOK'
  BY <1>1, <1>2 DEF LineOK, HearsOK, Past, NewOn
<1> QED BY <1>3, <1>4 DEF ScannerOK

(* Lists that are asked for or come, while the scanner is left alone.      *)
LEMMA ListsKeep ==
  ASSUME ScannerConstants, ScannerOK, ListsOK', PlaysOK',
         f_current # NoCall => f_current' # NoCall,
         UNCHANGED <<f_stored, f_active, f_on, f_blocked, f_queue, f_last, f_before, f_foreign,
                     f_expired>>,
         f_loaded'[f_active] =>
           \/ PageOf(f_stored, f_active) \subseteq f_shown'[f_active]
           \/ /\ f_loaded[f_active] /\ f_shown'[f_active] = f_shown[f_active]
              /\ f_quiet'[f_active] = f_quiet[f_active]
  PROVE  ScannerOK'
<1>1. CallsOK' /\ WaitsOK' /\ AwakeOK'
  BY DEF ScannerOK, CallsOK, WaitsOK, AwakeOK
<1>2. Past' \subseteq Past /\ LineOK /\ HearsOK
  BY DEF ScannerOK, Past
<1>3. LineOK'
  BY <1>2, LineStays
<1>4. HearsOK'
  BY <1>2, HearsStays
<1> QED BY <1>1, <1>3, <1>4 DEF ScannerOK

LEMMA RefreshKeeps ==
  ASSUME ScannerConstants, ScannerOK, Scanner!Refresh
  PROVE  ScannerOK'
<1>1. /\ ListsOK /\ PlaysOK /\ NoCall \notin Scanner!Card /\ f_active \in RadioTab
      /\ f_quiet[f_active] \in BOOLEAN
  BY DEF ScannerOK, ScannerConstants, CallsOK, ListsOK
<1>2. /\ Scanner!RefreshNewest(f_active, f_quiet[f_active])
      /\ UNCHANGED <<f_stored, f_active, f_on, f_blocked, f_queue, f_last, f_before, f_foreign,
                     f_expired>>
  BY DEF Scanner!Refresh, Scanner!scan
<1>3. PICK q \in BOOLEAN : q = f_quiet[f_active]
  BY <1>1
<1>4. PICK t \in RadioTab : t = f_active
  BY <1>1
<1>5. Scanner!RefreshNewest(t, q)
  BY <1>2, <1>3, <1>4
<1>6. /\ ListsOK' /\ PlaysOK' /\ (f_current # NoCall => f_current' # NoCall)
      /\ f_loaded'[t] => f_loaded[t] /\ f_shown' = f_shown /\ f_quiet'[t] = q
  BY <1>1, <1>2, <1>5, RefreshIs
<1> QED BY <1>2, <1>3, <1>4, <1>6, ListsKeep

LEMMA GapKeeps ==
  ASSUME ScannerConstants, ScannerOK, NEW t \in RadioTab, Scanner!ReceiveGap(t)
  PROVE  ScannerOK'
<1>1. ListsOK /\ PlaysOK /\ NoCall \notin Scanner!Card
  BY DEF ScannerOK, ScannerConstants
<1>2. PICK T \in SUBSET RadioTab : T = {t}
  OBVIOUS
<1>3. /\ Scanner!Clear(T, T)
      /\ UNCHANGED <<f_stored, f_active, f_on, f_blocked, f_queue, f_last, f_before, f_foreign,
                     f_expired>>
  BY <1>2 DEF Scanner!ReceiveGap, Scanner!scan
<1>4. /\ ListsOK' /\ PlaysOK' /\ (f_current # NoCall => f_current' # NoCall)
      /\ \A u \in T : ~f_loaded'[u]
  BY <1>1, <1>3, ClearIs
<1>5. f_active \in RadioTab
  BY DEF ScannerOK, CallsOK
<1>6. f_active # t => /\ f_loaded'[f_active] = f_loaded[f_active]
                      /\ f_shown'[f_active] = f_shown[f_active]
                      /\ f_quiet'[f_active] = f_quiet[f_active]
  <2>1. /\ f_loaded' = [u \in RadioTab |-> f_loaded[u] /\ u \notin T]
        /\ f_shown' = [u \in RadioTab |-> IF u \in T THEN {} ELSE f_shown[u]]
        /\ f_quiet' = [u \in RadioTab |-> f_quiet[u] /\ u \notin T]
    BY <1>3, Zenon DEF Scanner!Clear
  <2>2. f_loaded[f_active] \in BOOLEAN /\ f_quiet[f_active] \in BOOLEAN
    BY <1>1, <1>5 DEF ListsOK
  <2> QED BY <1>2, <1>5, <2>1, <2>2
<1> QED BY <1>2, <1>3, <1>4, <1>6, ListsKeep

LEMMA FirstKeeps ==
  ASSUME ScannerConstants, ScannerOK, NEW t \in RadioTab,
         Scanner!ReceiveFirst(t) \/ Scanner!RequestFails(t)
  PROVE  ScannerOK'
<1>1. ListsOK /\ PlaysOK /\ CallsOK
  BY DEF ScannerOK
<1>2. /\ f_ask' = [f_ask EXCEPT ![t] = "no"] /\ f_quiet' = f_quiet
      /\ \/ /\ f_shown' = [f_shown EXCEPT ![t] = PageOf(f_stored, t)]
            /\ f_loaded' = [f_loaded EXCEPT ![t] = TRUE]
         \/ f_shown' = f_shown /\ f_loaded' = f_loaded
      /\ UNCHANGED <<f_stored, f_active, f_current, f_promise, f_on, f_blocked, f_queue, f_last,
                     f_before, f_foreign, f_expired>>
  BY ScannerPage DEF Scanner!ReceiveFirst, Scanner!RequestFails, Scanner!player, Scanner!scan
<1>3. PageOf(f_stored, t) \subseteq f_stored \cap ListedIn[t]
  BY DEF PageOf
<1>4. ListsOK'
  <2>1. /\ f_ask' \in [RadioTab -> {"no", "first", "newest"}]
        /\ \A u \in RadioTab : f_ask'[u] = "newest" => f_ask[u] = "newest"
    BY <1>1, <1>2 DEF ListsOK
  <2>2. /\ f_loaded' \in [RadioTab -> BOOLEAN]
        /\ \A u \in RadioTab : f_loaded[u] => f_loaded'[u]
    BY <1>1, <1>2 DEF ListsOK
  <2>3. /\ f_shown' \in [RadioTab -> SUBSET f_stored']
        /\ \A u \in RadioTab : f_shown'[u] \subseteq ListedIn[u]
    BY <1>1, <1>2, <1>3 DEF ListsOK
  <2> QED BY <1>1, <1>2, <2>1, <2>2, <2>3 DEF ListsOK
<1>5. PlaysOK' /\ f_current' = f_current
  BY <1>1, <1>2 DEF PlaysOK
<1>6. f_loaded'[f_active] =>
        \/ PageOf(f_stored, f_active) \subseteq f_shown'[f_active]
        \/ f_loaded[f_active] /\ f_shown'[f_active] = f_shown[f_active]
  <2>1. f_active \in RadioTab
    BY <1>1 DEF CallsOK
  <2>2. CASE f_shown' = f_shown /\ f_loaded' = f_loaded
    BY <2>2
  <2>3. CASE /\ f_shown' = [f_shown EXCEPT ![t] = PageOf(f_stored, t)]
             /\ f_loaded' = [f_loaded EXCEPT ![t] = TRUE]
    BY <1>1, <2>1, <2>3 DEF ListsOK
  <2> QED BY <1>2, <2>2, <2>3
<1> QED BY <1>2, <1>4, <1>5, <1>6, ListsKeep

(* The scanner is set up anew for a tab: nothing waits. *)
LEMMA ResetHolds ==
  ASSUME ScannerConstants, CallsOK', f_queue' = <<>>, f_last' = 0
  PROVE  WaitsOK' /\ AwakeOK' /\ LineOK'
<1>1. WaitsOK' /\ AwakeOK'
  BY DEF WaitsOK, AwakeOK
<1>2. Elements(f_queue') = {} /\ Increasing(f_queue') /\ Past' = {0}
  BY DEF Elements, Increasing, Past
<1>3. /\ 0 \notin f_before'
      /\ \A s \in f_stored' : 0 < s
  <2>1. f_stored' \subseteq Nat \ {0} /\ f_before' \subseteq f_stored'
    BY DEF CallsOK, ScannerConstants
  <2> QED BY <2>1
<1>4. NewOn(f_active)' \subseteq f_stored'
  BY DEF NewOn, PageOf
<1>5. LineOK'
  BY <1>2, <1>3, <1>4 DEF LineOK
<1> QED BY <1>1, <1>5

LEMMA ActivateKeeps ==
  ASSUME ScannerConstants, ScannerOK, NEW t \in RadioTab, Scanner!activateTab(t)
  PROVE  ScannerOK'
<1>1. CallsOK /\ ListsOK /\ PlaysOK /\ NoCall \notin Scanner!Card /\ f_on \in BOOLEAN
  BY DEF ScannerOK, ScannerConstants, CallsOK
<1>2. /\ f_active' = t /\ f_queue' = <<>> /\ f_last' = 0 /\ f_foreign' = FALSE
      /\ f_expired' = FALSE /\ UNCHANGED <<f_stored, f_on, f_blocked>>
      /\ f_before' \in {f_stored, {}}
  BY DEF Scanner!activateTab, Scanner!scanReset, Scanner!ListensTo
<1>3. CallsOK'
  BY <1>1, <1>2 DEF CallsOK
<1>4. WaitsOK' /\ AwakeOK' /\ LineOK'
  BY <1>2, <1>3, ResetHolds
<1>5. CASE Scanner!Clear({t}, {t}) /\ f_before' = {}
  <2>1. PICK T \in SUBSET RadioTab : T = {t}
    OBVIOUS
  <2>2. Scanner!Clear(T, T)
    BY <1>5, <2>1
  <2>3. ListsOK' /\ PlaysOK'
    BY <1>1, <1>2, <2>2, ClearIs
  <2> QED BY <1>3, <1>4, <1>5, <2>3 DEF ScannerOK, HearsOK
<1>6. CASE Scanner!RefreshNewest(t, f_on)
  <2>1. PICK q \in BOOLEAN : q = f_on
    BY <1>1
  <2>2. Scanner!RefreshNewest(t, q)
    BY <1>6, <2>1
  <2>3. ListsOK' /\ PlaysOK' /\ (f_loaded'[t] => f_quiet'[t] = q)
    BY <1>1, <1>2, <2>2, RefreshIs
  <2>4. HearsOK'
    BY <1>2, <2>1, <2>3 DEF HearsOK
  <2> QED BY <1>3, <1>4, <2>3, <2>4 DEF ScannerOK
<1>7. CASE /\ UNCHANGED <<f_loaded, f_shown, f_ask, f_quiet, f_current, f_promise>>
           /\ f_before' = {}
  <2>1. ListsOK' /\ PlaysOK' /\ HearsOK'
    BY <1>1, <1>2, <1>7 DEF ListsOK, PlaysOK, HearsOK
  <2> QED BY <1>3, <1>4, <2>1 DEF ScannerOK
<1>8. \/ Scanner!Clear({t}, {t}) /\ f_before' = {}
      \/ Scanner!RefreshNewest(t, f_on)
      \/ /\ UNCHANGED <<f_loaded, f_shown, f_ask, f_quiet, f_current, f_promise>>
         /\ f_before' = {}
  BY DEF Scanner!activateTab, Scanner!player
<1> QED BY <1>5, <1>6, <1>7, <1>8

LEMMA ReloadKeeps ==
  ASSUME ScannerConstants, ScannerOK, Scanner!Reload
  PROVE  ScannerOK'
<1>1. CallsOK /\ ListsOK /\ PlaysOK /\ NoCall \notin Scanner!Card /\ f_active \in RadioTab
  BY DEF ScannerOK, ScannerConstants, CallsOK
<1>2. /\ f_queue' = <<>> /\ f_last' = 0 /\ f_foreign' = FALSE /\ f_expired' = FALSE
      /\ f_before' = {} /\ UNCHANGED <<f_stored, f_active, f_on, f_blocked>>
  BY DEF Scanner!Reload, Scanner!scanReset
<1>3. PICK T \in {RadioTab, {f_active}} : Scanner!Clear(T, {f_active})
  BY DEF Scanner!Reload
<1>4. T \in SUBSET RadioTab /\ {f_active} \in SUBSET T
  BY <1>1, <1>3
<1>5. PICK F \in SUBSET T : F = {f_active}
  BY <1>4
<1>6. Scanner!Clear(T, F)
  BY <1>3, <1>5
<1>7. ListsOK' /\ PlaysOK'
  BY <1>1, <1>2, <1>4, <1>6, ClearIs
<1>8. CallsOK'
  BY <1>1, <1>2 DEF CallsOK
<1>9. WaitsOK' /\ AwakeOK' /\ LineOK'
  BY <1>2, <1>8, ResetHolds
<1>10. HearsOK'
  BY <1>2 DEF HearsOK
<1> QED BY <1>7, <1>8, <1>9, <1>10 DEF ScannerOK

LEMMA SwitchKeeps ==
  ASSUME ScannerConstants, ScannerOK, Scanner!SwitchOn \/ Scanner!SwitchOff
  PROVE  ScannerOK'
<1>1. CallsOK /\ ListsOK /\ PlaysOK /\ NoCall \notin Scanner!Card /\ f_active \in RadioTab
  BY DEF ScannerOK, ScannerConstants, CallsOK
<1>2. /\ f_queue' = <<>> /\ f_last' = 0 /\ f_foreign' = FALSE /\ f_expired' = FALSE
      /\ f_on' \in BOOLEAN /\ f_blocked' = FALSE /\ f_before' \in {f_stored, f_before, {}}
      /\ UNCHANGED <<f_stored, f_active>>
  BY DEF Scanner!SwitchOn, Scanner!SwitchOff, Scanner!scanReset, Scanner!ListensTo,
         Scanner!tabs
<1>3. CallsOK'
  BY <1>1, <1>2 DEF CallsOK
<1>4. WaitsOK' /\ AwakeOK' /\ LineOK'
  BY <1>2, <1>3, ResetHolds
<1>5. CASE Scanner!SwitchOn
  <2>1. PICK t \in RadioTab : t = f_active
    BY <1>1
  <2>2. Scanner!RefreshNewest(t, TRUE)
    BY <1>5, <2>1 DEF Scanner!SwitchOn
  <2>3. ListsOK' /\ PlaysOK' /\ (f_loaded'[t] => f_quiet'[t] = TRUE)
    BY <1>1, <1>2, <2>2, RefreshIs
  <2>4. HearsOK'
    BY <1>2, <2>1, <2>3 DEF HearsOK
  <2> QED BY <1>3, <1>4, <2>3, <2>4 DEF ScannerOK
<1>6. CASE Scanner!SwitchOff
  <2>1. /\ f_on' = FALSE
        /\ UNCHANGED <<f_loaded, f_shown, f_ask, f_quiet, f_current, f_promise>>
    BY <1>6 DEF Scanner!SwitchOff, Scanner!tabs, Scanner!player
  <2>2. ListsOK' /\ PlaysOK' /\ HearsOK'
    BY <1>1, <1>2, <2>1 DEF ListsOK, PlaysOK, HearsOK
  <2> QED BY <1>3, <1>4, <2>2 DEF ScannerOK
<1> QED BY <1>5, <1>6

(* What is new in the tab goes on its list and, while the scanner listens, *)
(* to the end of the line.                                                 *)
LEMMA NewestKeeps ==
  ASSUME ScannerConstants, ScannerOK, NEW t \in RadioTab, Scanner!ReceiveNewest(t)
  PROVE  ScannerOK'
<1> DEFINE fresh == Scanner!Fresh(t)
           X == f_stored \ NoiseCalls
<1>1. CallsOK /\ ListsOK /\ PlaysOK /\ WaitsOK /\ AwakeOK /\ LineOK /\ HearsOK
  BY DEF ScannerOK
<1>2. fresh = NewOn(t)
  BY ScannerPage DEF Scanner!Fresh, NewOn
<1>3. fresh \subseteq f_stored \cap ListedIn[t]
  BY <1>2 DEF NewOn, PageOf
<1> HIDE DEF fresh
<1>4. /\ f_ask[t] = "newest" /\ f_ask' = [f_ask EXCEPT ![t] = "no"]
      /\ f_shown' = [f_shown EXCEPT ![t] = f_shown[t] \cup fresh]
      /\ f_quiet' = [f_quiet EXCEPT ![t] = FALSE]
      /\ UNCHANGED <<f_stored, f_active, f_loaded, f_on, f_before, f_foreign, f_blocked>>
  BY DEF Scanner!ReceiveNewest, fresh
<1>5. /\ f_loaded[t] /\ f_shown'[t] = f_shown[t] \cup fresh
      /\ \A u \in RadioTab : u # t => f_shown'[u] = f_shown[u] /\ f_quiet'[u] = f_quiet[u]
  BY <1>1, <1>4 DEF ListsOK
<1>6. ListsOK'
  <2>1. /\ f_ask' \in [RadioTab -> {"no", "first", "newest"}]
        /\ \A u \in RadioTab : f_ask'[u] = "newest" => f_ask[u] = "newest"
    BY <1>1, <1>4 DEF ListsOK
  <2>2. /\ f_shown' \in [RadioTab -> SUBSET f_stored']
        /\ \A u \in RadioTab : f_shown'[u] \subseteq ListedIn[u]
    BY <1>1, <1>3, <1>4 DEF ListsOK
  <2>3. f_quiet' \in [RadioTab -> BOOLEAN]
    BY <1>1, <1>4 DEF ListsOK
  <2> QED BY <1>1, <1>4, <2>1, <2>2, <2>3 DEF ListsOK
<1>7. PageOf(f_stored, t) \subseteq f_shown'[t]
  BY <1>2, <1>5 DEF NewOn
<1>8. f_loaded'[f_active] =>
        \/ PageOf(f_stored, f_active) \subseteq f_shown'[f_active]
        \/ /\ f_loaded[f_active] /\ f_shown'[f_active] = f_shown[f_active]
           /\ f_quiet'[f_active] = f_quiet[f_active]
  BY <1>1, <1>4, <1>5, <1>7 DEF CallsOK
<1>9. HearsOK'
  BY <1>1, <1>4, <1>8, HearsStays
<1>10. CASE ~Scanner!scanOffers(t)
  <2>1. UNCHANGED <<f_queue, f_last, f_expired, f_current, f_promise>>
    BY <1>10 DEF Scanner!ReceiveNewest, Scanner!player
  <2>2. PlaysOK'
    BY <1>1, <1>4, <2>1 DEF PlaysOK
  <2> QED BY <1>4, <1>6, <1>8, <2>1, <2>2, ListsKeep
<1>11. CASE Scanner!scanOffers(t)
  <2>1. t = f_active /\ f_on /\ ~f_quiet[t]
    BY <1>11 DEF Scanner!scanOffers
  <2>2. PICK S \in Scanner!Recent(fresh) :
          IF f_current = NoCall THEN Scanner!Pump(Scanner!Offered(S), f_shown'[t])
          ELSE /\ f_queue' = Scanner!Offered(S)
               /\ UNCHANGED <<f_last, f_expired, f_current, f_promise>>
    BY <1>11 DEF Scanner!ReceiveNewest, Scanner!player, fresh
  <2>3. S \in SUBSET X /\ S \subseteq fresh
    BY <1>3 DEF Scanner!Recent
  <2> DEFINE o == Scanner!Offered(S)
  <2>4. /\ o \in Seq(X) /\ Elements(o) \subseteq Elements(f_queue) \cup S
        /\ Increasing(f_queue) /\ (\A x \in Elements(f_queue), y \in S : x < y)
             => Increasing(o)
    BY <1>1, <2>3, OfferedIs
  <2> HIDE DEF o
  <2>5. f_foreign \/ /\ Increasing(o) /\ \A x \in Elements(o) : f_last < x
                     /\ ({f_last} \cup Elements(o)) \cap f_before = {}
    <3>1. CASE ~f_foreign
      <4>1. /\ Increasing(f_queue) /\ \A q \in Elements(f_queue) : f_last < q
            /\ ({f_last} \cup Elements(f_queue)) \cap f_before = {}
            /\ \A s \in fresh, q \in {f_last} \cup Elements(f_queue) : q < s
        BY <1>1, <1>2, <1>5, <2>1, <3>1 DEF LineOK, Past
      <4>2. S \cap f_before = {}
        BY <1>1, <1>2, <1>5, <2>1, <2>3 DEF HearsOK
      <4>3. \A x \in Elements(f_queue), y \in S : x < y
        BY <2>3, <4>1
      <4>4. \A x \in Elements(o) : f_last < x
        BY <2>3, <2>4, <4>1
      <4> QED BY <2>4, <4>1, <4>2, <4>3, <4>4
    <3> QED BY <3>1
  <2>6. /\ PlaysOK' /\ WaitsOK' /\ AwakeOK' /\ f_expired' \in BOOLEAN
        /\ Past' \subseteq {f_last} \cup Elements(o)
        /\ Increasing(o) => Increasing(f_queue')
        /\ Increasing(o) /\ (\A x \in Elements(o) : f_last < x)
             => \A x \in Elements(f_queue') : f_last' < x
    <3>1. CASE f_current = NoCall
      <4>1. PICK c : c = f_shown'[t]
        OBVIOUS
      <4>2. Scanner!Pump(o, c)
        BY <2>2, <3>1, <4>1 DEF o
      <4>3. /\ o \in Seq(f_stored \ NoiseCalls) /\ RadioCall \subseteq Nat \ {0}
            /\ NoCall \notin Scanner!Card /\ f_blocked' \in BOOLEAN
            /\ f_stored' = f_stored /\ f_on' = f_on
        BY <1>1, <1>4, <2>4 DEF ScannerConstants, CallsOK
      <4> QED BY <1>1, <4>2, <4>3, PumpIs
    <3>2. CASE f_current # NoCall
      <4>1. f_queue' = o /\ UNCHANGED <<f_last, f_expired, f_current, f_promise>>
        BY <2>2, <3>2 DEF o
      <4> QED BY <1>1, <1>4, <2>4, <3>2, <4>1 DEF PlaysOK, WaitsOK, AwakeOK, CallsOK, Past
    <3> QED BY <3>1, <3>2
  <2>7. CallsOK'
    BY <1>1, <1>4, <2>6 DEF CallsOK
  <2>8. LineOK'
    <3>1. NewOn(f_active)' = {}
      BY <1>4, <1>7, <2>1 DEF NewOn
    <3>2. CASE f_foreign
      BY <1>4, <3>2 DEF LineOK
    <3>3. CASE ~f_foreign
      <4>1. Past' \cap f_before' = {}
        BY <1>4, <2>5, <2>6, <3>3
      <4> HIDE DEF Past
      <4> QED BY <2>5, <2>6, <3>1, <3>3, <4>1 DEF LineOK
    <3> QED BY <3>2, <3>3
  <2> QED BY <1>6, <1>9, <2>6, <2>7, <2>8 DEF ScannerOK
<1> QED BY <1>10, <1>11

LEMMA ScannerNext ==
  ASSUME ScannerConstants, ScannerOK, [Scanner!Next]_(Scanner!vars)
  PROVE  ScannerOK'
<1>1. CASE UNCHANGED Scanner!vars
  <2>1. UNCHANGED <<f_stored, f_active, f_loaded, f_shown, f_ask, f_quiet, f_on, f_blocked,
                    f_queue, f_current, f_promise, f_last, f_before, f_foreign, f_expired>>
    BY <1>1 DEF Scanner!vars, Scanner!tabs, Scanner!player, Scanner!scan
  <2>2. ListsOK' /\ PlaysOK'
    BY <2>1 DEF ScannerOK, ListsOK, PlaysOK
  <2>3. f_loaded'[f_active] => /\ f_loaded[f_active] /\ f_shown'[f_active] = f_shown[f_active]
                               /\ f_quiet'[f_active] = f_quiet[f_active]
    BY <2>1
  <2> QED BY <2>1, <2>2, <2>3, ListsKeep
<1>2. CASE Scanner!Next
  BY <1>2, PlayingKeeps, ReleaseKeeps, RefusedKeeps, ExpireKeeps, RefreshKeeps, ReloadKeeps,
     SwitchKeeps, ArriveKeeps, PressKeeps, ActivateKeeps, FirstKeeps, GapKeeps, NewestKeeps
     DEF Scanner!Next
<1> QED BY <1>1, <1>2

LEMMA ScannerTypes == ScannerOK => Scanner!TypeOK
<1> SUFFICES ASSUME ScannerOK PROVE Scanner!TypeOK
  OBVIOUS
<1>1. f_queue \in Seq(RadioCall \ NoiseCalls) /\ f_last \in RadioCall \cup {0}
  BY DEF ScannerOK, CallsOK, WaitsOK
<1> QED BY <1>1 DEF ScannerOK, CallsOK, ListsOK, PlaysOK, Scanner!TypeOK

LEMMA ScannerInvariant == Scanner!Spec => []ScannerOK
<1>1. Scanner!Init => ScannerOK
  BY ScannerAssumption, ScannerBegins
<1>2. ScannerOK /\ [Scanner!Next]_(Scanner!vars) => ScannerOK'
  BY ScannerAssumption, ScannerNext
<1> QED BY <1>1, <1>2, PTL DEF Scanner!Spec

(* The radio page plays calls that come while somebody listens (scanOffer, *)
(* scanPump, startPlayback): one after another, oldest first and none of   *)
(* them twice, none that had come before, and without falling asleep over  *)
(* one that waits.                                                         *)
THEOREM CallsPlayInOrder == Scanner!Spec => []ScannerFollows
<1>1. ScannerOK => ScannerFollows
  <2> SUFFICES ASSUME ScannerOK PROVE ScannerFollows
    OBVIOUS
  <2>1. Scanner!NeverAsleep
    BY DEF ScannerOK, AwakeOK, Scanner!NeverAsleep
  <2>2. ASSUME ~f_foreign PROVE Scanner!OldestFirst
    <3>1. /\ f_queue \in Seq(f_stored \ NoiseCalls)
          /\ Increasing(f_queue) /\ \A q \in Elements(f_queue) : f_last < q
      BY <2>2 DEF ScannerOK, WaitsOK, LineOK
    <3> SUFFICES ASSUME NEW i \in DOMAIN f_queue,
                        NEW q \in {f_last} \cup Scanner!Range(SubSeq(f_queue, 1, i - 1))
                 PROVE  q < f_queue[i]
      BY DEF Scanner!OldestFirst
    <3>2. CASE q = f_last
      BY <3>1, <3>2 DEF Elements
    <3>3. CASE q \in Scanner!Range(SubSeq(f_queue, 1, i - 1))
      <4>1. PICK b : b = i - 1
        OBVIOUS
      <4>2. b \in Nat /\ b <= Len(f_queue) /\ b < i
        BY <3>1, <4>1
      <4>3. /\ DOMAIN SubSeq(f_queue, 1, b) = 1..(b - 1 + 1)
            /\ \A k \in 1..(b - 1 + 1) : /\ k + 1 - 1 \in DOMAIN f_queue
                                         /\ SubSeq(f_queue, 1, b)[k] = f_queue[k + 1 - 1]
        BY <3>1, <4>2, PartIs
      <4>4. PICK k \in 1..(b - 1 + 1) : q = SubSeq(f_queue, 1, b)[k]
        BY <3>3, <4>1, <4>3 DEF Scanner!Range
      <4>5. k \in DOMAIN f_queue /\ q = f_queue[k] /\ k < i
        BY <4>2, <4>3, <4>4
      <4> QED BY <3>1, <4>5 DEF Increasing
    <3> QED BY <3>2, <3>3
  <2>3. ASSUME ~f_foreign PROVE Scanner!NotCaughtUp
    BY <2>3 DEF ScannerOK, LineOK, Past, Elements, Scanner!NotCaughtUp, Scanner!Range
  <2> QED BY <2>1, <2>2, <2>3 DEF ScannerFollows, Scanner!ScannerFollows
<1> QED BY <1>1, ScannerInvariant, PTL

-----------------------------------------------------------------------------
(* A list that is loaded a page at a time, from both ends (RadioFeed).     *)
(* Of the list and of a page only their elements matter here, and that the *)
(* elements leave out none of F between two of them.                       *)
Whole(F, S) == \A s \in F, x, y \in S : x < s /\ s < y => s \in S

(* What is newer than something on a page that was read from the top lies  *)
(* on it; so if it has something of the list, the two leave no gap.        *)
LEMMA WholeOnTop ==
  ASSUME NEW F \in SUBSET Nat, NEW S \in SUBSET Nat, NEW R \in SUBSET Nat,
         Whole(F, S), Whole(F, R), \A x \in S, r \in R : r < x => x \in R,
         S = {} \/ R = {} \/ S \cap R # {}
  PROVE  Whole(F, S \cup R)
<1> SUFFICES ASSUME NEW s \in F, NEW x \in S \cup R, NEW y \in S \cup R, x < s, s < y,
                    s \notin S \cup R
             PROVE  FALSE
  BY DEF Whole
<1>1. x \in Nat /\ y \in Nat /\ s \in Nat
  OBVIOUS
<1>2. x < y
  BY <1>1
<1>3. CASE x \in R
  BY <1>2, <1>3 DEF Whole
<1>4. CASE x \in S /\ y \in S
  BY <1>4 DEF Whole
<1>5. CASE x \in S /\ y \in R
  <2>1. PICK z \in S : z \in R
    BY <1>5
  <2>2. z \in Nat
    OBVIOUS
  <2>3. s < z \/ z < s
    BY <1>1, <2>1, <2>2
  <2> QED BY <1>5, <2>1, <2>3 DEF Whole
<1> QED BY <1>3, <1>4, <1>5

(* Nor does one that was read from an element of the list on.              *)
LEMMA WholeBelow ==
  ASSUME NEW F \in SUBSET Nat, NEW S \in SUBSET Nat, NEW R \in SUBSET Nat, NEW n \in S,
         Whole(F, S), \A r \in R : r < n,
         \A s \in F, r \in R : r < s /\ s < n => s \in R
  PROVE  Whole(F, S \cup R)
<1> SUFFICES ASSUME NEW s \in F, NEW x \in S \cup R, NEW y \in S \cup R, x < s, s < y,
                    s \notin S \cup R
             PROVE  FALSE
  BY DEF Whole
<1>1. x \in Nat /\ y \in Nat /\ s \in Nat /\ n \in Nat
  OBVIOUS
<1>2. s < n \/ n < s
  BY <1>1
<1>3. CASE s < n
  <2>1. x \in S
    BY <1>3
  <2> QED BY <1>3, <2>1 DEF Whole
<1>4. CASE n < s
  <2>1. CASE y \in S
    BY <1>4, <2>1 DEF Whole
  <2>2. CASE y \in R
    <3>1. y < n
      BY <2>2
    <3> QED BY <1>1, <1>4, <3>1
  <2> QED BY <2>1, <2>2
<1> QED BY <1>2, <1>3, <1>4

(* A sequence of which nothing is taken away is as long as it was.         *)
LEMMA WithoutNone ==
  ASSUME NEW X, NEW s \in Seq(X), NEW T, Elements(s) \cap T = {}
  PROVE  Len(Without(s, T)) = Len(s)
<1> DEFINE S == {k \in DOMAIN s : s[k] \notin T}
           n == Len(s)
<1>1. n \in Nat /\ DOMAIN s = 1..n
  OBVIOUS
<1>2. S = 1..n
  BY <1>1 DEF Elements
<1>3. IsFiniteSet(1..n) /\ Cardinality(1..n) = n
  <2>1. 1 \in Int /\ n \in Int /\ 1 <= n + 1
    BY <1>1
  <2>2. IsFiniteSet(1..n) /\ Cardinality(1..n) = IF 1 > n THEN 0 ELSE n - 1 + 1
    BY ONLY <2>1, FS_Interval
  <2> QED BY <1>1, <2>2
<1>4. Without(s, T) = [i \in DOMAIN InOrder(S) |-> s[InOrder(S)[i]]]
  BY DEF Without
<1> HIDE DEF S
<1>5. DOMAIN InOrder(S) = 1..n
  BY <1>2, <1>3 DEF InOrder
<1> QED BY <1>1, <1>4, <1>5

(* Sequences in which nothing comes twice, ...                             *)
Different(q) == \A i, j \in DOMAIN q : q[i] = q[j] => i = j

(* ... also without some of their elements, ...                            *)
LEMMA WithoutDiffers ==
  ASSUME NEW X, NEW s \in Seq(X), NEW T, Different(s)
  PROVE  Different(Without(s, T))
<1> DEFINE S == {k \in DOMAIN s : s[k] \notin T}
           o == InOrder(S)
           w == Without(s, T)
           n == Cardinality(S)
<1>1. S \in SUBSET Int /\ IsFiniteSet(S) /\ S \subseteq DOMAIN s
  <2>1. Len(s) \in Nat /\ DOMAIN s = 1..Len(s)
    OBVIOUS
  <2>2. 1 \in Int /\ Len(s) \in Int
    BY <2>1
  <2>3. IsFiniteSet(1..Len(s))
    BY ONLY <2>2, FS_Interval
  <2> QED BY <2>1, <2>3, FS_Subset
<1> HIDE DEF S
<1>2. /\ n \in Nat /\ o \in [1..n -> S]
      /\ \A i, j \in 1..n : i < j => o[i] < o[j]
  BY <1>1, InOrderIs
<1>3. w = [i \in DOMAIN o |-> s[o[i]]]
  BY DEF Without, S
<1> HIDE DEF o, w, n
<1>4. DOMAIN w = 1..n /\ \A i \in 1..n : w[i] = s[o[i]]
  BY <1>2, <1>3
<1>5. ASSUME NEW i \in 1..n, NEW j \in 1..n, w[i] = w[j] PROVE i = j
  <2>1. o[i] \in S /\ o[j] \in S /\ s[o[i]] = s[o[j]]
    BY <1>2, <1>4, <1>5
  <2>2. o[i] = o[j]
    BY <1>1, <2>1 DEF Different
  <2>3. o[i] \in Int /\ o[j] \in Int
    BY <1>1, <2>1
  <2>4. i \in Int /\ j \in Int
    BY <1>2
  <2>5. ~(i < j) /\ ~(j < i)
    BY <1>2, <2>2, <2>3
  <2> QED BY <2>4, <2>5
<1> QED BY <1>4, <1>5 DEF Different, w

(* ... and one after another, when they share no element.                  *)
LEMMA JoinDiffers ==
  ASSUME NEW X, NEW s \in Seq(X), NEW t \in Seq(X), Different(s), Different(t),
         Elements(s) \cap Elements(t) = {}
  PROVE  Different(s \o t)
<1> DEFINE u == s \o t
           m == Len(s)
           n == Len(t)
<1>1. /\ m \in Nat /\ n \in Nat /\ DOMAIN s = 1..m /\ DOMAIN t = 1..n
      /\ DOMAIN u = 1..(m + n)
      /\ \A i \in 1..(m + n) : u[i] = IF i <= m THEN s[i] ELSE t[i - m]
  OBVIOUS
<1> HIDE DEF u, m, n
<1>2. \A i \in 1..m, j \in 1..n : s[i] # t[j]
  BY <1>1 DEF Elements
<1>3. ASSUME NEW i \in 1..(m + n), NEW j \in 1..(m + n), u[i] = u[j] PROVE i = j
  <2>1. i \in 1..m \/ i - m \in 1..n
    BY <1>1
  <2>2. j \in 1..m \/ j - m \in 1..n
    BY <1>1
  <2>3. CASE i <= m /\ j <= m
    BY <1>1, <1>3, <2>3 DEF Different
  <2>4. CASE i <= m /\ ~(j <= m)
    <3>1. i \in 1..m /\ j - m \in 1..n /\ u[i] = s[i] /\ u[j] = t[j - m]
      BY <1>1, <2>4
    <3> QED BY <1>2, <1>3, <3>1
  <2>5. CASE ~(i <= m) /\ j <= m
    <3>1. j \in 1..m /\ i - m \in 1..n /\ u[j] = s[j] /\ u[i] = t[i - m]
      BY <1>1, <2>5
    <3> QED BY <1>2, <1>3, <3>1
  <2>6. CASE ~(i <= m) /\ ~(j <= m)
    <3>1. i - m \in DOMAIN t /\ j - m \in DOMAIN t /\ t[i - m] = t[j - m]
      BY <1>1, <1>3, <2>6
    <3>2. i - m = j - m
      BY <3>1 DEF Different
    <3> QED BY <1>1, <3>2
  <2> QED BY <2>3, <2>4, <2>5, <2>6
<1> QED BY <1>1, <1>3 DEF Different, u

(* Of a finite set of numbers n at most have fewer than n larger ones.     *)
LEMMA NewestAreFew ==
  ASSUME NEW S \in SUBSET Int, IsFiniteSet(S), NEW n \in Nat
  PROVE  Cardinality({s \in S : Cardinality({t \in S : t > s}) < n}) <= n
<1> DEFINE Above(s) == {t \in S : t > s}
           R == {s \in S : Cardinality(Above(s)) < n}
           rank == [s \in R |-> Cardinality(Above(s))]
           I == 0..(n - 1)
<1>1. ASSUME NEW s \in S
      PROVE  IsFiniteSet(Above(s)) /\ Cardinality(Above(s)) \in Nat
  <2>1. Above(s) \subseteq S
    OBVIOUS
  <2> HIDE DEF Above
  <2> QED BY <2>1, FS_Subset, FS_CardinalityType
<1>2. ASSUME NEW s \in S, NEW t \in S, s < t
      PROVE  Cardinality(Above(t)) < Cardinality(Above(s))
  <2>1. Above(t) \in SUBSET Above(s) /\ t \in Above(s) /\ t \notin Above(t)
    <3>1. t \in Above(s) /\ t \notin Above(t)
      BY <1>2
    <3>2. \A r \in S : r > t => r > s
      BY <1>2
    <3> QED BY <3>1, <3>2
  <2> HIDE DEF Above
  <2>2. /\ Cardinality(Above(t)) <= Cardinality(Above(s))
        /\ Cardinality(Above(s)) = Cardinality(Above(t)) => Above(s) = Above(t)
    BY <1>1, <2>1, FS_Subset
  <2> QED BY <1>1, <2>1, <2>2
<1>3. R \subseteq S /\ \A s \in R : rank[s] = Cardinality(Above(s)) /\ rank[s] < n
  OBVIOUS
<1>4. rank \in [R -> I]
  <2>1. \A s \in R : Cardinality(Above(s)) \in I
    <3> HIDE DEF Above
    <3> QED BY <1>1
  <2> HIDE DEF Above, R, I
  <2> QED BY <2>1
<1> HIDE DEF Above, R, rank, I
<1>5. \A s, t \in R : rank[s] = rank[t] => s = t
  <2> TAKE s, t \in R
  <2>1. s < t \/ t < s \/ s = t
    BY <1>3
  <2>2. /\ s < t => Cardinality(Above(t)) < Cardinality(Above(s))
        /\ t < s => Cardinality(Above(s)) < Cardinality(Above(t))
    BY <1>2, <1>3
  <2> QED BY <1>1, <1>3, <2>1, <2>2
<1>6. rank \in Injection(R, I)
  BY <1>4, <1>5 DEF Injection, IsInjective
<1>7. IsFiniteSet(I) /\ Cardinality(I) = n
  <2>1. 0 \in Int /\ n - 1 \in Int
    OBVIOUS
  <2>2. /\ IsFiniteSet(0..(n - 1))
        /\ Cardinality(0..(n - 1)) = IF 0 > n - 1 THEN 0 ELSE (n - 1) - 0 + 1
    BY ONLY <2>1, FS_Interval
  <2> QED BY <2>2 DEF I
<1>8. Cardinality(R) <= n
  BY <1>6, <1>7, FS_Injection
<1> QED BY <1>8 DEF R, Above

(* A set in order from the largest number on.                              *)
LEMMA DownwardIs ==
  ASSUME NEW S \in SUBSET Int, IsFiniteSet(S)
  PROVE  /\ Feed!Reverse(InOrder(S)) \in Seq(S)
         /\ Elements(Feed!Reverse(InOrder(S))) = S
         /\ Different(Feed!Reverse(InOrder(S)))
         /\ Len(Feed!Reverse(InOrder(S))) = Cardinality(S)
<1> DEFINE o == InOrder(S)
           r == Feed!Reverse(o)
           n == Cardinality(S)
<1>1. /\ n \in Nat /\ o \in [1..n -> S]
      /\ \A i, j \in 1..n : i < j => o[i] < o[j]
      /\ \A s \in S : \E i \in 1..n : o[i] = s
  BY InOrderIs
<1> HIDE DEF o, n
<1>2. Len(o) = n
  BY <1>1
<1>3. r = [i \in 1..n |-> o[(n - i) + 1]]
  BY <1>2 DEF Feed!Reverse
<1> HIDE DEF r
<1>4. \A i \in 1..n : (n - i) + 1 \in 1..n /\ r[(n - i) + 1] = o[i] /\ r[i] \in S
  <2> TAKE i \in 1..n
  <2>1. (n - i) + 1 \in 1..n /\ (n - ((n - i) + 1)) + 1 = i
    BY <1>1
  <2> QED BY <1>1, <1>3, <2>1
<1>5. r \in [1..n -> S]
  BY <1>3, <1>4
<1>6. \A s \in S : s \in Elements(r)
  <2> TAKE s \in S
  <2>1. PICK i \in 1..n : o[i] = s
    BY <1>1
  <2>2. (n - i) + 1 \in DOMAIN r /\ r[(n - i) + 1] = s
    BY <1>4, <1>5, <2>1
  <2> QED BY <2>2 DEF Elements
<1>7. \A s \in Elements(r) : s \in S
  BY <1>5 DEF Elements
<1>8. r \in Seq(S) /\ Len(r) = n
  BY <1>1, <1>5
<1>9. ASSUME NEW i \in 1..n, NEW j \in 1..n, r[i] = r[j] PROVE i = j
  <2>1. (n - i) + 1 \in 1..n /\ (n - j) + 1 \in 1..n
    BY <1>1
  <2>2. o[(n - i) + 1] = o[(n - j) + 1]
    BY <1>3, <1>9
  <2>3. o[(n - i) + 1] \in Int
    BY <1>1, <2>1
  <2>4. ~((n - i) + 1 < (n - j) + 1) /\ ~((n - j) + 1 < (n - i) + 1)
    BY <1>1, <2>1, <2>2, <2>3
  <2> QED BY <1>1, <2>4
<1>10. Different(r)
  BY <1>5, <1>9 DEF Different
<1> QED BY <1>6, <1>7, <1>8, <1>10 DEF r, o, n

-----------------------------------------------------------------------------
Cards == Elements(p_list)
Rows  == Elements(Feed!Ids)

(* The list grows at its ends, and the cursor is one of its cards; ...     *)
FeedTypes ==
  /\ IsFiniteSet(p_stored) /\ p_stored \subseteq Entry
  /\ p_list \in Seq(Entry) /\ Cards \subseteq p_stored
  /\ (~p_loaded => p_list = <<>>) /\ (p_ask = "first" => p_list = <<>>)
  /\ p_ask \in {"no", "first", "newest", "older"}
  /\ p_ask = "newest" => p_loaded
  /\ p_nextBefore \in Cards \cup {0}
  /\ p_ask = "older" => p_nextBefore # 0
  /\ p_editing \subseteq Cards

(* ... a page was read from the top or from the cursor on and leaves out   *)
(* nothing in between, but what was stored late; ...                       *)
PageOK ==
  p_reply.read =>
    /\ Feed!Ids \in Seq(Entry) /\ Rows \subseteq Feed!Found(p_query)
    /\ p_reply.more => Feed!Ids # <<>>
    /\ p_ask = "older" =>
         /\ \A r \in Rows : r < p_nextBefore
         /\ \A s \in Feed!Found(p_query) \ p_late, r \in Rows :
              r < s /\ s < p_nextBefore => s \in Rows
    /\ p_ask # "older" => Whole(Feed!Found(p_query) \ p_late, Rows)
    /\ p_ask = "newest" /\ ~p_mixed =>
         /\ \A x \in Cards, r \in Rows : r < x => x \in Rows
         /\ p_reply.more \/ Cards \subseteq Rows

(* ... and so does the list.                                               *)
ListOK ==
  ~p_mixed =>
    /\ Cards \subseteq Feed!Found(p_query)
    /\ p_torn \/ Whole(Feed!Found(p_query) \ p_late, Cards)

RadioListOK == FeedTypes /\ PageOK /\ ListOK

LEMMA FeedRange == \A f : Feed!Range(f) = Elements(f)
BY DEF Feed!Range, Elements

LEMMA FeedOrders == /\ \A S : Feed!InOrder(S) = InOrder(S)
                    /\ \A s, T : Feed!Without(s, T) = Without(s, T)
<1>1. \A S : Feed!InOrder(S) = InOrder(S)
  BY Zenon DEF Feed!InOrder, InOrder, Feed!Cardinality, Cardinality
<1>2. \A s, T : Feed!Without(s, T) = Without(s, T)
  BY <1>1 DEF Feed!Without, Without
<1> QED BY <1>1, <1>2

LEMMA FeedShown == Feed!Shown = Cards
BY FeedRange DEF Feed!Shown, Cards

LEMMA NoRows == Elements(<<>>) = {} /\ \A F : Whole(F, {})
BY DEF Elements, Whole

LEMMA FreshIs ==
  ASSUME FeedTypes, PageOK, p_reply.read
  PROVE  /\ Feed!Fresh \in Seq(Entry) /\ Elements(Feed!Fresh) = Rows \ Cards
         /\ Rows \cap Cards = {} => Len(Feed!Fresh) = Len(Feed!Ids)
<1>1. Feed!Fresh = Without(Feed!Ids, Cards)
  BY FeedOrders, FeedShown DEF Feed!Fresh
<1>2. Feed!Ids \in Seq(Entry)
  BY DEF PageOK
<1> QED BY <1>1, <1>2, WithoutIs, WithoutNone DEF Rows

(* Nothing the list depends on changes, but drafts.                        *)
LEMMA FeedStays ==
  ASSUME RadioListOK, p_editing' \subseteq Cards,
         UNCHANGED <<p_stored, p_late, p_loaded, p_list, p_nextBefore, p_ask, p_query,
                     p_reply, p_mixed, p_torn>>
  PROVE  RadioListOK'
<1>1. Cards' = Cards /\ Rows' = Rows /\ Feed!Ids' = Feed!Ids
  BY DEF Cards, Rows, Feed!Ids
<1>2. Feed!Found(p_query)' = Feed!Found(p_query)
  BY DEF Feed!Found
<1>3. FeedTypes'
  BY <1>1 DEF RadioListOK, FeedTypes
<1>4. PageOK'
  BY <1>1, <1>2 DEF RadioListOK, PageOK, Whole
<1>5. ListOK'
  BY <1>1, <1>2 DEF RadioListOK, ListOK, Whole
<1> QED BY <1>3, <1>4, <1>5 DEF RadioListOK

(* The list is loaded anew.                                                *)
LEMMA LoadFirstKeeps ==
  ASSUME RadioListOK, Feed!LoadFirst, p_editing = {}, UNCHANGED <<p_stored, p_late>>
  PROVE  RadioListOK'
<1>1. /\ p_loaded' = FALSE /\ p_list' = <<>> /\ p_nextBefore' = 0 /\ p_ask' = "first"
      /\ p_reply' = Feed!NoPage /\ p_editing' = {} /\ p_mixed' = FALSE
  BY DEF Feed!LoadFirst, Feed!Send
<1>2. Cards' = {}
  BY <1>1, NoRows DEF Cards
<1>3. FeedTypes'
  BY <1>1, <1>2 DEF RadioListOK, FeedTypes
<1>4. ~p_reply'.read
  BY <1>1 DEF Feed!NoPage
<1> QED BY <1>2, <1>3, <1>4, NoRows DEF RadioListOK, PageOK, ListOK

(* A request goes out, is answered or fails: no page is there.             *)
LEMMA NothingRead ==
  ASSUME RadioListOK, ~p_reply'.read, p_ask' \in {"no", "newest", "older"},
         p_ask' = "newest" => p_loaded, p_ask' = "older" => p_nextBefore # 0,
         p_mixed' \/ (~p_mixed /\ p_query' = p_query),
         UNCHANGED <<p_stored, p_late, p_loaded, p_list, p_nextBefore, p_editing, p_torn>>
  PROVE  RadioListOK'
<1>1. Cards' = Cards
  BY DEF Cards
<1>2. FeedTypes'
  BY <1>1 DEF RadioListOK, FeedTypes
<1>3. ListOK'
  BY <1>1 DEF RadioListOK, ListOK, Feed!Found, Whole
<1> QED BY <1>2, <1>3 DEF RadioListOK, PageOK

(* A new segment is stored: it is the newest of all, or late.              *)
LEMMA FeedArrives ==
  ASSUME FeedConstants, RadioListOK, NEW s \in Entry, Feed!Arrive(s)
  PROVE  RadioListOK'
<1>1. /\ p_stored' = p_stored \cup {s}
      /\ p_late' = p_late \cup {t \in {s} : \E u \in p_stored : u > t}
      /\ p_loaded' = p_loaded /\ p_list' = p_list /\ p_nextBefore' = p_nextBefore
      /\ p_ask' = p_ask /\ p_query' = p_query /\ p_reply' = p_reply
      /\ p_editing' = p_editing /\ p_mixed' = p_mixed /\ p_torn' = p_torn
  BY DEF Feed!Arrive, Feed!tab, Feed!asking, Feed!cards
<1>2. Cards' = Cards /\ Rows' = Rows /\ Feed!Ids' = Feed!Ids
  BY <1>1 DEF Cards, Rows, Feed!Ids
<1> DEFINE F == Feed!Found(p_query)
           G == Feed!Found(p_query)'
<1>3. F \subseteq G /\ F \subseteq p_stored
  BY <1>1 DEF Feed!Found
<1>4. \A t \in G \ p_late' : t \in F \ p_late \/ \A u \in p_stored : ~(t < u)
  <2> TAKE t \in G \ p_late'
  <2>1. t \in F \/ t = s
    BY <1>1 DEF Feed!Found
  <2>2. t = s => \A u \in p_stored : ~(u > t)
    BY <1>1
  <2>3. s \in Nat /\ p_stored \subseteq Nat
    BY DEF FeedConstants, RadioListOK, FeedTypes
  <2> QED BY <1>1, <2>1, <2>2, <2>3
<1>5. Cards \subseteq p_stored /\ p_nextBefore \in Cards \cup {0}
      /\ (p_ask = "older" => p_nextBefore \in p_stored)
  BY DEF RadioListOK, FeedTypes
<1>6. FeedTypes'
  <2>1. IsFiniteSet(p_stored')
    BY <1>1, FS_AddElement DEF RadioListOK, FeedTypes
  <2>2. p_stored' \subseteq Entry /\ Cards' \subseteq p_stored'
    BY <1>1, <1>2, <1>5 DEF RadioListOK, FeedTypes
  <2> QED BY <1>1, <1>2, <2>1, <2>2 DEF RadioListOK, FeedTypes
<1> HIDE DEF F, G
<1>7. PageOK'
  <2> SUFFICES ASSUME p_reply.read PROVE PageOK'
    BY <1>1 DEF PageOK
  <2>1. /\ Feed!Ids \in Seq(Entry) /\ Rows \subseteq F
        /\ p_reply.more => Feed!Ids # <<>>
        /\ p_ask = "older" =>
             /\ \A r \in Rows : r < p_nextBefore
             /\ \A t \in F \ p_late, r \in Rows : r < t /\ t < p_nextBefore => t \in Rows
        /\ p_ask # "older" => Whole(F \ p_late, Rows)
        /\ p_ask = "newest" /\ ~p_mixed =>
             /\ \A x \in Cards, r \in Rows : r < x => x \in Rows
             /\ p_reply.more \/ Cards \subseteq Rows
    BY DEF RadioListOK, PageOK, F
  <2>2. Rows \subseteq G /\ Rows \subseteq p_stored
    BY <1>3, <2>1
  <2>3. p_ask = "older" =>
          \A t \in G \ p_late', r \in Rows : r < t /\ t < p_nextBefore => t \in Rows
    BY <1>4, <1>5, <2>1
  <2>4. p_ask # "older" => Whole(G \ p_late', Rows)
    BY <1>4, <2>1, <2>2 DEF Whole
  <2> QED BY <1>1, <1>2, <2>1, <2>2, <2>3, <2>4 DEF PageOK, G
<1>8. ListOK'
  <2> SUFFICES ASSUME ~p_mixed PROVE ListOK'
    BY <1>1 DEF ListOK
  <2>1. Cards \subseteq F /\ (p_torn \/ Whole(F \ p_late, Cards))
    BY DEF RadioListOK, ListOK, F
  <2>2. Cards \subseteq G
    BY <1>3, <2>1
  <2>3. p_torn \/ Whole(G \ p_late', Cards)
    BY <1>4, <1>5, <2>1 DEF Whole
  <2> QED BY <1>1, <1>2, <2>2, <2>3 DEF ListOK, G
<1> QED BY <1>6, <1>7, <1>8 DEF RadioListOK

(* The server reads a page.                                                *)
LEMMA ReadIs ==
  ASSUME FeedConstants, RadioListOK, Feed!Read
  PROVE  LET rest == IF p_ask = "older"
                       THEN {s \in Feed!Found(p_query) : s < p_nextBefore}
                       ELSE Feed!Found(p_query)
         IN  /\ Feed!Ids' \in Seq(Entry) /\ Rows' \subseteq rest
             /\ \A s \in rest, r \in Rows' : r < s => s \in Rows'
             /\ p_reply'.more <=> Rows' # rest
             /\ p_reply'.more => Feed!Ids' # <<>>
             /\ Different(Feed!Ids') /\ Len(Feed!Ids') <= ListPage
             /\ p_reply'.rows = [i \in DOMAIN Feed!Ids' |->
                                  [id |-> Feed!Ids'[i], text |-> p_text[Feed!Ids'[i]]]]
<1> DEFINE rest == IF p_ask = "older" THEN Feed!Found(p_query) \cap Feed!Older(p_nextBefore)
                                      ELSE Feed!Found(p_query)
           newer(s) == {t \in rest : t > s}
           rows == {s \in rest : Cardinality(newer(s)) < ListPage}
           page == Feed!Reverse(InOrder(rows))
<1>1. /\ p_stored \subseteq Nat /\ IsFiniteSet(p_stored) /\ p_stored \subseteq Entry
      /\ Feed!Found(p_query) \subseteq p_stored
  BY DEF FeedConstants, RadioListOK, FeedTypes, Feed!Found
<1>2. rest = (IF p_ask = "older" THEN {s \in Feed!Found(p_query) : s < p_nextBefore}
                                 ELSE Feed!Found(p_query))
  BY <1>1 DEF Feed!Older
<1>3. rest \subseteq p_stored /\ rest \subseteq Nat /\ IsFiniteSet(rest)
  <2>1. rest \subseteq p_stored
    BY <1>1
  <2> HIDE DEF rest
  <2> QED BY <1>1, <2>1, FS_Subset
<1>4. p_reply' = [rows |-> [i \in DOMAIN page |-> [id |-> page[i], text |-> p_text[page[i]]]],
                  more |-> rows # rest, read |-> TRUE]
  BY Zenon, FeedOrders DEF Feed!Read, Feed!Cardinality, Cardinality
<1> HIDE DEF rest
<1>5. \A s : IsFiniteSet(newer(s)) /\ Cardinality(newer(s)) \in Nat
  <2> TAKE s
  <2>1. newer(s) \subseteq rest
    OBVIOUS
  <2> HIDE DEF newer
  <2> QED BY <1>3, <2>1, FS_Subset, FS_CardinalityType
<1>6. \A s \in rest, r \in rows : r < s => s \in rows
  <2> SUFFICES ASSUME NEW s \in rest, NEW r \in rows, r < s PROVE s \in rows
    OBVIOUS
  <2>1. r \in rest /\ Cardinality(newer(r)) < ListPage
    OBVIOUS
  <2>2. newer(s) \subseteq newer(r)
    <3> HIDE DEF rows
    <3>1. r \in Nat /\ s \in Nat
      BY <1>3, <2>1
    <3>2. \A t \in rest : t > s => t > r
      BY <1>3, <3>1
    <3> QED BY <3>2
  <2> HIDE DEF newer
  <2>3. Cardinality(newer(s)) <= Cardinality(newer(r))
    BY <1>5, <2>2, FS_Subset
  <2>4. Cardinality(newer(s)) < ListPage
    BY <1>5, <2>1, <2>3 DEF FeedConstants
  <2> QED BY <2>4
<1>7. rows \subseteq rest /\ rows \in SUBSET Int /\ IsFiniteSet(rows)
  <2>1. rows \subseteq rest
    OBVIOUS
  <2> HIDE DEF rows
  <2>2. IsFiniteSet(rows)
    BY <1>3, <2>1, FS_Subset
  <2>3. rows \subseteq Int
    BY <1>3, <2>1
  <2> QED BY <2>1, <2>2, <2>3
<1>8. Cardinality(rows) <= ListPage
  BY <1>3, NewestAreFew DEF FeedConstants
<1>9. rows # rest => rows # {}
  <2> SUFFICES ASSUME rest # {} PROVE rows # {}
    BY <1>7
  <2>1. rest \in SUBSET Int
    BY <1>3
  <2>2. PICK n \in rest : \A m \in rest : m <= n
    BY <1>3, <2>1, GreatestOf
  <2>3. newer(n) = {}
    <3> HIDE DEF rows
    <3>1. \A m \in rest : ~(m > n)
      BY <1>3, <2>2
    <3> QED BY <3>1
  <2>4. Cardinality(newer(n)) = 0
    BY <2>3, FS_EmptySet
  <2>5. n \in rows
    BY <2>4 DEF FeedConstants
  <2> QED BY <2>5
<1> HIDE DEF rows
<1>10. /\ page \in Seq(rows) /\ Elements(page) = rows
      /\ Different(page) /\ Len(page) = Cardinality(rows)
  BY <1>7, DownwardIs
<1> HIDE DEF page
<1>11. Feed!Ids' = page
  <2>1. /\ DOMAIN p_reply'.rows = DOMAIN page
        /\ \A i \in DOMAIN page : p_reply'.rows[i].id = page[i]
    BY <1>4
  <2>2. Feed!Ids' = [i \in DOMAIN page |-> page[i]]
    BY <2>1 DEF Feed!Ids
  <2> QED BY <1>10, <2>2
<1>12. Rows' = rows
  BY <1>10, <1>11 DEF Rows
<1>13. page \in Seq(Entry)
  <2>1. rows \subseteq Entry
    BY <1>1, <1>3, <1>7
  <2> QED BY <1>10, <2>1
<1>14. p_reply'.more <=> rows # rest
  BY <1>4
<1>15. rows # {} => page # <<>>
  BY <1>10, NoRows
<1>16. p_reply'.rows = [i \in DOMAIN page |-> [id |-> page[i], text |-> p_text[page[i]]]]
  BY <1>4
<1> QED BY <1>2, <1>6, <1>7, <1>8, <1>9, <1>10, <1>11, <1>12, <1>13, <1>14, <1>15, <1>16

LEMMA PageIsRead ==
  ASSUME FeedConstants, RadioListOK, Feed!Read
  PROVE  RadioListOK'
<1> DEFINE F == Feed!Found(p_query)
           rest == IF p_ask = "older" THEN {s \in F : s < p_nextBefore} ELSE F
<1>1. /\ Feed!Ids' \in Seq(Entry) /\ Rows' \subseteq rest
      /\ \A s \in rest, r \in Rows' : r < s => s \in Rows'
      /\ p_reply'.more <=> Rows' # rest
      /\ p_reply'.more => Feed!Ids' # <<>>
  BY ReadIs
<1>2. /\ p_stored' = p_stored /\ p_late' = p_late /\ p_loaded' = p_loaded
      /\ p_list' = p_list /\ p_nextBefore' = p_nextBefore /\ p_ask' = p_ask
      /\ p_query' = p_query /\ p_editing' = p_editing /\ p_mixed' = p_mixed
      /\ p_torn' = p_torn
  BY DEF Feed!Read, Feed!server, Feed!tab, Feed!cards
<1>3. Cards' = Cards /\ Feed!Found(p_query)' = F
  BY <1>2 DEF Cards, Feed!Found
<1>4. FeedTypes' /\ ListOK'
  BY <1>2, <1>3 DEF RadioListOK, FeedTypes, ListOK, Whole
<1>5. ~p_mixed => Cards \subseteq F
  BY DEF RadioListOK, ListOK
<1> HIDE DEF F
<1>6. Rows' \subseteq F /\ (p_ask = "older" => \A r \in Rows' : r < p_nextBefore)
  BY <1>1
<1>7. p_ask = "older" =>
        \A s \in F \ p_late, r \in Rows' : r < s /\ s < p_nextBefore => s \in Rows'
  BY <1>1
<1>8. p_ask # "older" => Whole(F \ p_late, Rows')
  BY <1>1 DEF Whole
<1>9. p_ask = "newest" /\ ~p_mixed =>
        /\ \A x \in Cards, r \in Rows' : r < x => x \in Rows'
        /\ p_reply'.more \/ Cards \subseteq Rows'
  BY <1>1, <1>5
<1>10. PageOK'
  BY <1>1, <1>2, <1>3, <1>6, <1>7, <1>8, <1>9 DEF PageOK
<1> QED BY <1>4, <1>10 DEF RadioListOK

(* A page is put on top of the list or at its end.                         *)
LEMMA CardsAdded ==
  ASSUME FeedConstants, RadioListOK, p_reply.read,
         p_list' \in {Feed!Fresh \o p_list, p_list \o Feed!Fresh},
         p_ask' = "no", p_reply' = Feed!NoPage,
         p_loaded', p_nextBefore' \in {0, p_nextBefore} \cup Rows,
         p_torn' \/ p_mixed \/ Whole(Feed!Found(p_query) \ p_late, Cards \cup Rows),
         UNCHANGED <<p_stored, p_late, p_editing, p_query, p_mixed>>
  PROVE  RadioListOK'
<1>1. /\ p_list \in Seq(Entry) /\ Feed!Fresh \in Seq(Entry)
      /\ Elements(Feed!Fresh) = Rows \ Cards
  BY FreshIs DEF RadioListOK, FeedTypes
<1>2. p_list' \in Seq(Entry) /\ Cards' = Cards \cup Rows
  <2>1. /\ Feed!Fresh \o p_list \in Seq(Entry)
        /\ Elements(Feed!Fresh \o p_list) = Elements(Feed!Fresh) \cup Elements(p_list)
    BY <1>1, ElementsJoined
  <2>2. /\ p_list \o Feed!Fresh \in Seq(Entry)
        /\ Elements(p_list \o Feed!Fresh) = Elements(p_list) \cup Elements(Feed!Fresh)
    BY <1>1, ElementsJoined
  <2>3. Cards' = (Rows \ Cards) \cup Cards
    BY <1>1, <2>1, <2>2 DEF Cards
  <2> QED BY <2>1, <2>2, <2>3
<1>3. Feed!Found(p_query)' = Feed!Found(p_query) /\ Feed!Found(p_query) \subseteq p_stored
  BY DEF Feed!Found
<1>4. Rows \subseteq Feed!Found(p_query)
  BY DEF RadioListOK, PageOK
<1>5. FeedTypes'
  BY <1>2, <1>3, <1>4 DEF RadioListOK, FeedTypes
<1>6. ~p_reply'.read
  BY DEF Feed!NoPage
<1>7. ListOK'
  BY <1>2, <1>3, <1>4 DEF RadioListOK, ListOK
<1> QED BY <1>5, <1>6, <1>7 DEF RadioListOK, PageOK

LEMMA InNumbers ==
  ASSUME FeedConstants, RadioListOK, p_reply.read
  PROVE  /\ Feed!Found(p_query) \ p_late \in SUBSET Nat
         /\ Cards \in SUBSET Nat /\ Rows \in SUBSET Nat
BY DEF FeedConstants, RadioListOK, FeedTypes, PageOK, Feed!Found

LEMMA BottomKeeps ==
  ASSUME FeedConstants, RadioListOK, Feed!ReceivePage
  PROVE  RadioListOK'
<1> DEFINE F == Feed!Found(p_query) \ p_late
<1>1. /\ p_ask \in {"first", "older"} /\ p_reply.read /\ p_list' = p_list \o Feed!Fresh
      /\ p_loaded' = TRUE /\ p_ask' = "no" /\ p_reply' = Feed!NoPage /\ p_query' = p_query
      /\ p_nextBefore' = (IF p_reply.more THEN Feed!Last(Feed!Ids) ELSE 0)
      /\ p_stored' = p_stored /\ p_late' = p_late /\ p_editing' = p_editing
      /\ p_mixed' = p_mixed /\ p_torn' = p_torn
  BY DEF Feed!ReceivePage, Feed!Cursor, Feed!Answered, Feed!server, Feed!cards
<1>2. p_nextBefore' \in {0, p_nextBefore} \cup Rows
  <2> SUFFICES ASSUME p_reply.more PROVE Feed!Last(Feed!Ids) \in Rows
    BY <1>1
  <2>1. Feed!Ids \in Seq(Entry) /\ Feed!Ids # <<>>
    BY <1>1 DEF RadioListOK, PageOK
  <2>2. Len(Feed!Ids) \in DOMAIN Feed!Ids
    BY <2>1
  <2> QED BY <2>2 DEF Feed!Last, Rows, Elements
<1>3. p_torn' \/ p_mixed \/ Whole(F, Cards \cup Rows)
  <2> SUFFICES ASSUME ~p_torn, ~p_mixed PROVE Whole(F, Cards \cup Rows)
    BY <1>1
  <2>1. Whole(F, Cards)
    BY DEF RadioListOK, ListOK
  <2>2. CASE p_ask = "first"
    <3>1. Cards = {}
      BY <2>2, NoRows DEF RadioListOK, FeedTypes, Cards
    <3>2. Whole(F, Rows)
      BY <1>1, <2>2 DEF RadioListOK, PageOK
    <3>3. Cards \cup Rows = Rows
      BY <3>1
    <3> QED BY <3>2, <3>3
  <2>3. CASE p_ask = "older"
    <3>1. p_nextBefore \in Cards
      BY <2>3 DEF RadioListOK, FeedTypes
    <3>2. /\ \A r \in Rows : r < p_nextBefore
          /\ \A s \in F, r \in Rows : r < s /\ s < p_nextBefore => s \in Rows
      BY <1>1, <2>3 DEF RadioListOK, PageOK
    <3>3. F \in SUBSET Nat /\ Cards \in SUBSET Nat /\ Rows \in SUBSET Nat
      BY <1>1, InNumbers
    <3> HIDE DEF F
    <3> QED BY <2>1, <3>1, <3>2, <3>3, WholeBelow
  <2> QED BY <1>1, <2>2, <2>3
<1> QED BY <1>1, <1>2, <1>3, CardsAdded

LEMMA TopKeeps ==
  ASSUME FeedConstants, RadioListOK, Feed!ReceiveNewest
  PROVE  RadioListOK'
<1> DEFINE F == Feed!Found(p_query) \ p_late
<1>1. /\ p_ask = "newest" /\ p_reply.read /\ p_list' = Feed!Fresh \o p_list
      /\ p_loaded' = p_loaded /\ p_ask' = "no" /\ p_reply' = Feed!NoPage
      /\ p_query' = p_query /\ p_nextBefore' = p_nextBefore
      /\ p_stored' = p_stored /\ p_late' = p_late /\ p_editing' = p_editing
      /\ p_mixed' = p_mixed /\ p_torn' = (p_torn \/ Feed!Gap)
  BY DEF Feed!ReceiveNewest, Feed!Newest, Feed!Answered, Feed!server, Feed!cards
<1>2. p_loaded
  BY <1>1 DEF RadioListOK, FeedTypes
<1>3. p_torn' \/ p_mixed \/ Whole(F, Cards \cup Rows)
  <2> SUFFICES ASSUME ~p_torn, ~Feed!Gap, ~p_mixed PROVE Whole(F, Cards \cup Rows)
    BY <1>1
  <2>1. Whole(F, Cards)
    BY DEF RadioListOK, ListOK
  <2>2. /\ Whole(F, Rows) /\ \A x \in Cards, r \in Rows : r < x => x \in Rows
        /\ p_reply.more \/ Cards \subseteq Rows
    BY <1>1 DEF RadioListOK, PageOK
  <2>3. Cards = {} \/ Rows = {} \/ Cards \cap Rows # {}
    <3> SUFFICES ASSUME Cards # {}, Rows # {}, Rows \cap Cards = {} PROVE FALSE
      OBVIOUS
    <3>1. p_reply.more
      BY <2>2
    <3>2. p_list # <<>> /\ p_reply.rows # <<>>
      BY NoRows DEF Cards, Rows, Feed!Ids, Elements
    <3>3. Len(Feed!Fresh) = Len(Feed!Ids)
      BY <1>1, FreshIs DEF RadioListOK
    <3> QED BY <3>1, <3>2, <3>3 DEF Feed!Gap
  <2>4. F \in SUBSET Nat /\ Cards \in SUBSET Nat /\ Rows \in SUBSET Nat
    BY <1>1, InNumbers
  <2> HIDE DEF F
  <2> QED BY <2>1, <2>2, <2>3, <2>4, WholeOnTop
<1> QED BY <1>1, <1>2, <1>3, CardsAdded

LEMMA FeedBegins == FeedConstants /\ Feed!Init => RadioListOK
<1> SUFFICES ASSUME FeedConstants, Feed!Init PROVE RadioListOK
  OBVIOUS
<1>1. /\ p_stored = FirstEntries /\ p_list = <<>> /\ p_loaded = FALSE /\ p_ask = "first"
      /\ p_nextBefore = 0 /\ p_editing = {} /\ p_reply = Feed!NoPage
  BY DEF Feed!Init
<1>2. Cards = {}
  BY <1>1, NoRows DEF Cards
<1>3. ~p_reply.read
  BY <1>1 DEF Feed!NoPage
<1>4. FeedTypes
  BY <1>1, <1>2 DEF FeedTypes, FeedConstants
<1> QED BY <1>2, <1>3, <1>4, NoRows DEF RadioListOK, PageOK, ListOK

LEMMA FeedNext == FeedConstants /\ RadioListOK /\ [Feed!Next]_(Feed!vars) => RadioListOK'
<1> SUFFICES ASSUME FeedConstants, RadioListOK, [Feed!Next]_(Feed!vars) PROVE RadioListOK'
  OBVIOUS
<1> USE DEF Feed!server, Feed!tab, Feed!asking, Feed!cards
<1>1. p_editing \subseteq Cards /\ Feed!Shown = Cards
  BY FeedShown DEF RadioListOK, FeedTypes
<1>2. ASSUME NEW s \in Entry,
             \/ Feed!EditElsewhere(s) \/ Feed!OpenEditor(s) \/ Feed!Cancel(s)
             \/ Feed!Save(s) \/ Feed!Commit(s) \/ Feed!Saved(s) \/ Feed!SaveFails(s)
             \/ Feed!SavedOld(s)
      PROVE  RadioListOK'
  <2>1. UNCHANGED <<p_stored, p_late, p_loaded, p_list, p_nextBefore, p_ask, p_query,
                    p_reply, p_mixed, p_torn>>
    BY <1>2 DEF Feed!EditElsewhere, Feed!OpenEditor, Feed!Cancel, Feed!Save, Feed!Commit,
                Feed!Saved, Feed!SaveFails, Feed!SavedOld
  <2>2. p_editing' \subseteq p_editing \/ (s \in Feed!Shown /\ p_editing' = p_editing \cup {s})
    BY <1>2 DEF Feed!EditElsewhere, Feed!OpenEditor, Feed!Cancel, Feed!Save, Feed!Commit,
                Feed!Saved, Feed!SaveFails, Feed!SavedOld
  <2> QED BY <1>1, <2>1, <2>2, FeedStays
<1>3. CASE Feed!Type
  BY <1>1, <1>3, FeedStays DEF Feed!Type
<1>4. CASE Feed!Reload
  <2>1. Feed!LoadFirst /\ p_editing \cap Feed!Shown = {} /\ UNCHANGED <<p_stored, p_late>>
    BY <1>4 DEF Feed!Reload, Feed!Drafts
  <2> QED BY <1>1, <2>1, LoadFirstKeeps
<1>5. CASE Feed!Refresh
  <2>1. CASE p_loaded
    <3>1. /\ p_ask' = "newest" /\ p_reply' = Feed!NoPage /\ p_query' = p_narrow
          /\ p_mixed' = (p_mixed \/ p_query # p_narrow)
          /\ UNCHANGED <<p_stored, p_late, p_loaded, p_list, p_nextBefore, p_editing, p_torn>>
      BY <1>5, <2>1 DEF Feed!Refresh, Feed!Send
    <3>2. ~p_reply'.read
      BY <3>1 DEF Feed!NoPage
    <3> QED BY <2>1, <3>1, <3>2, NothingRead
  <2>2. CASE ~p_loaded
    <3>1. Feed!LoadFirst /\ UNCHANGED <<p_stored, p_late>>
      BY <1>5, <2>2 DEF Feed!Refresh
    <3>2. Cards = {}
      BY <2>2, NoRows DEF RadioListOK, FeedTypes, Cards
    <3> QED BY <1>1, <3>1, <3>2, LoadFirstKeeps
  <2> QED BY <2>1, <2>2
<1>6. CASE Feed!LoadOlder
  <2>1. /\ p_ask' = "older" /\ p_reply' = Feed!NoPage /\ p_query' = p_narrow
        /\ p_mixed' = (p_mixed \/ p_query # p_narrow) /\ p_nextBefore # 0
        /\ UNCHANGED <<p_stored, p_late, p_loaded, p_list, p_nextBefore, p_editing, p_torn>>
    BY <1>6 DEF Feed!LoadOlder, Feed!Send
  <2>2. ~p_reply'.read
    BY <2>1 DEF Feed!NoPage
  <2> QED BY <2>1, <2>2, NothingRead
<1>7. CASE Feed!ReceiveGap
  <2>1. Feed!LoadFirst /\ p_editing \cap Feed!Shown = {} /\ UNCHANGED <<p_stored, p_late>>
    BY <1>7 DEF Feed!ReceiveGap, Feed!Drafts
  <2> QED BY <1>1, <2>1, LoadFirstKeeps
<1>8. CASE Feed!RequestFails
  <2>1. /\ p_ask' = "no" /\ p_reply' = Feed!NoPage /\ p_query' = p_query /\ p_mixed' = p_mixed
        /\ UNCHANGED <<p_stored, p_late, p_loaded, p_list, p_nextBefore, p_editing, p_torn>>
    BY <1>8 DEF Feed!RequestFails, Feed!Answered
  <2>2. ~p_reply'.read
    BY <2>1 DEF Feed!NoPage
  <2> QED BY <2>1, <2>2, NothingRead
<1>9. CASE UNCHANGED Feed!vars
  BY <1>1, <1>9, FeedStays DEF Feed!vars
<1> QED BY <1>2, <1>3, <1>4, <1>5, <1>6, <1>7, <1>8, <1>9,
           FeedArrives, PageIsRead, BottomKeeps, TopKeeps DEF Feed!Next

LEMMA FeedInvariant == Feed!Spec => []RadioListOK
<1>1. Feed!Init => RadioListOK
  BY FeedAssumption, FeedBegins
<1>2. RadioListOK /\ [Feed!Next]_(Feed!vars) => RadioListOK'
  BY FeedAssumption, FeedNext
<1> QED BY <1>1, <1>2, PTL DEF Feed!Spec

(* The radio page leaves out no segment between two it shows, however many *)
(* came between two refreshes, unless a draft stood in the way, it was     *)
(* stored late or the form was not applied; and it drops no draft          *)
(* (refreshNewest, loadOlder, hasEditingCard).                             *)
THEOREM ListIsWhole == Feed!Spec => []FeedIsWhole
<1>1. RadioListOK => FeedIsWhole
  <2> SUFFICES ASSUME RadioListOK PROVE FeedIsWhole
    OBVIOUS
  <2>1. Feed!DraftKept
    BY FeedShown DEF RadioListOK, FeedTypes, Feed!DraftKept
  <2>2. Feed!NoSilentGap
    <3> SUFFICES ASSUME ~p_mixed, ~p_torn, NEW s \in Feed!Found(p_query) \ p_late,
                        NEW i \in DOMAIN p_list, NEW j \in DOMAIN p_list,
                        p_list[i] > s, s > p_list[j]
                 PROVE  s \in Feed!Shown
      BY DEF Feed!NoSilentGap
    <3>1. p_list[i] \in Cards /\ p_list[j] \in Cards
      BY DEF Cards, Elements
    <3>2. Cards \subseteq Nat /\ s \in Nat
      BY FeedAssumption DEF RadioListOK, FeedTypes, FeedConstants, Feed!Found
    <3>3. Whole(Feed!Found(p_query) \ p_late, Cards)
      BY DEF RadioListOK, ListOK
    <3>4. p_list[j] < s /\ s < p_list[i]
      BY <3>1, <3>2
    <3> QED BY <3>1, <3>3, <3>4, FeedShown DEF Whole
  <2> QED BY <2>1, <2>2 DEF FeedIsWhole, Feed!FeedIsWhole
<1> QED BY <1>1, FeedInvariant, PTL

-----------------------------------------------------------------------------
(* The types of the list.  Cards and rows show versions there are; nothing *)
(* is twice in an answer, nor on the page, since what is shown is left out *)
(* when an answer is put on top or at the end.                             *)
VersionsOK ==
  /\ {p_text, p_version, p_committed} \subseteq [Entry -> Feed!Version]
  /\ p_reply.rows \in Seq([id : Entry, text : Feed!Version])

DifferOK == Different(p_list) /\ Different(Feed!Ids) /\ Len(Feed!Ids) <= ListPage

MarksOK ==
  /\ p_late \subseteq p_stored /\ FirstEntries \subseteq p_stored
  /\ {p_narrow, p_loaded, p_query, p_mixed, p_torn} \subseteq BOOLEAN
  /\ p_busy \subseteq Entry /\ p_old \subseteq Entry
  /\ p_ask = "no" => p_reply = Feed!NoPage

LEMMA TextIs ==
  ASSUME VersionsOK, NEW s \in Rows
  PROVE  Feed!TextOf(s) \in Feed!Version
<1> DEFINE Row == [id : Entry, text : Feed!Version]
           k   == CHOOSE j \in DOMAIN Feed!Ids : Feed!Ids[j] = s
<1>1. p_reply.rows \in Seq(Row) /\ DOMAIN Feed!Ids = DOMAIN p_reply.rows
  BY DEF VersionsOK, Feed!Ids
<1>2. PICK i \in DOMAIN Feed!Ids : Feed!Ids[i] = s
  BY DEF Rows, Elements
<1>3. k \in DOMAIN Feed!Ids
  BY <1>2
<1>4. Feed!TextOf(s) = p_reply.rows[k].text
  BY DEF Feed!TextOf
<1>5. \A r \in Row : r.text \in Feed!Version
  OBVIOUS
<1> HIDE DEF Row, k
<1>6. p_reply.rows[k] \in Row
  BY <1>1, <1>3
<1> QED BY <1>4, <1>5, <1>6

LEMMA FillIs ==
  ASSUME VersionsOK, NEW S \in SUBSET Rows, Feed!Fill(S)
  PROVE  p_version' \in [Entry -> Feed!Version]
<1>1. \A s \in S : Feed!TextOf(s) \in Feed!Version
  BY TextIs
<1>2. p_version \in [Entry -> Feed!Version]
  BY DEF VersionsOK
<1> QED BY <1>1, <1>2 DEF Feed!Fill

(* What an answer brings: the cards it fills are among its rows.           *)
LEMMA AnswerIs ==
  ASSUME FeedTypes, PageOK, VersionsOK, Feed!ReceivePage \/ Feed!ReceiveNewest
  PROVE  /\ p_reply.read /\ p_list' \in {Feed!Fresh \o p_list, p_list \o Feed!Fresh}
         /\ p_version' \in [Entry -> Feed!Version]
         /\ p_ask' = "no" /\ p_reply' = Feed!NoPage
         /\ UNCHANGED <<p_stored, p_text, p_late, p_narrow, p_query, p_mixed>>
         /\ UNCHANGED <<p_editing, p_busy, p_committed, p_old>>
<1>1. p_reply.read /\ Feed!Ids \in Seq(Entry)
  BY DEF Feed!ReceivePage, Feed!ReceiveNewest, Feed!Newest, PageOK
<1>2. PICK S : Feed!Fill(S) /\ S \subseteq Rows
  <2>1. Feed!Range(Feed!Fresh) \subseteq Rows /\ Feed!Range(Feed!Ids) = Rows
    BY <1>1, FreshIs, FeedRange DEF Rows
  <2> QED BY <2>1 DEF Feed!ReceivePage, Feed!ReceiveNewest
<1>3. p_version' \in [Entry -> Feed!Version]
  BY <1>2, FillIs
<1> QED BY <1>1, <1>3 DEF Feed!ReceivePage, Feed!ReceiveNewest, Feed!Answered,
           Feed!server, Feed!cards

(* What is asked for, and what begins anew, brings nothing.                *)
LEMMA NoPageYet ==
  ASSUME p_reply' = Feed!NoPage
  PROVE  /\ p_reply'.rows = <<>> /\ Feed!Ids' = <<>> /\ Different(Feed!Ids')
         /\ p_reply'.rows \in Seq([id : Entry, text : Feed!Version])
         /\ Len(Feed!Ids') = 0
<1>1. p_reply'.rows = <<>>
  BY DEF Feed!NoPage
<1>2. Feed!Ids' = <<>>
  BY <1>1 DEF Feed!Ids
<1> QED BY <1>1, <1>2 DEF Different

LEMMA VersionsNext ==
  ASSUME FeedConstants, RadioListOK, VersionsOK, [Feed!Next]_(Feed!vars)
  PROVE  VersionsOK'
<1> USE DEF Feed!server, Feed!tab, Feed!asking, Feed!cards
<1> DEFINE V == [Entry -> Feed!Version]
           R == Seq([id : Entry, text : Feed!Version])
<1>1. p_text \in V /\ p_version \in V /\ p_committed \in V /\ p_reply.rows \in R
  BY DEF VersionsOK
<1>2. ASSUME p_text' \in V, p_version' \in V, p_committed' \in V, p_reply'.rows \in R
      PROVE  VersionsOK'
  BY <1>2 DEF VersionsOK, Feed!Version
<1>3. 0 \in Feed!Version /\ [s \in Entry |-> 0] \in V
  BY DEF FeedConstants, Feed!Version
<1>4. p_reply' = Feed!NoPage => p_reply'.rows \in R
  BY NoPageYet
<1>5. ASSUME NEW s \in Entry, p_text[s] < MaxEdits PROVE p_text[s] + 1 \in Feed!Version
  BY <1>1, <1>5 DEF FeedConstants, Feed!Version
<1> HIDE DEF V, R
<1>6. CASE Feed!LoadFirst /\ UNCHANGED p_text
  BY <1>1, <1>2, <1>3, <1>4, <1>6 DEF Feed!LoadFirst, Feed!Send
<1>7. CASE /\ UNCHANGED <<p_text, p_version, p_committed>>
           /\ UNCHANGED p_reply \/ p_reply' = Feed!NoPage
  BY <1>1, <1>2, <1>4, <1>7
<1>8. CASE Feed!Refresh \/ Feed!Reload \/ Feed!ReceiveGap
  BY <1>6, <1>7, <1>8 DEF Feed!Refresh, Feed!Reload, Feed!ReceiveGap, Feed!Send
<1>9. CASE Feed!Type \/ Feed!LoadOlder \/ Feed!RequestFails \/ UNCHANGED Feed!vars
  BY <1>7, <1>9 DEF Feed!Type, Feed!LoadOlder, Feed!RequestFails, Feed!Send,
                    Feed!Answered, Feed!vars
<1>10. CASE Feed!ReceivePage \/ Feed!ReceiveNewest
  BY <1>1, <1>2, <1>4, <1>10, AnswerIs DEF RadioListOK, V
<1>11. CASE Feed!Read
  <2>1. /\ Feed!Ids' \in Seq(Entry)
        /\ p_reply'.rows = [i \in DOMAIN Feed!Ids' |->
                            [id |-> Feed!Ids'[i], text |-> p_text[Feed!Ids'[i]]]]
    BY <1>11, ReadIs
  <2>2. p_reply'.rows \in R
    <3> DEFINE Row == [id : Entry, text : Feed!Version]
               q == Feed!Ids'
    <3>1. \A e \in Entry : [id |-> e, text |-> p_text[e]] \in Row
      BY <1>1 DEF V
    <3>2. q \in Seq(Entry) /\ p_reply'.rows = [i \in DOMAIN q |-> [id |-> q[i], text |-> p_text[q[i]]]]
      BY <2>1
    <3> HIDE DEF Row, q
    <3>3. Len(q) \in Nat /\ DOMAIN q = 1..Len(q) /\ \A i \in DOMAIN q : q[i] \in Entry
      BY <3>2
    <3>4. p_reply'.rows \in [1..Len(q) -> Row]
      BY <3>1, <3>2, <3>3
    <3>5. p_reply'.rows \in Seq(Row)
      BY <3>3, <3>4
    <3> QED BY <3>5 DEF R, Row
  <2>3. UNCHANGED <<p_text, p_version, p_committed>>
    BY <1>11 DEF Feed!Read
  <2> QED BY <1>1, <1>2, <2>2, <2>3
<1>12. ASSUME NEW s \in Entry,
              \/ Feed!Arrive(s) \/ Feed!EditElsewhere(s) \/ Feed!OpenEditor(s)
              \/ Feed!Cancel(s) \/ Feed!Save(s) \/ Feed!SaveFails(s)
       PROVE  VersionsOK'
  <2>1. UNCHANGED <<p_version, p_reply>>
    BY <1>12 DEF Feed!Arrive, Feed!EditElsewhere, Feed!OpenEditor, Feed!Cancel, Feed!Save,
                 Feed!SaveFails
  <2>2. p_committed' \in V
    BY <1>1, <1>3, <1>12 DEF Feed!Arrive, Feed!EditElsewhere, Feed!OpenEditor, Feed!Cancel,
                             Feed!Save, Feed!SaveFails, V
  <2>3. p_text' \in V
    BY <1>1, <1>5, <1>12 DEF Feed!Arrive, Feed!EditElsewhere, Feed!OpenEditor, Feed!Cancel,
                             Feed!Save, Feed!SaveFails, Feed!MayEdit, V
  <2> QED BY <1>1, <1>2, <2>1, <2>2, <2>3
<1>13. ASSUME NEW s \in Entry, Feed!Commit(s) PROVE VersionsOK'
  <2>1. /\ p_text' = [p_text EXCEPT ![s] = @ + 1]
        /\ p_committed' = [p_committed EXCEPT ![s] = p_text'[s]]
        /\ UNCHANGED <<p_version, p_reply>>
    BY <1>13 DEF Feed!Commit
  <2>2. p_text[s] + 1 \in Feed!Version
    BY <1>5, <1>13 DEF Feed!Commit, Feed!MayEdit
  <2>3. p_text' \in V /\ p_text'[s] \in Feed!Version
    BY <1>1, <2>1, <2>2 DEF V
  <2>4. p_committed' \in V
    BY <1>1, <2>1, <2>3 DEF V
  <2> QED BY <1>1, <1>2, <2>1, <2>3, <2>4
<1>14. ASSUME NEW s \in Entry, Feed!Saved(s) PROVE VersionsOK'
  <2>1. /\ p_version' = [p_version EXCEPT ![s] = p_committed[s]]
        /\ p_committed' = [p_committed EXCEPT ![s] = 0]
        /\ UNCHANGED <<p_text, p_reply>>
    BY <1>14 DEF Feed!Saved
  <2>2. p_version' \in V /\ p_committed' \in V
    BY <1>1, <1>3, <2>1 DEF V
  <2> QED BY <1>1, <1>2, <2>1, <2>2
<1>15. ASSUME NEW s \in Entry, Feed!SavedOld(s) PROVE VersionsOK'
  <2>1. \A v \in 1..p_text[s] : v \in Feed!Version
    BY <1>1 DEF V, FeedConstants, Feed!Version
  <2>2. UNCHANGED p_version \/ \E v \in 1..p_text[s] : p_version' = [p_version EXCEPT ![s] = v]
    BY <1>15 DEF Feed!SavedOld
  <2>3. p_version' \in V
    BY <1>1, <2>1, <2>2 DEF V
  <2>4. UNCHANGED <<p_text, p_committed, p_reply>>
    BY <1>15 DEF Feed!SavedOld
  <2> QED BY <1>1, <1>2, <2>3, <2>4
<1> QED BY <1>8, <1>9, <1>10, <1>11, <1>12, <1>13, <1>14, <1>15 DEF Feed!Next

LEMMA DifferNext ==
  ASSUME FeedConstants, RadioListOK, VersionsOK, DifferOK, [Feed!Next]_(Feed!vars)
  PROVE  DifferOK'
<1> USE DEF Feed!server, Feed!tab, Feed!asking, Feed!cards
<1>1. Different(<<>>)
  BY DEF Different
<1>2. p_reply' = Feed!NoPage => Different(Feed!Ids') /\ Len(Feed!Ids') <= ListPage
  BY NoPageYet DEF FeedConstants
<1>3. CASE UNCHANGED <<p_list, p_reply>>
  BY <1>3 DEF DifferOK, Different, Feed!Ids
<1>4. CASE UNCHANGED p_list /\ p_reply' = Feed!NoPage
  BY <1>2, <1>4 DEF DifferOK
<1>5. CASE Feed!LoadFirst
  BY <1>1, <1>2, <1>5 DEF DifferOK, Feed!LoadFirst, Feed!Send
<1>6. CASE Feed!Refresh \/ Feed!Reload \/ Feed!ReceiveGap
  BY <1>4, <1>5, <1>6 DEF Feed!Refresh, Feed!Reload, Feed!ReceiveGap, Feed!Send
<1>7. CASE Feed!LoadOlder \/ Feed!RequestFails
  BY <1>4, <1>7 DEF Feed!LoadOlder, Feed!RequestFails, Feed!Send, Feed!Answered
<1>8. CASE Feed!Type \/ UNCHANGED Feed!vars
  BY <1>3, <1>8 DEF Feed!Type, Feed!vars
<1>9. CASE Feed!Read
  <2>1. Different(Feed!Ids') /\ Len(Feed!Ids') <= ListPage
    BY <1>9, ReadIs
  <2>2. UNCHANGED p_list
    BY <1>9 DEF Feed!Read
  <2> QED BY <2>1, <2>2 DEF DifferOK
<1>10. CASE Feed!ReceivePage \/ Feed!ReceiveNewest
  <2>1. /\ p_reply.read /\ p_list' \in {Feed!Fresh \o p_list, p_list \o Feed!Fresh}
        /\ p_reply' = Feed!NoPage
    BY <1>10, AnswerIs DEF RadioListOK
  <2>2. Feed!Ids \in Seq(Entry) /\ p_list \in Seq(Entry)
    BY <2>1 DEF RadioListOK, FeedTypes, PageOK
  <2>3. Feed!Fresh = Without(Feed!Ids, Cards)
    BY FeedOrders, FeedShown DEF Feed!Fresh
  <2>4. /\ Feed!Fresh \in Seq(Entry) /\ Different(Feed!Fresh)
        /\ Elements(Feed!Fresh) \cap Elements(p_list) = {}
    BY <2>2, <2>3, WithoutIs, WithoutDiffers DEF DifferOK, Cards
  <2>5. Different(Feed!Fresh \o p_list) /\ Different(p_list \o Feed!Fresh)
    BY <2>2, <2>4, JoinDiffers DEF DifferOK
  <2> QED BY <1>2, <2>1, <2>5 DEF DifferOK
<1>11. ASSUME NEW s \in Entry,
              \/ Feed!Arrive(s) \/ Feed!EditElsewhere(s) \/ Feed!OpenEditor(s)
              \/ Feed!Cancel(s) \/ Feed!Save(s) \/ Feed!Commit(s) \/ Feed!Saved(s)
              \/ Feed!SaveFails(s) \/ Feed!SavedOld(s)
       PROVE  DifferOK'
  BY <1>3, <1>11 DEF Feed!Arrive, Feed!EditElsewhere, Feed!OpenEditor, Feed!Cancel,
                     Feed!Save, Feed!Commit, Feed!Saved, Feed!SaveFails, Feed!SavedOld
<1> QED BY <1>6, <1>7, <1>8, <1>9, <1>10, <1>11 DEF Feed!Next

LEMMA MarksNext ==
  ASSUME FeedConstants, RadioListOK, VersionsOK, MarksOK, [Feed!Next]_(Feed!vars)
  PROVE  MarksOK'
<1> USE DEF Feed!server, Feed!tab, Feed!asking, Feed!cards
<1> DEFINE SetsOK == /\ p_late \subseteq p_stored /\ FirstEntries \subseteq p_stored
                     /\ p_busy \subseteq Entry /\ p_old \subseteq Entry
           AskOK == p_ask = "no" => p_reply = Feed!NoPage
           FlagsOK == /\ p_narrow \in BOOLEAN /\ p_loaded \in BOOLEAN /\ p_query \in BOOLEAN
                      /\ p_mixed \in BOOLEAN /\ p_torn \in BOOLEAN
<1>1. SetsOK /\ AskOK /\ FlagsOK
  BY DEF MarksOK
<1>2. Feed!Shown \subseteq Entry /\ p_list \in Seq(Entry)
  BY FeedShown DEF RadioListOK, FeedTypes, FeedConstants
<1>3. SetsOK'
  <2>1. ASSUME UNCHANGED <<p_stored, p_late, p_busy, p_old>> PROVE SetsOK'
    BY <1>1, <2>1
  <2>2. CASE Feed!LoadFirst /\ UNCHANGED <<p_stored, p_late>>
    BY <1>1, <2>2 DEF Feed!LoadFirst
  <2>3. CASE Feed!Refresh \/ Feed!Reload \/ Feed!ReceiveGap
    BY <2>1, <2>2, <2>3 DEF Feed!Refresh, Feed!Reload, Feed!ReceiveGap
  <2>4. CASE \/ Feed!LoadOlder \/ Feed!RequestFails \/ Feed!Type \/ Feed!Read
             \/ Feed!ReceivePage \/ Feed!ReceiveNewest \/ UNCHANGED Feed!vars
    BY <2>1, <2>4 DEF Feed!LoadOlder, Feed!RequestFails, Feed!Type, Feed!Read,
                      Feed!ReceivePage, Feed!ReceiveNewest, Feed!vars
  <2>5. ASSUME NEW s \in Entry, Feed!Arrive(s) PROVE SetsOK'
    BY <1>1, <2>5 DEF Feed!Arrive
  <2>6. ASSUME NEW s \in Entry,
               \/ Feed!EditElsewhere(s) \/ Feed!OpenEditor(s) \/ Feed!Cancel(s)
               \/ Feed!Commit(s)
        PROVE  SetsOK'
    BY <2>1, <2>6 DEF Feed!EditElsewhere, Feed!OpenEditor, Feed!Cancel, Feed!Commit
  <2>7. ASSUME NEW s \in Entry,
               Feed!Save(s) \/ Feed!Saved(s) \/ Feed!SaveFails(s) \/ Feed!SavedOld(s)
        PROVE  SetsOK'
    BY <1>1, <2>7 DEF Feed!Save, Feed!Saved, Feed!SaveFails, Feed!SavedOld
  <2> QED BY <2>3, <2>4, <2>5, <2>6, <2>7 DEF Feed!Next
<1>4. FlagsOK' /\ AskOK'
  <2>1. ASSUME UNCHANGED <<p_narrow, p_loaded, p_query, p_mixed, p_torn, p_ask, p_reply>>
        PROVE  FlagsOK' /\ AskOK'
    BY <1>1, <2>1
  <2>2. CASE Feed!LoadFirst /\ UNCHANGED p_narrow
    BY <1>1, <2>2 DEF Feed!LoadFirst, Feed!Send
  <2>3. CASE Feed!Reload \/ Feed!ReceiveGap
    BY <2>2, <2>3 DEF Feed!Reload, Feed!ReceiveGap
  <2>4. CASE Feed!Refresh
    <3>1. CASE p_loaded
      BY <1>1, <2>4, <3>1 DEF Feed!Refresh, Feed!Send
    <3>2. CASE ~p_loaded
      BY <2>2, <2>4, <3>2 DEF Feed!Refresh
    <3> QED BY <3>1, <3>2
  <2>5. CASE Feed!LoadOlder
    BY <1>1, <2>5 DEF Feed!LoadOlder, Feed!Send
  <2>6. CASE Feed!RequestFails \/ Feed!ReceivePage \/ Feed!ReceiveNewest
    BY <1>1, <2>6 DEF Feed!RequestFails, Feed!ReceivePage, Feed!ReceiveNewest, Feed!Answered,
                      Feed!Gap
  <2>7. CASE Feed!Type \/ Feed!Read
    BY <1>1, <2>7 DEF Feed!Type, Feed!Read
  <2>8. CASE UNCHANGED Feed!vars
    BY <2>1, <2>8 DEF Feed!vars
  <2>9. ASSUME NEW s \in Entry,
               \/ Feed!Arrive(s) \/ Feed!EditElsewhere(s) \/ Feed!OpenEditor(s)
               \/ Feed!Cancel(s) \/ Feed!Save(s) \/ Feed!Commit(s) \/ Feed!Saved(s)
               \/ Feed!SaveFails(s) \/ Feed!SavedOld(s)
        PROVE  FlagsOK' /\ AskOK'
    BY <2>1, <2>9 DEF Feed!Arrive, Feed!EditElsewhere, Feed!OpenEditor, Feed!Cancel,
                      Feed!Save, Feed!Commit, Feed!Saved, Feed!SaveFails, Feed!SavedOld
  <2> QED BY <2>3, <2>4, <2>5, <2>6, <2>7, <2>8, <2>9 DEF Feed!Next
<1> QED BY <1>3, <1>4 DEF MarksOK

(* The list is of its types: no card twice, no answer longer than a page,  *)
(* and of every text a version there is.                                   *)
THEOREM FeedTypesHold == Feed!Spec => []Feed!TypeOK
<1> DEFINE IInv == RadioListOK /\ VersionsOK /\ DifferOK /\ MarksOK
<1>1. Feed!Init => IInv
  <2> SUFFICES ASSUME Feed!Init PROVE VersionsOK /\ DifferOK /\ MarksOK
    BY FeedAssumption, FeedBegins
  <2>1. /\ p_reply.rows = <<>> /\ p_list = <<>>
        /\ \A f \in {p_text, p_version, p_committed} : f = [s \in Entry |-> 0]
    BY DEF Feed!Init, Feed!NoPage
  <2>2. Feed!Ids = <<>>
    BY <2>1 DEF Feed!Ids
  <2>3. Different(<<>>)
    BY DEF Different
  <2>4. 0 \in Feed!Version /\ ListPage \in Nat
    BY FeedAssumption DEF FeedConstants, Feed!Version
  <2>5. VersionsOK
    <3>1. [s \in Entry |-> 0] \in [Entry -> Feed!Version]
      BY <2>4
    <3>2. <<>> \in Seq([id : Entry, text : Feed!Version])
      OBVIOUS
    <3> QED BY <2>1, <3>1, <3>2 DEF VersionsOK
  <2>6. DifferOK
    BY <2>1, <2>2, <2>3, <2>4 DEF DifferOK
  <2>7. MarksOK
    BY DEF Feed!Init, MarksOK
  <2> QED BY <2>5, <2>6, <2>7
<1>2. IInv /\ [Feed!Next]_(Feed!vars) => IInv'
  BY FeedAssumption, FeedNext, VersionsNext, DifferNext, MarksNext
<1>3. IInv => Feed!TypeOK
  <2> SUFFICES ASSUME RadioListOK, VersionsOK, DifferOK, MarksOK PROVE Feed!TypeOK
    OBVIOUS
  <2>1. Feed!IsInjective(p_list)
    BY DEF DifferOK, Different, Feed!IsInjective
  <2>2. Len(p_reply.rows) <= ListPage
    <3>1. p_reply.rows \in Seq([id : Entry, text : Feed!Version])
      BY DEF VersionsOK
    <3>2. Len(p_reply.rows) = Len(Feed!Ids)
      BY <3>1 DEF Feed!Ids
    <3> QED BY <3>2 DEF DifferOK
  <2>3. /\ {p_late, FirstEntries} \subseteq SUBSET p_stored
        /\ p_editing \cup p_busy \cup p_old \subseteq Entry
    BY DEF RadioListOK, FeedTypes, MarksOK
  <2> QED BY <2>1, <2>2, <2>3 DEF RadioListOK, FeedTypes, VersionsOK, MarksOK, Feed!TypeOK
<1> HIDE DEF IInv
<1> QED BY <1>1, <1>2, <1>3, PTL DEF Feed!Spec

-----------------------------------------------------------------------------
(* MAE's voice mode (MaeVoice). *)

VoiceOK == Voice!TypeOK /\ Voice!InputNotLocked

(* ... taken apart: what is heard, ... *)
EarsOK ==
  /\ v_mode \in BOOLEAN /\ v_opening \in BOOLEAN /\ v_stream \in BOOLEAN
  /\ v_mic \in BOOLEAN /\ v_capture \in BOOLEAN /\ v_heard \in BOOLEAN
  /\ v_timers \in 0..MaxTimers

(* ... what is spoken, ... *)
PlayerOK ==
  /\ v_current \in Talk \cup {NoTalk}
  /\ v_clip \in [Talk -> {"none", "making", "playing"}]
  /\ \A t \in Talk : v_clip[t] # "none" => v_current = t

(* ... and what is awaited. *)
Places == Voice!Asking \cup Voice!Speaking \cup {"idle", "transcribing"}

WorkOK ==
  /\ v_busy \in BOOLEAN
  /\ v_pc \in [Talk -> Places]
  /\ v_aloud \in [Talk -> BOOLEAN]
  /\ v_busy => \E t \in Talk : v_pc[t] \in Voice!Asking

LEMMA VoiceParts == VoiceOK <=> EarsOK /\ PlayerOK /\ WorkOK
BY DEF VoiceOK, Voice!TypeOK, Voice!InputNotLocked, EarsOK, PlayerOK, WorkOK, Places

LEMMA VoicePartsNext == VoiceOK' <=> (EarsOK' /\ PlayerOK' /\ WorkOK')
BY VoiceParts, PTL

(* Only the task that holds the current speech session has a clip, which   *)
(* whatever begins or ends a session takes away.                           *)
LEMMA PlayerNext == PlayerOK /\ Voice!Next => PlayerOK'
<1> SUFFICES ASSUME PlayerOK, Voice!Next PROVE PlayerOK'
  OBVIOUS
<1> USE DEF PlayerOK
<1>1. ASSUME UNCHANGED <<v_current, v_clip>> PROVE PlayerOK'
  BY <1>1
<1>2. ASSUME Voice!Silence PROVE PlayerOK'
  BY <1>2 DEF Voice!Silence, Voice!Abandoned
<1>3. ASSUME NEW t \in Talk, Voice!Begin(t) PROVE PlayerOK'
  BY <1>3 DEF Voice!Begin, Voice!Abandoned
<1>4. ASSUME NEW t \in Talk, Voice!Enqueue(t) PROVE PlayerOK'
  BY <1>4 DEF Voice!Enqueue
<1>5. ASSUME NEW t \in Talk, Voice!Speak(t) PROVE PlayerOK'
  BY <1>5 DEF Voice!Speak, Voice!Abandoned
<1>6. ASSUME NEW t \in Talk, Voice!ClipMade(t) \/ Voice!ClipEnds(t) PROVE PlayerOK'
  BY <1>6 DEF Voice!ClipMade, Voice!ClipEnds
<1>7. ASSUME NEW t \in Talk,
             Voice!Pause(t) \/ Voice!Transcribed(t) \/ Voice!NotUnderstood(t)
               \/ Voice!SpeechOver(t)
      PROVE  UNCHANGED <<v_current, v_clip>>
  BY <1>7 DEF Voice!Pause, Voice!Transcribed, Voice!NotUnderstood, Voice!SpeechOver,
              Voice!voice
<1>8. CASE Voice!TimerFires \/ Voice!Hear \/ Voice!Nothing \/ Voice!StartVoice
  BY <1>1, <1>8 DEF Voice!TimerFires, Voice!Hear, Voice!Nothing, Voice!StartVoice,
                    Voice!voice
<1>9. CASE Voice!Denied \/ Voice!EndVoice
  BY <1>2, <1>9 DEF Voice!Denied, Voice!EndVoice, Voice!Ended
<1>10. ASSUME NEW t \in Talk, Voice!Opened(t) \/ Voice!WholeComes(t) \/ Voice!ReadAloud(t)
       PROVE  PlayerOK'
  BY <1>5, <1>10 DEF Voice!Opened, Voice!WholeComes, Voice!ReadAloud, Voice!SpeakAnswer
<1>11. ASSUME NEW t \in Talk, Voice!Submit(t) PROVE PlayerOK'
  BY <1>2, <1>11 DEF Voice!Submit
<1>12. ASSUME NEW t \in Talk, Voice!StreamOpens(t) \/ Voice!Chunk(t) PROVE PlayerOK'
  BY <1>3, <1>4, <1>12 DEF Voice!StreamOpens, Voice!Chunk
<1>13. ASSUME NEW t \in Talk, Voice!StreamEnds(t) \/ Voice!StreamFails(t) PROVE PlayerOK'
  BY <1>1, <1>2, <1>4, <1>13 DEF Voice!StreamEnds, Voice!StreamFails, Voice!voice
<1>14. ASSUME NEW t \in Talk,
              Voice!PlainComes(t) \/ Voice!AskFails(t) \/ Voice!TimesOut(t)
       PROVE  PlayerOK'
  BY <1>1, <1>2, <1>5, <1>14 DEF Voice!PlainComes, Voice!AskFails, Voice!TimesOut,
                                 Voice!Unspoken, Voice!SpeakAnswer, Voice!voice
<1> QED BY <1>1, <1>6, <1>7, <1>8, <1>9, <1>10, <1>11, <1>12, <1>13, <1>14 DEF Voice!Next

(* A task that stops asking unlocks the input, and one that locks it asks. *)
LEMMA TaskMoves ==
  ASSUME WorkOK, NEW t \in Talk, NEW where \in Places,
         v_pc' = [v_pc EXCEPT ![t] = where],
         v_busy' \in BOOLEAN, v_aloud' \in [Talk -> BOOLEAN],
         v_pc[t] \in Voice!Asking /\ where \notin Voice!Asking => ~v_busy',
         v_busy' => v_busy \/ where \in Voice!Asking
  PROVE  WorkOK'
<1>1. v_pc' \in [Talk -> Places] /\ v_pc'[t] = where
      /\ \A u \in Talk : u # t => v_pc'[u] = v_pc[u]
  BY DEF WorkOK
<1>2. ASSUME v_busy' PROVE \E u \in Talk : v_pc'[u] \in Voice!Asking
  <2>1. CASE where \in Voice!Asking
    BY <1>1, <2>1
  <2>2. CASE where \notin Voice!Asking
    <3>1. v_busy /\ v_pc[t] \notin Voice!Asking
      BY <1>2, <2>2
    <3>2. PICK u \in Talk : v_pc[u] \in Voice!Asking
      BY <3>1 DEF WorkOK
    <3> QED BY <1>1, <3>1, <3>2
  <2> QED BY <2>1, <2>2
<1> QED BY <1>1, <1>2 DEF WorkOK

LEMMA WorkNext == v_mode \in BOOLEAN /\ WorkOK /\ Voice!Next => WorkOK'
<1> SUFFICES ASSUME v_mode \in BOOLEAN, WorkOK, Voice!Next PROVE WorkOK'
  OBVIOUS
<1>1. ASSUME UNCHANGED <<v_busy, v_pc, v_aloud>> PROVE WorkOK'
  BY <1>1 DEF WorkOK
<1>2. v_busy \in BOOLEAN /\ v_aloud \in [Talk -> BOOLEAN]
  BY DEF WorkOK
<1>3. CASE Voice!TimerFires \/ Voice!Hear \/ Voice!Nothing \/ Voice!StartVoice
  BY <1>1, <1>3 DEF Voice!TimerFires, Voice!Hear, Voice!Nothing, Voice!StartVoice,
                    Voice!work
<1>4. CASE Voice!Denied \/ Voice!EndVoice
  BY <1>1, <1>4 DEF Voice!Denied, Voice!EndVoice, Voice!Ended, Voice!work
<1>5. ASSUME NEW t \in Talk, Voice!ClipMade(t) \/ Voice!ClipEnds(t) PROVE WorkOK'
  BY <1>1, <1>5 DEF Voice!ClipMade, Voice!ClipEnds, Voice!work
<1> USE DEF Voice!Goto, Voice!Asking, Voice!Speaking, Voice!Streaming, Places
<1>6. ASSUME NEW t \in Talk, Voice!Pause(t) \/ Voice!Opened(t) \/ Voice!ReadAloud(t)
      PROVE  WorkOK'
  <2>1. v_pc[t] = "idle" /\ v_busy' = v_busy /\ v_aloud' = v_aloud
    BY <1>6 DEF Voice!Pause, Voice!Opened, Voice!ReadAloud
  <2>2. PICK where \in {"transcribing", "greet", "listen"} : v_pc' = [v_pc EXCEPT ![t] = where]
    BY <1>6 DEF Voice!Pause, Voice!Opened, Voice!ReadAloud
  <2> QED BY <1>2, <2>1, <2>2, TaskMoves
<1>7. ASSUME NEW t \in Talk, NEW speak \in BOOLEAN, Voice!Asked(t, speak) PROVE WorkOK'
  <2>1. PICK where \in {"stream", "whole", "plain"} : v_pc' = [v_pc EXCEPT ![t] = where]
    BY <1>7 DEF Voice!Asked
  <2>2. v_busy' = TRUE /\ v_aloud' \in [Talk -> BOOLEAN]
    BY <1>2, <1>7 DEF Voice!Asked
  <2> QED BY <2>1, <2>2, TaskMoves
<1>8. ASSUME NEW t \in Talk, Voice!Transcribed(t) PROVE WorkOK'
  BY <1>7, <1>8 DEF Voice!Transcribed
<1>9. ASSUME NEW t \in Talk, Voice!Submit(t) PROVE WorkOK'
  BY <1>7, <1>9 DEF Voice!Submit
<1>10. ASSUME NEW t \in Talk, Voice!NotUnderstood(t) PROVE WorkOK'
  <2>1. /\ v_pc[t] = "transcribing" /\ v_pc' = [v_pc EXCEPT ![t] = "idle"]
        /\ v_busy' = v_busy /\ v_aloud' = v_aloud
    BY <1>10 DEF Voice!NotUnderstood
  <2> QED BY <1>2, <2>1, TaskMoves
<1>11. ASSUME NEW t \in Talk,
              Voice!StreamOpens(t) \/ Voice!Chunk(t) \/ Voice!StreamEnds(t)
                \/ Voice!StreamFails(t) \/ Voice!WholeComes(t)
       PROVE  WorkOK'
  <2>1. v_busy' = v_busy /\ v_aloud' = v_aloud
    BY <1>11 DEF Voice!StreamOpens, Voice!Chunk, Voice!StreamEnds, Voice!StreamFails,
                 Voice!WholeComes
  <2>2. PICK where \in Voice!Asking : v_pc' = [v_pc EXCEPT ![t] = where]
    BY <1>11 DEF Voice!StreamOpens, Voice!Chunk, Voice!StreamEnds, Voice!StreamFails,
                 Voice!WholeComes
  <2> QED BY <1>2, <2>1, <2>2, TaskMoves
<1>12. ASSUME NEW t \in Talk,
              Voice!PlainComes(t) \/ Voice!AskFails(t) \/ Voice!TimesOut(t)
       PROVE  WorkOK'
  <2>1. v_busy' = FALSE /\ v_aloud' = v_aloud
    BY <1>12 DEF Voice!PlainComes, Voice!AskFails, Voice!TimesOut, Voice!Unspoken,
                 Voice!NotBusy
  <2>2. PICK where \in {"after", "idle"} : v_pc' = [v_pc EXCEPT ![t] = where]
    BY <1>12 DEF Voice!PlainComes, Voice!AskFails, Voice!TimesOut, Voice!Unspoken
  <2> QED BY <1>2, <2>1, <2>2, TaskMoves
<1>13. ASSUME NEW t \in Talk, Voice!SpeechOver(t) PROVE WorkOK'
  <2>1. /\ v_pc[t] \in Voice!Speaking /\ v_pc' = [v_pc EXCEPT ![t] = "idle"]
        /\ v_aloud' = v_aloud
        /\ v_busy' = IF v_pc[t] \in {"tail", "spoken"} THEN FALSE ELSE v_busy
    BY <1>13 DEF Voice!SpeechOver, Voice!NotBusy
  <2> QED BY <1>2, <2>1, TaskMoves
<1> QED BY <1>3, <1>4, <1>5, <1>6, <1>8, <1>9, <1>10, <1>11, <1>12, <1>13
        DEF Voice!Next

(* The microphone and the timers that will open it. *)
LEMMA ListeningHears ==
  ASSUME EarsOK, Voice!Listening
  PROVE  v_mic' \in BOOLEAN /\ v_capture' \in BOOLEAN /\ v_heard' \in BOOLEAN
BY DEF EarsOK, Voice!Listening

LEMMA DiscardHears ==
  ASSUME VoiceConstants, EarsOK, Voice!Discard
  PROVE  v_capture' \in BOOLEAN /\ v_heard' \in BOOLEAN /\ v_timers' \in 0..MaxTimers
<1>1. v_capture' = FALSE /\ v_heard' = v_heard
  BY DEF Voice!Discard
<1>2. v_timers' = v_timers \/ (v_timers < MaxTimers /\ v_timers' = v_timers + 1)
  BY DEF Voice!Discard, Voice!LaterListening
<1>3. v_timers' \in 0..MaxTimers
  BY <1>2 DEF EarsOK, VoiceConstants
<1> QED BY <1>1, <1>3 DEF EarsOK

LEMMA EarsNext == VoiceConstants /\ EarsOK /\ Voice!Next => EarsOK'
<1> SUFFICES ASSUME VoiceConstants, EarsOK, Voice!Next PROVE EarsOK'
  OBVIOUS
<1>1. ASSUME UNCHANGED Voice!ears PROVE EarsOK'
  BY <1>1 DEF EarsOK, Voice!ears
<1>2. ASSUME NEW t \in Talk,
             Voice!ClipMade(t) \/ Voice!ClipEnds(t) \/ Voice!Transcribed(t)
               \/ Voice!StreamOpens(t) \/ Voice!StreamEnds(t) \/ Voice!StreamFails(t)
      PROVE  EarsOK'
  BY <1>1, <1>2 DEF Voice!ClipMade, Voice!ClipEnds, Voice!Transcribed, Voice!StreamOpens,
                    Voice!StreamEnds, Voice!StreamFails
<1>3. ASSUME NEW t \in Talk, Voice!Pause(t) PROVE EarsOK'
  BY <1>3 DEF Voice!Pause, EarsOK
<1>4. ASSUME NEW t \in Talk, Voice!Opened(t) PROVE EarsOK'
  BY <1>4 DEF Voice!Opened, EarsOK
<1>5. ASSUME NEW t \in Talk, Voice!Submit(t) PROVE EarsOK'
  <2>1. CASE v_mode
    BY <1>5, <2>1, DiscardHears DEF Voice!Submit, EarsOK
  <2>2. CASE ~v_mode
    BY <1>5, <2>2 DEF Voice!Submit, EarsOK
  <2> QED BY <2>1, <2>2
<1>6. ASSUME NEW t \in Talk, Voice!NotUnderstood(t) PROVE EarsOK'
  BY <1>6 DEF Voice!NotUnderstood, Voice!LaterListening, EarsOK, VoiceConstants
<1>7. ASSUME NEW t \in Talk, Voice!Chunk(t) \/ Voice!WholeComes(t) PROVE EarsOK'
  <2>1. UNCHANGED <<v_mode, v_opening, v_stream, v_capture, v_heard, v_timers>>
    BY <1>7 DEF Voice!Chunk, Voice!WholeComes
  <2>2. v_mic' \in BOOLEAN
    BY <1>7 DEF Voice!Chunk, Voice!WholeComes, Voice!SpeakAnswer
  <2> QED BY <2>1, <2>2 DEF EarsOK
<1>8. ASSUME NEW t \in Talk,
             Voice!PlainComes(t) \/ Voice!AskFails(t) \/ Voice!TimesOut(t)
               \/ Voice!SpeechOver(t)
      PROVE  EarsOK'
  <2>1. UNCHANGED <<v_mode, v_opening, v_stream, v_timers>>
    BY <1>8 DEF Voice!PlainComes, Voice!AskFails, Voice!TimesOut, Voice!SpeechOver,
                Voice!Unspoken
  <2>2. \/ Voice!Listening
        \/ v_mic' \in BOOLEAN /\ UNCHANGED <<v_capture, v_heard>>
    BY <1>8 DEF Voice!PlainComes, Voice!AskFails, Voice!TimesOut, Voice!SpeechOver,
                Voice!Unspoken, Voice!SpeakAnswer, EarsOK
  <2> QED BY <2>1, <2>2, ListeningHears DEF EarsOK
<1>9. ASSUME NEW t \in Talk, Voice!ReadAloud(t) PROVE EarsOK'
  <2>1. v_mic' \in BOOLEAN /\ UNCHANGED <<v_mode, v_opening, v_stream>>
    BY <1>9 DEF Voice!ReadAloud, Voice!SpeakAnswer
  <2>2. CASE v_mode
    BY <1>9, <2>1, <2>2, DiscardHears DEF Voice!ReadAloud, EarsOK
  <2>3. CASE ~v_mode
    BY <1>9, <2>1, <2>3 DEF Voice!ReadAloud, EarsOK
  <2> QED BY <2>2, <2>3
<1>10. CASE Voice!TimerFires
  <2>1. v_timers' \in 0..MaxTimers
    BY <1>10 DEF Voice!TimerFires, EarsOK, VoiceConstants
  <2> QED BY <1>10, <2>1, ListeningHears DEF Voice!TimerFires, EarsOK
<1>11. CASE Voice!Nothing
  BY <1>11, DiscardHears DEF Voice!Nothing, EarsOK
<1>12. CASE Voice!Hear \/ Voice!StartVoice
  BY <1>12 DEF Voice!Hear, Voice!StartVoice, EarsOK
<1>13. CASE Voice!Denied \/ Voice!EndVoice
  BY <1>13 DEF Voice!Denied, Voice!EndVoice, Voice!Ended, EarsOK
<1> QED BY <1>2, <1>3, <1>4, <1>5, <1>6, <1>7, <1>8, <1>9, <1>10, <1>11, <1>12, <1>13
        DEF Voice!Next

LEMMA VoiceNext == VoiceConstants /\ VoiceOK /\ [Voice!Next]_(Voice!vars) => VoiceOK'
<1>1. EarsOK => v_mode \in BOOLEAN
  BY DEF EarsOK
<1>2. UNCHANGED Voice!vars /\ EarsOK /\ PlayerOK /\ WorkOK => EarsOK' /\ PlayerOK' /\ WorkOK'
  BY DEF Voice!vars, Voice!ears, Voice!voice, Voice!work, EarsOK, PlayerOK, WorkOK
<1> QED BY <1>1, <1>2, EarsNext, PlayerNext, WorkNext, VoiceParts, VoicePartsNext

LEMMA VoiceInvariant == Voice!Spec => []VoiceOK
<1> USE VoiceAssumption
<1>1. Voice!Init => VoiceOK
  <2> SUFFICES ASSUME Voice!Init PROVE EarsOK /\ PlayerOK /\ WorkOK
    BY VoiceParts
  <2>1. EarsOK
    <3>1. v_timers \in 0..MaxTimers
      BY DEF Voice!Init, VoiceConstants
    <3> QED BY <3>1 DEF Voice!Init, EarsOK
  <2>2. PlayerOK
    BY DEF Voice!Init, PlayerOK
  <2>3. WorkOK
    BY DEF Voice!Init, WorkOK, Places
  <2> QED BY <2>1, <2>2, <2>3
<1>2. VoiceConstants
  OBVIOUS
<1> QED BY <1>1, <1>2, VoiceNext, PTL DEF Voice!Spec

(* The page never keeps its input locked for nothing (ask, resetPlayer and *)
(* speech.begin of lcdash-mae.js), however many questions, buttons and     *)
(* speech sessions overlap.                                                *)
THEOREM InputIsReleased == Voice!Spec => []InputNotLocked
<1>1. VoiceOK => Voice!InputNotLocked
  BY DEF VoiceOK
<1> QED BY <1>1, VoiceInvariant, PTL DEF InputNotLocked

-----------------------------------------------------------------------------
(* The avatar's page (AvatarVoice).  Its types are inductive; an open      *)
(* stream is counted among the open microphones.                           *)
AvatarFlags ==
  b_held \in BOOLEAN /\ b_stream \in BOOLEAN /\ b_capture \in BOOLEAN /\ b_stuck \in BOOLEAN

AvatarEars ==
  /\ b_opening \in 0..MaxAsked /\ b_clips \in 0..MaxClips
  /\ b_streams \in 0..MaxStreams /\ (b_stream => b_streams > 0)

AvatarTalk ==
  /\ b_pc \in {"idle", "answer", "speaking"}
  /\ b_owner \in {"nobody", "question", "greeting"}
  /\ b_voice \in {"silent", "making", "playing"}
  /\ b_greeting \in {"loading", "blocked", "tried"}

LEMMA AvatarParts == Avatar!TypeOK <=> AvatarFlags /\ AvatarEars /\ AvatarTalk
BY DEF Avatar!TypeOK, AvatarFlags, AvatarEars, AvatarTalk

LEMMA AvatarPartsNext == Avatar!TypeOK' <=> AvatarFlags' /\ AvatarEars' /\ AvatarTalk'
BY DEF Avatar!TypeOK, AvatarFlags, AvatarEars, AvatarTalk

LEMMA AvatarTalks == AvatarTalk /\ Avatar!Next => AvatarTalk'
<1> SUFFICES ASSUME AvatarTalk, Avatar!Next PROVE AvatarTalk'
  OBVIOUS
<1> USE DEF AvatarTalk, Avatar!talk, Avatar!Session, Avatar!Silence
<1>1. CASE Avatar!Press \/ Avatar!Granted \/ Avatar!Denied \/ Avatar!Release
  BY <1>1 DEF Avatar!Press, Avatar!Granted, Avatar!Denied, Avatar!Release
<1>2. CASE Avatar!Type \/ Avatar!Transcribed
  BY <1>2 DEF Avatar!Type, Avatar!Transcribed, Avatar!Asked
<1>3. CASE Avatar!Chunk \/ Avatar!Answered
  BY <1>3 DEF Avatar!Chunk, Avatar!Answered, Avatar!Enqueue
<1>4. CASE Avatar!Done \/ Avatar!AskFails \/ Avatar!Made \/ Avatar!Ended
  BY <1>4 DEF Avatar!Done, Avatar!AskFails, Avatar!Made, Avatar!Ended
<1>5. CASE Avatar!Stop \/ Avatar!Greet \/ Avatar!Blocked
  BY <1>5 DEF Avatar!Stop, Avatar!Greet, Avatar!Blocked
<1> QED BY <1>1, <1>2, <1>3, <1>4, <1>5 DEF Avatar!Next

LEMMA AvatarMarks == AvatarFlags /\ Avatar!Next => AvatarFlags'
<1> SUFFICES ASSUME AvatarFlags, Avatar!Next PROVE AvatarFlags'
  OBVIOUS
<1> USE DEF AvatarFlags, Avatar!ears, Avatar!talk, Avatar!Session, Avatar!Silence
<1>1. CASE Avatar!Press
  BY <1>1 DEF Avatar!Press
<1>2. CASE Avatar!Granted
  BY <1>2 DEF Avatar!Granted
<1>3. CASE Avatar!Denied \/ Avatar!Release
  BY <1>3 DEF Avatar!Denied, Avatar!Release, Avatar!Released
<1>4. CASE Avatar!Type \/ Avatar!Transcribed
  BY <1>4 DEF Avatar!Type, Avatar!Transcribed, Avatar!Asked
<1>5. CASE \/ Avatar!Chunk \/ Avatar!Answered \/ Avatar!Done \/ Avatar!AskFails
           \/ Avatar!Made \/ Avatar!Ended \/ Avatar!Blocked
  BY <1>5 DEF Avatar!Chunk, Avatar!Answered, Avatar!Done, Avatar!AskFails, Avatar!Made,
              Avatar!Ended, Avatar!Blocked
<1>6. CASE Avatar!Stop \/ Avatar!Greet
  BY <1>6 DEF Avatar!Stop, Avatar!Greet
<1> QED BY <1>1, <1>2, <1>3, <1>4, <1>5, <1>6 DEF Avatar!Next

LEMMA AvatarListens == AvatarConstants /\ AvatarEars /\ Avatar!Next => AvatarEars'
<1> SUFFICES ASSUME AvatarConstants, AvatarEars, Avatar!Next PROVE AvatarEars'
  OBVIOUS
<1> USE DEF AvatarConstants, AvatarEars, Avatar!ears
<1>1. ASSUME Avatar!Released
      PROVE  (b_streams \in 0..MaxStreams)' /\ (b_stream => b_streams > 0)'
  <2>1. /\ b_stream' = FALSE
        /\ \/ b_stream /\ b_streams' = b_streams - 1
           \/ ~b_stream /\ b_streams' = b_streams
    BY <1>1 DEF Avatar!Released
  <2> QED BY <2>1
<1>2. CASE Avatar!Press
  BY <1>2 DEF Avatar!Press
<1>3. CASE Avatar!Granted
  BY <1>3 DEF Avatar!Granted
<1>4. CASE Avatar!Denied
  <2>1. (b_opening \in 0..MaxAsked)' /\ (b_clips \in 0..MaxClips)'
    BY <1>4 DEF Avatar!Denied
  <2> QED BY <1>1, <1>4, <2>1 DEF Avatar!Denied
<1>5. CASE Avatar!Release
  <2>1. (b_opening \in 0..MaxAsked)' /\ (b_clips \in 0..MaxClips)'
    BY <1>5 DEF Avatar!Release
  <2>2. Avatar!Released \/ UNCHANGED <<b_streams, b_stream>>
    BY <1>5 DEF Avatar!Release
  <2> QED BY <1>1, <2>1, <2>2
<1>6. CASE Avatar!Transcribed
  BY <1>6 DEF Avatar!Transcribed
<1>7. CASE \/ Avatar!Type \/ Avatar!Chunk \/ Avatar!Answered \/ Avatar!Done
           \/ Avatar!AskFails \/ Avatar!Made \/ Avatar!Ended \/ Avatar!Stop
           \/ Avatar!Greet \/ Avatar!Blocked
  BY <1>7 DEF Avatar!Type, Avatar!Chunk, Avatar!Answered, Avatar!Done, Avatar!AskFails,
              Avatar!Made, Avatar!Ended, Avatar!Stop, Avatar!Greet, Avatar!Blocked
<1> QED BY <1>2, <1>3, <1>4, <1>5, <1>6, <1>7 DEF Avatar!Next

LEMMA AvatarNext ==
  AvatarConstants /\ Avatar!TypeOK /\ [Avatar!Next]_(Avatar!vars) => Avatar!TypeOK'
<1>1. Avatar!TypeOK /\ UNCHANGED Avatar!vars => Avatar!TypeOK'
  BY DEF Avatar!vars, Avatar!ears, Avatar!talk, Avatar!TypeOK
<1> QED BY <1>1, AvatarParts, AvatarPartsNext, AvatarTalks, AvatarMarks, AvatarListens

(* The avatar's page is of its types: the graph it records from is one of  *)
(* the microphones it holds open.                                          *)
THEOREM AvatarTypes == Avatar!Spec => []Avatar!TypeOK
<1>1. Avatar!Init => Avatar!TypeOK
  <2>1. Avatar!Init => AvatarFlags /\ AvatarTalk
    BY DEF Avatar!Init, AvatarFlags, AvatarTalk
  <2>2. Avatar!Init => AvatarEars
    BY AvatarAssumption DEF AvatarConstants, Avatar!Init, AvatarEars
  <2> QED BY <2>1, <2>2, AvatarParts
<1>2. Avatar!TypeOK /\ [Avatar!Next]_(Avatar!vars) => Avatar!TypeOK'
  BY AvatarAssumption, AvatarNext
<1> QED BY <1>1, <1>2, PTL DEF Avatar!Spec

-----------------------------------------------------------------------------
(* The dashboard's refresh (DashboardRefresh). *)

RefreshOK == Dashboard!TypeOK /\ Dashboard!NoEventForgotten

(* ... taken apart. *)
Badges == {"verified", "last verified", "last known", "unavailable", "stale"}
Delays == /\ d_countdown \in 0..RefreshSeconds /\ d_waited \in 0..RequestSeconds
          /\ d_age \in 0..StaleSeconds /\ d_badge \in Badges
Flags  == /\ d_fetching \in BOOLEAN /\ d_pending \in BOOLEAN /\ d_debounce \in BOOLEAN
          /\ d_soon \in BOOLEAN /\ d_unasked \in BOOLEAN
          /\ Dashboard!NoEventForgotten

LEMMA RefreshParts == RefreshOK <=> Delays /\ Flags
BY DEF RefreshOK, Dashboard!TypeOK, Delays, Flags, Badges

LEMMA RefreshPartsNext == RefreshOK' <=> (Delays' /\ Flags')
BY RefreshParts, PTL

LEMMA SaidInTime ==
  ASSUME NEW words \in Badges, NEW a \in 0..StaleSeconds, Dashboard!Say(words, a)
  PROVE  d_age' \in 0..StaleSeconds /\ d_badge' \in Badges
BY DEF Dashboard!Say, Badges

LEMMA DelaysNext == DashboardConstants /\ Delays /\ Dashboard!Next => Delays'
<1> SUFFICES ASSUME DashboardConstants, Delays, Dashboard!Next PROVE Delays'
  OBVIOUS
<1> USE DEF Delays, DashboardConstants
<1>1. CASE Dashboard!Tick
  <2>1. Dashboard!Older \in 0..StaleSeconds
    BY DEF Dashboard!Older
  <2>2. d_age' \in 0..StaleSeconds /\ d_badge' \in Badges
    BY <1>1, <2>1, SaidInTime DEF Dashboard!Tick
  <2>3. d_waited' \in 0..RequestSeconds
    <3>1. CASE d_fetching
      BY <1>1, <3>1 DEF Dashboard!Tick
    <3>2. CASE ~d_fetching
      BY <1>1, <3>2 DEF Dashboard!Tick
    <3> QED BY <3>1, <3>2
  <2>4. d_countdown' = d_countdown \/ (d_countdown > 0 /\ d_countdown' = d_countdown - 1)
    BY <1>1 DEF Dashboard!Tick
  <2> QED BY <2>2, <2>3, <2>4
<1>2. ASSUME UNCHANGED <<d_countdown, d_waited, d_age, d_badge>> PROVE Delays'
  BY <1>2
<1>3. ASSUME Dashboard!Visible PROVE Delays'
  <2>1. d_age' \in 0..StaleSeconds /\ d_badge' \in Badges
    BY <1>3, SaidInTime DEF Dashboard!Visible
  <2> QED BY <1>3, <2>1 DEF Dashboard!Visible
<1>4. ASSUME Dashboard!Done, NEW words \in Badges, NEW a \in 0..StaleSeconds,
             Dashboard!Say(words, a)
      PROVE  Delays'
  <2>1. d_countdown' \in 0..RefreshSeconds /\ d_waited' = 0
    BY <1>4 DEF Dashboard!Done
  <2> QED BY <1>4, <2>1, SaidInTime
<1> QED BY <1>1, <1>2, <1>3, <1>4
        DEF Dashboard!Next, Dashboard!Event, Dashboard!DebounceEnds, Dashboard!SoonComes,
            Dashboard!Click, Dashboard!ReceiveNothing, Dashboard!RequestFails,
            Dashboard!Receive, Badges

(* A request that is sent, or noted because one is under way, answers for  *)
(* all events there were.                                                  *)
LEMMA RequestAsks ==
  ASSUME Flags, Dashboard!refreshDashboard,
         d_debounce' \in BOOLEAN, d_soon' \in BOOLEAN
  PROVE  Flags'
BY DEF Flags, Dashboard!refreshDashboard, Dashboard!NoEventForgotten

LEMMA FlagsNext == Flags /\ Dashboard!Next => Flags'
<1> SUFFICES ASSUME Flags, Dashboard!Next PROVE Flags'
  OBVIOUS
<1>0. d_debounce \in BOOLEAN /\ d_soon \in BOOLEAN
  BY DEF Flags
<1>1. CASE Dashboard!Tick
  <2>1. d_debounce' = d_debounce /\ d_soon' = d_soon
    BY <1>1 DEF Dashboard!Tick
  <2>2. CASE Dashboard!refreshDashboard
    BY <1>0, <2>1, <2>2, RequestAsks
  <2>3. CASE UNCHANGED <<d_fetching, d_pending, d_unasked>>
    BY <2>1, <2>3 DEF Flags, Dashboard!NoEventForgotten
  <2> QED BY <1>1, <2>2, <2>3 DEF Dashboard!Tick
<1>2. CASE Dashboard!Event
  BY <1>2 DEF Dashboard!Event, Flags, Dashboard!NoEventForgotten
<1>3. ASSUME Dashboard!DebounceEnds \/ Dashboard!SoonComes \/ Dashboard!Click
               \/ Dashboard!Visible
      PROVE  Flags'
  <2>1. Dashboard!refreshDashboard
    BY <1>3 DEF Dashboard!DebounceEnds, Dashboard!SoonComes, Dashboard!Click,
                Dashboard!Visible
  <2>2. d_debounce' \in BOOLEAN /\ d_soon' \in BOOLEAN
    BY <1>0, <1>3 DEF Dashboard!DebounceEnds, Dashboard!SoonComes, Dashboard!Click,
                      Dashboard!Visible
  <2> QED BY <2>1, <2>2, RequestAsks
<1>4. ASSUME Dashboard!Done PROVE Flags'
  BY <1>4 DEF Dashboard!Done, Flags, Dashboard!NoEventForgotten
<1> QED BY <1>1, <1>2, <1>3, <1>4
        DEF Dashboard!Next, Dashboard!ReceiveNothing, Dashboard!RequestFails, Dashboard!Receive

LEMMA RefreshNext ==
  DashboardConstants /\ RefreshOK /\ [Dashboard!Next]_(Dashboard!vars) => RefreshOK'
<1>1. UNCHANGED Dashboard!vars /\ Delays /\ Flags => Delays' /\ Flags'
  BY DEF Dashboard!vars, Delays, Flags, Dashboard!NoEventForgotten
<1> QED BY <1>1, DelaysNext, FlagsNext, RefreshParts, RefreshPartsNext

LEMMA DashboardInvariant == Dashboard!Spec => []RefreshOK
<1> USE DashboardAssumption
<1>1. Dashboard!Init => RefreshOK
  <2>1. ASSUME Dashboard!Init PROVE Delays
    <3>1. d_badge \in Badges
      BY <2>1 DEF Dashboard!Init, Badges
    <3>2. d_countdown = RefreshSeconds /\ d_waited = 0 /\ d_age = 0
      BY <2>1 DEF Dashboard!Init
    <3> QED BY <3>1, <3>2 DEF Delays, DashboardConstants
  <2>2. Dashboard!Init => Flags
    BY DEF Dashboard!Init, Flags, Dashboard!NoEventForgotten
  <2> QED BY <2>1, <2>2, RefreshParts
<1>2. DashboardConstants
  OBVIOUS
<1> QED BY <1>1, <1>2, RefreshNext, PTL DEF Dashboard!Spec

(* No event the browser was told of goes unasked (handleRealtimeEvent,     *)
(* refreshDashboard), whatever the three intervals are.                    *)
THEOREM EventsAreAsked == Dashboard!Spec => []NoEventForgotten
<1>1. RefreshOK => Dashboard!NoEventForgotten
  BY DEF RefreshOK
<1> QED BY <1>1, DashboardInvariant, PTL DEF NoEventForgotten

-----------------------------------------------------------------------------
(* The budget of the cloud assistant (CloudAdvisory). *)

(* Questions that have a reservation for day d and have not called yet. *)
Reserved(d) == {q \in Question : a_pc[q] = "call" /\ a_paid[q] = d}

(* Calls and reservations not yet used are counted on their day, within    *)
(* the limit when it is over, and the future has none.                     *)
DayOK(d) ==
  /\ d = a_day => a_calls[d] + Cardinality(Reserved(d)) <= a_count
  /\ a_calls[d] + Cardinality(Reserved(d)) <= Limit
  /\ d > a_day => a_calls[d] = 0 /\ Reserved(d) = {}

(* Only its tool loop makes a question's rounds, and they are limited. *)
RoundsOK ==
  \A q \in Question :
    /\ a_pc[q] = "new" => a_rounds[q] = 0
    /\ a_pc[q] = "retrieve" => a_path[q] = "documents"
    /\ a_pc[q] \in {"reserve", "call"} /\ a_path[q] = "tools" => a_rounds[q] <= MaxRounds

DaysOK == \A d \in Advisory!Day : DayOK(d)

BudgetOK == Advisory!TypeOK /\ a_day <= a_today /\ RoundsOK /\ DaysOK

LEMMA ReservedFinite ==
  ASSUME BudgetConstants, NEW d
  PROVE  IsFiniteSet(Reserved(d)) /\ Cardinality(Reserved(d)) \in Nat
<1>1. Reserved(d) \subseteq Question
  BY DEF Reserved
<1> QED BY <1>1, FS_Subset, FS_CardinalityType DEF BudgetConstants

(* A call uses one reservation up and is counted on its day. *)
LEMMA CallCounted ==
  ASSUME BudgetConstants, Advisory!TypeOK, DaysOK,
         NEW r \in Question, NEW stage, stage # "call",
         Advisory!Call(r), a_pc' = [a_pc EXCEPT ![r] = stage]
  PROVE  DaysOK'
<1>1. /\ a_paid[r] \in Advisory!Day /\ a_pc[r] = "call"
      /\ \A d \in Advisory!Day :
           a_calls[d] \in Nat /\ a_calls'[d] = IF d = a_paid[r] THEN a_calls[d] + 1 ELSE a_calls[d]
  BY DEF Advisory!TypeOK, Advisory!Call
<1>2. a_day' = a_day /\ a_count' = a_count /\ a_paid' = a_paid /\ a_day \in Int /\ a_count \in Int
  BY DEF Advisory!TypeOK, Advisory!Call, Advisory!Day
<1> SUFFICES ASSUME NEW d \in Advisory!Day PROVE DayOK(d)'
  BY DEF DaysOK, Advisory!Day
<1>3. DayOK(d) /\ d \in Int
  BY DEF DaysOK, Advisory!Day
<1>4. IsFiniteSet(Reserved(d)) /\ Cardinality(Reserved(d)) \in Nat
  BY ReservedFinite
<1>5. CASE d = a_paid[r]
  <2>1. r \in Reserved(d) /\ Reserved(d)' = Reserved(d) \ {r}
    BY <1>1, <1>2, <1>5 DEF Reserved, Advisory!TypeOK
  <2>2. Cardinality(Reserved(d)') = Cardinality(Reserved(d)) - 1
    BY <1>4, <2>1, FS_RemoveElement
  <2> QED BY <1>1, <1>2, <1>3, <1>4, <1>5, <2>1, <2>2 DEF DayOK
<1>6. CASE d # a_paid[r]
  <2>1. Reserved(d)' = Reserved(d)
    BY <1>1, <1>2, <1>6 DEF Reserved, Advisory!TypeOK
  <2> QED BY <1>1, <1>2, <1>3, <1>6, <2>1 DEF DayOK
<1> QED BY <1>5, <1>6

(* A step of a question that is not at a call, and does not come to one.   *)
LEMMA ElsewhereCounted ==
  ASSUME Advisory!TypeOK, DaysOK, NEW r \in Question, NEW stage, stage # "call",
         a_pc[r] # "call", a_pc' = [a_pc EXCEPT ![r] = stage],
         UNCHANGED <<a_day, a_count, a_paid, a_calls>>
  PROVE  DaysOK'
<1> SUFFICES ASSUME NEW d \in Advisory!Day PROVE DayOK(d)'
  BY DEF DaysOK, Advisory!Day
<1>1. Reserved(d)' = Reserved(d)
  BY DEF Reserved, Advisory!TypeOK
<1> QED BY <1>1 DEF DaysOK, DayOK

(* A reservation is one of the day it is made on. *)
LEMMA ReserveCounted ==
  ASSUME BudgetConstants, BudgetOK, NEW r \in Question, Advisory!Reserve(r)
  PROVE  DaysOK'
<1>1. /\ a_pc[r] = "reserve" /\ a_day' = a_today /\ a_calls' = a_calls
      /\ a_day \in Nat /\ a_today \in Nat /\ a_count \in Nat /\ a_count <= Limit
      /\ a_today \in Advisory!Day /\ a_day <= a_today /\ Limit \in Nat
  BY DEF BudgetOK, BudgetConstants, Advisory!TypeOK, Advisory!Reserve, Advisory!Day
<1>2. \A d \in Advisory!Day :
        /\ a_calls[d] \in Nat /\ d \in Nat /\ DayOK(d)
        /\ IsFiniteSet(Reserved(d)) /\ Cardinality(Reserved(d)) \in Nat
  BY ReservedFinite DEF BudgetOK, Advisory!TypeOK, DaysOK, Advisory!Day, BudgetConstants
<1>3. Advisory!Taken \in Nat /\ Advisory!Taken <= Limit
  BY <1>1 DEF Advisory!Taken
<1>4. a_calls[a_today] + Cardinality(Reserved(a_today)) <= Advisory!Taken
  <2>1. CASE a_day = a_today
    BY <1>1, <1>2, <2>1 DEF DayOK, Advisory!Taken
  <2>2. CASE a_day # a_today
    <3>1. a_calls[a_today] = 0 /\ Reserved(a_today) = {}
      BY <1>1, <1>2, <2>2 DEF DayOK
    <3> QED BY <1>3, <3>1, FS_EmptySet
  <2> QED BY <2>1, <2>2
<1> SUFFICES ASSUME NEW d \in Advisory!Day PROVE DayOK(d)'
  BY DEF DaysOK, Advisory!Day
<1>5. CASE Advisory!HasRoom
  <2>1. /\ a_count' = Advisory!Taken + 1 /\ Advisory!Taken + 1 <= Limit
        /\ a_pc' = [a_pc EXCEPT ![r] = "call"]
        /\ a_paid' = [a_paid EXCEPT ![r] = a_today]
    BY <1>1, <1>3, <1>5 DEF Advisory!Reserve, Advisory!HasRoom, Advisory!Goto
  <2>2. CASE d = a_today
    <3>1. r \notin Reserved(d) /\ Reserved(d)' = Reserved(d) \cup {r}
      BY <1>1, <2>1, <2>2 DEF Reserved, BudgetOK, Advisory!TypeOK
    <3>2. Cardinality(Reserved(d)') = Cardinality(Reserved(d)) + 1
      BY <1>2, <3>1, FS_AddElement
    <3> QED BY <1>1, <1>2, <1>3, <1>4, <2>1, <2>2, <3>2 DEF DayOK
  <2>3. CASE d # a_today
    <3>1. Reserved(d)' = Reserved(d)
      BY <1>1, <2>1, <2>3 DEF Reserved, BudgetOK, Advisory!TypeOK
    <3> QED BY <1>1, <1>2, <2>1, <2>3, <3>1 DEF DayOK
  <2> QED BY <2>2, <2>3
<1>6. CASE ~Advisory!HasRoom
  <2>1. /\ a_count' = Advisory!Taken /\ a_paid' = a_paid
        /\ a_pc' = [a_pc EXCEPT ![r] = "denied"]
    BY <1>6 DEF Advisory!Reserve, Advisory!Goto
  <2>2. Reserved(d)' = Reserved(d)
    BY <1>1, <2>1 DEF Reserved, BudgetOK, Advisory!TypeOK
  <2> QED BY <1>1, <1>2, <1>4, <2>1, <2>2 DEF DayOK
<1> QED BY <1>5, <1>6

Stages == {"new", "retrieve", "reserve", "call"} \cup Advisory!Ended

(* What a step of question r leaves of it: its place, its path and rounds. *)
Comes(r, stage, way, n) ==
  /\ stage \in Stages /\ way \in Advisory!Paths /\ n \in 0..(MaxRounds + 1)
  /\ stage = "new" => n = 0
  /\ stage = "retrieve" => way = "documents"
  /\ stage \in {"reserve", "call"} /\ way = "tools" => n <= MaxRounds
  /\ a_pc' = [a_pc EXCEPT ![r] = stage]
  /\ a_path' = [a_path EXCEPT ![r] = way]
  /\ a_rounds' = [a_rounds EXCEPT ![r] = n]

Placed ==
  /\ a_pc \in [Question -> Stages] /\ a_path \in [Question -> Advisory!Paths]
  /\ a_rounds \in [Question -> 0..(MaxRounds + 1)] /\ RoundsOK

LEMMA ComesPlaced ==
  ASSUME Placed, NEW r \in Question, NEW stage, NEW way, NEW n, Comes(r, stage, way, n)
  PROVE  Placed'
BY DEF Placed, Comes, RoundsOK

(* Whoever goes nowhere new keeps its path and its rounds. *)
LEMMA ComesAlong ==
  ASSUME BudgetConstants, Placed, NEW r \in Question
  PROVE  /\ a_path = [a_path EXCEPT ![r] = a_path[r]] /\ a_path[r] \in Advisory!Paths
         /\ a_rounds = [a_rounds EXCEPT ![r] = a_rounds[r]]
         /\ a_rounds[r] \in Nat /\ a_rounds[r] <= MaxRounds + 1 /\ MaxRounds \in Nat
         /\ a_pc[r] = "new" => a_rounds[r] = 0
         /\ a_pc[r] = "retrieve" => a_path[r] = "documents"
         /\ a_pc[r] \in {"reserve", "call"} /\ a_path[r] = "tools" => a_rounds[r] <= MaxRounds
BY DEF Placed, RoundsOK, BudgetConstants

(* Who goes where, and with how many rounds. *)
LEMMA QuestionsPlaced ==
  ASSUME BudgetConstants, Placed, Advisory!Next
  PROVE  Placed'
<1> USE DEF Comes, Stages, Advisory!Ended, Advisory!Goto
<1>1. CASE Advisory!NextDay
  BY <1>1 DEF Advisory!NextDay, Placed, RoundsOK
<1>2. ASSUME NEW r \in Question, Advisory!Ask(r)
      PROVE  Placed'
  <2>1. PICK stage \in {"reserve", "retrieve"}, way \in Advisory!Paths :
          /\ stage = "retrieve" => way = "documents"
          /\ a_pc' = [a_pc EXCEPT ![r] = stage] /\ a_path' = [a_path EXCEPT ![r] = way]
    BY <1>2 DEF Advisory!Ask, Advisory!AskFacts, Advisory!AskTools,
                Advisory!AskDocuments, Advisory!Take, Advisory!Paths
  <2>2. a_pc[r] = "new" /\ a_rounds' = a_rounds
    BY <1>2 DEF Advisory!Ask
  <2>3. Comes(r, stage, way, a_rounds[r])
    BY <2>1, <2>2, ComesAlong
  <2> QED BY <2>3, ComesPlaced
<1>3. ASSUME NEW r \in Question, Advisory!Retrieve(r)
      PROVE  Placed'
  <2>1. PICK stage \in {"reserve", "denied", "failed"} : a_pc' = [a_pc EXCEPT ![r] = stage]
    BY <1>3 DEF Advisory!Retrieve
  <2>2. a_pc[r] = "retrieve" /\ a_path' = a_path /\ a_rounds' = a_rounds
    BY <1>3 DEF Advisory!Retrieve
  <2>3. Comes(r, stage, a_path[r], a_rounds[r])
    BY <2>1, <2>2, ComesAlong
  <2> QED BY <2>3, ComesPlaced
<1>4. ASSUME NEW r \in Question, Advisory!Reserve(r)
      PROVE  Placed'
  <2>1. PICK stage \in {"call", "denied"} : a_pc' = [a_pc EXCEPT ![r] = stage]
    BY <1>4 DEF Advisory!Reserve
  <2>2. a_pc[r] = "reserve" /\ a_path' = a_path /\ a_rounds' = a_rounds
    BY <1>4 DEF Advisory!Reserve
  <2>3. Comes(r, stage, a_path[r], a_rounds[r])
    BY <2>1, <2>2, ComesAlong
  <2> QED BY <2>3, ComesPlaced
<1>5. ASSUME NEW r \in Question, Advisory!CallFails(r) \/ Advisory!Words(r)
      PROVE  Placed'
  <2>1. PICK stage \in Advisory!Ended : a_pc' = [a_pc EXCEPT ![r] = stage]
    BY <1>5 DEF Advisory!CallFails, Advisory!Words
  <2>2. a_path' = a_path /\ a_rounds' = a_rounds
    BY <1>5 DEF Advisory!CallFails, Advisory!Words
  <2>3. Comes(r, stage, a_path[r], a_rounds[r])
    BY <2>1, <2>2, ComesAlong
  <2> QED BY <2>3, ComesPlaced
<1>6. ASSUME NEW r \in Question, Advisory!UseTools(r)
      PROVE  Placed'
  <2>1. /\ a_pc[r] = "call" /\ a_path[r] = "tools" /\ a_path' = a_path
        /\ a_rounds' = [a_rounds EXCEPT ![r] = a_rounds[r] + 1]
    BY <1>6 DEF Advisory!UseTools, Advisory!Call
  <2>2. CASE a_rounds[r] < MaxRounds
    <3>1. Comes(r, "reserve", a_path[r], a_rounds[r] + 1)
      BY <1>6, <2>1, <2>2, ComesAlong DEF Advisory!UseTools, Advisory!NextRound
    <3> QED BY <3>1, ComesPlaced
  <2>3. CASE ~(a_rounds[r] < MaxRounds)
    <3>1. Comes(r, "denied", a_path[r], a_rounds[r] + 1)
      BY <1>6, <2>1, <2>3, ComesAlong DEF Advisory!UseTools
    <3> QED BY <3>1, ComesPlaced
  <2> QED BY <2>2, <2>3
<1>7. ASSUME NEW r \in Question, Advisory!LeaveTools(r)
      PROVE  Placed'
  <2>1. Comes(r, "retrieve", "documents", a_rounds[r])
    BY <1>7, ComesAlong DEF Advisory!LeaveTools, Advisory!AskDocuments, Advisory!Take,
                            Advisory!Paths
  <2> QED BY <2>1, ComesPlaced
<1>8. ASSUME NEW r \in Question, Advisory!Again(r)
      PROVE  Placed'
  <2>1. Comes(r, "new", a_path[r], 0)
    BY <1>8, ComesAlong DEF Advisory!Again
  <2> QED BY <2>1, ComesPlaced
<1> QED BY <1>1, <1>2, <1>3, <1>4, <1>5, <1>6, <1>7, <1>8
        DEF Advisory!Next, Advisory!Phrase, Advisory!Converse, Advisory!EndTools

(* The budget's own state, and what is only counted. *)
Counts ==
  /\ a_today \in Advisory!Day /\ a_day \in Advisory!Day /\ a_day <= a_today
  /\ a_count \in 0..Limit /\ a_used \in [Question -> BOOLEAN]
  /\ a_paid \in [Question -> Advisory!Day] /\ a_calls \in [Advisory!Day -> Nat]

LEMMA CountsStay ==
  ASSUME BudgetConstants, Counts, Advisory!Next
  PROVE  Counts'
<1>1. CASE Advisory!NextDay
  BY <1>1 DEF Advisory!NextDay, Counts, Advisory!Day, BudgetConstants
<1>2. ASSUME NEW r \in Question,
             Advisory!Ask(r) \/ Advisory!Retrieve(r) \/ Advisory!Again(r)
      PROVE  Counts'
  BY <1>2 DEF Advisory!Ask, Advisory!Retrieve, Advisory!Again, Counts, Advisory!Day
<1>3. ASSUME NEW r \in Question, Advisory!Reserve(r)
      PROVE  Counts'
  <2>1. /\ a_day' = a_today /\ a_today' = a_today /\ a_used' = a_used /\ a_calls' = a_calls
        /\ \/ a_count' = Advisory!Taken
           \/ Advisory!Taken < Limit /\ a_count' = Advisory!Taken + 1
        /\ a_paid' = a_paid \/ a_paid' = [a_paid EXCEPT ![r] = a_today]
    <3>1. CASE Advisory!HasRoom
      BY <1>3, <3>1 DEF Advisory!Reserve, Advisory!HasRoom
    <3>2. CASE ~Advisory!HasRoom
      BY <1>3, <3>2 DEF Advisory!Reserve, Advisory!HasRoom
    <3> QED BY <3>1, <3>2
  <2>2. a_count' \in 0..Limit
    BY <2>1 DEF Advisory!Taken, Counts, BudgetConstants
  <2>3. a_paid' \in [Question -> Advisory!Day]
    BY <2>1 DEF Counts
  <2>4. a_today \in Int
    BY DEF Counts, Advisory!Day
  <2> QED BY <2>1, <2>2, <2>3, <2>4 DEF Counts, Advisory!Day
<1>4. ASSUME NEW r \in Question,
             Advisory!CallFails(r) \/ Advisory!Words(r) \/ Advisory!UseTools(r)
               \/ Advisory!LeaveTools(r)
      PROVE  Counts'
  <2>1. /\ UNCHANGED <<a_today, a_day, a_count, a_paid>>
        /\ a_calls' = [a_calls EXCEPT ![a_paid[r]] = a_calls[a_paid[r]] + 1]
        /\ a_used' = a_used \/ a_used' = [a_used EXCEPT ![r] = TRUE]
    BY <1>4 DEF Advisory!CallFails, Advisory!Words, Advisory!UseTools, Advisory!LeaveTools,
                Advisory!Call
  <2>2. a_calls' \in [Advisory!Day -> Nat]
    BY <2>1 DEF Counts
  <2>3. a_used' \in [Question -> BOOLEAN]
    BY <2>1 DEF Counts
  <2> QED BY <2>1, <2>2, <2>3 DEF Counts, Advisory!Day
<1> QED BY <1>1, <1>2, <1>3, <1>4
        DEF Advisory!Next, Advisory!Phrase, Advisory!Converse, Advisory!EndTools

LEMMA BudgetParts == BudgetOK <=> Placed /\ Counts /\ DaysOK
BY DEF BudgetOK, Placed, Counts, Advisory!TypeOK, Stages

LEMMA BudgetPartsNext == BudgetOK' <=> (Placed' /\ Counts' /\ DaysOK')
BY BudgetParts, PTL

LEMMA BudgetNext ==
  BudgetConstants /\ BudgetOK /\ [Advisory!Next]_(Advisory!vars) => BudgetOK'
<1> SUFFICES ASSUME BudgetConstants, BudgetOK, [Advisory!Next]_(Advisory!vars)
             PROVE  BudgetOK'
  OBVIOUS
<1>1. CASE UNCHANGED Advisory!vars
  BY <1>1 DEF BudgetOK, Advisory!TypeOK, RoundsOK, DaysOK, DayOK, Reserved, Advisory!vars
<1>2. CASE Advisory!Next
  <2> Advisory!TypeOK /\ DaysOK
    BY DEF BudgetOK
  <2>1. ASSUME Advisory!NextDay PROVE DaysOK'
    <3>1. UNCHANGED <<a_day, a_count, a_pc, a_paid, a_calls>>
      BY <2>1 DEF Advisory!NextDay
    <3>2. \A d : Reserved(d)' = Reserved(d)
      BY <3>1 DEF Reserved
    <3> QED BY <3>1, <3>2 DEF DaysOK, DayOK, Advisory!Day
  <2>2. ASSUME NEW r \in Question, Advisory!Reserve(r) PROVE DaysOK'
    BY <2>2, ReserveCounted
  <2>3. ASSUME NEW r \in Question,
               Advisory!Ask(r) \/ Advisory!Retrieve(r) \/ Advisory!Again(r)
        PROVE  DaysOK'
    <3>1. /\ a_pc[r] # "call" /\ UNCHANGED <<a_day, a_count, a_paid, a_calls>>
          /\ \E stage : stage # "call" /\ a_pc' = [a_pc EXCEPT ![r] = stage]
      BY <2>3 DEF Advisory!Ask, Advisory!Retrieve, Advisory!Again, Advisory!AskFacts,
                  Advisory!AskTools, Advisory!AskDocuments, Advisory!Goto, Advisory!Ended
    <3> QED BY <3>1, ElsewhereCounted
  <2>4. ASSUME NEW r \in Question,
               Advisory!CallFails(r) \/ Advisory!Words(r) \/ Advisory!UseTools(r)
                 \/ Advisory!LeaveTools(r)
        PROVE  DaysOK'
    <3>1. /\ Advisory!Call(r)
          /\ \E stage : stage # "call" /\ a_pc' = [a_pc EXCEPT ![r] = stage]
      BY <2>4 DEF Advisory!CallFails, Advisory!Words, Advisory!UseTools,
                  Advisory!NextRound, Advisory!LeaveTools, Advisory!AskDocuments,
                  Advisory!Goto
    <3> QED BY <3>1, CallCounted
  <2>5. DaysOK'
    BY <1>2, <2>1, <2>2, <2>3, <2>4
    DEF Advisory!Next, Advisory!Phrase, Advisory!Converse, Advisory!EndTools
  <2> QED BY <1>2, <2>5, QuestionsPlaced, CountsStay, BudgetParts, BudgetPartsNext
<1> QED BY <1>1, <1>2

LEMMA AdvisoryInvariant == Advisory!Spec => []BudgetOK
<1> USE BudgetAssumption
<1>1. Advisory!Init => BudgetOK
  <2> SUFFICES ASSUME Advisory!Init PROVE BudgetOK
    OBVIOUS
  <2>1. \A d : Reserved(d) = {}
    BY DEF Advisory!Init, Reserved
  <2>2. Placed
    BY DEF Advisory!Init, Placed, RoundsOK, Stages, Advisory!Paths, BudgetConstants
  <2>3. Counts
    BY DEF Advisory!Init, Counts, Advisory!Day, BudgetConstants
  <2>4. DaysOK
    <3> SUFFICES ASSUME NEW d \in Advisory!Day PROVE DayOK(d)
      BY DEF DaysOK
    <3>1. Reserved(d) = {} /\ Cardinality(Reserved(d)) = 0 /\ a_calls[d] = 0
      BY <2>1, FS_EmptySet DEF Advisory!Init
    <3> QED BY <3>1 DEF Advisory!Init, DayOK, BudgetConstants
  <2> QED BY <2>2, <2>3, <2>4, BudgetParts
<1>2. BudgetConstants
  OBVIOUS
<1> QED BY <1>1, <1>2, BudgetNext, PTL DEF Advisory!Spec

(* The cloud assistant's daily limit (DailyRequestBudget) bounds the calls *)
(* of the model on each day, whatever the paths, tool rounds and failures  *)
(* of the questions under way, and however the day changes meanwhile.      *)
THEOREM DailyBudgetHolds == Advisory!Spec => []BudgetHolds
<1> USE BudgetAssumption
<1>1. BudgetOK => Advisory!BudgetHolds
  <2> SUFFICES ASSUME BudgetOK, NEW d \in Advisory!Day PROVE a_calls[d] <= Limit
    BY DEF Advisory!BudgetHolds
  <2>1. a_calls[d] \in Nat /\ DayOK(d) /\ Limit \in Nat
    BY DEF BudgetOK, Advisory!TypeOK, DaysOK, BudgetConstants
  <2> QED BY <2>1, ReservedFinite DEF DayOK
<1> QED BY <1>1, AdvisoryInvariant, PTL DEF BudgetHolds

-----------------------------------------------------------------------------
(* A pool that becomes what the list says (UserSync).  Of the plan's calls *)
(* only their effects matter, and that a user's removals come before the   *)
(* addition.  The invariant: the calls are such as the list asks for, ...  *)
Wanted(u) ==
  IF u_approved[u] = NotListed
    THEN {Sync!On(u, "disable")}
    ELSE {Sync!On(u, "create"), Sync!On(u, "enable"), Sync!In(u, "add", u_approved[u])}
           \cup {Sync!In(u, "remove", g) : g \in PersonGroup \ {u_approved[u]}}

SyncTypes ==
  /\ u_approved \in [Person -> PersonGroup \cup {NotListed}]
  /\ u_pool \in [Person -> Sync!Accounts] /\ u_seen \in [Person -> Sync!Accounts]
  /\ u_unread \subseteq Person
  /\ u_pc \in {"idle", "read", "apply", "done"} /\ u_disturbed \in BOOLEAN
  /\ (u_plan # {} => u_pc = "apply") /\ (u_unread # {} => u_pc = "read")

WantedOK == \A c \in u_plan : \E u \in Person : c \in Wanted(u)

(* ... what was read is there, ...                                         *)
ReadOK ==
  u_pc = "read" /\ ~u_disturbed => \A u \in Person \ u_unread : u_seen[u] = u_pool[u]

(* ... and with account a, which was read as s, the calls that are left    *)
(* make what the list says, through no more roles than it had.             *)
Leads(u, a, s, rest) ==
  IF u_approved[u] = NotListed
    THEN /\ a.groups = s.groups
         /\ a.status # "enabled" \/ Sync!On(u, "disable") \in rest
    ELSE /\ \/ a.status = "enabled"
            \/ Sync!On(u, "create") \in rest \/ Sync!On(u, "enable") \in rest
         /\ \A g \in PersonGroup \ {u_approved[u]} :
              g \in a.groups => Sync!In(u, "remove", g) \in rest
         /\ u_approved[u] \in a.groups \/ Sync!In(u, "add", u_approved[u]) \in rest
         /\ a.groups \subseteq s.groups \/ a.groups = {u_approved[u]}

LeadsOK ==
  u_pc = "apply" /\ ~u_disturbed =>
    \A u \in Person : Leads(u, u_pool[u], u_seen[u], u_plan)

ThroughOK == u_pc = "done" => \A u \in Person : Sync!AsDeclared(u)

SyncOK == SyncTypes /\ WantedOK /\ ReadOK /\ LeadsOK /\ ThroughOK

LEMMA SyncCardinality == \A S : Sync!Cardinality(S) = Cardinality(S)
BY Zenon DEF Sync!Cardinality, Cardinality

LEMMA SyncMax == \A n \in Nat : Sync!Max({1, n}) = IF n > 1 THEN n ELSE 1
<1> SUFFICES ASSUME NEW n \in Nat PROVE Sync!Max({1, n}) = IF n > 1 THEN n ELSE 1
  OBVIOUS
<1> DEFINE m == IF n > 1 THEN n ELSE 1
<1>1. m \in {1, n} /\ \A y \in {1, n} : m >= y
  OBVIOUS
<1>2. \A x \in {1, n} : (\A y \in {1, n} : x >= y) => x = m
  OBVIOUS
<1>3. Sync!Max({1, n}) = CHOOSE x \in {1, n} : \A y \in {1, n} : x >= y
  BY DEF Sync!Max
<1> QED BY <1>1, <1>2, <1>3

LEMMA AccountIs ==
  ASSUME NEW a \in Sync!Accounts
  PROVE  /\ a.status \in {"none", "enabled", "disabled"} /\ a.groups \subseteq PersonGroup
         /\ a = [status |-> a.status, groups |-> a.groups]
         /\ a.status = "none" => a.groups = {}
BY DEF Sync!Accounts, Sync!Account, Sync!NoAccount

LEMMA AccountOf ==
  ASSUME NEW s \in {"enabled", "disabled"}, NEW g \in SUBSET PersonGroup
  PROVE  [status |-> s, groups |-> g] \in Sync!Accounts
BY DEF Sync!Accounts, Sync!Account, Sync!NoAccount

(* A call tells its kind, its user and its group.                          *)
LEMMA CallIs ==
  /\ \A u, k : Sync!On(u, k).kind = k /\ Sync!On(u, k).user = u
  /\ \A u, k, g : /\ Sync!In(u, k, g).kind = k /\ Sync!In(u, k, g).user = u
                  /\ Sync!In(u, k, g).group = g
BY DEF Sync!On, Sync!In

LEMMA WantedUser == \A u \in Person : \A c \in Wanted(u) : c.user = u
BY CallIs DEF Wanted

(* What a call makes of an account.                                        *)
LEMMA AfterIs ==
  ASSUME SyncTypes, NEW u \in Person, NEW c, c.user = u
  PROVE  LET a == u_pool[u] IN
         /\ c.kind \in {"create", "enable"} =>
              Sync!After(c) = [status |-> "enabled", groups |-> a.groups]
         /\ c.kind = "disable" => Sync!After(c) = [status |-> "disabled", groups |-> a.groups]
         /\ c.kind = "add" =>
              Sync!After(c) = [status |-> a.status, groups |-> a.groups \cup {c.group}]
         /\ c.kind = "remove" =>
              Sync!After(c) = [status |-> a.status, groups |-> a.groups \ {c.group}]
<1> DEFINE a == u_pool[u]
<1>1. a = [status |-> a.status, groups |-> a.groups]
  BY AccountIs DEF SyncTypes
<1>2. ASSUME NEW s PROVE [a EXCEPT !.status = s] = [status |-> s, groups |-> a.groups]
  BY <1>1
<1>3. ASSUME NEW g PROVE [a EXCEPT !.groups = g] = [status |-> a.status, groups |-> g]
  BY <1>1
<1>4. c.kind \in {"create", "enable"} => Sync!After(c) = [a EXCEPT !.status = "enabled"]
  BY DEF Sync!After
<1>5. c.kind = "disable" => Sync!After(c) = [a EXCEPT !.status = "disabled"]
  BY DEF Sync!After
<1>6. c.kind = "add" => Sync!After(c) = [a EXCEPT !.groups = a.groups \cup {c.group}]
  BY DEF Sync!After
<1>7. c.kind = "remove" => Sync!After(c) = [a EXCEPT !.groups = a.groups \ {c.group}]
  BY DEF Sync!After
<1> QED BY <1>2, <1>3, <1>4, <1>5, <1>6, <1>7

LEMMA LeadsThere ==
  ASSUME NEW u, NEW a \in Sync!Accounts, NEW s, Leads(u, a, s, {})
  PROVE  IF u_approved[u] = NotListed
           THEN a.status # "enabled"
           ELSE a = [status |-> "enabled", groups |-> {u_approved[u]}]
<1>1. CASE u_approved[u] = NotListed
  BY <1>1 DEF Leads
<1>2. CASE u_approved[u] # NotListed
  <2>1. a.status = "enabled" /\ u_approved[u] \in a.groups
    BY <1>2 DEF Leads
  <2>2. \A g \in PersonGroup : g \in a.groups => g = u_approved[u]
    BY <1>2 DEF Leads
  <2>3. a.groups \subseteq PersonGroup /\ a = [status |-> a.status, groups |-> a.groups]
    BY AccountIs
  <2>4. a.groups = {u_approved[u]}
    BY <2>1, <2>2, <2>3
  <2> QED BY <1>2, <2>1, <2>3, <2>4
<1> QED BY <1>1, <1>2

(* One call less, the first of those that are left.                        *)
LEMMA LeadsOn ==
  ASSUME SyncConstants, SyncTypes, WantedOK, NEW u \in Person,
         NEW c \in u_plan, \A d \in u_plan : ~Sync!Sooner(d, c),
         Leads(u, u_pool[u], u_seen[u], u_plan)
  PROVE  Leads(u, IF c.user = u THEN Sync!After(c) ELSE u_pool[u], u_seen[u], u_plan \ {c})
<1> DEFINE a == u_pool[u]
           g == u_approved[u]
           b == Sync!After(c)
<1>1. CASE c.user # u
  <2>1. \A k : Sync!On(u, k) # c /\ \A h : Sync!In(u, k, h) # c
    BY <1>1, CallIs
  <2> QED BY <1>1, <2>1 DEF Leads
<1>2. CASE c.user = u /\ g = NotListed
  <2>1. c = Sync!On(u, "disable")
    BY <1>2, WantedUser DEF WantedOK, Wanted
  <2>2. b = [status |-> "disabled", groups |-> a.groups]
    BY <1>2, <2>1, CallIs, AfterIs
  <2> QED BY <1>2, <2>2 DEF Leads
<1>3. CASE c.user = u /\ g # NotListed
  <2>1. \/ c \in {Sync!On(u, "create"), Sync!On(u, "enable")} \/ c = Sync!In(u, "add", g)
        \/ \E h \in PersonGroup \ {g} : c = Sync!In(u, "remove", h)
    BY <1>3, WantedUser DEF WantedOK, Wanted
  <2>2. CASE c \in {Sync!On(u, "create"), Sync!On(u, "enable")}
    <3>1. c.kind \in {"create", "enable"}
      BY <2>2, CallIs
    <3>2. b.status = "enabled" /\ b.groups = a.groups
      BY <1>3, <3>1, AfterIs
    <3>3. \A h : Sync!In(u, "add", h) # c /\ Sync!In(u, "remove", h) # c
      BY <3>1, CallIs
    <3> QED BY <1>3, <3>2, <3>3 DEF Leads
  <2>3. CASE c = Sync!In(u, "add", g)
    <3>1. c.kind = "add" /\ c.group = g
      BY <2>3, CallIs
    <3>2. b.status = a.status /\ b.groups = a.groups \cup {g}
      BY <1>3, <3>1, AfterIs
    <3>3. \A h : Sync!In(u, "remove", h) \notin u_plan
      BY <1>3, <3>1, CallIs DEF Sync!Sooner
    <3>4. a.groups \subseteq PersonGroup
      BY AccountIs DEF SyncTypes
    <3>5. b.groups = {g}
      BY <1>3, <3>2, <3>3, <3>4 DEF Leads
    <3>6. Sync!On(u, "create") # c /\ Sync!On(u, "enable") # c
      BY <3>1, CallIs
    <3> QED BY <1>3, <3>2, <3>5, <3>6 DEF Leads
  <2>4. ASSUME NEW h \in PersonGroup \ {g}, c = Sync!In(u, "remove", h)
        PROVE  Leads(u, b, u_seen[u], u_plan \ {c})
    <3>1. c.kind = "remove" /\ c.group = h
      BY <2>4, CallIs
    <3>2. b.status = a.status /\ b.groups = a.groups \ {h}
      BY <1>3, <3>1, AfterIs
    <3>3. /\ Sync!On(u, "create") # c /\ Sync!On(u, "enable") # c
          /\ Sync!In(u, "add", g) # c
          /\ \A k : k # h => Sync!In(u, "remove", k) # c
      BY <3>1, CallIs
    <3>4. b.groups \subseteq u_seen[u].groups \/ b.groups = {g}
      BY <1>3, <2>4, <3>2 DEF Leads
    <3>5. g \in b.groups \/ Sync!In(u, "add", g) \in u_plan \ {c}
      BY <1>3, <2>4, <3>2, <3>3 DEF Leads
    <3>6. \A k \in PersonGroup \ {g} :
            k \in b.groups => Sync!In(u, "remove", k) \in u_plan \ {c}
      BY <1>3, <3>2, <3>3 DEF Leads
    <3>7. b.status = "enabled" \/ Sync!On(u, "create") \in u_plan \ {c}
            \/ Sync!On(u, "enable") \in u_plan \ {c}
      BY <1>3, <3>2, <3>3 DEF Leads
    <3> QED BY <1>3, <3>4, <3>5, <3>6, <3>7 DEF Leads
  <2> QED BY <1>3, <2>1, <2>2, <2>3, <2>4
<1> QED BY <1>1, <1>2, <1>3

(* What the script has read is enough to plan by.                          *)
LEMMA PlanLeads ==
  ASSUME SyncConstants, SyncTypes, NEW u \in Person, u_pool[u] = u_seen[u], NEW new,
         \A v \in Person : u_approved[v] # NotListed => Sync!Planned(v) \subseteq new,
         \A v \in Sync!Removed : Sync!On(v, "disable") \in new
  PROVE  Leads(u, u_pool[u], u_seen[u], new)
<1> DEFINE a == u_pool[u]
           g == u_approved[u]
<1>1. /\ a.status \in {"none", "enabled", "disabled"} /\ a.groups \subseteq PersonGroup
      /\ a.status = "none" => a.groups = {}
  BY AccountIs DEF SyncTypes
<1>2. CASE g = NotListed
  BY <1>2 DEF Leads, Sync!Removed, Sync!Enabled
<1>3. CASE g # NotListed
  <2>1. Sync!Planned(u) \subseteq new
    BY <1>3
  <2>2. CASE a.status = "none"
    <3>1. Sync!On(u, "create") \in new /\ Sync!In(u, "add", g) \in new
      BY <2>1, <2>2 DEF Sync!Planned
    <3> QED BY <1>1, <1>3, <2>2, <3>1 DEF Leads
  <2>3. CASE a.status # "none"
    <3>1. a.status = "disabled" => Sync!On(u, "enable") \in new
      BY <2>1, <2>3 DEF Sync!Planned
    <3>2. \A h \in a.groups \ {g} : Sync!In(u, "remove", h) \in new
      BY <2>1, <2>3 DEF Sync!Planned, Sync!Stale
    <3>3. g \notin a.groups => Sync!In(u, "add", g) \in new
      BY <2>1, <2>3 DEF Sync!Planned
    <3> QED BY <1>1, <1>3, <2>3, <3>1, <3>2, <3>3 DEF Leads
  <2> QED BY <2>2, <2>3
<1> QED BY <1>2, <1>3

LEMMA PlanWanted ==
  ASSUME SyncConstants, SyncTypes
  PROVE  /\ \A u \in Person : u_approved[u] # NotListed => Sync!Planned(u) \subseteq Wanted(u)
         /\ Sync!Removed \subseteq Person
         /\ \A u \in Sync!Removed : Sync!On(u, "disable") \in Wanted(u)
<1>1. ASSUME NEW u \in Person, u_approved[u] # NotListed
      PROVE  Sync!Planned(u) \subseteq Wanted(u)
  <2>1. u_seen[u].groups \subseteq PersonGroup
    BY AccountIs DEF SyncTypes
  <2> QED BY <1>1, <2>1 DEF Sync!Planned, Sync!Stale, Wanted
<1>2. /\ Sync!Removed \subseteq Person
      /\ \A u \in Sync!Removed : Sync!On(u, "disable") \in Wanted(u)
  BY DEF Sync!Removed, Sync!Enabled, Wanted
<1> QED BY <1>1, <1>2

(* The script goes on, or has made its last call.                          *)
LEMMA ContinueKeeps ==
  ASSUME SyncConstants, SyncTypes, SyncTypes', NEW rest, Sync!Continue(rest), u_plan' = rest,
         u_approved' = u_approved, u_unread = {}, u_unread' = u_unread, WantedOK',
         ~u_disturbed => \A u \in Person : Leads(u, u_pool'[u], u_seen[u], rest)
  PROVE  SyncOK'
<1>1. CASE rest # {}
  <2>1. u_pc' = "apply" /\ u_seen' = u_seen /\ u_disturbed' = u_disturbed
    BY <1>1 DEF Sync!Continue
  <2>2. LeadsOK'
    BY <2>1 DEF LeadsOK, Leads
  <2>3. ReadOK' /\ ThroughOK'
    BY <2>1 DEF ReadOK, ThroughOK
  <2> QED BY <2>2, <2>3 DEF SyncOK
<1>2. CASE rest = {}
  <2>1. u_pc' = (IF u_disturbed THEN "idle" ELSE "done")
    BY <1>2 DEF Sync!Continue
  <2>2. ReadOK' /\ LeadsOK'
    BY <2>1 DEF ReadOK, LeadsOK
  <2>3. ASSUME u_pc' = "done", NEW u \in Person PROVE Sync!AsDeclared(u)'
    <3>1. Leads(u, u_pool'[u], u_seen[u], {})
      BY <1>2, <2>1, <2>3
    <3>2. u_pool'[u] \in Sync!Accounts
      BY DEF SyncTypes
    <3> QED BY <3>1, <3>2, LeadsThere DEF Sync!AsDeclared
  <2> QED BY <2>2, <2>3 DEF SyncOK, ThroughOK
<1> QED BY <1>1, <1>2

LEMMA SyncBegins == SyncConstants /\ Sync!Init => SyncOK
<1> SUFFICES ASSUME SyncConstants, Sync!Init PROVE SyncOK
  OBVIOUS
<1>1. Sync!NoAccount \in Sync!Accounts
  BY DEF Sync!NoAccount, Sync!Accounts, Sync!Account
<1>2. [status : {"enabled"}, groups : {{g} : g \in PersonGroup}] \subseteq Sync!Accounts
  BY DEF Sync!Accounts, Sync!Account, Sync!NoAccount
<1>3. u_pool \in [Person -> Sync!Accounts]
  BY <1>1, <1>2 DEF Sync!Init
<1>4. u_seen \in [Person -> Sync!Accounts]
  BY <1>1 DEF Sync!Init, Sync!Unseen
<1>5. u_approved \in [Person -> PersonGroup \cup {NotListed}]
  BY DEF Sync!Init, SyncConstants
<1>6. SyncTypes
  BY <1>3, <1>4, <1>5 DEF SyncTypes, Sync!Init
<1> QED BY <1>6 DEF SyncOK, WantedOK, ReadOK, LeadsOK, ThroughOK, Sync!Init

LEMMA UnseenTyped == Sync!Unseen \in [Person -> Sync!Accounts]
BY DEF Sync!Unseen, Sync!NoAccount, Sync!Accounts, Sync!Account

LEMMA SyncNext == SyncConstants /\ SyncOK /\ [Sync!Next]_(Sync!vars) => SyncOK'
<1> SUFFICES ASSUME SyncConstants, SyncOK, [Sync!Next]_(Sync!vars) PROVE SyncOK'
  OBVIOUS
<1>1. SyncTypes /\ WantedOK /\ ReadOK /\ LeadsOK /\ ThroughOK
  BY DEF SyncOK
<1>2. CASE Sync!Start
  <2>1. /\ u_pc \in {"idle", "done"} /\ u_pc' = "read" /\ u_unread' = Person
        /\ u_approved' \in [Person -> PersonGroup \cup {NotListed}] /\ u_disturbed' = FALSE
        /\ u_pool' = u_pool /\ u_seen' = u_seen /\ u_plan' = u_plan
    BY <1>2 DEF Sync!Start, SyncConstants
  <2>2. u_plan' = {}
    BY <1>1, <2>1 DEF SyncTypes
  <2>3. SyncTypes'
    BY <1>1, <2>1, <2>2 DEF SyncTypes
  <2> QED BY <2>1, <2>2, <2>3 DEF SyncOK, WantedOK, ReadOK, LeadsOK, ThroughOK
<1>3. ASSUME NEW u \in Person, Sync!Read(u) PROVE SyncOK'
  <2>1. /\ u_pc = "read" /\ u_pc' = "read" /\ u_unread' = u_unread \ {u}
        /\ u_seen' = [u_seen EXCEPT ![u] = u_pool[u]] /\ u_approved' = u_approved
        /\ u_pool' = u_pool /\ u_plan' = u_plan /\ u_disturbed' = u_disturbed
    BY <1>1, <1>3 DEF Sync!Read, SyncTypes
  <2>2. SyncTypes'
    BY <1>1, <2>1 DEF SyncTypes
  <2>3. u_plan' = {}
    BY <1>1, <2>1 DEF SyncTypes
  <2>4. ReadOK'
    BY <1>1, <2>1 DEF ReadOK, SyncTypes
  <2> QED BY <2>1, <2>2, <2>3, <2>4 DEF SyncOK, WantedOK, LeadsOK, ThroughOK
<1>4. ASSUME NEW u \in Person, Sync!Others(u) PROVE SyncOK'
  <2>1. PICK b \in Sync!Accounts : u_pool' = [u_pool EXCEPT ![u] = b]
    BY <1>4 DEF Sync!Others
  <2>2. /\ u_disturbed' = (u_pc \in {"read", "apply"})
        /\ u_pc' = (IF u_pc \in {"read", "apply"} THEN u_pc ELSE "idle")
        /\ u_approved' = u_approved /\ u_seen' = u_seen /\ u_unread' = u_unread
        /\ u_plan' = u_plan
    BY <1>4 DEF Sync!Others, Sync!Running
  <2>3. SyncTypes'
    BY <1>1, <2>1, <2>2 DEF SyncTypes
  <2>4. WantedOK'
    BY <1>1, <2>2 DEF WantedOK, Wanted
  <2> QED BY <2>2, <2>3, <2>4 DEF SyncOK, ReadOK, LeadsOK, ThroughOK
<1>5. CASE Sync!plan_user_sync
  <2>1. /\ u_pc = "read" /\ u_unread = {} /\ u_unread' = u_unread /\ u_pool' = u_pool
        /\ u_approved' = u_approved
    BY <1>5 DEF Sync!plan_user_sync
  <2>2. u_plan = {}
    BY <1>1, <2>1 DEF SyncTypes
  <2> DEFINE listed  == UNION {Sync!Planned(u) : u \in {v \in Person : u_approved[v] # NotListed}}
             removed == {Sync!On(u, "disable") : u \in Sync!Removed}
             new     == listed \cup removed
  <2>3. \/ u_pc' = "idle" /\ u_seen' = Sync!Unseen /\ u_disturbed' = FALSE /\ u_plan' = u_plan
        \/ u_plan' = new /\ Sync!Continue(new)
    BY <1>5 DEF Sync!plan_user_sync
  <2>4. CASE u_pc' = "idle" /\ u_seen' = Sync!Unseen /\ u_disturbed' = FALSE /\ u_plan' = u_plan
    <3>1. SyncTypes'
      BY <1>1, <2>1, <2>2, <2>4, UnseenTyped DEF SyncTypes
    <3> QED BY <2>2, <2>4, <3>1 DEF SyncOK, WantedOK, ReadOK, LeadsOK, ThroughOK
  <2>5. CASE u_plan' = new /\ Sync!Continue(new)
    <3>1. /\ u_pc' = (IF new # {} THEN "apply" ELSE IF u_disturbed THEN "idle" ELSE "done")
          /\ u_seen' \in {u_seen, Sync!Unseen} /\ u_disturbed' \in {u_disturbed, FALSE}
      BY <2>5 DEF Sync!Continue
    <3>2. SyncTypes'
      <4> HIDE DEF new
      <4> QED BY <1>1, <2>1, <2>5, <3>1, UnseenTyped DEF SyncTypes
    <3>3. \A c \in new : \E u \in Person : c \in Wanted(u)
      <4>1. ASSUME NEW u \in Person, u_approved[u] # NotListed, NEW c \in Sync!Planned(u)
            PROVE  c \in Wanted(u)
        BY <1>1, <4>1, PlanWanted
      <4>2. ASSUME NEW u \in Sync!Removed
            PROVE  u \in Person /\ Sync!On(u, "disable") \in Wanted(u)
        BY <1>1, PlanWanted
      <4>3. \A c \in listed : \E u \in Person : c \in Wanted(u)
        BY <4>1
      <4>4. \A c \in removed : \E u \in Person : c \in Wanted(u)
        BY Zenon, <4>2
      <4> QED BY <4>3, <4>4
    <3>4. WantedOK'
      <4> HIDE DEF new
      <4> QED BY <2>1, <2>5, <3>3 DEF WantedOK, Wanted
    <3>5. ASSUME ~u_disturbed, NEW u \in Person
          PROVE  Leads(u, u_pool'[u], u_seen[u], new)
      <4>1. u_pool[u] = u_seen[u]
        BY <1>1, <2>1, <3>5 DEF ReadOK
      <4>2. \A v \in Person : u_approved[v] # NotListed => Sync!Planned(v) \subseteq listed
        OBVIOUS
      <4>3. \A v \in Sync!Removed : Sync!On(v, "disable") \in removed
        BY Zenon
      <4> HIDE DEF listed, removed
      <4>4. Leads(u, u_pool[u], u_seen[u], new)
        BY <1>1, <4>1, <4>2, <4>3, PlanLeads
      <4> QED BY <2>1, <4>4
    <3> HIDE DEF new
    <3> QED BY <1>1, <2>1, <2>5, <3>2, <3>4, <3>5, ContinueKeeps
  <2> QED BY <2>3, <2>4, <2>5
<1>6. CASE Sync!Apply
  <2>1. PICK c \in u_plan :
          /\ \A d \in u_plan : ~Sync!Sooner(d, c)
          /\ (c.kind = "create") = (u_pool[c.user].status = "none")
          /\ u_pool' = [u_pool EXCEPT ![c.user] = Sync!After(c)]
          /\ u_plan' = u_plan \ {c} /\ Sync!Continue(u_plan \ {c})
    BY <1>6 DEF Sync!Apply
  <2>2. u_approved' = u_approved /\ u_unread' = u_unread
    BY <1>6 DEF Sync!Apply
  <2>3. PICK u \in Person : c \in Wanted(u) /\ c.user = u
    BY <1>1, <2>1, WantedUser DEF WantedOK
  <2>4. u_pc = "apply" /\ u_unread = {}
    BY <1>1, <2>1 DEF SyncTypes
  <2>5. Sync!After(c) \in Sync!Accounts
    <3> DEFINE a == u_pool[u]
    <3>1. /\ a.status \in {"none", "enabled", "disabled"} /\ a.groups \subseteq PersonGroup
      BY <1>1, AccountIs DEF SyncTypes
    <3>2. u_approved[u] # NotListed => u_approved[u] \in PersonGroup
      BY <1>1 DEF SyncTypes
    <3>3. \/ c.kind \in {"create", "enable", "disable"}
          \/ c.kind \in {"add", "remove"} /\ c.group \in PersonGroup
      BY <2>3, <3>2, CallIs DEF Wanted
    <3>4. c.kind # "create" => a.status \in {"enabled", "disabled"}
      BY <2>1, <2>3, <3>1
    <3>5. CASE c.kind \in {"create", "enable"}
      BY <1>1, <2>3, <3>1, <3>5, AfterIs, AccountOf
    <3>6. CASE c.kind = "disable"
      BY <1>1, <2>3, <3>1, <3>6, AfterIs, AccountOf
    <3>7. CASE c.kind = "add" /\ c.group \in PersonGroup
      <4>1. a.groups \cup {c.group} \in SUBSET PersonGroup /\ a.status \in {"enabled", "disabled"}
        BY <3>1, <3>4, <3>7
      <4>2. Sync!After(c) = [status |-> a.status, groups |-> a.groups \cup {c.group}]
        BY <1>1, <2>3, <3>7, AfterIs
      <4> QED BY <4>1, <4>2, AccountOf
    <3>8. CASE c.kind = "remove"
      <4>1. a.groups \ {c.group} \in SUBSET PersonGroup /\ a.status \in {"enabled", "disabled"}
        BY <3>1, <3>4, <3>8
      <4>2. Sync!After(c) = [status |-> a.status, groups |-> a.groups \ {c.group}]
        BY <1>1, <2>3, <3>8, AfterIs
      <4> QED BY <4>1, <4>2, AccountOf
    <3> QED BY <3>3, <3>5, <3>6, <3>7, <3>8
  <2>6. /\ u_pc' = (IF u_plan \ {c} # {} THEN "apply" ELSE IF u_disturbed THEN "idle" ELSE "done")
        /\ u_seen' \in {u_seen, Sync!Unseen} /\ u_disturbed' \in {u_disturbed, FALSE}
    BY <2>1 DEF Sync!Continue
  <2>7. u_pool' \in [Person -> Sync!Accounts]
    BY <1>1, <2>1, <2>3, <2>5 DEF SyncTypes
  <2>8. SyncTypes'
    BY <1>1, <2>1, <2>2, <2>4, <2>6, <2>7, UnseenTyped DEF SyncTypes
  <2>9. WantedOK'
    BY <1>1, <2>1, <2>2 DEF WantedOK, Wanted
  <2>10. ASSUME ~u_disturbed, NEW v \in Person
         PROVE  Leads(v, u_pool'[v], u_seen[v], u_plan \ {c})
    <3>1. Leads(v, u_pool[v], u_seen[v], u_plan)
      BY <1>1, <2>4, <2>10 DEF LeadsOK
    <3>2. u_pool'[v] = IF c.user = v THEN Sync!After(c) ELSE u_pool[v]
      BY <1>1, <2>1, <2>3 DEF SyncTypes
    <3>3. Leads(v, IF c.user = v THEN Sync!After(c) ELSE u_pool[v], u_seen[v], u_plan \ {c})
      BY <1>1, <2>1, <3>1, LeadsOn
    <3> QED BY <3>2, <3>3
  <2> QED BY <1>1, <2>1, <2>2, <2>4, <2>8, <2>9, <2>10, ContinueKeeps
<1>7. CASE Sync!Fail
  <2>1. /\ u_pc' = "idle" /\ u_plan' = {} /\ u_unread' = {} /\ u_seen' = Sync!Unseen
        /\ u_disturbed' = FALSE /\ u_approved' = u_approved /\ u_pool' = u_pool
    BY <1>7 DEF Sync!Fail
  <2>2. SyncTypes'
    BY <1>1, <2>1, UnseenTyped DEF SyncTypes
  <2> QED BY <2>1, <2>2 DEF SyncOK, WantedOK, ReadOK, LeadsOK, ThroughOK
<1>8. CASE UNCHANGED Sync!vars
  <2>1. /\ u_approved' = u_approved /\ u_pool' = u_pool /\ u_seen' = u_seen
        /\ u_unread' = u_unread /\ u_plan' = u_plan /\ u_pc' = u_pc
        /\ u_disturbed' = u_disturbed
    BY <1>8 DEF Sync!vars, Sync!run
  <2> QED BY <1>1, <2>1 DEF SyncOK, SyncTypes, WantedOK, Wanted, ReadOK, LeadsOK, Leads,
            ThroughOK, Sync!AsDeclared
<1> QED BY <1>2, <1>3, <1>4, <1>5, <1>6, <1>7, <1>8 DEF Sync!Next

LEMMA SyncInvariant == Sync!Spec => []SyncOK
<1>1. Sync!Init => SyncOK
  BY SyncAssumption, SyncBegins
<1>2. SyncOK /\ [Sync!Next]_(Sync!vars) => SyncOK'
  BY SyncAssumption, SyncNext
<1> QED BY <1>1, <1>2, PTL DEF Sync!Spec

(* A run of the script that gets through leaves the accounts as the list   *)
(* declares, wherever earlier ones stopped, and none that stops leaves an  *)
(* account with more roles than it had, unless others changed the pool     *)
(* meanwhile (plan_user_sync, apply_plan).                                 *)
THEOREM AccountsAreAsDeclared == Sync!Spec => []SyncSettles
<1>1. SyncOK => SyncSettles
  <2> SUFFICES ASSUME SyncOK PROVE SyncSettles
    OBVIOUS
  <2>1. ASSUME u_pc = "apply", ~u_disturbed, NEW u \in Person
        PROVE  Sync!Cardinality(u_pool[u].groups) <=
                 Sync!Max({1, Sync!Cardinality(u_seen[u].groups)})
    <3> DEFINE p == u_pool[u].groups
               s == u_seen[u].groups
    <3>1. p \subseteq PersonGroup /\ s \subseteq PersonGroup
      BY AccountIs DEF SyncOK, SyncTypes
    <3>2. IsFiniteSet(s)
      BY <3>1, SyncAssumption, FS_Subset DEF SyncConstants
    <3>3. p \subseteq s \/ \E g : p = {g}
      BY <2>1 DEF SyncOK, LeadsOK, Leads
    <3> HIDE DEF p, s
    <3>4. Cardinality(s) \in Nat
      BY <3>2, FS_CardinalityType
    <3>5. CASE p \subseteq s
      <4>1. Cardinality(p) <= Cardinality(s) /\ Cardinality(p) \in Nat
        BY <3>2, <3>5, FS_Subset, FS_CardinalityType
      <4> QED BY <3>4, <4>1, SyncCardinality, SyncMax DEF p, s
    <3>6. CASE \E g : p = {g}
      <4>1. Cardinality(p) = 1
        BY <3>6, FS_Singleton
      <4> QED BY <3>4, <4>1, SyncCardinality, SyncMax DEF p, s
    <3> QED BY <3>3, <3>5, <3>6
  <2> QED BY <2>1 DEF SyncOK, ThroughOK, SyncSettles, Sync!SyncSettles
<1> QED BY <1>1, SyncInvariant, PTL

(* The script's state is of its types: the list is one of those there may  *)
(* be, and what is left to do are calls about its users.                   *)
THEOREM SyncTypesHold == Sync!Spec => []Sync!TypeOK
<1>1. Sync!Init => u_approved \in UserLists
  BY DEF Sync!Init
<1>2. u_approved \in UserLists /\ [Sync!Next]_(Sync!vars) => (u_approved \in UserLists)'
  BY DEF Sync!Next, Sync!vars, Sync!run, Sync!Start, Sync!plan_user_sync, Sync!Apply,
         Sync!Fail, Sync!Read, Sync!Others
<1>3. SyncOK /\ u_approved \in UserLists => Sync!TypeOK
  <2> SUFFICES ASSUME SyncOK, u_approved \in UserLists PROVE Sync!TypeOK
    OBVIOUS
  <2>1. SyncTypes /\ WantedOK
    BY DEF SyncOK
  <2>2. ASSUME NEW c \in u_plan PROVE c \in Sync!Call
    <3>1. PICK u \in Person : c \in Wanted(u)
      BY <2>1 DEF WantedOK
    <3>2. u_approved[u] # NotListed => u_approved[u] \in PersonGroup
      BY <2>1 DEF SyncTypes
    <3>3. CASE u_approved[u] = NotListed
      BY <3>1, <3>3 DEF Wanted, Sync!On, Sync!Call
    <3>4. CASE u_approved[u] # NotListed
      <4>1. \/ c \in {Sync!On(u, "create"), Sync!On(u, "enable")}
            \/ c = Sync!In(u, "add", u_approved[u])
            \/ \E g \in PersonGroup : c = Sync!In(u, "remove", g)
        BY <3>1, <3>4 DEF Wanted
      <4>2. CASE c \in {Sync!On(u, "create"), Sync!On(u, "enable")}
        BY <4>2 DEF Sync!On, Sync!Call
      <4>3. ASSUME NEW g \in PersonGroup, NEW k \in {"add", "remove"}, c = Sync!In(u, k, g)
            PROVE  c \in Sync!Call
        BY <4>3 DEF Sync!In, Sync!Call
      <4> QED BY <3>2, <3>4, <4>1, <4>2, <4>3
    <3> QED BY <3>3, <3>4
  <2>3. u_plan \subseteq Sync!Call
    BY <2>2
  <2> QED BY <2>1, <2>3 DEF SyncTypes, Sync!TypeOK
<1> QED BY <1>1, <1>2, <1>3, SyncInvariant, PTL DEF Sync!Spec
=============================================================================
