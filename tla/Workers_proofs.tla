--------------------------- MODULE Workers_proofs ---------------------------
(***************************************************************************)
(* Proofs about the workers that are restarted until their work is done,   *)
(* one after another: the collector of completed calls, the transcriber of *)
(* the radio listener, the indexer of a knowledge library; and at the end, *)
(* about the three side by side (MCWorkers).                               *)
(***************************************************************************)
EXTENDS MCWorkers, FiniteSetTheorems, TLAPS

(***************************************************************************)
(* The collector (AnalyticsSync): the high-water mark never moves back,    *)
(* and it never passes a missing call, for every number of calls, page     *)
(* size and quota, as long as no run's window held more calls than its     *)
(* quota.                                                                  *)
(*                                                                         *)
(* The heart of it is that paging by offset misses none of the calls that  *)
(* were there when the run started, although the search grows meanwhile:   *)
(* a call's position only increases, so what has not been found yet lies   *)
(* at or beyond the offset; and a page that is not full is the last one.   *)
(***************************************************************************)
Earlier(c) == {d \in Results : Before(d, c)}

(* Closed calls were closed in the past and show up within Lag. *)
CadOK ==
  /\ \A c \in Call : closedAt[c] # NoTime => closedAt[c] <= now
  /\ \A c \in Unseen : now <= closedAt[c] + Lag

(* Calls of the run's window that were in the CAD when it started. *)
Sure == {c \in Results : closedAt[c] + Lag < window[2]}

(* The mark and the window of the run under way. *)
WindowOK ==
  /\ watermark = NoTime <=> since = NoTime
  /\ watermark # NoTime => watermark <= now
  /\ pc # "idle" =>
       /\ window[2] <= now
       /\ watermark # NoTime =>
            watermark <= window[2] /\ window[1] = watermark - Overlap

(* What a run has found, and what is left to find. *)
RunOK ==
  /\ found \subseteq Results
  /\ pc = "idle" => found = {} /\ todo = {} /\ skip = 0 /\ ~failed
  /\ pc = "search" => todo = found /\ ~failed
  /\ ~failed => found \ todo \subseteq stored
  /\ pc = "search" /\ ~overflowed =>
       \A c \in Sure : c \in found \/ Position(c) >= skip
  /\ pc = "collect" /\ ~overflowed => Sure \subseteq found

IInv == TypeOK /\ CadOK /\ WindowOK /\ RunOK /\ NoMissedCallsWithinLimit
-----------------------------------------------------------------------------
(* The order of the search. *)

LEMMA ResultsFinite ==
  ASSUME TypeOK
  PROVE  /\ Results \subseteq visible /\ Results \subseteq Call
         /\ IsFiniteSet(Results)
         /\ \A S \in SUBSET Results : IsFiniteSet(S) /\ Cardinality(S) \in Nat
         /\ \A c \in Results : closedAt[c] \in Int /\ c \in Nat
<1>1. Results \subseteq visible /\ Results \subseteq Call
  BY DEF TypeOK, Results
<1>2. \A S \in SUBSET Results : IsFiniteSet(S) /\ Cardinality(S) \in Nat
  BY <1>1, ConstantsAssumption, FS_Subset, FS_CardinalityType
<1>3. \A c \in Results : closedAt[c] \in Int /\ c \in Nat
  BY <1>1, ConstantsAssumption DEF TypeOK, Time
<1> QED BY <1>1, <1>2, <1>3

LEMMA PositionType ==
  ASSUME TypeOK
  PROVE  /\ \A c \in Results : Position(c) = Cardinality(Earlier(c))
         /\ \A c \in Results : Position(c) \in Nat
<1>1. \A c \in Results : Earlier(c) \in SUBSET Results
  BY DEF Earlier
<1> QED BY <1>1, ResultsFinite DEF Position, Earlier

LEMMA PositionsGrow ==
  ASSUME TypeOK, NEW c \in Results, NEW d \in Results, Before(d, c)
  PROVE  Position(d) < Position(c)
<1>1. Earlier(d) \subseteq Earlier(c) /\ d \in Earlier(c) /\ d \notin Earlier(d)
  BY ResultsFinite DEF Earlier, Before
<1>2. IsFiniteSet(Earlier(c)) /\ Earlier(c) \in SUBSET Results
  BY ResultsFinite DEF Earlier
<1>3. Cardinality(Earlier(d)) <= Cardinality(Earlier(c))
      /\ Cardinality(Earlier(d)) # Cardinality(Earlier(c))
  BY <1>1, <1>2, FS_Subset
<1> QED BY <1>3, PositionType

(* The positions are 0, 1, ... without a gap. *)
LEMMA PositionsFill ==
  ASSUME TypeOK, NEW k \in Nat, k < Cardinality(Results)
  PROVE  \E c \in Results : Position(c) = k
<1> DEFINE n   == Cardinality(Results)
           pos == [c \in Results |-> Position(c)]
<1>1. n \in Nat /\ IsFiniteSet(Results)
  BY ResultsFinite
<1>2. \A c \in Results : Position(c) < n
  <2> TAKE c \in Results
  <2>1. Earlier(c) \subseteq Results /\ c \notin Earlier(c)
    BY ResultsFinite DEF Earlier, Before
  <2>2. Cardinality(Earlier(c)) <= n /\ Cardinality(Earlier(c)) # n
    BY <2>1, <1>1, FS_Subset
  <2> QED BY <2>2, <1>1, PositionType
<1>3. \A c, d \in Results : Position(c) = Position(d) => c = d
  <2> TAKE c, d \in Results
  <2>1. c = d \/ Before(c, d) \/ Before(d, c)
    BY ResultsFinite DEF Before
  <2> QED BY <2>1, PositionsGrow, PositionType
<1>4. pos \in Injection(Results, 0..(n - 1))
  BY <1>1, <1>2, <1>3, PositionType DEF Injection, IsInjective
<1>5. IsFiniteSet(0..(n - 1)) /\ Cardinality(0..(n - 1)) = n
  <2> HIDE DEF n
  <2>1. 0 \in Int /\ n - 1 \in Int
    BY <1>1
  <2>2. IsFiniteSet(0..(n - 1))
        /\ Cardinality(0..(n - 1)) = IF 0 > n - 1 THEN 0 ELSE n - 1 - 0 + 1
    BY ONLY <2>1, FS_Interval
  <2> QED BY <2>2, <1>1
<1>6. pos \in Surjection(Results, 0..(n - 1))
  BY <1>4, <1>5, <1>1, FS_Injection
<1>7. k \in 0..(n - 1)
  BY <1>1
<1>8. PICK c \in Results : pos[c] = k
  BY ONLY <1>6, <1>7 DEF Surjection
<1> QED BY <1>8

(* A call beyond the page means that the page is full. *)
LEMMA PageFull ==
  ASSUME TypeOK, NEW c \in Results, Position(c) >= skip + PageSize
  PROVE  Cardinality(Page) = PageSize
<1> DEFINE slots == skip..(skip + PageSize - 1)
           pos   == [d \in Page |-> Position(d)]
<1> USE ConstantsAssumption
<1>1. skip \in Nat /\ Page \in SUBSET Results
  BY DEF TypeOK, Page
<1>2. Position(c) < Cardinality(Results) /\ Cardinality(Results) \in Nat
  <2>1. Earlier(c) \subseteq Results /\ c \notin Earlier(c)
    BY ResultsFinite DEF Earlier, Before
  <2>2. Cardinality(Earlier(c)) <= Cardinality(Results)
        /\ Cardinality(Earlier(c)) # Cardinality(Results)
    BY <2>1, ResultsFinite, FS_Subset
  <2> QED BY <2>2, ResultsFinite, PositionType
<1>3. \A k \in slots : \E d \in Page : Position(d) = k
  <2> TAKE k \in slots
  <2>1. k \in Nat /\ k < Cardinality(Results)
    BY <1>1, <1>2, PositionType
  <2>2. PICK d \in Results : Position(d) = k
    BY <2>1, PositionsFill
  <2> QED BY <2>2, <1>1 DEF Page
<1>4. \A d, e \in Page : Position(d) = Position(e) => d = e
  <2> TAKE d, e \in Page
  <2>1. d \in Results /\ e \in Results
    BY <1>1
  <2>2. d = e \/ Before(d, e) \/ Before(e, d)
    BY <2>1, ResultsFinite DEF Before
  <2> QED BY <2>1, <2>2, PositionsGrow, PositionType
<1>5. pos \in [Page -> slots]
  BY <1>1, PositionType DEF Page
<1>6. pos \in Injection(Page, slots) /\ pos \in Surjection(Page, slots)
  BY <1>3, <1>4, <1>5 DEF Injection, IsInjective, Surjection
<1>7. IsFiniteSet(slots) /\ Cardinality(slots) = PageSize
  BY <1>1, FS_Interval
<1> QED BY <1>6, <1>7, FS_Injection

-----------------------------------------------------------------------------
(* What the CAD does during a run. *)

(* New results come in, none goes, and positions do not decrease. *)
LEMMA SearchGrows ==
  ASSUME TypeOK, TypeOK', window' = window, visible \subseteq visible',
         \A c \in visible : closedAt'[c] = closedAt[c]
  PROVE  /\ Results \subseteq Results'
         /\ \A c \in Results : Position(c)' \in Nat /\ Position(c) <= Position(c)'
<1>1. Results \subseteq Results'
  BY ResultsFinite DEF Results
<1>2. Results' \subseteq Call
  BY DEF TypeOK, Results
<1> SUFFICES ASSUME NEW c \in Results
             PROVE  Position(c)' \in Nat /\ Position(c) <= Position(c)'
  BY <1>1
<1>3. Earlier(c)' \subseteq Call /\ IsFiniteSet(Earlier(c)')
  BY <1>2, ConstantsAssumption, FS_Subset DEF Earlier
<1>4. Earlier(c) \subseteq Earlier(c)'
  BY <1>1, ResultsFinite DEF Earlier, Before
<1>5. Cardinality(Earlier(c)) <= Cardinality(Earlier(c)')
      /\ Cardinality(Earlier(c)') \in Nat
  BY <1>3, <1>4, FS_Subset, FS_CardinalityType
<1>6. Position(c)' = Cardinality(Earlier(c)')
  BY DEF Position, Earlier
<1> QED BY <1>5, <1>6, PositionType

(* The conjuncts of RunOK and NoMissedCalls survive what the CAD does,     *)
(* because a call that is new to the search is not Sure.                   *)
LEMMA CadKeepsRun ==
  ASSUME IInv, TypeOK', CadOK', UNCHANGED <<stored, watermark, pc, run, ghosts>>,
         now <= now', visible \subseteq visible',
         \A c \in Call : closedAt[c] # NoTime => closedAt'[c] = closedAt[c],
         \A c \in Call : closedAt[c] = NoTime /\ closedAt'[c] # NoTime => closedAt'[c] = now,
         \A c \in visible' \ visible : now <= closedAt'[c] + Lag
  PROVE  IInv'
<1> USE ConstantsAssumption DEF IInv, run, ghosts
<1>1. WindowOK'
  BY DEF WindowOK, TypeOK, Time
<1>2. /\ Results \subseteq Results'
      /\ \A c \in Results : Position(c)' \in Nat /\ Position(c) <= Position(c)'
  BY SearchGrows DEF TypeOK
<1>3. pc # "idle" => Sure' \subseteq Sure
  <2> SUFFICES ASSUME pc # "idle", NEW c \in Sure' PROVE c \in Sure
    OBVIOUS
  <2>1. c \in Call /\ c \in visible' /\ closedAt'[c] # NoTime /\ closedAt'[c] \in Int
    BY DEF Sure, Results, TypeOK, Time
  <2>2. closedAt'[c] + Lag < window[2] /\ window[2] <= now /\ window[2] \in Int
    BY DEF Sure, WindowOK, TypeOK
  <2>3. c \in visible
    BY <2>1, <2>2 DEF TypeOK
  <2>4. closedAt'[c] = closedAt[c]
    BY <2>3 DEF TypeOK
  <2> QED BY <2>2, <2>3, <2>4 DEF Sure, Results
<1>4. RunOK'
  BY <1>2, <1>3, PositionType DEF RunOK, Sure, TypeOK
<1>5. NoMissedCallsWithinLimit'
  <2> SUFFICES ASSUME NEW c \in Call, ~overflowed, Missed(c)' PROVE FALSE
    BY DEF NoMissedCallsWithinLimit, NoMissedCalls
  <2>1. closedAt'[c] \in Int /\ closedAt'[c] + Lag < watermark /\ watermark \in Int
        /\ watermark <= now
    BY DEF Missed, WindowOK, TypeOK, Time
  <2>2. closedAt[c] = closedAt'[c]
    BY <2>1 DEF TypeOK, Missed
  <2> QED BY <2>2 DEF Missed, NoMissedCallsWithinLimit, NoMissedCalls
<1> QED BY <1>1, <1>4, <1>5

LEMMA TickKeeps ==
  ASSUME IInv, Tick
  PROVE  IInv'
<1> USE ConstantsAssumption DEF IInv, Tick
<1>1. TypeOK'
  BY DEF TypeOK, run, ghosts
<1>2. CadOK'
  BY DEF CadOK, Unseen, TypeOK, Time
<1> QED BY <1>1, <1>2, CadKeepsRun DEF TypeOK

LEMMA CloseKeeps ==
  ASSUME IInv, NEW c \in Call, Close(c)
  PROVE  IInv'
<1> USE ConstantsAssumption DEF IInv, Close
<1>1. TypeOK'
  BY DEF TypeOK, run, ghosts, Time
<1>2. CadOK'
  BY DEF CadOK, Unseen, TypeOK, Time
<1>3. \A d \in visible' \ visible : now <= closedAt'[d] + Lag
  BY DEF TypeOK
<1> QED BY <1>1, <1>2, <1>3, CadKeepsRun DEF TypeOK

LEMMA AppearKeeps ==
  ASSUME IInv, NEW c \in Call, Appear(c)
  PROVE  IInv'
<1> USE ConstantsAssumption DEF IInv, Appear
<1>1. TypeOK'
  BY DEF TypeOK, run, ghosts, Unseen
<1>2. CadOK'
  BY DEF CadOK, Unseen
<1>3. \A d \in visible' \ visible : now <= closedAt'[d] + Lag
  BY DEF CadOK
<1> QED BY <1>1, <1>2, <1>3, CadKeepsRun DEF TypeOK

-----------------------------------------------------------------------------
(* The run. *)

(* With all results within the quota the page is taken whole, ... *)
LEMMA PageTaken ==
  ASSUME TypeOK, found \subseteq Results, Cardinality(Results) <= MaxCalls
  PROVE  Page \subseteq found \cup Taken
<1> SUFFICES ASSUME NEW c \in Page, c \notin found PROVE c \in Taken
  OBVIOUS
<1> DEFINE S == found \cup {d \in Page : Before(d, c)}
<1>1. c \in Results /\ S \subseteq Results /\ c \notin S
  BY ResultsFinite DEF Page, Before
<1>2. Cardinality(S) <= Cardinality(Results) /\ Cardinality(S) # Cardinality(Results)
  BY <1>1, ResultsFinite, FS_Subset
<1>3. Cardinality(S) < MaxCalls
  BY <1>1, <1>2, ResultsFinite, ConstantsAssumption
<1> QED BY <1>3 DEF Taken

(* ... and a run that has its quota has found everything. *)
LEMMA FullFoundAll ==
  ASSUME TypeOK, NEW S \in SUBSET Results,
         Cardinality(Results) <= MaxCalls, Cardinality(S) >= MaxCalls
  PROVE  S = Results
<1>1. Cardinality(S) <= Cardinality(Results)
      /\ (Cardinality(Results) = Cardinality(S) => Results = S)
  BY ResultsFinite, FS_Subset
<1> QED BY <1>1, ResultsFinite, ConstantsAssumption

LEMMA SearchKeeps ==
  ASSUME IInv, Search
  PROVE  IInv'
<1> USE ConstantsAssumption DEF IInv, Search, cad
<1>1. Taken \subseteq Results /\ Results \subseteq visible
  BY ResultsFinite DEF Taken, Page
<1>2. TypeOK'
  BY <1>1 DEF TypeOK
<1>3. CadOK' /\ WindowOK' /\ NoMissedCallsWithinLimit'
  BY DEF CadOK, Unseen, WindowOK, NoMissedCallsWithinLimit, NoMissedCalls, Missed
<1>4. Results' = Results /\ Sure' = Sure /\ Sure \subseteq Results
      /\ \A c \in Results : Position(c)' = Position(c)
  BY DEF Results, Sure, Position, Before
<1>5. found' \subseteq Results
  BY <1>1 DEF RunOK
<1>6. ASSUME ~overflowed' PROVE Page \subseteq found'
  <2>1. Cardinality(Results) <= MaxCalls
    <3>1. ~(Cardinality(Results) > MaxCalls)
      BY <1>6
    <3> QED BY <3>1, ResultsFinite
  <2> QED BY <2>1, PageTaken DEF RunOK
<1>7. ASSUME ~overflowed', pc' = "search", NEW c \in Sure, c \notin found'
      PROVE  Position(c) >= skip'
  <2>1. Position(c) >= skip /\ Position(c) \in Nat /\ skip \in Nat
    BY <1>4, <1>7, PositionType DEF RunOK, TypeOK
  <2>2. c \notin Page
    BY <1>6, <1>7
  <2>3. skip' = skip + PageSize
    BY <1>7
  <2> QED BY <1>4, <2>1, <2>2, <2>3 DEF Page
<1>8. ASSUME ~overflowed', pc' = "collect", NEW c \in Sure, c \notin found'
      PROVE  FALSE
  <2>1. Position(c) >= skip /\ Position(c) \in Nat /\ skip \in Nat /\ c \notin Page
    BY <1>4, <1>6, <1>7, <1>8, PositionType DEF RunOK, TypeOK
  <2>2. Position(c) >= skip + PageSize
    BY <1>4, <2>1 DEF Page
  <2>3. Cardinality(Page) = PageSize
    BY <1>4, <2>2, PageFull
  <2>4. Cardinality(found') >= MaxCalls
    BY <1>8, <2>3
  <2>5. Cardinality(Results) <= MaxCalls
    <3>1. ~(Cardinality(Results) > MaxCalls)
      BY <1>8
    <3> QED BY <3>1, ResultsFinite
  <2> QED BY <1>4, <1>5, <1>8, <2>4, <2>5, FullFoundAll
<1>9. RunOK'
  BY <1>4, <1>5, <1>7, <1>8 DEF RunOK
<1> QED BY <1>2, <1>3, <1>9

LEMMA StartRunKeeps ==
  ASSUME IInv, StartRun
  PROVE  IInv'
<1> USE ConstantsAssumption DEF IInv, StartRun, cad, ghosts
<1>1. TypeOK'
  BY DEF TypeOK, WindowStart, Time
<1>2. CadOK' /\ NoMissedCallsWithinLimit'
  BY DEF CadOK, Unseen, NoMissedCallsWithinLimit, NoMissedCalls, Missed
<1>3. WindowOK'
  BY DEF WindowOK, WindowStart, TypeOK, Time
<1>4. \A c \in Results' : Position(c)' \in Nat
  <2>1. \A c \in Results' : Earlier(c)' \subseteq Call /\ IsFiniteSet(Earlier(c)')
    BY <1>1, FS_Subset DEF Earlier, Results, TypeOK
  <2>2. \A c \in Results' : Cardinality(Earlier(c)') \in Nat
    BY <2>1, FS_CardinalityType
  <2> QED BY <2>2 DEF Position, Earlier
<1>5. Sure' \subseteq Results'
  BY DEF Sure
<1>6. RunOK'
  BY <1>4, <1>5 DEF RunOK
<1> QED BY <1>1, <1>2, <1>3, <1>6

LEMMA CollectKeeps ==
  ASSUME IInv, NEW c \in Call, Collect(c) \/ CollectFails(c)
  PROVE  IInv'
<1> USE DEF IInv, Collect, CollectFails, cad, ghosts
<1>1. TypeOK'
  BY DEF TypeOK
<1>2. CadOK' /\ WindowOK'
  BY DEF CadOK, Unseen, WindowOK
<1>3. NoMissedCallsWithinLimit'
  BY DEF NoMissedCallsWithinLimit, NoMissedCalls, Missed
<1>4. Results' = Results /\ Sure' = Sure
  BY DEF Results, Sure
<1>5. RunOK'
  BY <1>4 DEF RunOK
<1> QED BY <1>1, <1>2, <1>3, <1>5

(* Whatever ends a run, its variables are gone. *)
LEMMA ReturnKeeps ==
  ASSUME IInv, Return, UNCHANGED <<cad, stored, overflowed>>
  PROVE  CadOK' /\ RunOK'
<1> USE DEF IInv, Return, cad
<1>1. CadOK'
  BY DEF CadOK, Unseen
<1>2. RunOK'
  BY DEF RunOK
<1> QED BY <1>1, <1>2

LEMMA AbortKeeps ==
  ASSUME IInv, Abort
  PROVE  IInv'
<1> USE DEF IInv, Abort
<1>1. CadOK' /\ RunOK'
  BY ReturnKeeps DEF ghosts
<1>2. TypeOK'
  <2>1. window' \in Int \X Int
    BY DEF Return
  <2> QED BY <2>1 DEF TypeOK, Return, cad, ghosts
<1>3. WindowOK'
  BY DEF WindowOK, Return, cad, ghosts
<1>4. NoMissedCallsWithinLimit'
  BY DEF NoMissedCallsWithinLimit, NoMissedCalls, Missed, cad, ghosts
<1> QED BY <1>1, <1>2, <1>3, <1>4

LEMMA FinishKeeps ==
  ASSUME IInv, Finish
  PROVE  IInv'
<1> USE ConstantsAssumption DEF IInv, Finish
<1>1. CadOK' /\ RunOK'
  BY ReturnKeeps
<1>2. TypeOK'
  <2>1. window' \in Int \X Int
    BY DEF Return
  <2>2. watermark' \in Time /\ since' \in Time
    BY DEF TypeOK, NewMark, Time
  <2> QED BY <2>1, <2>2 DEF TypeOK, Return, cad
<1>3. WindowOK'
  BY DEF TypeOK, WindowOK, Return, cad, NewMark, Time
<1>4. NoMissedCallsWithinLimit'
  <2>1. CASE ~Complete
    BY <2>1 DEF NoMissedCallsWithinLimit, NoMissedCalls, Missed, cad
  <2>2. CASE Complete
    <3> SUFFICES ASSUME NEW c \in Call, ~overflowed, Missed(c)' PROVE FALSE
      BY DEF NoMissedCallsWithinLimit, NoMissedCalls
    <3>1. /\ closedAt[c] \in Int /\ closedAt[c] # NoTime
          /\ closedAt[c] + Lag < window[2] /\ since' <= closedAt[c]
          /\ c \notin stored
          /\ window[1] \in Int /\ window[2] \in Int /\ window[2] <= now
      BY <2>2 DEF Missed, cad, TypeOK, Time, WindowOK, NewMark
    <3>2. CASE window[1] <= closedAt[c]
      <4>1. c \in visible
        BY <3>1 DEF CadOK, Unseen, TypeOK
      <4>2. c \in Sure
        BY <3>1, <3>2, <4>1 DEF Sure, Results
      <4>3. c \in found /\ found \subseteq stored
        BY <4>2, <2>2 DEF RunOK, Complete
      <4> QED BY <3>1, <4>3
    <3>3. CASE closedAt[c] < window[1]
      <4>1. since # NoTime /\ since' = since
        BY <3>1, <3>3, <2>2
      <4>2. watermark \in Int /\ window[1] = watermark - Overlap
        BY <4>1 DEF WindowOK, TypeOK, Time
      <4>3. closedAt[c] + Lag < watermark
        BY <3>1, <3>3, <4>2
      <4> QED BY <3>1, <4>1, <4>2, <4>3
              DEF NoMissedCallsWithinLimit, NoMissedCalls, Missed, WindowOK
    <3> QED BY <3>1, <3>2, <3>3
  <2> QED BY <2>1, <2>2
<1> QED BY <1>1, <1>2, <1>3, <1>4

-----------------------------------------------------------------------------
LEMMA InitInvariant == Init => IInv
<1> SUFFICES ASSUME Init PROVE IInv
  OBVIOUS
<1> USE ConstantsAssumption DEF Init
<1>1. TypeOK
  <2>1. window \in Int \X Int
    OBVIOUS
  <2> QED BY <2>1 DEF TypeOK, Time
<1>2. CadOK /\ WindowOK /\ RunOK
  BY DEF CadOK, Unseen, WindowOK, RunOK
<1>3. NoMissedCallsWithinLimit
  BY DEF NoMissedCallsWithinLimit, NoMissedCalls, Missed
<1> QED BY <1>1, <1>2, <1>3 DEF IInv

LEMMA NextKeeps == IInv /\ [Next]_vars => IInv'
<1> SUFFICES ASSUME IInv, [Next]_vars PROVE IInv'
  OBVIOUS
<1>1. CASE UNCHANGED vars
  BY <1>1 DEF vars, cad, run, ghosts, IInv, TypeOK, CadOK, Unseen, WindowOK, RunOK,
     Sure, Results, Position, Before, NoMissedCallsWithinLimit, NoMissedCalls, Missed
<1>2. CASE Worker
  BY <1>2, StartRunKeeps, SearchKeeps, FinishKeeps, CollectKeeps DEF Worker
<1>3. CASE Failure
  BY <1>3, AbortKeeps, CollectKeeps DEF Failure
<1>4. CASE Tick \/ \E c \in Call : Close(c) \/ Appear(c)
  BY <1>4, TickKeeps, CloseKeeps, AppearKeeps
<1> QED BY <1>1, <1>2, <1>3, <1>4 DEF Next

(* IInv is an inductive invariant of the collector. *)
THEOREM Invariant == Spec => []IInv
  BY InitInvariant, NextKeeps, PTL DEF Spec

(* Every variable of the collector keeps its type. *)
THEOREM TypeCorrect == Spec => []TypeOK
<1>1. IInv => TypeOK
  BY DEF IInv
<1> QED BY <1>1, Invariant, PTL

(* Completeness: with no window over the quota, no call that the mark has  *)
(* passed by the CAD's longest delay is missing.                           *)
THEOREM NothingMissed == Spec => []NoMissedCallsWithinLimit
<1>1. IInv => NoMissedCallsWithinLimit
  BY DEF IInv
<1> QED BY <1>1, Invariant, PTL

(* The high-water mark never moves back. *)
THEOREM MarkAdvances == Spec => WatermarkAdvances
<1> DEFINE A == watermark # NoTime => watermark' # NoTime /\ watermark' >= watermark
<1>1. IInv /\ [Next]_vars => [A]_vars
  <2> SUFFICES ASSUME IInv, Next PROVE A
    BY DEF vars
  <2> USE DEF cad, run, ghosts
  <2>1. CASE Finish
    BY <2>1, ConstantsAssumption DEF Finish, NewMark, IInv, WindowOK, TypeOK, Time
  <2>2. CASE UNCHANGED watermark
    BY <2>2 DEF IInv, TypeOK, Time
  <2> QED BY <2>1, <2>2 DEF Next, Worker, Failure, Tick, StartRun, Search, Collect,
             CollectFails, Abort, Close, Appear
<1> QED BY <1>1, Invariant, PTL DEF Spec, WatermarkAdvances

-----------------------------------------------------------------------------
(* The transcriber (RadioTranscribe): with any number of jobs, the queue   *)
(* directories and the process that works on them, crashes included,       *)
(* implement TranscriptionJobs: no job is lost, no transcript rewritten.   *)
Working == {"read", "model", "clean", "failing", "drop"}

(* A file name is free once, so a job is in one queue directory.           *)
WorkerOK ==
  /\ t_pc \in Working => t_job \in t_handed /\ t_job \notin t_todo
  /\ t_pc = "model" => t_written[t_job] = 0
  /\ t_pc = "clean" => t_written[t_job] = 1
  /\ t_pc = "drop" => t_job \in t_failed

(* A job waits in a directory or has its transcript or failure record, and *)
(* a transcript is not there before its job is.                            *)
JobsOK ==
  \A j \in Job :
    /\ t_written[j] \in {0, 1}
    /\ j \notin t_handed => t_written[j] = 0
    /\ j \in t_handed /\ t_written[j] = 0 => j \in t_pending \cup t_processing \cup t_failed

TranscriberOK == Scribe!TypeOK /\ WorkerOK /\ JobsOK

LEMMA TranscriberBegins == Scribe!Init => TranscriberOK
BY JobAssumption DEF Scribe!Init, TranscriberOK, Scribe!TypeOK, Scribe!Phases,
                     WorkerOK, Working, JobsOK

(* A step of the worker that leaves the directories alone. *)
LEMMA WorkerMoves ==
  ASSUME TranscriberOK, UNCHANGED <<t_handed, Scribe!queue, t_failed, t_written>>,
         t_pc' \in Scribe!Phases, t_todo' \subseteq t_pending,
             t_job' \in t_handed \cup {NoJob},
         (t_job' = NoJob) = (t_pc' \in {"down", "recover", "idle", "pass"}),
         WorkerOK'
  PROVE  TranscriberOK'
BY DEF TranscriberOK, Scribe!TypeOK, JobsOK, Scribe!queue

LEMMA HandOverKeeps ==
  ASSUME TranscriberOK, NEW j \in Job, Scribe!HandOver(j)
  PROVE  TranscriberOK'
<1> USE DEF TranscriberOK, Scribe!HandOver, Scribe!memory
<1>1. Scribe!TypeOK'
  BY JobAssumption DEF Scribe!TypeOK
<1>2. WorkerOK'
  BY DEF WorkerOK
<1>3. JobsOK'
  BY DEF JobsOK
<1> QED BY <1>1, <1>2, <1>3

LEMMA RecoverKeeps ==
  ASSUME TranscriberOK, NEW j \in Job, Scribe!Recover(j)
  PROVE  TranscriberOK'
<1> USE DEF TranscriberOK, Scribe!Recover, Scribe!BackInQueue, Scribe!memory
<1>1. Scribe!TypeOK'
  BY DEF Scribe!TypeOK
<1>2. WorkerOK'
  BY DEF WorkerOK
<1>3. JobsOK'
  BY DEF JobsOK
<1> QED BY <1>1, <1>2, <1>3

(* Start, the end of the recovery, and the two ends of a pass. *)
LEMMA PassKeeps ==
  ASSUME TranscriberOK,
         Scribe!Start \/ Scribe!Ready \/ Scribe!StartPass \/ Scribe!EndPass
  PROVE  TranscriberOK'
<1>1. /\ UNCHANGED <<t_handed, Scribe!queue, t_failed, t_written, t_job>>
      /\ t_pc \in {"down", "recover", "idle", "pass"}
      /\ t_pc' \in {"recover", "idle", "pass"}
      /\ t_todo' = t_todo \/ t_todo' = t_pending
  BY DEF Scribe!Start, Scribe!Ready, Scribe!Recovered, Scribe!StartPass, Scribe!EndPass
<1>2. WorkerOK'
  BY <1>1 DEF WorkerOK, Working
<1> QED BY <1>1, <1>2, WorkerMoves DEF TranscriberOK, Scribe!TypeOK, Scribe!Phases

LEMMA ClaimKeeps ==
  ASSUME TranscriberOK, NEW j \in Job, Scribe!Claim(j)
  PROVE  TranscriberOK'
<1>1. /\ t_pc' = "read" /\ t_job' = j /\ j \in t_todo /\ t_todo' = t_todo \ {j}
      /\ t_pending' = t_pending \ {j} /\ t_processing' = t_processing \cup {j}
      /\ UNCHANGED <<t_handed, t_failed, t_written>>
  BY DEF Scribe!Claim, Scribe!Take, Scribe!First
<1>2. Scribe!TypeOK'
  BY <1>1, JobAssumption DEF TranscriberOK, Scribe!TypeOK, Scribe!Phases
<1>3. WorkerOK'
  BY <1>1 DEF TranscriberOK, Scribe!TypeOK, WorkerOK, Working
<1>4. JobsOK'
  BY <1>1 DEF TranscriberOK, JobsOK
<1> QED BY <1>2, <1>3, <1>4 DEF TranscriberOK

LEMMA ClaimFailsKeeps ==
  ASSUME TranscriberOK, NEW j \in Job, Scribe!ClaimFails(j)
  PROVE  TranscriberOK'
<1>1. /\ t_pc' = "failing" /\ t_job' = j /\ j \in t_todo /\ t_todo' = t_todo \ {j}
      /\ UNCHANGED <<t_handed, Scribe!queue, t_failed, t_written>>
  BY DEF Scribe!ClaimFails, Scribe!Take, Scribe!First
<1>2. j \in t_handed
  BY <1>1 DEF TranscriberOK, Scribe!TypeOK
<1>3. WorkerOK'
  BY <1>1, <1>2 DEF WorkerOK, Working
<1> QED BY <1>1, <1>2, <1>3, WorkerMoves, JobAssumption DEF TranscriberOK,
    Scribe!TypeOK, Scribe!Phases

LEMMA ReadKeeps == TranscriberOK /\ Scribe!Read => TranscriberOK'
<1> SUFFICES ASSUME TranscriberOK, Scribe!Read PROVE TranscriberOK'
  OBVIOUS
<1>1. /\ t_pc = "read" /\ t_todo' = t_todo /\ t_job' = t_job
      /\ UNCHANGED <<t_handed, Scribe!queue, t_failed, t_written>>
      /\ \/ t_pc' = "model" /\ Scribe!NoTranscript
         \/ t_pc' = "clean" /\ ~Scribe!NoTranscript
  BY DEF Scribe!Read, Scribe!Go
<1>2. t_job \in t_handed /\ t_job \in Job /\ t_job \notin t_todo
  BY <1>1 DEF TranscriberOK, Scribe!TypeOK, WorkerOK, Working
<1>3. WorkerOK'
  BY <1>1, <1>2 DEF TranscriberOK, Scribe!TypeOK, WorkerOK, Working,
                    Scribe!NoTranscript, Scribe!Transcribed, JobsOK
<1> QED BY <1>1, <1>3, WorkerMoves DEF TranscriberOK, Scribe!TypeOK, Scribe!Phases

LEMMA WriteTranscriptKeeps == TranscriberOK /\ Scribe!WriteTranscript => TranscriberOK'
<1> SUFFICES ASSUME TranscriberOK, Scribe!WriteTranscript PROVE TranscriberOK'
  OBVIOUS
<1>1. /\ t_pc = "model" /\ t_pc' = "clean" /\ t_todo' = t_todo /\ t_job' = t_job
      /\ UNCHANGED <<t_handed, Scribe!queue, t_failed>>
      /\ t_written' = [t_written EXCEPT ![t_job] = @ + 1]
  BY DEF Scribe!WriteTranscript, Scribe!Go
<1>2. t_job \in Job /\ t_job \in t_handed /\ t_job \notin t_todo /\ t_written[t_job] = 0
  BY <1>1 DEF TranscriberOK, Scribe!TypeOK, WorkerOK, Working
<1>3. /\ t_written' \in [Job -> Nat] /\ t_written'[t_job] = 1
      /\ \A j \in Job \ {t_job} : t_written'[j] = t_written[j]
  BY <1>1, <1>2 DEF TranscriberOK, Scribe!TypeOK
<1>4. Scribe!TypeOK'
  BY <1>1, <1>3 DEF TranscriberOK, Scribe!TypeOK, Scribe!Phases, Scribe!queue
<1>5. WorkerOK'
  BY <1>1, <1>2, <1>3 DEF WorkerOK, Working
<1>6. JobsOK'
  BY <1>1, <1>2, <1>3 DEF TranscriberOK, JobsOK, Scribe!queue
<1> QED BY <1>4, <1>5, <1>6 DEF TranscriberOK

LEMMA AttemptFailsKeeps == TranscriberOK /\ Scribe!AttemptFails => TranscriberOK'
<1> SUFFICES ASSUME TranscriberOK, Scribe!AttemptFails PROVE TranscriberOK'
  OBVIOUS
<1>1. /\ t_pc \in {"read", "model", "clean"} /\ t_pc' = "failing"
      /\ t_todo' = t_todo /\ t_job' = t_job
      /\ UNCHANGED <<t_handed, Scribe!queue, t_failed, t_written>>
  BY DEF Scribe!AttemptFails, Scribe!Go
<1>2. WorkerOK'
  BY <1>1 DEF TranscriberOK, WorkerOK, Working
<1> QED BY <1>1, <1>2, WorkerMoves DEF TranscriberOK, Scribe!TypeOK, Scribe!Phases

LEMMA WriteFailureKeeps == TranscriberOK /\ Scribe!WriteFailure => TranscriberOK'
<1> SUFFICES ASSUME TranscriberOK, Scribe!WriteFailure PROVE TranscriberOK'
  OBVIOUS
<1>1. /\ t_pc = "failing" /\ t_pc' = "drop" /\ t_todo' = t_todo /\ t_job' = t_job
      /\ UNCHANGED <<t_handed, Scribe!queue,
          t_written>> /\ t_failed' = t_failed \cup {t_job}
  BY DEF Scribe!WriteFailure, Scribe!Go
<1>2. t_job \in t_handed /\ t_job \notin t_todo
  BY <1>1 DEF TranscriberOK, WorkerOK, Working
<1>3. Scribe!TypeOK'
  BY <1>1, <1>2 DEF TranscriberOK, Scribe!TypeOK, Scribe!Phases, Scribe!queue
<1>4. WorkerOK'
  BY <1>1, <1>2 DEF WorkerOK, Working
<1>5. JobsOK'
  BY <1>1 DEF TranscriberOK, JobsOK, Scribe!queue
<1> QED BY <1>3, <1>4, <1>5 DEF TranscriberOK

(* The job file goes when its transcript or its failure record is there. *)
LEMMA UnlinkKeeps == TranscriberOK /\ Scribe!Unlink => TranscriberOK'
<1> SUFFICES ASSUME TranscriberOK, Scribe!Unlink PROVE TranscriberOK'
  OBVIOUS
<1>1. /\ t_pc \in {"clean", "drop"} /\ t_pc' = "pass" /\ t_job' = NoJob
      /\ t_processing' = t_processing \ {t_job}
      /\ UNCHANGED <<t_handed, t_pending, t_failed, t_written, t_todo>>
  BY DEF Scribe!Unlink
<1>2. t_written[t_job] = 1 \/ t_job \in t_failed
  BY <1>1 DEF TranscriberOK, WorkerOK
<1>3. Scribe!TypeOK'
  BY <1>1 DEF TranscriberOK, Scribe!TypeOK, Scribe!Phases
<1>4. WorkerOK'
  BY <1>1 DEF WorkerOK, Working
<1>5. JobsOK'
  BY <1>1, <1>2 DEF TranscriberOK, JobsOK
<1> QED BY <1>3, <1>4, <1>5 DEF TranscriberOK

LEMMA CrashKeeps == TranscriberOK /\ Scribe!Crash => TranscriberOK'
<1> SUFFICES ASSUME TranscriberOK, Scribe!Crash PROVE TranscriberOK'
  OBVIOUS
<1>1. /\ t_pc' = "down" /\ t_todo' = {} /\ t_job' = NoJob
      /\ UNCHANGED <<t_handed, Scribe!queue, t_failed, t_written>>
  BY DEF Scribe!Crash
<1>2. WorkerOK'
  BY <1>1 DEF WorkerOK, Working
<1> QED BY <1>1, <1>2, WorkerMoves DEF Scribe!Phases

LEMMA TranscriberNext == TranscriberOK /\ [Scribe!Next]_(Scribe!vars) => TranscriberOK'
<1> SUFFICES ASSUME TranscriberOK, [Scribe!Next]_(Scribe!vars) PROVE TranscriberOK'
  OBVIOUS
<1>1. CASE UNCHANGED Scribe!vars
  BY <1>1 DEF TranscriberOK, Scribe!vars, Scribe!queue, Scribe!memory, Scribe!TypeOK,
              WorkerOK, JobsOK
<1>2. CASE Scribe!Handling
  BY <1>2, PassKeeps, ReadKeeps, WriteFailureKeeps, UnlinkKeeps, RecoverKeeps,
     ClaimKeeps DEF Scribe!Handling
<1>3. CASE Scribe!Mishap
  BY <1>3, AttemptFailsKeeps, CrashKeeps, ClaimFailsKeeps DEF Scribe!Mishap
<1> QED BY <1>1, <1>2, <1>3, WriteTranscriptKeeps, HandOverKeeps DEF Scribe!Next

LEMMA TranscriberHolds == Scribe!Spec => []TranscriberOK
BY TranscriberBegins, TranscriberNext, PTL DEF Scribe!Spec

(* The refinement: where a job stands, told from its files. *)

Stands(j) ==
  IF t_written[j] = 1 THEN "transcribed"
  ELSE IF j \notin t_handed THEN "absent"
  ELSE IF j \in t_failed THEN "failed" ELSE "queued"

StatusIs == \A j \in Job : Scribe!StatusOf(j) = Stands(j)

LEMMA StatusKnown == TranscriberOK => StatusIs
<1> SUFFICES ASSUME TranscriberOK, NEW j \in Job PROVE Scribe!StatusOf(j) = Stands(j)
  BY DEF StatusIs
<1>1. /\ t_written[j] \in {0, 1} /\ (j \notin t_handed => t_written[j] = 0)
      /\ j \in t_handed /\ t_written[j] = 0 => j \in t_pending \cup t_processing \cup t_failed
      /\ j \in t_pending \cup t_processing \cup t_failed => j \in t_handed
  BY DEF TranscriberOK, JobsOK, Scribe!TypeOK
<1>2. CASE t_written[j] = 1
  BY <1>2 DEF Scribe!StatusOf, Stands
<1>3. CASE t_written[j] = 0 /\ j \in t_failed
  BY <1>1, <1>3 DEF Scribe!StatusOf, Stands
<1>4. CASE t_written[j] = 0 /\ j \in t_handed \ t_failed
  BY <1>1, <1>4 DEF Scribe!StatusOf, Stands
<1>5. CASE t_written[j] = 0 /\ j \notin t_handed
  BY <1>1, <1>5 DEF Scribe!StatusOf, Stands
<1> QED BY <1>1, <1>2, <1>3, <1>4, <1>5

(* A step that changes nothing about where jobs stand is a stutter. *)
LEMMA Stutters ==
  ASSUME \A j \in Job : Scribe!StatusOf(j)' = Scribe!StatusOf(j)
  PROVE  Scribe!Status' = Scribe!Status
BY DEF Scribe!Status

(* A step that moves one job is that move of TranscriptionJobs. *)
LEMMA Moves ==
  ASSUME NEW j \in Job, NEW from, NEW to, Scribe!StatusOf(j) \in from,
         Scribe!StatusOf(j)' = to,
         \A k \in Job \ {j} : Scribe!StatusOf(k)' = Scribe!StatusOf(k)
  PROVE  Scribe!Jobs!Move(j, from, to)
BY DEF Scribe!Status, Scribe!Jobs!Move

LEMMA StepRefines ==
  ASSUME TranscriberOK, TranscriberOK', [Scribe!Next]_(Scribe!vars)
  PROVE  [Scribe!Jobs!Next]_(Scribe!Status)
<1>1. /\ \A j \in Job : Scribe!StatusOf(j) = Stands(j)
      /\ \A j \in Job : Scribe!StatusOf(j)' = Stands(j)'
  <2>1. StatusIs /\ StatusIs'
    BY StatusKnown, PTL
  <2> QED BY <2>1 DEF StatusIs
<1>2. CASE UNCHANGED <<t_handed, t_failed, t_written>>
  <2>1. \A j \in Job : Stands(j)' = Stands(j)
    BY <1>2 DEF Stands
  <2> QED BY <1>1, <2>1, Stutters
<1>3. ASSUME NEW j \in Job, Scribe!HandOver(j) PROVE Scribe!Jobs!Next
  <2>1. /\ j \notin t_handed /\ t_handed' = t_handed \cup {j}
        /\ UNCHANGED <<t_failed, t_written>>
    BY <1>3 DEF Scribe!HandOver
  <2>2. Stands(j) = "absent" /\ Stands(j)' = "queued"
    BY <2>1 DEF TranscriberOK, JobsOK, Scribe!TypeOK, Stands
  <2>3. \A k \in Job \ {j} : Stands(k)' = Stands(k)
    BY <2>1 DEF Stands
  <2>4. Scribe!Jobs!Move(j, {"absent"}, "queued")
    BY <1>1, <2>2, <2>3, Moves
  <2> QED BY <2>4 DEF Scribe!Jobs!Next, Scribe!Jobs!HandOver
<1>4. ASSUME Scribe!WriteTranscript PROVE Scribe!Jobs!Next
  <2>1. PICK j \in Job : j = t_job /\ t_written[j] = 0 /\ j \in t_handed
    BY <1>4 DEF Scribe!WriteTranscript, TranscriberOK, Scribe!TypeOK, WorkerOK, Working
  <2>2. t_written' = [t_written EXCEPT ![j] = @ + 1] /\ UNCHANGED <<t_handed, t_failed>>
    BY <1>4, <2>1 DEF Scribe!WriteTranscript
  <2>3. t_written'[j] = 1 /\ \A k \in Job \ {j} : t_written'[k] = t_written[k]
    BY <2>1, <2>2 DEF TranscriberOK, Scribe!TypeOK
  <2>4. Stands(j) \in {"queued", "failed"} /\ Stands(j)' = "transcribed"
    BY <2>1, <2>3 DEF Stands
  <2>5. \A k \in Job \ {j} : Stands(k)' = Stands(k)
    BY <2>2, <2>3 DEF Stands
  <2>6. Scribe!Jobs!Move(j, {"queued", "failed"}, "transcribed")
    BY <1>1, <2>4, <2>5, Moves
  <2> QED BY <2>6 DEF Scribe!Jobs!Next, Scribe!Jobs!Transcribe
<1>5. ASSUME Scribe!WriteFailure PROVE [Scribe!Jobs!Next]_(Scribe!Status)
  <2>1. PICK j \in Job : j = t_job /\ j \in t_handed /\ t_written[j] \in {0, 1}
    BY <1>5 DEF Scribe!WriteFailure, TranscriberOK, Scribe!TypeOK, WorkerOK, Working,
                JobsOK
  <2>2. t_failed' = t_failed \cup {j} /\ UNCHANGED <<t_handed, t_written>>
    BY <1>5, <2>1 DEF Scribe!WriteFailure
  <2>3. \A k \in Job \ {j} : Stands(k)' = Stands(k)
    BY <2>2 DEF Stands
  <2>4. CASE t_written[j] = 1 \/ j \in t_failed
    <3>1. Stands(j)' = Stands(j)
      BY <2>2, <2>4 DEF Stands
    <3> QED BY <1>1, <2>3, <3>1, Stutters
  <2>5. CASE t_written[j] = 0 /\ j \notin t_failed
    <3>1. Stands(j) = "queued" /\ Stands(j)' = "failed"
      BY <2>1, <2>2, <2>5 DEF Stands
    <3>2. Scribe!Jobs!Move(j, {"queued"}, "failed")
      BY <1>1, <2>3, <3>1, Moves
    <3> QED BY <3>2 DEF Scribe!Jobs!Next, Scribe!Jobs!SetAside
  <2> QED BY <2>1, <2>4, <2>5
<1>6. ASSUME Scribe!Handling, ~Scribe!WriteFailure PROVE UNCHANGED <<t_handed,
             t_failed, t_written>>
  BY <1>6 DEF Scribe!Handling, Scribe!Start, Scribe!Ready, Scribe!StartPass,
              Scribe!EndPass, Scribe!Read, Scribe!Unlink, Scribe!Recover,
     Scribe!Claim, Scribe!Take, Scribe!queue
<1>7. ASSUME Scribe!Mishap PROVE UNCHANGED <<t_handed, t_failed, t_written>>
  BY <1>7 DEF Scribe!Mishap, Scribe!AttemptFails, Scribe!Crash, Scribe!ClaimFails,
              Scribe!Take, Scribe!queue
<1> QED BY <1>2, <1>3, <1>4, <1>5, <1>6, <1>7 DEF Scribe!Next, Scribe!vars

(* Variables keep their types; a claimed job was handed over, is in one    *)
(* directory, and is known exactly while the worker is at it.              *)
THEOREM TranscriberTypes == Scribe!Spec => []Scribe!TypeOK
<1>1. TranscriberOK => Scribe!TypeOK
  BY DEF TranscriberOK
<1> QED BY <1>1, TranscriberHolds, PTL

(* The queue directories and the worker (transcribe.py), killed at any     *)
(* point and with any file operation failing, never lose a job and never   *)
(* write a transcript twice.                                               *)
THEOREM TranscriberKeepsItsPromise == Scribe!Spec => ImplementsJobs
<1>1. Scribe!Init => Scribe!Jobs!Init
  BY DEF Scribe!Init, Scribe!Jobs!Init, Scribe!Status, Scribe!StatusOf
<1>2. TranscriberOK /\ TranscriberOK' /\ [Scribe!Next]_(Scribe!vars) => [Scribe!Jobs!Next]_(Scribe!Status)
  BY StepRefines
<1> QED BY <1>1, <1>2, TranscriberHolds, PTL DEF Scribe!Spec, ImplementsJobs,
    Scribe!ImplementsJobs, Scribe!Jobs!Spec

-----------------------------------------------------------------------------
(* The indexer (KnowledgeIndex). *)

(* What is stored of a document is one version of its file, unless that    *)
(* changed between its hash and its text; likewise what is about to be.    *)
StoredOK ==
  \A d \in Doc : i_rows[d] # None => d \in i_torn \/ Index!Holds(i_rows[d], i_rows[d].hash)

(* The document the pass is at, read or not: ... *)
DraftOK ==
  /\ i_pc \in {"extract", "embed"} =>
       /\ i_draft \in Index!Row
       /\ i_doc \in i_touched \/ i_draft.hash = i_files[i_doc]
  /\ i_pc = "extract" => i_doc \in i_torn \/ i_draft.hash = i_files[i_doc]
  /\ i_pc = "embed" =>
       /\ i_draft.text \in Content \ Broken
       /\ i_doc \in i_torn \/ Index!Holds(i_draft, i_draft.hash)

(* ... and those behind it, as long as none failed.                        *)
PassOK ==
  i_pc # "sleep" =>
    /\ i_status = "running"
    /\ \A d \in Doc \ i_touched : d \in i_present <=> i_files[d] # None
    /\ ~i_failures =>
         \A d \in i_present \ (i_todo \cup i_touched) : d = i_doc \/ Index!AsFile(d)

IndexOK == Index!TypeOK /\ StoredOK /\ DraftOK /\ PassOK /\ CompleteIsCurrent

LEMMA IndexBegins == Index!Init => IndexOK
<1> SUFFICES ASSUME Index!Init PROVE IndexOK
  OBVIOUS
<1> USE IndexAssumption DEF Index!Init
<1>1. Index!TypeOK
  <2>1. /\ i_rows \in [Doc -> Index!Row \cup {None}]
        /\ \A d \in Doc : i_rows[d] = None
    OBVIOUS
  <2>2. (i_doc = None) = (i_pc \in {"sleep", "pass"})
    OBVIOUS
  <2>3. 0 \in 0..MaxChanges
    OBVIOUS
  <2> QED BY <2>1, <2>2, <2>3 DEF Index!TypeOK
<1>2. StoredOK /\ DraftOK /\ PassOK
  BY DEF StoredOK, DraftOK, PassOK
<1>3. CompleteIsCurrent
  BY DEF CompleteIsCurrent, Index!CompleteIsCurrent
<1> QED BY <1>1, <1>2, <1>3 DEF IndexOK

(* A file changes: the document is no longer one the pass answers for.     *)
LEMMA ChangeKeeps ==
  ASSUME IndexOK, NEW d \in Doc, Index!Change(d)
  PROVE  IndexOK'
<1> USE DEF Index!Change, Index!stored, Index!memory
<1>1. Index!TypeOK'
  <2>1. /\ i_files' \in [Doc -> Content \cup {None}]
        /\ i_changes' \in 0..MaxChanges
    BY IndexAssumption DEF IndexOK, Index!TypeOK
  <2> QED BY <2>1 DEF IndexOK, Index!TypeOK
<1>2. /\ i_touched' = i_touched \cup {d} /\ i_torn \subseteq i_torn'
      /\ i_pc = "extract" /\ i_doc = d => d \in i_torn'
      /\ \A e \in Doc \ {d} : i_files'[e] = i_files[e]
      /\ UNCHANGED <<i_rows, i_status, i_pc, i_present, i_todo, i_doc, i_draft, i_failures>>
  BY DEF IndexOK, Index!TypeOK
<1>3. StoredOK'
  BY <1>2 DEF IndexOK, StoredOK
<1>4. DraftOK'
  <2>1. i_pc \in {"extract", "embed"} => i_doc \in Doc
    BY DEF IndexOK, Index!TypeOK
  <2> QED BY <1>2, <2>1 DEF IndexOK, DraftOK
<1>5. \A e \in Doc \ i_touched' : Index!AsFile(e) => Index!AsFile(e)'
  BY <1>2 DEF Index!AsFile
<1>6. PassOK'
  BY <1>2, <1>5 DEF IndexOK, PassOK, Index!TypeOK
<1>7. CompleteIsCurrent'
  BY <1>2, <1>5 DEF IndexOK, CompleteIsCurrent, Index!CompleteIsCurrent
<1> QED BY <1>1, <1>3, <1>4, <1>6, <1>7 DEF IndexOK

(* Steps that store nothing, and leave the files alone. *)
LEMMA NothingStored ==
  ASSUME IndexOK, UNCHANGED <<i_rows, i_files, i_torn>>, i_touched' \subseteq i_touched,
         i_status' # "complete" \/ UNCHANGED <<i_status, i_touched>>
  PROVE  /\ StoredOK' /\ CompleteIsCurrent'
         /\ \A d \in Doc : Index!AsFile(d)' <=> Index!AsFile(d)
<1>1. \A d \in Doc : Index!AsFile(d)' <=> Index!AsFile(d)
  BY DEF Index!AsFile
<1>2. StoredOK'
  BY DEF IndexOK, StoredOK
<1>3. CompleteIsCurrent'
  BY <1>1 DEF IndexOK, CompleteIsCurrent, Index!CompleteIsCurrent
<1> QED BY <1>1, <1>2, <1>3

LEMMA StartPassKeeps == IndexOK /\ Index!StartPass => IndexOK'
<1> SUFFICES ASSUME IndexOK, Index!StartPass PROVE IndexOK'
  OBVIOUS
<1>1. /\ i_pc = "sleep" /\ i_pc' = "pass" /\ i_todo' = i_present' /\ i_status' = "running"
      /\ i_present' = {d \in Doc : i_files[d] # None}
      /\ i_failures' = FALSE /\ i_touched' = {}
      /\ UNCHANGED <<i_rows, i_doc, i_draft, i_files, i_changes, i_torn>>
  BY DEF Index!StartPass
<1>2. Index!TypeOK'
  BY <1>1 DEF IndexOK, Index!TypeOK
<1>3. StoredOK' /\ CompleteIsCurrent'
  BY <1>1, NothingStored
<1>4. DraftOK' /\ PassOK'
  BY <1>1 DEF DraftOK, PassOK
<1> QED BY <1>2, <1>3, <1>4 DEF IndexOK

LEMMA LookKeeps ==
  ASSUME IndexOK, NEW d \in Doc, Index!Look(d)
  PROVE  IndexOK'
<1>1. /\ i_pc = "pass" /\ d \in i_todo /\ i_todo' = i_todo \ {d} /\ i_doc' = d
      /\ \/ i_pc' = "failed" /\ UNCHANGED i_draft
         \/ /\ i_pc' = "embed" /\ i_draft' = i_rows[d]
            /\ i_rows[d] # None /\ i_rows[d].hash = i_files[d]
         \/ /\ i_pc' = "extract" /\ i_files[d] # None
            /\ i_draft' = [hash |-> i_files[d], text |-> None, chunks |-> 0, vectors |-> 0]
      /\ UNCHANGED <<i_rows, i_status, i_present, i_failures>>
      /\ UNCHANGED <<i_files, i_changes, i_torn, i_touched>>
  BY DEF Index!Look, Index!First, Index!SameFile, Index!stored, Index!world
<1>2. i_draft' \in Index!Row \cup {None} /\ (i_pc' # "failed" => i_draft' \in Index!Row)
  <2>1. i_files[d] # None => [hash |-> i_files[d], text |-> None, chunks |-> 0, vectors |-> 0] \in Index!Row
    BY IndexAssumption DEF IndexOK, Index!TypeOK, Index!Row
  <2> QED BY <1>1, <2>1 DEF IndexOK, Index!TypeOK
<1>3. Index!TypeOK'
  <2>1. d # None
    BY IndexAssumption
  <2> QED BY <1>1, <1>2, <2>1 DEF IndexOK, Index!TypeOK
<1>4. /\ StoredOK' /\ CompleteIsCurrent'
      /\ \A e \in Doc : Index!AsFile(e)' <=> Index!AsFile(e)
  BY <1>1, NothingStored
<1>5. DraftOK'
  <2>1. i_rows[d] # None => /\ i_rows[d].text \in Content \ Broken
                            /\ d \in i_torn \/ Index!Holds(i_rows[d], i_rows[d].hash)
    BY DEF IndexOK, Index!TypeOK, StoredOK
  <2> QED BY <1>1, <1>2, <2>1 DEF DraftOK
<1>6. PassOK'
  <2>1. i_doc = None /\ None \notin Doc /\ i_present \subseteq Doc
    BY <1>1, IndexAssumption DEF IndexOK, Index!TypeOK
  <2> QED BY <1>1, <1>4, <2>1 DEF IndexOK, PassOK
<1> QED BY <1>3, <1>4, <1>5, <1>6 DEF IndexOK

(* The document is read, or cannot be. *)
LEMMA ReadingKeeps == IndexOK /\ (Index!Extract \/ Index!ExtractFails) => IndexOK'
<1> SUFFICES ASSUME IndexOK, Index!Extract \/ Index!ExtractFails PROVE IndexOK'
  OBVIOUS
<1>1. /\ i_pc = "extract"
      /\ \/ i_pc' = "failed" /\ UNCHANGED i_draft
         \/ /\ i_pc' = "embed" /\ i_files[i_doc] \notin Broken \cup {None}
            /\ \E n \in Index!Yield(i_files[i_doc]) :
                 i_draft' = [i_draft EXCEPT !.text = i_files[i_doc], !.chunks = n]
      /\ UNCHANGED <<i_rows, i_status, i_present, i_todo, i_doc, i_failures>>
      /\ UNCHANGED <<i_files, i_changes, i_torn, i_touched>>
  BY DEF Index!Extract, Index!ExtractFails, Index!stored, Index!world
<1>2. i_doc \in Doc /\ i_draft \in Index!Row /\ i_files[i_doc] \in Content \cup {None}
  BY <1>1 DEF IndexOK, DraftOK, Index!TypeOK
<1>3. i_draft' \in Index!Row
  <2>1. \A c : Index!Yield(c) \subseteq 0..Batches
    BY IndexAssumption DEF Index!Yield
  <2> QED BY <1>1, <1>2, <2>1 DEF Index!Row
<1>4. Index!TypeOK'
  <2>1. /\ i_pc = "extract" /\ i_pc' \in {"embed", "failed"}
        /\ UNCHANGED <<i_rows, i_status, i_present, i_todo, i_doc, i_failures>>
        /\ UNCHANGED <<i_files, i_changes, i_torn, i_touched>>
    BY <1>1
  <2> QED BY <1>3, <2>1 DEF IndexOK, Index!TypeOK
<1>5. /\ StoredOK' /\ CompleteIsCurrent'
      /\ \A e \in Doc : Index!AsFile(e)' <=> Index!AsFile(e)
  BY <1>1, NothingStored
<1>6. i_pc' = "embed" => /\ i_draft'.text = i_files[i_doc] /\ i_draft'.hash = i_draft.hash
                        /\ Index!Holds(i_draft', i_files[i_doc])
  BY <1>1, <1>2 DEF Index!Row, Index!Holds
<1>7. DraftOK'
  BY <1>1, <1>2, <1>3, <1>6 DEF IndexOK, DraftOK
<1>8. PassOK'
  BY <1>1, <1>5 DEF IndexOK, PassOK, Index!TypeOK
<1> QED BY <1>4, <1>5, <1>7, <1>8 DEF IndexOK

(* The draft, or the draft with another batch, becomes the row of the      *)
(* document: it is what the file says, unless that changed.                *)
LEMMA DraftStored ==
  ASSUME IndexOK, i_pc = "embed", NEW r \in Index!Row,
         r.hash = i_draft.hash, r.text = i_draft.text, r.chunks = i_draft.chunks,
         i_rows' = [i_rows EXCEPT ![i_doc] = r],
         UNCHANGED <<i_files, i_torn, i_touched, i_status, i_present>>
  PROVE  /\ i_rows' \in [Doc -> Index!Row \cup {None}]
         /\ \A d \in Doc : i_rows'[d] # None => i_rows'[d].text \in Content \ Broken
         /\ StoredOK' /\ CompleteIsCurrent'
         /\ \A d \in Doc : Index!AsFile(d) /\ d # i_doc => Index!AsFile(d)'
         /\ \A d \in Doc \ i_touched : d = i_doc => Index!AsFile(d)'
<1>1. /\ i_doc \in Doc /\ i_rows \in [Doc -> Index!Row \cup {None}]
      /\ \A d \in Doc : i_rows[d] # None => i_rows[d].text \in Content \ Broken
  BY DEF IndexOK, Index!TypeOK
<1>2. /\ i_rows' \in [Doc -> Index!Row \cup {None}] /\ i_rows'[i_doc] = r
      /\ \A d \in Doc \ {i_doc} : i_rows'[d] = i_rows[d]
  BY <1>1
<1>3. /\ r # None /\ r.text \in Content \ Broken
      /\ i_doc \in i_torn \/ Index!Holds(r, r.hash)
      /\ i_doc \in i_touched \/ r.hash = i_files[i_doc]
  BY IndexAssumption DEF IndexOK, DraftOK, Index!Holds
<1>4. StoredOK'
  BY <1>2, <1>3 DEF IndexOK, StoredOK
<1>5. \A d \in Doc : Index!AsFile(d) /\ d # i_doc => Index!AsFile(d)'
  BY <1>2 DEF Index!AsFile
<1>6. ASSUME NEW d \in Doc \ i_touched, d = i_doc PROVE Index!AsFile(d)'
  <2>1. r.hash \in Content /\ i_files[d] = r.hash /\ i_files[d] # None
    BY <1>3, <1>6, IndexAssumption DEF Index!Row
  <2>2. i_rows'[d] = r /\ i_files' = i_files /\ i_torn' = i_torn
    BY <1>2, <1>6
  <2>3. /\ i_files'[d] # None /\ i_rows'[d] # None /\ i_rows'[d].hash = i_files'[d]
        /\ d \in i_torn' \/ Index!Holds(i_rows'[d], i_files'[d])
    BY <1>3, <1>6, <2>1, <2>2
  <2> QED BY <2>3 DEF Index!AsFile
<1>7. CompleteIsCurrent'
  BY DEF IndexOK, PassOK, CompleteIsCurrent, Index!CompleteIsCurrent
<1> QED BY <1>1, <1>2, <1>3, <1>4, <1>5, <1>6, <1>7

LEMMA EmbedKeeps == IndexOK /\ Index!Embed => IndexOK'
<1> SUFFICES ASSUME IndexOK, Index!Embed PROVE IndexOK'
  OBVIOUS
<1>1. /\ i_pc = "embed" /\ i_draft.vectors < i_draft.chunks
      /\ i_draft' = [i_draft EXCEPT !.vectors = @ + 1]
      /\ i_rows' = [i_rows EXCEPT ![i_doc] = i_draft']
      /\ UNCHANGED <<i_status, i_pc, i_present, i_todo, i_doc, i_failures>>
      /\ UNCHANGED <<i_files, i_changes, i_torn, i_touched>>
  BY DEF Index!Embed, Index!world
<1>2. i_draft \in Index!Row
  BY <1>1 DEF IndexOK, DraftOK
<1>3. /\ i_draft' \in Index!Row
      /\ i_draft'.hash = i_draft.hash /\ i_draft'.text = i_draft.text
      /\ i_draft'.chunks = i_draft.chunks
  <2>1. i_draft.vectors + 1 \in 0..Batches
    BY <1>1, <1>2, IndexAssumption DEF Index!Row
  <2> QED BY <1>1, <1>2, <2>1 DEF Index!Row
<1>4. /\ i_rows' \in [Doc -> Index!Row \cup {None}]
      /\ \A d \in Doc : i_rows'[d] # None => i_rows'[d].text \in Content \ Broken
      /\ StoredOK' /\ CompleteIsCurrent'
      /\ \A d \in Doc : Index!AsFile(d) /\ d # i_doc => Index!AsFile(d)'
  BY <1>1, <1>3, DraftStored
<1>5. Index!TypeOK'
  BY <1>1, <1>3, <1>4 DEF IndexOK, Index!TypeOK
<1>6. DraftOK'
  BY <1>1, <1>3 DEF IndexOK, DraftOK, Index!Holds
<1>7. PassOK'
  BY <1>1, <1>4 DEF IndexOK, PassOK, Index!TypeOK
<1> QED BY <1>4, <1>5, <1>6, <1>7 DEF IndexOK

(* A document is done with, embedded as far as the service answered. *)
LEMMA CommitKeeps == IndexOK /\ (Index!DocDone \/ Index!EmbedFails) => IndexOK'
<1> SUFFICES ASSUME IndexOK, Index!DocDone \/ Index!EmbedFails PROVE IndexOK'
  OBVIOUS
<1>1. /\ i_pc = "embed" /\ i_pc' = "pass" /\ i_doc' = None /\ i_draft' = None
      /\ i_rows' = [i_rows EXCEPT ![i_doc] = i_draft]
      /\ UNCHANGED <<i_status, i_present, i_todo, i_failures>>
      /\ UNCHANGED <<i_files, i_changes, i_torn, i_touched>>
  BY DEF Index!DocDone, Index!EmbedFails, Index!NextDoc, Index!Committed, Index!world
<1>2. i_draft \in Index!Row
  BY <1>1 DEF IndexOK, DraftOK
<1>3. /\ i_rows' \in [Doc -> Index!Row \cup {None}]
      /\ \A d \in Doc : i_rows'[d] # None => i_rows'[d].text \in Content \ Broken
      /\ StoredOK' /\ CompleteIsCurrent'
      /\ \A d \in Doc : Index!AsFile(d) /\ d # i_doc => Index!AsFile(d)'
      /\ \A d \in Doc \ i_touched : d = i_doc => Index!AsFile(d)'
  BY <1>1, <1>2, DraftStored
<1>4. Index!TypeOK'
  BY <1>1, <1>3 DEF IndexOK, Index!TypeOK
<1>5. DraftOK'
  BY <1>1 DEF DraftOK
<1>6. PassOK'
  BY <1>1, <1>3 DEF IndexOK, PassOK, Index!TypeOK
<1> QED BY <1>3, <1>4, <1>5, <1>6 DEF IndexOK

LEMMA DocFailedKeeps == IndexOK /\ Index!DocFailed => IndexOK'
<1> SUFFICES ASSUME IndexOK, Index!DocFailed PROVE IndexOK'
  OBVIOUS
<1>1. /\ i_pc = "failed" /\ i_pc' = "pass" /\ i_doc' = None /\ i_draft' = None
      /\ i_failures' = TRUE
      /\ UNCHANGED <<i_rows, i_status, i_present, i_todo>>
      /\ UNCHANGED <<i_files, i_changes, i_torn, i_touched>>
  BY DEF Index!DocFailed, Index!NextDoc, Index!stored, Index!world
<1>2. Index!TypeOK'
  BY <1>1 DEF IndexOK, Index!TypeOK
<1>3. StoredOK' /\ CompleteIsCurrent'
  BY <1>1, NothingStored
<1>4. DraftOK' /\ PassOK'
  BY <1>1 DEF IndexOK, DraftOK, PassOK
<1> QED BY <1>2, <1>3, <1>4 DEF IndexOK

(* The pass ends: what is not among its documents has no file.             *)
LEMMA EndOfPassKeeps == IndexOK /\ Index!Finish => IndexOK'
<1> SUFFICES ASSUME IndexOK, Index!Finish PROVE IndexOK'
  OBVIOUS
<1>1. /\ i_pc = "pass" /\ i_todo = {} /\ i_pc' = "sleep" /\ i_present' = {}
      /\ i_rows' = [d \in Doc |-> IF d \in i_present THEN i_rows[d] ELSE None]
      /\ i_status' = IF i_failures THEN "partial" ELSE "complete"
      /\ UNCHANGED <<i_todo, i_doc, i_draft, i_failures>>
      /\ UNCHANGED <<i_files, i_changes, i_torn, i_touched>>
  BY DEF Index!Finish, Index!OnlyPresent, Index!world
<1>2. /\ i_rows' \in [Doc -> Index!Row \cup {None}]
      /\ \A d \in Doc : i_rows'[d] = IF d \in i_present THEN i_rows[d] ELSE None
  BY <1>1 DEF IndexOK, Index!TypeOK
<1>3. Index!TypeOK'
  BY <1>1, <1>2 DEF IndexOK, Index!TypeOK
<1>4. StoredOK'
  BY <1>1, <1>2 DEF IndexOK, StoredOK
<1>5. DraftOK' /\ PassOK'
  BY <1>1 DEF DraftOK, PassOK
<1>6. CompleteIsCurrent'
  <2> SUFFICES ASSUME ~i_failures, NEW d \in Doc \ i_touched PROVE Index!AsFile(d)'
    BY <1>1 DEF CompleteIsCurrent, Index!CompleteIsCurrent
  <2>1. i_doc = None /\ d # None
    BY <1>1, IndexAssumption DEF IndexOK, Index!TypeOK
  <2>2. CASE d \in i_present
    <3>1. Index!AsFile(d)
      BY <1>1, <2>1, <2>2 DEF IndexOK, PassOK
    <3> QED BY <1>1, <1>2, <2>2, <3>1 DEF Index!AsFile
  <2>3. CASE d \notin i_present
    <3>1. i_files[d] = None
      BY <1>1, <2>3 DEF IndexOK, PassOK
    <3> QED BY <1>1, <1>2, <2>3, <3>1 DEF Index!AsFile
  <2> QED BY <2>2, <2>3
<1> QED BY <1>3, <1>4, <1>5, <1>6 DEF IndexOK

LEMMA BreaksKeeps == IndexOK /\ Index!Breaks => IndexOK'
<1> SUFFICES ASSUME IndexOK, Index!Breaks PROVE IndexOK'
  OBVIOUS
<1>1. /\ i_pc' = "sleep" /\ i_present' = {} /\ i_todo' = {} /\ i_doc' = None
      /\ i_draft' = None /\ i_failures' = FALSE
      /\ UNCHANGED <<i_rows, i_status, i_files, i_changes, i_torn, i_touched>>
  BY DEF Index!Breaks, Index!stored, Index!world
<1>2. Index!TypeOK'
  BY <1>1 DEF IndexOK, Index!TypeOK
<1>3. StoredOK' /\ CompleteIsCurrent'
  BY <1>1, NothingStored
<1>4. DraftOK' /\ PassOK'
  BY <1>1 DEF DraftOK, PassOK
<1> QED BY <1>2, <1>3, <1>4 DEF IndexOK

LEMMA IndexNext == IndexOK /\ [Index!Next]_(Index!vars) => IndexOK'
<1> SUFFICES ASSUME IndexOK, [Index!Next]_(Index!vars) PROVE IndexOK'
  OBVIOUS
<1>1. CASE Index!Work
  BY <1>1, StartPassKeeps, LookKeeps, ReadingKeeps, EmbedKeeps, CommitKeeps,
     DocFailedKeeps, EndOfPassKeeps DEF Index!Work
<1>2. CASE UNCHANGED Index!vars
  <2>1. UNCHANGED <<i_rows, i_status, i_pc, i_present, i_todo, i_doc, i_draft, i_failures,
                    i_files, i_changes, i_torn, i_touched>>
    BY <1>2 DEF Index!vars, Index!stored, Index!memory, Index!world
  <2>2. Index!TypeOK'
    BY <2>1 DEF IndexOK, Index!TypeOK
  <2>3. StoredOK' /\ CompleteIsCurrent' /\ \A d \in Doc : Index!AsFile(d)' <=> Index!AsFile(d)
    BY <2>1, NothingStored
  <2>4. DraftOK' /\ PassOK'
    BY <2>1, <2>3 DEF IndexOK, DraftOK, PassOK, Index!TypeOK
  <2> QED BY <2>2, <2>3, <2>4 DEF IndexOK
<1> QED BY <1>1, <1>2, BreaksKeeps, ChangeKeeps DEF Index!Next

LEMMA IndexInvariant == Index!Spec => []IndexOK
BY IndexBegins, IndexNext, PTL DEF Index!Spec

(* A library is called complete (run_index) only when, but for documents   *)
(* that changed since the pass began, what is stored is of the version its *)
(* file has, all of it unless that has pages without text, and nothing of  *)
(* files that are gone: for any documents, contents, batches and changes,  *)
(* whatever failed or died in this pass or the ones before.                *)
THEOREM CompleteLibraries == Index!Spec => []CompleteIsCurrent
<1>1. IndexOK => CompleteIsCurrent
  BY DEF IndexOK
<1> QED BY <1>1, IndexInvariant, PTL

-----------------------------------------------------------------------------
(* The workers side by side (MCWorkers).  One of them moves, and each      *)
(* behaves as it does alone.                                               *)
LEMMA WorkersFollow == WorkersSpec => Spec /\ Scribe!Spec /\ Index!Spec
<1>1. WorkersInit => Init /\ Scribe!Init /\ Index!Init
  BY DEF WorkersInit
<1> DEFINE all == <<part, vars, transcriber, indexer>>
<1> USE DEF WorkersNext, Collecting, Transcribing, Indexing
<1>2. [WorkersNext]_all => [Next]_vars
  OBVIOUS
<1>3. [WorkersNext]_all => [Scribe!Next]_(Scribe!vars)
  BY DEF transcriber, Scribe!vars, Scribe!queue, Scribe!memory
<1>4. [WorkersNext]_all => [Index!Next]_(Index!vars)
  BY DEF indexer, Index!vars, Index!stored, Index!memory, Index!world
<1> HIDE DEF WorkersNext
<1> QED BY <1>1, <1>2, <1>3, <1>4, PTL DEF WorkersSpec, Spec, Scribe!Spec, Index!Spec

(* Each of them keeps to its types, whatever its constants are.            *)
THEOREM AllTypesCorrect == WorkersSpec => []AllTypesOK
<1>1. IndexOK => Index!TypeOK
  BY DEF IndexOK
<1> QED BY <1>1, WorkersFollow, TypeCorrect, TranscriberTypes, IndexInvariant,
           PTL DEF AllTypesOK
=============================================================================
