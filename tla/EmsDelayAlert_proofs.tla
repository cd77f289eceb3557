------------------------ MODULE EmsDelayAlert_proofs ------------------------
(***************************************************************************)
(* Proofs about EmsDelayAlert: for any calls and any settings, whatever    *)
(* the CAD does meanwhile and wherever the worker dies, pages keep their   *)
(* distance, an evaluation that comes to its end has forgotten no call,    *)
(* and it leaves just the alerts of waiting calls open.  At the end, the   *)
(* types of the alerts and the pages side by side.                         *)
(***************************************************************************)
EXTENDS MCAlerts, PageParts_proofs, FiniteSetTheorems, TLAPS

IsOpen(c) == row[c].status \in Open

(* The call being paged about is one the evaluation reads as waiting, its  *)
(* alert is open, and its time had come; a page sent is not yet recorded.  *)
TurnOK ==
  /\ turn = {} \/ \E c \in Call : turn = {c}
  /\ \A c \in turn :
       /\ Waits(c) /\ IsOpen(c)
       /\ pc = "page" =>
            at >= Eligible(c) /\ (row[c].next # NoTime => at >= row[c].next)
       /\ pc = "record" => paged[c] = at /\ ~broken[c] /\ ~unheard[c]

(* The call whose page is sent and not recorded. *)
Unrecorded(c) == pc = "record" /\ c \in turn

(* A row in state "live" was paged about, and its next page is at most     *)
(* Repeat away.  As long as nothing broke, it is also at least Repeat away *)
(* from the last page, or Retry when nobody heard of that.                 *)
RowsOK ==
  \A c \in Call :
    /\ row[c].status = "live" =>
         /\ paged[c] # NoTime /\ row[c].next # NoTime
         /\ row[c].next <= paged[c] + Repeat
    /\ paged[c] # NoTime /\ ~broken[c] /\ ~Unrecorded(c) =>
         /\ IsOpen(c) /\ row[c].next # NoTime
         /\ row[c].next >= paged[c] + Distance(c)

Attended(c) ==
  \/ paged[c] # NoTime /\ at - paged[c] < Repeat
  \/ row[c].status \in {"waiting", "error"} /\ row[c].next # NoTime /\ at < row[c].next

(* What the evaluation did for the calls it has been through. *)
DoneOK ==
  pc # "idle" =>
    \A c \in Call \ todo :
      /\ read[c] = Responding => ~IsOpen(c)
      /\ Waits(c) => IsOpen(c)
      /\ Due(c) /\ c \notin turn => Attended(c)

IInv == TypeOK /\ TurnOK /\ RowsOK /\ DoneOK
-----------------------------------------------------------------------------
(* What the types say of times. *)
LEMMA Times ==
  ASSUME TypeOK, NEW c \in Call
  PROVE  /\ now \in Nat /\ at \in Nat /\ at <= now /\ now <= MaxTime
         /\ Waits(c) => read[c] \in 0..MaxTime /\ read[c] \in Nat
         /\ Eligible(c) = read[c] + Threshold
         /\ row[c].next # NoTime => row[c].next \in Nat
         /\ paged[c] # NoTime => paged[c] \in Nat
         /\ NoTime \notin Int
         /\ Absent \notin Int /\ Responding \notin Int /\ Absent # Responding
         /\ Threshold \in Nat /\ Repeat \in Nat /\ Repeat > 0
         /\ Retry \in Nat /\ Retry > 0 /\ MaxTime \in Nat
<1> USE ConstantsAssumption
<1>1. row[c].next \in Time \cup {NoTime} /\ paged[c] \in 0..now \cup {NoTime}
  BY DEF TypeOK
<1>2. read[c] \in (0..MaxTime) \cup {Absent, Responding}
  BY DEF TypeOK, Reading
<1>3. now \in 0..MaxTime /\ at \in 0..now
  BY DEF TypeOK
<1> QED BY <1>1, <1>2, <1>3 DEF Waits, Eligible, Time

LEMMA Empty == Cardinality({}) = 0 /\ \A c : Cardinality({c}) = 1
BY FS_EmptySet, FS_Singleton

LEMMA InitHolds == Init => IInv
<1> SUFFICES ASSUME Init PROVE IInv
  OBVIOUS
<1> USE ConstantsAssumption DEF Init
<1>1. TypeOK
  BY Empty DEF TypeOK, NoRow, Nobody, Reading, Time, Open
<1>2. TurnOK /\ RowsOK /\ DoneOK
  BY DEF TurnOK, RowsOK, DoneOK, NoRow
<1> QED BY <1>1, <1>2 DEF IInv

-----------------------------------------------------------------------------
(* The CAD and the clock change nothing the worker relies on. *)
LEMMA OutsideKeeps ==
  ASSUME IInv, UNCHANGED <<row, worker, history>>, TypeOK'
  PROVE  IInv'
<1> USE DEF IInv, worker, history
<1>1. TurnOK' BY DEF TurnOK, Waits, Eligible, IsOpen
<1>2. RowsOK' BY DEF RowsOK, IsOpen, Unrecorded, Distance
<1>3. DoneOK' BY DEF DoneOK, IsOpen, Waits, Due, Eligible, Attended
<1> QED BY <1>1, <1>2, <1>3

LEMMA TickKeeps == IInv /\ Tick => IInv'
<1> SUFFICES ASSUME IInv, Tick PROVE TypeOK'
  BY OutsideKeeps DEF Tick
<1> QED BY ConstantsAssumption DEF IInv, Tick, TypeOK, worker, history

LEMMA EnterKeeps ==
  ASSUME IInv, NEW c \in Call, Enter(c)
  PROVE  IInv'
<1> SUFFICES TypeOK'
  BY OutsideKeeps DEF Enter
<1>1. now..MaxTime \subseteq 0..MaxTime
  BY ConstantsAssumption DEF IInv, TypeOK
<1>2. PICK t \in 0..MaxTime : ref' = [ref EXCEPT ![c] = t]
  BY <1>1, ConstantsAssumption DEF Enter, IInv, TypeOK
<1>3. ref' \in [Call -> 0..MaxTime \cup {NoTime}] /\ ref'[c] # NoTime
      /\ \A d \in Call \ {c} : ref'[d] = ref[d]
  BY <1>2, ConstantsAssumption DEF IInv, TypeOK
<1> QED BY <1>3 DEF IInv, Enter, TypeOK, worker, history

LEMMA RescheduleKeeps ==
  ASSUME IInv, NEW c \in Call, Reschedule(c)
  PROVE  IInv'
<1> SUFFICES TypeOK'
  BY OutsideKeeps DEF Reschedule
<1>1. PICK t \in 0..MaxTime : ref' = [ref EXCEPT ![c] = t]
  BY DEF Reschedule
<1>2. t # NoTime
  BY ConstantsAssumption
<1>3. ref' \in [Call -> 0..MaxTime \cup {NoTime}]
  BY <1>1 DEF IInv, TypeOK
<1>4. \A d \in Call : ref[d] # NoTime => ref'[d] # NoTime
  BY <1>1, <1>2 DEF IInv, TypeOK
<1> QED BY <1>3, <1>4 DEF IInv, Reschedule, TypeOK, worker, history

LEMMA ProgressKeeps ==
  ASSUME IInv, NEW c \in Call, Progress(c)
  PROVE  IInv'
<1> SUFFICES TypeOK'
  BY OutsideKeeps DEF Progress
<1> QED BY DEF IInv, Progress, TypeOK, worker, history

-----------------------------------------------------------------------------
(* The worker. *)

LEMMA StartKeeps == IInv /\ Start => IInv'
<1> SUFFICES ASSUME IInv, Start PROVE IInv'
  OBVIOUS
<1> USE DEF IInv, Start, outside, history
<1>1. /\ turn = {} /\ turn' = {}
      /\ \A c \in Call : c \notin todo' => cad[c] = Absent
  BY DEF TypeOK
<1>2. \A c \in Call :
        /\ read'[c] = IF cad[c] = Waiting THEN ref[c] ELSE cad[c]
        /\ cad[c] = Waiting => ref[c] \in 0..MaxTime
        /\ cad[c] \in {Absent, Waiting, Responding}
  BY DEF TypeOK
<1>3. TypeOK'
  <2>1. read' \in [Call -> Reading]
    BY <1>2 DEF Reading
  <2>2. todo' \subseteq {c \in Call : read'[c] # Absent}
    BY <1>2, ConstantsAssumption
  <2>3. now \in Nat /\ at' \in 0..now
    BY ConstantsAssumption DEF TypeOK
  <2> QED BY <1>1, <2>1, <2>2, <2>3 DEF TypeOK
<1>4. TurnOK'
  BY <1>1 DEF TurnOK
<1>5. RowsOK'
  BY <1>1 DEF RowsOK, IsOpen, Unrecorded, Distance
<1>6. DoneOK'
  BY <1>1, <1>2, ConstantsAssumption DEF DoneOK, Waits, Due
<1> QED BY <1>3, <1>4, <1>5, <1>6

(* Resolving calls that are not being paged about. *)
LEMMA ResolveKeeps ==
  ASSUME IInv, NEW S \in SUBSET Call, Resolve(S)
  PROVE  /\ row' \in [Call -> [status : Open \cup {"none", "resolved"},
                               next : Time \cup {NoTime}]]
         /\ \A c \in Call : row'[c].status = "resolved" => row'[c].next = NoTime
         /\ broken' \in [Call -> BOOLEAN] /\ paged' = paged /\ unheard' = unheard
         /\ \A c \in Call \ S : row'[c] = row[c] /\ broken'[c] = broken[c]
         /\ \A c \in S : row'[c].status \notin Open
         /\ turn = {} => RowsOK'
<1> USE DEF IInv, Resolve, Resolved
<1>1. row' \in [Call -> [status : Open \cup {"none", "resolved"},
                         next : Time \cup {NoTime}]]
  BY DEF TypeOK, Open
<1>2. broken' \in [Call -> BOOLEAN] /\ paged' = paged /\ unheard' = unheard
  BY DEF TypeOK
<1>3. \A c \in Call :
        IF c \in S /\ row[c].status \in Open
        THEN row'[c].status = "resolved" /\ row'[c].next = NoTime /\ broken'[c]
        ELSE row'[c] = row[c] /\ (broken[c] => broken'[c])
             /\ (c \notin S => broken'[c] = broken[c])
  BY DEF TypeOK
<1>4. \A c \in Call : row'[c].status = "resolved" => row'[c].next = NoTime
  BY <1>3 DEF TypeOK
<1>5. turn = {} => RowsOK'
  BY <1>2, <1>3 DEF RowsOK, IsOpen, Unrecorded, Open, Distance
<1> QED BY <1>1, <1>2, <1>3, <1>4, <1>5 DEF Open

LEMMA AnsweredKeeps ==
  ASSUME IInv, NEW c \in Call, Answered(c)
  PROVE  IInv'
<1> USE DEF IInv, Answered, outside
<1>1. turn = {} /\ turn' = {} /\ pc' = "calls"
  BY DEF TypeOK
<1>2. TypeOK'
  BY ResolveKeeps DEF TypeOK
<1>3. TurnOK'
  BY <1>1 DEF TurnOK
<1>4. DoneOK'
  BY <1>1, ResolveKeeps DEF DoneOK, IsOpen, Waits, Due, Eligible, Attended
<1> QED BY <1>1, <1>2, <1>3, <1>4, ResolveKeeps

LEMMA ObserveKeeps ==
  ASSUME IInv, NEW c \in Call, Observe(c)
  PROVE  IInv'
<1> USE DEF IInv, Observe, outside, history
<1>1. turn = {}
  BY DEF TypeOK
<1>2. /\ row'[c].status = IF row[c].status \in Open THEN row[c].status ELSE "waiting"
      /\ row'[c].next = IF row[c] = NoRow THEN Eligible(c) ELSE row[c].next
      /\ \A d \in Call \ {c} : row'[d] = row[d]
      /\ row'[c].status \in Open
  BY DEF TypeOK, Observed, Open
<1>3. Eligible(c) \in Time
  BY Times, ConstantsAssumption DEF Time
<1>4. TypeOK'
  <2>1. row' \in [Call -> [status : Open \cup {"none", "resolved"},
                           next : Time \cup {NoTime}]]
    BY <1>3 DEF TypeOK, Observed, Open
  <2>2. \A d \in Call : row'[d].status = "resolved" => row'[d].next = NoTime
    BY <1>2 DEF TypeOK, Open
  <2>3. turn' \subseteq Call /\ Cardinality(turn') <= 1
        /\ (pc' \in {"page", "record"} <=> turn' # {})
        /\ pc' \in {"idle", "calls", "page", "record"}
    <3>1. (turn' = {} /\ pc' = "calls") \/ (turn' = {c} /\ pc' = "page")
      BY <1>1 DEF ToPage
    <3>2. CASE turn' = {} /\ pc' = "calls"
      BY <3>2, Empty
    <3>3. CASE turn' = {c} /\ pc' = "page"
      <4>1. Cardinality(turn') = 1 /\ turn' # {} /\ turn' \subseteq Call
        BY <3>3, Empty
      <4> QED BY <3>3, <4>1
    <3> QED BY <3>1, <3>2, <3>3
  <2> QED BY <2>1, <2>2, <2>3 DEF TypeOK
<1>5. TurnOK'
  <2>1. turn' = {} \/ (turn' = {c} /\ pc' = "page" /\ ToPage(c))
    BY <1>1
  <2> QED BY <1>2, <2>1 DEF TurnOK, ToPage, Waits, Eligible, IsOpen
<1>6. RowsOK'
  <2>1. \A d \in Call : Unrecorded(d)' <=> FALSE
    BY <1>1 DEF Unrecorded
  <2>2. \A d \in Call : ~Unrecorded(d)
    BY <1>1 DEF Unrecorded
  <2>3. row[c] = NoRow => ~IsOpen(c)
    BY DEF IsOpen, NoRow, Open
  <2> QED BY <1>2, <2>1, <2>2, <2>3 DEF RowsOK, IsOpen, Open, Distance
<1>7. DoneOK'
  <2> SUFFICES ASSUME NEW d \in Call \ todo'
               PROVE  /\ read[d] = Responding => ~IsOpen(d)'
                      /\ Waits(d) => IsOpen(d)'
                      /\ Due(d) /\ d \notin turn' => Attended(d)'
    BY DEF DoneOK, Waits, Due, Eligible
  <2>1. CASE d # c
    BY <1>1, <1>2, <2>1 DEF DoneOK, IsOpen, Attended
  <2>2. CASE d = c
    <3>1. read[c] # Responding /\ IsOpen(c)'
      BY <1>2 DEF Waits, IsOpen
    <3>2. ASSUME Due(c), c \notin turn' PROVE Attended(c)'
      <4>1. row'[c].next # NoTime /\ ~(at >= row'[c].next)
        BY <1>1, <3>2 DEF Due, ToPage
      <4>2. row'[c].next \in Nat /\ at \in Nat
        BY <1>4, <4>1, Times DEF TypeOK, Time
      <4>3. CASE row'[c].status \in {"waiting", "error"}
        BY <4>1, <4>2, <4>3 DEF Attended
      <4>4. CASE row'[c].status = "live"
        <5>1. row[c].status = "live" /\ row'[c].next = row[c].next
          BY <1>2, <4>4 DEF NoRow
        <5>2. paged[c] # NoTime /\ row[c].next <= paged[c] + Repeat
          BY <5>1 DEF RowsOK
        <5> QED BY <4>1, <4>2, <5>1, <5>2, Times DEF Attended
      <4> QED BY <1>2, <4>3, <4>4 DEF Open
    <3> QED BY <2>2, <3>1, <3>2
  <2> QED BY <2>1, <2>2
<1> QED BY <1>4, <1>5, <1>6, <1>7

LEMMA PageKeeps ==
  ASSUME IInv, NEW c \in Call, Page(c)
  PROVE  IInv'
<1> USE DEF IInv, Page, outside
<1>1. turn = {c} /\ turn' = {c}
  BY DEF TurnOK
<1>2. TypeOK'
  <2>1. at \in 0..now
    BY DEF TypeOK
  <2> QED BY <2>1 DEF TypeOK
<1>3. /\ paged'[c] = at /\ ~broken'[c] /\ ~unheard'[c]
      /\ \A d \in Call \ {c} :
           paged'[d] = paged[d] /\ broken'[d] = broken[d] /\ unheard'[d] = unheard[d]
  BY DEF TypeOK
<1>4. TurnOK'
  BY <1>1, <1>3 DEF TurnOK, Waits, IsOpen, Eligible
<1>5. RowsOK'
  <2>1. row[c].status = "live" =>
          row[c].next # NoTime /\ row[c].next <= at + Repeat /\ at # NoTime
    BY <1>1, Times DEF TurnOK, RowsOK
  <2> QED BY <1>1, <1>3, <2>1 DEF RowsOK, IsOpen, Unrecorded, Distance
<1>6. DoneOK'
  BY <1>1, <1>3 DEF DoneOK, IsOpen, Waits, Due, Eligible, Attended
<1> QED BY <1>2, <1>4, <1>5, <1>6

LEMMA RecordDeliveryKeeps ==
  ASSUME IInv, NEW c \in Call, RecordDelivery(c)
  PROVE  IInv'
<1> USE DEF IInv, RecordDelivery, outside, history
<1>1. turn = {c} /\ Waits(c) /\ paged[c] = at /\ ~broken[c] /\ ~unheard[c] /\ at # NoTime
  BY Times DEF TurnOK
<1>2. /\ row'[c].status = "live" /\ row'[c].next = at + Repeat
      /\ \A d \in Call \ {c} : row'[d] = row[d]
  BY DEF TypeOK
<1>3. at + Repeat \in Time /\ at + Repeat # NoTime
  BY Times, ConstantsAssumption DEF Time
<1>4. TypeOK'
  <2>1. row' \in [Call -> [status : Open \cup {"none", "resolved"},
                           next : Time \cup {NoTime}]]
    BY <1>3 DEF TypeOK, Open
  <2> QED BY <1>2, <2>1, Empty DEF TypeOK
<1>5. TurnOK'
  BY DEF TurnOK
<1>6. RowsOK'
  BY <1>1, <1>2, <1>3, Times DEF RowsOK, IsOpen, Unrecorded, Open, Distance
<1>7. DoneOK'
  BY <1>1, <1>2, Times DEF DoneOK, IsOpen, Waits, Due, Eligible, Attended, Open
<1> QED BY <1>4, <1>5, <1>6, <1>7

LEMMA RecordIssueKeeps ==
  ASSUME IInv, NEW c \in Call, RecordIssue(c)
  PROVE  IInv'
<1> USE DEF IInv, RecordIssue, outside
<1>1. turn = {c} /\ Waits(c)
  BY DEF TurnOK
<1>2. /\ row'[c].status = "error" /\ row'[c].next = at + Retry
      /\ \A d \in Call \ {c} : row'[d] = row[d] /\ unheard'[d] = unheard[d]
      /\ unheard'[c] = (unheard[c] \/ pc = "record")
  BY DEF TypeOK, NotSent
<1>3. at + Retry \in Time /\ at + Retry # NoTime
  BY Times, ConstantsAssumption DEF Time
<1>4. TypeOK'
  <2>1. row' \in [Call -> [status : Open \cup {"none", "resolved"},
                           next : Time \cup {NoTime}]]
    BY <1>3 DEF TypeOK, Open, NotSent
  <2> QED BY <1>2, <2>1, Empty DEF TypeOK
<1>5. TurnOK'
  BY DEF TurnOK
<1>6. RowsOK'
  <2>1. ASSUME paged[c] # NoTime, ~broken[c]
        PROVE  row'[c].next >= paged[c] + Distance(c)'
    <3>1. CASE pc = "record"
      <4>1. paged[c] = at /\ unheard'[c]
        BY <1>1, <1>2, <3>1 DEF TurnOK
      <4>2. Distance(c)' = Retry
        BY <4>1 DEF Distance
      <4>3. paged[c] + Retry \in Int
        BY <4>1, Times, ConstantsAssumption
      <4> QED BY <1>2, <4>1, <4>2, <4>3
    <3>2. CASE pc = "page"
      <4>1. row[c].next # NoTime /\ row[c].next >= paged[c] + Distance(c)
        BY <2>1, <3>2 DEF RowsOK, Unrecorded
      <4>2. at >= row[c].next /\ Distance(c)' = Distance(c)
        BY <1>1, <1>2, <3>2, <4>1 DEF TurnOK, Distance
      <4>3. Distance(c) \in Nat
        BY ConstantsAssumption DEF Distance
      <4> QED BY <1>1, <1>2, <2>1, <4>1, <4>2, <4>3, Times, ConstantsAssumption
    <3> QED BY <3>1, <3>2
  <2>2. paged' = paged /\ broken' = broken /\ turn' = {}
    OBVIOUS
  <2>3. \A d \in Call \ {c} :
          /\ Distance(d)' = Distance(d) /\ IsOpen(d)' = IsOpen(d)
          /\ ~Unrecorded(d) /\ ~Unrecorded(d)'
    BY <1>1, <1>2, <2>2 DEF Distance, IsOpen, Unrecorded
  <2> QED BY <1>1, <1>2, <1>3, <2>1, <2>2, <2>3 DEF RowsOK, IsOpen, Open
<1>7. DoneOK'
  BY <1>1, <1>2, <1>3, Times DEF DoneOK, IsOpen, Waits, Due, Eligible, Attended, Open
<1> QED BY <1>4, <1>5, <1>6, <1>7

(* Forgetting what an evaluation read. *)
LEMMA ForgetTypes ==
  ASSUME Forget
  PROVE  /\ pc' = "idle" /\ at' = 0 /\ todo' = {} /\ turn' = {}
         /\ read' \in [Call -> Reading] /\ Cardinality(turn') <= 1
         /\ todo' \subseteq {c \in Call : read'[c] # Absent}
BY Empty DEF Forget, Nobody, Reading

LEMMA FinishKeeps == IInv /\ Finish => IInv'
<1> SUFFICES ASSUME IInv, Finish PROVE IInv'
  OBVIOUS
<1> USE DEF IInv, Finish, outside
<1>1. turn = {} /\ Missing \in SUBSET Call
  BY DEF TypeOK, Missing
<1>2. now \in Nat
  BY ConstantsAssumption DEF TypeOK
<1>3. TypeOK'
  BY <1>1, <1>2, ResolveKeeps, ForgetTypes DEF TypeOK
<1>4. TurnOK' /\ DoneOK'
  BY ForgetTypes DEF TurnOK, DoneOK
<1> QED BY <1>1, <1>3, <1>4, ResolveKeeps

LEMMA DieKeeps == IInv /\ Die => IInv'
<1> SUFFICES ASSUME IInv, Die PROVE IInv'
  OBVIOUS
<1> USE DEF IInv, Die, outside
<1>1. now \in Nat
  BY ConstantsAssumption DEF TypeOK
<1>2. broken' \in [Call -> BOOLEAN]
      /\ \A c \in Call : broken'[c] = (broken[c] \/ Unrecorded(c))
  BY DEF TypeOK, Unrecorded
<1>3. TypeOK'
  BY <1>1, <1>2, ForgetTypes DEF TypeOK
<1>4. TurnOK' /\ DoneOK'
  BY ForgetTypes DEF TurnOK, DoneOK
<1>5. RowsOK'
  BY <1>2 DEF RowsOK, IsOpen, Distance
<1> QED BY <1>3, <1>4, <1>5

-----------------------------------------------------------------------------
LEMMA NextKeeps == IInv /\ [Next]_vars => IInv'
<1> SUFFICES ASSUME IInv, [Next]_vars PROVE IInv'
  OBVIOUS
<1>1. CASE UNCHANGED vars
  BY <1>1 DEF IInv, TypeOK, TurnOK, RowsOK, DoneOK, IsOpen, Unrecorded, Attended,
     Waits, Due, Eligible, Distance, vars, outside, worker, history
<1>2. CASE Tick \/ Start \/ Finish \/ Die
  BY <1>2, TickKeeps, StartKeeps, FinishKeeps, DieKeeps
<1>3. ASSUME NEW c \in Call,
             Enter(c) \/ Reschedule(c) \/ Progress(c)
      PROVE  IInv'
  BY <1>3, EnterKeeps, RescheduleKeeps, ProgressKeeps
<1>4. ASSUME NEW c \in Call,
             Answered(c) \/ Observe(c) \/ Page(c) \/ RecordDelivery(c) \/ RecordIssue(c)
      PROVE  IInv'
  BY <1>4, AnsweredKeeps, ObserveKeeps, PageKeeps, RecordDeliveryKeeps,
     RecordIssueKeeps
<1> QED BY <1>1, <1>2, <1>3, <1>4 DEF Next

LEMMA Invariant == Spec => []IInv
BY InitHolds, NextKeeps, PTL DEF Spec

(* Variables keep their types, for any calls and intervals. *)
THEOREM TypeCorrect == Spec => []TypeOK
<1>1. IInv => TypeOK
  BY DEF IInv
<1> QED BY <1>1, Invariant, PTL

(* A call an ended evaluation read as due was paged about less than Repeat *)
(* ago, or has an attempt or a first page planned (evaluate_ems_delay_     *)
(* alerts), whatever failed or died before.                                *)
THEOREM NoCallForgotten == Spec => []NobodyForgotten
<1>1. IInv => NobodyForgotten
  <2> SUFFICES ASSUME IInv, pc = "calls", todo = {}, NEW c \in Call, Due(c)
               PROVE  Attended(c)
    BY DEF NobodyForgotten, Attended
  <2>1. turn = {}
    BY DEF IInv, TypeOK
  <2> QED BY <2>1 DEF IInv, DoneOK
<1> QED BY <1>1, Invariant, PTL

(* Two pages about a call are Repeat apart, through failed attempts and    *)
(* reschedules, or Retry when the answer to the first was lost, unless its *)
(* alert was resolved or the worker died between page and record           *)
(* (record_live_delivery, record_delivery_issue).                          *)
THEOREM PagesSpaced == Spec => RepeatsSpaced
<1>1. ASSUME IInv, [Next]_vars
      PROVE  [\A c \in Call :
                pc = "page" /\ pc' = "record" /\ c \in turn
                => paged[c] = NoTime \/ broken[c] \/ at - paged[c] >= Distance(c)]_vars
  <2> SUFFICES ASSUME NEW c \in Call, pc = "page", c \in turn,
                      paged[c] # NoTime, ~broken[c]
               PROVE  at - paged[c] >= Distance(c)
    OBVIOUS
  <2>1. row[c].next # NoTime /\ row[c].next >= paged[c] + Distance(c)
    BY <1>1 DEF IInv, RowsOK, Unrecorded
  <2>2. at >= row[c].next
    BY <1>1, <2>1 DEF IInv, TurnOK
  <2>3. Distance(c) \in Nat
    BY ConstantsAssumption DEF Distance
  <2> QED BY <2>1, <2>2, <2>3, <1>1, Times DEF IInv
<1> QED BY <1>1, Invariant, PTL DEF Spec, RepeatsSpaced

(* An evaluation that comes to its end leaves the alerts of just those     *)
(* calls open that it read as waiting (resolve_missing_alerts).            *)
THEOREM RunsSettle == Spec => SettledAfterRun
<1>1. ASSUME IInv, [Next]_vars
      PROVE  [Finish => {c \in Call : row'[c].status \in Open}
                        = {c \in Call : Waits(c)}]_vars
  <2> SUFFICES ASSUME Finish, NEW c \in Call
               PROVE  row'[c].status \in Open <=> Waits(c)
    OBVIOUS
  <2>1. Missing \in SUBSET Call /\ Resolve(Missing)
    BY DEF Missing, Finish
  <2>2. CASE c \in Missing
    BY <1>1, <2>1, <2>2, ResolveKeeps DEF Missing, Waits
  <2>3. CASE c \notin Missing
    <3>1. row'[c] = row[c] /\ read[c] # Absent
      BY <1>1, <2>1, <2>3, ResolveKeeps DEF Missing
    <3>2. read[c] = Responding => ~IsOpen(c)
      BY <1>1 DEF IInv, DoneOK, Finish
    <3>3. Waits(c) => IsOpen(c)
      BY <1>1 DEF IInv, DoneOK, Finish
    <3> QED BY <3>1, <3>2, <3>3 DEF IsOpen, Waits
  <2> QED BY <2>2, <2>3
<1> QED BY <1>1, Invariant, PTL DEF Spec, SettledAfterRun

-----------------------------------------------------------------------------
(* The alerts and the pages side by side (MCAlerts).  One of them moves,   *)
(* and each behaves as it does alone.                                      *)
LEMMA AlertsFollow ==
  AlertsSpec =>
    /\ Spec /\ Station!Spec /\ Sound!Spec /\ Voice!Spec /\ Avatar!Spec /\ Scanner!Spec
    /\ Feed!Spec
<1>1. AlertsInit =>
        /\ Init /\ Station!Init /\ Sound!Init /\ Voice!Init /\ Avatar!Init
        /\ Scanner!Init /\ Feed!Init
  BY DEF AlertsInit
<1> USE DEF AlertsNext, all
<1>2. [AlertsNext]_all => [Next]_vars
  OBVIOUS
<1>3. [AlertsNext]_all => [Station!Next]_(Station!vars)
  BY DEF station, Station!vars, Station!world, Station!page, Station!polls
<1>4. [AlertsNext]_all => [Sound!Next]_(Sound!vars)
  BY DEF sound, Sound!vars
<1>5. [AlertsNext]_all => [Voice!Next]_(Voice!vars)
  BY DEF voice, Voice!vars, Voice!ears, Voice!voice, Voice!work
<1>6. [AlertsNext]_all => [Avatar!Next]_(Avatar!vars)
  BY DEF avatar, Avatar!vars, Avatar!ears, Avatar!talk
<1>7. [AlertsNext]_all => [Scanner!Next]_(Scanner!vars)
  BY DEF scanner, Scanner!vars, Scanner!tabs, Scanner!player, Scanner!scan
<1>8. [AlertsNext]_all => [Feed!Next]_(Feed!vars)
  BY DEF feed, Feed!vars, Feed!server, Feed!tab, Feed!asking, Feed!cards
<1> HIDE DEF AlertsNext, all
<1> QED BY <1>1, <1>2, <1>3, <1>4, <1>5, <1>6, <1>7, <1>8,
           PTL DEF AlertsSpec, Spec, Station!Spec, Sound!Spec, Voice!Spec, Avatar!Spec, Scanner!Spec,
                   Feed!Spec

(* Each of them keeps to its types, whatever its constants are.            *)
THEOREM AllTypesCorrect == AlertsSpec => []AllTypesOK
<1>1. SoundOK => Sound!TypeOK
  BY DEF SoundOK
<1>2. VoiceOK => Voice!TypeOK
  BY DEF VoiceOK
<1>3. ScannerOK => Scanner!TypeOK
  BY ScannerTypes
<1> QED BY <1>1, <1>2, <1>3, AlertsFollow, TypeCorrect, StationInvariant,
           SoundInvariant, VoiceInvariant, AvatarTypes, ScannerInvariant,
           FeedTypesHold,
           PTL DEF AllTypesOK
=============================================================================
