------------------------- MODULE RadioIngest_proofs -------------------------
(***************************************************************************)
(* Proofs about RadioIngest: with any number of segments, uploads and      *)
(* corrections under way, and any retention that keeps rows at least as    *)
(* long as audio, audio a row says it has is in S3, what a person          *)
(* corrected survives every purge, and each history is a chain.  At the    *)
(* end, the types of the server's parts side by side.                      *)
(***************************************************************************)
EXTENDS MCServices, ServerParts_proofs, SequenceTheorems, TLAPS

(* A handler that has put its wav, or moved it, did so today: no day ends  *)
(* while requests are under way, and the bucket keeps objects for one.     *)
RequestsOK ==
  /\ \A w \in Worker :
       /\ wpc[w] # "idle" => wseg[w] \in Segment
       /\ wpc[w] = "insert" => original[wseg[w]] = today
  /\ \A e \in Editor :
       /\ epc[e] # "idle" => eseg[e] \in Segment
       /\ epc[e] \in {"copy", "save", "saved", "evaluate"} => etext[e] \in Text
       /\ epc[e] \in {"save", "saved"} /\ copy[e] => copied[eseg[e]] = today

Holds(e) == epc[e] \in {"saved", "reverting"}

(* A row lock has one holder, and what the holder read is still so. *)
LocksOK ==
  /\ \A e \in Editor : Holds(e) =>
       /\ Stored(eseg[e])
       /\ prev[e] = Shown(row[eseg[e]].text)
  /\ \A e, f \in Editor : Holds(e) /\ Holds(f) /\ eseg[e] = eseg[f] => e = f

(* The object a row points to is no older than what the row counts from,   *)
(* or has served its time.                                                 *)
AudioOK(s) ==
  /\ row[s].received <= today
  /\ row[s].key = "original" =>
       \/ original[s] # NoDay /\ original[s] >= row[s].received
       \/ row[s].received + AudioDays <= today
  /\ row[s].key = "corrected" =>
       /\ keptOn[s] # NoDay /\ keptOn[s] <= today
       /\ \/ copied[s] # NoDay /\ copied[s] >= keptOn[s]
          \/ keptOn[s] + KeepDays <= today

(* A row with a recent correction is retained from it. *)
KeptOK(s) ==
  lastEdit[s] # NoDay /\ today <= lastEdit[s] + KeepDays =>
    /\ Stored(s) /\ history[s] # <<>>
    /\ row[s].retain # NoDay /\ row[s].retain >= lastEdit[s] + KeepDays

(* The text the i-th change of h starts from. *)
Before(h, i) == IF i = 1 THEN MachineText ELSE Shown(h[i - 1].new)

(* The changes of h follow one another and end in text. *)
Chain(h, text) ==
  /\ \A i \in DOMAIN h : h[i].previous = Before(h, i)
  /\ Shown(text) = Before(h, Len(h) + 1)

ChainOK(s) == Chain(history[s], row[s].text)

RowsOK ==
  \A s \in Segment :
    /\ Stored(s) => AudioOK(s) /\ ChainOK(s)
    /\ ~Stored(s) => history[s] = <<>>
    /\ KeptOK(s)

IInv == TypeOK /\ RequestsOK /\ LocksOK /\ RowsOK
-----------------------------------------------------------------------------
(* What the constants and types say. *)
LEMMA Days ==
  /\ AudioDays \in Nat /\ AudioDays > 0 /\ RowDays \in Nat /\ KeepDays \in Nat
  /\ AudioDays <= RowDays /\ RowDays <= KeepDays /\ KeepDays > 0
  /\ NoDay \notin Nat /\ NoText \notin Text /\ MachineText # NoText
  /\ NoRow \notin Row /\ NoSegment \notin Segment
BY ConstantsAssumption

LEMMA RowTypes ==
  ASSUME TypeOK, NEW s \in Segment
  PROVE  /\ today \in Nat
         /\ Stored(s) => /\ row[s] \in Row /\ row[s].received \in Nat
                         /\ row[s].key \in {"original", "corrected"}
                         /\ row[s].text \in Text \cup {NoText}
                         /\ row[s].retain # NoDay => row[s].retain \in Nat
         /\ original[s] # NoDay => original[s] \in Nat
         /\ copied[s] # NoDay => copied[s] \in Nat
         /\ lastEdit[s] # NoDay => lastEdit[s] \in Nat
         /\ keptOn[s] # NoDay => keptOn[s] \in Nat
         /\ history[s] \in Seq(Change)
<1>1. Stored(s) => row[s] \in Row
  BY DEF TypeOK, Stored
<1> QED BY <1>1 DEF TypeOK, Row, Day

LEMMA ShownTypes ==
  ASSUME NEW t \in Text \cup {NoText}
  PROVE  Shown(t) \in Text \cup {MachineText}
BY DEF Shown

(* A change that starts from where the chain ends makes it longer by one. *)
LEMMA ChainGrows ==
  ASSUME NEW h \in Seq(Change), NEW c \in Change, NEW text, Chain(h, text),
         c.previous = Shown(text)
  PROVE  /\ Append(h, c) \in Seq(Change) /\ Append(h, c) # <<>> /\ Append(h, c) # h
         /\ Chain(Append(h, c), c.new)
<1> DEFINE g == Append(h, c)
<1>1. /\ g \in Seq(Change) /\ Len(g) = Len(h) + 1 /\ Len(h) \in Nat
      /\ DOMAIN g = 1..(Len(h) + 1) /\ DOMAIN h = 1..Len(h)
      /\ g[Len(h) + 1] = c /\ \A i \in 1..Len(h) : g[i] = h[i]
  BY AppendProperties, LenProperties
<1> HIDE DEF g
<1>2. g # h /\ g # <<>>
  BY <1>1
<1>3. \A i \in 1..(Len(h) + 1) : Before(g, i) = Before(h, i)
  BY <1>1 DEF Before
<1>4. \A i \in DOMAIN g : g[i].previous = Before(g, i)
  BY <1>1, <1>3 DEF Chain
<1>5. Before(g, Len(g) + 1) = Shown(c.new)
  BY <1>1 DEF Before
<1>6. Chain(g, c.new)
  BY <1>4, <1>5 DEF Chain
<1> QED BY <1>1, <1>2, <1>6 DEF g

LEMMA InitHolds == Init => IInv
<1> SUFFICES ASSUME Init PROVE IInv
  OBVIOUS
<1> USE Days DEF Init
<1>1. TypeOK
  BY EmptySeq DEF TypeOK, Day
<1>2. RequestsOK /\ LocksOK /\ RowsOK
  BY DEF RequestsOK, LocksOK, RowsOK, Holds, Stored, KeptOK
<1> QED BY <1>1, <1>2 DEF IInv

-----------------------------------------------------------------------------
(* What an invariant part depends on. *)

LEMMA RowsFrame ==
  ASSUME RowsOK, UNCHANGED <<today, s3, row, history, lastEdit, keptOn>>
  PROVE  RowsOK'
BY DEF RowsOK, s3, Stored, AudioOK, ChainOK, KeptOK

LEMMA LocksFrame ==
  ASSUME LocksOK, UNCHANGED <<row, editors>>
  PROVE  LocksOK'
BY DEF LocksOK, editors, Holds, Stored, Shown

LEMMA NextDayKeeps == IInv /\ NextDay => IInv'
<1> SUFFICES ASSUME IInv, NextDay PROVE IInv'
  OBVIOUS
<1> USE Days DEF IInv, NextDay, s3, db, ingests, editors, ghosts
<1>1. TypeOK'
  BY DEF TypeOK
<1>2. RequestsOK'
  BY DEF RequestsOK, Quiet
<1>3. LocksOK'
  BY LocksFrame
<1>4. ASSUME NEW s \in Segment
      PROVE  /\ Stored(s)' => AudioOK(s)' /\ ChainOK(s)'
             /\ ~Stored(s)' => history'[s] = <<>>
             /\ KeptOK(s)'
  <2>1. Stored(s) => AudioOK(s)'
    BY RowTypes DEF RowsOK, AudioOK
  <2>2. KeptOK(s)'
    BY RowTypes DEF RowsOK, KeptOK, Stored
  <2>3. Stored(s)' = Stored(s) /\ ChainOK(s)' = ChainOK(s)
    BY DEF Stored, ChainOK
  <2> QED BY <2>1, <2>2, <2>3 DEF RowsOK
<1>5. RowsOK'
  BY <1>4 DEF RowsOK
<1> QED BY <1>1, <1>2, <1>3, <1>5

(* Nothing a handler has put today is deleted today. *)
LEMMA ExpireOriginalKeeps ==
  ASSUME IInv, NEW s \in Segment, ExpireOriginal(s)
  PROVE  IInv'
<1> USE Days DEF IInv, ExpireOriginal, db, ingests, editors, ghosts
<1>1. TypeOK'
  BY DEF TypeOK, Day
<1>2. \A t \in Segment \ {s} : original'[t] = original[t]
  BY DEF TypeOK
<1>3. RequestsOK'
  <2>1. original[s] # today
    BY RowTypes
  <2> QED BY <1>2, <2>1 DEF RequestsOK
<1>4. LocksOK'
  BY LocksFrame
<1>5. ASSUME NEW t \in Segment, Stored(t) PROVE AudioOK(t)'
  <2>1. AudioOK(t)
    BY <1>5 DEF RowsOK
  <2>2. CASE t = s
    BY <1>5, <2>1, <2>2, RowTypes DEF AudioOK
  <2>3. CASE t # s
    BY <1>2, <2>1, <2>3 DEF AudioOK
  <2> QED BY <2>2, <2>3
<1>6. RowsOK'
  BY <1>5 DEF RowsOK, Stored, ChainOK, KeptOK
<1> QED BY <1>1, <1>3, <1>4, <1>6

LEMMA ExpireCopyKeeps ==
  ASSUME IInv, NEW s \in Segment, ExpireCopy(s)
  PROVE  IInv'
<1> USE Days DEF IInv, ExpireCopy, db, ingests, editors, ghosts
<1>1. TypeOK'
  BY DEF TypeOK, Day
<1>2. \A t \in Segment \ {s} : copied'[t] = copied[t]
  BY DEF TypeOK
<1>3. RequestsOK'
  <2>1. copied[s] # today
    BY RowTypes
  <2> QED BY <1>2, <2>1 DEF RequestsOK
<1>4. LocksOK'
  BY LocksFrame
<1>5. ASSUME NEW t \in Segment, Stored(t) PROVE AudioOK(t)'
  <2>1. AudioOK(t)
    BY <1>5 DEF RowsOK
  <2>2. CASE t = s
    BY <1>5, <2>1, <2>2, RowTypes DEF AudioOK
  <2>3. CASE t # s
    BY <1>2, <2>1, <2>3 DEF AudioOK
  <2> QED BY <2>2, <2>3
<1>6. RowsOK'
  BY <1>5 DEF RowsOK, Stored, ChainOK, KeptOK
<1> QED BY <1>1, <1>3, <1>4, <1>6

LEMMA DismissKeeps ==
  ASSUME IInv, NEW s \in Segment, Dismiss(s)
  PROVE  IInv'
<1> USE DEF IInv, Dismiss, s3, ingests, editors, ghosts
<1>1. TypeOK' /\ RequestsOK'
  BY DEF TypeOK, RequestsOK
<1> QED BY <1>1, LocksFrame, RowsFrame

-----------------------------------------------------------------------------
(* The ingest. *)

LEMMA ReceiveKeeps ==
  ASSUME IInv, NEW w \in Worker, NEW s \in Segment, Receive(w, s)
  PROVE  IInv'
<1> USE DEF IInv, Receive, GoW, s3, db, editors, ghosts
<1>1. TypeOK' /\ RequestsOK'
  BY DEF TypeOK, RequestsOK
<1> QED BY <1>1, LocksFrame, RowsFrame

LEMMA IngestDiesKeeps ==
  ASSUME IInv, NEW w \in Worker, IngestDies(w)
  PROVE  IInv'
<1> USE DEF IInv, IngestDies, EndW, GoW, s3, db, editors, ghosts
<1>1. TypeOK' /\ RequestsOK'
  BY DEF TypeOK, RequestsOK
<1> QED BY <1>1, LocksFrame, RowsFrame

LEMMA PutKeeps ==
  ASSUME IInv, NEW w \in Worker, Put(w)
  PROVE  IInv'
<1> USE Days DEF IInv, Put, GoW, db, editors, ghosts
<1>1. wseg[w] \in Segment
  BY DEF RequestsOK
<1>2. original'[wseg[w]] = today
      /\ \A t \in Segment \ {wseg[w]} : original'[t] = original[t]
  BY <1>1 DEF TypeOK
<1>3. TypeOK'
  BY <1>1 DEF TypeOK, Day
<1>4. RequestsOK'
  BY <1>1, <1>2 DEF RequestsOK, TypeOK
<1>5. ASSUME NEW t \in Segment, Stored(t) PROVE AudioOK(t)'
  <2>1. AudioOK(t)
    BY <1>5 DEF RowsOK
  <2> QED BY <1>2, <2>1, RowTypes DEF AudioOK
<1>6. RowsOK'
  BY <1>5 DEF RowsOK, Stored, ChainOK, KeptOK
<1> QED BY <1>3, <1>4, <1>6, LocksFrame

LEMMA NewRowType == today \in Nat => NewRow \in Row
BY DEF NewRow, Row, Day

LEMMA InsertKeeps ==
  ASSUME IInv, NEW w \in Worker, Insert(w)
  PROVE  IInv'
<1> DEFINE s == wseg[w]
<1> USE Days DEF IInv, Insert, GoW, s3, editors, ghosts
<1>1. s \in Segment /\ original[s] = today /\ today \in Nat
  BY DEF RequestsOK, TypeOK
<1>2. CASE Stored(s)
  <2>1. TypeOK' /\ RequestsOK'
    BY <1>1, <1>2 DEF TypeOK, RequestsOK
  <2> QED BY <1>2, <2>1, LocksFrame, RowsFrame
<1>3. CASE ~Stored(s)
  <2>1. /\ row'[s] = NewRow /\ NewRow \in Row
        /\ \A t \in Segment \ {s} : row'[t] = row[t]
    BY <1>1, <1>3, NewRowType DEF TypeOK
  <2>2. TypeOK'
    BY <1>1, <1>3, <2>1 DEF TypeOK
  <2>3. RequestsOK'
    BY <1>1, <1>3 DEF TypeOK, RequestsOK
  <2>4. LocksOK'
    <3>1. ASSUME NEW e \in Editor, Holds(e)
          PROVE  row'[eseg[e]] = row[eseg[e]]
      BY <1>3, <2>1, <3>1 DEF LocksOK, RequestsOK, Holds, Stored
    <3> QED BY <3>1 DEF LocksOK, Holds, Stored, Shown
  <2>5. AudioOK(s)' /\ ChainOK(s)' /\ KeptOK(s)'
    <3>1. row'[s].received = today /\ row'[s].key = "original" /\ row'[s].text = NoText
      BY <2>1 DEF NewRow
    <3>2. AudioOK(s)'
      BY <1>1, <3>1, RowTypes DEF AudioOK
    <3>3. history'[s] = <<>>
      BY <1>1, <1>3 DEF RowsOK
    <3>4. ChainOK(s)'
      BY <3>1, <3>3 DEF ChainOK, Chain, Before, Shown
    <3>5. KeptOK(s)'
      BY <1>1, <1>3 DEF RowsOK, KeptOK
    <3> QED BY <3>2, <3>4, <3>5
  <2>6. ASSUME NEW t \in Segment \ {s}
        PROVE  /\ Stored(t)' = Stored(t) /\ AudioOK(t)' = AudioOK(t)
               /\ ChainOK(t)' = ChainOK(t) /\ KeptOK(t)' = KeptOK(t)
    BY <1>3, <2>1 DEF Stored, AudioOK, ChainOK, KeptOK
  <2>7. RowsOK'
    BY <2>1, <2>5, <2>6 DEF RowsOK, Stored
  <2> QED BY <2>2, <2>3, <2>4, <2>7
<1> QED BY <1>2, <1>3

LEMMA EvaluateTypes ==
  ASSUME TypeOK, NEW s \in Segment, NEW t, Evaluate(s, t)
  PROVE  alert' \in [Segment -> {"none", "open", "dismissed"}]
BY DEF TypeOK, Evaluate, WithAlert

LEMMA MatchKeeps ==
  ASSUME IInv, NEW w \in Worker, Match(w)
  PROVE  IInv'
<1> USE DEF IInv, Match, GoW, s3, editors
<1>1. wseg[w] \in Segment
  BY DEF RequestsOK
<1>2. TypeOK'
  BY <1>1, EvaluateTypes DEF TypeOK
<1>3. RequestsOK'
  BY <1>1 DEF RequestsOK, TypeOK
<1> QED BY <1>2, <1>3, LocksFrame, RowsFrame

(* A purge takes neither a row that is locked nor one with a recent        *)
(* correction.                                                             *)
LEMMA PurgeKeeps ==
  ASSUME IInv, Purge, UNCHANGED <<today, s3, editors, lastEdit, keptOn>>
  PROVE  /\ row' \in [Segment -> Row \cup {NoRow}]
         /\ history' \in [Segment -> Seq(Change)]
         /\ alert' \in [Segment -> {"none", "open", "dismissed"}]
         /\ LocksOK' /\ RowsOK'
<1> USE Days DEF IInv, s3, editors
<1>1. /\ row' \in [Segment -> Row \cup {NoRow}]
      /\ history' \in [Segment -> Seq(Change)]
      /\ alert' \in [Segment -> {"none", "open", "dismissed"}]
  BY EmptySeq DEF Purge, TypeOK
<1>2. \A s \in Segment :
        IF Expired(s)
        THEN ~Locked(s) /\ ~Stored(s)' /\ history'[s] = <<>>
        ELSE row'[s] = row[s] /\ history'[s] = history[s]
  BY DEF Purge, Stored
<1>3. LocksOK'
  <2>1. ASSUME NEW e \in Editor, Holds(e), eseg[e] \in Segment
        PROVE  row'[eseg[e]] = row[eseg[e]]
    BY <1>2, <2>1 DEF Locked, Holds
  <2> QED BY <2>1 DEF LocksOK, RequestsOK, Holds, Stored
<1>4. ASSUME NEW s \in Segment
      PROVE  /\ Stored(s)' => AudioOK(s)' /\ ChainOK(s)'
             /\ ~Stored(s)' => history'[s] = <<>>
             /\ KeptOK(s)'
  <2>1. CASE Expired(s)
    <3>1. ~(lastEdit[s] # NoDay /\ today <= lastEdit[s] + KeepDays)
      <4> SUFFICES ASSUME lastEdit[s] # NoDay, today <= lastEdit[s] + KeepDays
                   PROVE  FALSE
        OBVIOUS
      <4>1. Stored(s) /\ row[s].retain # NoDay
            /\ row[s].retain >= lastEdit[s] + KeepDays
        BY DEF RowsOK, KeptOK
      <4> QED BY <2>1, <4>1, RowTypes DEF Expired
    <3> QED BY <1>2, <2>1, <3>1 DEF KeptOK
  <2>2. CASE ~Expired(s)
    <3>1. row'[s] = row[s] /\ history'[s] = history[s]
      BY <1>2, <2>2
    <3>2. /\ Stored(s)' = Stored(s) /\ AudioOK(s)' = AudioOK(s)
          /\ ChainOK(s)' = ChainOK(s) /\ KeptOK(s)' = KeptOK(s)
      BY <3>1 DEF Stored, AudioOK, ChainOK, KeptOK
    <3> QED BY <3>1, <3>2 DEF RowsOK
  <2> QED BY <2>1, <2>2
<1>5. RowsOK'
  BY <1>4 DEF RowsOK
<1> QED BY <1>1, <1>3, <1>5

LEMMA ReplyKeeps ==
  ASSUME IInv, NEW w \in Worker, Reply(w)
  PROVE  IInv'
<1> USE DEF IInv, Reply, EndW, GoW
<1>1. wseg[w] \in Segment
  BY DEF RequestsOK
<1>2. RequestsOK'
  BY DEF RequestsOK, TypeOK, s3, editors
<1>3. CASE Purge
  <2>1. TypeOK'
    BY <1>1, <1>3, PurgeKeeps DEF TypeOK, s3, editors
  <2> QED BY <1>2, <1>3, <2>1, PurgeKeeps
<1>4. CASE UNCHANGED db
  <2>1. TypeOK'
    BY <1>1, <1>4 DEF TypeOK, s3, editors, db
  <2> QED BY <1>2, <1>4, <2>1, LocksFrame, RowsFrame DEF db
<1> QED BY <1>3, <1>4

-----------------------------------------------------------------------------
(* Corrections. *)

(* A handler that ends leaves the others as they are. *)
LEMMA EndLeaves ==
  ASSUME TypeOK, NEW e \in Editor, EndE(e)
  PROVE  /\ epc' \in [Editor -> {"idle", "copy", "save", "saved", "evaluate", "reverting"}]
         /\ eseg' \in [Editor -> Segment \cup {NoSegment}]
         /\ etext' \in [Editor -> Text \cup {NoText}]
         /\ snap' \in [Editor -> Row \cup {NoRow}]
         /\ copy' \in [Editor -> BOOLEAN]
         /\ prev' \in [Editor -> Text \cup {NoText, MachineText}]
         /\ epc'[e] = "idle" /\ ~Holds(e)'
         /\ \A f \in Editor \ {e} :
              /\ epc'[f] = epc[f] /\ eseg'[f] = eseg[f] /\ etext'[f] = etext[f]
              /\ copy'[f] = copy[f] /\ prev'[f] = prev[f] /\ Holds(f)' = Holds(f)
BY DEF TypeOK, EndE, GoE, Holds

LEMMA EndKeeps ==
  ASSUME IInv, NEW e \in Editor, EndE(e), UNCHANGED <<today, s3, row, ingests>>
  PROVE  RequestsOK' /\ LocksOK'
<1> USE DEF IInv, s3, ingests
<1>1. RequestsOK'
  BY EndLeaves DEF RequestsOK
<1>2. LocksOK'
  BY EndLeaves DEF LocksOK, Stored, Shown
<1> QED BY <1>1, <1>2

LEMMA EditDiesKeeps ==
  ASSUME IInv, NEW e \in Editor, EditDies(e)
  PROVE  IInv'
<1> USE DEF EditDies
<1>1. TypeOK'
  BY EndLeaves DEF IInv, TypeOK, s3, db, ingests, ghosts
<1>2. RequestsOK' /\ LocksOK'
  BY EndKeeps DEF db
<1>3. RowsOK'
  BY RowsFrame DEF IInv, db, ghosts
<1> QED BY <1>1, <1>2, <1>3 DEF IInv

LEMMA CorrectKeeps ==
  ASSUME IInv, NEW e \in Editor, NEW s \in Segment, NEW t \in Text, Correct(e, s, t)
  PROVE  IInv'
<1> USE DEF IInv, Correct, GoE
<1>1. TypeOK'
  BY DEF TypeOK, s3, db, ingests, ghosts
<1>2. /\ epc'[e] = "copy" /\ eseg'[e] = s /\ etext'[e] = t
      /\ \A f \in Editor \ {e} :
           epc'[f] = epc[f] /\ eseg'[f] = eseg[f] /\ etext'[f] = etext[f]
  BY DEF TypeOK
<1>3. RequestsOK'
  BY <1>2 DEF RequestsOK, s3, ingests
<1>4. LocksOK'
  BY <1>2 DEF LocksOK, Holds, Stored, Shown, db
<1>5. RowsOK'
  BY RowsFrame DEF db, ghosts
<1> QED BY <1>1, <1>3, <1>4, <1>5

LEMMA CopyKeeps ==
  ASSUME IInv, NEW e \in Editor, Copy(e)
  PROVE  IInv'
<1> DEFINE s == eseg[e]
<1> USE Days DEF IInv, Copy, GoE
<1>1. s \in Segment /\ today \in Nat
  BY DEF RequestsOK, TypeOK
<1>2. TypeOK'
  <2>1. copied' \in [Segment -> Day]
    BY <1>1 DEF TypeOK, Day
  <2>2. copy' \in [Editor -> BOOLEAN]
    BY DEF TypeOK, NothingToCopy
  <2> QED BY <2>1, <2>2 DEF TypeOK, db, ingests, ghosts
<1>3. /\ epc'[e] = "save" /\ copy'[e] = ~NothingToCopy(e)
      /\ \A f \in Editor \ {e} : epc'[f] = epc[f] /\ copy'[f] = copy[f]
      /\ NothingToCopy(e) => copied' = copied
      /\ ~NothingToCopy(e) => copied'[s] = today
      /\ \A t \in Segment : copied'[t] = copied[t] \/ copied'[t] = today
  BY <1>1 DEF TypeOK
<1>4. RequestsOK'
  <2>1. ASSUME NEW f \in Editor
        PROVE  /\ epc'[f] # "idle" => eseg'[f] \in Segment
               /\ epc'[f] \in {"copy", "save", "saved", "evaluate"} => etext'[f] \in Text
               /\ epc'[f] \in {"save", "saved"} /\ copy'[f] => copied'[eseg'[f]] = today'
    <3>1. CASE f = e
      BY <1>1, <1>3, <3>1 DEF RequestsOK
    <3>2. CASE f # e
      BY <1>3, <3>2 DEF RequestsOK
    <3> QED BY <3>1, <3>2
  <2> QED BY <2>1 DEF RequestsOK, ingests
<1>5. LocksOK'
  BY <1>3 DEF LocksOK, Holds, Stored, Shown, db
<1>6. ASSUME NEW t \in Segment, Stored(t) PROVE AudioOK(t)'
  <2>1. AudioOK(t)
    BY <1>6 DEF RowsOK
  <2>2. row' = row /\ keptOn' = keptOn /\ original' = original /\ today' = today
    BY DEF db, ghosts
  <2>3. CASE row[t].key = "corrected" /\ copied'[t] = today
    BY <1>1, <1>6, <2>1, <2>2, <2>3, RowTypes DEF AudioOK
  <2>4. CASE ~(row[t].key = "corrected" /\ copied'[t] = today)
    BY <1>3, <2>1, <2>2, <2>4 DEF AudioOK
  <2> QED BY <2>3, <2>4
<1>7. RowsOK'
  BY <1>6 DEF RowsOK, Stored, ChainOK, KeptOK, db, ghosts
<1> QED BY <1>2, <1>4, <1>5, <1>7

(* One editor takes a row lock nobody holds, and knows the row's text. *)
LEMMA LockTaken ==
  ASSUME IInv, NEW e \in Editor, NEW s \in Segment,
         Stored(s), ~Locked(s), row' = row,
         epc[e] \in {"idle", "save"}, Holds(e)', eseg'[e] = s,
         prev'[e] = Shown(row[s].text),
         \A f \in Editor \ {e} :
           Holds(f)' = Holds(f) /\ eseg'[f] = eseg[f] /\ prev'[f] = prev[f]
  PROVE  LocksOK'
<1>1. \A f \in Editor \ {e} : Holds(f) => eseg[f] # s
  BY DEF Locked, Holds
<1> QED BY <1>1 DEF IInv, LocksOK, Stored, Shown

LEMMA SaveKeeps ==
  ASSUME IInv, NEW e \in Editor, Save(e)
  PROVE  IInv'
<1>1. PICK s \in Segment : s = eseg[e]
  BY DEF IInv, RequestsOK, Save
<1>2. /\ epc[e] = "save" /\ ~Locked(s)
      /\ UNCHANGED <<today, s3, db, ingests, ghosts>>
  BY <1>1 DEF Save
<1>3. RowsOK'
  BY <1>2, RowsFrame DEF IInv, db, ghosts
<1>4. CASE Stored(s)
  <2>1. /\ prev' = [prev EXCEPT ![e] = Shown(row[s].text)]
        /\ epc' = [epc EXCEPT ![e] = "saved"]
        /\ UNCHANGED <<eseg, etext, snap, copy>>
    BY <1>1, <1>4 DEF Save, GoE
  <2>2. Shown(row[s].text) \in Text \cup {MachineText}
    BY <1>4, RowTypes, ShownTypes DEF IInv
  <2>3. TypeOK'
    BY <1>2, <2>1, <2>2 DEF IInv, TypeOK, s3, db, ingests, ghosts
  <2>4. /\ epc'[e] = "saved" /\ prev'[e] = Shown(row[s].text)
        /\ \A f \in Editor \ {e} : epc'[f] = epc[f] /\ prev'[f] = prev[f]
    BY <2>1 DEF IInv, TypeOK
  <2>5. RequestsOK'
    BY <1>2, <2>1, <2>4 DEF IInv, RequestsOK, s3, ingests
  <2>6. LocksOK'
    BY <1>1, <1>2, <1>4, <2>1, <2>4, LockTaken DEF Holds, db
  <2> QED BY <1>3, <2>3, <2>5, <2>6 DEF IInv
<1>5. CASE ~Stored(s)
  <2>1. EndE(e)
    BY <1>1, <1>5 DEF Save
  <2>2. TypeOK'
    BY <1>2, <2>1, EndLeaves DEF IInv, TypeOK, s3, db, ingests, ghosts
  <2> QED BY <1>2, <1>3, <2>1, <2>2, EndKeeps DEF IInv, db
<1> QED BY <1>4, <1>5

LEMMA RevertKeeps ==
  ASSUME IInv, NEW e \in Editor, NEW s \in Segment, Revert(e, s)
  PROVE  IInv'
<1> USE Days DEF IInv, Revert, GoE
<1>1. row[s].text \in Text /\ Shown(row[s].text) = row[s].text
  BY RowTypes DEF Shown
<1>2. /\ epc'[e] = "reverting" /\ prev'[e] = row[s].text /\ eseg'[e] = s
      /\ \A f \in Editor \ {e} :
           epc'[f] = epc[f] /\ prev'[f] = prev[f] /\ eseg'[f] = eseg[f]
  BY DEF TypeOK
<1>3. TypeOK'
  BY <1>1 DEF TypeOK, s3, db, ingests, ghosts
<1>4. RequestsOK'
  BY <1>2 DEF RequestsOK, s3, ingests
<1>5. LocksOK'
  BY <1>1, <1>2, LockTaken DEF Holds, db
<1>6. RowsOK'
  BY RowsFrame DEF db, ghosts
<1> QED BY <1>3, <1>4, <1>5, <1>6

LEMMA MatchCorrectionKeeps ==
  ASSUME IInv, NEW e \in Editor, MatchCorrection(e)
  PROVE  IInv'
<1> USE DEF IInv, MatchCorrection
<1>1. eseg[e] \in Segment
  BY DEF RequestsOK
<1>2. TypeOK'
  BY <1>1, EvaluateTypes, EndLeaves DEF TypeOK, s3, ingests, ghosts
<1>3. RowsOK'
  BY RowsFrame DEF ghosts
<1> QED BY <1>2, <1>3, EndKeeps

(* What a holder of the lock commits leaves the other rows alone, and      *)
(* nobody else knows the row it changes.                                   *)
LEMMA OthersUntouched ==
  ASSUME IInv, NEW e \in Editor, Holds(e),
         \A t \in Segment \ {eseg[e]} : row'[t] = row[t],
         ~Holds(e)',
         \A f \in Editor \ {e} :
           Holds(f)' = Holds(f) /\ eseg'[f] = eseg[f] /\ prev'[f] = prev[f]
  PROVE  LocksOK'
<1>1. \A f \in Editor \ {e} :
        Holds(f) => eseg[f] \in Segment /\ eseg[f] # eseg[e]
  BY DEF IInv, LocksOK, RequestsOK, Holds
<1> QED BY <1>1 DEF IInv, LocksOK, Stored, Shown

(* The change a commit appends to the history of its row. *)
LEMMA ChangeAppended ==
  ASSUME IInv, NEW e \in Editor, Holds(e), NEW s \in Segment, s = eseg[e],
         NEW t \in Text \cup {NoText},
         history' = [history EXCEPT ![s] =
                       Append(@, [previous |-> prev[e], new |-> t])],
         row'[s].text = t
  PROVE  /\ history' \in [Segment -> Seq(Change)]
         /\ history'[s] # <<>> /\ ChainOK(s)'
         /\ \A u \in Segment \ {s} : history'[u] = history[u]
<1> DEFINE h == history[s]
           c == [previous |-> prev[e], new |-> t]
           g == Append(h, c)
<1>1. Stored(s) /\ prev[e] = Shown(row[s].text)
  BY DEF IInv, LocksOK
<1>2. row[s].text \in Text \cup {NoText} /\ h \in Seq(Change)
  BY <1>1, RowTypes DEF IInv
<1>3. c \in Change /\ c.previous = prev[e] /\ c.new = t
  BY <1>1, <1>2, ShownTypes DEF Change
<1>4. ChainOK(s)
  BY <1>1 DEF IInv, RowsOK
<1>5. history' = [history EXCEPT ![s] = g]
  OBVIOUS
<1> HIDE DEF g, c
<1>6. g \in Seq(Change) /\ g # <<>> /\ Chain(g, t)
  BY <1>1, <1>2, <1>3, <1>4, ChainGrows DEF g, ChainOK
<1>7. history' \in [Segment -> Seq(Change)]
  BY <1>5, <1>6 DEF IInv, TypeOK
<1>8. history'[s] = g /\ \A u \in Segment \ {s} : history'[u] = history[u]
  BY <1>5 DEF IInv, TypeOK
<1> QED BY <1>6, <1>7, <1>8 DEF ChainOK

(* What a commit writes into the row it holds. *)
LEMMA RowWritten ==
  ASSUME IInv, NEW s \in Segment, NEW r \in Row, row' = [row EXCEPT ![s] = r]
  PROVE  /\ row' \in [Segment -> Row \cup {NoRow}]
         /\ row'[s] = r /\ Stored(s)'
         /\ \A u \in Segment \ {s} : row'[u] = row[u]
BY Days DEF IInv, TypeOK, Stored

LEMMA CorrectedRow ==
  ASSUME NEW r \in Row, NEW t \in Text, NEW moved \in BOOLEAN, today \in Nat
  PROVE  LET c == Corrected(r, t, moved) IN
         /\ c \in Row /\ c.received = r.received /\ c.text = t
         /\ c.retain = today + KeepDays
         /\ c.key = IF moved THEN "corrected" ELSE r.key
BY Days DEF Corrected, Row, Day

LEMMA ClearedRow ==
  ASSUME NEW r \in Row
  PROVE  /\ Cleared(r) \in Row /\ Cleared(r).text = NoText
         /\ Cleared(r).received = r.received /\ Cleared(r).key = r.key
         /\ Cleared(r).retain = r.retain
BY DEF Cleared, Row

LEMMA CommitCorrectionKeeps ==
  ASSUME IInv, NEW e \in Editor, CommitCorrection(e)
  PROVE  IInv'
<1>1. PICK s \in Segment : s = eseg[e]
  BY DEF IInv, RequestsOK, CommitCorrection
<1> DEFINE r == Corrected(row[s], etext[e], copy[e])
<1>2. /\ epc[e] = "saved" /\ epc' = [epc EXCEPT ![e] = "evaluate"]
      /\ today' = today /\ original' = original /\ copied' = copied
      /\ alert' = alert /\ wpc' = wpc /\ wseg' = wseg
      /\ eseg' = eseg /\ etext' = etext /\ snap' = snap /\ copy' = copy
      /\ prev' = prev /\ acked' = acked /\ evaluated' = evaluated
  BY DEF CommitCorrection, GoE, s3, ingests
<1>3. /\ row' = [row EXCEPT ![s] = r]
      /\ history' = [history EXCEPT ![s] =
                       Append(@, [previous |-> prev[e], new |-> etext[e]])]
      /\ lastEdit' = [lastEdit EXCEPT ![s] = today]
      /\ keptOn' = [keptOn EXCEPT ![s] = IF copy[e] THEN today ELSE @]
  BY <1>1 DEF CommitCorrection
<1>4. /\ Holds(e) /\ Stored(s) /\ etext[e] \in Text /\ copy[e] \in BOOLEAN
      /\ today \in Nat /\ (copy[e] => copied[s] = today)
  BY <1>1, <1>2 DEF IInv, RequestsOK, LocksOK, Holds, TypeOK
<1>5. row[s] \in Row
  BY <1>4, RowTypes DEF IInv
<1>6. /\ r \in Row /\ r.received = row[s].received /\ r.text = etext[e]
      /\ r.retain = today + KeepDays
      /\ r.key = IF copy[e] THEN "corrected" ELSE row[s].key
  BY <1>4, <1>5, CorrectedRow
<1> HIDE DEF r
<1>7. /\ row' \in [Segment -> Row \cup {NoRow}]
      /\ row'[s] = r /\ Stored(s)'
      /\ \A t \in Segment \ {s} : row'[t] = row[t]
  BY <1>3, <1>6, RowWritten
<1>8. /\ history' \in [Segment -> Seq(Change)]
      /\ history'[s] # <<>> /\ ChainOK(s)'
      /\ \A t \in Segment \ {s} : history'[t] = history[t]
  BY <1>1, <1>3, <1>4, <1>6, <1>7, ChangeAppended
<1>9. /\ lastEdit' \in [Segment -> Day] /\ keptOn' \in [Segment -> Day]
      /\ lastEdit'[s] = today
      /\ keptOn'[s] = IF copy[e] THEN today ELSE keptOn[s]
      /\ \A t \in Segment \ {s} :
           lastEdit'[t] = lastEdit[t] /\ keptOn'[t] = keptOn[t]
  BY <1>3, <1>4 DEF IInv, TypeOK, Day
<1>10. TypeOK'
  BY <1>2, <1>7, <1>8, <1>9 DEF IInv, TypeOK
<1>11. epc'[e] = "evaluate" /\ \A f \in Editor \ {e} : epc'[f] = epc[f]
  BY <1>2 DEF IInv, TypeOK
<1>12. RequestsOK'
  BY <1>2, <1>4, <1>11 DEF IInv, RequestsOK
<1>13. LocksOK'
  BY <1>1, <1>2, <1>4, <1>7, <1>11, OthersUntouched DEF Holds
<1>14. AudioOK(s)' /\ KeptOK(s)'
  <2>1. AudioOK(s)
    BY <1>4 DEF IInv, RowsOK
  <2>2. AudioOK(s)'
    BY <1>2, <1>4, <1>5, <1>6, <1>7, <1>9, <2>1, Days DEF AudioOK, Row
  <2>3. today + KeepDays # NoDay
    BY <1>4, Days
  <2>4. KeptOK(s)'
    BY <1>2, <1>4, <1>6, <1>7, <1>8, <1>9, <2>3, Days DEF KeptOK
  <2> QED BY <2>2, <2>4
<1>15. ASSUME NEW t \in Segment \ {s}
       PROVE  /\ Stored(t)' => AudioOK(t)' /\ ChainOK(t)'
              /\ ~Stored(t)' => history'[t] = <<>>
              /\ KeptOK(t)'
  BY <1>2, <1>7, <1>8, <1>9
     DEF IInv, RowsOK, Stored, AudioOK, ChainOK, KeptOK
<1>16. RowsOK'
  BY <1>7, <1>8, <1>14, <1>15 DEF RowsOK
<1> QED BY <1>10, <1>12, <1>13, <1>16 DEF IInv

LEMMA CommitRevertKeeps ==
  ASSUME IInv, NEW e \in Editor, CommitRevert(e)
  PROVE  IInv'
<1>1. PICK s \in Segment : s = eseg[e]
  BY DEF IInv, RequestsOK, CommitRevert
<1> DEFINE r == Cleared(row[s])
<1>2. /\ epc[e] = "reverting" /\ EndE(e)
      /\ today' = today /\ original' = original /\ copied' = copied
      /\ alert' = alert /\ wpc' = wpc /\ wseg' = wseg
      /\ acked' = acked /\ evaluated' = evaluated
      /\ lastEdit' = lastEdit /\ keptOn' = keptOn
  BY DEF CommitRevert, s3, ingests, ghosts
<1>3. /\ row' = [row EXCEPT ![s] = r]
      /\ history' = [history EXCEPT ![s] =
                       Append(@, [previous |-> prev[e], new |-> NoText])]
  BY <1>1 DEF CommitRevert
<1>4. Holds(e) /\ Stored(s)
  BY <1>1, <1>2 DEF IInv, LocksOK, Holds
<1>5. row[s] \in Row
  BY <1>4, RowTypes DEF IInv
<1>6. /\ r \in Row /\ r.received = row[s].received /\ r.text = NoText
      /\ r.retain = row[s].retain /\ r.key = row[s].key
  BY <1>5, ClearedRow
<1> HIDE DEF r
<1>7. /\ row' \in [Segment -> Row \cup {NoRow}]
      /\ row'[s] = r /\ Stored(s)'
      /\ \A t \in Segment \ {s} : row'[t] = row[t]
  BY <1>3, <1>6, RowWritten
<1>8. /\ history' \in [Segment -> Seq(Change)]
      /\ history'[s] # <<>> /\ ChainOK(s)'
      /\ \A t \in Segment \ {s} : history'[t] = history[t]
  BY <1>1, <1>3, <1>4, <1>6, <1>7, ChangeAppended
<1>9. TypeOK'
  BY <1>2, <1>7, <1>8, EndLeaves DEF IInv, TypeOK
<1>10. RequestsOK'
  BY <1>2, EndLeaves DEF IInv, RequestsOK
<1>11. LocksOK'
  BY <1>1, <1>2, <1>4, <1>7, EndLeaves, OthersUntouched DEF IInv
<1>12. AudioOK(s)' /\ KeptOK(s)'
  BY <1>2, <1>4, <1>6, <1>7, <1>8 DEF IInv, RowsOK, AudioOK, KeptOK
<1>13. ASSUME NEW t \in Segment \ {s}
       PROVE  /\ Stored(t)' => AudioOK(t)' /\ ChainOK(t)'
              /\ ~Stored(t)' => history'[t] = <<>>
              /\ KeptOK(t)'
  BY <1>2, <1>7, <1>8
     DEF IInv, RowsOK, Stored, AudioOK, ChainOK, KeptOK
<1>14. RowsOK'
  BY <1>7, <1>8, <1>12, <1>13 DEF RowsOK
<1> QED BY <1>9, <1>10, <1>11, <1>14 DEF IInv

-----------------------------------------------------------------------------
LEMMA NextKeeps == IInv /\ [Next]_vars => IInv'
<1> SUFFICES ASSUME IInv, [Next]_vars PROVE IInv'
  OBVIOUS
<1>1. CASE UNCHANGED vars
  <2>1. TypeOK' /\ RequestsOK'
    BY <1>1 DEF IInv, vars, TypeOK, RequestsOK, s3, db, ingests, editors, ghosts
  <2> QED BY <1>1, <2>1, LocksFrame, RowsFrame DEF IInv, vars, db, ghosts
<1>2. CASE NextDay
  BY <1>2, NextDayKeeps
<1>3. ASSUME NEW s \in Segment, ExpireOriginal(s) \/ ExpireCopy(s) \/ Dismiss(s)
      PROVE  IInv'
  BY <1>3, ExpireOriginalKeeps, ExpireCopyKeeps, DismissKeeps
<1>4. ASSUME NEW w \in Worker, Ingest(w)
      PROVE  IInv'
  BY <1>4, ReceiveKeeps, PutKeeps, InsertKeeps, MatchKeeps, ReplyKeeps,
     IngestDiesKeeps DEF Ingest
<1>5. ASSUME NEW e \in Editor, Edit(e)
      PROVE  IInv'
  BY <1>5, RevertKeeps, CorrectKeeps, CopyKeeps, SaveKeeps, CommitCorrectionKeeps,
     MatchCorrectionKeeps, CommitRevertKeeps, EditDiesKeeps DEF Edit
<1> QED BY <1>1, <1>2, <1>3, <1>4, <1>5 DEF Next

LEMMA Invariant == Spec => []IInv
BY InitHolds, NextKeeps, PTL DEF Spec

(* Variables keep their types, for any number of segments and handlers. *)
THEOREM TypeCorrect == Spec => []TypeOK
<1>1. IInv => TypeOK
  BY DEF IInv
<1> QED BY <1>1, Invariant, PTL

(* Audio a row offers is in S3 (_audio_available and the bucket's rules),  *)
(* and a corrected row's is for KeepDays after it was moved.               *)
THEOREM AudioIsThere == Spec => []AudioHonest
<1>1. ASSUME IInv, NEW s \in Segment, Stored(s), row[s].key = "original",
             audio_available(s)
      PROVE  original[s] # NoDay
  <2>1. AudioOK(s)
    BY <1>1 DEF IInv, RowsOK
  <2> QED BY <1>1, <2>1, Days, RowTypes DEF IInv, AudioOK, audio_available
<1>2. ASSUME IInv, NEW s \in Segment, Stored(s), row[s].key = "corrected"
      PROVE  keptOn[s] # NoDay /\ (today < keptOn[s] + KeepDays => copied[s] # NoDay)
  <2>1. AudioOK(s)
    BY <1>2 DEF IInv, RowsOK
  <2> QED BY <1>2, <2>1, Days, RowTypes DEF IInv, AudioOK
<1>3. IInv => AudioHonest
  BY <1>1, <1>2 DEF AudioHonest, OriginalAudioHonest, MovedAudioKept
<1> QED BY <1>3, Invariant, PTL

(* A correction survives every purge for KeepDays (purge_expired), and     *)
(* corrections made at the same time form a chain (save_correction,        *)
(* clear_correction and their row lock).                                   *)
THEOREM CorrectionsSurvive == Spec => []CorrectionsSafe
<1>1. IInv => CorrectionKept
  BY DEF IInv, RowsOK, KeptOK, CorrectionKept
<1>2. IInv => HistoryChained
  <2> SUFFICES ASSUME IInv, NEW s \in Segment, Stored(s)
               PROVE  /\ \A i \in DOMAIN history[s] :
                           history[s][i].previous = Before(history[s], i)
                      /\ Shown(row[s].text) = Before(history[s], Len(history[s]) + 1)
    BY DEF HistoryChained, Before
  <2> QED BY DEF IInv, RowsOK, ChainOK, Chain
<1>3. IInv => CorrectionsSafe
  BY <1>1, <1>2 DEF CorrectionsSafe
<1> QED BY <1>3, Invariant, PTL

(* One row under one step: what UploadIsIdempotent says of each segment. *)
KeepsOrRecords(s) ==
  row[s] # NoRow /\ row'[s] # NoRow =>
    /\ row'[s].received = row[s].received
    /\ row'[s].text # row[s].text => history'[s] # history[s]

LEMMA CommitRecords ==
  ASSUME IInv, NEW e \in Editor, CommitCorrection(e) \/ CommitRevert(e), NEW u \in Segment
  PROVE  KeepsOrRecords(u)
<1>1. PICK s \in Segment : s = eseg[e]
  BY DEF IInv, RequestsOK, CommitCorrection, CommitRevert
<1>2. \E c : history' = [history EXCEPT ![s] = Append(@, c)] /\ c \in Change
  <2>1. CASE CommitCorrection(e)
    <3>1. [previous |-> prev[e], new |-> etext[e]] \in Change
      <4>1. Holds(e) /\ Stored(s) /\ prev[e] = Shown(row[s].text)
        BY <1>1, <2>1 DEF IInv, LocksOK, Holds, CommitCorrection
      <4> QED BY <4>1, RowTypes, ShownTypes DEF IInv, TypeOK, Change
    <3> QED BY <1>1, <2>1, <3>1 DEF CommitCorrection
  <2>2. CASE CommitRevert(e)
    <3>1. [previous |-> prev[e], new |-> NoText] \in Change
      <4>1. Holds(e) /\ Stored(s) /\ prev[e] = Shown(row[s].text)
        BY <1>1, <2>2 DEF IInv, LocksOK, Holds, CommitRevert
      <4> QED BY <4>1, RowTypes, ShownTypes DEF IInv, TypeOK, Change
    <3> QED BY <1>1, <2>2, <3>1 DEF CommitRevert
  <2> QED BY <2>1, <2>2
<1>3. history'[s] # history[s]
  <2>1. PICK c \in Change : history' = [history EXCEPT ![s] = Append(@, c)]
    BY <1>2
  <2>2. history[s] \in Seq(Change) /\ history'[s] = Append(history[s], c)
    BY <2>1 DEF IInv, TypeOK
  <2> QED BY <2>2, AppendProperties, LenProperties
<1>4. CASE u = s /\ Stored(s)
  <2>1. row[s] \in Row
    BY <1>4, RowTypes DEF IInv
  <2>2. row'[s].received = row[s].received
    <3>1. CASE CommitCorrection(e)
      <4>1. row'[s] = Corrected(row[s], etext[e], copy[e])
        BY <1>1, <3>1 DEF CommitCorrection, IInv, TypeOK
      <4> QED BY <4>1 DEF Corrected
    <3>2. CASE CommitRevert(e)
      <4>1. row'[s] = Cleared(row[s])
        BY <1>1, <3>2 DEF CommitRevert, IInv, TypeOK
      <4> QED BY <2>1, <4>1, ClearedRow
    <3> QED BY <3>1, <3>2
  <2> QED BY <1>3, <1>4, <2>2 DEF KeepsOrRecords
<1>5. CASE u # s
  <2>1. row'[u] = row[u]
    BY <1>1, <1>5 DEF CommitCorrection, CommitRevert, IInv, TypeOK
  <2> QED BY <2>1 DEF KeepsOrRecords
<1> QED BY <1>4, <1>5 DEF KeepsOrRecords, Stored

(* A second upload of a stored segment changes neither the date its row    *)
(* counts from nor its text (segment_exists, ON CONFLICT DO NOTHING): only *)
(* a correction or a revert changes the text, and its history says so.     *)
THEOREM UploadsAreIdempotent == Spec => UploadIsIdempotent
<1>1. ASSUME IInv, [Next]_vars, NEW s \in Segment
      PROVE  KeepsOrRecords(s)
  <2>1. CASE row' = row
    BY <2>1 DEF KeepsOrRecords
  <2>2. ASSUME NEW w \in Worker, Insert(w) PROVE KeepsOrRecords(s)
    <3>1. CASE Stored(wseg[w])
      BY <2>1, <2>2, <3>1 DEF Insert
    <3>2. CASE ~Stored(wseg[w])
      <4>1. row' = [row EXCEPT ![wseg[w]] = NewRow] /\ row \in [Segment -> Row \cup {NoRow}]
        BY <1>1, <2>2, <3>2 DEF Insert, IInv, TypeOK
      <4>2. row[s] # NoRow => row'[s] = row[s]
        BY <3>2, <4>1 DEF Stored
      <4> QED BY <4>2 DEF KeepsOrRecords
    <3> QED BY <3>1, <3>2
  <2>3. ASSUME NEW w \in Worker, Reply(w) PROVE KeepsOrRecords(s)
    BY <2>3 DEF Reply, Purge, db, KeepsOrRecords
  <2>4. ASSUME NEW e \in Editor, CommitCorrection(e) \/ CommitRevert(e)
        PROVE  KeepsOrRecords(s)
    BY <1>1, <2>4, CommitRecords
  <2>5. ASSUME NEW w \in Worker, Ingest(w) PROVE KeepsOrRecords(s)
    <3>1. ASSUME NEW u \in Segment, Receive(w, u) PROVE row' = row
      BY <3>1 DEF Receive, db
    <3>2. Put(w) \/ Match(w) \/ IngestDies(w) => row' = row
      BY DEF Put, Match, IngestDies, db
    <3> QED BY <2>1, <2>2, <2>3, <2>5, <3>1, <3>2 DEF Ingest
  <2>6. ASSUME NEW e \in Editor, Edit(e) PROVE KeepsOrRecords(s)
    <3>1. ASSUME NEW u \in Segment, Revert(e, u) \/ \E t \in Text : Correct(e, u, t)
          PROVE  row' = row
      BY <3>1 DEF Revert, Correct, db
    <3>2. Copy(e) \/ Save(e) \/ MatchCorrection(e) \/ EditDies(e) => row' = row
      BY DEF Copy, Save, MatchCorrection, EditDies, db
    <3> QED BY <2>1, <2>4, <2>6, <3>1, <3>2 DEF Edit
  <2> QED BY <1>1, <2>1, <2>5, <2>6
          DEF Next, NextDay, ExpireOriginal, ExpireCopy, Dismiss, vars, db
<1>2. IInv /\ [Next]_vars => \A s \in Segment : KeepsOrRecords(s)
  BY <1>1
<1> QED BY <1>2, Invariant, PTL DEF Spec, UploadIsIdempotent, KeepsOrRecords

-----------------------------------------------------------------------------
(* The server's parts side by side (MCServices).  One of them moves, and   *)
(* each behaves as it does alone.                                          *)
LEMMA ServicesFollow ==
  ServicesSpec =>
    /\ Spec /\ Capture!Spec /\ Webhooks!Spec /\ Cad!Spec
    /\ Stream!Spec /\ Domestic!Spec /\ County!Spec
<1>1. ServicesInit =>
        /\ Init /\ Capture!Init /\ Webhooks!Init /\ Cad!Init
        /\ Stream!Init /\ Domestic!Init /\ County!Init
  BY DEF ServicesInit
<1> USE DEF ServicesNext, all
<1>2. [ServicesNext]_all => [Next]_vars
  OBVIOUS
<1>3. [ServicesNext]_all => [Capture!Next]_(Capture!vars)
  BY DEF capture, Capture!vars, Capture!segment, Capture!handed
<1>4. [ServicesNext]_all => [Webhooks!Next]_(Webhooks!vars)
  BY DEF realtime, Webhooks!vars, Webhooks!request, Webhooks!stream
<1>5. [ServicesNext]_all => [Cad!Next]_(Cad!vars)
  BY DEF poller, Cad!vars, Cad!poller
<1>6. [ServicesNext]_all => [Stream!Next]_(Stream!vars)
  BY DEF stream, Stream!vars
<1>7. [ServicesNext]_all => [Domestic!Next]_(Domestic!vars)
  BY DEF domestic, Domestic!vars, Domestic!clock, Domestic!reader
<1>8. [ServicesNext]_all => [County!Next]_(County!vars)
  BY DEF county, County!vars
<1> HIDE DEF ServicesNext, all
<1> QED BY <1>1, <1>2, <1>3, <1>4, <1>5, <1>6, <1>7, <1>8,
           PTL DEF ServicesSpec, Spec, Capture!Spec, Webhooks!Spec, Cad!Spec, Stream!Spec,
                   Domestic!Spec, County!Spec

(* Each part of the server keeps to its types, whatever its constants are. *)
THEOREM AllTypesCorrect == ServicesSpec => []AllTypesOK
<1>1. CaptureOK => Capture!TypeOK
  BY DEF CaptureOK
<1>2. CadOK => Cad!TypeOK
  BY DEF CadOK
<1>3. StreamOK => Stream!TypeOK
  BY DEF StreamOK
<1>4. DomesticOK => Domestic!TypeOK
  BY DEF DomesticOK
<1> QED BY <1>1, <1>2, <1>3, <1>4, ServicesFollow, TypeCorrect, CaptureInvariant,
           WebhookTypesHold, CadInvariant, StreamInvariant,
           DomesticInvariant, CountyTypes,
           PTL DEF AllTypesOK
=============================================================================
