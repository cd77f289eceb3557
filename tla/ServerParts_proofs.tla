------------------------- MODULE ServerParts_proofs -------------------------
(***************************************************************************)
(* Proofs about parts of the server, its reports and the radio's capture   *)
(* that share nothing, one after another, as in PageParts_proofs.  First   *)
(* what several of them need about sets of numbers.                        *)
(***************************************************************************)
EXTENDS
  ServerParts, Integers, Sequences, FiniteSets,
  FiniteSetTheorems, FunctionTheorems, WellFoundedInduction, TLAPS

LEMMA LeastNatural ==
  ASSUME NEW T \in SUBSET Nat, T # {}
  PROVE  \E n \in T : \A m \in T : n <= m
<1>1. PICK n \in T : \A m \in T : ~(<<m, n>> \in OpToRel(<, Nat))
  BY NatLessThanWellFounded, WFMin
<1>2. ASSUME NEW m \in T PROVE n <= m
  <2>1. m \in Nat /\ n \in Nat /\ ~(m < n)
    BY <1>1 DEF OpToRel
  <2> QED BY <2>1
<1> QED BY <1>2

LEMMA GreatestBelow ==
  ASSUME NEW b \in Nat, NEW T \in SUBSET (0..b), T # {}
  PROVE  \E n \in T : \A m \in T : n >= m
<1> DEFINE D == {d \in Nat : b - d \in T}
<1>1. D # {}
  <2>1. PICK m \in T : TRUE
    OBVIOUS
  <2>2. m \in 0..b /\ b - m \in Nat /\ b - (b - m) = m
    BY <2>1
  <2> QED BY <2>1, <2>2
<1>2. PICK d \in D : \A e \in D : d <= e
  BY <1>1, LeastNatural
<1>3. ASSUME NEW m \in T PROVE b - d >= m
  <2>1. m \in 0..b /\ b - m \in Nat /\ b - (b - m) = m
    OBVIOUS
  <2>2. d \in Nat /\ d <= b - m
    BY <1>2, <2>1
  <2> QED BY <2>1, <2>2
<1> QED BY <1>2, <1>3

(* Of numbered jobs of which r at most are remembered, dropping the oldest *)
(* for a new one leaves the new one, and no more than r.                   *)
LEMMA NewestStays ==
  ASSUME NEW K \in SUBSET Nat, IsFiniteSet(K), NEW j \in Nat, \A k \in K : k < j,
         NEW r \in Nat \ {0}, Cardinality(K) <= r,
         NEW o \in K \cup {j}, \A k \in K \cup {j} : o <= k,
         NEW kept,
         kept = IF Cardinality(K \cup {j}) > r THEN (K \cup {j}) \ {o} ELSE K \cup {j}
  PROVE  /\ j \in kept /\ kept \subseteq K \cup {j}
         /\ IsFiniteSet(kept) /\ Cardinality(kept) <= r
<1> DEFINE more == K \cup {j}
<1>1. Cardinality(K) \in Nat /\ j \notin K
  BY FS_CardinalityType
<1>2. IsFiniteSet(more) /\ Cardinality(more) = Cardinality(K) + 1
  BY <1>1, FS_AddElement
<1>3. CASE Cardinality(more) > r
  <2>1. K # {}
    <3>1. Cardinality(K) # 0
      BY <1>1, <1>2, <1>3
    <3> QED BY <3>1, FS_EmptySet
  <2>2. o # j
    <3>1. PICK k \in K : TRUE
      BY <2>1
    <3>2. o <= k /\ k < j /\ k \in Nat /\ o \in Nat
      BY <3>1
    <3> QED BY <3>2
  <2>3. kept = more \ {o}
    BY <1>3
  <2>4. o \in more
    OBVIOUS
  <2> HIDE DEF more
  <2>5. IsFiniteSet(more \ {o}) /\ Cardinality(more \ {o}) = Cardinality(more) - 1
    BY <1>2, <2>4, FS_RemoveElement
  <2> QED BY <1>1, <1>2, <2>2, <2>3, <2>5 DEF more
<1>4. CASE ~(Cardinality(more) > r)
  BY <1>1, <1>2, <1>4
<1> QED BY <1>3, <1>4

-----------------------------------------------------------------------------
(* One stream of the radio capture (RadioCapture). *)

Messages(h) == 1..Len(h)

(* The radio that signal s names is the one its messages name, ... *)
Names(h, s) ==
  /\ s.messages \subseteq Messages(h)
  /\ \A m \in s.messages : h[m].who \in {s.radio, Unnamed}

(* ... which belong to the segment from start to the packet at end. *)
Belongs(h, start, end, s) ==
  /\ \A m \in s.messages : h[m].at < end + Silence
  /\ s.messages # {} => \E m \in s.messages : h[m].at + Lookback >= start

HeardOK == \A m \in Messages(r_heard) : r_heard[m].at <= r_now

SegmentOK ==
  /\ Names(r_heard, r_signal)
  /\ r_open => /\ r_started \in Capture!Times /\ r_last \in Capture!Times
               /\ r_started <= r_now /\ r_last <= r_now
               /\ Belongs(r_heard, r_started, r_last, r_signal)

(* What waits for the next segment is as old as its newest message. *)
PreOK ==
  /\ Names(r_heard, r_pre)
  /\ r_preAt # NoStamp => r_preAt <= r_now
  /\ r_pre.messages # {} => \E m \in r_pre.messages : r_heard[m].at = r_preAt

HandedOK ==
  /\ r_used \subseteq Messages(r_heard)
  /\ Capture!Messages(r_job) \subseteq Messages(r_heard)
  /\ Capture!Messages(r_job) \cap r_used = {}
  /\ r_job # NoRecording => /\ Names(r_heard, r_job.signal)
                            /\ Belongs(r_heard, r_job.start, r_job.last, r_job.signal)

(* No message is in two places. *)
Once ==
  /\ r_signal.messages \cap r_pre.messages = {}
  /\ (r_signal.messages \cup r_pre.messages) \cap (r_used \cup Capture!Messages(r_job)) = {}

CaptureOK ==
  Capture!TypeOK /\ HeardOK /\ SegmentOK /\ PreOK /\ HandedOK /\ Once

LEMMA HeardTyped ==
  ASSUME Capture!TypeOK
  PROVE  \A m \in Messages(r_heard) : r_heard[m].at \in Nat
<1> DEFINE Heard == [who : RadioId \cup {Unnamed}, at : Capture!Times]
<1>1. r_heard \in Seq(Heard)
  BY DEF Capture!TypeOK
<1>2. \A x \in Heard : x.at \in Nat
  BY DEF Capture!Times
<1> HIDE DEF Heard
<1>3. \A m \in Messages(r_heard) : r_heard[m] \in Heard
  BY <1>1 DEF Messages
<1> QED BY <1>2, <1>3

(* The state of the segment before it is closed goes to its job. *)
LEMMA FinishHands ==
  ASSUME CaptureConstants, CaptureOK, r_open, Capture!Finish, UNCHANGED r_heard
  PROVE  /\ HandedOK'
         /\ r_used' \cup Capture!Messages(r_job)'
              \subseteq r_used \cup Capture!Messages(r_job) \cup r_signal.messages
         /\ r_job' \in [start : Capture!Times, last : Capture!Times,
                        signal : Capture!Signals] \cup {NoRecording}
         /\ r_used' \subseteq 1..MaxSignals
<1>0. /\ r_used \subseteq 1..MaxSignals
      /\ r_job \in [start : Capture!Times, last : Capture!Times,
                    signal : Capture!Signals] \cup {NoRecording}
      /\ r_signal \in Capture!Signals
  BY DEF CaptureOK, Capture!TypeOK
<1>1. CASE Capture!TooShort
  <2>1. UNCHANGED <<r_job, r_used>>
    BY <1>1 DEF Capture!Finish, Capture!handed
  <2> QED BY <1>0, <2>1 DEF CaptureOK, HandedOK, Capture!Messages, Names, Belongs, Messages
<1>2. CASE ~Capture!TooShort
  <2>1. /\ r_job' = [start |-> r_started, last |-> r_last, signal |-> r_signal]
        /\ r_used' = r_used \cup Capture!Messages(r_job)
    BY <1>2 DEF Capture!Finish
  <2>2. Capture!Messages(r_job) \subseteq 1..MaxSignals
    BY <1>0 DEF Capture!Messages, Capture!Signals
  <2>3. /\ r_started \in Capture!Times /\ r_last \in Capture!Times
        /\ Belongs(r_heard, r_started, r_last, r_signal) /\ Names(r_heard, r_signal)
    BY DEF CaptureOK, SegmentOK
  <2>4. Capture!Messages(r_job)' \subseteq r_signal.messages
    BY <2>1 DEF Capture!Messages
  <2>5. r_job' \in [start : Capture!Times, last : Capture!Times, signal : Capture!Signals]
    BY <1>0, <2>1, <2>3
  <2>6. HandedOK'
    <3>1. r_used' \subseteq Messages(r_heard)
      BY <2>1 DEF CaptureOK, HandedOK
    <3>2. Capture!Messages(r_job)' \subseteq Messages(r_heard)
      BY <2>3, <2>4 DEF Names
    <3>3. Capture!Messages(r_job)' \cap r_used' = {}
      BY <2>1, <2>4 DEF CaptureOK, Once
    <3>4. Names(r_heard, r_job'.signal)
          /\ Belongs(r_heard, r_job'.start, r_job'.last, r_job'.signal)
      BY <2>1, <2>3
    <3> QED BY <3>1, <3>2, <3>3, <3>4 DEF HandedOK
  <2> QED BY <1>0, <2>1, <2>2, <2>4, <2>5, <2>6
<1> QED BY <1>1, <1>2

(* A segment opens with what was heard shortly before it. *)
LEMMA OpenTakes ==
  ASSUME CaptureConstants, CaptureOK, Capture!Open, UNCHANGED <<r_now, r_heard>>
  PROVE  /\ SegmentOK' /\ PreOK'
         /\ r_signal'.messages \subseteq r_pre.messages /\ r_pre'.messages = {}
         /\ r_signal' \in Capture!Signals /\ r_pre' \in Capture!Signals
<1>1. /\ r_open' = TRUE /\ r_started' = r_now /\ r_last' = r_now
      /\ r_signal' = Capture!PreSignal /\ r_pre' = Capture!Silent /\ r_preAt' = NoStamp
  BY DEF Capture!Open, Capture!PreUsed
<1>2. /\ r_now \in Capture!Times /\ r_now \in Nat
      /\ r_pre \in Capture!Signals
      /\ r_preAt \in Nat \cup {NoStamp} /\ Lookback \in Nat /\ Silence \in Nat \ {0}
      /\ \A m \in Messages(r_heard) : r_heard[m].at \in Nat
  BY HeardTyped DEF CaptureOK, Capture!TypeOK, CaptureConstants, Capture!Times
<1>3. Capture!Silent \in Capture!Signals /\ Capture!Silent.messages = {}
  BY DEF Capture!Silent, Capture!Signals
<1>4. Names(r_heard, Capture!Silent)
  BY <1>3 DEF Names
<1>5. PreOK'
  BY <1>1, <1>3, <1>4 DEF PreOK
<1>6. CASE Capture!PreSignal = Capture!Silent
  <2>1. Belongs(r_heard, r_now, r_now, Capture!Silent)
    BY <1>3 DEF Belongs
  <2> QED BY <1>1, <1>2, <1>3, <1>4, <1>5, <1>6, <2>1 DEF SegmentOK, Capture!Times
<1>7. CASE Capture!PreSignal # Capture!Silent
  <2>1. r_signal' = r_pre /\ r_preAt # NoStamp /\ r_now - r_preAt <= Lookback
    BY <1>1, <1>7 DEF Capture!PreSignal
  <2>2. Names(r_heard, r_pre)
    BY DEF CaptureOK, PreOK
  <2>3. \A m \in r_pre.messages : r_heard[m].at < r_now + Silence
    BY <1>2, <2>2 DEF CaptureOK, HeardOK, Names
  <2>4. r_pre.messages # {} => \E m \in r_pre.messages : r_heard[m].at + Lookback >= r_now
    <3> SUFFICES ASSUME r_pre.messages # {}
                 PROVE  \E m \in r_pre.messages : r_heard[m].at + Lookback >= r_now
      OBVIOUS
    <3>1. PICK m \in r_pre.messages : r_heard[m].at = r_preAt
      BY DEF CaptureOK, PreOK
    <3> QED BY <1>2, <2>1, <3>1
  <2>5. Belongs(r_heard, r_now, r_now, r_pre)
    BY <2>3, <2>4 DEF Belongs
  <2> QED BY <1>1, <1>2, <1>3, <1>5, <2>1, <2>2, <2>5 DEF SegmentOK, Capture!Times
<1> QED BY <1>6, <1>7

(* Time goes by, and more is heard. *)
LEMMA HeardAppends ==
  ASSUME Capture!TypeOK, NEW x, x \in [who : RadioId \cup {Unnamed}, at : Capture!Times],
         r_heard' = Append(r_heard, x)
  PROVE  /\ Len(r_heard') = Len(r_heard) + 1 /\ Len(r_heard) \in Nat
         /\ r_heard'[Len(r_heard) + 1] = x
         /\ \A m \in Messages(r_heard) : r_heard'[m] = r_heard[m]
         /\ Messages(r_heard') = Messages(r_heard) \cup {Len(r_heard) + 1}
         /\ Len(r_heard) + 1 \notin Messages(r_heard)
         /\ r_heard' \in Seq([who : RadioId \cup {Unnamed}, at : Capture!Times])
<1>1. r_heard \in Seq([who : RadioId \cup {Unnamed}, at : Capture!Times])
  BY DEF Capture!TypeOK
<1>2. /\ Len(r_heard') = Len(r_heard) + 1 /\ Len(r_heard) \in Nat
      /\ r_heard'[Len(r_heard) + 1] = x
      /\ \A m \in 1..Len(r_heard) : r_heard'[m] = r_heard[m]
      /\ r_heard' \in Seq([who : RadioId \cup {Unnamed}, at : Capture!Times])
  BY <1>1
<1> QED BY <1>2 DEF Messages

(* A message that is folded in names the radio the others do. *)
LEMMA FoldNames ==
  ASSUME NEW s \in Capture!Signals, NEW who, NEW h, NEW g, NEW m,
         Names(h, s), Messages(h) \subseteq Messages(g), m \in Messages(g), g[m].who = who,
         \A k \in Messages(h) : g[k] = h[k],
         ~Capture!Conflict(s, who)
  PROVE  /\ Names(g, Capture!Fold(s, who, m))
         /\ Capture!Fold(s, who, m).messages = s.messages \cup {m}
<1>1. /\ Capture!Fold(s, who, m).messages = s.messages \cup {m}
      /\ Capture!Fold(s, who, m).radio = IF who = Unnamed THEN s.radio ELSE who
  BY DEF Capture!Fold
<1>2. who = Unnamed \/ s.radio = Unnamed \/ s.radio = who
  BY DEF Capture!Conflict
<1>3. \A k \in s.messages : g[k].who \in {s.radio, Unnamed}
  BY DEF Names
<1> QED BY <1>1, <1>2, <1>3 DEF Names

LEMMA FoldTyped ==
  ASSUME NEW s \in Capture!Signals, NEW who \in RadioId \cup {Unnamed}, NEW m \in 1..MaxSignals
  PROVE  Capture!Fold(s, who, m) \in Capture!Signals
BY DEF Capture!Fold, Capture!Signals

LEMMA NoteKeeps ==
  ASSUME CaptureConstants, CaptureOK, NEW who \in RadioId \cup {Unnamed}, Capture!Note(who)
  PROVE  CaptureOK'
<1> DEFINE m == Len(r_heard) + 1
<1>1. /\ r_heard' = Append(r_heard, [who |-> who, at |-> r_now])
      /\ Len(r_heard) < MaxSignals
      /\ UNCHANGED <<r_now, r_open, r_started, r_last, r_job, r_used>>
  BY DEF Capture!Note, Capture!handed
<1>2. /\ Capture!TypeOK /\ r_now \in Capture!Times /\ r_now \in Nat
      /\ r_signal \in Capture!Signals /\ r_pre \in Capture!Signals
      /\ Lookback \in Nat /\ Silence \in Nat \ {0} /\ MaxSignals \in Nat
      /\ NoStamp \notin Nat
  BY DEF CaptureOK, Capture!TypeOK, CaptureConstants, Capture!Times
<1>3. /\ Len(r_heard') = m /\ Len(r_heard) \in Nat
      /\ r_heard'[m] = [who |-> who, at |-> r_now]
      /\ \A k \in Messages(r_heard) : r_heard'[k] = r_heard[k]
      /\ Messages(r_heard') = Messages(r_heard) \cup {m} /\ m \notin Messages(r_heard)
      /\ r_heard' \in Seq([who : RadioId \cup {Unnamed}, at : Capture!Times])
  BY <1>1, <1>2, HeardAppends
<1>4. m \in 1..MaxSignals
  BY <1>1, <1>2, <1>3
<1> HIDE DEF m
<1>5. ASSUME NEW s, Names(r_heard, s) PROVE Names(r_heard', s)
  BY <1>3, <1>5 DEF Names
<1>6. ASSUME NEW s, NEW start, NEW end, Names(r_heard, s), Belongs(r_heard, start, end, s)
      PROVE  Belongs(r_heard', start, end, s)
  <2>1. \A k \in s.messages : r_heard'[k] = r_heard[k]
    BY <1>3, <1>6 DEF Names
  <2> QED BY <1>6, <2>1 DEF Belongs
<1>7. HeardOK'
  <2> SUFFICES ASSUME NEW k \in Messages(r_heard') PROVE r_heard'[k].at <= r_now
    BY <1>1 DEF HeardOK
  <2>1. CASE k = m
    BY <1>2, <1>3, <2>1
  <2>2. CASE k \in Messages(r_heard)
    BY <1>3, <2>2 DEF CaptureOK, HeardOK
  <2> QED BY <1>3, <2>1, <2>2
<1>8. HandedOK'
  <2>1. HandedOK
    BY DEF CaptureOK
  <2> QED BY <1>1, <1>3, <1>5, <1>6, <2>1 DEF HandedOK, Capture!Messages
<1>9. /\ m \notin r_used /\ m \notin Capture!Messages(r_job) /\ m \notin r_signal.messages
      /\ m \notin r_pre.messages /\ Capture!Messages(r_job)' = Capture!Messages(r_job)
  BY <1>1, <1>3 DEF CaptureOK, HandedOK, SegmentOK, PreOK, Names, Capture!Messages
<1>10. SegmentOK /\ PreOK /\ Once
  BY DEF CaptureOK
<1>11. Capture!Fold(r_signal, who, m) \in Capture!Signals
  BY <1>2, <1>4, FoldTyped
<1>12. CASE Capture!Live
  <2>1. UNCHANGED <<r_pre, r_preAt>>
    BY <1>12 DEF Capture!Note, Capture!NoteLive
  <2>2. PreOK'
    <3>1. r_preAt' # NoStamp => r_preAt' <= r_now'
      BY <1>1, <1>10, <2>1 DEF PreOK
    <3>2. \A k \in r_pre.messages : r_heard'[k] = r_heard[k]
      BY <1>3, <1>10 DEF PreOK, Names
    <3> QED BY <1>5, <1>10, <2>1, <3>1, <3>2 DEF PreOK
  <2>3. CASE Capture!Conflict(r_signal, who)
    <3>1. r_signal' = r_signal
      BY <1>12, <2>3 DEF Capture!Note, Capture!NoteLive
    <3>2. SegmentOK'
      BY <1>1, <1>5, <1>6, <1>10, <3>1 DEF SegmentOK
    <3>3. Once'
      BY <1>1, <1>9, <1>10, <2>1, <3>1 DEF Once
    <3>4. Capture!TypeOK'
      BY <1>1, <1>2, <1>3, <1>4, <2>1, <3>1 DEF Capture!TypeOK
    <3> QED BY <1>7, <1>8, <2>2, <3>2, <3>3, <3>4 DEF CaptureOK
  <2>4. CASE ~Capture!Conflict(r_signal, who)
    <3>1. r_signal' = Capture!Fold(r_signal, who, m)
      BY <1>3, <1>12, <2>4 DEF Capture!Note, Capture!NoteLive
    <3>2. Names(r_heard', r_signal') /\ r_signal'.messages = r_signal.messages \cup {m}
      <4>1. Names(r_heard, r_signal)
        BY <1>10 DEF SegmentOK
      <4>2. /\ Messages(r_heard) \subseteq Messages(r_heard') /\ m \in Messages(r_heard')
            /\ r_heard'[m].who = who
        BY <1>3
      <4> QED BY <1>2, <1>3, <2>4, <3>1, <4>1, <4>2, FoldNames
    <3>3. /\ r_open /\ r_now - r_last < Silence /\ r_last \in Nat /\ r_started \in Nat
          /\ r_started <= r_now
      BY <1>2, <1>10, <1>12 DEF Capture!Live, Capture!Idle, SegmentOK, Capture!Times
    <3>4. Belongs(r_heard', r_started, r_last, r_signal')
      <4>1. ASSUME NEW k \in r_signal'.messages PROVE r_heard'[k].at < r_last + Silence
        <5>1. CASE k = m
          BY <1>2, <1>3, <3>3, <5>1
        <5>2. CASE k \in r_signal.messages
          BY <1>3, <1>10, <3>3, <5>2 DEF SegmentOK, Belongs, Names
        <5> QED BY <3>2, <5>1, <5>2
      <4>2. r_heard'[m].at + Lookback >= r_started
        BY <1>2, <1>3, <3>3
      <4> QED BY <3>2, <4>1, <4>2 DEF Belongs
    <3>5. SegmentOK'
      BY <1>1, <1>10, <3>2, <3>3, <3>4 DEF SegmentOK
    <3>6. Once'
      BY <1>1, <1>9, <1>10, <2>1, <3>2 DEF Once
    <3>7. Capture!TypeOK'
      BY <1>1, <1>2, <1>3, <1>4, <1>11, <2>1, <3>1 DEF Capture!TypeOK
    <3> QED BY <1>7, <1>8, <2>2, <3>5, <3>6, <3>7 DEF CaptureOK
  <2> QED BY <2>3, <2>4
<1>13. CASE ~Capture!Live
  <2>1. r_signal' = r_signal /\ r_preAt' = r_now
    BY <1>13 DEF Capture!Note, Capture!NoteNext
  <2>2. PICK s \in {r_pre, Capture!Silent} :
          r_pre' = Capture!Fold(s, who, m) /\ ~Capture!Conflict(s, who)
    BY <1>3, <1>13 DEF Capture!Note, Capture!NoteNext, Capture!Conflict, Capture!Silent
  <2>3. s \in Capture!Signals /\ Names(r_heard, s) /\ s.messages \subseteq r_pre.messages
    <3>1. CASE s = r_pre
      BY <1>2, <1>10, <3>1 DEF PreOK
    <3>2. CASE s = Capture!Silent
      BY <3>2 DEF Capture!Silent, Capture!Signals, Names
    <3> QED BY <2>2, <3>1, <3>2
  <2>4. Names(r_heard', r_pre') /\ r_pre'.messages = s.messages \cup {m}
    <3>1. /\ Messages(r_heard) \subseteq Messages(r_heard') /\ m \in Messages(r_heard')
          /\ r_heard'[m].who = who
          /\ \A k \in Messages(r_heard) : r_heard'[k] = r_heard[k]
      BY <1>3
    <3>2. /\ Names(r_heard', Capture!Fold(s, who, m))
          /\ Capture!Fold(s, who, m).messages = s.messages \cup {m}
      BY <2>2, <2>3, <3>1, FoldNames
    <3> QED BY <2>2, <3>2
  <2>5. PreOK'
    BY <1>1, <1>2, <1>3, <2>1, <2>4 DEF PreOK
  <2>6. SegmentOK'
    BY <1>1, <1>5, <1>6, <1>10, <2>1 DEF SegmentOK
  <2>7. Once'
    BY <1>1, <1>9, <1>10, <2>1, <2>3, <2>4 DEF Once
  <2>8. r_pre' \in Capture!Signals
    BY <1>4, <2>2, <2>3, FoldTyped
  <2>9. Capture!TypeOK'
    BY <1>1, <1>2, <1>3, <1>4, <2>1, <2>8 DEF Capture!TypeOK
  <2> QED BY <1>7, <1>8, <2>5, <2>6, <2>7, <2>9 DEF CaptureOK
<1> QED BY <1>12, <1>13

(* A segment is closed: what it was told is handed on, or dropped. *)
LEMMA CloseKeeps ==
  ASSUME CaptureConstants, CaptureOK, r_open, Capture!Close,
         UNCHANGED <<r_now, r_heard>>,
         UNCHANGED <<r_pre, r_preAt>> \/ Capture!PreUsed
  PROVE  CaptureOK'
<1>1. /\ r_open' = FALSE /\ r_started' = NoStamp /\ r_last' = NoStamp
      /\ r_signal' = Capture!Silent /\ Capture!Finish
  BY DEF Capture!Close
<1>2. /\ HandedOK'
      /\ r_used' \cup Capture!Messages(r_job)'
           \subseteq r_used \cup Capture!Messages(r_job) \cup r_signal.messages
      /\ r_job' \in [start : Capture!Times, last : Capture!Times,
                     signal : Capture!Signals] \cup {NoRecording}
      /\ r_used' \subseteq 1..MaxSignals
  BY <1>1, FinishHands
<1>3. /\ Capture!Silent \in Capture!Signals /\ Capture!Silent.messages = {}
      /\ Names(r_heard, Capture!Silent)
  BY DEF Capture!Silent, Capture!Signals, Names
<1>4. PreOK' /\ r_pre'.messages \subseteq r_pre.messages /\ r_pre' \in Capture!Signals
      /\ r_preAt' \in Capture!Times \cup {NoStamp}
  <2>1. CASE UNCHANGED <<r_pre, r_preAt>>
    BY <2>1 DEF CaptureOK, PreOK, Names, Capture!TypeOK
  <2>2. CASE Capture!PreUsed
    <3>1. r_pre' = Capture!Silent /\ r_preAt' = NoStamp
      BY <2>2 DEF Capture!PreUsed
    <3> QED BY <1>3, <3>1 DEF PreOK
  <2> QED BY <2>1, <2>2
<1>5. SegmentOK'
  BY <1>1, <1>3 DEF SegmentOK
<1>6. Once'
  BY <1>1, <1>2, <1>3, <1>4 DEF CaptureOK, Once
<1>7. Capture!TypeOK'
  BY <1>1, <1>2, <1>3, <1>4 DEF CaptureOK, Capture!TypeOK
<1>8. HeardOK'
  BY DEF CaptureOK, HeardOK
<1> QED BY <1>2, <1>4, <1>5, <1>6, <1>7, <1>8 DEF CaptureOK

(* A packet extends the open segment or opens one, after closing another.  *)
LEMMA VoiceKeeps ==
  ASSUME CaptureConstants, CaptureOK, Capture!Voice PROVE CaptureOK'
<1>0. UNCHANGED <<r_now, r_heard>>
  BY DEF Capture!Voice
<1>1. HeardOK'
  BY <1>0 DEF CaptureOK, HeardOK
<1>2. /\ r_now \in Capture!Times /\ r_now \in Nat /\ Silence \in Nat /\ NoStamp \notin Capture!Times
      /\ \A m \in Messages(r_heard) : r_heard[m].at \in Nat
  BY HeardTyped DEF CaptureOK, Capture!TypeOK, CaptureConstants, Capture!Times
<1>3. CASE r_open /\ ~Capture!Idle /\ ~Capture!Expired
  <2>1. /\ r_last' = r_now
        /\ UNCHANGED <<r_open, r_started, r_signal, r_pre, r_preAt, r_job, r_used>>
    BY <1>3 DEF Capture!Voice, Capture!handed
  <2>2. SegmentOK'
    <3>1. /\ r_started \in Capture!Times /\ r_started <= r_now /\ r_last <= r_now
          /\ r_last \in Capture!Times
          /\ Names(r_heard, r_signal) /\ Belongs(r_heard, r_started, r_last, r_signal)
      BY <1>3 DEF CaptureOK, SegmentOK
    <3>2. \A m \in r_signal.messages : r_heard[m].at < r_now + Silence
      BY <1>2, <3>1 DEF Belongs, Names, Capture!Times
    <3>3. Belongs(r_heard, r_started, r_now, r_signal)
      BY <3>1, <3>2 DEF Belongs
    <3> QED BY <1>0, <1>2, <2>1, <3>1, <3>3 DEF SegmentOK, Capture!Times
  <2>3. PreOK' /\ HandedOK' /\ Once'
    BY <1>0, <2>1 DEF CaptureOK, PreOK, HandedOK, Once, Capture!Messages, Names, Belongs
  <2>4. Capture!TypeOK'
    BY <1>0, <1>2, <1>3, <2>1 DEF CaptureOK, Capture!TypeOK
  <2> QED BY <1>1, <2>2, <2>3, <2>4 DEF CaptureOK
<1>4. CASE ~(r_open /\ ~Capture!Idle /\ ~Capture!Expired)
  <2>1. Capture!Open /\ (IF r_open THEN Capture!Finish ELSE UNCHANGED <<r_job, r_used>>)
    BY <1>4 DEF Capture!Voice, Capture!handed
  <2>2. /\ SegmentOK' /\ PreOK'
        /\ r_signal'.messages \subseteq r_pre.messages /\ r_pre'.messages = {}
        /\ r_signal' \in Capture!Signals /\ r_pre' \in Capture!Signals
    BY <1>0, <2>1, OpenTakes
  <2>3. /\ HandedOK'
        /\ r_used' \cup Capture!Messages(r_job)'
             \subseteq r_used \cup Capture!Messages(r_job) \cup r_signal.messages
        /\ r_job' \in [start : Capture!Times, last : Capture!Times,
                       signal : Capture!Signals] \cup {NoRecording}
        /\ r_used' \subseteq 1..MaxSignals
    <3>1. CASE r_open
      BY <1>0, <2>1, <3>1, FinishHands
    <3>2. CASE ~r_open
      <4>1. UNCHANGED <<r_job, r_used>>
        BY <2>1, <3>2
      <4> QED BY <1>0, <4>1
              DEF CaptureOK, HandedOK, Capture!TypeOK, Capture!Messages, Names, Belongs
    <3> QED BY <3>1, <3>2
  <2>4. Once'
    BY <2>2, <2>3 DEF CaptureOK, Once
  <2>5. r_open' = TRUE /\ r_started' = r_now /\ r_last' = r_now /\ r_preAt' = NoStamp
    BY <2>1 DEF Capture!Open, Capture!PreUsed
  <2>6. Capture!TypeOK'
    BY <1>0, <1>2, <2>2, <2>3, <2>5 DEF CaptureOK, Capture!TypeOK
  <2> QED BY <1>1, <2>2, <2>3, <2>4, <2>6 DEF CaptureOK
<1> QED BY <1>3, <1>4

(* The loop ends, or the process, with no segment handed over. *)
LEMMA RecordingEnds ==
  ASSUME CaptureConstants, CaptureOK, Capture!PreUsed,
         UNCHANGED <<r_now, r_heard, r_job, r_used>>,
         \/ UNCHANGED <<r_open, r_started, r_last, r_signal>>
         \/ /\ r_open' = FALSE /\ r_started' = NoStamp /\ r_last' = NoStamp
            /\ r_signal' = Capture!Silent
  PROVE  CaptureOK'
<1>1. r_pre' = Capture!Silent /\ r_preAt' = NoStamp
  BY DEF Capture!PreUsed
<1>2. /\ Capture!Silent \in Capture!Signals /\ Capture!Silent.messages = {}
      /\ Names(r_heard, Capture!Silent)
  BY DEF Capture!Silent, Capture!Signals, Names
<1>3. HeardOK' /\ HandedOK' /\ PreOK'
  BY <1>1, <1>2 DEF CaptureOK, HeardOK, HandedOK, PreOK, Capture!Messages, Names, Belongs
<1>4. CASE UNCHANGED <<r_open, r_started, r_last, r_signal>>
  <2>1. SegmentOK'
    BY <1>4 DEF CaptureOK, SegmentOK, Names, Belongs
  <2>2. Once'
    BY <1>1, <1>2, <1>4 DEF CaptureOK, Once, Capture!Messages
  <2>3. Capture!TypeOK'
    BY <1>1, <1>2, <1>4 DEF CaptureOK, Capture!TypeOK
  <2> QED BY <1>3, <2>1, <2>2, <2>3 DEF CaptureOK
<1>5. CASE /\ r_open' = FALSE /\ r_started' = NoStamp /\ r_last' = NoStamp
           /\ r_signal' = Capture!Silent
  <2>1. SegmentOK'
    BY <1>2, <1>5 DEF SegmentOK
  <2>2. Once'
    BY <1>1, <1>2, <1>5 DEF Once
  <2>3. Capture!TypeOK'
    BY <1>1, <1>2, <1>5 DEF CaptureOK, Capture!TypeOK
  <2> QED BY <1>3, <2>1, <2>2, <2>3 DEF CaptureOK
<1> QED BY <1>4, <1>5

LEMMA TickKeeps ==
  ASSUME CaptureConstants, CaptureOK, Capture!Tick PROVE CaptureOK'
<1>1. /\ r_now' = r_now + 1 /\ r_now < LastTick
      /\ UNCHANGED <<r_open, r_started, r_last, r_signal, r_pre, r_preAt, r_job, r_used, r_heard>>
  BY DEF Capture!Tick, Capture!segment, Capture!handed
<1>2. /\ r_now \in Nat /\ r_now' \in Capture!Times
      /\ \A m \in Messages(r_heard) : r_heard[m].at \in Nat
  BY <1>1, HeardTyped DEF CaptureOK, Capture!TypeOK, Capture!Times, CaptureConstants
<1>3. HeardOK'
  BY <1>1, <1>2 DEF CaptureOK, HeardOK
<1>4. SegmentOK'
  <2>1. Names(r_heard, r_signal)
    BY DEF CaptureOK, SegmentOK
  <2>2. r_open => /\ r_started \in Capture!Times /\ r_last \in Capture!Times
                  /\ r_started <= r_now' /\ r_last <= r_now'
                  /\ Belongs(r_heard, r_started, r_last, r_signal)
    BY <1>1, <1>2 DEF CaptureOK, SegmentOK, Capture!Times
  <2> QED BY <1>1, <2>1, <2>2 DEF SegmentOK
<1>5. PreOK'
  <2>1. r_preAt # NoStamp => r_preAt <= r_now'
    BY <1>1, <1>2 DEF CaptureOK, PreOK, Capture!TypeOK, Capture!Times
  <2> QED BY <1>1, <2>1 DEF CaptureOK, PreOK
<1>6. HandedOK' /\ Once'
  BY <1>1 DEF CaptureOK, HandedOK, Once, Capture!Messages, Names, Belongs
<1>7. Capture!TypeOK'
  BY <1>1, <1>2 DEF CaptureOK, Capture!TypeOK
<1> QED BY <1>3, <1>4, <1>5, <1>6, <1>7 DEF CaptureOK

LEMMA CaptureNext ==
  CaptureConstants /\ CaptureOK /\ [Capture!Next]_(Capture!vars) => CaptureOK'
<1> SUFFICES ASSUME CaptureConstants, CaptureOK, [Capture!Next]_(Capture!vars)
             PROVE  CaptureOK'
  OBVIOUS
<1>1. CASE UNCHANGED Capture!vars
  <2>1. UNCHANGED <<r_now, r_open, r_started, r_last, r_signal, r_pre, r_preAt, r_job,
                    r_used, r_heard>>
    BY <1>1 DEF Capture!vars, Capture!segment, Capture!handed
  <2>2. HeardOK' /\ SegmentOK' /\ PreOK'
    BY <2>1 DEF CaptureOK, HeardOK, SegmentOK, PreOK, Names, Belongs
  <2>3. HandedOK' /\ Once' /\ Capture!TypeOK'
    BY <2>1 DEF CaptureOK, HandedOK, Once, Capture!TypeOK, Capture!Messages, Names, Belongs
  <2> QED BY <2>2, <2>3 DEF CaptureOK
<1>2. CASE Capture!Check
  BY <1>2, CloseKeeps DEF Capture!Check, Capture!Idle, Capture!Expired
<1>3. CASE Capture!Stop
  <2>1. CASE r_open
    BY <1>3, <2>1, CloseKeeps DEF Capture!Stop
  <2>2. CASE ~r_open
    BY <1>3, <2>2, RecordingEnds DEF Capture!Stop, Capture!segment, Capture!handed
  <2> QED BY <2>1, <2>2
<1>4. CASE Capture!Crash
  BY <1>4, RecordingEnds DEF Capture!Crash, Capture!handed
<1> QED BY <1>1, <1>2, <1>3, <1>4, TickKeeps, VoiceKeeps, NoteKeeps DEF Capture!Next

(* The invariant of the capture, and what it is there for. *)
LEMMA CaptureInvariant == Capture!Spec => []CaptureOK
<1> USE CaptureAssumption
<1>1. Capture!Init => CaptureOK
  <2> SUFFICES ASSUME Capture!Init PROVE CaptureOK
    OBVIOUS
  <2>1. /\ r_open = FALSE /\ r_started = NoStamp /\ r_last = NoStamp
        /\ r_signal = Capture!Silent /\ r_pre = Capture!Silent /\ r_preAt = NoStamp
        /\ r_job = NoRecording /\ r_used = {} /\ r_heard = << >> /\ r_now = 0
    BY DEF Capture!Init
  <2>2. /\ Capture!Silent \in Capture!Signals /\ Capture!Silent.messages = {}
        /\ Names(r_heard, Capture!Silent)
    BY DEF Capture!Silent, Capture!Signals, Names
  <2>5. Capture!Messages(r_job) = {}
    BY <2>1 DEF Capture!Messages
  <2>6. Len(r_heard) = 0
    BY <2>1
  <2>7. 1..0 = {}
    OBVIOUS
  <2>3. (Capture!Messages(r_job) = {}) /\ (Messages(r_heard) = {})
    BY <2>5, <2>6, <2>7 DEF Messages
  <2>70. (r_now \in Capture!Times) /\ (Len(r_heard) <= MaxSignals)
    BY <2>1, <2>6 DEF Capture!Times, CaptureConstants
  <2>8. r_heard \in Seq([who : RadioId \cup {Unnamed}, at : Capture!Times])
    BY <2>1
  <2>9. /\ r_open \in BOOLEAN
        /\ r_started = NoStamp
        /\ r_last = NoStamp
        /\ r_open = (r_started # NoStamp)
        /\ r_open = (r_last # NoStamp)
    BY <2>1
  <2>4. Capture!TypeOK
    BY <2>1, <2>2, <2>70, <2>8, <2>9, Zenon DEF Capture!TypeOK
  <2> QED BY <2>1, <2>2, <2>3, <2>4 DEF CaptureOK, HeardOK, SegmentOK, PreOK, HandedOK, Once
<1>2. CaptureConstants
  OBVIOUS
<1> QED BY <1>1, <1>2, CaptureNext, PTL DEF Capture!Spec

(* The radio on a recording is the one that talked, as far as signalling   *)
(* says (note_signal, start_segment, finish_segment), however voice,       *)
(* signals, checks and clock come together and whatever the limits are     *)
(* set to.                                                                 *)
THEOREM SignalsBelong == Capture!Spec => []SignalBelongs
<1> USE CaptureAssumption
<1>1. CaptureOK => Capture!SignalBelongs
  <2> SUFFICES ASSUME CaptureOK, r_job # NoRecording PROVE Capture!SignalBelongs
    BY DEF Capture!SignalBelongs
  <2>1. /\ Capture!Messages(r_job) = r_job.signal.messages
        /\ Capture!Messages(r_job) \cap r_used = {}
        /\ Names(r_heard, r_job.signal)
        /\ Belongs(r_heard, r_job.start, r_job.last, r_job.signal)
    BY DEF CaptureOK, HandedOK, Capture!Messages
  <2>2. \A m \in r_job.signal.messages : /\ r_heard[m].at < r_job.last + Silence
                                         /\ r_heard[m].who \in {r_job.signal.radio, Unnamed}
    BY <2>1 DEF Names, Belongs
  <2>3. r_job.signal.messages # {} =>
          \E m \in r_job.signal.messages : r_heard[m].at + Lookback >= r_job.start
    BY <2>1 DEF Belongs
  <2> QED BY <2>1, <2>2, <2>3 DEF Capture!SignalBelongs
<1> QED BY <1>1, CaptureInvariant, PTL DEF SignalBelongs

-----------------------------------------------------------------------------
(* The webhooks of the CAD (Realtime). *)

LEMMA WebhooksCount == \A S : Webhooks!Cardinality(S) = Cardinality(S)
BY Zenon DEF Webhooks!Cardinality, Cardinality

LEMMA WebhooksMax ==
  ASSUME NEW b \in Nat, NEW T \in SUBSET (0..b), T # {}
  PROVE  Webhooks!Max(T) \in T /\ \A m \in T : Webhooks!Max(T) >= m
BY GreatestBelow DEF Webhooks!Max

(* Types that the steps keep by themselves. *)
WebhookTypes ==
  /\ w_cache \in Seq(Event) /\ Len(w_cache) <= CacheSize
  /\ \A i, j \in DOMAIN w_cache : w_cache[i] = w_cache[j] => i = j
  /\ w_pc \in [Request -> {"idle", "record", "publish"}]
  /\ w_work \in [Request -> Nat \cup {NoArrival}]
  /\ \A r \in Request : w_pc[r] # "idle" => w_work[r] \in DOMAIN w_arrivals
  /\ w_arrivals \in Seq([event : Event, life : Nat, kept : BOOLEAN])
  /\ Len(w_arrivals) <= MaxArrivals
  /\ w_published \in Seq(Nat)
  /\ \A i \in DOMAIN w_published : w_published[i] \in DOMAIN w_arrivals
  /\ w_life \in Nat

(* What a browser has still to read: see NewestKept. *)
QueuesOK ==
  /\ DOMAIN w_queue = Browser
  /\ w_behind \in [Browser -> 0..Len(w_published)]
  /\ \A b \in Browser :
       Webhooks!Connected(b) =>
         /\ w_queue[b] = SubSeq(w_published, w_behind[b] + 1, Len(w_published))
         /\ Len(w_queue[b]) <= QueueSize

-----------------------------------------------------------------------------
(* The events that came after arrival p. *)
After(p) == {Webhooks!EventOf(k) : k \in (p + 1)..Len(w_arrivals)}

(* p is the last arrival of its event. *)
IsLast(p) ==
  /\ p \in DOMAIN w_arrivals
  /\ \A k \in (p + 1)..Len(w_arrivals) : Webhooks!EventOf(k) # Webhooks!EventOf(p)

(* Those of the cache that lie behind its i-th. *)
Behind(i) == {w_cache[j] : j \in (i + 1)..Len(w_cache)}

(* An event of the cache came last as long ago as the events behind it     *)
(* say, one that is not there longer ago than the cache reaches.           *)
CacheOK ==
  /\ \A i \in DOMAIN w_cache : \E p \in DOMAIN w_arrivals :
       /\ IsLast(p) /\ Webhooks!EventOf(p) = w_cache[i]
       /\ w_arrivals[p].life = w_life /\ After(p) = Behind(i)
  /\ \A p \in DOMAIN w_arrivals :
       w_arrivals[p].life = w_life /\ IsLast(p)
         /\ (\A i \in DOMAIN w_cache : w_cache[i] # Webhooks!EventOf(p))
       => Cardinality(After(p)) >= CacheSize

(* Arrival n had left the cache, if it had ever been there. *)
Aged(n) ==
  \A p \in 1..(n - 1) :
    /\ Webhooks!EventOf(p) = Webhooks!EventOf(n)
    /\ \A k \in (p + 1)..(n - 1) : Webhooks!EventOf(k) # Webhooks!EventOf(n)
    /\ w_arrivals[p].life = w_arrivals[n].life
    => Cardinality({Webhooks!EventOf(k) : k \in (p + 1)..(n - 1)}) >= CacheSize

(* Arrival n is on its way to the browsers, or was. *)
Passed(n) ==
  \/ \E r \in Request : w_pc[r] # "idle" /\ w_work[r] = n
  \/ \E i \in DOMAIN w_published : w_published[i] = n

AgedOK ==
  /\ \A p \in DOMAIN w_arrivals : w_arrivals[p].life <= w_life
  /\ \A n \in DOMAIN w_arrivals : Passed(n) => Aged(n)

(* An event the database took note of is taken note of once. *)
KeptOnce ==
  /\ \A n \in DOMAIN w_arrivals :
       w_arrivals[n].kept => Webhooks!EventOf(n) \in w_recorded
  /\ \A m, n \in DOMAIN w_arrivals :
       w_arrivals[m].kept /\ w_arrivals[n].kept
         /\ Webhooks!EventOf(m) = Webhooks!EventOf(n) => m = n

WebhooksOK == WebhookTypes /\ QueuesOK /\ CacheOK /\ AgedOK /\ KeptOnce

-----------------------------------------------------------------------------
(* Ends of sequences. *)
LEMMA EndAppended ==
  ASSUME NEW S, NEW s \in Seq(S), NEW x \in S, NEW a \in 0..Len(s)
  PROVE  SubSeq(Append(s, x), a + 1, Len(s) + 1)
           = Append(SubSeq(s, a + 1, Len(s)), x)
<1> DEFINE t == Append(s, x)
           n == Len(s)
           left == SubSeq(t, a + 1, n + 1)
           end == SubSeq(s, a + 1, n)
           right == Append(end, x)
<1>1. /\ n \in Nat /\ a \in 0..n /\ t \in Seq(S) /\ Len(t) = n + 1 /\ t[n + 1] = x
      /\ \A i \in 1..n : t[i] = s[i]
  OBVIOUS
<1>2. /\ end \in Seq(S) /\ Len(end) = n - a
      /\ \A i \in 1..(n - a) : end[i] = s[a + i]
  BY <1>1
<1> HIDE DEF t, n
<1>3. /\ left \in Seq(S) /\ Len(left) = n + 1 - a
      /\ \A i \in 1..(n + 1 - a) : left[i] = t[a + i]
  BY <1>1
<1> HIDE DEF end, left
<1>4. /\ right \in Seq(S) /\ Len(right) = n + 1 - a /\ right[n + 1 - a] = x
      /\ \A i \in 1..(n - a) : right[i] = end[i]
  <2>1. /\ right \in Seq(S) /\ Len(right) = Len(end) + 1
        /\ right[Len(end) + 1] = x /\ \A i \in 1..Len(end) : right[i] = end[i]
    BY <1>2
  <2>2. Len(end) = n - a /\ Len(end) + 1 = n + 1 - a
    BY <1>1, <1>2
  <2> QED BY <2>1, <2>2
<1> HIDE DEF right
<1>5. \A i \in 1..(n + 1 - a) : left[i] = right[i]
  <2> TAKE i \in 1..(n + 1 - a)
  <2>1. CASE i = n + 1 - a
    BY <1>1, <1>3, <1>4, <2>1
  <2>2. CASE i # n + 1 - a
    <3>1. i \in 1..(n - a) /\ a + i \in 1..n
      BY <2>2, <1>1
    <3> QED BY <3>1, <1>1, <1>2, <1>3, <1>4
  <2> QED BY <2>1, <2>2
<1>6. left = right
  BY <1>1, <1>3, <1>4, <1>5
<1> QED BY <1>6 DEF left, right, end, t, n

LEMMA EndIs ==
  ASSUME NEW S, NEW s \in Seq(S), NEW a \in 0..Len(s)
  PROVE  /\ SubSeq(s, a + 1, Len(s)) \in Seq(S)
         /\ Len(SubSeq(s, a + 1, Len(s))) = Len(s) - a
OBVIOUS

LEMMA EndTail ==
  ASSUME NEW S, NEW s \in Seq(S), NEW a \in 0..Len(s), a < Len(s)
  PROVE  Tail(SubSeq(s, a + 1, Len(s))) = SubSeq(s, a + 1 + 1, Len(s))
OBVIOUS

LEMMA WebhooksBegin == Webhooks!Init => WebhooksOK
<1> SUFFICES ASSUME Webhooks!Init PROVE WebhooksOK
  OBVIOUS
<1> USE WebhookAssumption DEF WebhookConstants, Webhooks!Init
<1>1. /\ Len(<<>>) = 0 /\ DOMAIN <<>> = {} /\ <<>> \in Seq(Event)
      /\ <<>> \in Seq(Nat) /\ <<>> \in Seq([event : Event, life : Nat, kept : BOOLEAN])
  OBVIOUS
<1>2. WebhookTypes
  <2>1. w_pc \in [Request -> {"idle", "record", "publish"}]
        /\ w_work \in [Request -> Nat \cup {NoArrival}]
        /\ \A r \in Request : w_pc[r] = "idle"
    OBVIOUS
  <2> QED BY <1>1, <2>1 DEF WebhookTypes
<1>3. QueuesOK
  <2>1. DOMAIN w_queue = Browser /\ \A b \in Browser : ~Webhooks!Connected(b)
    BY DEF Webhooks!Connected
  <2>2. w_behind \in [Browser -> 0..0] /\ Len(w_published) = 0
    BY <1>1
  <2> QED BY <2>1, <2>2 DEF QueuesOK
<1>4. CacheOK
  BY <1>1 DEF CacheOK
<1>5. AgedOK
  <2>1. \A r \in Request : w_pc[r] = "idle"
    OBVIOUS
  <2> QED BY <1>1, <2>1 DEF AgedOK, Passed
<1>6. KeptOnce
  BY <1>1 DEF KeptOnce
<1> QED BY <1>2, <1>3, <1>4, <1>5, <1>6 DEF WebhooksOK

-----------------------------------------------------------------------------
(* What an arrival changes. *)
LEMMA Arrives ==
  ASSUME WebhookTypes, NEW e \in Event, NEW n, n = Len(w_arrivals) + 1,
         w_arrivals' = Append(w_arrivals, [event |-> e, life |-> w_life, kept |-> FALSE])
  PROVE  /\ DOMAIN w_arrivals = 1..(n - 1) /\ DOMAIN w_arrivals' = 1..n
         /\ n \in Nat /\ n - 1 \in Nat /\ Len(w_arrivals') = n
         /\ \A p \in 1..(n - 1) : w_arrivals'[p] = w_arrivals[p]
         /\ w_arrivals'[n] = [event |-> e, life |-> w_life, kept |-> FALSE]
         /\ \A p \in 1..(n - 1) : After(p)' = After(p) \cup {e}
         /\ \A p \in 1..(n - 1) :
              IsLast(p)' <=> IsLast(p) /\ Webhooks!EventOf(p) # e
         /\ After(n)' = {} /\ IsLast(n)'
<1> DEFINE a == [event |-> e, life |-> w_life, kept |-> FALSE]
<1>1. /\ n \in Nat /\ n - 1 \in Nat /\ Len(w_arrivals) = n - 1
      /\ DOMAIN w_arrivals = 1..(n - 1)
      /\ DOMAIN w_arrivals' = 1..n /\ Len(w_arrivals') = n
      /\ \A p \in 1..(n - 1) : w_arrivals'[p] = w_arrivals[p]
      /\ w_arrivals'[n] = a
  BY DEF WebhookTypes
<1>2. a.event = e
  OBVIOUS
<1> HIDE DEF a
<1>3. ASSUME NEW p \in 1..(n - 1)
      PROVE  /\ After(p)' = After(p) \cup {e}
             /\ IsLast(p)' <=> IsLast(p) /\ Webhooks!EventOf(p) # e
  <2>1. (p + 1)..n = ((p + 1)..(n - 1)) \cup {n}
    BY <1>1
  <2>2. \A k \in (p + 1)..(n - 1) : k \in 1..(n - 1)
    BY <1>1
  <2>3. w_arrivals'[n].event = e /\ w_arrivals'[p] = w_arrivals[p]
    BY <1>1, <1>2
  <2>4. After(p)' = After(p) \cup {e}
    BY <1>1, <2>1, <2>2, <2>3 DEF After, Webhooks!EventOf
  <2>5. p \in 1..n
    BY <1>1
  <2>6. IsLast(p)' <=> IsLast(p) /\ Webhooks!EventOf(p) # e
    BY <1>1, <2>1, <2>2, <2>3, <2>5 DEF IsLast, Webhooks!EventOf
  <2> QED BY <2>4, <2>6
<1>4. After(n)' = {} /\ IsLast(n)'
  <2>1. (n + 1)..n = {} /\ n \in 1..n
    BY <1>1
  <2> QED BY <1>1, <2>1 DEF After, IsLast
<1> QED BY <1>1, <1>3, <1>4 DEF a

(* The cache after an event that it knows, ... *)
LEMMA CacheRenews ==
  ASSUME WebhookTypes, NEW i \in DOMAIN w_cache, 
         w_cache' = Webhooks!Renewed(w_cache[i])
  PROVE  LET len == Len(w_cache)
         IN  /\ w_cache' \in Seq(Event) /\ Len(w_cache') = len
             /\ i \in 1..len /\ len \in Nat
             /\ \A j \in 1..(i - 1) : w_cache'[j] = w_cache[j]
             /\ \A j \in i..(len - 1) : w_cache'[j] = w_cache[j + 1]
             /\ w_cache'[len] = w_cache[i]
             /\ \A j, k \in DOMAIN w_cache' : w_cache'[j] = w_cache'[k] => j = k
<1> DEFINE len == Len(w_cache)
<1>1. /\ w_cache \in Seq(Event) /\ len \in Nat /\ DOMAIN w_cache = 1..len
      /\ \A j, k \in 1..len : w_cache[j] = w_cache[k] => j = k
  BY DEF WebhookTypes
<1>2. (CHOOSE j \in DOMAIN w_cache : w_cache[j] = w_cache[i]) = i
  BY <1>1
<1>3. w_cache' = Append(SubSeq(w_cache, 1, i - 1) \o SubSeq(w_cache, i + 1, len), w_cache[i])
  BY <1>2 DEF Webhooks!Renewed, Webhooks!RemoveAt
<1> DEFINE before == SubSeq(w_cache, 1, i - 1)
           behind == SubSeq(w_cache, i + 1, len)
<1>4. /\ i \in 1..len
      /\ before \in Seq(Event) /\ Len(before) = i - 1
      /\ \A j \in 1..(i - 1) : before[j] = w_cache[j]
  BY <1>1
<1>5. /\ behind \in Seq(Event) /\ Len(behind) = len - i
      /\ \A j \in 1..(len - i) : behind[j] = w_cache[i + j]
  BY <1>1
<1> HIDE DEF before, behind, len
<1>6. w_cache' = Append(before \o behind, w_cache[i])
  BY <1>3 DEF before, behind
<1> DEFINE both == before \o behind
<1>10. /\ both \in Seq(Event) /\ Len(both) = len - 1
       /\ \A j \in 1..(i - 1) : both[j] = before[j]
       /\ \A j \in i..(len - 1) : both[j] = behind[j - (i - 1)]
  <2>1. /\ both \in Seq(Event) /\ Len(both) = Len(before) + Len(behind)
        /\ \A j \in 1..Len(both) :
             both[j] = IF j <= Len(before) THEN before[j]
                       ELSE behind[j - Len(before)]
    BY <1>4, <1>5
  <2>2. i - 1 \in Nat /\ len \in Nat /\ (i - 1) + (len - i) = len - 1
    BY <1>1, <1>4
  <2>3. Len(both) = len - 1
    BY <2>1, <2>2, <1>4, <1>5
  <2> HIDE DEF both
  <2>4. \A j \in 1..(i - 1) : both[j] = before[j]
    BY <2>1, <2>2, <2>3, <1>1, <1>4
  <2>5. \A j \in i..(len - 1) : both[j] = behind[j - (i - 1)]
    <3> TAKE j \in i..(len - 1)
    <3>1. Len(before) = i - 1 /\ i \in Int /\ len \in Int /\ i >= 1
      BY <1>1, <1>4
    <3>2. j \in 1..(len - 1) /\ ~(j <= i - 1)
      BY <3>1
    <3> QED BY <2>1, <2>3, <3>1, <3>2
  <2> QED BY <2>1, <2>3, <2>4, <2>5
<1>11. w_cache' = Append(both, w_cache[i]) /\ w_cache[i] \in Event
  BY <1>1, <1>4, <1>6
<1> HIDE DEF both
<1>7. /\ w_cache' \in Seq(Event) /\ Len(w_cache') = len
      /\ \A j \in 1..(i - 1) : w_cache'[j] = w_cache[j]
      /\ \A j \in 1..(len - 1) : w_cache'[j] = both[j]
      /\ w_cache'[len] = w_cache[i]
  BY <1>1, <1>4, <1>10, <1>11
<1>8. \A j \in i..(len - 1) : w_cache'[j] = w_cache[j + 1]
  <2> TAKE j \in i..(len - 1)
  <2>1. w_cache'[j] = behind[j - (i - 1)]
    BY <1>4, <1>1, <1>7, <1>10
  <2>2. j - (i - 1) \in 1..(len - i) /\ i + (j - (i - 1)) = j + 1
    BY <1>1, <1>4
  <2> QED BY <2>1, <2>2, <1>5
<1>9. \A j, k \in DOMAIN w_cache' : w_cache'[j] = w_cache'[k] => j = k
  <2>1. DOMAIN w_cache' = 1..len
    BY <1>7
  <2> QED BY <1>1, <1>4, <1>7, <1>8, <2>1
<1> QED BY <1>1, <1>4, <1>7, <1>8, <1>9 DEF len

(* ... and after one that it does not know. *)
LEMMA CacheGrows ==
  ASSUME WebhookTypes, NEW e \in Event,
         \A i \in DOMAIN w_cache : w_cache[i] # e,
         w_cache' = Webhooks!Newest(Append(w_cache, e), CacheSize)
  PROVE  LET len == Len(w_cache)
             gone == IF len < CacheSize THEN 0 ELSE 1
         IN  /\ w_cache' \in Seq(Event) /\ len \in Nat
             /\ len < CacheSize \/ len = CacheSize
             /\ Len(w_cache') = len + 1 - gone
             /\ \A j \in 1..(len - gone) : w_cache'[j] = w_cache[j + gone]
             /\ w_cache'[len + 1 - gone] = e
             /\ \A j, k \in DOMAIN w_cache' : w_cache'[j] = w_cache'[k] => j = k
<1> USE WebhookAssumption DEF WebhookConstants
<1> DEFINE len == Len(w_cache)
           gone == IF len < CacheSize THEN 0 ELSE 1
           c == Append(w_cache, e)
<1>1. /\ w_cache \in Seq(Event) /\ len \in Nat /\ DOMAIN w_cache = 1..len
      /\ \A j, k \in 1..len : w_cache[j] = w_cache[k] => j = k
      /\ len <= CacheSize
  BY DEF WebhookTypes
<1>2. /\ c \in Seq(Event) /\ Len(c) = len + 1 /\ c[len + 1] = e
      /\ \A j \in 1..len : c[j] = w_cache[j]
  BY <1>1
<1>3. w_cache' = IF Len(c) <= CacheSize THEN c
                 ELSE SubSeq(c, Len(c) - CacheSize + 1, Len(c))
  BY DEF Webhooks!Newest
<1> HIDE DEF c, len
<1>4. CASE len < CacheSize
  <2>1. w_cache' = c
    BY <1>1, <1>2, <1>3, <1>4
  <2>2. DOMAIN w_cache' = 1..(len + 1)
    BY <1>2, <2>1
  <2>3. \A j, k \in DOMAIN w_cache' : w_cache'[j] = w_cache'[k] => j = k
    BY <1>1, <1>2, <2>1, <2>2
  <2>4. gone = 0
    BY <1>4
  <2>5. /\ Len(w_cache') = len + 1 - 0 /\ w_cache'[len + 1 - 0] = e
        /\ \A j \in 1..(len - 0) : w_cache'[j] = w_cache[j + 0]
    BY <1>1, <1>2, <2>1
  <2> QED BY <1>1, <1>2, <1>4, <2>1, <2>3, <2>4, <2>5 DEF len
<1>5. CASE len = CacheSize
  <2>1. w_cache' = SubSeq(c, 2, len + 1)
    BY <1>1, <1>2, <1>3, <1>5
  <2>2. /\ w_cache' \in Seq(Event) /\ Len(w_cache') = len
        /\ \A j \in 1..len : w_cache'[j] = c[j + 1]
    BY <1>1, <1>2, <2>1
  <2>3. DOMAIN w_cache' = 1..len /\ len >= 1
    BY <2>2, <1>5
  <2>4. \A j \in 1..(len - 1) : w_cache'[j] = w_cache[j + 1]
    BY <1>1, <1>2, <2>2
  <2>5. w_cache'[len] = e
    BY <1>1, <1>2, <2>2, <2>3
  <2>6. \A j, k \in DOMAIN w_cache' : w_cache'[j] = w_cache'[k] => j = k
    <3>1. \A j \in 1..len : j # len =>
            /\ j \in 1..(len - 1) /\ j + 1 \in 1..len
            /\ w_cache'[j] # e
      <4> SUFFICES ASSUME NEW j \in 1..len, j # len
                   PROVE  /\ j \in 1..(len - 1) /\ j + 1 \in 1..len
                          /\ w_cache'[j] # e
        OBVIOUS
      <4>1. j \in 1..(len - 1) /\ j + 1 \in 1..len
        BY <1>1
      <4>2. w_cache[j + 1] # e
        BY <1>1, <4>1
      <4>3. w_cache'[j] = w_cache[j + 1]
        BY <4>1, <2>4
      <4> QED BY <4>1, <4>2, <4>3
    <3> TAKE j, k \in DOMAIN w_cache'
    <3>2. CASE j = len \/ k = len
      BY <2>3, <2>5, <3>1, <3>2
    <3>3. CASE j # len /\ k # len
      <4>1. w_cache'[j] = w_cache'[k] => j + 1 = k + 1
        BY <1>1, <2>3, <2>4, <3>1, <3>3
      <4> QED BY <4>1, <2>3
    <3> QED BY <3>2, <3>3
  <2> QED BY <1>1, <1>5, <2>2, <2>4, <2>5, <2>6 DEF len
<1> QED BY <1>1, <1>4, <1>5

(* What came after an arrival does not get less. *)
LEMMA AfterGrows ==
  ASSUME WebhookTypes, NEW p \in DOMAIN w_arrivals, NEW e,
         Cardinality(After(p)) >= CacheSize
  PROVE  /\ IsFiniteSet(After(p) \cup {e})
         /\ Cardinality(After(p) \cup {e}) >= CacheSize
<1> USE WebhookAssumption DEF WebhookConstants
<1> DEFINE n == Len(w_arrivals)
           I == (p + 1)..n
           f == [k \in I |-> Webhooks!EventOf(k)]
<1>1. n \in Nat /\ p \in Int
  BY DEF WebhookTypes
<1>2. IsFiniteSet(I)
  <2>1. p + 1 \in Int /\ n \in Int
    BY <1>1
  <2> HIDE DEF n
  <2> QED BY <2>1, FS_Interval
<1>3. f \in Surjection(I, After(p))
  BY DEF After, Surjection
<1>4. IsFiniteSet(After(p))
  <2> HIDE DEF f, I
  <2> QED BY <1>2, <1>3, FS_Surjection
<1>5. IsFiniteSet(After(p) \cup {e})
  BY <1>4, FS_AddElement
<1>6. Cardinality(After(p)) <= Cardinality(After(p) \cup {e})
  BY <1>5, FS_Subset
<1>7. Cardinality(After(p)) \in Nat /\ Cardinality(After(p) \cup {e}) \in Nat
  BY <1>4, <1>5, FS_CardinalityType
<1> QED BY <1>5, <1>6, <1>7

-----------------------------------------------------------------------------
(* The cache and the arrivals tell the same: an event of the cache comes   *)
(* again.                                                                  *)
LEMMA KnownEventComes ==
  ASSUME WebhookTypes, CacheOK, NEW i \in DOMAIN w_cache, 
         w_arrivals' = Append(w_arrivals,
                         [event |-> w_cache[i], life |-> w_life, kept |-> FALSE]),
         w_cache' = Webhooks!Renewed(w_cache[i]), w_life' = w_life
  PROVE  CacheOK'
<1> DEFINE e == w_cache[i]
           len == Len(w_cache)
<1>1. PICK n : n = Len(w_arrivals) + 1
  OBVIOUS
<1>2. /\ w_cache \in Seq(Event) /\ len \in Nat /\ DOMAIN w_cache = 1..len
      /\ e \in Event
  BY DEF WebhookTypes
<1>3. /\ DOMAIN w_arrivals = 1..(n - 1) /\ DOMAIN w_arrivals' = 1..n
      /\ n \in Nat /\ n - 1 \in Nat
      /\ \A p \in 1..(n - 1) : w_arrivals'[p] = w_arrivals[p]
      /\ w_arrivals'[n] = [event |-> e, life |-> w_life, kept |-> FALSE]
      /\ \A p \in 1..(n - 1) : After(p)' = After(p) \cup {e}
      /\ \A p \in 1..(n - 1) :
           IsLast(p)' <=> IsLast(p) /\ Webhooks!EventOf(p) # e
      /\ After(n)' = {} /\ IsLast(n)'
  BY <1>1, <1>2, Arrives
<1>4. /\ w_cache' \in Seq(Event) /\ Len(w_cache') = len
      /\ i \in 1..len
      /\ \A j \in 1..(i - 1) : w_cache'[j] = w_cache[j]
      /\ \A j \in i..(len - 1) : w_cache'[j] = w_cache[j + 1]
      /\ w_cache'[len] = e
      /\ \A j, k \in DOMAIN w_cache' : w_cache'[j] = w_cache'[k] => j = k
  BY CacheRenews
<1>5. DOMAIN w_cache' = 1..len
  BY <1>4
<1>6. w_arrivals'[n].event = e /\ w_arrivals'[n].life = w_life /\ n \in 1..n
  BY <1>3
<1>7. \A j, k \in 1..len : w_cache[j] = w_cache[k] => j = k
  BY <1>2 DEF WebhookTypes
<1> HIDE DEF e, len
<1>8. ASSUME NEW j \in 1..len
      PROVE  \E p \in DOMAIN w_arrivals' :
               /\ IsLast(p)' /\ Webhooks!EventOf(p)' = w_cache'[j]
               /\ w_arrivals'[p].life = w_life' /\ After(p)' = Behind(j)'
  <2>1. CASE j = len
    <3>1. Behind(j)' = {}
      BY <2>1, <1>2, <1>4 DEF Behind
    <3> QED BY <3>1, <2>1, <1>3, <1>4, <1>6 DEF Webhooks!EventOf
  <2>2. CASE j < i
    <3>1. PICK p \in DOMAIN w_arrivals :
             /\ IsLast(p) /\ Webhooks!EventOf(p) = w_cache[j]
             /\ w_arrivals[p].life = w_life /\ After(p) = Behind(j)
      BY <1>2, <1>4, <2>2 DEF CacheOK
    <3>2. w_cache[j] # e /\ w_cache'[j] = w_cache[j]
      <4>1. j \in 1..(i - 1) /\ j # i
        BY <2>2, <1>2, <1>4
      <4> QED BY <4>1, <1>4, <1>7 DEF e
    <3>3. Behind(j)' = Behind(j) \cup {e}
      <4>1. ASSUME NEW k \in (j + 1)..len
            PROVE  /\ w_cache'[k] \in Behind(j) \cup {e}
                   /\ w_cache[k] \in Behind(j)'
        <5>1. CASE k < i
          <6>1. k \in 1..(i - 1)
            BY <5>1, <1>2, <1>4
          <6>2. w_cache'[k] = w_cache[k]
            BY <6>1, <1>4
          <6> QED BY <6>2, <1>4 DEF Behind, len
        <5>2. CASE k = i
          <6>1. len \in (j + 1)..len
            BY <1>2, <1>4, <2>2
          <6>2. w_cache[k] = w_cache'[len]
            BY <5>2, <1>4 DEF e
          <6>3. w_cache'[k] = IF i = len THEN e ELSE w_cache[k + 1]
            BY <5>2, <1>2, <1>4
          <6>4. i # len => k + 1 \in (j + 1)..len
            BY <5>2, <1>2, <1>4
          <6> QED BY <6>1, <6>2, <6>3, <6>4, <1>4 DEF Behind, len
        <5>3. CASE k > i
          <6>1. w_cache[k] = w_cache'[k - 1] /\ k - 1 \in (j + 1)..len
            <7>1. /\ k - 1 \in i..(len - 1) /\ k - 1 + 1 = k
                  /\ k - 1 \in (j + 1)..len
              BY <5>3, <1>2, <1>4, <2>2
            <7> QED BY <7>1, <1>4
          <6>2. w_cache'[k] = IF k = len THEN e ELSE w_cache[k + 1]
            BY <5>3, <1>2, <1>4
          <6>3. k # len => k + 1 \in (j + 1)..len
            BY <1>2, <1>4
          <6> QED BY <6>1, <6>2, <6>3, <1>4 DEF Behind, len
        <5> QED BY <5>1, <5>2, <5>3, <1>4
      <4>2. w_cache'[len] = e /\ len \in (j + 1)..len
        BY <1>2, <1>4, <2>2
      <4>3. Behind(j)' \subseteq Behind(j) \cup {e}
        BY <4>1, <1>4 DEF Behind
      <4>4. Behind(j) \subseteq Behind(j)'
        BY <4>1 DEF Behind, len
      <4>5. e \in Behind(j)'
        BY <4>2, <1>4 DEF Behind
      <4> QED BY <4>3, <4>4, <4>5
    <3>4. p \in 1..(n - 1) /\ p \in 1..n
      BY <3>1, <1>3
    <3>5. After(p)' = Behind(j)' /\ IsLast(p)'
      BY <1>3, <3>1, <3>2, <3>3, <3>4
    <3>6. w_arrivals'[p] = w_arrivals[p]
      BY <1>3, <3>4
    <3> QED BY <1>3, <3>1, <3>2, <3>4, <3>5, <3>6 DEF Webhooks!EventOf
  <2>3. CASE i <= j /\ j < len
    <3>1. j + 1 \in 1..len
      BY <2>3, <1>2
    <3>2. PICK p \in DOMAIN w_arrivals :
             /\ IsLast(p) /\ Webhooks!EventOf(p) = w_cache[j + 1]
             /\ w_arrivals[p].life = w_life /\ After(p) = Behind(j + 1)
      BY <1>2, <3>1 DEF CacheOK
    <3>3. w_cache[j + 1] # e /\ w_cache'[j] = w_cache[j + 1]
      <4>1. j + 1 # i /\ j \in i..(len - 1)
        BY <2>3, <1>2, <1>4
      <4> QED BY <4>1, <3>1, <1>4, <1>7 DEF e
    <3>4. Behind(j)' = Behind(j + 1) \cup {e}
      <4>1. ASSUME NEW k \in (j + 1)..len
            PROVE  w_cache'[k] \in Behind(j + 1) \cup {e}
        <5>1. w_cache'[k] = IF k = len THEN e ELSE w_cache[k + 1]
          <6>1. k # len => k \in i..(len - 1)
            BY <1>2, <1>4, <2>3
          <6> QED BY <6>1, <1>4
        <5>2. k # len => k + 1 \in (j + 1 + 1)..len
          BY <1>2, <1>4
        <5> QED BY <5>1, <5>2 DEF Behind, len
      <4>2. ASSUME NEW k \in (j + 1 + 1)..len
            PROVE  w_cache[k] \in Behind(j)'
        <5>1. w_cache[k] = w_cache'[k - 1] /\ k - 1 \in (j + 1)..len
          <6>1. k - 1 \in i..(len - 1) /\ k - 1 + 1 = k /\ k - 1 \in (j + 1)..len
            BY <1>2, <1>4, <2>3
          <6> QED BY <6>1, <1>4
        <5> QED BY <5>1, <1>4 DEF Behind
      <4>3. e \in Behind(j)'
        <5>1. len \in (j + 1)..len
          BY <1>2, <1>4, <2>3
        <5> QED BY <5>1, <1>4 DEF Behind
      <4>4. Behind(j)' \subseteq Behind(j + 1) \cup {e}
        BY <4>1, <1>4 DEF Behind
      <4>5. Behind(j + 1) \subseteq Behind(j)'
        BY <4>2 DEF Behind, len
      <4> QED BY <4>3, <4>4, <4>5
    <3>5. p \in 1..(n - 1) /\ p \in 1..n
      BY <3>2, <1>3
    <3>6. After(p)' = Behind(j)' /\ IsLast(p)'
      BY <1>3, <3>2, <3>3, <3>4, <3>5
    <3>7. w_arrivals'[p] = w_arrivals[p]
      BY <1>3, <3>5
    <3> QED BY <1>3, <3>2, <3>3, <3>5, <3>6, <3>7 DEF Webhooks!EventOf
  <2> QED BY <2>1, <2>2, <2>3, <1>2, <1>4
<1>9. ASSUME NEW p \in DOMAIN w_arrivals',
             w_arrivals'[p].life = w_life', IsLast(p)',
             \A j \in DOMAIN w_cache' : w_cache'[j] # Webhooks!EventOf(p)'
      PROVE  Cardinality(After(p)') >= CacheSize
  <2>1. Webhooks!EventOf(p)' # e
    BY <1>9, <1>2, <1>4, <1>5
  <2>2. p \in 1..(n - 1)
    BY <2>1, <1>3, <1>6 DEF Webhooks!EventOf
  <2>3. \A j \in 1..len : w_cache[j] # Webhooks!EventOf(p)
    <3> TAKE j \in 1..len
    <3>1. Webhooks!EventOf(p)' = Webhooks!EventOf(p)
      BY <1>3, <2>2 DEF Webhooks!EventOf
    <3>2. CASE j = i
      BY <3>1, <3>2, <2>1 DEF e
    <3>3. CASE j < i
      <4>1. j \in 1..(i - 1)
        BY <3>3, <1>2, <1>4
      <4> QED BY <4>1, <3>1, <1>4, <1>5, <1>9
    <3>4. CASE j > i
      <4>1. j - 1 \in i..(len - 1) /\ j - 1 \in 1..len /\ j - 1 + 1 = j
        BY <3>4, <1>2, <1>4
      <4> QED BY <4>1, <3>1, <1>4, <1>5, <1>9
    <3> QED BY <3>2, <3>3, <3>4, <1>4
  <2>4. IsLast(p) /\ w_arrivals[p].life = w_life
    BY <1>3, <1>9, <2>2
  <2>5. Cardinality(After(p)) >= CacheSize
    BY <2>3, <2>4, <2>2, <1>2, <1>3 DEF CacheOK, len
  <2> QED BY <2>5, <2>2, <1>3, AfterGrows
<1> QED BY <1>5, <1>8, <1>9 DEF CacheOK

(* A full cache without the oldest, and with one more. *)
LEMMA CacheFull ==
  ASSUME WebhookTypes, NEW e \in Event, Len(w_cache) = CacheSize,
         \A i \in DOMAIN w_cache : w_cache[i] # e
  PROVE  Cardinality(Behind(1) \cup {e}) >= CacheSize
<1> USE WebhookAssumption DEF WebhookConstants
<1> DEFINE B == Behind(1) \cup {e}
           f == [j \in 1..CacheSize |-> IF j = CacheSize THEN e ELSE w_cache[j + 1]]
<1>1. /\ w_cache \in Seq(Event) /\ CacheSize \in Nat /\ CacheSize >= 1
      /\ DOMAIN w_cache = 1..CacheSize
      /\ \A j, k \in 1..CacheSize : w_cache[j] = w_cache[k] => j = k
  <2>1. /\ w_cache \in Seq(Event)
        /\ \A j, k \in DOMAIN w_cache : w_cache[j] = w_cache[k] => j = k
    BY DEF WebhookTypes
  <2>2. DOMAIN w_cache = 1..CacheSize
    BY <2>1
  <2> QED BY <2>1, <2>2
<1>2. \A j \in 1..CacheSize : j # CacheSize => j + 1 \in 2..CacheSize
  BY <1>1
<1>3. \A k \in 2..CacheSize : k - 1 \in 1..CacheSize /\ k - 1 # CacheSize /\ k - 1 + 1 = k
  BY <1>1
<1>4. B = {w_cache[k] : k \in 2..CacheSize} \cup {e}
  BY DEF Behind
<1>5. f \in Surjection(1..CacheSize, B)
  <2>1. f \in [1..CacheSize -> B]
    BY <1>2, <1>4
  <2>2. \A x \in B : \E j \in 1..CacheSize : f[j] = x
    <3>1. f[CacheSize] = e /\ CacheSize \in 1..CacheSize
      BY <1>1
    <3>2. \A k \in 2..CacheSize : f[k - 1] = w_cache[k]
      BY <1>3
    <3>3. \A k \in 2..CacheSize : \E j \in 1..CacheSize : f[j] = w_cache[k]
      BY <3>2, <1>3
    <3> QED BY <3>1, <3>3, <1>4
  <2> QED BY <2>1, <2>2 DEF Surjection
<1>6. f \in Injection(1..CacheSize, B)
  <2>1. \A j, k \in 1..CacheSize : f[j] = f[k] => j = k
    <3>1. \A x \in 1..CacheSize : x # CacheSize =>
            x + 1 \in 1..CacheSize /\ f[x] = w_cache[x + 1] /\ f[x] # e
      BY <1>1
    <3>2. f[CacheSize] = e
      BY <1>1
    <3> HIDE DEF f
    <3> TAKE j, k \in 1..CacheSize
    <3>3. CASE j # CacheSize /\ k # CacheSize
      <4>1. f[j] = f[k] => j + 1 = k + 1
        BY <3>1, <3>3, <1>1
      <4> QED BY <4>1
    <3> QED BY <3>1, <3>2, <3>3
  <2> HIDE DEF f, B
  <2> QED BY <2>1, <1>5 DEF Injection, Surjection, IsInjective
<1>7. IsFiniteSet(1..CacheSize) /\ Cardinality(1..CacheSize) = CacheSize
  <2>1. 1 \in Int /\ CacheSize \in Int
    OBVIOUS
  <2>2. Cardinality(1..CacheSize) = IF 1 > CacheSize THEN 0 ELSE CacheSize - 1 + 1
    BY <2>1, FS_Interval
  <2>3. IsFiniteSet(1..CacheSize)
    BY <2>1, FS_Interval
  <2> QED BY <2>2, <2>3, <1>1
<1>8. ExistsBijection(1..CacheSize, B)
  <2> HIDE DEF f, B
  <2> QED BY <1>5, <1>6 DEF ExistsBijection, Bijection
<1>9. Cardinality(B) = CacheSize
  <2> HIDE DEF B
  <2> QED BY <1>7, <1>8, FS_Bijection
<1> QED BY <1>9

(* An event that the cache does not know comes. *)
LEMMA NewEventComes ==
  ASSUME WebhookTypes, CacheOK, NEW e \in Event,
         \A i \in DOMAIN w_cache : w_cache[i] # e,
         w_arrivals' = Append(w_arrivals,
                         [event |-> e, life |-> w_life, kept |-> FALSE]),
         w_cache' = Webhooks!Newest(Append(w_cache, e), CacheSize), w_life' = w_life
  PROVE  CacheOK'
<1> USE WebhookAssumption DEF WebhookConstants
<1> DEFINE len == Len(w_cache)
<1>1. PICK n : n = Len(w_arrivals) + 1
  OBVIOUS
<1>2. /\ w_cache \in Seq(Event) /\ len \in Nat /\ DOMAIN w_cache = 1..len
  BY DEF WebhookTypes
<1>3. /\ DOMAIN w_arrivals = 1..(n - 1) /\ DOMAIN w_arrivals' = 1..n
      /\ n \in Nat /\ n - 1 \in Nat
      /\ \A p \in 1..(n - 1) : w_arrivals'[p] = w_arrivals[p]
      /\ w_arrivals'[n] = [event |-> e, life |-> w_life, kept |-> FALSE]
      /\ \A p \in 1..(n - 1) : After(p)' = After(p) \cup {e}
      /\ \A p \in 1..(n - 1) :
           IsLast(p)' <=> IsLast(p) /\ Webhooks!EventOf(p) # e
      /\ After(n)' = {} /\ IsLast(n)'
  BY <1>1, <1>2, Arrives
<1>4. PICK gone \in {0, 1} :
        /\ gone = 1 => len = CacheSize
        /\ w_cache' \in Seq(Event)
        /\ len + 1 - gone \in Nat /\ len + 1 - gone >= 1
        /\ Len(w_cache') = len + 1 - gone
        /\ \A j \in 1..(len - gone) : w_cache'[j] = w_cache[j + gone]
        /\ w_cache'[len + 1 - gone] = e
  <2>1. len < CacheSize \/ len = CacheSize
    BY CacheGrows
  <2>2. CASE len < CacheSize
    <3>1. (IF len < CacheSize THEN 0 ELSE 1) = 0
      BY <2>2
    <3>2. /\ w_cache' \in Seq(Event) /\ Len(w_cache') = len + 1 - 0
          /\ \A j \in 1..(len - 0) : w_cache'[j] = w_cache[j + 0]
          /\ w_cache'[len + 1 - 0] = e
      BY <3>1, CacheGrows
    <3>3. len + 1 - 0 \in Nat /\ len + 1 - 0 >= 1 /\ 0 # 1 /\ 0 \in {0, 1}
      BY <1>2
    <3> QED BY <3>2, <3>3
  <2>3. CASE len = CacheSize
    <3>1. (IF len < CacheSize THEN 0 ELSE 1) = 1
      BY <2>3
    <3>2. /\ w_cache' \in Seq(Event) /\ Len(w_cache') = len + 1 - 1
          /\ \A j \in 1..(len - 1) : w_cache'[j] = w_cache[j + 1]
          /\ w_cache'[len + 1 - 1] = e
      BY <3>1, CacheGrows
    <3> QED BY <2>3, <3>2, <1>2
  <2> QED BY <2>1, <2>2, <2>3
<1>5. PICK m \in Nat : m = len + 1 - gone /\ m >= 1
  BY <1>4
<1>6. /\ DOMAIN w_cache' = 1..m /\ Len(w_cache') = m /\ w_cache'[m] = e
      /\ \A j \in 1..(m - 1) : j + gone \in 1..len /\ w_cache'[j] = w_cache[j + gone]
      /\ \A k \in 1..len : k > gone => k - gone \in 1..(m - 1)
  <2>1. m - 1 = len - gone
    <3>1. gone \in Int /\ len \in Int /\ m \in Int /\ m = len + 1 - gone
      BY <1>2, <1>5
    <3> HIDE DEF len
    <3> QED BY <3>1
  <2>2. /\ DOMAIN w_cache' = 1..m /\ Len(w_cache') = m /\ w_cache'[m] = e
    BY <1>4, <1>5
  <2>3. \A j \in 1..(m - 1) : w_cache'[j] = w_cache[j + gone]
    BY <1>4, <2>1
  <2> HIDE DEF len
  <2>4. \A j \in 1..(m - 1) : j + gone \in 1..len
    BY <1>2, <1>5, <2>1
  <2>5. \A k \in 1..len : k > gone => k - gone \in 1..(m - 1)
    BY <1>2, <1>5, <2>1
  <2> QED BY <2>2, <2>3, <2>4, <2>5
<1>7. w_arrivals'[n].event = e /\ w_arrivals'[n].life = w_life /\ n \in 1..n
  <2>1. n \in 1..n
    <3>1. n >= 1
      BY <1>3
    <3> QED BY <3>1, <1>3
  <2> QED BY <2>1, <1>3
<1> HIDE DEF len
<1>8. ASSUME NEW j \in 1..m
      PROVE  \E p \in DOMAIN w_arrivals' :
               /\ IsLast(p)' /\ Webhooks!EventOf(p)' = w_cache'[j]
               /\ w_arrivals'[p].life = w_life' /\ After(p)' = Behind(j)'
  <2>1. CASE j = m
    <3>1. Behind(j)' = {}
      BY <2>1, <1>5, <1>6 DEF Behind
    <3> QED BY <3>1, <2>1, <1>3, <1>6, <1>7 DEF Webhooks!EventOf
  <2>2. CASE j # m
    <3>1. /\ j \in 1..(m - 1) /\ j + gone \in 1..len
          /\ w_cache'[j] = w_cache[j + gone]
      BY <2>2, <1>5, <1>6
    <3>2. PICK p \in DOMAIN w_arrivals :
             /\ IsLast(p) /\ Webhooks!EventOf(p) = w_cache[j + gone]
             /\ w_arrivals[p].life = w_life /\ After(p) = Behind(j + gone)
      BY <1>2, <3>1 DEF CacheOK
    <3>3. w_cache[j + gone] # e
      BY <3>1, <1>2
    <3>4. Behind(j)' = Behind(j + gone) \cup {e}
      <4>1. ASSUME NEW k \in (j + 1)..m
            PROVE  w_cache'[k] \in Behind(j + gone) \cup {e}
        <5>1. CASE k = m
          BY <5>1, <1>6
        <5>2. CASE k # m
          <6>1. k \in 1..(m - 1) /\ k + gone \in (j + gone + 1)..len
            <7>1. k \in 1..(m - 1)
              BY <5>2, <1>5
            <7>2. k + gone \in 1..len /\ k + gone >= j + gone + 1
              BY <7>1, <1>4, <1>6
            <7> QED BY <7>1, <7>2, <1>2, <1>4
          <6> QED BY <6>1, <1>6 DEF Behind, len
        <5> QED BY <5>1, <5>2
      <4>2. ASSUME NEW k \in (j + gone + 1)..len
            PROVE  w_cache[k] \in Behind(j)'
        <5>1. k \in 1..len /\ k > gone /\ k - gone >= j + 1
          BY <1>2, <1>4
        <5>2. k - gone \in 1..(m - 1) /\ k - gone \in (j + 1)..m
          BY <5>1, <1>5, <1>6
        <5>3. w_cache'[k - gone] = w_cache[k]
          <6>1. k - gone + gone = k
            BY <1>2, <1>4
          <6> QED BY <5>2, <6>1, <1>6
        <5> QED BY <5>2, <5>3, <1>6 DEF Behind
      <4>3. e \in Behind(j)'
        <5>1. m \in (j + 1)..m
          BY <2>2, <1>5
        <5> QED BY <5>1, <1>6 DEF Behind
      <4>4. Behind(j)' \subseteq Behind(j + gone) \cup {e}
        BY <4>1, <1>6 DEF Behind
      <4>5. Behind(j + gone) \subseteq Behind(j)'
        BY <4>2 DEF Behind, len
      <4> QED BY <4>3, <4>4, <4>5
    <3>5. p \in 1..(n - 1) /\ p \in 1..n
      BY <3>2, <1>3
    <3>6. After(p)' = Behind(j)' /\ IsLast(p)'
      BY <1>3, <3>2, <3>3, <3>4, <3>5
    <3>7. w_arrivals'[p] = w_arrivals[p]
      BY <1>3, <3>5
    <3> QED BY <1>3, <3>1, <3>2, <3>5, <3>6, <3>7 DEF Webhooks!EventOf
  <2> QED BY <2>1, <2>2
<1>9. ASSUME NEW p \in DOMAIN w_arrivals',
             w_arrivals'[p].life = w_life', IsLast(p)',
             \A j \in DOMAIN w_cache' : w_cache'[j] # Webhooks!EventOf(p)'
      PROVE  Cardinality(After(p)') >= CacheSize
  <2>1. Webhooks!EventOf(p)' # e
    BY <1>9, <1>5, <1>6
  <2>2. p \in 1..(n - 1)
    BY <2>1, <1>3, <1>7 DEF Webhooks!EventOf
  <2>3. IsLast(p) /\ w_arrivals[p].life = w_life /\ p \in DOMAIN w_arrivals
    BY <1>3, <1>9, <2>2
  <2>4. Webhooks!EventOf(p)' = Webhooks!EventOf(p)
    BY <1>3, <2>2 DEF Webhooks!EventOf
  <2>5. \A j \in 1..len : j > gone => w_cache[j] # Webhooks!EventOf(p)
    <3> TAKE j \in 1..len
    <3> HAVE j > gone
    <3>1. j - gone \in 1..(m - 1) /\ j - gone \in 1..m /\ j - gone + gone = j
      BY <1>2, <1>4, <1>5, <1>6
    <3>2. w_cache'[j - gone] = w_cache[j]
      BY <3>1, <1>6
    <3> QED BY <3>1, <3>2, <2>4, <1>6, <1>9
  <2>6. CASE \A j \in 1..len : w_cache[j] # Webhooks!EventOf(p)
    <3>1. Cardinality(After(p)) >= CacheSize
      BY <2>6, <2>3, <1>2 DEF CacheOK
    <3> QED BY <3>1, <2>2, <2>3, <1>3, AfterGrows
  <2>7. CASE \E j \in 1..len : w_cache[j] = Webhooks!EventOf(p)
    <3>1. gone = 1 /\ len = CacheSize /\ 1 \in 1..len
          /\ w_cache[1] = Webhooks!EventOf(p)
      <4>1. PICK j \in 1..len : w_cache[j] = Webhooks!EventOf(p)
        BY <2>7
      <4>2. ~(j > gone) /\ j >= 1
        BY <4>1, <2>5
      <4>3. j = 1 /\ gone = 1
        BY <4>2, <1>2, <1>4
      <4> QED BY <4>1, <4>3, <1>4
    <3>2. PICK q \in DOMAIN w_arrivals :
             /\ IsLast(q) /\ Webhooks!EventOf(q) = w_cache[1]
             /\ After(q) = Behind(1)
      BY <1>2, <3>1 DEF CacheOK
    <3>3. q = p
      <4>1. p \in 1..(n - 1) /\ q \in 1..(n - 1) /\ Len(w_arrivals) = n - 1
        BY <2>2, <3>2, <1>1, <1>3
      <4>2. ~(p < q)
        <5>1. p < q => q \in (p + 1)..(n - 1)
          BY <4>1
        <5> QED BY <5>1, <4>1, <2>3, <3>1, <3>2 DEF IsLast
      <4>3. ~(q < p)
        <5>1. q < p => p \in (q + 1)..(n - 1)
          BY <4>1
        <5> QED BY <5>1, <4>1, <2>3, <3>1, <3>2 DEF IsLast
      <4> QED BY <4>1, <4>2, <4>3
    <3>4. Cardinality(Behind(1) \cup {e}) >= CacheSize
      BY <3>1, CacheFull DEF len
    <3> QED BY <3>2, <3>3, <3>4, <2>2, <1>3
  <2> QED BY <2>6, <2>7
<1> QED BY <1>6, <1>8, <1>9 DEF CacheOK

-----------------------------------------------------------------------------
LEMMA WebhookTypesNext ==
  WebhooksOK /\ [Webhooks!Next]_(Webhooks!vars) => WebhookTypes'
<1> SUFFICES ASSUME WebhooksOK, [Webhooks!Next]_(Webhooks!vars) PROVE WebhookTypes'
  OBVIOUS
<1> USE WebhookAssumption DEF WebhookConstants
<1>1. WebhookTypes
  BY DEF WebhooksOK
<1>2. /\ w_cache \in Seq(Event) /\ Len(w_cache) <= CacheSize
      /\ Len(w_cache) \in Nat
      /\ \A i, j \in DOMAIN w_cache : w_cache[i] = w_cache[j] => i = j
      /\ w_pc \in [Request -> {"idle", "record", "publish"}]
      /\ w_work \in [Request -> Nat \cup {NoArrival}]
      /\ \A r \in Request : w_pc[r] # "idle" => w_work[r] \in DOMAIN w_arrivals
      /\ w_arrivals \in Seq([event : Event, life : Nat, kept : BOOLEAN])
      /\ Len(w_arrivals) <= MaxArrivals
      /\ w_published \in Seq(Nat)
      /\ \A i \in DOMAIN w_published : w_published[i] \in DOMAIN w_arrivals
      /\ w_life \in Nat
  BY <1>1 DEF WebhookTypes
<1>3. CASE UNCHANGED Webhooks!vars
  BY <1>2, <1>3 DEF WebhookTypes, Webhooks!vars, Webhooks!request, Webhooks!stream
<1>4. ASSUME NEW r \in Request, NEW e \in Event, Webhooks!Receive(r, e)
      PROVE  WebhookTypes'
  <2> DEFINE a == [event |-> e, life |-> w_life, kept |-> FALSE]
  <2>1. /\ w_arrivals' = Append(w_arrivals, a)
        /\ Len(w_arrivals) < MaxArrivals
        /\ w_published' = w_published /\ w_life' = w_life
    BY <1>4 DEF Webhooks!Receive, Webhooks!stream
  <2>2. a \in [event : Event, life : Nat, kept : BOOLEAN]
    BY <1>2
  <2> HIDE DEF a
  <2>3. /\ w_arrivals' \in Seq([event : Event, life : Nat, kept : BOOLEAN])
        /\ Len(w_arrivals') = Len(w_arrivals) + 1 /\ Len(w_arrivals) \in Nat
        /\ DOMAIN w_arrivals = 1..Len(w_arrivals)
        /\ DOMAIN w_arrivals' = 1..(Len(w_arrivals) + 1)
    BY <1>2, <2>1, <2>2
  <2>4. /\ DOMAIN w_arrivals \subseteq DOMAIN w_arrivals'
        /\ Len(w_arrivals') \in DOMAIN w_arrivals' /\ Len(w_arrivals') \in Nat
        /\ Len(w_arrivals') <= MaxArrivals
    BY <2>1, <2>3
  <2>5. CASE Webhooks!Contains(w_cache, e)
    <3>1. PICK i \in DOMAIN w_cache : w_cache[i] = e
      BY <2>5, <1>2 DEF Webhooks!Contains
    <3>2. w_cache' = Webhooks!Renewed(w_cache[i]) /\ w_work' = w_work /\ w_pc' = w_pc
      BY <1>4, <2>5, <3>1 DEF Webhooks!Receive, Webhooks!Store, Webhooks!request
    <3>3. /\ w_cache' \in Seq(Event) /\ Len(w_cache') = Len(w_cache)
          /\ \A j, k \in DOMAIN w_cache' : w_cache'[j] = w_cache'[k] => j = k
      BY <1>1, <3>2, CacheRenews
    <3> QED BY <1>2, <2>1, <2>3, <2>4, <3>2, <3>3 DEF WebhookTypes
  <2>6. CASE ~Webhooks!Contains(w_cache, e)
    <3>1. \A i \in DOMAIN w_cache : w_cache[i] # e
      BY <2>6, <1>2 DEF Webhooks!Contains
    <3>2. /\ w_cache' = Webhooks!Newest(Append(w_cache, e), CacheSize)
          /\ w_work' = [w_work EXCEPT ![r] = Len(w_arrivals')]
          /\ w_pc' = [w_pc EXCEPT ![r] = "record"]
      BY <1>4, <2>6 DEF Webhooks!Receive, Webhooks!Store
    <3>3. /\ w_cache' \in Seq(Event) /\ Len(w_cache') <= CacheSize
          /\ \A j, k \in DOMAIN w_cache' : w_cache'[j] = w_cache'[k] => j = k
      <4>1. /\ w_cache' \in Seq(Event)
            /\ Len(w_cache) < CacheSize \/ Len(w_cache) = CacheSize
            /\ Len(w_cache') = Len(w_cache) + 1 - (IF Len(w_cache) < CacheSize THEN 0 ELSE 1)
            /\ \A j, k \in DOMAIN w_cache' : w_cache'[j] = w_cache'[k] => j = k
        BY <1>1, <3>1, <3>2, CacheGrows
      <4>2. Len(w_cache') <= CacheSize
        BY <1>2, <4>1
      <4> QED BY <4>1, <4>2
    <3>4. /\ w_pc' \in [Request -> {"idle", "record", "publish"}]
          /\ w_work' \in [Request -> Nat \cup {NoArrival}]
          /\ \A q \in Request : w_pc'[q] # "idle" => w_work'[q] \in DOMAIN w_arrivals'
      BY <1>2, <2>4, <3>2
    <3> QED BY <1>2, <2>1, <2>3, <2>4, <3>3, <3>4 DEF WebhookTypes
  <2> QED BY <2>5, <2>6
<1>5. ASSUME NEW r \in Request, Webhooks!RecordEvent(r)
      PROVE  WebhookTypes'
  <2>1. /\ w_pc[r] = "record" /\ w_work[r] \in DOMAIN w_arrivals
        /\ w_cache' = w_cache /\ w_published' = w_published /\ w_life' = w_life
    BY <1>2, <1>5 DEF Webhooks!RecordEvent, Webhooks!stream
  <2>2. CASE Webhooks!Inserted(w_arrivals[w_work[r]].event)
    <3>1. /\ w_pc' = [w_pc EXCEPT ![r] = "publish"] /\ w_work' = w_work
          /\ w_arrivals' = [w_arrivals EXCEPT ![w_work[r]].kept = TRUE]
      BY <1>5, <2>2 DEF Webhooks!RecordEvent
    <3>2. /\ w_arrivals' \in Seq([event : Event, life : Nat, kept : BOOLEAN])
          /\ DOMAIN w_arrivals' = DOMAIN w_arrivals
          /\ Len(w_arrivals') = Len(w_arrivals)
      <4> DEFINE k == w_work[r]
                 R == [event : Event, life : Nat, kept : BOOLEAN]
      <4>0. w_arrivals[k] \in R
        <5> HIDE DEF R
        <5>1. w_arrivals \in Seq(R)
          BY <1>2 DEF R
        <5> QED BY <5>1, <2>1
      <4>3. PICK a \in [event : Event, life : Nat, kept : BOOLEAN] : a = w_arrivals[k]
        BY <4>0
      <4> DEFINE v == [a EXCEPT !.kept = TRUE]
      <4>1. v \in [event : Event, life : Nat, kept : BOOLEAN]
        OBVIOUS
      <4>2. w_arrivals' = [w_arrivals EXCEPT ![k] = v]
        BY <3>1, <4>3
      <4> HIDE DEF v
      <4> QED BY <4>1, <4>2, <1>2, <2>1
    <3> QED BY <1>2, <2>1, <3>1, <3>2 DEF WebhookTypes
  <2>3. CASE ~Webhooks!Inserted(w_arrivals[w_work[r]].event)
    BY <1>2, <1>5, <2>1, <2>3
    DEF Webhooks!RecordEvent, Webhooks!Answer, WebhookTypes
  <2> QED BY <2>2, <2>3
<1>6. ASSUME NEW r \in Request, NEW committed \in BOOLEAN,
             Webhooks!RecordFails(r, committed)
      PROVE  WebhookTypes'
  BY <1>2, <1>6 DEF Webhooks!RecordFails, Webhooks!stream, WebhookTypes
<1>7. ASSUME NEW r \in Request, Webhooks!Publish(r)
      PROVE  WebhookTypes'
  <2>1. /\ w_pc[r] = "publish" /\ w_work[r] \in DOMAIN w_arrivals
        /\ w_work' = [w_work EXCEPT ![r] = NoArrival]
        /\ w_pc' = [w_pc EXCEPT ![r] = "idle"]
        /\ w_published' = Append(w_published, w_work[r])
        /\ UNCHANGED <<w_cache, w_arrivals, w_life>>
    BY <1>2, <1>7 DEF Webhooks!Publish, Webhooks!Answer
  <2>2. w_work[r] \in Nat
    BY <1>2, <2>1
  <2>3. /\ w_published' \in Seq(Nat)
        /\ \A i \in DOMAIN w_published' : w_published'[i] \in DOMAIN w_arrivals
    BY <1>2, <2>1, <2>2
  <2>4. /\ w_pc' \in [Request -> {"idle", "record", "publish"}]
        /\ w_work' \in [Request -> Nat \cup {NoArrival}]
        /\ \A q \in Request : w_pc'[q] # "idle" => w_work'[q] \in DOMAIN w_arrivals
    BY <1>2, <2>1
  <2> QED BY <1>2, <2>1, <2>3, <2>4 DEF WebhookTypes
<1>8. ASSUME NEW b \in Browser,
             Webhooks!Subscribe(b) \/ Webhooks!Take(b) \/ Webhooks!Unsubscribe(b)
      PROVE  WebhookTypes'
  BY <1>2, <1>8
  DEF Webhooks!Subscribe, Webhooks!Take, Webhooks!Unsubscribe, Webhooks!request,
      WebhookTypes
<1>9. CASE Webhooks!Restart
  <2>1. /\ w_cache' = <<>> /\ w_life' = w_life + 1
        /\ w_work' = [r \in Request |-> NoArrival] /\ w_pc' = [r \in Request |-> "idle"]
        /\ UNCHANGED <<w_arrivals, w_published>>
    BY <1>9 DEF Webhooks!Restart
  <2>2. <<>> \in Seq(Event) /\ Len(<<>>) = 0 /\ DOMAIN <<>> = {} /\ 0 <= CacheSize
    OBVIOUS
  <2> QED BY <1>2, <2>1, <2>2 DEF WebhookTypes
<1> QED BY <1>3, <1>4, <1>5, <1>6, <1>7, <1>8, <1>9 DEF Webhooks!Next

(* A browser's queue is the end of what was passed on. *)
LEMMA QueuesNext ==
  WebhooksOK /\ [Webhooks!Next]_(Webhooks!vars) => QueuesOK'
<1> SUFFICES ASSUME WebhooksOK, [Webhooks!Next]_(Webhooks!vars) PROVE QueuesOK'
  OBVIOUS
<1> USE WebhookAssumption DEF WebhookConstants
<1>1. /\ w_published \in Seq(Nat) /\ Len(w_published) \in Nat
      /\ w_work \in [Request -> Nat \cup {NoArrival}]
      /\ \A r \in Request : w_pc[r] # "idle" => w_work[r] \in Nat
  BY DEF WebhooksOK, WebhookTypes
<1>2. /\ DOMAIN w_queue = Browser
      /\ w_behind \in [Browser -> 0..Len(w_published)]
      /\ \A b \in Browser :
           Webhooks!Connected(b) =>
             /\ w_queue[b] = SubSeq(w_published, w_behind[b] + 1, Len(w_published))
             /\ Len(w_queue[b]) <= QueueSize
  BY DEF WebhooksOK, QueuesOK
<1>3. CASE UNCHANGED <<w_queue, w_behind, w_published>>
  BY <1>2, <1>3 DEF QueuesOK, Webhooks!Connected
<1>4. ASSUME NEW r \in Request, Webhooks!Publish(r)
      PROVE  QueuesOK'
  <2> DEFINE x == w_work[r]
             n == Len(w_published)
  <2>1. /\ x \in Nat
        /\ w_queue' = [b \in Browser |->
             IF ~Webhooks!Connected(b) THEN Webhooks!Closed
             ELSE Append(IF Webhooks!Full(b) THEN Webhooks!OldestDropped(w_queue[b])
                         ELSE w_queue[b], x)]
        /\ w_behind' = [b \in Browser |->
             IF Webhooks!Connected(b) /\ Webhooks!Full(b) THEN w_behind[b] + 1
             ELSE w_behind[b]]
        /\ w_published' = Append(w_published, x)
    BY <1>1, <1>4 DEF Webhooks!Publish
  <2>2. w_published' \in Seq(Nat) /\ Len(w_published') = n + 1 /\ n \in Nat
    BY <1>1, <2>1
  <2> HIDE DEF n, x
  <2>3. ASSUME NEW b \in Browser, Webhooks!Connected(b)
        PROVE  /\ w_behind'[b] \in 0..(n + 1)
               /\ w_queue'[b] = SubSeq(w_published', w_behind'[b] + 1, n + 1)
               /\ Len(w_queue'[b]) <= QueueSize
    <3> DEFINE a == w_behind[b]
               q == w_queue[b]
    <3>1. a \in 0..n /\ q = SubSeq(w_published, a + 1, n) /\ Len(q) <= QueueSize
      BY <1>2, <2>3 DEF n
    <3>2. q \in Seq(Nat) /\ Len(q) = n - a
      <4>1. a \in 0..Len(w_published)
        BY <3>1 DEF n
      <4>2. /\ SubSeq(w_published, a + 1, Len(w_published)) \in Seq(Nat)
            /\ Len(SubSeq(w_published, a + 1, Len(w_published)))
                 = Len(w_published) - a
        <5> HIDE DEF a
        <5> QED BY <4>1, <1>1, EndIs
      <4> QED BY <3>1, <4>2 DEF n
    <3> HIDE DEF a, q
    <3>3. CASE Webhooks!Full(b)
      <4>1. Len(q) = QueueSize /\ a < n
        BY <3>1, <3>2, <3>3, <2>2 DEF Webhooks!Full, q
      <4>2. w_queue'[b] = Append(Tail(q), x) /\ w_behind'[b] = a + 1
        BY <2>1, <2>3, <3>3 DEF Webhooks!OldestDropped, q, a
      <4>3. Tail(q) = SubSeq(w_published, a + 1 + 1, n)
        BY <3>1, <4>1, <1>1, EndTail DEF n
      <4>4. a + 1 \in 0..n
        BY <3>1, <4>1, <2>2
      <4>5. SubSeq(w_published', a + 1 + 1, n + 1) = Append(Tail(q), x)
        BY <4>3, <4>4, <1>1, <2>1, EndAppended DEF n
      <4>6. Len(Append(Tail(q), x)) = Len(q)
        BY <3>2, <4>1, <2>1
      <4>7. w_behind'[b] \in 0..(n + 1)
        BY <2>2, <4>2, <4>4
      <4>8. w_queue'[b] = SubSeq(w_published', w_behind'[b] + 1, n + 1)
        BY <4>2, <4>5
      <4>9. Len(w_queue'[b]) <= QueueSize
        BY <3>1, <4>2, <4>6
      <4> QED BY <4>7, <4>8, <4>9
    <3>4. CASE ~Webhooks!Full(b)
      <4>1. Len(q) < QueueSize
        BY <3>1, <3>2, <3>4, <2>2 DEF Webhooks!Full, q
      <4>2. w_queue'[b] = Append(q, x) /\ w_behind'[b] = a
        BY <2>1, <2>3, <3>4 DEF q, a
      <4>3. SubSeq(w_published', a + 1, n + 1) = Append(q, x)
        BY <3>1, <1>1, <2>1, EndAppended DEF n
      <4>4. Len(Append(q, x)) = Len(q) + 1
        BY <3>2, <2>1
      <4>5. w_behind'[b] \in 0..(n + 1)
        BY <2>2, <3>1, <4>2
      <4>6. w_queue'[b] = SubSeq(w_published', w_behind'[b] + 1, n + 1)
        BY <4>2, <4>3
      <4>7. Len(w_queue'[b]) <= QueueSize
        BY <2>2, <3>1, <3>2, <4>1, <4>2, <4>4
      <4> QED BY <4>5, <4>6, <4>7
    <3> QED BY <3>3, <3>4
  <2>4. ASSUME NEW b \in Browser, ~Webhooks!Connected(b)
        PROVE  w_behind'[b] \in 0..(n + 1) /\ w_queue'[b] = Webhooks!Closed
    <3>1. w_behind'[b] = w_behind[b] /\ w_behind[b] \in 0..n
      BY <1>2, <2>1, <2>4 DEF n
    <3> QED BY <3>1, <2>1, <2>2, <2>4
  <2>5. w_behind' \in [Browser -> 0..(n + 1)]
    BY <2>1, <2>3, <2>4
  <2>6. DOMAIN w_queue' = Browser
    BY <2>1
  <2> QED BY <2>2, <2>3, <2>4, <2>5, <2>6
      DEF QueuesOK, Webhooks!Connected, Webhooks!Closed
<1>5. ASSUME NEW b \in Browser, Webhooks!Subscribe(b)
      PROVE  QueuesOK'
  <2>1. /\ w_queue' = [w_queue EXCEPT ![b] = <<>>]
        /\ w_behind' = [w_behind EXCEPT ![b] = Len(w_published)]
        /\ w_published' = w_published
    BY <1>5 DEF Webhooks!Subscribe
  <2>2. /\ SubSeq(w_published, Len(w_published) + 1, Len(w_published)) = <<>>
        /\ Len(<<>>) = 0 /\ 0 <= QueueSize
    BY <1>1
  <2>3. w_behind' \in [Browser -> 0..Len(w_published)]
    BY <1>1, <1>2, <2>1
  <2> QED BY <1>2, <2>1, <2>2, <2>3 DEF QueuesOK, Webhooks!Connected
<1>6. ASSUME NEW b \in Browser, Webhooks!Take(b)
      PROVE  QueuesOK'
  <2> DEFINE a == w_behind[b]
             q == w_queue[b]
             n == Len(w_published)
  <2>1. /\ w_queue' = [w_queue EXCEPT ![b] = Tail(q)]
        /\ w_behind' = [w_behind EXCEPT ![b] = a + 1]
        /\ w_published' = w_published /\ Webhooks!Connected(b) /\ q # <<>>
    BY <1>6 DEF Webhooks!Take
  <2>2. a \in 0..n /\ q = SubSeq(w_published, a + 1, n) /\ Len(q) <= QueueSize
    BY <1>2, <2>1
  <2>3. q \in Seq(Nat) /\ Len(q) = n - a
    <3>1. a \in 0..Len(w_published)
      BY <2>2
    <3>2. /\ SubSeq(w_published, a + 1, Len(w_published)) \in Seq(Nat)
          /\ Len(SubSeq(w_published, a + 1, Len(w_published)))
               = Len(w_published) - a
      <4> HIDE DEF a
      <4> QED BY <3>1, <1>1, EndIs
    <3> QED BY <2>2, <3>2
  <2>4. a < n
    <3>1. Len(q) # 0
      <4> HIDE DEF q
      <4> QED BY <2>1, <2>3
    <3> QED BY <3>1, <2>2, <2>3, <1>1
  <2>5. Tail(q) = SubSeq(w_published, a + 1 + 1, n)
    BY <1>1, <2>2, <2>4, EndTail
  <2>6. Len(Tail(q)) <= QueueSize
    <3>1. Len(Tail(q)) = Len(q) - 1
      BY <2>1, <2>3
    <3> QED BY <3>1, <2>2, <2>3, <1>1
  <2>7. w_behind' \in [Browser -> 0..n]
    <3>1. a + 1 \in 0..n
      BY <1>1, <2>2, <2>4
    <3> QED BY <1>2, <2>1, <3>1
  <2>8. ASSUME NEW c \in Browser, Webhooks!Connected(c)'
        PROVE  /\ w_queue'[c] = SubSeq(w_published, w_behind'[c] + 1, n)
               /\ Len(w_queue'[c]) <= QueueSize
    <3>1. CASE c = b
      BY <3>1, <1>2, <2>1, <2>5, <2>6
    <3>2. CASE c # b
      BY <3>2, <1>2, <2>1, <2>8 DEF Webhooks!Connected
    <3> QED BY <3>1, <3>2
  <2> QED BY <1>2, <2>1, <2>7, <2>8 DEF QueuesOK
<1>7. ASSUME NEW b \in Browser, Webhooks!Unsubscribe(b)
      PROVE  QueuesOK'
  <2>1. /\ w_queue' = [w_queue EXCEPT ![b] = Webhooks!Closed]
        /\ w_behind' = [w_behind EXCEPT ![b] = 0]
        /\ w_published' = w_published
    BY <1>7 DEF Webhooks!Unsubscribe
  <2>2. w_behind' \in [Browser -> 0..Len(w_published)]
    BY <1>1, <1>2, <2>1
  <2> QED BY <1>2, <2>1, <2>2 DEF QueuesOK, Webhooks!Connected, Webhooks!Closed
<1>8. CASE Webhooks!Restart
  <2>1. /\ w_queue' = [b \in Browser |-> Webhooks!Closed]
        /\ w_behind' = [b \in Browser |-> 0] /\ w_published' = w_published
    BY <1>8 DEF Webhooks!Restart
  <2> QED BY <1>1, <2>1 DEF QueuesOK, Webhooks!Connected, Webhooks!Closed
<1>9. ASSUME NEW r \in Request,
             \/ \E e \in Event : Webhooks!Receive(r, e)
             \/ Webhooks!RecordEvent(r)
             \/ \E committed \in BOOLEAN : Webhooks!RecordFails(r, committed)
      PROVE  QueuesOK'
  BY <1>3, <1>9
  DEF Webhooks!Receive, Webhooks!RecordEvent, Webhooks!RecordFails, Webhooks!stream
<1> QED BY <1>3, <1>4, <1>5, <1>6, <1>7, <1>8, <1>9
    DEF Webhooks!Next, Webhooks!vars, Webhooks!stream

(* Events and lives of the arrivals stay as they are. *)
SameArrivals ==
  /\ Len(w_arrivals') = Len(w_arrivals)
  /\ DOMAIN w_arrivals' = DOMAIN w_arrivals
  /\ \A k \in DOMAIN w_arrivals :
       /\ w_arrivals'[k].event = w_arrivals[k].event
       /\ w_arrivals'[k].life = w_arrivals[k].life

LEMMA RecordingKeeps ==
  ASSUME WebhookTypes, NEW r \in Request, Webhooks!RecordEvent(r)
  PROVE  SameArrivals
<1>1. /\ w_work[r] \in DOMAIN w_arrivals
      /\ w_arrivals \in Seq([event : Event, life : Nat, kept : BOOLEAN])
  BY DEF Webhooks!RecordEvent, WebhookTypes
<1>2. CASE w_arrivals' = w_arrivals
  BY <1>2 DEF SameArrivals
<1>3. CASE w_arrivals' = [w_arrivals EXCEPT ![w_work[r]].kept = TRUE]
  <2> DEFINE R == [event : Event, life : Nat, kept : BOOLEAN]
             k == w_work[r]
  <2>1. w_arrivals[k] \in R
    <3> HIDE DEF R
    <3>1. w_arrivals \in Seq(R)
      BY <1>1 DEF R
    <3> QED BY <3>1, <1>1
  <2>2. PICK a \in [event : Event, life : Nat, kept : BOOLEAN] : a = w_arrivals[k]
    BY <2>1
  <2> DEFINE v == [a EXCEPT !.kept = TRUE]
  <2>3. v.event = a.event /\ v.life = a.life
    OBVIOUS
  <2>4. w_arrivals' = [w_arrivals EXCEPT ![k] = v]
    BY <1>3, <2>2
  <2>5. Len(w_arrivals') = Len(w_arrivals) /\ DOMAIN w_arrivals' = DOMAIN w_arrivals
    <3> HIDE DEF v
    <3>1. w_arrivals \in Seq({w_arrivals[i] : i \in DOMAIN w_arrivals} \cup {v})
      BY <1>1
    <3> QED BY <1>1, <2>4, <3>1
  <2>6. ASSUME NEW i \in DOMAIN w_arrivals
        PROVE  w_arrivals'[i].event = w_arrivals[i].event
               /\ w_arrivals'[i].life = w_arrivals[i].life
    <3> HIDE DEF v
    <3>1. w_arrivals'[i] = IF i = k THEN v ELSE w_arrivals[i]
      BY <1>1, <2>4, <2>6
    <3> QED BY <3>1, <2>2, <2>3
  <2> QED BY <2>5, <2>6 DEF SameArrivals
<1> QED BY <1>2, <1>3 DEF Webhooks!RecordEvent

LEMMA SameCache ==
  ASSUME WebhookTypes, CacheOK, SameArrivals, w_cache' = w_cache, w_life' = w_life
  PROVE  CacheOK'
<1>1. /\ DOMAIN w_arrivals = 1..Len(w_arrivals) /\ Len(w_arrivals) \in Nat
  BY DEF WebhookTypes
<1>2. ASSUME NEW p \in DOMAIN w_arrivals
      PROVE  /\ After(p)' = After(p) /\ IsLast(p)' = IsLast(p)
             /\ Webhooks!EventOf(p)' = Webhooks!EventOf(p)
             /\ w_arrivals'[p].life = w_arrivals[p].life
  <2>1. \A k \in (p + 1)..Len(w_arrivals) : k \in DOMAIN w_arrivals
    BY <1>1
  <2>2. After(p)' = After(p)
    BY <2>1 DEF After, SameArrivals, Webhooks!EventOf
  <2>3. IsLast(p)' = IsLast(p)
    BY <2>1 DEF IsLast, SameArrivals, Webhooks!EventOf
  <2> QED BY <2>2, <2>3 DEF SameArrivals, Webhooks!EventOf
<1>3. \A i : Behind(i)' = Behind(i)
  BY DEF Behind
<1>4. DOMAIN w_arrivals' = DOMAIN w_arrivals
  BY DEF SameArrivals
<1> QED BY <1>2, <1>3, <1>4 DEF CacheOK

LEMMA ArrivalTypes ==
  ASSUME WebhookTypes, NEW p \in DOMAIN w_arrivals
  PROVE  /\ w_arrivals[p].event \in Event /\ w_arrivals[p].life \in Nat
         /\ w_arrivals[p].kept \in BOOLEAN
<1> DEFINE R == [event : Event, life : Nat, kept : BOOLEAN]
<1>1. w_arrivals \in Seq(R)
  BY DEF WebhookTypes
<1>2. w_arrivals[p] \in R
  <2> HIDE DEF R
  <2> QED BY <1>1
<1> QED BY <1>2

LEMMA CacheNext ==
  WebhooksOK /\ [Webhooks!Next]_(Webhooks!vars) => CacheOK'
<1> SUFFICES ASSUME WebhooksOK, [Webhooks!Next]_(Webhooks!vars) PROVE CacheOK'
  OBVIOUS
<1>1. WebhookTypes /\ CacheOK
  BY DEF WebhooksOK
<1>2. CASE UNCHANGED <<w_cache, w_arrivals, w_life>>
  BY <1>1, <1>2, SameCache DEF SameArrivals
<1>3. ASSUME NEW r \in Request, NEW e \in Event, Webhooks!Receive(r, e)
      PROVE  CacheOK'
  <2>1. /\ w_arrivals' = Append(w_arrivals,
                           [event |-> e, life |-> w_life, kept |-> FALSE])
        /\ w_life' = w_life /\ Webhooks!Store(e)
        /\ DOMAIN w_cache = 1..Len(w_cache)
    BY <1>1, <1>3 DEF Webhooks!Receive, WebhookTypes
  <2>2. CASE Webhooks!Contains(w_cache, e)
    <3>1. PICK i \in DOMAIN w_cache : w_cache[i] = e
      BY <2>1, <2>2 DEF Webhooks!Contains
    <3>2. w_cache' = Webhooks!Renewed(w_cache[i])
      BY <2>1, <2>2, <3>1 DEF Webhooks!Store
    <3> QED BY <1>1, <2>1, <3>1, <3>2, KnownEventComes
  <2>3. CASE ~Webhooks!Contains(w_cache, e)
    <3>1. \A i \in DOMAIN w_cache : w_cache[i] # e
      BY <2>1, <2>3 DEF Webhooks!Contains
    <3>2. w_cache' = Webhooks!Newest(Append(w_cache, e), CacheSize)
      BY <2>1, <2>3 DEF Webhooks!Store
    <3> QED BY <1>1, <2>1, <3>1, <3>2, NewEventComes
  <2> QED BY <2>2, <2>3
<1>4. ASSUME NEW r \in Request, Webhooks!RecordEvent(r)
      PROVE  CacheOK'
  <2>1. w_cache' = w_cache /\ w_life' = w_life
    BY <1>4 DEF Webhooks!RecordEvent
  <2> QED BY <1>1, <1>4, <2>1, RecordingKeeps, SameCache
<1>5. CASE Webhooks!Restart
  <2>1. /\ w_cache' = <<>> /\ w_life' = w_life + 1 /\ w_arrivals' = w_arrivals
    BY <1>5 DEF Webhooks!Restart
  <2>2. \A p \in DOMAIN w_arrivals : w_arrivals[p].life # w_life + 1
    <3>1. \A p \in DOMAIN w_arrivals : w_arrivals[p].life <= w_life
      BY DEF WebhooksOK, AgedOK
    <3>2. w_life \in Nat /\ \A p \in DOMAIN w_arrivals : w_arrivals[p].life \in Nat
      BY <1>1, ArrivalTypes DEF WebhookTypes
    <3> QED BY <3>1, <3>2
  <2>3. DOMAIN <<>> = {}
    OBVIOUS
  <2> QED BY <2>1, <2>2, <2>3 DEF CacheOK
<1>6. ASSUME NEW r \in Request,
             \/ Webhooks!Publish(r)
             \/ \E committed \in BOOLEAN : Webhooks!RecordFails(r, committed)
      PROVE  CacheOK'
  BY <1>2, <1>6 DEF Webhooks!Publish, Webhooks!RecordFails
<1>7. ASSUME NEW b \in Browser,
             Webhooks!Subscribe(b) \/ Webhooks!Take(b) \/ Webhooks!Unsubscribe(b)
      PROVE  CacheOK'
  BY <1>2, <1>7 DEF Webhooks!Subscribe, Webhooks!Take, Webhooks!Unsubscribe
<1>8. CASE UNCHANGED Webhooks!vars
  BY <1>2, <1>8 DEF Webhooks!vars
<1> QED BY <1>3, <1>4, <1>5, <1>6, <1>7, <1>8 DEF Webhooks!Next

(* What had left the cache when it came again has done so for ever. *)
LEMMA AgedStays ==
  ASSUME WebhookTypes, NEW n \in DOMAIN w_arrivals, Aged(n),
         \A k \in DOMAIN w_arrivals :
           /\ w_arrivals'[k].event = w_arrivals[k].event
           /\ w_arrivals'[k].life = w_arrivals[k].life
  PROVE  Aged(n)'
<1>1. /\ DOMAIN w_arrivals = 1..Len(w_arrivals) /\ Len(w_arrivals) \in Nat
  BY DEF WebhookTypes
<1>2. \A k \in 1..(n - 1) : k \in DOMAIN w_arrivals
  BY <1>1
<1> SUFFICES ASSUME NEW p \in 1..(n - 1),
                    w_arrivals'[p].event = w_arrivals'[n].event,
                    \A k \in (p + 1)..(n - 1) :
                      w_arrivals'[k].event # w_arrivals'[n].event,
                    w_arrivals'[p].life = w_arrivals'[n].life
             PROVE  Cardinality({w_arrivals'[k].event : k \in (p + 1)..(n - 1)})
                      >= CacheSize
  BY DEF Aged, Webhooks!EventOf
<1>3. \A k \in (p + 1)..(n - 1) : k \in 1..(n - 1)
  BY <1>1
<1>4. {w_arrivals'[k].event : k \in (p + 1)..(n - 1)}
        = {w_arrivals[k].event : k \in (p + 1)..(n - 1)}
  BY <1>2, <1>3
<1>5. /\ w_arrivals[p].event = w_arrivals[n].event
      /\ w_arrivals[p].life = w_arrivals[n].life
      /\ \A k \in (p + 1)..(n - 1) : w_arrivals[k].event # w_arrivals[n].event
  BY <1>2, <1>3
<1>6. Cardinality({w_arrivals[k].event : k \in (p + 1)..(n - 1)}) >= CacheSize
  BY <1>5 DEF Aged, Webhooks!EventOf
<1> QED BY <1>4, <1>6

LEMMA AgedNext ==
  WebhooksOK /\ [Webhooks!Next]_(Webhooks!vars) => AgedOK'
<1> SUFFICES ASSUME WebhooksOK, [Webhooks!Next]_(Webhooks!vars) PROVE AgedOK'
  OBVIOUS
<1>1. /\ WebhookTypes /\ CacheOK
      /\ \A p \in DOMAIN w_arrivals : w_arrivals[p].life <= w_life
      /\ \A n \in DOMAIN w_arrivals : Passed(n) => Aged(n)
  BY DEF WebhooksOK, AgedOK
<1>2. /\ \A r \in Request : w_pc[r] # "idle" => w_work[r] \in DOMAIN w_arrivals
      /\ w_life \in Nat /\ \A p \in DOMAIN w_arrivals : w_arrivals[p].life \in Nat
      /\ w_work \in [Request -> Nat \cup {NoArrival}]
      /\ w_pc \in [Request -> {"idle", "record", "publish"}]
  <2>1. \A p \in DOMAIN w_arrivals : w_arrivals[p].life \in Nat
    BY <1>1, ArrivalTypes
  <2> QED BY <1>1, <2>1 DEF WebhookTypes
<1>3. ASSUME SameArrivals, w_life' >= w_life, w_life' \in Nat,
             \A n \in DOMAIN w_arrivals : Passed(n)' => Passed(n)
      PROVE  AgedOK'
  <2>1. \A p \in DOMAIN w_arrivals' : w_arrivals'[p].life <= w_life'
    BY <1>1, <1>2, <1>3 DEF SameArrivals
  <2>2. \A n \in DOMAIN w_arrivals : Aged(n) => Aged(n)'
    BY <1>1, <1>3, AgedStays DEF SameArrivals
  <2> QED BY <1>1, <1>3, <2>1, <2>2 DEF AgedOK, SameArrivals
<1>4. w_life >= w_life
  BY <1>2
<1>5. ASSUME NEW r \in Request, NEW e \in Event, Webhooks!Receive(r, e)
      PROVE  AgedOK'
  <2>1. /\ w_arrivals' = Append(w_arrivals,
                           [event |-> e, life |-> w_life, kept |-> FALSE])
        /\ w_life' = w_life /\ w_published' = w_published
    BY <1>5 DEF Webhooks!Receive
  <2>2. PICK n : n = Len(w_arrivals) + 1
    OBVIOUS
  <2>3. /\ DOMAIN w_arrivals = 1..(n - 1) /\ DOMAIN w_arrivals' = 1..n
        /\ n \in Nat /\ n - 1 \in Nat /\ Len(w_arrivals') = n
        /\ \A p \in 1..(n - 1) : w_arrivals'[p] = w_arrivals[p]
        /\ w_arrivals'[n] = [event |-> e, life |-> w_life, kept |-> FALSE]
    BY <1>1, <2>1, <2>2, Arrives
  <2>4. \A p \in 1..n : p \in 1..(n - 1) \/ p = n
    BY <2>3
  <2>5. \A p \in DOMAIN w_arrivals' : w_arrivals'[p].life <= w_life'
    BY <1>1, <1>2, <2>1, <2>3, <2>4
  <2>6. ASSUME NEW m \in 1..(n - 1), Passed(m)' PROVE Aged(m)'
    <3>1. Passed(m)
      <4>1. CASE \E i \in DOMAIN w_published' : w_published'[i] = m
        BY <4>1, <2>1 DEF Passed
      <4>2. CASE \E q \in Request : w_pc'[q] # "idle" /\ w_work'[q] = m
        <5>1. PICK q \in Request : w_pc'[q] # "idle" /\ w_work'[q] = m
          BY <4>2
        <5>2. m # n
          BY <2>3
        <5>3. w_pc[q] # "idle" /\ w_work[q] = m
          <6>1. CASE UNCHANGED Webhooks!request
            BY <5>1, <6>1 DEF Webhooks!request
          <6>2. CASE /\ w_work' = [w_work EXCEPT ![r] = n]
                     /\ w_pc' = [w_pc EXCEPT ![r] = "record"]
            BY <5>1, <5>2, <6>2, <1>2
          <6> QED BY <6>1, <6>2, <1>5, <2>3 DEF Webhooks!Receive
        <5> QED BY <5>3 DEF Passed
      <4> QED BY <4>1, <4>2, <2>6 DEF Passed
    <3>2. Aged(m) /\ m \in DOMAIN w_arrivals
      BY <1>1, <2>3, <3>1
    <3> QED BY <3>2, <1>1, <2>3, AgedStays
  <2>7. ASSUME Passed(n)' PROVE Aged(n)'
    <3>1. ~Webhooks!Contains(w_cache, e)
      <4> SUFFICES ASSUME Webhooks!Contains(w_cache, e) PROVE FALSE
        OBVIOUS
      <4>1. UNCHANGED <<w_work, w_pc>>
        BY <1>5 DEF Webhooks!Receive, Webhooks!request
      <4>2. ~(n \in DOMAIN w_arrivals)
        <5>1. ~(n \in 1..(n - 1))
          BY <2>3
        <5> QED BY <5>1, <2>3
      <4>3. \A i \in DOMAIN w_published : w_published[i] \in DOMAIN w_arrivals
        BY <1>1 DEF WebhookTypes
      <4> QED BY <4>1, <4>2, <4>3, <1>2, <2>1, <2>7 DEF Passed
    <3>2. \A i \in DOMAIN w_cache : w_cache[i] # e
      <4>1. DOMAIN w_cache = 1..Len(w_cache)
        BY <1>1 DEF WebhookTypes
      <4> QED BY <4>1, <3>1 DEF Webhooks!Contains
    <3> SUFFICES ASSUME NEW p \in 1..(n - 1),
                        w_arrivals'[p].event = w_arrivals'[n].event,
                        \A k \in (p + 1)..(n - 1) :
                          w_arrivals'[k].event # w_arrivals'[n].event,
                        w_arrivals'[p].life = w_arrivals'[n].life
                 PROVE  Cardinality({w_arrivals'[k].event : k \in (p + 1)..(n - 1)})
                          >= CacheSize
      BY DEF Aged, Webhooks!EventOf
    <3>3. \A k \in (p + 1)..(n - 1) : k \in 1..(n - 1)
      BY <2>3
    <3>4. w_arrivals'[n].event = e /\ w_arrivals'[n].life = w_life
      BY <2>3
    <3>5. {w_arrivals'[k].event : k \in (p + 1)..(n - 1)} = After(p)
      <4>1. Len(w_arrivals) = n - 1
        BY <1>1, <2>2 DEF WebhookTypes
      <4> QED BY <4>1, <2>3, <3>3 DEF After, Webhooks!EventOf
    <3>6. IsLast(p) /\ Webhooks!EventOf(p) = e /\ w_arrivals[p].life = w_life
      <4>1. Len(w_arrivals) = n - 1
        BY <1>1, <2>2 DEF WebhookTypes
      <4>2. Webhooks!EventOf(p) = e /\ w_arrivals[p].life = w_life
        BY <2>3, <3>4 DEF Webhooks!EventOf
      <4>3. \A k \in (p + 1)..(n - 1) : Webhooks!EventOf(k) # e
        BY <2>3, <3>3, <3>4 DEF Webhooks!EventOf
      <4> QED BY <4>1, <4>2, <4>3, <2>3 DEF IsLast
    <3> QED BY <1>1, <2>3, <3>2, <3>5, <3>6 DEF CacheOK
  <2>8. \A m \in DOMAIN w_arrivals' : Passed(m)' => Aged(m)'
    BY <2>3, <2>4, <2>6, <2>7
  <2> QED BY <2>5, <2>8 DEF AgedOK
<1>6. ASSUME NEW r \in Request, Webhooks!RecordEvent(r)
      PROVE  AgedOK'
  <2>1. w_life' = w_life /\ w_published' = w_published
    BY <1>6 DEF Webhooks!RecordEvent
  <2>2. \A q \in Request :
          w_pc'[q] # "idle" => w_pc[q] # "idle" /\ w_work'[q] = w_work[q]
    BY <1>2, <1>6 DEF Webhooks!RecordEvent, Webhooks!Answer
  <2>3. \A n \in DOMAIN w_arrivals : Passed(n)' => Passed(n)
    BY <2>1, <2>2 DEF Passed
  <2> QED BY <1>1, <1>2, <1>3, <1>4, <1>6, <2>1, <2>3, RecordingKeeps
<1>7. ASSUME NEW r \in Request, NEW committed \in BOOLEAN,
             Webhooks!RecordFails(r, committed)
      PROVE  AgedOK'
  <2>1. UNCHANGED <<w_life, w_published, w_arrivals, w_work>>
    BY <1>7 DEF Webhooks!RecordFails
  <2>2. \A q \in Request : w_pc'[q] # "idle" => w_pc[q] # "idle"
    BY <1>2, <1>7 DEF Webhooks!RecordFails
  <2>3. \A n \in DOMAIN w_arrivals : Passed(n)' => Passed(n)
    BY <2>1, <2>2 DEF Passed
  <2> QED BY <1>2, <1>3, <1>4, <2>1, <2>3 DEF SameArrivals
<1>8. ASSUME NEW r \in Request, Webhooks!Publish(r)
      PROVE  AgedOK'
  <2>1. /\ w_pc[r] = "publish" /\ w_published' = Append(w_published, w_work[r])
        /\ UNCHANGED <<w_life, w_arrivals>>
        /\ w_work' = [w_work EXCEPT ![r] = NoArrival]
        /\ w_pc' = [w_pc EXCEPT ![r] = "idle"]
    BY <1>8 DEF Webhooks!Publish, Webhooks!Answer
  <2>2. \A q \in Request :
          w_pc'[q] # "idle" => w_pc[q] # "idle" /\ w_work'[q] = w_work[q]
    BY <1>2, <2>1
  <2>3. \A i \in DOMAIN w_published' :
          w_published'[i] = w_work[r] \/ \E j \in DOMAIN w_published : w_published'[i] = w_published[j]
    <3>1. w_published \in Seq(Nat) /\ w_work[r] \in Nat
      BY <1>1, <1>2, <2>1 DEF WebhookTypes
    <3> QED BY <2>1, <3>1
  <2>4. \A n \in DOMAIN w_arrivals : Passed(n)' => Passed(n)
    BY <2>1, <2>2, <2>3 DEF Passed
  <2> QED BY <1>2, <1>3, <1>4, <2>1, <2>4 DEF SameArrivals
<1>9. ASSUME UNCHANGED <<w_pc, w_work, w_published, w_arrivals, w_life>>
      PROVE  AgedOK'
  <2>1. \A n \in DOMAIN w_arrivals : Passed(n)' => Passed(n)
    BY <1>9 DEF Passed
  <2> QED BY <1>2, <1>3, <1>4, <1>9, <2>1 DEF SameArrivals
<1>10. CASE Webhooks!Restart
  <2>1. /\ w_life' = w_life + 1 /\ UNCHANGED <<w_arrivals, w_published>>
        /\ w_pc' = [r \in Request |-> "idle"]
    BY <1>10 DEF Webhooks!Restart
  <2>2. \A n \in DOMAIN w_arrivals : Passed(n)' => Passed(n)
    BY <2>1 DEF Passed
  <2>3. w_life + 1 >= w_life /\ w_life + 1 \in Nat
    BY <1>2
  <2> QED BY <1>3, <2>1, <2>2, <2>3 DEF SameArrivals
<1>11. ASSUME NEW b \in Browser,
              Webhooks!Subscribe(b) \/ Webhooks!Take(b) \/ Webhooks!Unsubscribe(b)
       PROVE  AgedOK'
  BY <1>9, <1>11
  DEF Webhooks!Subscribe, Webhooks!Take, Webhooks!Unsubscribe, Webhooks!request
<1>12. CASE UNCHANGED Webhooks!vars
  BY <1>9, <1>12 DEF Webhooks!vars, Webhooks!request
<1> QED BY <1>5, <1>6, <1>7, <1>8, <1>10, <1>11, <1>12 DEF Webhooks!Next

LEMMA KeptNext ==
  WebhooksOK /\ [Webhooks!Next]_(Webhooks!vars) => KeptOnce'
<1> SUFFICES ASSUME WebhooksOK, [Webhooks!Next]_(Webhooks!vars) PROVE KeptOnce'
  OBVIOUS
<1>1. WebhookTypes /\ KeptOnce
  BY DEF WebhooksOK
<1>2. CASE UNCHANGED w_arrivals /\ w_recorded \subseteq w_recorded'
  BY <1>1, <1>2 DEF KeptOnce, Webhooks!EventOf
<1>3. ASSUME NEW r \in Request, NEW e \in Event, Webhooks!Receive(r, e)
      PROVE  KeptOnce'
  <2>1. /\ w_arrivals' = Append(w_arrivals,
                           [event |-> e, life |-> w_life, kept |-> FALSE])
        /\ w_recorded' = w_recorded
    BY <1>3 DEF Webhooks!Receive
  <2>2. PICK n : n = Len(w_arrivals) + 1
    OBVIOUS
  <2>3. /\ DOMAIN w_arrivals = 1..(n - 1) /\ DOMAIN w_arrivals' = 1..n
        /\ n \in Nat /\ n - 1 \in Nat /\ Len(w_arrivals') = n
        /\ \A p \in 1..(n - 1) : w_arrivals'[p] = w_arrivals[p]
        /\ w_arrivals'[n] = [event |-> e, life |-> w_life, kept |-> FALSE]
    BY <1>1, <2>1, <2>2, Arrives
  <2>4. \A p \in 1..n : p \in 1..(n - 1) \/ p = n
    BY <2>3
  <2>5. ~w_arrivals'[n].kept
    BY <2>3
  <2>6. \A p \in DOMAIN w_arrivals' : w_arrivals'[p].kept =>
          p \in DOMAIN w_arrivals /\ w_arrivals'[p] = w_arrivals[p]
    BY <2>3, <2>4, <2>5
  <2> QED BY <1>1, <2>1, <2>6 DEF KeptOnce, Webhooks!EventOf
<1>4. ASSUME NEW r \in Request, Webhooks!RecordEvent(r)
      PROVE  KeptOnce'
  <2> DEFINE k == w_work[r]
             e == w_arrivals[k].event
  <2>1. SameArrivals /\ k \in DOMAIN w_arrivals
    BY <1>1, <1>4, RecordingKeeps DEF WebhookTypes, Webhooks!RecordEvent
  <2>2. w_recorded' = w_recorded \cup {e}
    BY <1>4 DEF Webhooks!RecordEvent
  <2>3. CASE ~Webhooks!Inserted(e)
    <3>1. w_arrivals' = w_arrivals
      BY <1>4, <2>3 DEF Webhooks!RecordEvent
    <3> QED BY <1>2, <2>2, <3>1
  <2>4. CASE Webhooks!Inserted(e)
    <3>1. w_arrivals' = [w_arrivals EXCEPT ![k].kept = TRUE]
      BY <1>4, <2>4 DEF Webhooks!RecordEvent
    <3>2. e \notin w_recorded
      BY <2>4 DEF Webhooks!Inserted
    <3>3. \A p \in DOMAIN w_arrivals : p # k => w_arrivals'[p] = w_arrivals[p]
      <4>1. w_arrivals = [i \in DOMAIN w_arrivals |-> w_arrivals[i]]
        BY <1>1 DEF WebhookTypes
      <4> HIDE DEF k
      <4> QED BY <3>1, <4>1
    <3>4. \A p \in DOMAIN w_arrivals : w_arrivals[p].kept => w_arrivals[p].event # e
      BY <1>1, <3>2 DEF KeptOnce, Webhooks!EventOf
    <3> HIDE DEF k, e
    <3>5. \A p \in DOMAIN w_arrivals :
            w_arrivals'[p].kept => p = k \/ w_arrivals[p].kept
      BY <3>3
    <3>6. w_arrivals[k].event = e
      BY DEF e
    <3>7. \A p \in DOMAIN w_arrivals' : w_arrivals'[p].kept =>
            w_arrivals'[p].event \in w_recorded'
      BY <1>1, <2>1, <2>2, <3>5, <3>6 DEF SameArrivals, KeptOnce, Webhooks!EventOf
    <3>8. ASSUME NEW p \in DOMAIN w_arrivals', NEW q \in DOMAIN w_arrivals',
                 w_arrivals'[p].kept, w_arrivals'[q].kept,
                 w_arrivals'[p].event = w_arrivals'[q].event
          PROVE  p = q
      <4>1. /\ p \in DOMAIN w_arrivals /\ q \in DOMAIN w_arrivals
            /\ w_arrivals[p].event = w_arrivals[q].event
        BY <2>1, <3>8 DEF SameArrivals
      <4>2. CASE p = k \/ q = k
        BY <3>4, <3>5, <3>6, <3>8, <4>1, <4>2
      <4>3. CASE p # k /\ q # k
        BY <1>1, <3>5, <3>8, <4>1, <4>3 DEF KeptOnce, Webhooks!EventOf
      <4> QED BY <4>2, <4>3
    <3> QED BY <3>7, <3>8 DEF KeptOnce, Webhooks!EventOf
  <2> QED BY <2>3, <2>4
<1>5. ASSUME NEW r \in Request,
             \/ Webhooks!Publish(r)
             \/ \E committed \in BOOLEAN : Webhooks!RecordFails(r, committed)
      PROVE  KeptOnce'
  BY <1>2, <1>5 DEF Webhooks!Publish, Webhooks!RecordFails
<1>6. ASSUME NEW b \in Browser,
             Webhooks!Subscribe(b) \/ Webhooks!Take(b) \/ Webhooks!Unsubscribe(b)
      PROVE  KeptOnce'
  BY <1>2, <1>6 DEF Webhooks!Subscribe, Webhooks!Take, Webhooks!Unsubscribe
<1>7. CASE UNCHANGED Webhooks!vars \/ Webhooks!Restart
  BY <1>2, <1>7 DEF Webhooks!vars, Webhooks!Restart
<1> QED BY <1>3, <1>4, <1>5, <1>6, <1>7 DEF Webhooks!Next

LEMMA WebhooksInvariant == Webhooks!Spec => []WebhooksOK
<1>1. WebhooksOK /\ [Webhooks!Next]_(Webhooks!vars) => WebhooksOK'
  BY WebhookTypesNext, QueuesNext, CacheNext, AgedNext, KeptNext DEF WebhooksOK
<1> QED BY <1>1, WebhooksBegin, PTL DEF Webhooks!Spec

(* What the browsers see of the events is neither repeated, unless the     *)
(* database took no note of an event and the cache had forgotten it, nor   *)
(* out of date by more than their queues hold                              *)
(* (WebhookEventDeduplicator, RealtimeEventBroker).                        *)
THEOREM BrowsersAreToldOnce == Webhooks!Spec => []BrowsersFollow
<1>1. WebhooksOK => BrowsersFollow
  <2> SUFFICES ASSUME WebhooksOK PROVE BrowsersFollow
    OBVIOUS
  <2>1. Webhooks!NewestKept
    BY DEF WebhooksOK, QueuesOK, Webhooks!NewestKept
  <2>2. ASSUME NEW i \in DOMAIN w_published, NEW j \in DOMAIN w_published,
               w_published[i] < w_published[j],
               Webhooks!EventOf(w_published[i]) = Webhooks!EventOf(w_published[j])
        PROVE  /\ ~(w_arrivals[w_published[i]].kept /\ w_arrivals[w_published[j]].kept)
               /\ Webhooks!AgedOut(w_published[j])
    <3> DEFINE m == w_published[i]
               n == w_published[j]
               before == {p \in 1..(n - 1) : Webhooks!EventOf(p) = Webhooks!EventOf(n)}
               last == Webhooks!Max(before)
    <3>1. /\ m \in DOMAIN w_arrivals /\ n \in DOMAIN w_arrivals
          /\ DOMAIN w_arrivals \subseteq Nat \ {0}
      <4>1. m \in DOMAIN w_arrivals /\ n \in DOMAIN w_arrivals
        BY DEF WebhooksOK, WebhookTypes
      <4>2. DOMAIN w_arrivals = 1..Len(w_arrivals) /\ Len(w_arrivals) \in Nat
        BY DEF WebhooksOK, WebhookTypes
      <4> QED BY <4>1, <4>2
    <3>2. ~(w_arrivals[m].kept /\ w_arrivals[n].kept)
      <4>1. m # n
        BY <2>2, <3>1
      <4> QED BY <2>2, <3>1, <4>1 DEF WebhooksOK, KeptOnce
    <3>3. Aged(n)
      BY <3>1 DEF WebhooksOK, AgedOK, Passed
    <3>4. m \in before
      BY <2>2, <3>1
    <3>5. n \in Nat
      BY <3>1
    <3> HIDE DEF m, n
    <3>6. before \subseteq 0..n
      BY <3>5
    <3>7. last \in before /\ \A p \in before : last >= p
      <4> HIDE DEF before
      <4> QED BY <3>4, <3>5, <3>6, WebhooksMax
    <3>8. \A k \in (last + 1)..(n - 1) : Webhooks!EventOf(k) # Webhooks!EventOf(n)
      <4> HIDE DEF last
      <4> TAKE k \in (last + 1)..(n - 1)
      <4>1. k \in 1..(n - 1) /\ ~(last >= k)
        BY <3>5, <3>7
      <4> QED BY <4>1, <3>7
    <3>9. last \in 1..(n - 1) /\ Webhooks!EventOf(last) = Webhooks!EventOf(n)
      BY <3>7
    <3>10. Webhooks!AgedOut(n)
      <4>1. w_arrivals[last].life = w_arrivals[n].life =>
              Cardinality({Webhooks!EventOf(k) : k \in (last + 1)..(n - 1)})
                >= CacheSize
        <5> HIDE DEF last
        <5> QED BY <3>3, <3>8, <3>9 DEF Aged
      <4> QED BY <4>1, WebhooksCount DEF Webhooks!AgedOut
    <3> QED BY <3>2, <3>10 DEF m, n
  <2>3. Webhooks!ToldOnce
    BY <2>2 DEF Webhooks!ToldOnce
  <2> QED BY <2>1, <2>3 DEF BrowsersFollow, Webhooks!BrowsersFollow
<1> QED BY <1>1, WebhooksInvariant, PTL

-----------------------------------------------------------------------------
(* The types of the webhooks.  An arrival is in one place at most: some    *)
(* request is at it, or it was passed on, once.                            *)
PlacesOK ==
  /\ w_recorded \subseteq Event
  /\ \A r \in Request : w_pc[r] = "idle" => w_work[r] = NoArrival
  /\ \A r, q \in Request :
       w_pc[r] # "idle" /\ w_pc[q] # "idle" /\ w_work[r] = w_work[q] => r = q
  /\ \A r \in Request : w_pc[r] # "idle" =>
       \A i \in DOMAIN w_published : w_published[i] # w_work[r]
  /\ \A i, j \in DOMAIN w_published : w_published[i] = w_published[j] => i = j

LEMMA PlacesNext ==
  ASSUME WebhookTypes, PlacesOK, [Webhooks!Next]_(Webhooks!vars)
  PROVE  PlacesOK'
<1>1. /\ w_pc \in [Request -> {"idle", "record", "publish"}]
      /\ w_work \in [Request -> Nat \cup {NoArrival}]
      /\ \A r \in Request : w_pc[r] # "idle" => w_work[r] \in DOMAIN w_arrivals
      /\ w_arrivals \in Seq([event : Event, life : Nat, kept : BOOLEAN])
      /\ w_published \in Seq(Nat)
      /\ \A i \in DOMAIN w_published : w_published[i] \in DOMAIN w_arrivals
  BY DEF WebhookTypes
<1>2. /\ Len(w_arrivals) \in Nat /\ DOMAIN w_arrivals = 1..Len(w_arrivals)
      /\ Len(w_arrivals) + 1 \notin DOMAIN w_arrivals
  BY <1>1
<1>3. \A k \in DOMAIN w_arrivals : w_arrivals[k].event \in Event
  <2> DEFINE R == [event : Event, life : Nat, kept : BOOLEAN]
  <2>1. \A a \in R : a.event \in Event
    OBVIOUS
  <2>2. w_arrivals \in Seq(R)
    BY <1>1
  <2> HIDE DEF R
  <2>3. \A k \in DOMAIN w_arrivals : w_arrivals[k] \in R
    BY <2>2
  <2> QED BY <2>1, <2>3
<1>4. ASSUME NEW r \in Request, NEW e \in Event, Webhooks!Receive(r, e)
      PROVE  PlacesOK'
  <2>1. /\ w_pc[r] = "idle"
        /\ UNCHANGED <<w_recorded, w_published>>
        /\ \/ UNCHANGED <<w_work, w_pc>>
           \/ /\ w_work' = [w_work EXCEPT ![r] = Len(w_arrivals')]
              /\ w_pc' = [w_pc EXCEPT ![r] = "record"]
    BY <1>4 DEF Webhooks!Receive, Webhooks!request
  <2>2. Len(w_arrivals') = Len(w_arrivals) + 1
    BY <1>1, <1>4 DEF Webhooks!Receive
  <2>3. CASE UNCHANGED <<w_work, w_pc>>
    BY <2>1, <2>3 DEF PlacesOK
  <2>4. CASE /\ w_work' = [w_work EXCEPT ![r] = Len(w_arrivals) + 1]
             /\ w_pc' = [w_pc EXCEPT ![r] = "record"]
    BY <1>1, <1>2, <2>1, <2>4 DEF PlacesOK
  <2> QED BY <2>1, <2>2, <2>3, <2>4
<1>5. ASSUME NEW r \in Request, NEW x, x = w_work[r], w_pc[r] # "idle",
             w_recorded' \subseteq w_recorded \cup {w_arrivals[x].event},
             UNCHANGED w_published,
             \/ w_pc' = [w_pc EXCEPT ![r] = "publish"] /\ UNCHANGED w_work
             \/ Webhooks!Answer(r)
      PROVE  PlacesOK'
  <2>1. w_recorded' \subseteq Event
    BY <1>1, <1>3, <1>5 DEF PlacesOK
  <2>2. CASE w_pc' = [w_pc EXCEPT ![r] = "publish"] /\ UNCHANGED w_work
    BY <1>1, <1>5, <2>1, <2>2 DEF PlacesOK
  <2>3. CASE Webhooks!Answer(r)
    BY <1>1, <1>5, <2>1, <2>3 DEF PlacesOK, Webhooks!Answer
  <2> QED BY <1>5, <2>2, <2>3
<1>6. ASSUME NEW r \in Request, Webhooks!RecordEvent(r) PROVE PlacesOK'
  BY <1>5, <1>6 DEF Webhooks!RecordEvent, Webhooks!stream
<1>7. ASSUME NEW r \in Request, NEW committed \in BOOLEAN,
             Webhooks!RecordFails(r, committed)
      PROVE  PlacesOK'
  BY <1>5, <1>7 DEF Webhooks!RecordFails, Webhooks!stream
<1>8. ASSUME NEW r \in Request, Webhooks!Publish(r) PROVE PlacesOK'
  <2>1. /\ w_pc[r] # "idle" /\ UNCHANGED w_recorded
        /\ w_work' = [w_work EXCEPT ![r] = NoArrival]
        /\ w_pc' = [w_pc EXCEPT ![r] = "idle"]
        /\ w_published' = Append(w_published, w_work[r])
    BY <1>8 DEF Webhooks!Publish, Webhooks!Answer
  <2>2. w_work[r] \in Nat
    BY <1>1, <1>2, <2>1
  <2>3. /\ DOMAIN w_published = 1..Len(w_published) /\ Len(w_published) \in Nat
        /\ DOMAIN w_published' = 1..(Len(w_published) + 1)
        /\ \A i \in 1..Len(w_published) : w_published'[i] = w_published[i]
        /\ w_published'[Len(w_published) + 1] = w_work[r]
    BY <1>1, <2>1, <2>2
  <2>4. \A q \in Request : w_pc'[q] # "idle" =>
          q # r /\ w_pc[q] # "idle" /\ w_work'[q] = w_work[q]
    BY <1>1, <2>1
  <2>5. \A q \in Request : w_pc'[q] = "idle" => w_work'[q] = NoArrival
    BY <1>1, <2>1 DEF PlacesOK
  <2>6. \A i, j \in DOMAIN w_published' : w_published'[i] = w_published'[j] => i = j
    BY <2>1, <2>3 DEF PlacesOK
  <2>7. \A q \in Request : w_pc'[q] # "idle" =>
          \A i \in DOMAIN w_published' : w_published'[i] # w_work'[q]
    BY <2>1, <2>3, <2>4 DEF PlacesOK
  <2> QED BY <2>1, <2>4, <2>5, <2>6, <2>7 DEF PlacesOK
<1>9. ASSUME NEW b \in Browser,
             Webhooks!Subscribe(b) \/ Webhooks!Take(b) \/ Webhooks!Unsubscribe(b)
      PROVE  PlacesOK'
  BY <1>9 DEF Webhooks!Subscribe, Webhooks!Take, Webhooks!Unsubscribe,
              Webhooks!request, PlacesOK
<1>10. CASE Webhooks!Restart
  BY <1>1, <1>10 DEF Webhooks!Restart, PlacesOK
<1>11. CASE UNCHANGED Webhooks!vars
  BY <1>11 DEF Webhooks!vars, Webhooks!request, PlacesOK
<1> QED BY <1>4, <1>6, <1>7, <1>8, <1>9, <1>10, <1>11 DEF Webhooks!Next

(* What the webhooks keep is of its type: the cache and the queues within  *)
(* their limits, no event twice in the cache, and no arrival passed on     *)
(* twice (WebhookEventDeduplicator, RealtimeEventBroker).                  *)
THEOREM WebhookTypesHold == Webhooks!Spec => []Webhooks!TypeOK
<1>1. Webhooks!Init => PlacesOK
  BY DEF Webhooks!Init, PlacesOK
<1>2. WebhooksOK /\ PlacesOK /\ [Webhooks!Next]_(Webhooks!vars) => PlacesOK'
  BY PlacesNext DEF WebhooksOK
<1>3. WebhooksOK /\ PlacesOK => Webhooks!TypeOK
  <2> SUFFICES ASSUME WebhooksOK, PlacesOK PROVE Webhooks!TypeOK
    OBVIOUS
  <2>1. /\ WebhookTypes /\ QueuesOK
        /\ MaxArrivals \in Nat
    BY WebhookAssumption DEF WebhooksOK, WebhookConstants
  <2>2. /\ w_published \in Seq(Nat)
        /\ \A i \in DOMAIN w_published : w_published[i] \in DOMAIN w_arrivals
        /\ DOMAIN w_arrivals = 1..Len(w_arrivals) /\ Len(w_arrivals) \in Nat
        /\ Len(w_arrivals) <= MaxArrivals
    BY <2>1 DEF WebhookTypes
  <2>3. DOMAIN w_arrivals \subseteq Webhooks!Arrival
    BY <2>1, <2>2 DEF Webhooks!Arrival
  <2>4. w_published \in Seq(Webhooks!Arrival) /\ Len(w_published) \in Nat
    <3>1. \A i \in DOMAIN w_published : w_published[i] \in Webhooks!Arrival
      BY <2>2, <2>3
    <3>2. /\ Len(w_published) \in Nat /\ DOMAIN w_published = 1..Len(w_published)
          /\ w_published = [i \in 1..Len(w_published) |-> w_published[i]]
      BY <2>2
    <3>3. w_published \in [1..Len(w_published) -> Webhooks!Arrival]
      BY <3>1, <3>2
    <3> QED BY <3>2, <3>3
  <2>5. ASSUME NEW b \in Browser, Webhooks!Connected(b)
        PROVE  w_queue[b] \in Seq(Webhooks!Arrival) /\ Len(w_queue[b]) <= QueueSize
    <3>1. w_behind[b] \in 0..Len(w_published)
      BY <2>1 DEF QueuesOK
    <3>2. SubSeq(w_published, w_behind[b] + 1, Len(w_published)) \in Seq(Webhooks!Arrival)
      <4>1. PICK a \in 0..Len(w_published) : a = w_behind[b]
        BY <3>1
      <4> QED BY <2>4, <4>1, EndIs
    <3> QED BY <2>1, <2>5, <3>2 DEF QueuesOK
  <2>6. ASSUME NEW r \in Request
        PROVE  w_work[r] \in IF w_pc[r] = "idle" THEN {NoArrival} ELSE DOMAIN w_arrivals
    BY <2>1 DEF WebhookTypes, PlacesOK
  <2>7. Webhooks!IsInjective(w_cache) /\ Webhooks!IsInjective(w_published)
    BY <2>1 DEF WebhookTypes, PlacesOK, Webhooks!IsInjective
  <2> QED BY <2>1, <2>3, <2>5, <2>6, <2>7 DEF WebhookTypes, PlacesOK, Webhooks!TypeOK
<1> QED BY <1>1, <1>2, <1>3, WebhooksInvariant, PTL DEF Webhooks!Spec

-----------------------------------------------------------------------------
(* The poller of the CAD (CadRuntime). *)

(* The longest that a attempts of one request take, up to the last answer. *)
Spent(a) == a * Cad!Exchange + (a - 1) * LongestPause

LEMMA ExchangeIsTime == CadConstants => Cad!Exchange \in Nat
BY DEF CadConstants, Cad!Exchange

LEMMA SpentGrows ==
  ASSUME CadConstants, NEW a \in Nat \ {0}
  PROVE  /\ Spent(a) \in Nat /\ Spent(1) = Cad!Exchange
         /\ Spent(a + 1) = Spent(a) + LongestPause + Cad!Exchange
         /\ a <= Attempts => Spent(a) <= Cad!LongestRequest
         /\ Cad!LongestRequest = Spent(Attempts)
<1>1. Cad!Exchange \in Nat /\ LongestPause \in Nat /\ Attempts \in Nat \ {0}
  BY ExchangeIsTime DEF CadConstants
<1>2. Spent(1) = Cad!Exchange
  BY <1>1 DEF Spent
<1>3. Spent(a + 1) = Spent(a) + LongestPause + Cad!Exchange
  BY <1>1 DEF Spent
<1>4. Cad!LongestRequest = Spent(Attempts)
  BY DEF Spent, Cad!LongestRequest
<1>5. Spent(a) \in Nat
  BY <1>1 DEF Spent
<1>6. ASSUME a <= Attempts PROVE Spent(a) <= Spent(Attempts)
  <2>1. a * Cad!Exchange <= Attempts * Cad!Exchange
    BY <1>1, <1>6
  <2>2. (a - 1) * LongestPause <= (Attempts - 1) * LongestPause
    BY <1>1, <1>6
  <2> QED BY <1>1, <2>1, <2>2 DEF Spent
<1> QED BY <1>2, <1>3, <1>4, <1>5, <1>6

(* What is on display is of one poll, which did not take too long. *)
ShownOK ==
  IF c_shown.success = NoTime
    THEN c_shown.calls = NoTime /\ c_shown.units = NoTime
    ELSE /\ c_shown.calls \in Cad!Times /\ c_shown.units \in Cad!Times
         /\ c_shown.success = c_shown.units /\ c_shown.units <= c_now
         /\ c_shown.calls <= c_shown.units
         /\ c_shown.units <= c_shown.calls + Cad!LongestRest
         /\ ~c_shown.failed => c_shown.attempt \in Cad!Times /\ c_shown.attempt <= c_shown.calls

(* Nor does a poll that has its calls: it asks for the units, and before,  *)
(* if need be, for the credentials and a token; the requests to the CAD    *)
(* have their attempts.                                                    *)
PollOK ==
  c_phase \in {"send", "pause"} =>
    /\ c_attempt >= 1 /\ (c_phase = "pause" => c_attempt < Attempts)
    /\ c_request.what \in {"secret", "token", c_request.for}
    /\ c_started \in Cad!Times /\ c_started <= c_now
    /\ c_request.for = "units" =>
         /\ c_calls \in Cad!Times /\ c_calls <= c_now /\ c_started <= c_calls
         /\ c_request.what = "secret" => c_phase = "send" /\ c_until <= c_calls + SecretSeconds
         /\ c_request.what # "secret" =>
              c_until <= c_calls + SecretSeconds + Spent(c_attempt)
                         + (IF c_request.what = "units" THEN Cad!LongestRequest ELSE 0)
                         + (IF c_phase = "pause" THEN LongestPause ELSE 0)

CadOK == Cad!TypeOK /\ ShownOK /\ PollOK

(* Types, the clock's first. *)
LEMMA CadTypes ==
  ASSUME CadConstants, Cad!TypeOK, PollOK, Cad!Next
  PROVE  Cad!TypeOK'
<1>0. /\ c_now \in Nat /\ c_now <= LastTime /\ c_until \in Nat /\ c_expires \in Nat
      /\ c_expires <= LastTime + TokenLife
      /\ c_attempt \in Nat /\ c_attempt <= Attempts
      /\ c_until <= LastTime + PollSeconds + Cad!Exchange + LongestPause + SecretSeconds
      /\ PollSeconds \in Nat /\ Cad!Exchange \in Nat /\ LongestPause \in Nat
      /\ SecretSeconds \in Nat
      /\ Attempts \in Nat \ {0} /\ TokenLife \in Nat /\ LastTime \in Nat
  BY ExchangeIsTime DEF CadConstants, Cad!TypeOK, Cad!Times
<1> DEFINE Clock == /\ c_now \in Cad!Times
                    /\ c_until \in 0..(LastTime + PollSeconds + Cad!Exchange + LongestPause
                                       + SecretSeconds)
                    /\ c_phase \in {"sleep", "send", "pause"} => c_now <= c_until
                    /\ c_phase \in {"off", "sleep", "send", "pause"}
                    /\ c_attempt \in 0..Attempts
           Shown == /\ c_shown \in [calls : Cad!Stamp, units : Cad!Stamp, success : Cad!Stamp,
                                    attempt : Cad!Stamp, failed : BOOLEAN]
                    /\ c_started \in Cad!Stamp /\ c_calls \in Cad!Stamp
           Asked == /\ c_expires \in 0..(LastTime + TokenLife)
                    /\ c_request \in [what : Cad!Operation \cup {"secret", "token"}, for : Cad!Operation]
<1>1. c_now' = c_now \/ (c_now < LastTime /\ c_now' = c_now + 1)
  BY DEF Cad!Next, Cad!Tick, Cad!Start, Cad!Stop, Cad!PollOnce, Cad!SecretArrives,
         Cad!TokenArrives, Cad!CallsArrive, Cad!UnitsArrive, Cad!SendAgain, Cad!PollFails,
         Cad!Retry
<1>2. c_now' \in Cad!Times
  BY <1>0, <1>1 DEF Cad!Times
<1>3. Clock'
  <2> USE <1>0, <1>2 DEF Cad!Times
  <2>1. CASE Cad!Tick
    BY <2>1 DEF Cad!Tick, Cad!poller, Cad!TypeOK
  <2>2. CASE Cad!Start
    BY <2>2 DEF Cad!Start, Cad!TypeOK
  <2>3. CASE Cad!Stop
    BY <2>3 DEF Cad!Stop, Cad!TypeOK
  <2>4. CASE Cad!PollOnce \/ Cad!SecretArrives \/ Cad!TokenArrives \/ Cad!CallsArrive
    <3>1. /\ c_phase' = "send" /\ c_attempt' = 1 /\ c_now' = c_now
          /\ c_until' \in {c_now + Cad!Exchange, c_now + SecretSeconds}
      BY <2>4 DEF Cad!PollOnce, Cad!SecretArrives, Cad!TokenArrives, Cad!CallsArrive, Cad!Ask,
                  Cad!Send
    <3> QED BY <3>1
  <2>5. CASE Cad!UnitsArrive \/ Cad!PollFails
    <3>1. c_phase' = "sleep" /\ c_until' = c_now + PollSeconds /\ c_attempt' = 0 /\ c_now' = c_now
      BY <2>5 DEF Cad!UnitsArrive, Cad!PollFails, Cad!Sleep
    <3> QED BY <3>1
  <2>6. CASE Cad!SendAgain
    <3>1. c_phase' = "send" /\ c_until' = c_now + Cad!Exchange /\ c_attempt' = c_attempt + 1
          /\ c_now' = c_now
      BY <2>6 DEF Cad!SendAgain
    <3>2. c_attempt < Attempts
      BY <2>6 DEF Cad!SendAgain, PollOK
    <3> QED BY <3>1, <3>2
  <2>7. ASSUME NEW pause \in 0..LongestPause, Cad!Retry(pause) PROVE Clock'
    <3>1. c_phase' = "pause" /\ c_until' = c_now + pause /\ c_attempt' = c_attempt
          /\ c_now' = c_now
      BY <2>7 DEF Cad!Retry
    <3> QED BY <3>1
  <2> QED BY <2>1, <2>2, <2>3, <2>4, <2>5, <2>6, <2>7 DEF Cad!Next
<1>4. Shown'
  <2>0. c_now \in Cad!Stamp /\ NoTime \in Cad!Stamp
    BY <1>0 DEF Cad!Stamp, Cad!Times
  <2> USE <2>0
  <2>1. CASE UNCHANGED <<c_shown, c_started, c_calls>>
    BY <2>1 DEF Cad!TypeOK
  <2>2. CASE Cad!Stop
    BY <2>2 DEF Cad!Stop, Cad!TypeOK
  <2>3. CASE Cad!PollOnce
    BY <2>3 DEF Cad!PollOnce, Cad!TypeOK
  <2>4. CASE Cad!CallsArrive
    BY <2>4 DEF Cad!CallsArrive, Cad!TypeOK
  <2>5. CASE Cad!UnitsArrive
    BY <2>5 DEF Cad!UnitsArrive, Cad!Sleep, Cad!TypeOK
  <2>6. CASE Cad!PollFails
    BY <2>6 DEF Cad!PollFails, Cad!Failed, Cad!Sleep, Cad!TypeOK
  <2> QED BY <2>1, <2>2, <2>3, <2>4, <2>5, <2>6
          DEF Cad!Next, Cad!Tick, Cad!poller, Cad!Start, Cad!SecretArrives, Cad!TokenArrives,
              Cad!SendAgain, Cad!Retry
<1>5. Asked'
  <2>0. /\ Cad!Calls \in [what : Cad!Operation \cup {"secret", "token"}, for : Cad!Operation]
        /\ "units" \in Cad!Operation /\ "calls" \in Cad!Operation
    BY DEF Cad!Calls, Cad!Operation
  <2>1. CASE UNCHANGED <<c_expires, c_request>>
    BY <2>1 DEF Cad!TypeOK
  <2>2. ASSUME NEW op \in Cad!Operation, Cad!Ask(op, c_expires), UNCHANGED c_expires
        PROVE  Asked'
    BY <2>2 DEF Cad!Ask, Cad!Send, Cad!TypeOK
  <2>3. CASE Cad!PollOnce \/ Cad!CallsArrive
    BY <2>0, <2>2, <2>3 DEF Cad!PollOnce, Cad!CallsArrive
  <2>4. CASE Cad!Stop
    BY <2>0, <2>4 DEF Cad!Stop, Cad!TypeOK
  <2>5. CASE Cad!UnitsArrive \/ Cad!PollFails
    BY <2>0, <2>5 DEF Cad!UnitsArrive, Cad!PollFails, Cad!Sleep, Cad!TypeOK
  <2>6. CASE Cad!TokenArrives
    <3>1. c_expires' = c_now + TokenLife
      BY <2>6 DEF Cad!TokenArrives
    <3>2. c_request' \in [what : Cad!Operation \cup {"secret", "token"}, for : Cad!Operation]
      BY <2>6 DEF Cad!TokenArrives, Cad!Send, Cad!TypeOK
    <3> QED BY <1>0, <3>1, <3>2
  <2>7. CASE Cad!SecretArrives
    BY <2>7 DEF Cad!SecretArrives, Cad!Send, Cad!TypeOK
  <2> QED BY <2>1, <2>3, <2>4, <2>5, <2>6, <2>7
          DEF Cad!Next, Cad!Tick, Cad!poller, Cad!Start, Cad!SendAgain, Cad!Retry
<1> QED BY <1>3, <1>4, <1>5 DEF Cad!TypeOK

(* The display changes with the units of a poll only, and these come in    *)
(* time.                                                                   *)
LEMMA ShownNext ==
  ASSUME CadConstants, Cad!TypeOK, ShownOK, PollOK, Cad!Next
  PROVE  ShownOK'
<1>0. c_now \in Nat /\ c_until \in Nat /\ c_attempt \in Nat /\ c_attempt <= Attempts
      /\ NoTime \notin Cad!Times
  BY DEF CadConstants, Cad!TypeOK, Cad!Times
<1>1. ASSUME UNCHANGED c_shown, c_now' = c_now \/ c_now' = c_now + 1 PROVE ShownOK'
  <2>1. CASE c_shown.success = NoTime
    BY <1>1, <2>1 DEF ShownOK
  <2>2. CASE c_shown.success # NoTime
    <3>1. c_shown.units <= c_now' /\ c_shown.units \in Nat
      BY <1>0, <1>1, <2>2 DEF ShownOK, Cad!Times
    <3> QED BY <1>1, <2>2, <3>1 DEF ShownOK, Cad!Times, Cad!LongestRest, Cad!LongestRequest, Cad!Exchange
  <2> QED BY <2>1, <2>2
<1>2. CASE Cad!UnitsArrive
  <2>1. /\ c_shown'.calls = c_calls /\ c_shown'.units = c_now /\ c_shown'.success = c_now
        /\ c_shown'.attempt = c_started
        /\ c_phase = "send" /\ c_request.what = "units" /\ c_now' = c_now
    BY <1>2 DEF Cad!UnitsArrive
  <2>2. c_request.for = "units" /\ c_attempt >= 1
    BY <2>1 DEF PollOK
  <2>3. /\ c_calls \in Cad!Times /\ c_calls <= c_now /\ c_calls \in Nat
        /\ c_started \in Cad!Times /\ c_started <= c_calls
        /\ c_until <= c_calls + SecretSeconds + Spent(c_attempt) + Cad!LongestRequest + 0
    BY <2>1, <2>2 DEF PollOK, Cad!Times
  <2>4. c_now <= c_until /\ c_now \in Cad!Times
    BY <2>1 DEF Cad!TypeOK
  <2>5. /\ Spent(c_attempt) <= Cad!LongestRequest
        /\ Spent(c_attempt) \in Nat /\ Cad!LongestRequest \in Nat /\ SecretSeconds \in Nat
    BY <1>0, <2>2, SpentGrows DEF CadConstants
  <2>6. c_now <= c_calls + Cad!LongestRest
    BY <1>0, <2>3, <2>4, <2>5 DEF Cad!LongestRest
  <2>7. c_now # NoTime
    BY <1>0, <2>4
  <2> QED BY <1>0, <2>1, <2>3, <2>4, <2>6, <2>7
          DEF ShownOK, Cad!Times, Cad!LongestRest, Cad!LongestRequest, Cad!Exchange
<1>3. CASE Cad!PollFails
  <2>1. /\ c_shown'.calls = c_shown.calls /\ c_shown'.units = c_shown.units
        /\ c_shown'.success = c_shown.success /\ c_shown'.failed /\ c_now' = c_now
    BY <1>3 DEF Cad!PollFails, Cad!Failed, Cad!TypeOK
  <2> QED BY <2>1 DEF ShownOK, Cad!LongestRest, Cad!LongestRequest, Cad!Exchange, Cad!Times
<1> QED BY <1>1, <1>2, <1>3
        DEF Cad!Next, Cad!Tick, Cad!poller, Cad!Start, Cad!Stop, Cad!PollOnce,
            Cad!SecretArrives, Cad!TokenArrives, Cad!CallsArrive, Cad!SendAgain, Cad!Retry

(* A poll's time: each attempt adds an answer and the pause before it.     *)
LEMMA PollNext ==
  ASSUME CadConstants, Cad!TypeOK, PollOK, Cad!Next
  PROVE  PollOK'
<1>0. /\ c_now \in Nat /\ c_until \in Nat /\ c_attempt \in Nat
      /\ Cad!Exchange \in Nat /\ LongestPause \in Nat /\ SecretSeconds \in Nat
      /\ c_now \in Cad!Times
  BY ExchangeIsTime DEF CadConstants, Cad!TypeOK, Cad!Times
<1>1. /\ Spent(1) = Cad!Exchange /\ Cad!LongestRequest \in Nat
      /\ c_attempt >= 1 => /\ Spent(c_attempt) \in Nat
                           /\ Spent(c_attempt + 1) = Spent(c_attempt) + LongestPause + Cad!Exchange
                           /\ Spent(c_attempt) <= Cad!LongestRequest
  <2>1. Spent(1) = Cad!Exchange /\ Cad!LongestRequest \in Nat
    BY SpentGrows DEF CadConstants
  <2>2. c_attempt <= Attempts
    BY DEF Cad!TypeOK, CadConstants
  <2>3. ASSUME c_attempt >= 1
        PROVE  /\ Spent(c_attempt) \in Nat
               /\ Spent(c_attempt + 1) = Spent(c_attempt) + LongestPause + Cad!Exchange
               /\ Spent(c_attempt) <= Cad!LongestRequest
    BY <1>0, <2>2, <2>3, SpentGrows
  <2> QED BY <2>1, <2>3
<1> DEFINE Ahead(what) == IF what = "units" THEN Cad!LongestRequest ELSE 0
           Begun == c_started \in Cad!Times /\ c_started <= c_now
           Called == c_calls \in Cad!Times /\ c_calls <= c_now /\ c_started <= c_calls
           InTime == c_until <= c_calls + SecretSeconds + Spent(c_attempt)
                                + Ahead(c_request.what)
                                + (IF c_phase = "pause" THEN LongestPause ELSE 0)
<1>2. ASSUME c_phase' \notin {"send", "pause"} PROVE PollOK'
  BY <1>2 DEF PollOK
<1>3. ASSUME /\ c_attempt' >= 1 /\ (c_phase' = "pause" => c_attempt' < Attempts)
             /\ c_request'.what \in {"token", c_request'.for} \ {"secret"}
             /\ Begun'
             /\ c_request'.for = "units" => Called' /\ InTime'
      PROVE  PollOK'
  BY <1>3 DEF PollOK
<1>4. CASE Cad!Tick
  BY <1>0, <1>4 DEF Cad!Tick, Cad!poller, PollOK, Spent, Cad!LongestRequest, Cad!Exchange,
     Cad!Times
<1>5. CASE Cad!Start \/ Cad!Stop \/ Cad!UnitsArrive \/ Cad!PollFails
  BY <1>2, <1>5 DEF Cad!Start, Cad!Stop, Cad!UnitsArrive, Cad!PollFails, Cad!Sleep
<1>6. CASE Cad!PollOnce
  <2>1. /\ c_phase' = "send" /\ c_attempt' = 1 /\ c_request'.for = "calls"
        /\ c_request'.what \in {"secret", "calls"} /\ c_started' = c_now /\ c_now' = c_now
    BY <1>6 DEF Cad!PollOnce, Cad!Ask, Cad!Send
  <2> QED BY <1>0, <2>1 DEF PollOK, Cad!Times
<1>7. CASE Cad!CallsArrive
  <2>1. /\ c_phase = "send" /\ c_phase' = "send" /\ c_attempt' = 1 /\ c_request'.for = "units"
        /\ c_calls' = c_now /\ c_now' = c_now /\ c_started' = c_started
        /\ \/ c_request'.what = "secret" /\ c_until' = c_now + SecretSeconds
           \/ c_request'.what = "units" /\ c_until' = c_now + Cad!Exchange
    BY <1>7 DEF Cad!CallsArrive, Cad!Ask, Cad!Send
  <2>2. c_started \in Cad!Times /\ c_started <= c_now
    BY <2>1 DEF PollOK
  <2>3. CASE c_request'.what = "secret"
    BY <1>0, <2>1, <2>2, <2>3 DEF PollOK, Cad!Times
  <2>4. CASE c_request'.what = "units"
    <3>1. c_until' = c_now + Cad!Exchange
      BY <2>1, <2>4
    <3>2. InTime'
      BY <1>0, <1>1, <2>1, <2>4, <3>1 DEF Spent, Cad!LongestRequest, Cad!Exchange
    <3> QED BY <1>0, <1>3, <2>1, <2>2, <2>4, <3>2 DEF Cad!Times
  <2> QED BY <2>1, <2>3, <2>4
<1>8. CASE Cad!SecretArrives
  <2>1. /\ c_phase = "send" /\ c_request.what = "secret"
        /\ c_phase' = "send" /\ c_attempt' = 1 /\ c_request'.for = c_request.for
        /\ c_request'.what = "token" /\ c_until' = c_now + Cad!Exchange
        /\ UNCHANGED <<c_now, c_started, c_calls>>
    BY <1>8 DEF Cad!SecretArrives, Cad!Send
  <2>2. Begun /\ c_now <= c_until
    BY <2>1 DEF PollOK, Cad!TypeOK
  <2>3. ASSUME c_request.for = "units" PROVE Called' /\ InTime'
    <3>1. Called /\ c_until <= c_calls + SecretSeconds /\ c_calls \in Nat
      BY <2>1, <2>3 DEF PollOK, Cad!Times
    <3>2. c_until' <= c_calls + SecretSeconds + Cad!Exchange
      BY <1>0, <2>1, <2>2, <3>1
    <3>3. InTime'
      BY <1>0, <1>1, <2>1, <3>1, <3>2 DEF Spent, Cad!Exchange
    <3> QED BY <2>1, <3>1, <3>3 DEF Cad!Times
  <2> QED BY <1>3, <2>1, <2>2, <2>3 DEF Cad!Times
<1>9. CASE Cad!TokenArrives
  <2>1. /\ c_phase = "send" /\ c_request.what = "token"
        /\ c_phase' = "send" /\ c_attempt' = 1 /\ c_request'.for = c_request.for
        /\ c_request'.what = c_request.for /\ c_request.for \in {"calls", "units"}
        /\ c_until' = c_now + Cad!Exchange /\ UNCHANGED <<c_now, c_started, c_calls>>
    BY <1>9 DEF Cad!TokenArrives, Cad!Send, Cad!TypeOK, Cad!Operation
  <2>2. Begun /\ c_now <= c_until /\ c_attempt >= 1
    BY <2>1 DEF PollOK, Cad!TypeOK
  <2>3. ASSUME c_request.for = "units" PROVE Called' /\ InTime'
    <3>1. /\ Called /\ c_calls \in Nat
          /\ c_until <= c_calls + SecretSeconds + Spent(c_attempt) + 0 + 0
      BY <2>1, <2>3 DEF PollOK, Cad!Times
    <3>2. c_until' <= c_calls + SecretSeconds + Cad!Exchange + Cad!LongestRequest + 0
      BY <1>0, <1>1, <2>1, <2>2, <3>1
    <3>3. Spent(c_attempt') = Cad!Exchange /\ Cad!LongestRequest' = Cad!LongestRequest
      BY <1>1, <2>1 DEF Cad!LongestRequest, Cad!Exchange
    <3>4. InTime'
      BY <1>0, <1>1, <2>1, <2>3, <3>1, <3>2, <3>3 DEF Spent, Cad!Exchange
    <3> QED BY <2>1, <3>1, <3>4 DEF Cad!Times
  <2> QED BY <1>3, <2>1, <2>2, <2>3 DEF Cad!Times
<1>10. ASSUME NEW pause \in 0..LongestPause, Cad!Retry(pause) PROVE PollOK'
  <2>1. /\ c_phase = "send" /\ c_attempt < Attempts /\ c_phase' = "pause"
        /\ c_request.what # "secret"
        /\ c_until' = c_now + pause /\ c_now <= c_until
        /\ UNCHANGED <<c_now, c_request, c_attempt, c_started, c_calls>>
    BY <1>10 DEF Cad!Retry, Cad!MayRetry, Cad!TypeOK
  <2>2. c_attempt >= 1 /\ c_request.what \in {"token", c_request.for} /\ Begun
    BY <2>1 DEF PollOK
  <2>3. ASSUME c_request.for = "units" PROVE Called' /\ InTime'
    <3>1. /\ Called /\ c_calls \in Nat
          /\ c_until <= c_calls + SecretSeconds + Spent(c_attempt) + Ahead(c_request.what) + 0
      BY <2>1, <2>3 DEF PollOK, Cad!Times
    <3>2. c_until' <= c_calls + SecretSeconds + Spent(c_attempt) + Ahead(c_request.what)
                      + LongestPause
      BY <1>0, <1>1, <2>1, <2>2, <3>1
    <3>3. InTime'
      BY <2>1, <3>2 DEF Spent, Cad!LongestRequest, Cad!Exchange
    <3> QED BY <2>1, <3>1, <3>3 DEF Cad!Times
  <2> QED BY <1>3, <2>1, <2>2, <2>3 DEF Cad!Times
<1>11. CASE Cad!SendAgain
  <2>1. /\ c_phase = "pause" /\ c_now = c_until /\ c_phase' = "send"
        /\ c_until' = c_now + Cad!Exchange /\ c_attempt' = c_attempt + 1
        /\ UNCHANGED <<c_now, c_request, c_started, c_calls>>
    BY <1>11 DEF Cad!SendAgain
  <2>2. c_attempt >= 1 /\ c_attempt' >= 1 /\ Begun
        /\ c_request.what \in {"secret", "token", c_request.for}
    BY <1>0, <2>1 DEF PollOK
  <2>3. CASE c_request.for = "units"
    <3>1. /\ Called /\ c_calls \in Nat /\ c_request.what # "secret"
          /\ c_until <= c_calls + SecretSeconds + Spent(c_attempt) + Ahead(c_request.what)
                        + LongestPause
      BY <2>1, <2>3 DEF PollOK, Cad!Times
    <3>2. c_until' <= c_calls + SecretSeconds + Spent(c_attempt + 1) + Ahead(c_request.what) + 0
      BY <1>0, <1>1, <2>1, <2>2, <3>1
    <3>3. Spent(c_attempt') = Spent(c_attempt + 1) /\ Cad!LongestRequest' = Cad!LongestRequest
      BY <2>1 DEF Cad!LongestRequest, Cad!Exchange
    <3>4. InTime'
      BY <2>1, <3>2, <3>3 DEF Spent, Cad!Exchange
    <3> QED BY <1>3, <2>1, <2>2, <3>1, <3>4 DEF Cad!Times
  <2>4. CASE c_request.for # "units"
    BY <2>1, <2>2, <2>4 DEF PollOK, Cad!Times
  <2> QED BY <2>3, <2>4
<1> QED BY <1>4, <1>5, <1>6, <1>7, <1>8, <1>9, <1>10, <1>11 DEF Cad!Next

LEMMA CadNext == CadConstants /\ CadOK /\ [Cad!Next]_(Cad!vars) => CadOK'
<1>1. CadOK /\ UNCHANGED Cad!vars => CadOK'
  BY DEF CadOK, Cad!vars, Cad!poller, Cad!TypeOK, ShownOK, PollOK, Spent, Cad!Times,
         Cad!Stamp, Cad!Operation, Cad!LongestRest, Cad!LongestRequest, Cad!Exchange
<1>2. CadConstants /\ CadOK /\ Cad!Next => CadOK'
  BY CadTypes, ShownNext, PollNext DEF CadOK
<1> QED BY <1>1, <1>2

LEMMA CadInvariant == Cad!Spec => []CadOK
<1> USE CadAssumption
<1>1. Cad!Init => CadOK
  BY ExchangeIsTime DEF CadConstants, Cad!Init, CadOK, Cad!TypeOK, ShownOK, PollOK, Cad!Calls,
     Cad!Times, Cad!Stamp, Cad!Operation
<1>2. CadConstants
  OBVIOUS
<1> QED BY <1>1, <1>2, CadNext, PTL DEF Cad!Spec

(* What the display calls current is recent (CloudCadDisplayState.status): *)
(* the units by the limit of the status, the calls, which are of the same  *)
(* poll, by no more on top of it than the network lets a poll take: for    *)
(* any number of pieces an answer comes in, whatever the time-outs, pauses *)
(* and attempts are set to.                                                *)
THEOREM CurrentDataIsRecent == Cad!Spec => []CurrentIsRecent
<1> USE CadAssumption
<1>1. CadOK => Cad!CurrentIsRecent
  <2> SUFFICES ASSUME CadOK, Cad!Freshness = "current"
               PROVE  /\ c_now - c_shown.units <= CurrentAge
                      /\ c_shown.calls <= c_shown.units
                      /\ c_shown.failed \/ c_shown.attempt <= c_shown.calls
                      /\ c_now - c_shown.calls <= CurrentAge + Cad!LongestRest
    BY DEF Cad!CurrentIsRecent
  <2>1. c_shown.success # NoTime /\ c_now - c_shown.success <= CurrentAge
    BY DEF Cad!Freshness
  <2>2. /\ c_shown.calls \in Nat /\ c_shown.units \in Nat /\ c_now \in Nat
        /\ c_shown.success = c_shown.units /\ c_shown.calls <= c_shown.units
        /\ c_shown.units <= c_shown.calls + Cad!LongestRest
        /\ c_shown.failed \/ c_shown.attempt <= c_shown.calls
    BY <2>1 DEF CadOK, ShownOK, Cad!TypeOK, Cad!Times
  <2>3. Cad!LongestRest \in Nat /\ CurrentAge \in Nat
    BY SpentGrows DEF CadConstants, Cad!LongestRest
  <2> QED BY <2>1, <2>2, <2>3
<1> QED BY <1>1, CadInvariant, PTL DEF CurrentIsRecent

-----------------------------------------------------------------------------
(* The streamed answer of the assistant (AdvisoryStream). *)

(* What Max and Min of the community modules give for a set of numbers. *)
LEMMA StreamMax ==
  ASSUME NEW b \in Nat, NEW T \in SUBSET (0..b), T # {}
  PROVE  Stream!Max(T) \in T /\ \A m \in T : Stream!Max(T) >= m
BY GreatestBelow DEF Stream!Max

LEMMA StreamMin ==
  ASSUME NEW T \in SUBSET Nat, T # {}
  PROVE  Stream!Min(T) \in T /\ \A m \in T : Stream!Min(T) <= m
BY LeastNatural DEF Stream!Min

(* The last newline of a text is one, and none comes after it. *)
LEMMA LastNewlineIs ==
  ASSUME NEW t \in Seq(Stream!Symbol)
  PROVE  LET n == Stream!LastNewline(t)
         IN  /\ n \in 0..Len(t)
             /\ n > 0 => t[n] = "newline"
             /\ \A i \in 1..Len(t) : t[i] = "newline" => i <= n
<1> DEFINE N == {0} \cup {i \in 1..Len(t) : t[i] = "newline"}
<1>1. Len(t) \in Nat
  OBVIOUS
<1>2. N \subseteq 0..Len(t) /\ 0 \in N
  BY <1>1
<1>3. Stream!Max(N) \in N /\ \A m \in N : Stream!Max(N) >= m
  <2> HIDE DEF N
  <2> QED BY <1>1, <1>2, StreamMax
<1>4. Stream!LastNewline(t) = Stream!Max(N)
  BY DEF Stream!LastNewline
<1> QED BY <1>1, <1>2, <1>3, <1>4

(* A last line that may still become the heading. *)
MayBecome(t, n) ==
  \/ n = Len(t)
  \/ n + 1 = Len(t) /\ t[Len(t)] = "Sour"

LEMMA HeldBackIs ==
  ASSUME NEW t \in Seq(Stream!Symbol)
  PROVE  LET n == Stream!LastNewline(t)
         IN  Stream!HeldBack(t) =
               IF n > 0 /\ MayBecome(t, n) THEN n - 1 ELSE Len(t)
<1> DEFINE n == Stream!LastNewline(t)
           line == SubSeq(t, n + 1, Len(t))
<1>1. n \in 0..Len(t) /\ Len(t) \in Nat
  BY LastNewlineIs
<1> HIDE DEF n
<1>2. line \in {<<>>, <<"Sour">>} <=> MayBecome(t, n)
  <2>1. Len(line) = Len(t) - n /\ \A i \in 1..(Len(t) - n) : line[i] = t[n + i]
    BY <1>1
  <2>2. line \in Seq(Stream!Symbol)
    BY <1>1
  <2>3. CASE n = Len(t)
    <3>1. line = <<>>
      BY <2>1, <2>2, <2>3, <1>1
    <3> QED BY <3>1, <2>3 DEF MayBecome
  <2>4. CASE n + 1 = Len(t)
    <3>1. Len(line) = 1 /\ line[1] = t[Len(t)]
      BY <2>1, <2>4, <1>1
    <3>2. line = <<line[1]>>
      <4> HIDE DEF line
      <4> QED BY <3>1, <2>2
    <3>3. line = <<"Sour">> <=> t[Len(t)] = "Sour"
      <4> HIDE DEF line
      <4> QED BY <3>1, <3>2
    <3>4. line # <<>>
      <4> HIDE DEF line
      <4>1. Len(<<>>) = 0
        OBVIOUS
      <4> QED BY <3>1, <4>1
    <3>5. n # Len(t)
      BY <2>4, <1>1
    <3> QED BY <3>3, <3>4, <3>5, <2>4 DEF MayBecome
  <2>5. CASE n + 1 < Len(t)
    <3>1. Len(line) # 0 /\ Len(line) # 1
      BY <2>1, <2>5, <1>1
    <3>2. line # <<>> /\ line # <<"Sour">>
      <4> HIDE DEF line
      <4>1. Len(<<>>) = 0
        OBVIOUS
      <4>2. Len(<<"Sour">>) = 1
        OBVIOUS
      <4>3. line # <<>>
        BY <3>1, <4>1
      <4>4. line # <<"Sour">>
        BY <3>1, <4>2, Zenon
      <4> QED BY <4>3, <4>4
    <3>3. n # Len(t) /\ n + 1 # Len(t)
      BY <2>5, <1>1
    <3> QED BY <3>2, <3>3 DEF MayBecome
  <2> QED BY <2>3, <2>4, <2>5, <1>1
<1> QED BY <1>2 DEF Stream!HeldBack, n

(* What is held back of a text stays so as the text grows. *)
LEMMA HeldBackGrows ==
  ASSUME NEW t \in Seq(Stream!Symbol), NEW d \in Seq(Stream!Symbol)
  PROVE  /\ Stream!HeldBack(t) \in 0..Len(t)
         /\ Stream!HeldBack(t) <= Stream!HeldBack(t \o d)
<1> DEFINE s == t \o d
           n == Stream!LastNewline(t)
           m == Stream!LastNewline(s)
<1>1. /\ s \in Seq(Stream!Symbol) /\ Len(s) = Len(t) + Len(d)
      /\ Len(t) \in Nat /\ Len(d) \in Nat
      /\ \A i \in 1..Len(t) : s[i] = t[i]
  OBVIOUS
<1>2. /\ n \in 0..Len(t)
      /\ n > 0 => t[n] = "newline"
      /\ \A i \in 1..Len(t) : t[i] = "newline" => i <= n
  BY LastNewlineIs
<1>3. /\ m \in 0..Len(s)
      /\ m > 0 => s[m] = "newline"
      /\ \A i \in 1..Len(s) : s[i] = "newline" => i <= m
  <2> HIDE DEF s
  <2> QED BY <1>1, LastNewlineIs
<1>4. Stream!HeldBack(t) = IF n > 0 /\ MayBecome(t, n) THEN n - 1 ELSE Len(t)
  BY HeldBackIs
<1>5. Stream!HeldBack(s) = IF m > 0 /\ MayBecome(s, m) THEN m - 1 ELSE Len(s)
  <2> HIDE DEF s
  <2> QED BY <1>1, HeldBackIs
<1> HIDE DEF s, n, m
<1>6. Stream!HeldBack(t) \in 0..Len(t)
  BY <1>1, <1>2, <1>4
<1> SUFFICES Stream!HeldBack(t) <= Stream!HeldBack(s)
  BY <1>6 DEF s
<1>7. CASE m > Len(t)
  BY <1>1, <1>3, <1>5, <1>6, <1>7
<1>8. CASE m <= Len(t)
  <2>1. m = n
    <3>1. m > 0 => t[m] = "newline"
      BY <1>1, <1>3, <1>8
    <3>2. m <= n
      BY <3>1, <1>2, <1>3, <1>8
    <3>3. n > 0 => s[n] = "newline"
      BY <1>1, <1>2
    <3>4. n <= m
      BY <3>3, <1>1, <1>2, <1>3
    <3> QED BY <3>2, <3>4, <1>2, <1>3
  <2>2. CASE n > 0 /\ MayBecome(s, n)
    <3>1. CASE Len(d) = 0
      BY <3>1, <2>1, <2>2, <1>1, <1>2, <1>4, <1>5 DEF MayBecome
    <3>2. CASE Len(d) > 0
      BY <3>2, <2>1, <2>2, <1>1, <1>2, <1>4, <1>5 DEF MayBecome
    <3> QED BY <3>1, <3>2, <1>1
  <2>3. CASE ~(n > 0 /\ MayBecome(s, n))
    BY <2>1, <2>3, <1>1, <1>5, <1>6
  <2> QED BY <2>2, <2>3
<1> QED BY <1>1, <1>3, <1>7, <1>8

(* What is fed lies before each heading, or is the half of one that is the *)
(* text's first line.                                                      *)
Spares(fed, i) == fed < i \/ (i = 1 /\ fed <= 1)

(* Whether a heading is complete does not change before the text does.     *)
LEMMA HeadingIsOld ==
  ASSUME NEW t \in Seq(Stream!Symbol), NEW d \in Seq(Stream!Symbol),
         NEW i \in Stream!Headings(t \o d), i + 1 <= Len(t)
  PROVE  i \in Stream!Headings(t)
<1> DEFINE s == t \o d
<1>1. /\ Len(s) = Len(t) + Len(d) /\ Len(t) \in Nat /\ Len(d) \in Nat
      /\ \A j \in 1..Len(t) : s[j] = t[j]
  OBVIOUS
<1>2. i \in Stream!Headings(s)
  OBVIOUS
<1> HIDE DEF s
<1>3. /\ i \in Nat /\ i >= 1
      /\ s[i] = "Sour" /\ s[i + 1] = "ces"
      /\ i = 1 \/ s[i - 1] = "newline"
      /\ i + 1 = Len(s) \/ s[i + 1 + 1] = "newline"
  BY <1>1, <1>2 DEF Stream!Headings, Stream!StartsLine, Stream!EndsLine
<1>4. i \in 1..(Len(t) - 1)
  BY <1>1, <1>3
<1>5. t[i] = "Sour" /\ t[i + 1] = "ces" /\ (i = 1 \/ t[i - 1] = "newline")
  BY <1>1, <1>3, <1>4
<1>6. i + 1 = Len(t) \/ t[i + 1 + 1] = "newline"
  BY <1>1, <1>3, <1>4
<1> QED BY <1>4, <1>5, <1>6 DEF Stream!Headings, Stream!StartsLine, Stream!EndsLine

(* A heading that gets complete was held back. *)
LEMMA HeadingWasHeld ==
  ASSUME NEW t \in Seq(Stream!Symbol), NEW d \in Seq(Stream!Symbol),
         Stream!Headings(t) = {}, NEW i \in Stream!Headings(t \o d)
  PROVE  Spares(Stream!HeldBack(t), i)
<1> DEFINE s == t \o d
           n == Stream!LastNewline(t)
<1>1. /\ Len(s) = Len(t) + Len(d) /\ Len(t) \in Nat /\ Len(d) \in Nat
      /\ \A j \in 1..Len(t) : s[j] = t[j]
  OBVIOUS
<1>2. i \in Stream!Headings(s)
  OBVIOUS
<1>3. i + 1 > Len(t)
  <2>1. i \in Int
    BY DEF Stream!Headings
  <2> QED BY HeadingIsOld, <2>1, <1>1
<1>4. /\ n \in 0..Len(t)
      /\ n > 0 => t[n] = "newline"
      /\ \A j \in 1..Len(t) : t[j] = "newline" => j <= n
  BY LastNewlineIs
<1>5. Stream!HeldBack(t) = IF n > 0 /\ MayBecome(t, n) THEN n - 1 ELSE Len(t)
  BY HeldBackIs
<1> HIDE DEF s, n
<1>6. /\ i \in Nat /\ i >= 1
      /\ s[i] = "Sour"
      /\ i = 1 \/ s[i - 1] = "newline"
  BY <1>1, <1>2 DEF Stream!Headings, Stream!StartsLine
<1>7. CASE i = Len(t)
  <2>1. t[i] = "Sour" /\ (i = 1 \/ t[i - 1] = "newline")
    BY <1>1, <1>6, <1>7
  <2>2. n # i
    BY <2>1, <1>4, <1>6
  <2>3. CASE i = 1
    <3>1. Len(t) = 1 /\ n # 1
      BY <2>2, <2>3, <1>7
    <3>2. n = 0
      BY <3>1, <1>4
    <3>3. Stream!HeldBack(t) = 1
      BY <3>1, <3>2, <1>5
    <3> QED BY <3>3, <2>3 DEF Spares
  <2>4. CASE i # 1
    <3>1. n = i - 1
      BY <2>1, <2>2, <2>4, <1>4, <1>6, <1>7
    <3> QED BY <3>1, <2>1, <2>4, <1>5, <1>6, <1>7 DEF Spares, MayBecome
  <2> QED BY <2>3, <2>4
<1>8. CASE i > Len(t)
  BY <1>1, <1>4, <1>5, <1>6, <1>8 DEF Spares
<1> QED BY <1>1, <1>3, <1>6, <1>7, <1>8

LEMMA HeadingsNatural ==
  ASSUME NEW t \in Seq(Stream!Symbol)
  PROVE  Stream!Headings(t) \in SUBSET Nat
BY DEF Stream!Headings

(* What is fed of a text that goes on, and of one that has ended. *)
FeedOK ==
  LET t == g_collected
  IN  /\ \A i \in Stream!Headings(t) : Spares(g_fed, i)
      /\ g_stage \notin Stream!Ended =>
           /\ g_found => g_fed < Len(t)
           /\ ~g_found => Stream!Headings(t) = {} /\ g_fed <= Stream!HeldBack(t)

StreamOK == Stream!TypeOK /\ FeedOK

LEMMA StreamBegins == Stream!Init => StreamOK
<1> SUFFICES ASSUME Stream!Init PROVE StreamOK
  OBVIOUS
<1> USE StreamAssumption DEF StreamConstants
<1>1. Len(<<>>) = 0 /\ <<>> \in Seq(Stream!Symbol)
  OBVIOUS
<1>2. Stream!TypeOK
  <2>1. 0 <= MaxText /\ 0 \in 0..0
    OBVIOUS
  <2>2. g_collected \in Seq(Stream!Symbol) /\ Len(g_collected) = 0 /\ g_fed = 0
    BY <1>1 DEF Stream!Init
  <2> QED BY <2>1, <2>2 DEF Stream!Init, Stream!TypeOK, Stream!Stages
<1>3. Stream!Headings(<<>>) = {}
  BY <1>1 DEF Stream!Headings
<1>4. Stream!HeldBack(<<>>) \in 0..Len(<<>>)
  BY <1>1, HeldBackGrows
<1>5. 0 <= Stream!HeldBack(<<>>)
  BY <1>1, <1>4
<1> QED BY <1>2, <1>3, <1>5 DEF FeedOK, StreamOK, Stream!Init, Stream!Ended

LEMMA StreamNext == StreamOK /\ [Stream!Next]_(Stream!vars) => StreamOK'
<1> SUFFICES ASSUME StreamOK, [Stream!Next]_(Stream!vars) PROVE StreamOK'
  OBVIOUS
<1> USE StreamAssumption DEF StreamConstants
<1>1. /\ Stream!TypeOK /\ FeedOK
      /\ g_collected \in Seq(Stream!Symbol) /\ Len(g_collected) \in Nat
      /\ g_fed \in 0..Len(g_collected)
  BY DEF StreamOK, Stream!TypeOK
<1>2. CASE UNCHANGED Stream!vars
  BY <1>1, <1>2 DEF StreamOK, FeedOK, Stream!TypeOK, Stream!vars
<1>3. ASSUME NEW s \in Stream!Stages, Stream!Goto(s), g_stage \notin Stream!Ended
      PROVE  StreamOK'
  BY <1>1, <1>3 DEF StreamOK, FeedOK, Stream!TypeOK, Stream!Goto
<1>4. CASE Stream!Finish
  <2>1. /\ g_collected' = g_collected /\ g_stage \notin Stream!Ended
        /\ g_stage' \in Stream!Ended
    BY <1>4 DEF Stream!Finish, Stream!Ended
  <2>2. CASE g_found
    <3>1. g_found' /\ g_fed' = g_fed
      BY <1>4, <2>2, <1>1 DEF Stream!Finish, Stream!Feed, Stream!TypeOK
    <3> QED BY <1>1, <2>1, <3>1 DEF StreamOK, FeedOK, Stream!TypeOK, Stream!Stages
  <2>3. CASE ~g_found
    <3>1. Stream!Headings(g_collected) = {}
      BY <1>1, <2>1, <2>3 DEF FeedOK
    <3>2. Stream!Limit(g_collected, TRUE) = Len(g_collected)
      BY <3>1 DEF Stream!Limit
    <3>3. g_fed' = Len(g_collected) /\ g_found' \in BOOLEAN
      <4>1. ~(Len(g_collected) < g_fed)
        BY <1>1
      <4> QED BY <1>4, <2>3, <3>2, <4>1, Zenon DEF Stream!Finish, Stream!Feed
    <3> QED BY <1>1, <2>1, <3>1, <3>3 DEF StreamOK, FeedOK, Stream!TypeOK, Stream!Stages
  <2> QED BY <2>2, <2>3
<1>5. ASSUME NEW d \in Stream!Deltas, Stream!Delta(d)
      PROVE  StreamOK'
  <2> DEFINE t == g_collected
             s == t \o d
  <2>1. d \in Seq(Stream!Symbol) /\ Len(d) \in Nat
    BY DEF Stream!Deltas
  <2>2. /\ s \in Seq(Stream!Symbol) /\ Len(s) = Len(t) + Len(d)
    BY <1>1, <2>1
  <2>3. /\ g_collected' = s /\ g_stage' = g_stage /\ g_stage \notin Stream!Ended
        /\ Len(s) <= MaxText
        /\ g_fed' = IF g_found \/ Stream!Limit(s, FALSE) < g_fed
                      THEN g_fed ELSE Stream!Limit(s, FALSE)
        /\ g_found' = (g_found \/ Stream!Headings(s) # {})
    BY <1>5, <2>2 DEF Stream!Delta, Stream!Feed, Stream!Ended
  <2>4. \A i \in Stream!Headings(s) : i \in 1..(Len(s) - 1)
    BY DEF Stream!Headings
  <2>5. \A i \in Stream!Headings(s) : i + 1 <= Len(t) => i \in Stream!Headings(t)
    BY <1>1, <2>1, HeadingIsOld
  <2>6. Stream!Headings(t) = {} =>
          \A i \in Stream!Headings(s) : Spares(Stream!HeldBack(t), i)
    BY <1>1, <2>1, HeadingWasHeld
  <2>7. /\ Stream!HeldBack(t) \in 0..Len(t)
        /\ Stream!HeldBack(t) <= Stream!HeldBack(s)
    BY <1>1, <2>1, HeldBackGrows
  <2>8. Stream!HeldBack(s) \in 0..Len(s)
    <3>1. <<>> \in Seq(Stream!Symbol)
      OBVIOUS
    <3> HIDE DEF s
    <3> QED BY <2>2, <3>1, HeldBackGrows
  <2> HIDE DEF s
  <2>9. /\ g_fed' \in 0..Len(s)
        /\ \A i \in Stream!Headings(s) : Spares(g_fed', i)
        /\ g_found' => g_fed' < Len(s)
        /\ ~g_found' => Stream!Headings(s) = {} /\ g_fed' <= Stream!HeldBack(s)
    <3>1. CASE g_found
      <4>1. g_fed' = g_fed /\ g_found' /\ g_fed < Len(t)
        BY <1>1, <2>3, <3>1 DEF FeedOK
      <4>2. ASSUME NEW i \in Stream!Headings(s) PROVE Spares(g_fed, i)
        <5>1. CASE i + 1 <= Len(t)
          BY <1>1, <2>5, <5>1 DEF FeedOK
        <5>2. CASE i + 1 > Len(t)
          BY <1>1, <2>2, <2>1, <2>4, <4>1, <5>2 DEF Spares
        <5> QED BY <5>1, <5>2, <2>4, <1>1
      <4> QED BY <4>1, <4>2, <1>1, <2>1, <2>2
    <3>2. CASE ~g_found /\ Stream!Headings(s) = {}
      <4>1. ~g_found' /\ Stream!Limit(s, FALSE) = Stream!HeldBack(s)
        BY <2>3, <3>2 DEF Stream!Limit
      <4>2. g_fed <= Stream!HeldBack(t)
        BY <1>1, <2>3, <3>2 DEF FeedOK
      <4>3. g_fed' = Stream!HeldBack(s)
        <5>1. ~(Stream!HeldBack(s) < g_fed)
          BY <1>1, <2>2, <2>7, <2>8, <4>2
        <5> QED BY <2>3, <3>2, <4>1, <5>1, Zenon
      <4> QED BY <2>2, <2>8, <3>2, <4>1, <4>3
    <3>3. CASE ~g_found /\ Stream!Headings(s) # {}
      <4> DEFINE h == Stream!Min(Stream!Headings(s))
      <4>1. h \in Stream!Headings(s) /\ \A i \in Stream!Headings(s) : h <= i
        BY <3>3, <2>2, HeadingsNatural, StreamMin
      <4>2. Stream!Limit(s, FALSE) = h - 1
        BY <3>3 DEF Stream!Limit, Stream!BeforeSources
      <4> HIDE DEF h
      <4>3. h \in 1..(Len(s) - 1) /\ Len(s) \in Nat
        BY <2>2, <2>4, <4>1
      <4>4. Stream!Headings(t) = {} /\ g_fed <= Stream!HeldBack(t)
        BY <1>1, <2>3, <3>3 DEF FeedOK
      <4>5. Spares(g_fed, h)
        BY <2>6, <2>7, <4>1, <4>3, <4>4, <1>1 DEF Spares
      <4>6. g_found' /\ g_fed' = IF h - 1 < g_fed THEN g_fed ELSE h - 1
        BY <2>3, <3>3, <4>2
      <4>7. Spares(g_fed', h) /\ g_fed' \in 0..(Len(s) - 1)
        BY <1>1, <4>3, <4>5, <4>6 DEF Spares
      <4>8. \A i \in Stream!Headings(s) : Spares(g_fed', i)
        BY <2>4, <4>1, <4>3, <4>7, <4>5, <4>6 DEF Spares
      <4> QED BY <4>3, <4>6, <4>7, <4>8
    <3> QED BY <3>1, <3>2, <3>3
  <2>10. Stream!TypeOK'
    BY <1>1, <2>2, <2>3, <2>9 DEF Stream!TypeOK
  <2>11. FeedOK'
    BY <2>3, <2>9 DEF FeedOK
  <2> QED BY <2>10, <2>11 DEF StreamOK
<1>6. CASE Stream!Retrieve \/ Stream!Reserve \/ Stream!Deny \/ Stream!Fail
  BY <1>3, <1>6
  DEF Stream!Retrieve, Stream!Reserve, Stream!Deny, Stream!Fail, Stream!Stages,
      Stream!Ended
<1> QED BY <1>2, <1>4, <1>5, <1>6 DEF Stream!Next

LEMMA StreamInvariant == Stream!Spec => []StreamOK
<1> QED BY StreamBegins, StreamNext, PTL DEF Stream!Spec

(* A list of sources is never read out: of what is fed by the end of a     *)
(* streamed answer nothing lies behind its heading, wherever the model's   *)
(* text was cut (_feedable_limit).                                         *)
THEOREM SourcesAreSpared == Stream!Spec => []SourcesNeverSpoken
<1>1. StreamOK => SourcesNeverSpoken
  <2> SUFFICES ASSUME StreamOK
               PROVE  g_fed <= IF Stream!BeforeSources(g_collected) = 0
                                 THEN 1 ELSE Stream!BeforeSources(g_collected)
    BY DEF SourcesNeverSpoken, Stream!SourcesNeverSpoken
  <2> DEFINE t == g_collected
             H == Stream!Headings(t)
  <2>1. /\ t \in Seq(Stream!Symbol) /\ Len(t) \in Nat /\ g_fed \in 0..Len(t)
        /\ \A i \in H : Spares(g_fed, i)
    BY DEF StreamOK, FeedOK, Stream!TypeOK
  <2>2. CASE H = {}
    BY <2>1, <2>2 DEF Stream!BeforeSources
  <2>3. CASE H # {}
    <3>1. Stream!Min(H) \in H /\ H \subseteq 1..(Len(t) - 1)
      BY <2>1, <2>3, HeadingsNatural, StreamMin DEF Stream!Headings
    <3> QED BY <2>1, <2>3, <3>1 DEF Stream!BeforeSources, Spares
  <2> QED BY <2>2, <2>3
<1> QED BY <1>1, StreamInvariant, PTL

-----------------------------------------------------------------------------
(* The year-to-date report (DomesticReport).                               *)
(* One job at a time: those started are numbered 1, 2, ..., the one that   *)
(* runs is remembered, and it alone has a thread.                          *)
OneJob ==
  /\ \E n \in 0..MaxReports : \A j \in Domestic!Job : d_jobs[j].status # "none" <=> j <= n
  /\ \A j \in Domestic!Job :
       /\ d_jobs[j].status # "none" => d_jobs[j].tenant \in Tenant
       /\ d_thread[j] = "none" <=> d_jobs[j].status = "none"
       /\ d_thread[j] \notin {"none", "dead"} <=> Domestic!Running(j)
       /\ Domestic!Running(j) => j \in d_kept
       /\ j \in d_kept => d_jobs[j].status # "none"
  /\ \A i, j \in Domestic!Job : Domestic!Running(i) /\ Domestic!Running(j) => i = j

(* It counts its months one after another, ... *)
InTurn(j) ==
  \E n \in 0..Months : \A k \in Domestic!Month : k < n <=> d_jobs[j].months[k] # NoCount

(* ... has read no more of a month than there is, ... *)
ReadSoFar(j) ==
  /\ d_thread[j] \in {"none", "start", "window", "now"} => d_skip[j] = 0
  /\ d_thread[j] = "read" /\ ~Domestic!Done(j) =>
       d_skip[j] <= Domestic!CallsOf(Domestic!At(j), Domestic!EndDay(j, Domestic!At(j)))

(* ... and takes for today the last of the days it asks about.             *)
OneDay(j) ==
  d_thread[j] = "read" /\ ~d_torn => d_to[j] = d_asof[j] + 1 /\ d_asof[j] <= d_today

(* A month that is over keeps its calls: what was counted stays right.     *)
Counted(m, n) == Domestic!FirstDay(m + 1) <= d_today /\ n = Domestic!AllCalls(m)

CountedOK ==
  ~d_torn =>
    /\ \A t \in Tenant, m \in Domestic!Month :
         d_cache[t][m] # NoCount => Counted(m, d_cache[t][m].count)
    /\ \A j \in Domestic!Job, m \in Domestic!Month :
         d_jobs[j].months[m] # NoCount /\ d_jobs[j].months[m].over
           => Counted(m, d_jobs[j].months[m].count)

DomesticOK ==
  /\ Domestic!TypeOK /\ OneJob
  /\ \A j \in Domestic!Job : InTurn(j) /\ ReadSoFar(j) /\ OneDay(j)
  /\ CountedOK

LEMMA DomesticCardinality == \A S : Domestic!Cardinality(S) = Cardinality(S)
BY Zenon DEF Domestic!Cardinality, Cardinality

LEMMA DomesticMin ==
  ASSUME NEW T \in SUBSET Nat, T # {}
  PROVE  Domestic!Min(T) \in T /\ \A m \in T : Domestic!Min(T) <= m
BY LeastNatural DEF Domestic!Min

LEMMA DayIs ==
  ASSUME DomesticConstants
  PROVE  /\ Months * DaysPerMonth \in Nat /\ 0 \in Domestic!Day /\ Domestic!Day \subseteq Nat
         /\ \A d \in Domestic!Day : d + 1 \in 0..(Months * DaysPerMonth)
         /\ \A m \in Domestic!Month : Domestic!FirstDay(m) \in Nat /\ Domestic!FirstDay(m + 1) \in Nat
<1>1. \A a, b \in Nat : a * b \in Nat
  OBVIOUS
<1>2. Months * DaysPerMonth >= 1 /\ Months * DaysPerMonth \in Nat
  <2>1. \A a, b \in Nat \ {0} : a * b \in Nat \ {0}
    OBVIOUS
  <2> QED BY <2>1 DEF DomesticConstants
<1>3. ASSUME NEW m \in Domestic!Month PROVE Domestic!FirstDay(m) \in Nat /\ Domestic!FirstDay(m + 1) \in Nat
  <2>1. m \in Nat /\ m + 1 \in Nat /\ DaysPerMonth \in Nat
    BY DEF DomesticConstants, Domestic!Month
  <2> QED BY <1>1, <2>1 DEF Domestic!FirstDay
<1> HIDE DEF DomesticConstants
<1> QED BY <1>2, <1>3 DEF Domestic!Day

(* A call that comes in is counted with those of its month only.           *)
CallIn(s, m, e) == {i \in DOMAIN s : s[i] >= Domestic!FirstDay(m) /\ s[i] < e}

LEMMA CallsFinite ==
  ASSUME DomesticConstants, NEW s \in Seq(Domestic!Day), NEW m, NEW e
  PROVE  IsFiniteSet(CallIn(s, m, e)) /\ Cardinality(CallIn(s, m, e)) \in Nat
<1>1. DOMAIN s = 1..Len(s) /\ Len(s) \in Nat
  OBVIOUS
<1>2. IsFiniteSet(1..Len(s))
  <2>1. 1 \in Int /\ Len(s) \in Int
    BY <1>1
  <2> QED BY ONLY <2>1, FS_Interval
<1>3. CallIn(s, m, e) \subseteq 1..Len(s)
  BY <1>1 DEF CallIn
<1>4. IsFiniteSet(CallIn(s, m, e))
  BY ONLY <1>2, <1>3, FS_Subset
<1> QED BY <1>4, FS_CardinalityType

LEMMA CallsGrow ==
  ASSUME DomesticConstants, NEW s \in Seq(Domestic!Day), NEW d \in Domestic!Day, NEW m, NEW e \in Nat
  PROVE  /\ Cardinality(CallIn(s, m, e)) <= Cardinality(CallIn(Append(s, d), m, e))
         /\ d >= e => CallIn(Append(s, d), m, e) = CallIn(s, m, e)
<1> DEFINE r == Append(s, d)
<1>1. /\ r \in Seq(Domestic!Day) /\ DOMAIN s = 1..Len(s) /\ DOMAIN r = 1..(Len(s) + 1)
      /\ Len(s) \in Nat /\ \A i \in 1..Len(s) : r[i] = s[i]
      /\ r[Len(s) + 1] = d
  OBVIOUS
<1>2. CallIn(s, m, e) \subseteq CallIn(r, m, e)
  BY <1>1 DEF CallIn
<1>3. IsFiniteSet(CallIn(r, m, e))
  BY <1>1, CallsFinite
<1>4. Cardinality(CallIn(s, m, e)) <= Cardinality(CallIn(r, m, e))
  BY ONLY <1>2, <1>3, FS_Subset
<1>5. ASSUME d >= e PROVE CallIn(r, m, e) \subseteq CallIn(s, m, e)
  <2>1. d \in Nat /\ ~(d < e)
    BY <1>5, DayIs
  <2> QED BY <1>1, <2>1 DEF CallIn
<1> QED BY <1>2, <1>4, <1>5

LEMMA CallsOfIs == \A m, e : Domestic!CallsOf(m, e) = Cardinality(CallIn(d_calls, m, e))
BY DomesticCardinality DEF Domestic!CallsOf, CallIn

(* The month a job is at is the first it has not counted yet.              *)
LEMMA AtIs ==
  ASSUME DomesticConstants, NEW j \in Domestic!Job, InTurn(j), ~Domestic!Done(j)
  PROVE  /\ Domestic!At(j) \in Domestic!Month
         /\ \A k \in Domestic!Month : k < Domestic!At(j) <=> d_jobs[j].months[k] # NoCount
<1>1. PICK n \in 0..Months : \A k \in Domestic!Month : k < n <=> d_jobs[j].months[k] # NoCount
  BY DEF InTurn
<1>2. PICK m \in Domestic!Month : d_jobs[j].months[m] = NoCount
  BY DEF Domestic!Done
<1>3. n \in Domestic!Month
  BY <1>1, <1>2 DEF Domestic!Month, DomesticConstants
<1> QED BY <1>1, <1>3 DEF Domestic!At

LEMMA EndDayIs ==
  ASSUME DomesticConstants, NEW j \in Domestic!Job, d_to[j] \in Nat, NEW m \in Domestic!Month
  PROVE  /\ Domestic!EndDay(j, m) \in Nat
         /\ Domestic!EndDay(j, m) <= Domestic!FirstDay(m + 1) /\ Domestic!EndDay(j, m) <= d_to[j]
         /\ Domestic!EndDay(j, m) \in {Domestic!FirstDay(m + 1), d_to[j]}
<1> DEFINE T == {Domestic!FirstDay(m + 1), d_to[j]}
<1>1. T \in SUBSET Nat /\ T # {}
  BY DayIs
<1>2. Domestic!Min(T) \in T /\ \A x \in T : Domestic!Min(T) <= x
  <2> HIDE DEF T
  <2> QED BY <1>1, DomesticMin
<1> QED BY <1>1, <1>2 DEF Domestic!EndDay

(* A job that takes one day for today counts a month that is over to its   *)
(* last day.                                                               *)
LEMMA OverIsPast ==
  ASSUME DomesticConstants, Domestic!TypeOK, NEW j \in Domestic!Job, NEW m \in Domestic!Month,
         OneDay(j), d_thread[j] = "read", ~d_torn, Domestic!Over(j, m)
  PROVE  Domestic!EndDay(j, m) = Domestic!FirstDay(m + 1) /\ Domestic!FirstDay(m + 1) <= d_today
<1>1. d_to[j] \in Nat /\ d_asof[j] \in Nat /\ d_today \in Nat /\ Domestic!FirstDay(m + 1) \in Nat
  BY DayIs DEF Domestic!TypeOK
<1>2. d_to[j] = d_asof[j] + 1 /\ d_asof[j] <= d_today
  BY DEF OneDay
<1> QED BY <1>1, <1>2, EndDayIs DEF Domestic!Over

(* Time and calls go on. *)
Onward ==
  \/ d_calls' = d_calls /\ d_today' >= d_today
  \/ d_today' = d_today /\ d_calls' = Append(d_calls, d_today)

LEMMA CountedStays ==
  ASSUME DomesticConstants, Domestic!TypeOK, Domestic!TypeOK', Onward,
         NEW m \in Domestic!Month, NEW n, Counted(m, n)
  PROVE  Counted(m, n)'
<1> DEFINE e == Domestic!FirstDay(m + 1)
<1>1. d_today \in Domestic!Day /\ d_today' \in Domestic!Day /\ d_calls \in Seq(Domestic!Day)
  BY DEF Domestic!TypeOK, Domestic!Day
<1>2. e \in Nat /\ d_today \in Nat /\ d_today' \in Nat
  BY <1>1, DayIs
<1>3. e <= d_today /\ n = Cardinality(CallIn(d_calls, m, e))
  BY CallsOfIs DEF Counted, Domestic!AllCalls
<1>4. CallIn(d_calls', m, e) = CallIn(d_calls, m, e)
  <2>1. d_today >= e
    BY <1>2, <1>3
  <2> HIDE DEF e
  <2>2. CASE d_calls' = d_calls
    BY <2>2
  <2>3. CASE d_calls' = Append(d_calls, d_today)
    BY <1>1, <1>2, <2>1, <2>3, CallsGrow
  <2> QED BY <2>2, <2>3 DEF Onward
<1>5. Domestic!CallsOf(m, e)' = Cardinality(CallIn(d_calls', m, e))
  BY DomesticCardinality DEF Domestic!CallsOf, CallIn, Domestic!FirstDay
<1>6. Domestic!AllCalls(m)' = Domestic!CallsOf(m, e)'
  BY DEF Domestic!AllCalls, Domestic!FirstDay
<1>7. e <= d_today'
  BY <1>2, <1>3 DEF Onward
<1>8. Domestic!FirstDay(m + 1)' = e
  BY DEF Domestic!FirstDay
<1> QED BY <1>3, <1>4, <1>5, <1>6, <1>7, <1>8 DEF Counted

(* A job nothing is done for. *)
JobOK(j) == InTurn(j) /\ ReadSoFar(j) /\ OneDay(j)

LEMMA MonthsStay ==
  ASSUME NEW j \in Domestic!Job, d_jobs'[j].months = d_jobs[j].months, d_to'[j] = d_to[j]
  PROVE  /\ InTurn(j)' <=> InTurn(j)
         /\ Domestic!Done(j)' <=> Domestic!Done(j)
         /\ Domestic!At(j)' = Domestic!At(j)
         /\ \A m : Domestic!EndDay(j, m)' = Domestic!EndDay(j, m)
BY DEF InTurn, Domestic!Done, Domestic!At, Domestic!EndDay, Domestic!FirstDay, Domestic!Month

LEMMA JobStays ==
  ASSUME DomesticConstants, Domestic!TypeOK, Domestic!TypeOK', Onward, ~d_torn' => ~d_torn,
         NEW j \in Domestic!Job, JobOK(j), d_jobs'[j].months = d_jobs[j].months,
         d_to'[j] = d_to[j], d_thread'[j] = d_thread[j], d_skip'[j] = d_skip[j],
         d_asof'[j] = d_asof[j]
  PROVE  JobOK(j)'
<1>1. InTurn(j)'
  BY MonthsStay DEF JobOK
<1>2. ReadSoFar(j)'
  <2> SUFFICES ASSUME d_thread[j] = "read", ~Domestic!Done(j)
               PROVE  d_skip[j] <= Domestic!CallsOf(Domestic!At(j), Domestic!EndDay(j, Domestic!At(j)))'
    BY MonthsStay DEF JobOK, ReadSoFar
  <2> DEFINE m == Domestic!At(j)
             e == Domestic!EndDay(j, m)
  <2>1. m \in Domestic!Month
    BY AtIs DEF JobOK
  <2>2. e \in Nat /\ d_skip[j] \in Nat
    BY <2>1, EndDayIs DEF Domestic!TypeOK
  <2>3. d_skip[j] <= Domestic!CallsOf(m, e)
    BY DEF JobOK, ReadSoFar
  <2>4. m' = m /\ e' = e
    BY MonthsStay
  <2>5. Domestic!CallsOf(Domestic!At(j), Domestic!EndDay(j, Domestic!At(j)))'
          = Cardinality(CallIn(d_calls', m', e'))
    BY DomesticCardinality DEF Domestic!CallsOf, CallIn, Domestic!FirstDay
  <2> HIDE DEF m, e
  <2>6. Cardinality(CallIn(d_calls, m, e)) <= Cardinality(CallIn(d_calls', m, e))
    <3>1. d_today \in Domestic!Day /\ d_calls \in Seq(Domestic!Day)
      BY DEF Domestic!TypeOK
    <3>2. CASE d_calls' = d_calls
      BY <3>1, <3>2, CallsFinite
    <3>3. CASE d_calls' = Append(d_calls, d_today)
      BY <2>2, <3>1, <3>3, CallsGrow
    <3> QED BY <3>2, <3>3 DEF Onward
  <2>7. /\ Cardinality(CallIn(d_calls, m, e)) \in Nat
        /\ Cardinality(CallIn(d_calls', m, e)) \in Nat
    BY CallsFinite DEF Domestic!TypeOK
  <2>8. d_skip[j] <= Cardinality(CallIn(d_calls, m, e))
    BY <2>3, CallsOfIs
  <2> QED BY <2>2, <2>4, <2>5, <2>6, <2>7, <2>8
<1>3. OneDay(j)'
  <2>1. d_today \in Nat /\ d_today' \in Nat /\ d_asof[j] \in Nat
    BY DEF Domestic!TypeOK, Domestic!Day
  <2> QED BY <2>1 DEF JobOK, OneDay, Onward
<1> QED BY <1>1, <1>2, <1>3 DEF JobOK

(* The same job runs, or it ends. *)
LEMMA OneJobStays ==
  ASSUME OneJob, d_kept' = d_kept,
         \A j \in Domestic!Job :
           /\ d_jobs'[j].tenant = d_jobs[j].tenant
           /\ d_jobs'[j].status = "none" <=> d_jobs[j].status = "none"
           /\ d_thread'[j] = "none" <=> d_thread[j] = "none"
           /\ Domestic!Running(j)' <=> d_thread'[j] \notin {"none", "dead"}
           /\ Domestic!Running(j)' => Domestic!Running(j)
  PROVE  OneJob'
<1>1. Domestic!Job' = Domestic!Job
  BY DEF Domestic!Job
<1> QED BY <1>1 DEF OneJob

(* What is remembered and reported stays right. *)
LEMMA CountsStay ==
  ASSUME DomesticConstants, Domestic!TypeOK, Domestic!TypeOK', Onward, ~d_torn' => ~d_torn,
         CountedOK, d_cache' = d_cache,
         \A j \in Domestic!Job : d_jobs'[j].months = d_jobs[j].months
  PROVE  CountedOK'
BY CountedStays DEF CountedOK, Domestic!Month, Domestic!Job

(* A job started gets the next number; the one that is dropped is older.   *)
LEMMA StartKeeps ==
  ASSUME DomesticConstants, DomesticOK, NEW t \in Tenant, Domestic!StartJob(t)
  PROVE  DomesticOK'
<1> DEFINE J == Domestic!Job
           j == Domestic!Cardinality({k \in J : d_jobs[k].status # "none"}) + 1
           more == d_kept \cup {j}
           new == [tenant |-> t, status |-> "queued", months |-> Domestic!NoMonths]
<1>1. PICK n \in 0..MaxReports : \A k \in J : d_jobs[k].status # "none" <=> k <= n
  BY DEF DomesticOK, OneJob
<1>2. j = n + 1
  <2>1. {k \in J : d_jobs[k].status # "none"} = 1..n
    BY <1>1 DEF Domestic!Job, DomesticConstants
  <2>2. Cardinality(1..n) = n
    <3>1. n \in Nat /\ 1 \in Int /\ n \in Int
      OBVIOUS
    <3>2. Cardinality(1..n) = IF 1 > n THEN 0 ELSE n - 1 + 1
      BY ONLY <3>1, FS_Interval
    <3> QED BY <3>1, <3>2
  <2> QED BY <2>1, <2>2, DomesticCardinality
<1> HIDE DEF j
<1>3. /\ j \in J /\ d_thread' = [d_thread EXCEPT ![j] = "start"]
      /\ d_jobs' = [d_jobs EXCEPT ![j] = new]
      /\ d_kept' = IF Domestic!Cardinality(more) > KeptReports
                     THEN more \ {Domestic!Min(more)} ELSE more
      /\ \A k \in d_kept : ~Domestic!Running(k)
      /\ UNCHANGED <<Domestic!clock, d_to, d_asof, d_skip, d_cache, d_torn>>
  BY DEF Domestic!StartJob, j
<1>4. /\ d_kept \subseteq J /\ J \subseteq Nat /\ j \notin d_kept /\ \A k \in d_kept : k < j
      /\ d_jobs[j].status = "none" /\ d_thread[j] = "none"
  <2>1. d_kept \subseteq J /\ J \subseteq Nat
    BY DEF DomesticOK, Domestic!TypeOK, Domestic!Job
  <2>2. \A k \in d_kept : k <= n
    BY <1>1, <2>1 DEF DomesticOK, OneJob
  <2>3. d_jobs[j].status = "none"
    BY <1>1, <1>2, <1>3
  <2> QED BY <1>2, <1>3, <2>1, <2>2, <2>3 DEF DomesticOK, OneJob
<1>5. IsFiniteSet(d_kept) /\ Cardinality(d_kept) \in Nat /\ Cardinality(d_kept) <= KeptReports
  <2>1. IsFiniteSet(1..MaxReports)
    <3>1. 1 \in Int /\ MaxReports \in Int
      BY DEF DomesticConstants
    <3> QED BY ONLY <3>1, FS_Interval
  <2>2. d_kept \subseteq 1..MaxReports
    BY <1>4 DEF Domestic!Job
  <2>3. IsFiniteSet(d_kept)
    BY ONLY <2>1, <2>2, FS_Subset
  <2> QED BY <2>3, FS_CardinalityType, DomesticCardinality DEF DomesticOK, Domestic!TypeOK
<1>6. IsFiniteSet(more) /\ Cardinality(more) = Cardinality(d_kept) + 1
  BY <1>4, <1>5, FS_AddElement
<1>7. /\ j \in d_kept' /\ d_kept' \subseteq more
      /\ Cardinality(d_kept') <= KeptReports
  <2>1. KeptReports \in Nat \ {0}
    BY DEF DomesticConstants
  <2>2. CASE Cardinality(more) > KeptReports
    <3>1. d_kept # {}
      <4>1. Cardinality(d_kept) # 0
        BY <1>5, <1>6, <2>1, <2>2
      <4> QED BY <4>1, FS_EmptySet
    <3>2. more \in SUBSET Nat /\ more # {}
      BY <1>3, <1>4
    <3>3. Domestic!Min(more) \in more /\ \A k \in more : Domestic!Min(more) <= k
      <4> HIDE DEF more
      <4> QED BY <3>2, DomesticMin
    <3>4. Domestic!Min(more) # j
      <4>1. PICK k \in d_kept : TRUE
        BY <3>1
      <4>2. Domestic!Min(more) <= k /\ k < j /\ k \in Nat /\ j \in Nat
        BY <3>3, <4>1, <1>3, <1>4
      <4> QED BY <4>2
    <3>5. d_kept' = more \ {Domestic!Min(more)}
      BY <1>3, <2>2, DomesticCardinality
    <3>6. Cardinality(more \ {Domestic!Min(more)}) = Cardinality(more) - 1
      BY <1>6, <3>3, FS_RemoveElement
    <3> QED BY <1>5, <1>6, <2>1, <3>4, <3>5, <3>6
  <2>3. CASE ~(Cardinality(more) > KeptReports)
    <3>1. d_kept' = more
      BY <1>3, <2>3, DomesticCardinality
    <3> QED BY <1>5, <1>6, <2>1, <2>3, <3>1
  <2> QED BY <2>2, <2>3
<1>8. d_kept' \subseteq J
  BY <1>3, <1>4, <1>7
<1> HIDE DEF more
<1>9. /\ d_jobs'[j] = new /\ d_thread'[j] = "start"
      /\ \A i \in J \ {j} : d_jobs'[i] = d_jobs[i] /\ d_thread'[i] = d_thread[i]
  BY <1>3 DEF DomesticOK, Domestic!TypeOK
<1>10. Domestic!TypeOK'
  <2>1. new \in [tenant : Tenant \cup {NoTenant},
                 status : Domestic!Active \cup {"none", "complete", "failed"},
                 months : [Domestic!Month -> Domestic!Reported \cup {NoCount}]]
    BY DEF Domestic!NoMonths, Domestic!Active
  <2>2. Domestic!Cardinality(d_kept') <= KeptReports
    BY <1>7, DomesticCardinality
  <2> HIDE DEF new
  <2> QED BY <1>3, <1>8, <2>1, <2>2
    DEF DomesticOK, Domestic!TypeOK, Domestic!clock, Domestic!Job, Domestic!Month,
        Domestic!Reported, Domestic!Remembered, Domestic!Day, Domestic!Steps, Domestic!Active
<1>11. OneJob'
  <2>1. /\ new.status = "queued" /\ new.tenant = t
    OBVIOUS
  <2>2. \A i \in J \ {j} : ~Domestic!Running(i)
    BY <1>3 DEF DomesticOK, OneJob
  <2>3. \A i \in J : Domestic!Running(i)' <=> i = j
    <3>1. d_jobs'[j].status = "queued"
      BY <1>9, <2>1
    <3>2. \A i \in J \ {j} : d_jobs'[i].status = d_jobs[i].status
      BY <1>9
    <3> QED BY <3>1, <3>2, <2>2 DEF Domestic!Running, Domestic!Active
  <2>4. n + 1 \in 0..MaxReports /\ \A k \in J : d_jobs'[k].status # "none" <=> k <= n + 1
    <3>1. n + 1 \in 0..MaxReports
      BY <1>2, <1>3 DEF Domestic!Job, DomesticConstants
    <3>2. ASSUME NEW k \in J PROVE d_jobs'[k].status # "none" <=> k <= n + 1
      <4>1. CASE k = j
        BY <1>2, <1>9, <2>1, <4>1
      <4>2. CASE k # j
        BY <1>1, <1>2, <1>4, <1>9, <4>2
      <4> QED BY <4>1, <4>2
    <3> QED BY <3>1, <3>2
  <2>5. ASSUME NEW i \in J
        PROVE  /\ d_jobs'[i].status # "none" => d_jobs'[i].tenant \in Tenant
               /\ d_thread'[i] = "none" <=> d_jobs'[i].status = "none"
               /\ d_thread'[i] \notin {"none", "dead"} <=> Domestic!Running(i)'
               /\ Domestic!Running(i)' => i \in d_kept'
               /\ i \in d_kept' => d_jobs'[i].status # "none"
    <3> HIDE DEF new
    <3>1. CASE i = j
      <4>1. d_jobs'[i] = new /\ d_thread'[i] = "start" /\ i \in d_kept'
        BY <1>7, <1>9, <3>1
      <4>2. Domestic!Running(i)'
        BY <4>1, <2>1 DEF Domestic!Running, Domestic!Active
      <4> QED BY <4>1, <4>2, <2>1
    <3>2. CASE i # j
      <4>1. i \in d_kept' => i \in d_kept
        BY <1>7, <3>2 DEF more
      <4> QED BY <1>9, <2>2, <2>3, <3>2, <4>1 DEF DomesticOK, OneJob
    <3> QED BY <3>1, <3>2
  <2>6. Domestic!Job' = J
    BY DEF Domestic!Job
  <2> HIDE DEF new
  <2> QED BY <2>3, <2>4, <2>5, <2>6 DEF OneJob
<1>12. Onward
  BY <1>3 DEF Onward, Domestic!clock, DomesticOK, Domestic!TypeOK, Domestic!Day
<1>13. ASSUME NEW i \in J PROVE JobOK(i)'
  <2>1. CASE i = j
    <3>1. d_skip'[i] = 0 /\ d_thread'[i] = "start"
      BY <1>3, <1>4, <1>9, <2>1 DEF DomesticOK, ReadSoFar
    <3>2. \A k \in Domestic!Month : d_jobs'[i].months[k] = NoCount
      BY <1>9, <2>1 DEF Domestic!NoMonths
    <3>3. 0 \in 0..Months /\ \A k \in Domestic!Month : ~(k < 0)
      BY DEF DomesticConstants, Domestic!Month
    <3>4. Domestic!Month' = Domestic!Month
      BY DEF Domestic!Month
    <3>5. InTurn(i)'
      BY <3>2, <3>3, <3>4 DEF InTurn
    <3> QED BY <3>1, <3>5 DEF JobOK, ReadSoFar, OneDay
  <2>2. CASE i # j
    <3>1. JobOK(i)
      BY DEF DomesticOK, JobOK
    <3>2. Domestic!TypeOK
      BY DEF DomesticOK
    <3> QED BY <1>3, <1>9, <1>10, <1>12, <2>2, <3>1, <3>2, JobStays
  <2> QED BY <2>1, <2>2
<1>14. CountedOK'
  <2>1. \A m \in Domestic!Month : d_jobs'[j].months[m] = NoCount
    BY <1>9 DEF Domestic!NoMonths
  <2>2. ASSUME ~d_torn', NEW i \in J, NEW m \in Domestic!Month, d_jobs'[i].months[m] # NoCount,
               d_jobs'[i].months[m].over
        PROVE  Counted(m, d_jobs[i].months[m].count)'
    <3>1. d_jobs'[i] = d_jobs[i]
      BY <1>9, <2>1, <2>2
    <3>2. Counted(m, d_jobs[i].months[m].count)
      BY <1>3, <2>2, <3>1 DEF DomesticOK, CountedOK
    <3>3. \A c : Counted(m, c) => Counted(m, c)'
      BY <1>10, <1>12, CountedStays DEF DomesticOK
    <3> QED BY <3>1, <3>2, <3>3
  <2>3. ASSUME ~d_torn', NEW u \in Tenant, NEW m \in Domestic!Month, d_cache'[u][m] # NoCount
        PROVE  Counted(m, d_cache[u][m].count)'
    <3>1. Counted(m, d_cache[u][m].count) /\ d_cache' = d_cache
      BY <1>3, <2>3 DEF DomesticOK, CountedOK
    <3>2. \A c : Counted(m, c) => Counted(m, c)'
      BY <1>10, <1>12, CountedStays DEF DomesticOK
    <3> QED BY <3>1, <3>2
  <2>4. Domestic!Month' = Domestic!Month /\ Domestic!Job' = J
    BY DEF Domestic!Month, Domestic!Job
  <2> QED BY <2>2, <2>3, <2>4 DEF CountedOK
<1> QED BY <1>10, <1>11, <1>13, <1>14 DEF DomesticOK, JobOK, Domestic!Job

(* A step of one job. *)
Alone(j) ==
  /\ d_kept' = d_kept
  /\ \A i \in Domestic!Job \ {j} :
       /\ d_jobs'[i] = d_jobs[i] /\ d_thread'[i] = d_thread[i] /\ d_to'[i] = d_to[i]
       /\ d_asof'[i] = d_asof[i] /\ d_skip'[i] = d_skip[i]

LEMMA JobSteps ==
  ASSUME DomesticConstants, DomesticOK, Domestic!TypeOK', Onward, ~d_torn' => ~d_torn,
         NEW j \in Domestic!Job, Alone(j), d_jobs'[j].tenant = d_jobs[j].tenant,
         d_jobs'[j].status = d_jobs[j].status \/ d_jobs[j].status # "none",
         d_jobs'[j].status # "none" <=> d_jobs[j].status # "none",
         d_thread'[j] # "none" <=> d_thread[j] # "none",
         Domestic!Running(j)' <=> d_thread'[j] \notin {"none", "dead"},
         Domestic!Running(j)' => Domestic!Running(j),
         JobOK(j)', CountedOK'
  PROVE  DomesticOK'
<1>1. OneJob'
  <2>1. ASSUME NEW i \in Domestic!Job
        PROVE  /\ d_jobs'[i].tenant = d_jobs[i].tenant
               /\ d_jobs'[i].status = "none" <=> d_jobs[i].status = "none"
               /\ d_thread'[i] = "none" <=> d_thread[i] = "none"
               /\ Domestic!Running(i)' <=> d_thread'[i] \notin {"none", "dead"}
               /\ Domestic!Running(i)' => Domestic!Running(i)
    <3>1. CASE i = j
      BY <3>1 DEF Domestic!Running, Domestic!Active
    <3>2. CASE i # j
      <4>1. d_jobs'[i] = d_jobs[i] /\ d_thread'[i] = d_thread[i]
        BY <3>2 DEF Alone
      <4>2. d_thread[i] \notin {"none", "dead"} <=> Domestic!Running(i)
        BY DEF DomesticOK, OneJob
      <4> QED BY <4>1, <4>2 DEF Domestic!Running, Domestic!Active
    <3> QED BY <3>1, <3>2
  <2> QED BY <2>1, OneJobStays DEF DomesticOK, Alone
<1>2. ASSUME NEW i \in Domestic!Job PROVE JobOK(i)'
  <2>1. CASE i = j
    BY <2>1 DEF JobOK, InTurn, ReadSoFar, OneDay
  <2>2. CASE i # j
    <3>1. JobOK(i) /\ Domestic!TypeOK
      BY DEF DomesticOK, JobOK
    <3> QED BY <2>2, <3>1, JobStays DEF Alone
  <2> QED BY <2>1, <2>2
<1>3. Domestic!Job' = Domestic!Job
  BY DEF Domestic!Job
<1> QED BY <1>1, <1>2, <1>3 DEF DomesticOK, JobOK

(* Time and calls go on, for whatever a job does. *)
LEMMA ClockStays ==
  ASSUME Domestic!TypeOK, UNCHANGED Domestic!clock
  PROVE  Onward
BY DEF Onward, Domestic!clock, Domestic!TypeOK, Domestic!Day

LEMMA ClockKeeps ==
  ASSUME DomesticConstants, DomesticOK,
         Domestic!Midnight \/ Domestic!CallComesIn \/ UNCHANGED Domestic!vars
  PROVE  DomesticOK'
<1>1. UNCHANGED <<d_jobs, d_kept, Domestic!reader, d_cache, d_torn>>
  BY DEF Domestic!Midnight, Domestic!CallComesIn, Domestic!vars
<1>2. Onward
  BY DEF Domestic!Midnight, Domestic!CallComesIn, Domestic!vars, Domestic!clock, Onward, DomesticOK,
         Domestic!TypeOK, Domestic!Day
<1>3. d_today' \in Domestic!Day /\ d_calls' \in Seq(Domestic!Day)
  <2>1. d_today \in Domestic!Day /\ d_calls \in Seq(Domestic!Day)
    BY DEF DomesticOK, Domestic!TypeOK
  <2>2. CASE Domestic!Midnight
    <3>1. d_today' \in Domestic!Day /\ d_calls' = d_calls
      BY <2>2 DEF Domestic!Midnight
    <3> QED BY <2>1, <3>1
  <2>3. CASE Domestic!CallComesIn
    <3>1. d_today' = d_today /\ d_calls' = Append(d_calls, d_today)
      BY <2>3 DEF Domestic!CallComesIn
    <3> QED BY <2>1, <3>1
  <2>4. CASE UNCHANGED Domestic!vars
    BY <2>1, <2>4 DEF Domestic!vars, Domestic!clock
  <2> QED BY <2>2, <2>3, <2>4
<1>4. Domestic!TypeOK'
  BY <1>1, <1>3
  DEF DomesticOK, Domestic!TypeOK, Domestic!reader, Domestic!Job, Domestic!Month, Domestic!Reported,
      Domestic!Remembered, Domestic!Day, Domestic!Steps, Domestic!Active
<1>5. OneJob'
  <2>1. Domestic!Job' = Domestic!Job
    BY DEF Domestic!Job
  <2> QED BY <1>1, <2>1 DEF DomesticOK, OneJob, Domestic!Running, Domestic!Active, Domestic!reader
<1>6. ASSUME NEW j \in Domestic!Job PROVE JobOK(j)'
  <2>1. JobOK(j) /\ Domestic!TypeOK
    BY DEF DomesticOK, JobOK
  <2> QED BY <1>1, <1>2, <1>4, <2>1, JobStays DEF Domestic!reader
<1>7. CountedOK'
  BY <1>1, <1>2, <1>4, CountsStay DEF DomesticOK
<1>8. Domestic!Job' = Domestic!Job
  BY DEF Domestic!Job
<1> QED BY <1>4, <1>5, <1>6, <1>7, <1>8 DEF DomesticOK, JobOK

LEMMA StatusSet ==
  ASSUME Domestic!TypeOK, NEW j \in Domestic!Job,
         NEW s \in Domestic!Active \cup {"none", "complete", "failed"},
         d_jobs' = [d_jobs EXCEPT ![j].status = s]
  PROVE  /\ d_jobs'[j].status = s /\ d_jobs'[j].tenant = d_jobs[j].tenant
         /\ d_jobs'[j].months = d_jobs[j].months
         /\ \A i \in Domestic!Job \ {j} : d_jobs'[i] = d_jobs[i]
         /\ d_jobs' \in [Domestic!Job -> [tenant : Tenant \cup {NoTenant},
                           status : Domestic!Active \cup {"none", "complete", "failed"},
                           months : [Domestic!Month -> Domestic!Reported \cup {NoCount}]]]
BY DEF Domestic!TypeOK

LEMMA BeginKeeps ==
  ASSUME DomesticConstants, DomesticOK, NEW j \in Domestic!Job, Domestic!Begin(j)
  PROVE  DomesticOK'
<1> USE DEF Domestic!Begin, Domestic!Step
<1>1. Domestic!TypeOK /\ Onward /\ d_torn' = d_torn
  BY ClockStays DEF DomesticOK
<1>2. "running" \in Domestic!Active
  BY DEF Domestic!Active
<1>3. /\ d_jobs'[j].status = "running" /\ d_jobs'[j].tenant = d_jobs[j].tenant
      /\ d_jobs'[j].months = d_jobs[j].months
      /\ \A i \in Domestic!Job \ {j} : d_jobs'[i] = d_jobs[i]
      /\ d_jobs' \in [Domestic!Job -> [tenant : Tenant \cup {NoTenant},
                        status : Domestic!Active \cup {"none", "complete", "failed"},
                        months : [Domestic!Month -> Domestic!Reported \cup {NoCount}]]]
  BY <1>1, <1>2, StatusSet
<1>4. /\ d_thread[j] = "start" /\ d_thread'[j] = "window" /\ d_thread' \in [Domestic!Job -> Domestic!Steps]
      /\ \A i \in Domestic!Job \ {j} : d_thread'[i] = d_thread[i]
  BY <1>1 DEF Domestic!TypeOK, Domestic!Steps
<1>5. Domestic!TypeOK'
  BY <1>1, <1>3, <1>4
  DEF Domestic!TypeOK, Domestic!clock, Domestic!Job, Domestic!Month, Domestic!Reported,
      Domestic!Remembered, Domestic!Day, Domestic!Steps, Domestic!Active
<1>6. Domestic!Running(j) /\ Domestic!Running(j)' /\ d_jobs[j].status # "none"
  BY <1>2, <1>3, <1>4 DEF DomesticOK, OneJob, Domestic!Running, Domestic!Active
<1>7. JobOK(j)'
  <2>1. InTurn(j)'
    BY <1>3, MonthsStay DEF DomesticOK
  <2>2. d_skip'[j] = 0
    BY <1>4 DEF DomesticOK, ReadSoFar
  <2> QED BY <1>4, <2>1, <2>2 DEF JobOK, ReadSoFar, OneDay
<1>8. CountedOK'
  <2>1. \A i \in Domestic!Job : d_jobs'[i].months = d_jobs[i].months
    BY <1>3
  <2> QED BY <1>1, <1>5, <2>1, CountsStay DEF DomesticOK
<1>9. Alone(j)
  BY <1>3, <1>4 DEF Alone
<1> QED BY <1>1, <1>3, <1>4, <1>5, <1>6, <1>7, <1>8, <1>9, JobSteps

(* A job that runs takes a step and runs on. *)
Reading == {"window", "now", "read"}

LEMMA RunsOn ==
  ASSUME DomesticConstants, DomesticOK, Domestic!TypeOK', Onward, ~d_torn' => ~d_torn,
         NEW j \in Domestic!Job, Alone(j), d_jobs'[j].tenant = d_jobs[j].tenant,
         d_jobs'[j].status = d_jobs[j].status, d_thread[j] \in Reading, d_thread'[j] \in Reading,
         JobOK(j)', CountedOK'
  PROVE  DomesticOK'
<1>1. d_thread[j] \notin {"none", "dead"} /\ d_thread'[j] \notin {"none", "dead"}
  BY DEF Reading
<1>2. Domestic!Running(j) /\ d_jobs[j].status # "none"
  BY <1>1 DEF DomesticOK, OneJob
<1>3. Domestic!Running(j)'
  BY <1>2 DEF Domestic!Running, Domestic!Active
<1>4. d_thread[j] # "none" /\ d_thread'[j] # "none"
  BY <1>1
<1> QED BY <1>1, <1>2, <1>3, <1>4, JobSteps

LEMMA WindowKeeps ==
  ASSUME DomesticConstants, DomesticOK, NEW j \in Domestic!Job, Domestic!Window(j)
  PROVE  DomesticOK'
<1> USE DEF Domestic!Window, Domestic!Step
<1>1. Domestic!TypeOK /\ Onward /\ d_torn' = d_torn /\ d_jobs' = d_jobs
  BY ClockStays DEF DomesticOK
<1>2. /\ d_thread[j] = "window" /\ d_thread'[j] = "now" /\ d_thread' \in [Domestic!Job -> Domestic!Steps]
      /\ \A i \in Domestic!Job \ {j} : d_thread'[i] = d_thread[i]
  BY <1>1 DEF Domestic!TypeOK, Domestic!Steps
<1>3. /\ d_to' \in [Domestic!Job -> 0..(Months * DaysPerMonth)]
      /\ \A i \in Domestic!Job \ {j} : d_to'[i] = d_to[i]
  <2>1. d_today + 1 \in 0..(Months * DaysPerMonth)
    BY <1>1, DayIs DEF Domestic!TypeOK
  <2> QED BY <1>1, <2>1 DEF Domestic!TypeOK
<1>4. Domestic!TypeOK'
  BY <1>1, <1>2, <1>3
  DEF Domestic!TypeOK, Domestic!clock, Domestic!Job, Domestic!Month, Domestic!Reported,
      Domestic!Remembered, Domestic!Day, Domestic!Steps, Domestic!Active
<1>5. JobOK(j)'
  <2>1. InTurn(j)'
    BY <1>1 DEF DomesticOK, InTurn, Domestic!Month
  <2>2. d_skip'[j] = 0
    BY <1>2 DEF DomesticOK, ReadSoFar
  <2> QED BY <1>2, <2>1, <2>2 DEF JobOK, ReadSoFar, OneDay
<1>6. CountedOK'
  BY <1>1, <1>4, CountsStay DEF DomesticOK
<1>7. Alone(j)
  BY <1>1, <1>2, <1>3 DEF Alone
<1> QED BY <1>1, <1>2, <1>4, <1>5, <1>6, <1>7, RunsOn DEF Reading

LEMMA NowKeeps ==
  ASSUME DomesticConstants, DomesticOK, NEW j \in Domestic!Job, Domestic!Now(j)
  PROVE  DomesticOK'
<1> USE DEF Domestic!Now, Domestic!Step
<1>1. Domestic!TypeOK /\ Onward /\ (~d_torn' => ~d_torn) /\ d_jobs' = d_jobs /\ d_to' = d_to
  BY ClockStays DEF DomesticOK
<1>2. /\ d_thread[j] = "now" /\ d_thread'[j] = "read" /\ d_thread' \in [Domestic!Job -> Domestic!Steps]
      /\ \A i \in Domestic!Job \ {j} : d_thread'[i] = d_thread[i]
  BY <1>1 DEF Domestic!TypeOK, Domestic!Steps
<1>3. /\ d_asof' \in [Domestic!Job -> Domestic!Day] /\ d_asof'[j] = d_today
      /\ \A i \in Domestic!Job \ {j} : d_asof'[i] = d_asof[i]
  BY <1>1 DEF Domestic!TypeOK
<1>4. Domestic!TypeOK'
  <2>1. d_torn' \in BOOLEAN
    BY <1>1 DEF Domestic!TypeOK
  <2> QED BY <1>1, <1>2, <1>3, <2>1
    DEF Domestic!TypeOK, Domestic!clock, Domestic!Job, Domestic!Month, Domestic!Reported,
        Domestic!Remembered, Domestic!Day, Domestic!Steps, Domestic!Active
<1>5. InTurn(j)'
  BY <1>1, MonthsStay DEF DomesticOK
<1>6. ReadSoFar(j)'
  <2>1. d_skip'[j] = 0
    BY <1>2 DEF DomesticOK, ReadSoFar
  <2>2. (Domestic!CallsOf(Domestic!At(j), Domestic!EndDay(j, Domestic!At(j))) \in Nat)'
    <3>1. d_calls' \in Seq(Domestic!Day)
      BY <1>4 DEF Domestic!TypeOK, Domestic!Day
    <3>2. \A m, e : Cardinality(CallIn(d_calls', m, e)) \in Nat
      BY <3>1, CallsFinite
    <3>3. Domestic!CallsOf(Domestic!At(j), Domestic!EndDay(j, Domestic!At(j)))'
            = Cardinality(CallIn(d_calls', Domestic!At(j)', Domestic!EndDay(j, Domestic!At(j))'))
      BY DomesticCardinality DEF Domestic!CallsOf, CallIn, Domestic!FirstDay
    <3> QED BY <3>2, <3>3
  <2> QED BY <1>2, <2>1, <2>2 DEF ReadSoFar
<1>7. OneDay(j)'
  <2>1. d_today' = d_today /\ d_today \in Nat
    BY <1>1 DEF Domestic!clock, Domestic!TypeOK, Domestic!Day
  <2>2. ~d_torn' => d_to[j] = d_today + 1
    OBVIOUS
  <2> QED BY <1>1, <1>3, <2>1, <2>2 DEF OneDay
<1>8. CountedOK'
  BY <1>1, <1>4, CountsStay DEF DomesticOK
<1>9. Alone(j)
  BY <1>1, <1>2, <1>3 DEF Alone
<1> QED BY <1>1, <1>2, <1>4, <1>5, <1>6, <1>7, <1>8, <1>9, RunsOn DEF Reading, JobOK

LEMMA CallsOfIsNat ==
  ASSUME DomesticConstants, Domestic!TypeOK
  PROVE  \A m, e : Domestic!CallsOf(m, e) \in Nat
BY CallsFinite, CallsOfIs DEF Domestic!TypeOK

(* A month is added to the report: the next in turn. *)
Added(j, m, r) == d_jobs' = [d_jobs EXCEPT ![j].months[m] = r]

LEMMA ReportIs ==
  ASSUME DomesticConstants, Domestic!TypeOK, NEW j \in Domestic!Job, InTurn(j), ~Domestic!Done(j),
         NEW r \in Domestic!Reported, NEW m, m = Domestic!At(j), Added(j, m, r)
  PROVE  /\ d_jobs'[j].status = d_jobs[j].status /\ d_jobs'[j].tenant = d_jobs[j].tenant
         /\ d_jobs'[j].months[m] = r
         /\ \A k \in Domestic!Month \ {m} : d_jobs'[j].months[k] = d_jobs[j].months[k]
         /\ \A i \in Domestic!Job \ {j} : d_jobs'[i] = d_jobs[i]
         /\ d_jobs' \in [Domestic!Job -> [tenant : Tenant \cup {NoTenant},
                           status : Domestic!Active \cup {"none", "complete", "failed"},
                           months : [Domestic!Month -> Domestic!Reported \cup {NoCount}]]]
         /\ InTurn(j)'
<1>1. m \in Domestic!Month /\ \A k \in Domestic!Month : k < m <=> d_jobs[j].months[k] # NoCount
  BY AtIs
<1>2. d_jobs[j] \in [tenant : Tenant \cup {NoTenant},
                     status : Domestic!Active \cup {"none", "complete", "failed"},
                     months : [Domestic!Month -> Domestic!Reported \cup {NoCount}]]
  BY DEF Domestic!TypeOK
<1> DEFINE n == [d_jobs[j] EXCEPT !.months[m] = r]
<1>3. n \in [tenant : Tenant \cup {NoTenant},
             status : Domestic!Active \cup {"none", "complete", "failed"},
             months : [Domestic!Month -> Domestic!Reported \cup {NoCount}]]
  BY <1>1, <1>2
<1>4. /\ n.status = d_jobs[j].status /\ n.tenant = d_jobs[j].tenant /\ n.months[m] = r
      /\ \A k \in Domestic!Month \ {m} : n.months[k] = d_jobs[j].months[k]
  BY <1>1, <1>2
<1>5. d_jobs' = [d_jobs EXCEPT ![j] = n]
  BY DEF Domestic!TypeOK, Added
<1> HIDE DEF n
<1>6. d_jobs'[j] = n /\ \A i \in Domestic!Job \ {j} : d_jobs'[i] = d_jobs[i]
  BY <1>5 DEF Domestic!TypeOK
<1>7. d_jobs' \in [Domestic!Job -> [tenant : Tenant \cup {NoTenant},
                           status : Domestic!Active \cup {"none", "complete", "failed"},
                           months : [Domestic!Month -> Domestic!Reported \cup {NoCount}]]]
  BY <1>3, <1>5 DEF Domestic!TypeOK
<1>8. InTurn(j)'
  <2>1. m + 1 \in 0..Months /\ m \in Nat /\ Domestic!Month \subseteq Nat
    BY <1>1 DEF Domestic!Month, DomesticConstants
  <2>2. r # NoCount
    BY DEF DomesticConstants
  <2>3. ASSUME NEW k \in Domestic!Month PROVE k < m + 1 <=> d_jobs'[j].months[k] # NoCount
    <3>1. CASE k = m
      <4>1. d_jobs'[j].months[k] = r
        BY <1>4, <1>6, <3>1
      <4>2. k < m + 1
        BY <2>1, <3>1
      <4> QED BY <2>2, <4>1, <4>2
    <3>2. CASE k # m
      <4>1. d_jobs'[j].months[k] = d_jobs[j].months[k]
        BY <1>4, <1>6, <3>2
      <4>2. k < m + 1 <=> k < m
        BY <2>1, <3>2
      <4> QED BY <1>1, <4>1, <4>2
    <3> QED BY <3>1, <3>2
  <2>4. Domestic!Month' = Domestic!Month
    BY DEF Domestic!Month
  <2> QED BY <2>1, <2>3, <2>4 DEF InTurn
<1> QED BY <1>4, <1>6, <1>7, <1>8

LEMMA CountedSame ==
  ASSUME UNCHANGED Domestic!clock
  PROVE  /\ \A m, n : Counted(m, n) => Counted(m, n)'
         /\ \A m, e : Domestic!CallsOf(m, e)' = Domestic!CallsOf(m, e)
BY DEF Domestic!clock, Counted, Domestic!FirstDay, Domestic!AllCalls, Domestic!CallsOf

LEMMA ReportKeeps ==
  ASSUME DomesticConstants, DomesticOK, NEW j \in Domestic!Job, d_thread[j] = "read",
         ~Domestic!Done(j), NEW n \in Nat, NEW o \in BOOLEAN, Domestic!Report(j, n, o),
         UNCHANGED <<Domestic!clock, d_kept, d_thread, d_to, d_asof, d_torn>>,
         d_cache' \in [Tenant -> [Domestic!Month -> Domestic!Remembered \cup {NoCount}]],
         ~d_torn => (o => Counted(Domestic!At(j), n)),
         ~d_torn => \A t \in Tenant, m \in Domestic!Month :
                      d_cache'[t][m] # NoCount => Counted(m, d_cache'[t][m].count)
  PROVE  DomesticOK'
<1>1. Domestic!TypeOK /\ Onward /\ d_torn' = d_torn /\ InTurn(j)
  BY ClockStays DEF DomesticOK
<1>2. PICK r \in Domestic!Reported : r = [count |-> n, over |-> o]
  BY DEF Domestic!Reported
<1>3. PICK m : m = Domestic!At(j)
  OBVIOUS
<1>4. Added(j, m, r)
  BY <1>2, <1>3 DEF Domestic!Report, Added
<1>5. /\ d_jobs'[j].status = d_jobs[j].status /\ d_jobs'[j].tenant = d_jobs[j].tenant
      /\ d_jobs'[j].months[m] = r
      /\ \A k \in Domestic!Month \ {m} : d_jobs'[j].months[k] = d_jobs[j].months[k]
      /\ \A i \in Domestic!Job \ {j} : d_jobs'[i] = d_jobs[i]
      /\ d_jobs' \in [Domestic!Job -> [tenant : Tenant \cup {NoTenant},
                        status : Domestic!Active \cup {"none", "complete", "failed"},
                        months : [Domestic!Month -> Domestic!Reported \cup {NoCount}]]]
      /\ InTurn(j)'
  BY <1>1, <1>3, <1>4, ReportIs
<1>6. /\ d_skip'[j] = 0 /\ d_skip' \in [Domestic!Job -> Nat]
      /\ \A i \in Domestic!Job \ {j} : d_skip'[i] = d_skip[i]
  BY <1>1 DEF Domestic!Report, Domestic!TypeOK
<1>7. Domestic!TypeOK'
  BY <1>1, <1>5, <1>6
  DEF Domestic!TypeOK, Domestic!clock, Domestic!Job, Domestic!Month, Domestic!Reported,
      Domestic!Remembered, Domestic!Day, Domestic!Steps, Domestic!Active
<1>8. ReadSoFar(j)'
  <2>1. Domestic!CallsOf(Domestic!At(j), Domestic!EndDay(j, Domestic!At(j)))'
          = Cardinality(CallIn(d_calls', Domestic!At(j)', Domestic!EndDay(j, Domestic!At(j))'))
    BY DomesticCardinality DEF Domestic!CallsOf, CallIn, Domestic!FirstDay
  <2>2. d_calls' \in Seq(Domestic!Day)
    BY <1>7 DEF Domestic!TypeOK, Domestic!Day
  <2>3. \A k, e : Cardinality(CallIn(d_calls', k, e)) \in Nat
    BY <2>2, CallsFinite
  <2> QED BY <1>6, <2>1, <2>3 DEF ReadSoFar
<1>9. OneDay(j)'
  BY <1>1 DEF DomesticOK, OneDay, Domestic!clock
<1>10. CountedOK'
  <2>2. ASSUME ~d_torn, NEW i \in Domestic!Job, NEW k \in Domestic!Month,
               d_jobs'[i].months[k] # NoCount, d_jobs'[i].months[k].over
        PROVE  Counted(k, d_jobs'[i].months[k].count)
    <3>1. CASE i = j /\ k = m
      BY <1>2, <1>3, <1>5, <2>2, <3>1
    <3>2. CASE ~(i = j /\ k = m)
      <4>1. d_jobs'[i].months[k] = d_jobs[i].months[k]
        BY <1>5, <3>2
      <4> QED BY <2>2, <4>1 DEF DomesticOK, CountedOK
    <3> QED BY <3>1, <3>2
  <2>3. Domestic!Month' = Domestic!Month /\ Domestic!Job' = Domestic!Job
    BY DEF Domestic!Month, Domestic!Job
  <2>4. ASSUME ~d_torn', NEW t \in Tenant, NEW k \in Domestic!Month, d_cache'[t][k] # NoCount
        PROVE  Domestic!FirstDay(k + 1) <= d_today' /\ d_cache'[t][k].count = Domestic!AllCalls(k)'
    <3>1. Counted(k, d_cache'[t][k].count)
      BY <1>1, <2>4
    <3>2. Domestic!AllCalls(k)' = Domestic!AllCalls(k) /\ d_today' = d_today
      BY DEF Domestic!AllCalls, Domestic!CallsOf, Domestic!FirstDay, Domestic!clock
    <3> QED BY <3>1, <3>2 DEF Counted
  <2>5. ASSUME ~d_torn', NEW i \in Domestic!Job, NEW k \in Domestic!Month,
               d_jobs'[i].months[k] # NoCount, d_jobs'[i].months[k].over
        PROVE  Domestic!FirstDay(k + 1) <= d_today'
               /\ d_jobs'[i].months[k].count = Domestic!AllCalls(k)'
    <3>1. Counted(k, d_jobs'[i].months[k].count)
      BY <1>1, <2>2, <2>5
    <3>2. Domestic!AllCalls(k)' = Domestic!AllCalls(k) /\ d_today' = d_today
      BY DEF Domestic!AllCalls, Domestic!CallsOf, Domestic!FirstDay, Domestic!clock
    <3> QED BY <3>1, <3>2 DEF Counted
  <2>6. \A k : Domestic!FirstDay(k + 1)' = Domestic!FirstDay(k + 1)
    BY DEF Domestic!FirstDay
  <2> QED BY <2>3, <2>4, <2>5, <2>6 DEF CountedOK, Counted
<1>11. Alone(j)
  BY <1>5, <1>6 DEF Alone
<1> QED BY <1>1, <1>5, <1>7, <1>8, <1>9, <1>10, <1>11, RunsOn DEF Reading, JobOK

(* Where a job that reads is. *)
LEMMA ReaderIs ==
  ASSUME DomesticConstants, DomesticOK, NEW j \in Domestic!Job, d_thread[j] = "read",
         ~Domestic!Done(j), NEW m, m = Domestic!At(j), NEW e, e = Domestic!EndDay(j, m)
  PROVE  /\ m \in Domestic!Month /\ e \in Nat /\ d_jobs[j].tenant \in Tenant
         /\ d_skip[j] \in Nat /\ Domestic!CallsOf(m, e) \in Nat
         /\ d_skip[j] <= Domestic!CallsOf(m, e)
         /\ Domestic!Rows(j) \in {CallPage, Domestic!CallsOf(m, e) - d_skip[j]}
         /\ Domestic!Rows(j) <= Domestic!CallsOf(m, e) - d_skip[j]
<1>1. m \in Domestic!Month
  BY AtIs DEF DomesticOK
<1>2. e \in Nat
  BY <1>1, EndDayIs DEF DomesticOK, Domestic!TypeOK
<1>3. d_jobs[j].status # "none"
  BY DEF DomesticOK, OneJob
<1>4. d_jobs[j].tenant \in Tenant /\ d_skip[j] \in Nat
  BY <1>3 DEF DomesticOK, OneJob, Domestic!TypeOK
<1>5. Domestic!CallsOf(m, e) \in Nat
  BY CallsOfIsNat DEF DomesticOK
<1>6. d_skip[j] <= Domestic!CallsOf(m, e)
  BY DEF DomesticOK, ReadSoFar
<1> DEFINE T == {CallPage, Domestic!CallsOf(m, e) - d_skip[j]}
<1>7. T \in SUBSET Nat /\ T # {}
  BY <1>4, <1>5, <1>6 DEF DomesticConstants
<1>8. Domestic!Rows(j) = Domestic!Min(T)
  BY DEF Domestic!Rows
<1>9. Domestic!Min(T) \in T /\ \A x \in T : Domestic!Min(T) <= x
  <2> HIDE DEF T
  <2> QED BY <1>7, DomesticMin
<1> QED BY <1>1, <1>2, <1>4, <1>5, <1>6, <1>8, <1>9

LEMMA ReuseKeeps ==
  ASSUME DomesticConstants, DomesticOK, NEW j \in Domestic!Job, Domestic!Reuse(j)
  PROVE  DomesticOK'
<1>1. PICK m : m = Domestic!At(j)
  OBVIOUS
<1>2. PICK old : old = d_cache[d_jobs[j].tenant][m]
  OBVIOUS
<1>3. /\ d_thread[j] = "read" /\ ~Domestic!Done(j) /\ old # NoCount
      /\ Domestic!Report(j, old.count, TRUE)
      /\ UNCHANGED <<Domestic!clock, d_kept, d_thread, d_to, d_asof, d_cache, d_torn>>
  BY <1>1, <1>2 DEF Domestic!Reuse
<1>4. m \in Domestic!Month /\ d_jobs[j].tenant \in Tenant
  BY <1>1, <1>3, ReaderIs
<1>5. /\ d_cache \in [Tenant -> [Domestic!Month -> Domestic!Remembered \cup {NoCount}]]
      /\ old \in Domestic!Remembered
  BY <1>2, <1>3, <1>4 DEF DomesticOK, Domestic!TypeOK
<1>6. old.count \in Nat
  BY <1>5 DEF Domestic!Remembered
<1>7. ~d_torn => Counted(m, old.count)
  BY <1>2, <1>3, <1>4 DEF DomesticOK, CountedOK
<1>8. ~d_torn => \A t \in Tenant, k \in Domestic!Month :
                   d_cache'[t][k] # NoCount => Counted(k, d_cache'[t][k].count)
  BY <1>3 DEF DomesticOK, CountedOK
<1>9. d_cache' \in [Tenant -> [Domestic!Month -> Domestic!Remembered \cup {NoCount}]]
  BY <1>3, <1>5
<1> QED BY <1>1, <1>3, <1>6, <1>7, <1>8, <1>9, ReportKeeps

LEMMA LastPageKeeps ==
  ASSUME DomesticConstants, DomesticOK, NEW j \in Domestic!Job, Domestic!LastPage(j)
  PROVE  DomesticOK'
<1>1. PICK m : m = Domestic!At(j)
  OBVIOUS
<1>2. PICK e : e = Domestic!EndDay(j, m)
  OBVIOUS
<1>3. PICK n : n = d_skip[j] + Domestic!Rows(j)
  OBVIOUS
<1>4. PICK o \in BOOLEAN : o = Domestic!Over(j, m)
  <2>1. d_thread[j] = "read" /\ ~Domestic!Done(j)
    BY DEF Domestic!LastPage
  <2>2. Domestic!EndDay(j, m) \in Nat
    BY <1>1, <1>2, <2>1, ReaderIs
  <2>3. d_asof[j] \in Nat
    BY DEF DomesticOK, Domestic!TypeOK, Domestic!Day
  <2>4. Domestic!Over(j, m) \in BOOLEAN
    BY <2>2, <2>3 DEF Domestic!Over
  <2> QED BY Zenon, <2>4
<1>5. PICK t : t = d_jobs[j].tenant
  OBVIOUS
<1>6. PICK r : r = [count |-> n, day |-> d_today]
  OBVIOUS
<1>7. /\ d_thread[j] = "read" /\ ~Domestic!Done(j) /\ Domestic!Rows(j) < CallPage
      /\ Domestic!Report(j, n, o)
      /\ d_cache' = IF o THEN [d_cache EXCEPT ![t][m] = r] ELSE d_cache
      /\ UNCHANGED <<Domestic!clock, d_kept, d_thread, d_to, d_asof, d_torn>>
  BY <1>1, <1>3, <1>4, <1>5, <1>6 DEF Domestic!LastPage
<1>8. /\ m \in Domestic!Month /\ t \in Tenant /\ d_skip[j] \in Nat
      /\ Domestic!CallsOf(m, e) \in Nat /\ n = Domestic!CallsOf(m, e)
  <2>1. /\ m \in Domestic!Month /\ t \in Tenant /\ d_skip[j] \in Nat
        /\ Domestic!CallsOf(m, e) \in Nat
        /\ Domestic!Rows(j) \in {CallPage, Domestic!CallsOf(m, e) - d_skip[j]}
    BY <1>1, <1>2, <1>5, <1>7, ReaderIs
  <2>2. CallPage \in Nat /\ Domestic!Rows(j) # CallPage
    BY <1>7, <2>1 DEF DomesticConstants
  <2> QED BY <1>3, <2>1, <2>2
<1>9. r \in Domestic!Remembered /\ r.count = n
  BY <1>6, <1>8 DEF Domestic!Remembered, DomesticOK, Domestic!TypeOK
<1>10. d_cache \in [Tenant -> [Domestic!Month -> Domestic!Remembered \cup {NoCount}]]
  BY DEF DomesticOK, Domestic!TypeOK
<1>11. d_cache' \in [Tenant -> [Domestic!Month -> Domestic!Remembered \cup {NoCount}]]
  BY <1>7, <1>8, <1>9, <1>10
<1>12. ~d_torn => (o => Counted(m, n))
  <2> SUFFICES ASSUME ~d_torn, o PROVE Counted(m, n)
    OBVIOUS
  <2>1. e = Domestic!FirstDay(m + 1) /\ Domestic!FirstDay(m + 1) <= d_today
    BY <1>2, <1>4, <1>7, <1>8, OverIsPast DEF DomesticOK
  <2> QED BY <1>8, <2>1 DEF Counted, Domestic!AllCalls
<1>13. ASSUME ~d_torn, NEW u \in Tenant, NEW k \in Domestic!Month, d_cache'[u][k] # NoCount
       PROVE  Counted(k, d_cache'[u][k].count)
  <2>1. CASE o /\ u = t /\ k = m
    <3>1. d_cache'[u][k] = r
      BY <1>7, <1>8, <1>10, <2>1
    <3> QED BY <1>9, <1>12, <1>13, <2>1, <3>1
  <2>2. CASE ~(o /\ u = t /\ k = m)
    <3>1. d_cache'[u][k] = d_cache[u][k]
      BY <1>7, <1>8, <1>10, <2>2
    <3> QED BY <1>13, <3>1 DEF DomesticOK, CountedOK
  <2> QED BY <2>1, <2>2
<1> QED BY <1>1, <1>7, <1>8, <1>11, <1>12, <1>13, ReportKeeps

LEMMA FullPageKeeps ==
  ASSUME DomesticConstants, DomesticOK, NEW j \in Domestic!Job, Domestic!FullPage(j)
  PROVE  DomesticOK'
<1> USE DEF Domestic!FullPage
<1>1. /\ Domestic!TypeOK /\ Onward /\ d_torn' = d_torn /\ d_jobs' = d_jobs /\ d_to' = d_to
      /\ d_thread[j] = "read"
  BY ClockStays DEF DomesticOK
<1>2. PICK m : m = Domestic!At(j)
  OBVIOUS
<1>3. PICK e : e = Domestic!EndDay(j, m)
  OBVIOUS
<1>4. d_skip[j] \in Nat /\ CallPage \in Nat /\ d_skip[j] + CallPage <= Domestic!CallsOf(m, e)
  <2>1. /\ d_skip[j] \in Nat /\ Domestic!CallsOf(m, e) \in Nat
        /\ Domestic!Rows(j) <= Domestic!CallsOf(m, e) - d_skip[j]
    BY <1>1, <1>2, <1>3, ReaderIs
  <2>2. CallPage \in Nat /\ Domestic!Rows(j) = CallPage
    BY DEF DomesticConstants
  <2> QED BY <2>1, <2>2
<1>5. /\ d_skip' \in [Domestic!Job -> Nat] /\ d_skip'[j] = d_skip[j] + CallPage
      /\ \A i \in Domestic!Job \ {j} : d_skip'[i] = d_skip[i]
  BY <1>1, <1>4 DEF Domestic!TypeOK
<1>6. Domestic!TypeOK'
  BY <1>1, <1>5
  DEF Domestic!TypeOK, Domestic!clock, Domestic!Job, Domestic!Month, Domestic!Reported,
      Domestic!Remembered, Domestic!Day, Domestic!Steps, Domestic!Active
<1>7. InTurn(j)'
  BY <1>1, MonthsStay DEF DomesticOK
<1>8. ReadSoFar(j)'
  <2>1. Domestic!At(j)' = m /\ Domestic!EndDay(j, Domestic!At(j))' = e
    BY <1>1, <1>2, <1>3, MonthsStay
  <2>2. Domestic!CallsOf(Domestic!At(j), Domestic!EndDay(j, Domestic!At(j)))'
          = Cardinality(CallIn(d_calls', Domestic!At(j)', Domestic!EndDay(j, Domestic!At(j))'))
    BY DomesticCardinality DEF Domestic!CallsOf, CallIn, Domestic!FirstDay
  <2>3. Domestic!CallsOf(m, e) = Cardinality(CallIn(d_calls, m, e)) /\ d_calls' = d_calls
    BY CallsOfIs DEF Domestic!clock
  <2> QED BY <1>1, <1>4, <1>5, <2>1, <2>2, <2>3 DEF ReadSoFar
<1>9. OneDay(j)'
  BY <1>1 DEF DomesticOK, OneDay, Domestic!clock
<1>10. CountedOK'
  BY <1>1, <1>6, CountsStay DEF DomesticOK
<1>11. Alone(j)
  BY <1>1, <1>5 DEF Alone
<1> QED BY <1>1, <1>6, <1>7, <1>8, <1>9, <1>10, <1>11, RunsOn DEF Reading, JobOK

LEMMA JobEnds ==
  ASSUME DomesticConstants, DomesticOK, NEW j \in Domestic!Job, d_thread[j] \in Reading,
         NEW s \in {"complete", "failed"}, Domestic!End(j, s)
  PROVE  DomesticOK'
<1> USE DEF Domestic!End
<1>1. Domestic!TypeOK /\ Onward /\ d_torn' = d_torn
  BY ClockStays DEF DomesticOK
<1>2. s \in Domestic!Active \cup {"none", "complete", "failed"}
  BY DEF Domestic!Active
<1>3. /\ d_jobs'[j].status = s /\ d_jobs'[j].tenant = d_jobs[j].tenant
      /\ d_jobs'[j].months = d_jobs[j].months
      /\ \A i \in Domestic!Job \ {j} : d_jobs'[i] = d_jobs[i]
      /\ d_jobs' \in [Domestic!Job -> [tenant : Tenant \cup {NoTenant},
                        status : Domestic!Active \cup {"none", "complete", "failed"},
                        months : [Domestic!Month -> Domestic!Reported \cup {NoCount}]]]
  BY <1>1, <1>2, StatusSet
<1>4. /\ d_thread'[j] = "dead" /\ d_thread' \in [Domestic!Job -> Domestic!Steps]
      /\ \A i \in Domestic!Job \ {j} : d_thread'[i] = d_thread[i]
  BY <1>1 DEF Domestic!TypeOK, Domestic!Steps
<1>5. Domestic!TypeOK'
  BY <1>1, <1>3, <1>4
  DEF Domestic!TypeOK, Domestic!clock, Domestic!Job, Domestic!Month, Domestic!Reported,
      Domestic!Remembered, Domestic!Day, Domestic!Steps, Domestic!Active
<1>6. d_thread[j] \notin {"none", "dead"}
  BY DEF Reading
<1>7. d_jobs[j].status # "none" /\ ~Domestic!Running(j)'
  BY <1>3, <1>6 DEF DomesticOK, OneJob, Domestic!Running, Domestic!Active
<1>8. JobOK(j)'
  <2>1. InTurn(j)'
    BY <1>3, MonthsStay DEF DomesticOK
  <2> QED BY <1>4, <2>1 DEF JobOK, ReadSoFar, OneDay
<1>9. CountedOK'
  <2>1. \A i \in Domestic!Job : d_jobs'[i].months = d_jobs[i].months
    BY <1>3
  <2> QED BY <1>1, <1>5, <2>1, CountsStay DEF DomesticOK
<1>10. Alone(j)
  BY <1>3, <1>4 DEF Alone
<1> QED BY <1>1, <1>3, <1>4, <1>5, <1>6, <1>7, <1>8, <1>9, <1>10, JobSteps

LEMMA DomesticBegins ==
  ASSUME DomesticConstants, Domestic!Init
  PROVE  DomesticOK
<1> USE DEF Domestic!Init
<1>1. 0 \in Domestic!Day /\ 0 \in 0..(Months * DaysPerMonth) /\ <<>> \in Seq(Domestic!Day)
  BY DayIs
<1>2. /\ Domestic!NoJob \in [tenant : Tenant \cup {NoTenant},
                            status : Domestic!Active \cup {"none", "complete", "failed"},
                            months : [Domestic!Month -> Domestic!Reported \cup {NoCount}]]
      /\ Domestic!NoJob.status = "none"
      /\ \A m \in Domestic!Month : Domestic!NoJob.months[m] = NoCount
  BY DEF Domestic!NoJob, Domestic!NoMonths
<1>3. Domestic!Cardinality({}) = 0
  BY DomesticCardinality, FS_EmptySet
<1>4. Domestic!TypeOK
  <2>1. KeptReports \in Nat
    BY DEF DomesticConstants
  <2>2. d_today \in Domestic!Day /\ d_calls \in Seq(Domestic!Day)
    BY <1>1
  <2>3. d_jobs \in [Domestic!Job -> [tenant : Tenant \cup {NoTenant},
                      status : Domestic!Active \cup {"none", "complete", "failed"},
                      months : [Domestic!Month -> Domestic!Reported \cup {NoCount}]]]
    BY <1>2
  <2>4. /\ d_kept \subseteq Domestic!Job /\ d_thread \in [Domestic!Job -> Domestic!Steps]
        /\ d_torn \in BOOLEAN
    BY DEF Domestic!Steps
  <2>7. Domestic!Cardinality(d_kept) <= KeptReports
    <3>1. Domestic!Cardinality(d_kept) = 0
      BY Zenon, <1>3
    <3> QED BY <2>1, <3>1
  <2>5. /\ d_to \in [Domestic!Job -> 0..(Months * DaysPerMonth)]
        /\ d_asof \in [Domestic!Job -> Domestic!Day] /\ d_skip \in [Domestic!Job -> Nat]
    BY <1>1
  <2>6. d_cache \in [Tenant -> [Domestic!Month -> Domestic!Remembered \cup {NoCount}]]
    BY DEF Domestic!NoMonths
  <2> QED BY <2>2, <2>3, <2>4, <2>5, <2>6, <2>7 DEF Domestic!TypeOK
<1>5. OneJob
  <2>1. 0 \in 0..MaxReports /\ \A j \in Domestic!Job : ~(j <= 0)
    BY DEF DomesticConstants, Domestic!Job
  <2> QED BY <1>2, <2>1 DEF OneJob, Domestic!Running, Domestic!Active
<1>6. \A j \in Domestic!Job : InTurn(j)
  <2>1. 0 \in 0..Months /\ \A k \in Domestic!Month : ~(k < 0)
    BY DEF DomesticConstants, Domestic!Month
  <2> QED BY <1>2, <2>1 DEF InTurn
<1>7. \A j \in Domestic!Job : ReadSoFar(j) /\ OneDay(j)
  BY DEF ReadSoFar, OneDay
<1>8. CountedOK
  BY <1>2 DEF CountedOK, Domestic!NoMonths
<1> QED BY <1>4, <1>5, <1>6, <1>7, <1>8 DEF DomesticOK

LEMMA DomesticKeeps ==
  ASSUME DomesticConstants, DomesticOK, [Domestic!Next]_(Domestic!vars)
  PROVE  DomesticOK'
<1>1. CASE Domestic!Midnight \/ Domestic!CallComesIn
  BY <1>1, ClockKeeps
<1>2. CASE \E t \in Tenant : Domestic!StartJob(t)
  BY <1>2, StartKeeps
<1>3. ASSUME NEW j \in Domestic!Job,
             \/ Domestic!Begin(j) \/ Domestic!Window(j) \/ Domestic!Now(j) \/ Domestic!Reuse(j)
             \/ Domestic!FullPage(j) \/ Domestic!LastPage(j) \/ Domestic!Complete(j)
             \/ Domestic!Fail(j)
      PROVE  DomesticOK'
  <2>1. CASE Domestic!Complete(j)
    BY <2>1, JobEnds DEF Domestic!Complete, Reading
  <2>2. CASE Domestic!Fail(j)
    BY <2>2, JobEnds DEF Domestic!Fail, Reading
  <2> QED BY <1>3, <2>1, <2>2, BeginKeeps, WindowKeeps, NowKeeps, ReuseKeeps, FullPageKeeps,
             LastPageKeeps
<1>4. CASE UNCHANGED Domestic!vars
  BY <1>4, ClockKeeps
<1> QED BY <1>1, <1>2, <1>3, <1>4 DEF Domestic!Next

(* What the reader is told follows from it. *)
LEMMA DomesticIsWhole ==
  ASSUME DomesticConstants, DomesticOK
  PROVE  Domestic!OverIsWhole
<1> DEFINE T == {j \in Domestic!Job : d_thread[j] \notin {"none", "dead"}}
<1>1. \A i, j \in T : i = j
  BY DEF DomesticOK, OneJob
<1>2. Cardinality(T) <= 1
  <2> HIDE DEF T
  <2>1. CASE T = {}
    BY <2>1, FS_EmptySet
  <2>2. CASE T # {}
    <3>1. PICK j \in T : TRUE
      BY <2>2
    <3>2. T = {j}
      BY <1>1, <3>1
    <3> QED BY <3>2, FS_Singleton
  <2> QED BY <2>1, <2>2
<1>3. Domestic!Cardinality(T) <= 1
  BY <1>2, DomesticCardinality
<1>4. ASSUME ~d_torn, NEW j \in d_kept, NEW m \in Domestic!Month, d_jobs[j].months[m] # NoCount,
             d_jobs[j].months[m].over
      PROVE  d_jobs[j].months[m].count = Domestic!AllCalls(m)
  <2>1. j \in Domestic!Job
    BY DEF DomesticOK, Domestic!TypeOK
  <2> QED BY <1>4, <2>1 DEF DomesticOK, CountedOK, Counted
<1> QED BY <1>3, <1>4 DEF Domestic!OverIsWhole

LEMMA DomesticInvariant == Domestic!Spec => []DomesticOK
<1>1. Domestic!Init => DomesticOK
  BY DomesticAssumption, DomesticBegins
<1>2. DomesticOK /\ [Domestic!Next]_(Domestic!vars) => DomesticOK'
  BY DomesticAssumption, DomesticKeeps
<1> QED BY <1>1, <1>2, PTL DEF Domestic!Spec

(* One job reads the CAD at a time, and a month that its report gives as   *)
(* over has all its calls, fresh or remembered, for any page size, number  *)
(* of reports kept and time a count is remembered.                         *)
THEOREM MonthsAreWhole == Domestic!Spec => []OverIsWhole
<1>1. DomesticOK => Domestic!OverIsWhole
  BY DomesticAssumption, DomesticIsWhole
<1> QED BY <1>1, DomesticInvariant, PTL DEF OverIsWhole

-----------------------------------------------------------------------------
(* The monthly report (CountyReport). *)

LEMMA CountyCardinality == \A S : County!Cardinality(S) = Cardinality(S)
BY Zenon DEF County!Cardinality, Cardinality

LEMMA CountyMin ==
  ASSUME NEW T \in SUBSET Nat, T # {}
  PROVE  County!Min(T) \in T /\ \A m \in T : County!Min(T) <= m
BY LeastNatural DEF County!Min

LEMMA CountyStarts ==
  ASSUME CountyConstants, County!TypeOK, NEW o \in Owner, NEW m \in ReportMonth,
         County!StartJob(o, m)
  PROVE  County!TypeOK'
<1> DEFINE K == County!Known
           j == y_started + 1
           more == K \cup {j}
           kept == County!Kept(more)
           new == [owner |-> o, month |-> m, status |-> "queued"]
           Jobs == [owner : Owner, month : ReportMonth,
                    status : County!Busy \cup {"complete", "failed"}]
<1>1. /\ y_started < MaxMonthly /\ y_started' = j
      /\ y_jobs' = [i \in kept |-> IF i = j THEN new ELSE y_jobs[i]]
      /\ y_active' = [om \in Owner \X ReportMonth |->
           IF om = <<o, m>> THEN j ELSE IF y_active[om] \in kept THEN y_active[om] ELSE NoReport]
      /\ y_thread' = [y_thread EXCEPT ![j] = "start"]
  BY DEF County!StartJob
<1>2. /\ y_started \in Nat /\ j \in 1..MaxMonthly /\ j \in Nat /\ K \subseteq 1..y_started
      /\ K \in SUBSET Nat /\ (\A k \in K : k < j) /\ MaxMonthly \in Nat
  BY <1>1 DEF County!TypeOK, CountyConstants
<1>3. IsFiniteSet(K) /\ Cardinality(K) <= KeptMonthly
  <2>1. 1 \in Int /\ y_started \in Int
    BY <1>2
  <2>2. IsFiniteSet(1..y_started)
    BY ONLY <2>1, FS_Interval
  <2> HIDE DEF K
  <2>3. IsFiniteSet(K)
    BY ONLY <2>2, <1>2, FS_Subset
  <2> QED BY <2>3, CountyCardinality DEF County!TypeOK, K
<1>4. /\ more \in SUBSET Nat /\ more # {}
      /\ kept = IF Cardinality(more) > KeptMonthly THEN more \ {County!Min(more)} ELSE more
  BY <1>2, CountyCardinality DEF County!Kept
<1>5. County!Min(more) \in more /\ \A k \in more : County!Min(more) <= k
  <2> HIDE DEF more
  <2> QED BY <1>4, CountyMin
<1>6. /\ j \in kept /\ kept \subseteq more /\ Cardinality(kept) <= KeptMonthly
  <2>1. KeptMonthly \in Nat \ {0}
    BY DEF CountyConstants
  <2>2. PICK o1 : o1 = County!Min(more)
    OBVIOUS
  <2> HIDE DEF K, j, kept
  <2>3. /\ K \in SUBSET Nat /\ IsFiniteSet(K) /\ j \in Nat /\ (\A k \in K : k < j)
        /\ KeptMonthly \in Nat \ {0} /\ Cardinality(K) <= KeptMonthly
        /\ o1 \in K \cup {j} /\ (\A k \in K \cup {j} : o1 <= k)
        /\ kept = IF Cardinality(K \cup {j}) > KeptMonthly
                    THEN (K \cup {j}) \ {o1} ELSE K \cup {j}
    BY <1>2, <1>3, <1>4, <1>5, <2>1, <2>2
  <2> QED BY ONLY <2>3, NewestStays
<1>7. County!Known' = kept
  BY <1>1 DEF County!Known
<1>8. (County!Known \subseteq 1..y_started)' /\ (y_started \in 0..MaxMonthly)'
  <2> HIDE DEF K, kept
  <2>1. \A i \in kept : i \in 1..j
    BY <1>2, <1>6
  <2> QED BY <1>1, <1>2, <1>7, <2>1
<1>9. County!Cardinality(kept) <= KeptMonthly
  BY <1>6, CountyCardinality
<1>10. ASSUME NEW i \in kept PROVE y_jobs'[i] \in Jobs
  <2>1. new \in Jobs
    BY DEF County!Busy
  <2>2. i # j => i \in K
    BY <1>6
  <2> HIDE DEF new, Jobs, kept, K
  <2> QED BY <1>1, <1>10, <2>1, <2>2 DEF County!TypeOK, K, Jobs
<1>11. y_active' \in [Owner \X ReportMonth -> kept \cup {NoReport}]
  <2> HIDE DEF kept
  <2> QED BY <1>1, <1>6
<1>12. (y_thread \in [County!Job -> {"none", "start", "login", "read", "end", "dead"}])'
  BY <1>1, <1>2 DEF County!TypeOK, County!Job
<1> HIDE DEF kept
<1> QED BY <1>7, <1>8, <1>9, <1>10, <1>11, <1>12 DEF County!TypeOK

LEMMA CountyNext ==
  ASSUME CountyConstants, County!TypeOK, [County!Next]_(County!vars)
  PROVE  County!TypeOK'
<1> DEFINE Steps == {"none", "start", "login", "read", "end", "dead"}
           Jobs == [owner : Owner, month : ReportMonth,
                    status : County!Busy \cup {"complete", "failed"}]
<1>1. ASSUME NEW o \in Owner, NEW m \in ReportMonth, County!StartJob(o, m)
      PROVE  County!TypeOK'
  BY <1>1, CountyStarts
<1>2. ASSUME NEW j \in County!Job, NEW from, NEW next \in Steps, County!Step(j, from, next)
      PROVE  (y_thread \in [County!Job -> Steps])'
  BY <1>2 DEF County!Step, County!TypeOK
<1>3. ASSUME NEW j \in County!Job, NEW s \in County!Busy \cup {"complete", "failed"},
             County!SetStatus(j, s), (y_thread \in [County!Job -> Steps])'
      PROVE  County!TypeOK'
  <2>1. /\ j \in County!Known /\ y_jobs' = [y_jobs EXCEPT ![j].status = s]
        /\ UNCHANGED <<y_started, y_active>>
    BY <1>3 DEF County!SetStatus
  <2>2. County!Known' = County!Known
    BY <2>1 DEF County!Known
  <2>3. ASSUME NEW i \in County!Known PROVE y_jobs'[i] \in Jobs
    <3>1. i # j => y_jobs'[i] = y_jobs[i]
      BY <2>1, <2>3 DEF County!Known
    <3>2. y_jobs'[j] = [y_jobs[j] EXCEPT !.status = s]
      BY <2>1 DEF County!Known
    <3>3. y_jobs[i] \in Jobs /\ y_jobs[j] \in Jobs
      BY <2>1, <2>3 DEF County!TypeOK
    <3> QED BY <1>3, <3>1, <3>2, <3>3
  <2> QED BY <1>3, <2>1, <2>2, <2>3 DEF County!TypeOK
<1>4. ASSUME NEW j \in County!Job, County!Begin(j) \/ County!Complete(j) \/ County!Fail(j)
      PROVE  County!TypeOK'
  <2>1. (y_thread \in [County!Job -> Steps])'
    BY <1>2, <1>4 DEF County!Begin, County!Complete, County!Fail
  <2>2. {"running", "complete", "failed"} \subseteq County!Busy \cup {"complete", "failed"}
    BY DEF County!Busy
  <2> QED BY <1>3, <1>4, <2>1, <2>2 DEF County!Begin, County!Complete, County!Fail
<1>5. ASSUME NEW j \in County!Job,
             County!LogIn(j) \/ County!LogInFails(j) \/ County!Orphaned(j)
      PROVE  County!TypeOK'
  <2>1. (y_thread \in [County!Job -> Steps])' /\ UNCHANGED <<y_started, y_jobs, y_active>>
    BY <1>2, <1>5 DEF County!LogIn, County!LogInFails, County!Orphaned
  <2> QED BY <2>1 DEF County!TypeOK, County!Known
<1>6. ASSUME NEW j \in County!Job, County!Finish(j) PROVE County!TypeOK'
  <2>1. (y_thread \in [County!Job -> Steps])' /\ UNCHANGED <<y_started, y_jobs>>
    BY <1>2, <1>6 DEF County!Finish
  <2>2. County!Known' = County!Known
    BY <2>1 DEF County!Known
  <2>3. y_active' \in [Owner \X ReportMonth -> County!Known \cup {NoReport}]
    BY <1>6 DEF County!Finish, County!TypeOK
  <2> QED BY <2>1, <2>2, <2>3 DEF County!TypeOK
<1>7. CASE UNCHANGED County!vars
  BY <1>7 DEF County!vars, County!TypeOK, County!Known
<1> QED BY <1>1, <1>4, <1>5, <1>6, <1>7 DEF County!Next

(* The tables of the monthly report are of their types: no more jobs are   *)
(* remembered than may be, the newest of them always, and a month is taken *)
(* by a remembered job only.                                               *)
THEOREM CountyTypes == County!Spec => []County!TypeOK
<1> USE CountyAssumption
<1>1. County!Init => County!TypeOK
  <2> SUFFICES ASSUME County!Init PROVE County!TypeOK
    OBVIOUS
  <2>1. County!Known = {} /\ County!Cardinality({}) = 0
    BY CountyCardinality, FS_EmptySet DEF County!Init, County!Known
  <2> QED BY <2>1 DEF County!Init, County!TypeOK, CountyConstants
<1>2. CountyConstants
  OBVIOUS
<1> QED BY <1>1, <1>2, CountyNext, PTL DEF County!Spec
=============================================================================
