------------------------- MODULE RadioUpload_proofs -------------------------
(***************************************************************************)
(* Proofs about RadioUpload, for any set of segments, any limits and any   *)
(* number of crashes, replays and late requests.                           *)
(***************************************************************************)
EXTENDS RadioUpload, TLAPS

(* Every file, marker, request and stored row belongs to a published       *)
(* segment; a file is gone only after the server stored the segment.       *)
FilesOK ==
  /\ audio \cup transcripts \cup done \cup late \cup accepted \subseteq published
  /\ rejected \cup parked \subseteq transcripts \cap sidelined
  /\ published \ audio \subseteq accepted
  /\ published \ transcripts \subseteq accepted
  /\ \A s \in published : transcriptDay[s] <= today

(* A pass holds queued segments only, and posts the oldest of them.        *)
PassOK ==
  /\ todo \subseteq Queued
  /\ pc \notin {"pass", "post"} => todo = {}
  /\ pc = "post" => Oldest(current)
  /\ pc = "post" /\ answer = "ok" => current \in accepted

(* What is older than s has been dealt with. *)
SettledBefore(s, settled) ==
  \A t \in published \ Skipped :
    transcriptDay[t] < transcriptDay[s] => t \in settled

(* Older segments than one in the pass are in the pass too or settled; for *)
(* a stored segment, or one a late request may still store, all are.       *)
OrderOK ==
  /\ \A s \in todo : SettledBefore(s, todo \cup accepted \cup sidelined)
  /\ \A s \in accepted \cup late : SettledBefore(s, accepted \cup sidelined)

IInv ==
  /\ TypeOK /\ FilesOK /\ PassOK /\ OrderOK
  /\ DoneMeansStored /\ OneFinalMarker /\ HeadIsQueued
-----------------------------------------------------------------------------
(* The segment being posted is queued, on disk and settled behind.         *)
LEMMA CurrentQueued ==
  ASSUME IInv, pc = "post"
  PROVE  /\ current \in Segment /\ current \in todo /\ current \in Queued
         /\ current \in published /\ SettledBefore(current, accepted \cup sidelined)
<1>1. current \in todo /\ \A t \in todo : Before(current, t)
  BY DEF IInv, PassOK, Oldest
<1>2. current \in Queued /\ current \in Segment /\ current \in published
  BY <1>1 DEF IInv, TypeOK, PassOK, FilesOK, Queued
<1>3. SettledBefore(current, accepted \cup sidelined)
  <2> SUFFICES ASSUME NEW t \in published \ Skipped,
                      transcriptDay[t] < transcriptDay[current]
               PROVE  t \in accepted \cup sidelined
    BY DEF SettledBefore
  <2>1. t \in todo \cup accepted \cup sidelined
    BY <1>1 DEF IInv, OrderOK, SettledBefore
  <2>2. t \in Segment /\ transcriptDay[t] \in Nat /\ transcriptDay[current] \in Nat
    BY <1>2 DEF IInv, TypeOK
  <2>3. t \notin todo
    BY <1>1, <2>2, ConstantsAssumption DEF Before
  <2> QED BY <2>1, <2>3
<1> QED BY <1>1, <1>2, <1>3
-----------------------------------------------------------------------------
LEMMA NextDayKeeps ==
  ASSUME IInv, NextDay
  PROVE  IInv'
<1> USE ConstantsAssumption DEF IInv, NextDay, disk, marks, stats, server
<1>1. TypeOK'
  BY DEF TypeOK, FilesOK, Phases, Sweeping, Answers, PassOK, Queued
<1>2. FilesOK'
  BY DEF TypeOK, FilesOK, PassOK, Queued, Oldest, DoneMeansStored, has_final_marker
<1>3. PassOK'
  BY DEF TypeOK, FilesOK, PassOK, Queued, Oldest, Before, has_final_marker, Sweeping
<1>4. OrderOK'
  BY DEF TypeOK, FilesOK, PassOK, OrderOK, SettledBefore, Queued, Oldest, DoneMeansStored, has_final_marker
<1>5. DoneMeansStored' /\ OneFinalMarker' /\ HeadIsQueued'
  BY DEF TypeOK, FilesOK, PassOK, DoneMeansStored, OneFinalMarker, HeadIsQueued, Queued, Oldest, has_final_marker
<1> QED
  BY <1>1, <1>2, <1>3, <1>4, <1>5

LEMMA AcceptKeeps ==
  ASSUME IInv, Accept
  PROVE  IInv'
<1> USE ConstantsAssumption DEF IInv, Accept, disk, marks, stats, server
<1>1. TypeOK'
  BY CurrentQueued  DEF TypeOK, FilesOK, Phases, Sweeping, Answers, PassOK, Queued
<1>2. FilesOK'
  BY CurrentQueued  DEF TypeOK, FilesOK, PassOK, Queued, Oldest, DoneMeansStored, has_final_marker
<1>3. PassOK'
  BY CurrentQueued  DEF TypeOK, FilesOK, PassOK, Queued, Oldest, Before, has_final_marker, Sweeping
<1>4. OrderOK'
  BY CurrentQueued  DEF TypeOK, FilesOK, PassOK, OrderOK, SettledBefore, Queued, Oldest, DoneMeansStored, has_final_marker
<1>5. DoneMeansStored' /\ OneFinalMarker' /\ HeadIsQueued'
  BY CurrentQueued  DEF TypeOK, FilesOK, PassOK, DoneMeansStored, OneFinalMarker, HeadIsQueued, Queued, Oldest, has_final_marker
<1> QED
  BY <1>1, <1>2, <1>3, <1>4, <1>5

LEMMA RefuseKeeps ==
  ASSUME IInv, Refuse
  PROVE  IInv'
<1> USE ConstantsAssumption DEF IInv, Refuse, disk, marks, stats, server
<1>1. TypeOK'
  BY CurrentQueued  DEF TypeOK, FilesOK, Phases, Sweeping, Answers, PassOK, Queued
<1>2. FilesOK'
  BY CurrentQueued  DEF TypeOK, FilesOK, PassOK, Queued, Oldest, DoneMeansStored, has_final_marker
<1>3. PassOK'
  BY CurrentQueued  DEF TypeOK, FilesOK, PassOK, Queued, Oldest, Before, has_final_marker, Sweeping
<1>4. OrderOK'
  BY CurrentQueued  DEF TypeOK, FilesOK, PassOK, OrderOK, SettledBefore, Queued, Oldest, DoneMeansStored, has_final_marker
<1>5. DoneMeansStored' /\ OneFinalMarker' /\ HeadIsQueued'
  BY CurrentQueued  DEF TypeOK, FilesOK, PassOK, DoneMeansStored, OneFinalMarker, HeadIsQueued, Queued, Oldest, has_final_marker
<1> QED
  BY <1>1, <1>2, <1>3, <1>4, <1>5

LEMMA FailKeeps ==
  ASSUME IInv, Fail
  PROVE  IInv'
<1> USE ConstantsAssumption DEF IInv, Fail, disk, marks, stats, server
<1>1. TypeOK'
  BY CurrentQueued  DEF TypeOK, FilesOK, Phases, Sweeping, Answers, PassOK, Queued
<1>2. FilesOK'
  BY CurrentQueued  DEF TypeOK, FilesOK, PassOK, Queued, Oldest, DoneMeansStored, has_final_marker
<1>3. PassOK'
  BY CurrentQueued  DEF TypeOK, FilesOK, PassOK, Queued, Oldest, Before, has_final_marker, Sweeping
<1>4. OrderOK'
  BY CurrentQueued  DEF TypeOK, FilesOK, PassOK, OrderOK, SettledBefore, Queued, Oldest, DoneMeansStored, has_final_marker
<1>5. DoneMeansStored' /\ OneFinalMarker' /\ HeadIsQueued'
  BY CurrentQueued  DEF TypeOK, FilesOK, PassOK, DoneMeansStored, OneFinalMarker, HeadIsQueued, Queued, Oldest, has_final_marker
<1> QED
  BY <1>1, <1>2, <1>3, <1>4, <1>5

LEMMA PublishKeeps ==
  ASSUME IInv, NEW s \in Segment, Publish(s)
  PROVE  IInv'
<1> USE ConstantsAssumption DEF IInv, Publish, disk, marks, stats, server
<1>1. TypeOK'
  BY DEF TypeOK, FilesOK, Phases, Sweeping, Answers, PassOK, Queued
<1>2. FilesOK'
  BY DEF TypeOK, FilesOK, PassOK, Queued, Oldest, DoneMeansStored, has_final_marker
<1>3. PassOK'
  BY DEF TypeOK, FilesOK, PassOK, Queued, Oldest, Before, has_final_marker, Sweeping
<1>4. OrderOK'
  BY DEF TypeOK, FilesOK, PassOK, OrderOK, SettledBefore, Queued, Oldest, DoneMeansStored, has_final_marker
<1>5. DoneMeansStored' /\ OneFinalMarker' /\ HeadIsQueued'
  BY DEF TypeOK, FilesOK, PassOK, DoneMeansStored, OneFinalMarker, HeadIsQueued, Queued, Oldest, has_final_marker
<1> QED
  BY <1>1, <1>2, <1>3, <1>4, <1>5

LEMMA RequeueKeeps ==
  ASSUME IInv, NEW s \in Segment, Requeue(s)
  PROVE  IInv'
<1> USE ConstantsAssumption DEF IInv, Requeue, disk, marks, stats, server
<1>1. TypeOK'
  BY DEF TypeOK, FilesOK, Phases, Sweeping, Answers, PassOK, Queued
<1>2. FilesOK'
  BY DEF TypeOK, FilesOK, PassOK, Queued, Oldest, DoneMeansStored, has_final_marker
<1>3. PassOK'
  BY DEF TypeOK, FilesOK, PassOK, Queued, Oldest, Before, has_final_marker, Sweeping
<1>4. OrderOK'
  BY DEF TypeOK, FilesOK, PassOK, OrderOK, SettledBefore, Queued, Oldest, DoneMeansStored, has_final_marker
<1>5. DoneMeansStored' /\ OneFinalMarker' /\ HeadIsQueued'
  BY DEF TypeOK, FilesOK, PassOK, DoneMeansStored, OneFinalMarker, HeadIsQueued, Queued, Oldest, has_final_marker
<1> QED
  BY <1>1, <1>2, <1>3, <1>4, <1>5

LEMMA StoreKeeps ==
  ASSUME IInv, NEW s \in Segment, Store(s)
  PROVE  IInv'
<1> USE ConstantsAssumption DEF IInv, Store, disk, marks, stats, server
<1>1. TypeOK'
  BY CurrentQueued DEF TypeOK, FilesOK, Phases, Sweeping, Answers, PassOK, Queued
<1>2. FilesOK'
  BY CurrentQueued DEF TypeOK, FilesOK, PassOK, Queued, Oldest, DoneMeansStored, has_final_marker
<1>3. PassOK'
  BY CurrentQueued DEF TypeOK, FilesOK, PassOK, Queued, Oldest, Before, has_final_marker, Sweeping
<1>4. OrderOK'
  BY CurrentQueued DEF TypeOK, FilesOK, PassOK, OrderOK, SettledBefore, Queued, Oldest, DoneMeansStored, has_final_marker
<1>5. DoneMeansStored' /\ OneFinalMarker' /\ HeadIsQueued'
  BY CurrentQueued DEF TypeOK, FilesOK, PassOK, DoneMeansStored, OneFinalMarker, HeadIsQueued, Queued, Oldest, has_final_marker
<1> QED
  BY <1>1, <1>2, <1>3, <1>4, <1>5

LEMMA EndLateKeeps ==
  ASSUME IInv, NEW s \in Segment, EndLate(s)
  PROVE  IInv'
<1> USE ConstantsAssumption DEF IInv, EndLate, disk, marks, stats, server
<1>1. TypeOK'
  BY DEF TypeOK, FilesOK, Phases, Sweeping, Answers, PassOK, Queued
<1>2. FilesOK'
  BY DEF TypeOK, FilesOK, PassOK, Queued, Oldest, DoneMeansStored, has_final_marker
<1>3. PassOK'
  BY DEF TypeOK, FilesOK, PassOK, Queued, Oldest, Before, has_final_marker, Sweeping
<1>4. OrderOK'
  BY DEF TypeOK, FilesOK, PassOK, OrderOK, SettledBefore, Queued, Oldest, DoneMeansStored, has_final_marker
<1>5. DoneMeansStored' /\ OneFinalMarker' /\ HeadIsQueued'
  BY DEF TypeOK, FilesOK, PassOK, DoneMeansStored, OneFinalMarker, HeadIsQueued, Queued, Oldest, has_final_marker
<1> QED
  BY <1>1, <1>2, <1>3, <1>4, <1>5

LEMMA StartKeeps ==
  ASSUME IInv, Start
  PROVE  IInv'
<1> USE ConstantsAssumption DEF IInv, Start, disk, marks, stats, server
<1>1. TypeOK'
  BY DEF TypeOK, FilesOK, Phases, Sweeping, Answers, PassOK, Queued
<1>2. FilesOK'
  BY DEF TypeOK, FilesOK, PassOK, Queued, Oldest, DoneMeansStored, has_final_marker
<1>3. PassOK'
  BY DEF TypeOK, FilesOK, PassOK, Queued, Oldest, Before, has_final_marker, Sweeping
<1>4. OrderOK'
  BY DEF TypeOK, FilesOK, PassOK, OrderOK, SettledBefore, Queued, Oldest, DoneMeansStored, has_final_marker
<1>5. DoneMeansStored' /\ OneFinalMarker' /\ HeadIsQueued'
  BY DEF TypeOK, FilesOK, PassOK, DoneMeansStored, OneFinalMarker, HeadIsQueued, Queued, Oldest, has_final_marker
<1> QED
  BY <1>1, <1>2, <1>3, <1>4, <1>5

LEMMA StartPassKeeps ==
  ASSUME IInv, StartPass
  PROVE  IInv'
<1> USE ConstantsAssumption DEF IInv, StartPass, disk, marks, stats, server
<1>1. TypeOK'
  BY DEF TypeOK, FilesOK, Phases, Sweeping, Answers, PassOK, Queued
<1>2. FilesOK'
  BY DEF TypeOK, FilesOK, PassOK, Queued, Oldest, DoneMeansStored, has_final_marker
<1>3. PassOK'
  BY DEF TypeOK, FilesOK, PassOK, Queued, Oldest, Before, has_final_marker, Sweeping
<1>4. OrderOK'
  BY DEF TypeOK, FilesOK, PassOK, OrderOK, SettledBefore, Queued, Oldest, DoneMeansStored, has_final_marker
<1>5. DoneMeansStored' /\ OneFinalMarker' /\ HeadIsQueued'
  BY DEF TypeOK, FilesOK, PassOK, DoneMeansStored, OneFinalMarker, HeadIsQueued, Queued, Oldest, has_final_marker
<1> QED
  BY <1>1, <1>2, <1>3, <1>4, <1>5

LEMMA EndPassKeeps ==
  ASSUME IInv, EndPass
  PROVE  IInv'
<1> USE ConstantsAssumption DEF IInv, EndPass, LeavePass, disk, marks, stats, server
<1>1. TypeOK'
  BY DEF TypeOK, FilesOK, Phases, Sweeping, Answers, PassOK, Queued
<1>2. FilesOK'
  BY DEF TypeOK, FilesOK, PassOK, Queued, Oldest, DoneMeansStored, has_final_marker
<1>3. PassOK'
  BY DEF TypeOK, FilesOK, PassOK, Queued, Oldest, Before, has_final_marker, Sweeping
<1>4. OrderOK'
  BY DEF TypeOK, FilesOK, PassOK, OrderOK, SettledBefore, Queued, Oldest, DoneMeansStored, has_final_marker
<1>5. DoneMeansStored' /\ OneFinalMarker' /\ HeadIsQueued'
  BY DEF TypeOK, FilesOK, PassOK, DoneMeansStored, OneFinalMarker, HeadIsQueued, Queued, Oldest, has_final_marker
<1> QED
  BY <1>1, <1>2, <1>3, <1>4, <1>5

LEMMA RejectLocallyKeeps ==
  ASSUME IInv, NEW s \in Segment, RejectLocally(s)
  PROVE  IInv'
<1> USE ConstantsAssumption DEF IInv, RejectLocally, WriteRejected, ClearHead, NextInPass, disk, marks, stats, server
<1>1. TypeOK'
  BY DEF TypeOK, FilesOK, Phases, Sweeping, Answers, PassOK, Queued
<1>2. FilesOK'
  BY DEF TypeOK, FilesOK, PassOK, Queued, Oldest, DoneMeansStored, has_final_marker
<1>3. PassOK'
  BY DEF TypeOK, FilesOK, PassOK, Queued, Oldest, Before, has_final_marker, Sweeping
<1>4. OrderOK'
  BY DEF TypeOK, FilesOK, PassOK, OrderOK, SettledBefore, Queued, Oldest, DoneMeansStored, has_final_marker
<1>5. DoneMeansStored' /\ OneFinalMarker' /\ HeadIsQueued'
  BY DEF TypeOK, FilesOK, PassOK, DoneMeansStored, OneFinalMarker, HeadIsQueued, Queued, Oldest, has_final_marker
<1> QED
  BY <1>1, <1>2, <1>3, <1>4, <1>5

LEMMA GiveUpLocallyKeeps ==
  ASSUME IInv, NEW s \in Segment, GiveUpLocally(s)
  PROVE  IInv'
<1> USE ConstantsAssumption DEF IInv, GiveUpLocally, LeavePass, disk, marks, stats, server
<1>1. TypeOK'
  BY DEF TypeOK, FilesOK, Phases, Sweeping, Answers, PassOK, Queued
<1>2. FilesOK'
  BY DEF TypeOK, FilesOK, PassOK, Queued, Oldest, DoneMeansStored, has_final_marker
<1>3. PassOK'
  BY DEF TypeOK, FilesOK, PassOK, Queued, Oldest, Before, has_final_marker, Sweeping
<1>4. OrderOK'
  BY DEF TypeOK, FilesOK, PassOK, OrderOK, SettledBefore, Queued, Oldest, DoneMeansStored, has_final_marker
<1>5. DoneMeansStored' /\ OneFinalMarker' /\ HeadIsQueued'
  BY DEF TypeOK, FilesOK, PassOK, DoneMeansStored, OneFinalMarker, HeadIsQueued, Queued, Oldest, has_final_marker
<1> QED
  BY <1>1, <1>2, <1>3, <1>4, <1>5

LEMMA PostKeeps ==
  ASSUME IInv, NEW s \in Segment, Post(s)
  PROVE  IInv'
<1> USE ConstantsAssumption DEF IInv, Post, disk, marks, stats, server
<1>1. TypeOK'
  BY DEF TypeOK, FilesOK, Phases, Sweeping, Answers, PassOK, Queued
<1>2. FilesOK'
  BY DEF TypeOK, FilesOK, PassOK, Queued, Oldest, DoneMeansStored, has_final_marker
<1>3. PassOK'
  BY DEF TypeOK, FilesOK, PassOK, Queued, Oldest, Before, has_final_marker, Sweeping
<1>4. OrderOK'
  BY DEF TypeOK, FilesOK, PassOK, OrderOK, SettledBefore, Queued, Oldest, DoneMeansStored, has_final_marker
<1>5. DoneMeansStored' /\ OneFinalMarker' /\ HeadIsQueued'
  BY DEF TypeOK, FilesOK, PassOK, DoneMeansStored, OneFinalMarker, HeadIsQueued, Queued, Oldest, has_final_marker
<1> QED
  BY <1>1, <1>2, <1>3, <1>4, <1>5

LEMMA ReceiveDoneKeeps ==
  ASSUME IInv, ReceiveDone
  PROVE  IInv'
<1> USE ConstantsAssumption DEF IInv, ReceiveDone, Receive, ClearHead, NextInPass, disk, marks, stats, server
<1>1. TypeOK'
  BY CurrentQueued  DEF TypeOK, FilesOK, Phases, Sweeping, Answers, PassOK, Queued
<1>2. FilesOK'
  BY CurrentQueued  DEF TypeOK, FilesOK, PassOK, Queued, Oldest, DoneMeansStored, has_final_marker
<1>3. PassOK'
  BY CurrentQueued  DEF TypeOK, FilesOK, PassOK, Queued, Oldest, Before, has_final_marker, Sweeping
<1>4. OrderOK'
  BY CurrentQueued  DEF TypeOK, FilesOK, PassOK, OrderOK, SettledBefore, Queued, Oldest, DoneMeansStored, has_final_marker
<1>5. DoneMeansStored' /\ OneFinalMarker' /\ HeadIsQueued'
  BY CurrentQueued  DEF TypeOK, FilesOK, PassOK, DoneMeansStored, OneFinalMarker, HeadIsQueued, Queued, Oldest, has_final_marker
<1> QED
  BY <1>1, <1>2, <1>3, <1>4, <1>5

LEMMA ReceiveRefusedKeeps ==
  ASSUME IInv, ReceiveRefused
  PROVE  IInv'
<1> USE ConstantsAssumption DEF IInv, ReceiveRefused, Receive, WriteRejected, ClearHead, NextInPass, disk, marks, stats, server
<1>1. TypeOK'
  BY CurrentQueued  DEF TypeOK, FilesOK, Phases, Sweeping, Answers, PassOK, Queued
<1>2. FilesOK'
  BY CurrentQueued  DEF TypeOK, FilesOK, PassOK, Queued, Oldest, DoneMeansStored, has_final_marker
<1>3. PassOK'
  BY CurrentQueued  DEF TypeOK, FilesOK, PassOK, Queued, Oldest, Before, has_final_marker, Sweeping
<1>4. OrderOK'
  BY CurrentQueued  DEF TypeOK, FilesOK, PassOK, OrderOK, SettledBefore, Queued, Oldest, DoneMeansStored, has_final_marker
<1>5. DoneMeansStored' /\ OneFinalMarker' /\ HeadIsQueued'
  BY CurrentQueued  DEF TypeOK, FilesOK, PassOK, DoneMeansStored, OneFinalMarker, HeadIsQueued, Queued, Oldest, has_final_marker
<1> QED
  BY <1>1, <1>2, <1>3, <1>4, <1>5

LEMMA ReceiveDeferredKeeps ==
  ASSUME IInv, ReceiveDeferred
  PROVE  IInv'
<1> USE ConstantsAssumption DEF IInv, ReceiveDeferred, Receive, LeavePass, disk, marks, stats, server
<1>1. TypeOK'
  BY CurrentQueued  DEF TypeOK, FilesOK, Phases, Sweeping, Answers, PassOK, Queued
<1>2. FilesOK'
  BY CurrentQueued  DEF TypeOK, FilesOK, PassOK, Queued, Oldest, DoneMeansStored, has_final_marker
<1>3. PassOK'
  BY CurrentQueued  DEF TypeOK, FilesOK, PassOK, Queued, Oldest, Before, has_final_marker, Sweeping
<1>4. OrderOK'
  BY CurrentQueued  DEF TypeOK, FilesOK, PassOK, OrderOK, SettledBefore, Queued, Oldest, DoneMeansStored, has_final_marker
<1>5. DoneMeansStored' /\ OneFinalMarker' /\ HeadIsQueued'
  BY CurrentQueued  DEF TypeOK, FilesOK, PassOK, DoneMeansStored, OneFinalMarker, HeadIsQueued, Queued, Oldest, has_final_marker
<1> QED
  BY <1>1, <1>2, <1>3, <1>4, <1>5

LEMMA ReceiveErrorKeeps ==
  ASSUME IInv, ReceiveError
  PROVE  IInv'
<1> USE ConstantsAssumption DEF IInv, ReceiveError, Receive, LeavePass, CountedAttempts, disk, marks, stats, server
<1>1. TypeOK'
  BY CurrentQueued  DEF TypeOK, FilesOK, Phases, Sweeping, Answers, PassOK, Queued
<1>2. FilesOK'
  BY CurrentQueued  DEF TypeOK, FilesOK, PassOK, Queued, Oldest, DoneMeansStored, has_final_marker
<1>3. PassOK'
  BY CurrentQueued  DEF TypeOK, FilesOK, PassOK, Queued, Oldest, Before, has_final_marker, Sweeping
<1>4. OrderOK'
  BY CurrentQueued  DEF TypeOK, FilesOK, PassOK, OrderOK, SettledBefore, Queued, Oldest, DoneMeansStored, has_final_marker
<1>5. DoneMeansStored' /\ OneFinalMarker' /\ HeadIsQueued'
  BY CurrentQueued  DEF TypeOK, FilesOK, PassOK, DoneMeansStored, OneFinalMarker, HeadIsQueued, Queued, Oldest, has_final_marker
<1> QED
  BY <1>1, <1>2, <1>3, <1>4, <1>5

LEMMA ParkHeadKeeps ==
  ASSUME IInv, ParkHead
  PROVE  IInv'
<1> USE ConstantsAssumption DEF IInv, ParkHead, Receive, NextInPass, disk, marks, stats, server
<1>1. TypeOK'
  BY CurrentQueued  DEF TypeOK, FilesOK, Phases, Sweeping, Answers, PassOK, Queued
<1>2. FilesOK'
  BY CurrentQueued  DEF TypeOK, FilesOK, PassOK, Queued, Oldest, DoneMeansStored, has_final_marker
<1>3. PassOK'
  BY CurrentQueued  DEF TypeOK, FilesOK, PassOK, Queued, Oldest, Before, has_final_marker, Sweeping
<1>4. OrderOK'
  BY CurrentQueued  DEF TypeOK, FilesOK, PassOK, OrderOK, SettledBefore, Queued, Oldest, DoneMeansStored, has_final_marker
<1>5. DoneMeansStored' /\ OneFinalMarker' /\ HeadIsQueued'
  BY CurrentQueued  DEF TypeOK, FilesOK, PassOK, DoneMeansStored, OneFinalMarker, HeadIsQueued, Queued, Oldest, has_final_marker
<1> QED
  BY <1>1, <1>2, <1>3, <1>4, <1>5

LEMMA MarkerWriteFailsKeeps ==
  ASSUME IInv, MarkerWriteFails
  PROVE  IInv'
<1> USE ConstantsAssumption DEF IInv, MarkerWriteFails, LeavePass, CountedAttempts, disk, marks, stats, server
<1>1. TypeOK'
  BY CurrentQueued  DEF TypeOK, FilesOK, Phases, Sweeping, Answers, PassOK, Queued
<1>2. FilesOK'
  BY CurrentQueued  DEF TypeOK, FilesOK, PassOK, Queued, Oldest, DoneMeansStored, has_final_marker
<1>3. PassOK'
  BY CurrentQueued  DEF TypeOK, FilesOK, PassOK, Queued, Oldest, Before, has_final_marker, Sweeping
<1>4. OrderOK'
  BY CurrentQueued  DEF TypeOK, FilesOK, PassOK, OrderOK, SettledBefore, Queued, Oldest, DoneMeansStored, has_final_marker
<1>5. DoneMeansStored' /\ OneFinalMarker' /\ HeadIsQueued'
  BY CurrentQueued  DEF TypeOK, FilesOK, PassOK, DoneMeansStored, OneFinalMarker, HeadIsQueued, Queued, Oldest, has_final_marker
<1> QED
  BY <1>1, <1>2, <1>3, <1>4, <1>5

LEMMA NetworkErrorKeeps ==
  ASSUME IInv, NetworkError
  PROVE  IInv'
<1> USE ConstantsAssumption DEF IInv, NetworkError, LeavePass, disk, marks, stats, server
<1>1. TypeOK'
  BY CurrentQueued  DEF TypeOK, FilesOK, Phases, Sweeping, Answers, PassOK, Queued
<1>2. FilesOK'
  BY CurrentQueued  DEF TypeOK, FilesOK, PassOK, Queued, Oldest, DoneMeansStored, has_final_marker
<1>3. PassOK'
  BY CurrentQueued  DEF TypeOK, FilesOK, PassOK, Queued, Oldest, Before, has_final_marker, Sweeping
<1>4. OrderOK'
  BY CurrentQueued  DEF TypeOK, FilesOK, PassOK, OrderOK, SettledBefore, Queued, Oldest, DoneMeansStored, has_final_marker
<1>5. DoneMeansStored' /\ OneFinalMarker' /\ HeadIsQueued'
  BY CurrentQueued  DEF TypeOK, FilesOK, PassOK, DoneMeansStored, OneFinalMarker, HeadIsQueued, Queued, Oldest, has_final_marker
<1> QED
  BY <1>1, <1>2, <1>3, <1>4, <1>5

LEMMA CrashKeeps ==
  ASSUME IInv, Crash
  PROVE  IInv'
<1> USE ConstantsAssumption DEF IInv, Crash, disk, marks, stats, server
<1>1. TypeOK'
  BY CurrentQueued  DEF TypeOK, FilesOK, Phases, Sweeping, Answers, PassOK, Queued
<1>2. FilesOK'
  BY CurrentQueued  DEF TypeOK, FilesOK, PassOK, Queued, Oldest, DoneMeansStored, has_final_marker
<1>3. PassOK'
  BY CurrentQueued  DEF TypeOK, FilesOK, PassOK, Queued, Oldest, Before, has_final_marker, Sweeping
<1>4. OrderOK'
  BY CurrentQueued  DEF TypeOK, FilesOK, PassOK, OrderOK, SettledBefore, Queued, Oldest, DoneMeansStored, has_final_marker
<1>5. DoneMeansStored' /\ OneFinalMarker' /\ HeadIsQueued'
  BY CurrentQueued  DEF TypeOK, FilesOK, PassOK, DoneMeansStored, OneFinalMarker, HeadIsQueued, Queued, Oldest, has_final_marker
<1> QED
  BY <1>1, <1>2, <1>3, <1>4, <1>5

LEMMA SweepAudioKeeps ==
  ASSUME IInv, NEW s \in Segment, SweepAudio(s)
  PROVE  IInv'
<1> USE ConstantsAssumption DEF IInv, SweepAudio, StaleAudio, disk, marks, stats, server
<1>1. TypeOK'
  BY DEF TypeOK, FilesOK, Phases, Sweeping, Answers, PassOK, Queued
<1>2. FilesOK'
  BY DEF TypeOK, FilesOK, PassOK, Queued, Oldest, DoneMeansStored, has_final_marker
<1>3. PassOK'
  BY DEF TypeOK, FilesOK, PassOK, Queued, Oldest, Before, has_final_marker, Sweeping
<1>4. OrderOK'
  BY DEF TypeOK, FilesOK, PassOK, OrderOK, SettledBefore, Queued, Oldest, DoneMeansStored, has_final_marker
<1>5. DoneMeansStored' /\ OneFinalMarker' /\ HeadIsQueued'
  BY DEF TypeOK, FilesOK, PassOK, DoneMeansStored, OneFinalMarker, HeadIsQueued, Queued, Oldest, has_final_marker
<1> QED
  BY <1>1, <1>2, <1>3, <1>4, <1>5

LEMMA SweepTranscriptKeeps ==
  ASSUME IInv, NEW s \in Segment, SweepTranscript(s)
  PROVE  IInv'
<1> USE ConstantsAssumption DEF IInv, SweepTranscript, StaleTranscripts, disk, marks, stats, server
<1>1. TypeOK'
  BY DEF TypeOK, FilesOK, Phases, Sweeping, Answers, PassOK, Queued
<1>2. FilesOK'
  BY DEF TypeOK, FilesOK, PassOK, Queued, Oldest, DoneMeansStored, has_final_marker
<1>3. PassOK'
  BY DEF TypeOK, FilesOK, PassOK, Queued, Oldest, Before, has_final_marker, Sweeping
<1>4. OrderOK'
  BY DEF TypeOK, FilesOK, PassOK, OrderOK, SettledBefore, Queued, Oldest, DoneMeansStored, has_final_marker
<1>5. DoneMeansStored' /\ OneFinalMarker' /\ HeadIsQueued'
  BY DEF TypeOK, FilesOK, PassOK, DoneMeansStored, OneFinalMarker, HeadIsQueued, Queued, Oldest, has_final_marker
<1> QED
  BY <1>1, <1>2, <1>3, <1>4, <1>5

LEMMA SweepMarkerKeeps ==
  ASSUME IInv, NEW s \in Segment, SweepMarker(s)
  PROVE  IInv'
<1> USE ConstantsAssumption DEF IInv, SweepMarker, StaleMarkers, disk, marks, stats, server
<1>1. TypeOK'
  BY DEF TypeOK, FilesOK, Phases, Sweeping, Answers, PassOK, Queued
<1>2. FilesOK'
  BY DEF TypeOK, FilesOK, PassOK, Queued, Oldest, DoneMeansStored, has_final_marker
<1>3. PassOK'
  BY DEF TypeOK, FilesOK, PassOK, Queued, Oldest, Before, has_final_marker, Sweeping
<1>4. OrderOK'
  BY DEF TypeOK, FilesOK, PassOK, OrderOK, SettledBefore, Queued, Oldest, DoneMeansStored, has_final_marker
<1>5. DoneMeansStored' /\ OneFinalMarker' /\ HeadIsQueued'
  BY DEF TypeOK, FilesOK, PassOK, DoneMeansStored, OneFinalMarker, HeadIsQueued, Queued, Oldest, has_final_marker
<1> QED
  BY <1>1, <1>2, <1>3, <1>4, <1>5

LEMMA SweepOnKeeps ==
  ASSUME IInv, SweepOn
  PROVE  IInv'
<1> USE ConstantsAssumption DEF IInv, SweepOn, disk, marks, stats, server
<1>1. TypeOK'
  BY DEF TypeOK, FilesOK, Phases, Sweeping, Answers, PassOK, Queued
<1>2. FilesOK'
  BY DEF TypeOK, FilesOK, PassOK, Queued, Oldest, DoneMeansStored, has_final_marker
<1>3. PassOK'
  BY DEF TypeOK, FilesOK, PassOK, Queued, Oldest, Before, has_final_marker, Sweeping
<1>4. OrderOK'
  BY DEF TypeOK, FilesOK, PassOK, OrderOK, SettledBefore, Queued, Oldest, DoneMeansStored, has_final_marker
<1>5. DoneMeansStored' /\ OneFinalMarker' /\ HeadIsQueued'
  BY DEF TypeOK, FilesOK, PassOK, DoneMeansStored, OneFinalMarker, HeadIsQueued, Queued, Oldest, has_final_marker
<1> QED
  BY <1>1, <1>2, <1>3, <1>4, <1>5

LEMMA SweepFailsKeeps ==
  ASSUME IInv, SweepFails
  PROVE  IInv'
<1> USE ConstantsAssumption DEF IInv, SweepFails, disk, marks, stats, server
<1>1. TypeOK'
  BY DEF TypeOK, FilesOK, Phases, Sweeping, Answers, PassOK, Queued
<1>2. FilesOK'
  BY DEF TypeOK, FilesOK, PassOK, Queued, Oldest, DoneMeansStored, has_final_marker
<1>3. PassOK'
  BY DEF TypeOK, FilesOK, PassOK, Queued, Oldest, Before, has_final_marker, Sweeping
<1>4. OrderOK'
  BY DEF TypeOK, FilesOK, PassOK, OrderOK, SettledBefore, Queued, Oldest, DoneMeansStored, has_final_marker
<1>5. DoneMeansStored' /\ OneFinalMarker' /\ HeadIsQueued'
  BY DEF TypeOK, FilesOK, PassOK, DoneMeansStored, OneFinalMarker, HeadIsQueued, Queued, Oldest, has_final_marker
<1> QED
  BY <1>1, <1>2, <1>3, <1>4, <1>5

-----------------------------------------------------------------------------
LEMMA InitInvariant == Init => IInv
  BY ConstantsAssumption
  DEF Init, IInv, TypeOK, FilesOK, PassOK, OrderOK, SettledBefore, Phases, Sweeping,
      Answers, DoneMeansStored, OneFinalMarker, HeadIsQueued, Queued

LEMMA StutterKeeps ==
  ASSUME IInv, UNCHANGED vars
  PROVE  IInv'
  BY DEF vars, disk, marks, stats, server, IInv, TypeOK, FilesOK, PassOK, OrderOK,
         SettledBefore, DoneMeansStored, OneFinalMarker, HeadIsQueued, Queued,
         Oldest, Before, has_final_marker

LEMMA NextKeeps == IInv /\ [Next]_vars => IInv'
<1> SUFFICES ASSUME IInv, [Next]_vars PROVE IInv'
  OBVIOUS
<1>1. CASE UNCHANGED vars
  BY <1>1, StutterKeeps
<1>2. CASE Environment
  BY <1>2, NextDayKeeps, AcceptKeeps, RefuseKeeps, FailKeeps, PublishKeeps,
     RequeueKeeps, StoreKeeps, EndLateKeeps DEF Environment
<1>3. CASE Receipt
  BY <1>3, ReceiveDoneKeeps, ReceiveRefusedKeeps, ReceiveDeferredKeeps,
     ReceiveErrorKeeps, ParkHeadKeeps DEF Receipt
<1>4. CASE Loop
  BY <1>4, StartKeeps, StartPassKeeps, EndPassKeeps, RejectLocallyKeeps,
     GiveUpLocallyKeeps, PostKeeps, MarkerWriteFailsKeeps, NetworkErrorKeeps,
     CrashKeeps, SweepAudioKeeps, SweepTranscriptKeeps, SweepMarkerKeeps,
     SweepOnKeeps, SweepFailsKeeps DEF Loop
<1> QED
  BY <1>1, <1>2, <1>3, <1>4 DEF Next

(* IInv is an inductive invariant of the uploader. *)
THEOREM Invariant == Spec => []IInv
  BY InitInvariant, NextKeeps, PTL DEF Spec

(* Every variable keeps its type. *)
THEOREM TypeCorrect == Spec => []TypeOK
<1>1. IInv => TypeOK
  BY DEF IInv
<1> QED BY <1>1, Invariant, PTL

(* No segment is lost: until the server has stored it, its recording and   *)
(* its transcript stay on the listener's disk.                             *)
THEOREM NothingLost == Spec => []NoSilentLoss
<1>1. IInv => NoSilentLoss
  BY DEF IInv, FilesOK, NoSilentLoss
<1> QED BY <1>1, Invariant, PTL

(* A .done marker is a receipt for a stored segment. *)
THEOREM MarkersAreReceipts == Spec => []DoneMeansStored
<1>1. IInv => DoneMeansStored
  BY DEF IInv
<1> QED BY <1>1, Invariant, PTL

(* No segment ever has two final markers. *)
THEOREM MarkersExclusive == Spec => []OneFinalMarker
<1>1. IInv => OneFinalMarker
  BY DEF IInv
<1> QED BY <1>1, Invariant, PTL

(* The head counter belongs to a waiting segment. *)
THEOREM HeadWaits == Spec => []HeadIsQueued
<1>1. IInv => HeadIsQueued
  BY DEF IInv
<1> QED BY <1>1, Invariant, PTL

(* Segments reach the server in the order of their transcripts, except     *)
(* past one that was set aside, for any interleaving of late requests.     *)
THEOREM UploadOrder == Spec => []OrderKept
<1>1. IInv => OrderKept
  BY DEF IInv, OrderOK, SettledBefore, OrderKept
<1> QED BY <1>1, Invariant, PTL

-----------------------------------------------------------------------------
(* Refinement: every step is a step of SegmentDelivery or leaves it alone. *)

LEMMA NothingMoves ==
  ASSUME UNCHANGED <<published, transcripts, done, rejected, parked, accepted>>
  PROVE  UNCHANGED Delivery!vars
  BY DEF Delivery!vars, Status, StatusOf

LEMMA OneMoves ==
  ASSUME NEW s \in Segment, NEW from, NEW to,
         StatusOf(s) = from, StatusOf(s)' = to,
         \A t \in Segment \ {s} : StatusOf(t)' = StatusOf(t),
         UNCHANGED accepted
  PROVE  Delivery!Move(s, from, to)
<1>1. Status[s] = from
  BY DEF Status
<1>2. Status' = [Status EXCEPT ![s] = to]
  BY DEF Status
<1> QED BY <1>1, <1>2 DEF Delivery!Move

LEMMA InitRefines == Init => Delivery!Init
  BY DEF Init, Delivery!Init, Status, StatusOf

LEMMA NextRefines ==
  ASSUME IInv, [Next]_vars
  PROVE  [Delivery!Next]_Delivery!vars
<1> USE DEF disk, marks, stats, server
<1>1. CASE UNCHANGED vars
  BY <1>1, NothingMoves DEF vars
<1>2. CASE Environment
  <2>1. CASE NextDay \/ Accept \/ Refuse \/ Fail
    BY <2>1, NothingMoves DEF NextDay, Accept, Refuse, Fail
  <2>2. ASSUME NEW s \in Segment, Store(s) PROVE Delivery!Next
    <3>1. s \in published
      BY <2>2, CurrentQueued DEF Store, IInv, FilesOK
    <3>2. Delivery!Store(s)
      BY <2>2, <3>1 DEF Store, Delivery!Store, Status, StatusOf
    <3> QED BY <3>2 DEF Delivery!Next
  <2>3. ASSUME NEW s \in Segment, Publish(s) PROVE Delivery!Next
    <3>1. Delivery!Move(s, "absent", "waiting")
      BY <2>3, OneMoves DEF Publish, IInv, FilesOK, StatusOf
    <3> QED BY <3>1 DEF Delivery!Next, Delivery!Publish
  <2>4. ASSUME NEW s \in Segment, Requeue(s) PROVE Delivery!Next
    <3>1. Delivery!Move(s, "set_aside", "waiting")
      BY <2>4, OneMoves DEF Requeue, IInv, FilesOK, OneFinalMarker, StatusOf
    <3> QED BY <3>1 DEF Delivery!Next, Delivery!Requeue
  <2>5. ASSUME NEW s \in Segment, EndLate(s) PROVE UNCHANGED Delivery!vars
    BY <2>5, NothingMoves DEF EndLate
  <2> QED BY <1>2, <2>1, <2>2, <2>3, <2>4, <2>5 DEF Environment
<1>3. ASSUME NEW s \in Segment, WriteRejected(s), s \in Queued PROVE Delivery!Next
  <2>1. Delivery!Move(s, "waiting", "set_aside")
    BY <1>3, OneMoves DEF WriteRejected, IInv, FilesOK, Queued, has_final_marker, StatusOf
  <2> QED BY <2>1 DEF Delivery!Next, Delivery!SetAside
<1>4. CASE Receipt
  <2>1. pc = "post"
    BY <1>4 DEF Receipt, ReceiveDone, ReceiveRefused, ReceiveDeferred,
                ReceiveError, ParkHead, Receive
  <2>2. current \in Segment /\ current \in Queued /\ current \in published
    BY <2>1, CurrentQueued
  <2>3. CASE ReceiveDeferred \/ ReceiveError
    BY <2>3, NothingMoves DEF ReceiveDeferred, ReceiveError
  <2>4. CASE ReceiveRefused
    BY <2>4, <2>2, <1>3 DEF ReceiveRefused
  <2>5. CASE ReceiveDone
    <3>1. Delivery!Move(current, "waiting", "delivered")
      BY <2>2, <2>5, OneMoves
      DEF ReceiveDone, IInv, FilesOK, Queued, has_final_marker, StatusOf
    <3>2. current \in accepted
      BY <2>5 DEF ReceiveDone, Receive, IInv, PassOK
    <3> QED BY <2>2, <3>1, <3>2 DEF Delivery!Next, Delivery!Deliver
  <2>6. CASE ParkHead
    <3>1. Delivery!Move(current, "waiting", "set_aside")
      BY <2>2, <2>6, OneMoves
      DEF ParkHead, IInv, FilesOK, Queued, has_final_marker, StatusOf
    <3> QED BY <2>2, <3>1 DEF Delivery!Next, Delivery!SetAside
  <2> QED BY <1>4, <2>3, <2>4, <2>5, <2>6 DEF Receipt
<1>5. CASE Loop
  <2>1. CASE Start \/ StartPass \/ EndPass \/ MarkerWriteFails \/ NetworkError
             \/ Crash \/ SweepOn \/ SweepFails
    BY <2>1, NothingMoves DEF Start, StartPass, EndPass, MarkerWriteFails,
       NetworkError, Crash, SweepOn, SweepFails
  <2>2. ASSUME NEW s \in Segment, GiveUpLocally(s) \/ Post(s) \/ SweepAudio(s)
        PROVE  UNCHANGED Delivery!vars
    BY <2>2, NothingMoves DEF GiveUpLocally, Post, SweepAudio
  <2>3. ASSUME NEW s \in Segment, RejectLocally(s) PROVE Delivery!Next
    BY <2>3, <1>3 DEF RejectLocally, Oldest, IInv, PassOK
  <2>4. ASSUME NEW s \in Segment, SweepTranscript(s) \/ SweepMarker(s)
        PROVE  UNCHANGED Delivery!vars
    <3>1. \A t \in Segment : StatusOf(t)' = StatusOf(t)
      BY <2>4 DEF SweepTranscript, SweepMarker, StaleTranscripts, StaleMarkers, StatusOf
    <3> QED BY <2>4, <3>1 DEF SweepTranscript, SweepMarker, Delivery!vars, Status
  <2> QED BY <1>5, <2>1, <2>2, <2>3, <2>4 DEF Loop
<1> QED BY <1>1, <1>2, <1>4, <1>5 DEF Next

(* The uploader, its disk and the requests it abandons implement the       *)
(* delivery promise of SegmentDelivery.                                    *)
THEOREM Refinement == Spec => ImplementsDelivery
<1>1. Init => Delivery!Init
  BY InitRefines
<1>2. IInv /\ [Next]_vars => [Delivery!Next]_Delivery!vars
  BY NextRefines
<1> QED BY <1>1, <1>2, Invariant, PTL DEF Spec, ImplementsDelivery, Delivery!Spec
=============================================================================
