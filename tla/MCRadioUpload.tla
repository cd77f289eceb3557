---------------------------- MODULE MCRadioUpload ----------------------------
(***************************************************************************)
(* The uploader twice, in one run: with two good segments and all that may *)
(* happen to their files, for what it must never do; and with a malformed  *)
(* segment and no clock, for what it must do in the end.  "part" says      *)
(* which of the two moves, from the first state on, and the other stays as *)
(* it begins.                                                              *)
(***************************************************************************)
EXTENDS RadioUpload

VARIABLES
  part,
  l_today, l_published, l_audio, l_transcripts, l_audioDay,
  l_transcriptDay, l_done, l_rejected, l_parked, l_doneDay, l_pc, l_todo,
  l_current, l_head, l_attempts, l_answer, l_late, l_accepted, l_sidelined

(* Both segments may wait at once; the second one is malformed. *)
Live == INSTANCE RadioUpload WITH
  Malformed <- {2}, AudioDays <- 0, TranscriptDays <- 0, MaxDay <- 0,
  MaxAttempts <- 2,
  today <- l_today, published <- l_published, audio <- l_audio,
  transcripts <- l_transcripts, audioDay <- l_audioDay, transcriptDay <-
  l_transcriptDay, done <- l_done, rejected <- l_rejected, parked <-
  l_parked, doneDay <- l_doneDay, pc <- l_pc, todo <- l_todo, current <-
  l_current, head <- l_head, attempts <- l_attempts, answer <- l_answer,
  late <- l_late, accepted <- l_accepted, sidelined <- l_sidelined

live == <<
  l_today, l_published, l_audio, l_transcripts, l_audioDay,
  l_transcriptDay, l_done, l_rejected, l_parked, l_doneDay, l_pc, l_todo,
  l_current, l_head, l_attempts, l_answer, l_late, l_accepted, l_sidelined>>

UploadInit == part \in {"safe", "live"} /\ Init /\ Live!Init

Draining(A) == part = "live" /\ A

UploadNext ==
  \/ part = "safe" /\ Next /\ UNCHANGED <<part, live>>
  \/ Draining(Live!Next) /\ UNCHANGED <<part, vars>>

(* The fairness of RadioUpload for the part "live".  The malformed segment *)
(* is never posted and the other never rejected: the strong fairness of    *)
(* actions that are never enabled is left out.                             *)
UploadSpec ==
  /\ UploadInit /\ [][UploadNext]_<<part, vars, live>>
  /\ WF_live(Draining(Live!LoopStep)) /\ WF_live(Draining(Live!Receipt))
  /\ SF_live(Draining(Live!RejectLocally(2)))
  /\ SF_live(Draining(Live!Post(1)))
  /\ SF_live(Draining(Live!Answered(1)))
  /\ SF_live(Draining(Live!Received(1)))
-----------------------------------------------------------------------------
(* Every segment leaves the queue, as told in RadioUpload: of the part     *)
(* that moves, since the other has no fairness here.                       *)
QueueIsDrained == part = "live" => Live!QueueDrains
=============================================================================
