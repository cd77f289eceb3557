----------------------------- MODULE WorkerParts -----------------------------
(***************************************************************************)
(* Workers that share nothing, side by side: each an instance of its       *)
(* module, with constants and variables of its own.                        *)
(***************************************************************************)
EXTENDS Naturals

(* The transcriber of the radio listener (RadioTranscribe). *)
CONSTANTS Job, NoJob

VARIABLES
  t_handed, t_pending, t_processing, t_failed, t_written, t_pc, t_todo, t_job

Scribe == INSTANCE RadioTranscribe WITH
  handed <- t_handed, pending <- t_pending, processing <- t_processing,
  failed <- t_failed, written <- t_written, pc <- t_pc, todo <- t_todo,
  job <- t_job

(* A name that stands for no job. *)
ASSUME JobAssumption == NoJob \notin Job

(* What the transcriber promises is told in RadioTranscribe: a job is      *)
(* neither lost nor transcribed twice.                                     *)
ImplementsJobs == Scribe!ImplementsJobs

-----------------------------------------------------------------------------
(* The indexer of a knowledge library (KnowledgeIndex). *)
CONSTANTS Doc, Content, Broken, Lossy, Batches, MaxChanges, None

VARIABLES
  i_files, i_rows, i_status, i_pc, i_present, i_todo, i_doc, i_draft,
  i_failures, i_changes, i_torn, i_touched

Index == INSTANCE KnowledgeIndex WITH
  Gone <- None, NoRow <- None, NoDoc <- None,
  files <- i_files, rows <- i_rows, status <- i_status, pc <- i_pc,
  present <- i_present, todo <- i_todo, doc <- i_doc, draft <- i_draft,
  failures <- i_failures, changes <- i_changes, torn <- i_torn,
  touched <- i_touched

(* A document has a batch at least; what is none is nothing else. *)
ASSUME IndexAssumption ==
  /\ Batches \in Nat \ {0} /\ MaxChanges \in Nat
  /\ None \notin Doc \cup Content \cup Index!Row

(* What the indexer promises is told in KnowledgeIndex: a library called   *)
(* complete is up to date.                                                 *)
CompleteIsCurrent == Index!CompleteIsCurrent
=============================================================================
