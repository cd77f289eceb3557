------------------------------ MODULE MCWorkers ------------------------------
(***************************************************************************)
(* Three workers that share nothing, each of which must get its work done  *)
(* at last although it is restarted: the collector of completed calls, the *)
(* transcriber of the radio listener and the indexer of a knowledge        *)
(* library.  "part" says which of them moves, from the first state on, and *)
(* the others stay as they begin.                                          *)
(***************************************************************************)
EXTENDS AnalyticsSync, WorkerParts

VARIABLE part

transcriber ==
  <<t_handed, t_pending, t_processing, t_failed, t_written, t_pc, t_todo, t_job>>
indexer ==
  <<i_files, i_rows, i_status, i_pc, i_present, i_todo, i_doc, i_draft,
    i_failures, i_changes, i_torn, i_touched>>

WorkersInit ==
  /\ part \in {"collect", "transcribe", "index"}
  /\ Init /\ Scribe!Init /\ Index!Init
  /\ part = "index" \/ \A d \in Doc : i_files[d] = None

Collecting(A)   == part = "collect" /\ A
Transcribing(A) == part = "transcribe" /\ A
Indexing(A)     == part = "index" /\ A

WorkersNext ==
  \/ Collecting(Next) /\ UNCHANGED <<part, transcriber, indexer>>
  \/ Transcribing(Scribe!Next) /\ UNCHANGED <<part, vars, indexer>>
  \/ Indexing(Index!Next) /\ UNCHANGED <<part, vars, transcriber>>

(* The fairness of AnalyticsSync, RadioTranscribe and KnowledgeIndex, each *)
(* for the part that moves.                                                *)
WorkersSpec ==
  /\ WorkersInit /\ [][WorkersNext]_<<part, vars, transcriber, indexer>>
  /\ WF_vars(Collecting(Worker))
  /\ \A c \in Call : WF_vars(Collecting(Appear(c)))
  /\ WF_transcriber(Transcribing(Scribe!WriteTranscript \/ Scribe!Handling))
  /\ WF_indexer(Indexing(Index!Work))
-----------------------------------------------------------------------------
AllTypesOK == TypeOK /\ Scribe!TypeOK /\ Index!TypeOK

(* A job of the transcriber, neither lost nor transcribed twice, as        *)
(* ImplementsJobs says, is transcribed or set aside at last.               *)
JobsSettle == part = "transcribe" => Scribe!JobsSettle

(* What the indexer promises is told in KnowledgeIndex: the library        *)
(* catches up with its files once they rest, although some cannot be read  *)
(* and the embedding service fails.                                        *)
IndexCatchesUp == part = "index" => Index!IndexCatchesUp
=============================================================================
