-------------------------- MODULE RadioTranscribe --------------------------
(***************************************************************************)
(* The transcriber of the radio listener (radio_listener/transcribe.py):   *)
(* one process that moves job files from queue/pending to queue/processing,*)
(* writes a transcript or a failure record, and deletes the job file.      *)
(*                                                                         *)
(* The directories are the state that survives: a claim is a rename, a     *)
(* record appears by a rename, and the process may die, or one of its file *)
(* operations fail, between any two of them.  What systemd restarts begins *)
(* by putting claimed jobs back.  Jobs are numbered in the order of their  *)
(* file names.                                                             *)
(***************************************************************************)
EXTENDS Naturals

CONSTANTS
  Job,     \* numbers of the jobs capture hands over
  NoJob

VARIABLES
  handed,      \* jobs capture has published
  pending,     \* queue/pending
  processing,  \* queue/processing
  failed,      \* queue/failed
  written,     \* how often the transcript of a job was written
  pc,          \* where the worker is: see Phases
  todo,        \* the rest of the listing it works through
  job          \* the job it has claimed

queue  == <<pending, processing>>
memory == <<pc, todo, job>>
vars   == <<handed, queue, failed, written, memory>>

Phases == {"down", "recover", "idle", "pass", "read", "model", "clean", "failing", "drop"}

Transcribed == {j \in Job : written[j] > 0}   \* the files in transcripts/

TypeOK ==
  /\ handed \subseteq Job
  /\ pending \subseteq handed /\ processing \subseteq handed
  /\ pending \cap processing = {}
  /\ failed \subseteq handed
  /\ written \in [Job -> Nat]
  /\ pc \in Phases
  /\ todo \subseteq pending
  /\ job \in handed \cup {NoJob}
  /\ (job = NoJob) = (pc \in {"down", "recover", "idle", "pass"})

Init ==
  /\ handed = {} /\ pending = {} /\ processing = {} /\ failed = {}
  /\ written = [j \in Job |-> 0]
  /\ pc = "down" /\ todo = {} /\ job = NoJob

-----------------------------------------------------------------------------
(* capture.py renames a finished job file into queue/pending. *)
HandOver(j) ==
  /\ j \notin handed
  /\ handed' = handed \cup {j}
  /\ pending' = pending \cup {j}
  /\ UNCHANGED <<processing, failed, written, memory>>

Start ==
  /\ pc = "down"
  /\ pc' = "recover"
  /\ UNCHANGED <<handed, queue, failed, written, todo, job>>

Unclaimed(j) == pending' = pending   \* fault: a claimed job is not put back
BackInQueue(j) == pending' = pending \cup {j}

(* A claim of the process that died goes back to the queue. *)
Recover(j) ==
  /\ pc = "recover"
  /\ j \in processing \ pending
  /\ processing' = processing \ {j}
  /\ BackInQueue(j)
  /\ UNCHANGED <<handed, failed, written, memory>>

ReadyAtOnce == pc = "recover"     \* fault: does not wait for the claims
Recovered == pc = "recover" /\ processing \subseteq pending

Ready ==
  /\ Recovered
  /\ pc' = "idle"
  /\ UNCHANGED <<handed, queue, failed, written, todo, job>>

(* One listing of the queue is worked off before the next is taken. *)
StartPass ==
  /\ pc = "idle" /\ pending # {}
  /\ pc' = "pass"
  /\ todo' = pending
  /\ UNCHANGED <<handed, queue, failed, written, job>>

EndPass ==
  /\ pc = "pass" /\ todo = {}
  /\ pc' = "idle"
  /\ UNCHANGED <<handed, queue, failed, written, todo, job>>

First(j) == j \in todo /\ \A k \in todo : j <= k

Take(j, phase) ==
  /\ pc = "pass" /\ First(j)
  /\ pc' = phase
  /\ job' = j
  /\ todo' = todo \ {j}
  /\ UNCHANGED <<handed, failed, written>>

Claim(j) ==
  /\ Take(j, "read")
  /\ pending' = pending \ {j}
  /\ processing' = processing \cup {j}

(* The rename fails; so does the attempt, and the job file stays pending. *)
ClaimFails(j) == Take(j, "failing") /\ UNCHANGED queue

Go(phase) == pc' = phase /\ UNCHANGED <<todo, job>>

AlwaysAnew == TRUE    \* fault: does not look for a transcript
NoTranscript == job \notin Transcribed

(* Its transcript may have been published by a process that died before it *)
(* could delete the claim.                                                 *)
Read ==
  /\ pc = "read"
  /\ IF NoTranscript THEN Go("model") ELSE Go("clean")
  /\ UNCHANGED <<handed, queue, failed, written>>

WriteTranscript ==
  /\ pc = "model"
  /\ Go("clean")
  /\ written' = [written EXCEPT ![job] = @ + 1]
  /\ UNCHANGED <<handed, queue, failed>>

(* Whatever is raised, by the job's contents, the model or the disk. *)
AttemptFails ==
  /\ pc \in {"read", "model", "clean"}
  /\ Go("failing")
  /\ UNCHANGED <<handed, queue, failed, written>>

WriteFailure ==
  /\ pc = "failing"
  /\ Go("drop")
  /\ failed' = failed \cup {job}
  /\ UNCHANGED <<handed, queue, written>>

(* After the transcript, or after the failure record. *)
Unlink ==
  /\ pc \in {"clean", "drop"}
  /\ pc' = "pass" /\ job' = NoJob
  /\ processing' = processing \ {job}
  /\ UNCHANGED <<handed, pending, failed, written, todo>>

(* The process dies: killed, stopped, or by an error raised while it       *)
(* handles an error, which nothing catches.                                *)
Crash ==
  /\ pc # "down"
  /\ pc' = "down" /\ todo' = {} /\ job' = NoJob
  /\ UNCHANGED <<handed, queue, failed, written>>

Handling ==
  \/ Start \/ Ready \/ StartPass \/ EndPass
  \/ Read \/ WriteFailure \/ Unlink
  \/ \E j \in Job : Recover(j) \/ Claim(j)

Mishap == AttemptFails \/ Crash \/ \E j \in Job : ClaimFails(j)

Next == WriteTranscript \/ Handling \/ Mishap \/ \E j \in Job : HandOver(j)

Spec == Init /\ [][Next]_vars

(* The loop never blocks for good, and systemd restarts it (Restart=       *)
(* on-failure).                                                            *)
Fairness == WF_vars(WriteTranscript \/ Handling)

FairSpec == Spec /\ Fairness
-----------------------------------------------------------------------------
StatusOf(j) ==
  CASE written[j] = 1 -> "transcribed"
    [] written[j] = 0 /\ j \in failed -> "failed"
    [] written[j] = 0 /\ j \in (pending \cup processing) \ failed -> "queued"
    [] OTHER -> IF j \in handed THEN "lost or rewritten" ELSE "absent"

Status == [j \in Job |-> StatusOf(j)]

Jobs == INSTANCE TranscriptionJobs WITH status <- Status

(* A job capture has published is never lost: through crashes, failing     *)
(* renames and restarts it stays in a queue directory until its transcript *)
(* or its failure record is on disk.  A transcript is written once: the    *)
(* uploader may be sending it, and the server keeps the first version.     *)
ImplementsJobs == Jobs!Spec

(* Every job gets a transcript or a failure record, once the process stops *)
(* dying.                                                                  *)
Quiet == <>[][~Crash]_vars

JobsSettle ==
  Quiet => \A j \in Job : j \in handed ~> j \in Transcribed \cup failed
=============================================================================
