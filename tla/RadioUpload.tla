---------------------------- MODULE RadioUpload ----------------------------
(***************************************************************************)
(* The uploader of the radio listener (radio_listener/uploader.py): one    *)
(* process that drains the transcript queue on the listener's disk into    *)
(* the dashboard's ingest endpoint, oldest transcript first, and cleans    *)
(* the disk up behind itself.                                              *)
(*                                                                         *)
(* What survives a crash is the disk: the audio and transcript files and   *)
(* the marker files uploaded/<id>.{done,rejected,parked}.  What does not   *)
(* is the process's memory: the pass under way, the open request and the   *)
(* head-of-queue counter.  The server is the part of it a client can       *)
(* observe: the set of segments it has ever stored, and the answer to the  *)
(* open request.  A request the client gave up on may still be executed.   *)
(* RadioIngest opens the server up.                                        *)
(***************************************************************************)
EXTENDS Naturals, FiniteSets

CONSTANTS
  Segment,          \* segment ids, numbered in the order of their names
  NoSegment,        \* "no segment": None in the source
  Skipped,          \* ids with one of skip_segment_prefixes
  Malformed,        \* ids whose transcript or audio breaks the contract
  ParkLimit,        \* park_after_server_errors; 0 never parks
  AudioDays,        \* local_retention_days.audio
  TranscriptDays,   \* local_retention_days.transcripts
  MaxDay,           \* bound: the last day the clock reaches
  MaxAttempts       \* bound: 5xx answers in a row the server gives one head

ASSUME ConstantsAssumption ==
  /\ Segment \subseteq Nat
  /\ NoSegment \notin Segment
  /\ Skipped \subseteq Segment
  /\ Malformed \subseteq Segment
  /\ ParkLimit \in Nat
  /\ AudioDays \in Nat
  /\ TranscriptDays \in Nat
  /\ MaxDay \in Nat
  /\ MaxAttempts \in Nat

VARIABLES
  today,        \* the clock, in days
  published,    \* segments the transcriber has ever finished
  audio,        \* segments whose wav file is on disk
  transcripts,  \* segments whose transcript file is on disk
  audioDay,     \* mtime of the wav files
  transcriptDay,\* mtime of the transcript files
  done, rejected, parked,  \* the marker files
  doneDay,      \* mtime of the .done markers
  pc,           \* where the uploader is: see Phases
  todo,         \* the rest of the queue snapshot this pass works through
  current,      \* the segment being posted
  head,         \* UploaderStats.head_segment_id
  attempts,     \* UploaderStats.head_attempts
  answer,       \* the server's answer to the open request
  late,         \* abandoned requests the server may still execute
  accepted,     \* segments the server has ever stored
  sidelined     \* history: segments that ever got .rejected or .parked

disk   == <<published, audio, transcripts, audioDay, transcriptDay>>
marks  == <<done, rejected, parked, doneDay, sidelined>>
stats  == <<head, attempts>>
server == <<late, accepted>>
vars   == <<today, disk, marks, pc, todo, current, stats, answer, server>>

Sweeping == {"sweep_audio", "sweep_transcripts", "sweep_markers"}
Phases  == {"down", "idle", "pass", "post"} \cup Sweeping
Answers == {"none", "ok", "refused", "deferred", "error"}

TypeOK ==
  /\ today \in Nat
  /\ published \subseteq Segment
  /\ audio \subseteq Segment
  /\ transcripts \subseteq Segment
  /\ audioDay \in [Segment -> Nat]
  /\ transcriptDay \in [Segment -> Nat]
  /\ done \subseteq Segment
  /\ rejected \subseteq Segment
  /\ parked \subseteq Segment
  /\ doneDay \in [Segment -> Nat]
  /\ pc \in Phases
  /\ todo \subseteq Segment
  /\ current \in Segment \cup {NoSegment}
  /\ head \in Segment \cup {NoSegment}
  /\ attempts \in Nat
  /\ answer \in Answers
  /\ late \subseteq Segment
  /\ accepted \subseteq Segment
  /\ sidelined \subseteq Segment

Init ==
  /\ today = 0
  /\ published = {} /\ audio = {} /\ transcripts = {}
  /\ audioDay = [s \in Segment |-> 0]
  /\ transcriptDay = [s \in Segment |-> 0]
  /\ done = {} /\ rejected = {} /\ parked = {}
  /\ doneDay = [s \in Segment |-> 0]
  /\ pc = "down" /\ todo = {} /\ current = NoSegment
  /\ head = NoSegment /\ attempts = 0
  /\ answer = "none" /\ late = {} /\ accepted = {}
  /\ sidelined = {}

-----------------------------------------------------------------------------
(* The queue. *)

FinalMarkerBut(s) == s \in done \cup rejected     \* fault: forgets .parked

has_final_marker(s) == s \in done \cup rejected \cup parked

(* queued_transcripts: every transcript without a final marker. *)
Queued == {s \in transcripts \ Skipped : ~has_final_marker(s)}

(* The pass visits its snapshot in (mtime, name) order. *)
Before(s, t) ==
  \/ transcriptDay[s] < transcriptDay[t]
  \/ transcriptDay[s] = transcriptDay[t] /\ s <= t

Oldest(s) == s \in todo /\ \A t \in todo : Before(s, t)

(* What process_segment can check by itself before it posts. *)
Uploadable(s) == s \notin Malformed /\ s \in audio

ClearHeadByOne(s) == head' = head /\ attempts' = attempts - 1  \* fault: counts down

(* clear_head: forget the counter if it belongs to s. *)
ClearHead(s) ==
  /\ head' = IF head = s THEN NoSegment ELSE head
  /\ attempts' = IF head = s THEN 0 ELSE attempts

CountedFresh(s) == 1                       \* fault: every pass starts over

(* A 5xx for s: another segment's count starts over. *)
CountedAttempts(s) == IF head = s THEN attempts + 1 ELSE 1

-----------------------------------------------------------------------------
(* The world around the uploader. *)

(* run_retention reads the clock once, so no day passes inside a run. *)
NextDay ==
  /\ today < MaxDay
  /\ pc \notin Sweeping
  /\ today' = today + 1
  /\ UNCHANGED <<disk, marks, pc, todo, current, stats, answer, server>>

(* transcribe.py publishes a transcript beside the recording it was made   *)
(* from, which may be older.                                               *)
Publish(s) ==
  /\ s \notin published
  /\ published' = published \cup {s}
  /\ audio' = audio \cup {s}
  /\ transcripts' = transcripts \cup {s}
  /\ \E d \in 0..today : audioDay' = [audioDay EXCEPT ![s] = d]
  /\ transcriptDay' = [transcriptDay EXCEPT ![s] = today]
  /\ UNCHANGED <<today, marks, pc, todo, current, stats, answer, server>>

(* The documented way to replay a segment: an operator deletes its marker. *)
Requeue(s) ==
  /\ s \in rejected \cup parked
  /\ rejected' = rejected \ {s}
  /\ parked' = parked \ {s}
  /\ UNCHANGED <<today, disk, done, doneDay, sidelined, pc, todo, current,
                 stats, answer, server>>

(* The server executes a request, the open one or one whose client no      *)
(* longer waits: the segment is stored.                                    *)
Store(s) ==
  /\ s \in late \/ (pc = "post" /\ answer = "none" /\ s = current)
  /\ accepted' = accepted \cup {s}
  /\ UNCHANGED <<today, disk, marks, pc, todo, current, stats, answer, late>>

(* An abandoned request ends, executed or lost. *)
EndLate(s) ==
  /\ s \in late
  /\ late' = late \ {s}
  /\ UNCHANGED <<today, disk, marks, pc, todo, current, stats, answer, accepted>>

(* The open request is answered: the segment is stored (201, or 200 for    *)
(* one the server already had), ...                                        *)
Accept ==
  /\ pc = "post" /\ answer = "none"
  /\ current \in accepted
  /\ answer' = "ok"
  /\ UNCHANGED <<today, disk, marks, pc, todo, current, stats, server>>

(* ... refused for good (400, 413) or for now (401, 429, 404, ...), ...    *)
Refuse ==
  /\ pc = "post" /\ answer = "none"
  /\ answer' \in {"refused", "deferred"}
  /\ UNCHANGED <<today, disk, marks, pc, todo, current, stats, server>>

(* ... or failed (5xx), stored or not: a gateway in between answers 502 or *)
(* 504 whatever the server went on to do.                                  *)
Fail ==
  /\ pc = "post" /\ answer = "none"
  /\ CountedAttempts(current) <= MaxAttempts
  /\ answer' = "error"
  /\ late' \in {late, late \cup {current}}
  /\ UNCHANGED <<today, disk, marks, pc, todo, current, stats, accepted>>
-----------------------------------------------------------------------------
(* The uploader. *)

Start ==
  /\ pc = "down"
  /\ pc' = "idle"
  /\ UNCHANGED <<today, disk, marks, todo, current, stats, answer, server>>

(* process_queue takes one snapshot of the queue per pass. *)
StartPass ==
  /\ pc = "idle"
  /\ pc' = "pass"
  /\ todo' = Queued
  /\ UNCHANGED <<today, disk, marks, current, stats, answer, server>>

(* After a pass the main loop runs retention when an hour has gone by.     *)
LeavePass ==
  /\ pc' \in {"idle", "sweep_audio"}
  /\ todo' = {}
  /\ current' = NoSegment
  /\ answer' = "none"

EndPass ==
  /\ pc = "pass" /\ todo = {}
  /\ LeavePass
  /\ UNCHANGED <<today, disk, marks, stats, server>>

(* The segment left the queue: the pass goes on with the next one.         *)
NextInPass(s) ==
  /\ pc' = "pass"
  /\ todo' = todo \ {s}
  /\ current' = NoSegment
  /\ answer' = "none"

WriteRejected(s) ==
  /\ rejected' = rejected \cup {s}
  /\ sidelined' = sidelined \cup {s}
  /\ ClearHead(s)
  /\ NextInPass(s)
  /\ UNCHANGED <<today, disk, done, parked, doneDay, server>>

(* LocalReject: the contract check, or the wav file is missing. *)
RejectLocally(s) ==
  /\ pc = "pass" /\ Oldest(s)
  /\ ~Uploadable(s)
  /\ WriteRejected(s)

(* Signing fails, or reading a file or writing the marker raises: the      *)
(* segment stays queued and the pass stops.                                *)
GiveUpLocally(s) ==
  /\ pc = "pass" /\ Oldest(s)
  /\ LeavePass
  /\ UNCHANGED <<today, disk, marks, stats, server>>

Post(s) ==
  /\ pc = "pass" /\ Oldest(s)
  /\ Uploadable(s)
  /\ pc' = "post"
  /\ current' = s
  /\ answer' = "none"
  /\ UNCHANGED <<today, disk, marks, todo, stats, server>>

Receive(a) == pc = "post" /\ answer = a

ReceiveDone ==
  /\ Receive("ok")
  /\ done' = done \cup {current}
  /\ doneDay' = [doneDay EXCEPT ![current] = today]
  /\ ClearHead(current)
  /\ NextInPass(current)
  /\ UNCHANGED <<today, disk, rejected, parked, sidelined, server>>

ReceiveRefused == Receive("refused") /\ WriteRejected(current)

(* fault: the pass goes on past a segment that has to wait *)
DeferAndGoOn ==
  /\ Receive("deferred")
  /\ NextInPass(current)
  /\ UNCHANGED <<today, disk, marks, stats, server>>

(* 401, 404, 409, 429, ...: stop the pass, leave the counter alone. *)
ReceiveDeferred ==
  /\ Receive("deferred")
  /\ LeavePass
  /\ UNCHANGED <<today, disk, marks, stats, server>>

(* A 5xx below the limit stops the pass too. *)
ReceiveError ==
  /\ Receive("error")
  /\ head' = current
  /\ attempts' = CountedAttempts(current)
  /\ ParkLimit = 0 \/ attempts' < ParkLimit
  /\ LeavePass
  /\ UNCHANGED <<today, disk, marks, server>>

(* At the limit the segment is parked and the pass goes on. *)
ParkHead ==
  /\ Receive("error")
  /\ ParkLimit # 0 /\ CountedAttempts(current) >= ParkLimit
  /\ parked' = parked \cup {current}
  /\ sidelined' = sidelined \cup {current}
  /\ head' = NoSegment /\ attempts' = 0
  /\ NextInPass(current)
  /\ UNCHANGED <<today, disk, done, rejected, doneDay, server>>

(* Writing the marker the answer calls for raises: process_queue catches   *)
(* it, and a 5xx is counted already.                                       *)
MarkerWriteFails ==
  /\ pc = "post" /\ answer \in {"ok", "refused", "error"}
  /\ IF answer = "error"
       THEN /\ ParkLimit # 0 /\ CountedAttempts(current) >= ParkLimit
            /\ head' = current
            /\ attempts' = CountedAttempts(current)
       ELSE UNCHANGED stats
  /\ LeavePass
  /\ UNCHANGED <<today, disk, marks, server>>

(* Network error: the request never arrived, is still on its way, or only  *)
(* its answer is lost.                                                     *)
NetworkError ==
  /\ pc = "post"
  /\ late' \in IF answer = "none" THEN {late, late \cup {current}} ELSE {late}
  /\ LeavePass
  /\ UNCHANGED <<today, disk, marks, stats, accepted>>

(* The process or the host dies; a request it had open lives on. *)
Crash ==
  /\ pc # "down"
  /\ pc' = "down"
  /\ todo' = {} /\ current' = NoSegment
  /\ head' = NoSegment /\ attempts' = 0
  /\ answer' = "none"
  /\ late' \in IF pc = "post" /\ answer = "none"
                 THEN {late, late \cup {current}} ELSE {late}
  /\ UNCHANGED <<today, disk, marks, accepted>>
-----------------------------------------------------------------------------
(* run_retention: wav files first, then transcripts, then .done markers,   *)
(* one file at a time, against one reading of the clock.                   *)

OlderThan(day, days) == day + days < today

(* faults: retention that reads the wrong marker, or none *)
StaleAudioSetAside ==
  {s \in audio \cap (done \cup parked) : OlderThan(audioDay[s], AudioDays)}
StaleTranscriptsSetAside ==
  {s \in transcripts : has_final_marker(s) /\ OlderThan(transcriptDay[s], TranscriptDays)}

StaleAudio == {s \in audio \cap done : OlderThan(audioDay[s], AudioDays)}

StaleTranscripts ==
  {s \in transcripts \cap done : OlderThan(transcriptDay[s], TranscriptDays)}

(* The marker outlives its transcript, or the segment would be re-uploaded. *)
StaleMarkers ==
  {s \in done \ transcripts : OlderThan(doneDay[s], TranscriptDays)}

SweepAudio(s) ==
  /\ pc = "sweep_audio" /\ s \in StaleAudio
  /\ audio' = audio \ {s}
  /\ UNCHANGED <<today, published, transcripts, audioDay, transcriptDay,
                 marks, pc, todo, current, stats, answer, server>>

SweepTranscript(s) ==
  /\ pc = "sweep_transcripts" /\ s \in StaleTranscripts
  /\ transcripts' = transcripts \ {s}
  /\ UNCHANGED <<today, published, audio, audioDay, transcriptDay,
                 marks, pc, todo, current, stats, answer, server>>

SweepMarker(s) ==
  /\ pc = "sweep_markers" /\ s \in StaleMarkers
  /\ done' = done \ {s}
  /\ UNCHANGED <<today, disk, rejected, parked, doneDay, sidelined, pc, todo,
                 current, stats, answer, server>>

SweepOn ==
  /\ \/ pc = "sweep_audio" /\ StaleAudio = {} /\ pc' = "sweep_transcripts"
     \/ pc = "sweep_transcripts" /\ StaleTranscripts = {} /\ pc' = "sweep_markers"
     \/ pc = "sweep_markers" /\ StaleMarkers = {} /\ pc' = "idle"
  /\ UNCHANGED <<today, disk, marks, todo, current, stats, answer, server>>

(* A failing unlink abandons the run until the next hour. *)
SweepFails ==
  /\ pc \in Sweeping
  /\ pc' = "idle"
  /\ UNCHANGED <<today, disk, marks, todo, current, stats, answer, server>>
-----------------------------------------------------------------------------
Receipt ==
  \/ ReceiveDone \/ ReceiveRefused \/ ReceiveDeferred
  \/ ReceiveError \/ ParkHead

Loop ==
  \/ Start \/ StartPass \/ EndPass
  \/ MarkerWriteFails \/ NetworkError \/ Crash \/ SweepOn \/ SweepFails
  \/ \E s \in Segment :
       \/ RejectLocally(s) \/ GiveUpLocally(s) \/ Post(s)
       \/ SweepAudio(s) \/ SweepTranscript(s) \/ SweepMarker(s)

Environment ==
  \/ NextDay \/ Accept \/ Refuse \/ Fail
  \/ \E s \in Segment : Publish(s) \/ Requeue(s) \/ Store(s) \/ EndLate(s)

Next == Loop \/ Receipt \/ Environment

Spec == Init /\ [][Next]_vars

(***************************************************************************)
(* Fairness.  The uploader is a loop that never blocks for good (a post    *)
(* has a time-out), so its own steps are not put off for ever.  Of the     *)
(* disk, the network and the server only this is assumed: what is tried    *)
(* over and over succeeds at last, where "success" of a post is any answer *)
(* about the segment itself, 5xx included, that gets through.              *)
(***************************************************************************)
LoopStep ==
  \/ Start \/ StartPass \/ EndPass \/ SweepOn
  \/ \E s \in Segment : SweepAudio(s) \/ SweepTranscript(s) \/ SweepMarker(s)

Answered(s) ==
  /\ current = s
  /\ Accept \/ Fail \/ (Refuse /\ answer' = "refused")

Received(s) ==
  /\ current = s
  /\ ReceiveDone \/ ReceiveRefused \/ ReceiveError \/ ParkHead

Fairness ==
  /\ WF_vars(LoopStep) /\ WF_vars(Receipt)
  /\ \A s \in Segment :
       /\ SF_vars(RejectLocally(s)) /\ SF_vars(Post(s))
       /\ SF_vars(Answered(s)) /\ SF_vars(Received(s))

FairSpec == Spec /\ Fairness
-----------------------------------------------------------------------------
(* Safety. *)

(* No segment is lost: once the transcriber has published it, either the   *)
(* server has stored it or its recording and transcript are both still on  *)
(* the listener, whatever crashed, timed out or was swept in between.      *)
NoSilentLoss ==
  \A s \in published : s \in accepted \/ s \in audio \cap transcripts

(* A .done marker is a receipt: it is written only for a segment the       *)
(* server has stored.                                                      *)
DoneMeansStored == done \subseteq accepted

(* A segment has at most one final marker, so deleting .rejected or        *)
(* .parked, as the runbook says, does put it back in the queue.            *)
OneFinalMarker ==
  done \cap rejected = {} /\ done \cap parked = {} /\ rejected \cap parked = {}

(* The upload keeps the recording order: a segment reaches the server      *)
(* before an older one only if the older one was rejected or parked on the *)
(* way, even when abandoned requests are executed late.                    *)
OrderKept ==
  \A s \in accepted, t \in published \ Skipped :
    transcriptDay[t] < transcriptDay[s] => t \in accepted \cup sidelined

(* The head-of-queue counter the heartbeat reports belongs to a segment    *)
(* that is still waiting: every way out of the queue clears it.            *)
HeadIsQueued == head # NoSegment => head \in Queued

(* Every segment leaves the queue: one the server cannot take is parked    *)
(* instead of blocking everything behind it, once crashes and replays of   *)
(* set-aside segments have stopped for long enough.                        *)
Quiet == <>[][~Crash /\ \A s \in Segment : ~Requeue(s)]_vars

QueueDrains ==
  Quiet => \A s \in Segment \ Skipped : s \in Queued ~> s \notin Queued

(* The uploader implements the listener's promise. *)
StatusOf(s) ==
  IF s \notin published THEN "absent"
  ELSE IF s \in done \/ s \notin transcripts THEN "delivered"
  ELSE IF s \in rejected \cup parked THEN "set_aside"
  ELSE "waiting"

Status == [s \in Segment |-> StatusOf(s)]

Delivery == INSTANCE SegmentDelivery WITH status <- Status, stored <- accepted

(* A published segment waits, is set aside or is delivered; it is          *)
(* delivered only when the server has it and never handled again after     *)
(* that, markers and files being cleaned away notwithstanding.             *)
ImplementsDelivery == Delivery!Spec
=============================================================================
