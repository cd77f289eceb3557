--------------------------- MODULE KnowledgeUpload ---------------------------
(***************************************************************************)
(* The admins' document library (knowledge_upload_service.py): PDFs put in *)
(* and removed from a bucket, one prefix and one data source of the        *)
(* knowledge base per destination, and a sync that asks for one ingestion  *)
(* job per source.  What the assistant cites is what the last job of a     *)
(* source read from its prefix.                                            *)
(*                                                                         *)
(* The upload endpoint is a coroutine that never yields between looking    *)
(* for the name and the put, so uploads of one process do not interleave;  *)
(* removals, syncs and requests for the status run in threads of their own *)
(* and do.  Any error of the look counts as a free name.  Jobs are stopped *)
(* from outside: the program never does it.                                *)
(***************************************************************************)
EXTENDS Naturals, FiniteSetsExt

CONSTANTS
  Name,        \* names of documents
  Admin,       \* requests that remove or sync
  NoDoc,
  MaxUploads,  \* bound: documents put
  MaxSyncs     \* bound: syncs asked for

VARIABLES
  bucket,   \* what lies under each destination and name: the number of an upload
  index,    \* the uploads the knowledge base serves from each source
  job,      \* the newest job of each source: [status, covers]
  pc,       \* each admin: "idle", <<"delete", d, n>>, or a sync that has come
            \* to source 1 or 2: <<"sync", source, started, seen>>
  uploads,  \* history: documents put so far
  syncs,    \* history: syncs asked for
  due,      \* history: the uploads that lay in the bucket when a sync that
            \* then started every source began
  reading   \* a request for the status: what it found of either source, and
            \* (history) what was due when it began; the last one is kept
            \* when its answer was COMPLETE

vars == <<bucket, index, job, pc, uploads, syncs, due, reading>>

Source  == 1..2   \* the data sources, in the order of the setting
Upload  == 1..MaxUploads
Running == {"STARTING", "IN_PROGRESS"}
Statuses == Running \cup {"STOPPING", "FAILED", "STOPPED", "COMPLETE"}
Found    == Statuses \cup {"NEVER_RUN"}

In(d) == {bucket[d][n] : n \in Name} \ {NoDoc}
Stored == UNION {In(d) : d \in Source}
Job(status, covers) == [status |-> status, covers |-> covers]
Busy(d) == job[d].status \in Running \cup {"STOPPING"}
NoRequest == [first |-> "none", second |-> "none", due |-> {}]

TypeOK ==
  /\ bucket \in [Source -> [Name -> Upload \cup {NoDoc}]]
  /\ index \in [Source -> SUBSET Upload]
  /\ job \in [Source -> [status : Found, covers : SUBSET Upload]]
  /\ \A a \in Admin :
       pc[a] \in {<<"idle">>} \cup ({"delete"} \X Source \X Name)
                 \cup ({"sync"} \X Source \X (0..2) \X SUBSET Upload)
  /\ uploads \in 0..MaxUploads /\ syncs \in 0..MaxSyncs
  /\ due \subseteq Upload
  /\ reading \in [first : Found \cup {"none"}, second : Found \cup {"none"},
                  due : SUBSET Upload]

Init ==
  /\ bucket = [d \in Source |-> [n \in Name |-> NoDoc]]
  /\ index = [d \in Source |-> {}]
  /\ job = [d \in Source |-> Job("NEVER_RUN", {})]
  /\ pc = [a \in Admin |-> <<"idle">>]
  /\ uploads = 0 /\ syncs = 0 /\ due = {}
  /\ reading = NoRequest

-----------------------------------------------------------------------------
(* upload_document: the name is free, or the look for it fails. *)
UploadDocument(d, n, lookFails) ==
  /\ uploads < MaxUploads
  /\ bucket[d][n] = NoDoc \/ lookFails
  /\ uploads' = uploads + 1
  /\ bucket' = [bucket EXCEPT ![d][n] = uploads']
  /\ UNCHANGED <<index, job, pc, syncs, due, reading>>

(* remove_document looks first; what it then deletes is whatever lies there. *)
FindDocument(a, d, n) ==
  /\ pc[a] = <<"idle">> /\ bucket[d][n] # NoDoc
  /\ pc' = [pc EXCEPT ![a] = <<"delete", d, n>>]
  /\ UNCHANGED <<bucket, index, job, uploads, syncs, due, reading>>

DeleteDocument(a, d, n) ==
  /\ pc[a] = <<"delete", d, n>>
  /\ pc' = [pc EXCEPT ![a] = <<"idle">>]
  /\ bucket' = [bucket EXCEPT ![d][n] = NoDoc]
  /\ UNCHANGED <<index, job, uploads, syncs, due, reading>>

-----------------------------------------------------------------------------
(* start_ingestion: source after source. *)
StartSync(a) ==
  /\ pc[a] = <<"idle">> /\ syncs < MaxSyncs
  /\ syncs' = syncs + 1
  /\ pc' = [pc EXCEPT ![a] = <<"sync", 1, 0, Stored>>]
  /\ UNCHANGED <<bucket, index, job, uploads, due, reading>>

SyncAt(a, d) == pc[a][1] = "sync" /\ pc[a][2] = d

(* Go on to the next source, or answer. *)
Proceed(a, d, started) ==
  /\ pc' = [pc EXCEPT ![a] = IF d = 2 THEN <<"idle">> ELSE <<"sync", 2, started, pc[a][4]>>]
  /\ due' = IF d = 2 /\ started = 2 THEN due \cup pc[a][4] ELSE due

StartJob(a, d) ==
  /\ SyncAt(a, d) /\ ~Busy(d)
  /\ job' = [job EXCEPT ![d] = Job("STARTING", {})]
  /\ Proceed(a, d, pc[a][3] + 1)
  /\ UNCHANGED <<bucket, index, uploads, syncs, reading>>

(* A source that is being synced is passed over. *)
SourceBusy(a, d) ==
  /\ SyncAt(a, d) /\ Busy(d)
  /\ Proceed(a, d, pc[a][3])
  /\ UNCHANGED <<bucket, index, job, uploads, syncs, reading>>

(* Any other error ends the request; a job already started goes on. *)
StartFails(a, d) ==
  /\ SyncAt(a, d)
  /\ pc' = [pc EXCEPT ![a] = <<"idle">>]
  /\ UNCHANGED <<bucket, index, job, uploads, syncs, due, reading>>

-----------------------------------------------------------------------------
Turn(d, from, status, covers) ==
  /\ job[d].status \in from
  /\ job' = [job EXCEPT ![d] = Job(status, covers)]
  /\ UNCHANGED <<bucket, pc, uploads, syncs, due, reading>>

(* The knowledge base: a job reads the prefix when it gets to run, and     *)
(* replaces what is served from it when it is through.                     *)
JobReads(d) == Turn(d, {"STARTING"}, "IN_PROGRESS", In(d)) /\ UNCHANGED index

JobDone(d) ==
  /\ Turn(d, {"IN_PROGRESS"}, "COMPLETE", {})
  /\ index' = [index EXCEPT ![d] = job[d].covers]

JobStopping(d) == Turn(d, Running, "STOPPING", {}) /\ UNCHANGED index
JobStopped(d)  == Turn(d, {"STOPPING"}, "STOPPED", {}) /\ UNCHANGED index
JobFails(d)    == Turn(d, Running \cup {"STOPPING"}, "FAILED", {}) /\ UNCHANGED index

-----------------------------------------------------------------------------
DoneFirst == <<"COMPLETE", "IN_PROGRESS", "STARTING", "FAILED", "STOPPED">>  \* fault
Precedence == <<"IN_PROGRESS", "STARTING", "FAILED", "STOPPED", "COMPLETE">>

(* Of the newest job of each source that has one; what is not among those  *)
(* above counts only when nothing else is there.                           *)
Overall(one, two) ==
  LET found == {one, two} \ {"NEVER_RUN"}
      first == {i \in DOMAIN Precedence : Precedence[i] \in found}
  IN  IF found = {} THEN "NEVER_RUN"
      ELSE IF first # {} THEN Precedence[Min(first)]
      ELSE IF one = "NEVER_RUN" THEN two ELSE one

(* ingestion_status asks for one source after the other.  Its answers      *)
(* depend on nothing else, so one request at a time will do, from when     *)
(* something is due; one that fails is replaced by the next.               *)
AskFirst ==
  /\ due # {}
  /\ reading' = [first |-> job[1].status, second |-> "none", due |-> due]
  /\ UNCHANGED <<bucket, index, job, pc, uploads, syncs, due>>

IngestionStatus ==
  /\ reading.first # "none" /\ reading.second = "none"
  /\ reading' = IF Overall(reading.first, job[2].status) = "COMPLETE"
                THEN [reading EXCEPT !.second = job[2].status]
                ELSE NoRequest
  /\ UNCHANGED <<bucket, index, job, pc, uploads, syncs, due>>

Next ==
  \/ \E d \in Source, n \in Name :
       \/ \E lookFails \in BOOLEAN : UploadDocument(d, n, lookFails)
       \/ \E a \in Admin : FindDocument(a, d, n) \/ DeleteDocument(a, d, n)
  \/ \E a \in Admin : StartSync(a)
  \/ \E a \in Admin, d \in Source : StartJob(a, d) \/ SourceBusy(a, d) \/ StartFails(a, d)
  \/ \E d \in Source :
       JobReads(d) \/ JobDone(d) \/ JobStopping(d) \/ JobStopped(d) \/ JobFails(d)
  \/ AskFirst \/ IngestionStatus

Spec == Init /\ [][Next]_vars
-----------------------------------------------------------------------------
Served == index[1] \cup index[2]
SaidComplete == reading.second # "none"
Stopping == "STOPPING" \in {reading.first, reading.second}

(* When the status is answered COMPLETE, the assistant serves, from then   *)
(* on, every document that lay in the library when a sync that started     *)
(* both sources began, and lies there still: whatever else was started,    *)
(* failed, found a source busy, or was put and removed meanwhile, and      *)
(* although the sources are asked one after the other.                     *)
(* An answer over a job that is being stopped is not counted: STOPPING is  *)
(* not in the precedence, so with [STOPPING, COMPLETE] the code answers    *)
(* COMPLETE, though "a half-synced pair must not read as done".            *)
DoneMeansServed ==
  SaidComplete /\ ~Stopping => reading.due \cap Stored \subseteq Served
=============================================================================
