--------------------------- MODULE KnowledgeIndex ---------------------------
(***************************************************************************)
(* The indexer of one knowledge library (scripts/index_knowledge.py and    *)
(* the worker that runs it every hour).  A pass lists the files, and takes *)
(* one document after the other: a file whose hash is the stored one only  *)
(* gets the embeddings it still lacks, any other is read and stored anew.  *)
(* Files change meanwhile: another container copies them from a drive.     *)
(*                                                                         *)
(* A document is stored in one transaction, up to its first batch of       *)
(* embeddings, each of which is committed.  What a document says is its    *)
(* contents; a hash identifies them.  A file that cannot be opened fails;  *)
(* a page whose text cannot be extracted does not: it is stored as an      *)
(* empty page, which gives no chunks.                                      *)
(***************************************************************************)
EXTENDS Naturals

CONSTANTS
  Doc,         \* file names, numbered in the order of the listing
  Content,     \* what a file may contain
  Broken,      \* contents that cannot be opened
  Lossy,       \* contents of which pages have no text or cannot be extracted
  Batches,     \* batches of chunks in any other document, at least one
  MaxChanges,  \* bound: how often a file changes
  Gone,        \* no such file
  NoRow, NoDoc

VARIABLES
  files,    \* the library's directory
  rows,     \* its documents in the database
  status,   \* library_index_state
  pc,       \* where the worker is
  present,  \* the documents its listing found
  todo,     \* those it has yet to look at
  doc,      \* the one it is at
  draft,    \* the row of that document as its transaction sees it
  failures, \* did a document fail in this pass?
  changes,  \* how often a file has changed
  torn,     \* history: documents that changed between their hash and text
  touched   \* history: documents that changed since the pass began

stored == <<rows, status>>
memory == <<pc, present, todo, doc, draft, failures>>
world  == <<files, changes, torn, touched>>
vars   == <<stored, memory, world>>

Row == [hash : Content, text : Content \cup {Gone}, chunks : 0..Batches,
        vectors : 0..Batches]

TypeOK ==
  /\ files \in [Doc -> Content \cup {Gone}]
  /\ rows \in [Doc -> Row \cup {NoRow}]
  /\ \A d \in Doc : rows[d] # NoRow => rows[d].text \in Content \ Broken
  /\ status \in {"never_run", "running", "complete", "partial"}
  /\ pc \in {"sleep", "pass", "extract", "embed", "failed"}
  /\ todo \subseteq present /\ present \subseteq Doc
  /\ doc \in Doc \cup {NoDoc} /\ (doc = NoDoc) = (pc \in {"sleep", "pass"})
  /\ draft \in Row \cup {NoRow}
  /\ failures \in BOOLEAN /\ changes \in 0..MaxChanges
  /\ torn \subseteq Doc /\ touched \subseteq Doc

Init ==
  /\ files \in [Doc -> Content \cup {Gone}]
  /\ rows = [d \in Doc |-> NoRow]
  /\ status = "never_run"
  /\ pc = "sleep" /\ present = {} /\ todo = {} /\ doc = NoDoc
  /\ draft = NoRow /\ failures = FALSE
  /\ changes = 0 /\ torn = {} /\ touched = {}
-----------------------------------------------------------------------------
(* Someone, or the copy from the drive, writes or removes a file. *)
Change(d) ==
  /\ changes < MaxChanges
  /\ \E c \in (Content \cup {Gone}) \ {files[d]} : files' = [files EXCEPT ![d] = c]
  /\ changes' = changes + 1
  /\ torn' = IF pc = "extract" /\ doc = d THEN torn \cup {d} ELSE torn
  /\ touched' = touched \cup {d}
  /\ UNCHANGED <<stored, memory>>

StartPass ==
  /\ pc = "sleep"
  /\ pc' = "pass"
  /\ present' = {d \in Doc : files[d] # Gone} /\ todo' = present'
  /\ failures' = FALSE
  /\ status' = "running"
  /\ touched' = {}
  /\ UNCHANGED <<rows, doc, draft, files, changes, torn>>

First(d) == d \in todo /\ \A e \in todo : d <= e

KnownFile(d) == rows[d] # NoRow           \* fault: by name, not by hash
SameFile(d)  == rows[d] # NoRow /\ rows[d].hash = files[d]

(* The file is hashed, and either known or to be read. *)
Look(d) ==
  /\ pc = "pass" /\ First(d)
  /\ todo' = todo \ {d} /\ doc' = d
  /\ IF files[d] = Gone
     THEN pc' = "failed" /\ UNCHANGED draft
     ELSE IF SameFile(d)
     THEN pc' = "embed" /\ draft' = rows[d]
     ELSE /\ pc' = "extract"
          /\ draft' = [hash |-> files[d], text |-> Gone, chunks |-> 0,
                        vectors |-> 0]
  /\ UNCHANGED <<stored, present, failures, world>>

(* How many batches of chunks its pages give. *)
Yield(c) == IF c \in Lossy THEN 0..(Batches - 1) ELSE {Batches}

(* Its pages are read and cut into chunks, which take the place of the old *)
(* ones: not yet committed.                                                *)
Extract ==
  /\ pc = "extract" /\ files[doc] \notin Broken \cup {Gone}
  /\ pc' = "embed"
  /\ \E n \in Yield(files[doc]) :
       draft' = [draft EXCEPT !.text = files[doc], !.chunks = n]
  /\ UNCHANGED <<stored, present, todo, doc, failures, world>>

ExtractFails ==
  /\ pc = "extract" /\ files[doc] \in Broken \cup {Gone}
  /\ pc' = "failed"
  /\ UNCHANGED <<stored, present, todo, doc, draft, failures, world>>

(* A batch without embedding gets one. *)
Embed ==
  /\ pc = "embed" /\ draft.vectors < draft.chunks
  /\ draft' = [draft EXCEPT !.vectors = @ + 1]
  /\ rows' = [rows EXCEPT ![doc] = draft']
  /\ UNCHANGED <<status, pc, present, todo, doc, failures, world>>

NextDoc == pc' = "pass" /\ doc' = NoDoc /\ draft' = NoRow

Committed == rows' = [rows EXCEPT ![doc] = draft]

DocDone ==
  /\ pc = "embed" /\ draft.vectors = draft.chunks
  /\ NextDoc /\ Committed
  /\ UNCHANGED <<status, present, todo, failures, world>>

(* The embedding service fails: its other batches wait for another pass. *)
EmbedFails ==
  /\ pc = "embed" /\ draft.vectors < draft.chunks
  /\ NextDoc /\ Committed
  /\ UNCHANGED <<status, present, todo, failures, world>>

DocFailed ==
  /\ pc = "failed"
  /\ NextDoc
  /\ failures' = TRUE
  /\ UNCHANGED <<stored, present, todo, world>>

EveryRow    == rows                  \* fault: what is gone stays
OnlyPresent == [d \in Doc |-> IF d \in present THEN rows[d] ELSE NoRow]

Finish ==
  /\ pc = "pass" /\ todo = {}
  /\ pc' = "sleep" /\ present' = {}
  /\ rows' = OnlyPresent
  /\ status' = IF failures THEN "partial" ELSE "complete"
  /\ UNCHANGED <<todo, doc, draft, failures, world>>

(* The database fails or the worker dies: the transaction is rolled back,  *)
(* and the next pass is the worker's next attempt.                         *)
Breaks ==
  /\ pc # "sleep"
  /\ pc' = "sleep" /\ present' = {} /\ todo' = {} /\ doc' = NoDoc
  /\ draft' = NoRow /\ failures' = FALSE
  /\ UNCHANGED <<stored, world>>

Work ==
  \/ StartPass \/ Extract \/ ExtractFails \/ Embed \/ DocDone \/ EmbedFails
  \/ DocFailed \/ Finish
  \/ \E d \in Doc : Look(d)

Next == Work \/ Breaks \/ \E d \in Doc : Change(d)

Spec == Init /\ [][Next]_vars

(* The worker's loop runs a pass an hour whatever became of the last. *)
FairSpec == Spec /\ WF_vars(Work)
-----------------------------------------------------------------------------
(* Of a row and a version of its file: the text is of that version, and    *)
(* all of it unless pages of it are lost.                                  *)
Holds(r, c) == r.text = c /\ r.chunks \in Yield(c)

(* What the database holds of a document is what its file says. *)
AsFile(d) ==
  IF files[d] = Gone THEN rows[d] = NoRow
  ELSE /\ rows[d] # NoRow /\ rows[d].hash = files[d]
       /\ d \in torn \/ Holds(rows[d], files[d])

(* A library called complete is current: whatever came and went while a    *)
(* pass was under way, could not be opened, or was left behind by a pass   *)
(* that died, what has not changed since is stored from the version its    *)
(* file has, and nothing is stored of a file that is gone.  It does not    *)
(* mean that every page is there: those of Lossy are not, and nobody is    *)
(* told.                                                                   *)
CompleteIsCurrent == status = "complete" => \A d \in Doc \ touched : AsFile(d)

(* Of a file that cannot be opened an older version may be there. *)
UpToDate(d) == files[d] \in Broken \/ AsFile(d)

Embedded(d) == rows[d] # NoRow => rows[d].vectors = rows[d].chunks

Calm    == <>[][~Breaks /\ \A d \in Doc : ~Change(d)]_vars
Embeds  == <>[][~EmbedFails]_vars

(* Once files rest and the worker lives, the library catches up with them: *)
(* every document is stored as its file says, those gone are dropped, and  *)
(* neither a file that cannot be opened nor an embedding service that is   *)
(* down keeps the others waiting.  When the service answers again every    *)
(* chunk gets its embedding, also of documents stored without.             *)
IndexCatchesUp ==
  /\ Calm => <>[](\A d \in Doc : UpToDate(d))
  /\ Calm /\ Embeds => <>[](\A d \in Doc : files[d] \notin Broken => Embedded(d))
=============================================================================
