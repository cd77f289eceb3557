----------------------------- MODULE RadioIngest -----------------------------
(***************************************************************************)
(* Radio segments on the server (app/services/radio_service.py): the       *)
(* ingest of an upload, the human corrections of its transcript, the       *)
(* keyword alerts, and the three clocks that delete things again.          *)
(*                                                                         *)
(* A segment lives in two stores that share no transaction: its wav in S3  *)
(* (one object per prefix, deleted by the bucket's lifecycle rules) and    *)
(* its row in PostgreSQL.  Handlers run concurrently and may die at any    *)
(* point.  A statement of the service is a step here; the rows a           *)
(* transaction has changed and not committed are invisible to the others   *)
(* and locked.                                                             *)
(***************************************************************************)
EXTENDS Integers, Sequences

CONSTANTS
  Segment, Worker, Editor,
  Text,          \* texts a person may write
  MachineText,   \* the transcriber's text, fixes applied
  NoText, NoDay, NoRow, NoSegment,
  Watched,       \* texts the enabled watch term matches
  AudioDays,     \* AUDIO_RETENTION_DAYS and the lifecycle rule of radio/audio/
  RowDays,       \* TRANSCRIPT_RETENTION_DAYS
  KeepDays,      \* CORRECTED_RETENTION_DAYS and the rule of radio/corrected/
  MaxDay,        \* bound: the last day
  MaxEdits       \* bound: corrections and reverts of one segment

Day == Nat \cup {NoDay}

Row == [received : Nat, key : {"original", "corrected"},
        text : Text \cup {NoText}, retain : Day]

ASSUME ConstantsAssumption ==
  /\ AudioDays \in Nat \ {0} /\ RowDays \in Nat /\ KeepDays \in Nat
  /\ AudioDays <= RowDays /\ RowDays <= KeepDays
  /\ MaxDay \in Nat /\ MaxEdits \in Nat
  /\ NoDay \notin Nat /\ NoText \notin Text /\ MachineText # NoText
  /\ NoSegment \notin Segment /\ NoRow \notin Row

VARIABLES
  today,
  original,   \* day of the object under radio/audio/, NoDay if there is none
  copied,     \* day of the object under radio/corrected/
  row,        \* lcdash_radio.segments, committed
  history,    \* lcdash_radio.corrections of a row, oldest first
  alert,      \* the watch term's alert on a row
  wpc, wseg,  \* the ingest handlers
  epc, eseg, etext, snap, copy, prev,  \* the correction handlers
  acked,      \* history: segments whose row an upload was told is stored
  evaluated,  \* history: rows whose machine text was checked for alerts
  lastEdit,   \* history: day of the last committed correction
  keptOn      \* history: day a correction last moved the audio

s3      == <<original, copied>>
db      == <<row, history, alert>>
ingests == <<wpc, wseg>>
editors == <<epc, eseg, etext, snap, copy, prev>>
ghosts  == <<acked, evaluated, lastEdit, keptOn>>
vars    == <<today, s3, db, ingests, editors, ghosts>>

Change == [previous : Text \cup {MachineText}, new : Text \cup {NoText}]

TypeOK ==
  /\ today \in Nat
  /\ original \in [Segment -> Day] /\ copied \in [Segment -> Day]
  /\ row \in [Segment -> Row \cup {NoRow}]
  /\ history \in [Segment -> Seq(Change)]
  /\ alert \in [Segment -> {"none", "open", "dismissed"}]
  /\ wpc \in [Worker -> {"idle", "put", "insert", "match", "reply"}]
  /\ wseg \in [Worker -> Segment \cup {NoSegment}]
  /\ epc \in [Editor -> {"idle", "copy", "save", "saved", "evaluate", "reverting"}]
  /\ eseg \in [Editor -> Segment \cup {NoSegment}]
  /\ etext \in [Editor -> Text \cup {NoText}]
  /\ snap \in [Editor -> Row \cup {NoRow}]
  /\ copy \in [Editor -> BOOLEAN]
  /\ prev \in [Editor -> Text \cup {NoText, MachineText}]
  /\ acked \subseteq Segment /\ evaluated \subseteq Segment
  /\ lastEdit \in [Segment -> Day] /\ keptOn \in [Segment -> Day]

Init ==
  /\ today = 0
  /\ original = [s \in Segment |-> NoDay] /\ copied = [s \in Segment |-> NoDay]
  /\ row = [s \in Segment |-> NoRow]
  /\ history = [s \in Segment |-> <<>>]
  /\ alert = [s \in Segment |-> "none"]
  /\ wpc = [w \in Worker |-> "idle"] /\ wseg = [w \in Worker |-> NoSegment]
  /\ epc = [e \in Editor |-> "idle"] /\ eseg = [e \in Editor |-> NoSegment]
  /\ etext = [e \in Editor |-> NoText] /\ snap = [e \in Editor |-> NoRow]
  /\ copy = [e \in Editor |-> FALSE] /\ prev = [e \in Editor |-> NoText]
  /\ acked = {} /\ evaluated = {}
  /\ lastEdit = [s \in Segment |-> NoDay] /\ keptOn = [s \in Segment |-> NoDay]

-----------------------------------------------------------------------------
Stored(s) == row[s] # NoRow

(* What people read: the correction when there is one. *)
Shown(text) == IF text = NoText THEN MachineText ELSE text

LockedByNobody(s) == FALSE                   \* fault: no FOR UPDATE

(* SELECT ... FOR UPDATE holds the row until the audit record commits. *)
Locked(s) == \E e \in Editor : eseg[e] = s /\ epc[e] \in {"saved", "reverting"}

(* purge_expired's WHERE clause. *)
Expired(s) ==
  /\ Stored(s)
  /\ row[s].received + RowDays < today
  /\ row[s].retain = NoDay \/ row[s].retain < today

(* _audio_available: what the feed says of a row's audio. *)
audio_available(s) ==
  IF row[s].key = "corrected"
    THEN row[s].retain # NoDay /\ today < row[s].retain
    ELSE today < row[s].received + AudioDays

(* insert_alert: one alert per segment and term, ON CONFLICT DO NOTHING. *)
WithAlert(s) == [alert EXCEPT ![s] = IF @ = "none" THEN "open" ELSE @]

(* _evaluate_alerts never raises: a failing statement, or a row purged     *)
(* meanwhile (foreign key), leaves the alerts alone.  The insert waits for *)
(* a correction's row lock.                                                *)
Evaluate(s, text) ==
  \/ Stored(s) /\ ~Locked(s) /\ text \in Watched /\ alert' = WithAlert(s)
  \/ UNCHANGED alert

-----------------------------------------------------------------------------
(* The clocks.  A request does not take days: it is answered or dead when  *)
(* the next day comes.                                                     *)

Quiet ==
  /\ \A w \in Worker : wpc[w] = "idle"
  /\ \A e \in Editor : epc[e] = "idle"

NextDay ==
  /\ today < MaxDay /\ Quiet
  /\ today' = today + 1
  /\ UNCHANGED <<s3, db, ingests, editors, ghosts>>

(* The lifecycle rules of the content bucket, counted from the day an      *)
(* object was last written, at the earliest.                               *)
ExpireOriginal(s) ==
  /\ original[s] # NoDay /\ original[s] + AudioDays <= today
  /\ original' = [original EXCEPT ![s] = NoDay]
  /\ UNCHANGED <<today, copied, db, ingests, editors, ghosts>>

ExpireCopy(s) ==
  /\ copied[s] # NoDay /\ copied[s] + KeepDays <= today
  /\ copied' = [copied EXCEPT ![s] = NoDay]
  /\ UNCHANGED <<today, original, db, ingests, editors, ghosts>>

-----------------------------------------------------------------------------
(* ingest(): one upload, in handler w. *)

GoW(w, p) == wpc' = [wpc EXCEPT ![w] = p]

EndW(w) == GoW(w, "idle") /\ wseg' = [wseg EXCEPT ![w] = NoSegment]

(* segment_exists: a known segment is a duplicate and writes nothing. *)
Receive(w, s) ==
  /\ wpc[w] = "idle"
  /\ wseg' = [wseg EXCEPT ![w] = s]
  /\ GoW(w, IF Stored(s) THEN "reply" ELSE "put")
  /\ UNCHANGED <<today, s3, db, editors, ghosts>>

Put(w) ==
  /\ wpc[w] = "put"
  /\ original' = [original EXCEPT ![wseg[w]] = today]
  /\ GoW(w, "insert")
  /\ UNCHANGED <<today, copied, db, wseg, editors, ghosts>>

(* fault: the row is stored without its key *)
NewRowNoKey == [received |-> today, key |-> "", text |-> NoText, retain |-> NoDay]

NewRow == [received |-> today, key |-> "original", text |-> NoText, retain |-> NoDay]

(* insert_segment: ON CONFLICT DO NOTHING, committed at once. *)
Insert(w) ==
  LET s == wseg[w] IN
  /\ wpc[w] = "insert"
  /\ IF Stored(s)
       THEN /\ GoW(w, "reply")
            /\ UNCHANGED <<row, ghosts>>
       ELSE /\ row' = [row EXCEPT ![s] = NewRow]
            /\ acked' = acked \ {s} /\ evaluated' = evaluated \ {s}
            /\ GoW(w, "match")
            /\ UNCHANGED <<lastEdit, keptOn>>
  /\ UNCHANGED <<today, s3, history, alert, wseg, editors>>

(* _match_new_segment: only the handler that created the row does it. *)
Match(w) ==
  /\ wpc[w] = "match"
  /\ Evaluate(wseg[w], MachineText)
  /\ evaluated' = evaluated \cup {wseg[w]}
  /\ GoW(w, "reply")
  /\ UNCHANGED <<today, s3, row, history, wseg, editors, acked, lastEdit, keptOn>>

(* purge_expired: corrections and alerts go with their row (ON DELETE      *)
(* CASCADE).  The DELETE waits for locked rows and looks at them again.    *)
Purge ==
  LET gone == {s \in Segment : Expired(s)} IN
  /\ \A s \in gone : ~Locked(s)
  /\ row' = [s \in Segment |-> IF s \in gone THEN NoRow ELSE row[s]]
  /\ history' = [s \in Segment |-> IF s \in gone THEN <<>> ELSE history[s]]
  /\ alert' = [s \in Segment |-> IF s \in gone THEN "none" ELSE alert[s]]

(* The answer created or duplicate, after a purge if one is due or none    *)
(* ran in the last hour.                                                   *)
Reply(w) ==
  /\ wpc[w] = "reply"
  /\ Purge \/ UNCHANGED db
  /\ acked' = acked \cup {wseg[w]}
  /\ EndW(w)
  /\ UNCHANGED <<today, s3, editors, evaluated, lastEdit, keptOn>>

(* The put or a statement fails (503), or the task dies. *)
IngestDies(w) ==
  /\ wpc[w] # "idle"
  /\ EndW(w)
  /\ UNCHANGED <<today, s3, db, editors, ghosts>>

-----------------------------------------------------------------------------
(* correct_segment() and revert_correction(), in handler e. *)

GoE(e, p) == epc' = [epc EXCEPT ![e] = p]

EndE(e) ==
  /\ GoE(e, "idle")
  /\ eseg' = [eseg EXCEPT ![e] = NoSegment]
  /\ etext' = [etext EXCEPT ![e] = NoText]
  /\ snap' = [snap EXCEPT ![e] = NoRow]
  /\ copy' = [copy EXCEPT ![e] = FALSE]
  /\ prev' = [prev EXCEPT ![e] = NoText]

(* get_segment: everything up to the save uses this row, not locked yet.   *)
Correct(e, s, text) ==
  /\ epc[e] = "idle" /\ Stored(s)
  /\ GoE(e, "copy")
  /\ eseg' = [eseg EXCEPT ![e] = s]
  /\ etext' = [etext EXCEPT ![e] = text]
  /\ snap' = [snap EXCEPT ![e] = row[s]]
  /\ UNCHANGED <<today, s3, db, ingests, copy, prev, ghosts>>

(* Nothing to copy: moved already, too old, or (NoSuchKey) gone. *)
NothingToCopy(e) ==
  \/ snap[e].key = "corrected"
  \/ snap[e].received + AudioDays <= today
  \/ original[eseg[e]] = NoDay

(* fault: the new key is kept although the copy failed *)
CopyOrNot(e) ==
  /\ epc[e] = "copy"
  /\ copied' \in {copied, [copied EXCEPT ![eseg[e]] = today]}
  /\ copy' = [copy EXCEPT ![e] = ~NothingToCopy(e)]
  /\ GoE(e, "save")
  /\ UNCHANGED <<today, original, db, ingests, eseg, etext, snap, prev, ghosts>>

(* _copy_for_retention. *)
Copy(e) ==
  /\ epc[e] = "copy"
  /\ copied' = IF NothingToCopy(e) THEN copied
               ELSE [copied EXCEPT ![eseg[e]] = today]
  /\ copy' = [copy EXCEPT ![e] = ~NothingToCopy(e)]
  /\ GoE(e, "save")
  /\ UNCHANGED <<today, original, db, ingests, eseg, etext, snap, prev, ghosts>>

(* save_correction locks the row and reads the text it replaces; 404 when  *)
(* the row was purged meanwhile.                                           *)
Save(e) ==
  LET s == eseg[e] IN
  /\ epc[e] = "save" /\ ~Locked(s)
  /\ IF Stored(s)
       THEN /\ Len(history[s]) < MaxEdits
            /\ prev' = [prev EXCEPT ![e] = Shown(row[s].text)]
            /\ GoE(e, "saved")
            /\ UNCHANGED <<eseg, etext, snap, copy>>
       ELSE EndE(e)
  /\ UNCHANGED <<today, s3, db, ingests, ghosts>>

(* The UPDATE of save_correction: COALESCE keeps the key it has. *)
Corrected(r, text, moved) ==
  [received |-> r.received, key |-> IF moved THEN "corrected" ELSE r.key,
   text |-> text, retain |-> today + KeepDays]

(* _audit commits the change with its audit record. *)
CommitCorrection(e) ==
  LET s == eseg[e] IN
  /\ epc[e] = "saved"
  /\ history' = [history EXCEPT ![s] =
                   Append(@, [previous |-> prev[e], new |-> etext[e]])]
  /\ row' = [row EXCEPT ![s] = Corrected(@, etext[e], copy[e])]
  /\ lastEdit' = [lastEdit EXCEPT ![s] = today]
  /\ keptOn' = [keptOn EXCEPT ![s] = IF copy[e] THEN today ELSE @]
  /\ GoE(e, "evaluate")
  /\ UNCHANGED <<today, s3, alert, ingests, eseg, etext, snap, copy, prev,
                 acked, evaluated>>

(* The watch terms are checked against the corrected text. *)
MatchCorrection(e) ==
  /\ epc[e] = "evaluate"
  /\ Evaluate(eseg[e], etext[e])
  /\ EndE(e)
  /\ UNCHANGED <<today, s3, row, history, ingests, ghosts>>

(* clear_correction locks the row; nothing to do when it has no            *)
(* correction.                                                             *)
Revert(e, s) ==
  /\ epc[e] = "idle" /\ Stored(s) /\ ~Locked(s)
  /\ row[s].text # NoText /\ Len(history[s]) < MaxEdits
  /\ prev' = [prev EXCEPT ![e] = row[s].text]
  /\ eseg' = [eseg EXCEPT ![e] = s]
  /\ GoE(e, "reverting")
  /\ UNCHANGED <<today, s3, db, ingests, etext, snap, copy, ghosts>>

(* The UPDATE of clear_correction: retention once granted stays. *)
Cleared(r) == [r EXCEPT !.text = NoText]

CommitRevert(e) ==
  LET s == eseg[e] IN
  /\ epc[e] = "reverting"
  /\ history' = [history EXCEPT ![s] =
                   Append(@, [previous |-> prev[e], new |-> NoText])]
  /\ row' = [row EXCEPT ![s] = Cleared(@)]
  /\ EndE(e)
  /\ UNCHANGED <<today, s3, alert, ingests, ghosts>>

(* The copy, a statement or the audit fails and rolls everything back, or  *)
(* the task dies.                                                          *)
EditDies(e) ==
  /\ epc[e] # "idle"
  /\ EndE(e)
  /\ UNCHANGED <<today, s3, db, ingests, ghosts>>

(* dismiss_alert: shared by everyone. *)
Dismiss(s) ==
  /\ alert[s] = "open"
  /\ alert' = [alert EXCEPT ![s] = "dismissed"]
  /\ UNCHANGED <<today, s3, row, history, ingests, editors, ghosts>>

-----------------------------------------------------------------------------
Ingest(w) ==
  \/ \E s \in Segment : Receive(w, s)
  \/ Put(w) \/ Insert(w) \/ Match(w) \/ Reply(w) \/ IngestDies(w)

Edit(e) ==
  \/ \E s \in Segment : Revert(e, s) \/ \E t \in Text : Correct(e, s, t)
  \/ Copy(e) \/ Save(e) \/ CommitCorrection(e) \/ MatchCorrection(e)
  \/ CommitRevert(e) \/ EditDies(e)

Next ==
  \/ NextDay
  \/ \E s \in Segment : ExpireOriginal(s) \/ ExpireCopy(s) \/ Dismiss(s)
  \/ \E w \in Worker : Ingest(w)
  \/ \E e \in Editor : Edit(e)

Spec == Init /\ [][Next]_vars

-----------------------------------------------------------------------------
(* Audio the feed offers is there: as long as an uncorrected row says its  *)
(* wav is available, S3 has the object, whichever handler died between the *)
(* put and the insert and however often the segment was uploaded.          *)
OriginalAudioHonest ==
  \A s \in Segment :
    Stored(s) /\ row[s].key = "original" /\ audio_available(s) =>
      original[s] # NoDay

(* A row that points under the corrected prefix has its wav there for the  *)
(* whole KeepDays after the correction that moved it.                      *)
MovedAudioKept ==
  \A s \in Segment :
    Stored(s) /\ row[s].key = "corrected" =>
      keptOn[s] # NoDay /\ (today < keptOn[s] + KeepDays => copied[s] # NoDay)

(* Wherever a row says its audio is, it is: the two places are left by one *)
(* change of the row and emptied by two rules of the bucket.               *)
AudioHonest == OriginalAudioHonest /\ MovedAudioKept

(* A committed correction, reverted later or not, keeps its row and its    *)
(* history for KeepDays, through every purge.                              *)
CorrectionKept ==
  \A s \in Segment :
    lastEdit[s] # NoDay /\ today <= lastEdit[s] + KeepDays =>
      Stored(s) /\ history[s] # <<>>

(* The correction history is a chain with no version missing: each change  *)
(* starts from the text the one before it left, the first from the machine *)
(* text, and the row shows where the chain ends.                           *)
HistoryChained ==
  \A s \in Segment :
    Stored(s) =>
      LET h == history[s]
          Before(i) == IF i = 1 THEN MachineText ELSE Shown(h[i - 1].new)
      IN  /\ \A i \in DOMAIN h : h[i].previous = Before(i)
          /\ Shown(row[s].text) = Before(Len(h) + 1)

(* What a person corrected is neither lost nor mixed up with what another  *)
(* one made of it at the same time.                                        *)
CorrectionsSafe == CorrectionKept /\ HistoryChained

(* A second upload of a stored segment changes nothing about it: neither   *)
(* the date its retention counts from nor a correction made meanwhile.     *)
UploadIsIdempotent ==
  [][\A s \in Segment :
       row[s] # NoRow /\ row'[s] # NoRow =>
         /\ row'[s].received = row[s].received
         /\ row'[s].text # row[s].text => history'[s] # history[s]]_vars

-----------------------------------------------------------------------------
(* "A segment a person corrected keeps its audio and corrected transcript  *)
(* this long, extended on every edit": the audio of a row that says it has *)
(* audio is there.                                                         *)
CorrectedAudioKept ==
  \A s \in Segment :
    Stored(s) /\ row[s].key = "corrected" /\ audio_available(s) =>
      copied[s] # NoDay

(* "Evaluate at ingest for each new segment": once an upload has been told *)
(* its segment is stored, and no handler is still at it, the watch terms   *)
(* have been checked against it.                                           *)
NewSegmentsEvaluated ==
  \A s \in acked :
    Stored(s) /\ (\A w \in Worker : ~(wseg[w] = s /\ wpc[w] = "match")) =>
      s \in evaluated
=============================================================================
