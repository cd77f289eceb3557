# LCDash in TLA+

LCDash is the operations dashboard of the Logan County 911 center: a FastAPI
application in AWS, a few workers beside it, pages that poll and listen in the
browser, and a radio listener at the center that uploads recorded transmissions.
This directory models the parts of it whose correctness depends on what happens
in between: between two calls to a service without transactions, between a crash
and a restart, between a request that timed out and its late execution, between
an answer asked for and the moment it is handled, between two people who edit
one thing.

Every definition is a translation of the source under `src/`; `PROJECT.json`
maps each one to the lines it stands for, lists the runs, the properties, the
hazards they are aimed at, the theorems, and for each property a plausible bug
(a *mutant*) under which it fails. Operators commented `fault:` are those bugs;
no specification uses them. Some definitions state what TLC refutes
and no run lists ("Not so" in their comments); section 4 names them.

    cd tla
    tlc -workers 2 -config MCRadioUpload.cfg MCRadioUpload
    tlapm RadioUpload_proofs.tla

## 1. Inventory

Parts in bold are modelled, in whole or in part.

### The radio listener (`radio_listener/`)

| part | state | operations | what is hard |
|---|---|---|---|
| **capture** | per stream: the open segment, the last packet, the signalling kept for the next one | voice packets, signalling, the check that closes a silent segment | a silent segment stays open until the loop looks at it; whom does a message belong to |
| **transcriber** | `queue/pending`, `processing`, `failed`, transcripts | claim a job, transcribe, publish, set aside, recover at start | dies or fails between any two renames |
| **uploader** | transcripts, audio, markers `uploaded/<id>.{done,rejected,parked}`; in memory a pass and the head-of-queue counter | pass, post, markers, parking, retention | crash between the server's commit and the marker; requests executed after they were given up; deletion of files one by one; manual replays |

*Correct* means: a recording carries the name of who was talking; a job handed
over is transcribed once or set aside; no transmission is lost between
publication and the server; a marker tells the truth; the recording order is
kept; one bad segment does not block the rest.

### Radio on the server (`app/services/radio_service.py`)

| part | state | operations | what is hard |
|---|---|---|---|
| **ingest** | the wav in S3 (`radio/audio/`), the row in `lcdash_radio.segments` | put, insert, match alerts, purge | two stores without a common transaction; duplicate uploads in parallel; death after any statement |
| **corrections** | `corrections`, `retain_until`, copy of the wav under `radio/corrected/` | correct, revert | what is read before the row lock is used after it; three deletions by date (two lifecycle rules, one purge) |
| **alerts** | `alerts`, one per segment and term | evaluate, dismiss | evaluated outside the transaction that stores the text |
| **unit names** | `units`, `_unit_cache` in every process | set, remove, read | count before insert; a cache filled with what was fetched before it was dropped |
| fixes, watch terms, hints | three limited tables, the fixes cached | as unit names | as unit names |
| heartbeat, stats | last heartbeat | read only, or last write wins | — |

*Correct*: the feed offers audio that exists; what a person corrected is kept
as long as promised, with a history in which no version is missing; a stale
name is shown no longer than the cache window.

### The workers

| part | state | operations | what is hard |
|---|---|---|---|
| **analytics collector** | `lcdash_analytics.calls`, the high-water mark in `sync_state` | window, pages, per-call fetch, upsert, mark | pages by offset of a search that changes; late calls; quota; one of many fetches fails; restarts |
| **EMS delay alerts** | `lcdash_alerting.ems_delay_alerts` | read active calls, observe, page, record, resolve | the CAD changes while the worker goes on; a page is not part of a transaction; dies between page and record |
| **knowledge indexer** | documents, chunks, embeddings | list, hash, read, store, embed, drop what is gone | files change under a pass; the embedding service fails; dies between two commits |

*Correct*: every closed call is collected and the mark never passes one that
is missing; a waiting call is paged about, again every `Repeat` minutes, and
its alert is closed when it is over; a library serves what its files say once
they rest.

### The application

| part | state | operations | what is hard |
|---|---|---|---|
| **pilot access review** | accounts and groups of the Cognito pool | invite, set role, disable, enable, delete | each request is a sequence of calls; two admins at once |
| **user sync** | the same pool, a list of approved users | read, plan, apply | one of many calls fails; others change the pool between reading and writing |
| **realtime webhooks** | seen-event cache, subscriber queues, `webhook_events` | deduplicate, record, publish | an event counts as seen before it is recorded; slow browsers; restarts |
| **CAD read runtime** | the last snapshot, the token | poll, retry, refresh the token | age of what is shown after failures |
| **knowledge uploads** | objects in S3, ingestion jobs in Bedrock | upload, remove, sync, status | two sources, jobs that still run, several admins |
| **reports** | jobs in memory, months counted | start, run, status | a clock read twice; failures outside the part that records them |
| **cloud assistant** | a daily budget per process | facts, tool rounds, documents | three paths, several threads, one budget |
| **streamed advisory** | what was fed, what is held back | retrieve, feed, finish | text cut anywhere |
| identity, roles, tenants | none | decisions on one request | — |
| MAE, JACK, analytics reporting, NGA911 | memory and audit rows | one request each | external models |

*Correct*: somebody can still administer; accounts end up with one role and as
declared; browsers hear of an event once; data called current is; COMPLETE means
served; a month that is over is whole; the budget holds; a list of sources is
never spoken.

### The browser (`static/js/`)

| part | state | operations | what is hard |
|---|---|---|---|
| **dashboard** | countdown, refresh under way and pending, badge | tick, event, click, answer | timers, events and failures at any moment |
| **radio feed** | cards, cursor, filters, one request per tab, open editors | load, refresh, older, correct | answers handled late, lists rebuilt under an editor |
| **radio scanner** | one player, a queue | offer, play, refuse, pause, switch tab | the player's events, clicks and refreshes meet |
| **station alerts** | seen and pending alerts, the one shown | poll, show, acknowledge, choose stations | overlapping polls; the pause between two alerts |
| **station sound** | tone, announcement, promises of `play()` | arm, tone, prepare, release, stop | what was asked for arrives after it was stopped |
| **MAE's voice mode** | microphone, capture, clips, timers, busy | listen, transcribe, ask, speak, stop | nothing that awaits an answer is cancelled |
| **avatar** | microphone, question, clips | hold, release, ask, speak, stop, greet | the microphone is granted after the button was released |
| radio alerts panel, analytics, maps, Mindshare, administrator tabs | — | forms and rendering | — |

*Correct*: the dashboard asks about every event; no card is missing between two
others and no draft is lost; new calls play once and in order; no alert leaves
the page unseen; nobody speaks over a tone; a page never waits for speech that
was stopped.

### How they interact

    RTP -> CAPTURE -> jobs -> TRANSCRIBER -> transcripts + wav -> UPLOADER
       UPLOADER --signed POST, retried--> INGEST -> S3, PostgreSQL -> FEED, SCANNER
       editors -> CORRECTIONS (same rows, same objects) ; S3 lifecycle, purge
    CAD search -> ANALYTICS COLLECTOR -> PostgreSQL -> REPORTS
    CAD active calls -> EMS DELAY ALERTS -> pages through the CAD
    CAD webhooks -> REALTIME -> browsers -> DASHBOARD REFRESH -> CAD READ RUNTIME
    CAD units -> STATION ALERTS -> STATION SOUND
    drive -> KNOWLEDGE INDEXER ; admins -> KNOWLEDGE UPLOADS -> Bedrock
       -> CLOUD ASSISTANT, ADVISORY STREAM -> MAE'S VOICE, AVATAR
    admins -> PILOT ACCESS ; list -> USER SYNC -> Cognito -> every route

Components share PostgreSQL, S3 and Cognito and nothing in memory; the web
processes are several, the workers one container each (`deploy/compose.yaml`).

## 2. The modules

| module | models |
|---|---|
| `SegmentDelivery` | what the listener promises about a published segment (abstract) |
| `RadioUpload` | the uploader, its disk, crashes, the network; implements `SegmentDelivery` |
| `TranscriptionJobs` | what the transcriber promises about a job (abstract) |
| `RadioTranscribe` | the transcriber's queue; implements `TranscriptionJobs` |
| `RadioCapture` | one stream of the capture: segments and signalling |
| `RadioIngest` | ingest, corrections, alerts, purge, bucket lifecycle: the server `RadioUpload` sees from outside |
| `RadioUnits` | unit names, their limit and caches |
| `AnalyticsSync` | the collector and the CAD's search |
| `EmsDelayAlert` | the paging worker and the CAD's active calls |
| `KnowledgeIndex` | the indexer of a library |
| `KnowledgeUpload` | the document library of the cloud and its ingestion jobs |
| `Realtime` | webhooks, their cache, the browsers' queues |
| `CadRuntime` | the CAD poller |
| `DomesticReport`, `CountyReport` | the jobs of the year-to-date and the monthly report |
| `CloudAdvisory` | the paths of a question and their budget |
| `AdvisoryStream` | one streamed answer |
| `PilotAccess` | access review and the user pool |
| `UserSync` | the script that matches the pool to a list |
| `DashboardRefresh` | when the dashboard asks |
| `RadioFeed`, `RadioScanner` | the radio page's list; its player and automatic playing |
| `StationAlerts`, `StationSound` | what a station sees; what it hears |
| `MaeVoice`, `AvatarVoice` | spoken conversation in the browser |
| `Orders` | sets of numbers in their order, sequences without some elements, for three of these |
| `RadioUpload_proofs`, `RadioIngest_proofs`, `RadioUnits_proofs`, `EmsDelayAlert_proofs`, `PilotAccess_proofs` | theorems about the module of that name, see section 5; three of them also about the run it is composed in, `PilotAccess_proofs` about `KnowledgeUpload` as well |
| `Workers_proofs` | theorems about `AnalyticsSync`, `RadioTranscribe`, `KnowledgeIndex` and their run, `MCWorkers` |
| `ServerParts_proofs` | theorems about `RadioCapture`, `Realtime`, `CadRuntime`, `AdvisoryStream`, `DomesticReport`, `CountyReport` |
| `PageParts_proofs` | theorems about `StationAlerts`, `StationSound`, `RadioScanner`, `RadioFeed`, `MaeVoice`, `AvatarVoice`, `DashboardRefresh`, `CloudAdvisory`, `UserSync` |
| `ServerParts`, `PageParts`, `AppParts`, `WorkerParts` | instances of those components, with constants, assumptions and variables of their own |
| `MCRadioUpload`, `MCRadioUnits`, `MCWorkers`, `MCServices`, `MCAlerts`, `MCApplication` | the instances TLC checks |

The last four `MC` modules put components that share nothing side by side. A
variable `part` is chosen in the first state and says which of them moves; the
others stay in an initial state. The states of a run are therefore the sum of the
states of its parts, never their product, and an invariant of the run is the
conjunction of the parts' invariants. The component the module EXTENDS keeps its
own names, the others are INSTANCEd, with variables that have a prefix. The components
`ServerParts_proofs`, `PageParts_proofs` and, but for the collector, `Workers_proofs` speak of
are instances in `ServerParts`, `PageParts`, `AppParts` and `WorkerParts`, as `KnowledgeUpload` is in
`AppParts`, which the `MC`
modules and the proofs both extend: what is proved and what is checked are then the same definitions under
the same assumptions.

### RadioUpload

The disk (`published`, `audio`, `transcripts`, their days, the three marker sets)
survives `Crash`; `pc`, `todo`, `current`, `head`, `attempts` do not. A pass of
`process_queue` is `StartPass` (one snapshot of the queue), then per segment, in
`(mtime, name)` order, `RejectLocally` (contract check), `GiveUpLocally` (signing
or a read fails) or `Post`, then one of the `Receive...` actions, `ParkHead`,
`NetworkError` or `MarkerWriteFails`. An answer that leaves the segment queued ends
the pass, as the `break` of `process_queue` does. Retention is a sweep of three
phases that deletes one file a step and may stop at any of them.

The server is `accepted` (segments ever stored), `answer` to the open request
and `late`: requests the client gave up on and the server may still execute. A
5xx may come with or without the segment stored. `Requeue` is the operator's
documented replay. `sidelined` is a history variable. Left out: the heartbeat,
the glossary download, the back-off between passes (any delay is allowed), the
fields of a transcript (`Malformed` is the set of segments whose check fails).

`SegmentDelivery` gives each segment one status, unpublished, waiting, set aside
or delivered, computed from the files; the refinement says among other things that
delivered is final and implies stored.

### RadioTranscribe and RadioCapture

A claim is the rename from `pending` to `processing`; transcript and failure record
appear by a rename; the job file is unlinked last. `Mishap` is a failing file
operation or the death of the process anywhere; a start first puts claimed jobs
back (`Recover`), one rename a step, and may die in the middle. `TranscriptionJobs`
says that a transcript is final, that a job is not lost, and that a job set aside
may still be transcribed (it was put back after its failure record).

`RadioCapture` compares clock readings as `capture.py` does: a segment is `Silent`
too long or has `Expired` when the loop looks at it, not before; a message is noted
for the segment that is live or kept for the next one. Sound, counters and RTP are
left out; a message names a radio or not.

### RadioIngest

One step per statement of the service, with the row lock of a correction held
until its audit record commits (`Locked`). `Put`, `Insert`, `Match`, `Reply` are
`ingest`; `Correct`, `Copy`, `Save`, `CommitCorrection`, `MatchCorrection` are
`correct_segment`; `Revert`, `CommitRevert` are `revert_correction`. A handler dies
anywhere (`IngestDies`, `EditDies`). The clock advances in days, `ExpireOriginal` and
`ExpireCopy` are the bucket's two lifecycle rules, whose delay S3 does not bound:
they may fire on the day they are due or later. `Purge` runs inside an ingest as
in the code. A request does not span a day (`NextDay` needs `Quiet`). Texts are
model values; fixes act on the machine text before it is stored and are part of
the value `MachineText`.

### RadioUnits

`set_unit` as read, count, write, commit, drop the cache; `_unit_names` as read the
clock, fetch, store. Every process has a cache and can restart. The other three
limited tables have the same shape. A process that changes a name and drops its
cache may show the old name again: a reader that fetched before the commit stores
its result after the drop. The guarantee is therefore the window
(`StaleOnlyWithinWindow`) and not "the admin sees the change at once".

### AnalyticsSync

A run is `StartRun` (the window), `Search` once per page, `Collect` or `CollectFails`
once per call, `Finish`. `Taken` is the loop that stops at the quota, `truncated` is
computed as the code computes it. The CAD is `closedAt` and `visible`: a call shows up
in its search up to `Lag` after it was closed, `Lag <= Overlap`. Assumptions: one
collector at a time (`scripts/sync_analytics.py` started by hand is not modelled),
a closed call is not reopened.

### EmsDelayAlert

An evaluation is `Start` (reads all active calls), `Answered` or `Observe` per call,
`Page` with `RecordDelivery`, or `RecordIssue`, and `Finish`, which closes the
alerts of calls it did not read. `RecordIssue` after `Page` is a page the CAD took while the
worker saw a failure: a time-out, an answer that was lost or is not JSON. `Die` may strike
anywhere, also between the page and its
record. Outside, calls come in, are rebooked, answered, given up, closed, and come
back. What the code does and no document rules out is named in the properties as an
exception: after an alert was resolved and reopened, or after a death between page
and record, supervisors may be paged again within `Repeat` minutes; after a page whose answer
was lost (`unheard`) they are paged again after `Retry` minutes; a prescheduled
call moved to an earlier time keeps the page time of the old one.

### KnowledgeIndex and KnowledgeUpload

`KnowledgeIndex`: a pass lists the files (`StartPass`), and per document looks at the
hash, extracts (a file that cannot be opened fails, `Broken`; a page whose text cannot be
extracted is stored empty and gives no chunk, `Lossy`), embeds batch by batch with a commit each, and drops what is no longer
listed (`Finish`). `Change` alters, adds or removes a file at any step. A document
has one batch of embeddings or more, one that is `Lossy` perhaps none. A file that was hashed with one content and
read with another, and later put back to the first, is stored with a hash that is
not its own (`torn`) and stays wrong; `IndexCatchesUp` and `CompleteIsCurrent` except it. Current is not whole: a library may be
complete and lack every page whose extraction failed. The
history variable `touched` has the documents whose files changed since the pass began,
which its status cannot answer for.

`KnowledgeUpload`: objects per prefix, one data source each, and the jobs of the
knowledge base, of which a source runs one at a time. An upload is one step, since
the coroutine does not yield between look and put; removal and sync run in threads,
one call a step. Jobs may be stopped from outside (`JobStopping`, `JobStopped`). The status asks
for one source (`AskFirst`), then for the other (`IngestionStatus`), and `Overall` is the
precedence of the code with its way out, the first status there is. `DoneMeansServed`: what
lay in the library when a full sync began, and lies there still, is served once the status
has said COMPLETE, unless one of the two jobs it looked at was being stopped (section 4).

### Realtime and CadRuntime

`Realtime`: the look-up in the cache is one step under its lock, the recording
another, the publication a third, all of several requests at once; a subscriber's
queue drops its oldest entry when it is full; `Restart` empties cache and queues.

`CadRuntime`: calls, then units, each asked up to `MaxAttempts` times with pauses;
the token is renewed shortly before it expires, with credentials from the secret store,
which is asked first. Time passes only while something is
awaited. The code gives no request a deadline: httpx's time-out limits each connect, write
and read. An attempt therefore takes up to `Pieces` of these (`Exchange`), the secret
store up to `SecretTime`, and a pause up to `MaxWait`; all three are assumptions about what is
outside. `CurrentIsRecent` bounds the age of what the status calls current by `Fresh` and the
length of a poll under them. Without them nothing bounds it: a CAD that sends its
answer in ever more pieces has calls of any age shown as current.

### DomesticReport, CountyReport

`DomesticReport` reads the clock for the days and once more for the months that are
over, counts page by page while calls come in, and remembers months. `calls` is the
sequence of the days of the calls, so that what the CAD has of some days is a number of
positions in it, and a page a part of that number. `OverIsWhole`
compares a month reported as over with all calls of that month. `CountyReport` has
one step per look at its tables under the lock, the end of a job being two.

### CloudAdvisory, AdvisoryStream

`CloudAdvisory`: `AskFacts`, `AskTools`, `AskDocuments` are the three paths, with
what each hands on to the next; every call of the model is paid for by one
reservation. It is one process from its start; the streamed path is one call here.
`AdvisoryStream` has symbols for the two halves of the heading, a newline and other
text; what is fed is what a voice may say.

### PilotAccess, UserSync

`PilotAccess`: one step per call to Cognito. `Begin...` reads the target's groups,
`Guard` asks for another enabled admin, the writes follow one by one; `Die` stops a
request anywhere. A session carries the groups of its sign-in, so whoever was ever an
admin may act (`sessions`). `overlapped` and `crossed` are history variables that say
whether two requests that take access away, or two that give one account a role,
were ever under way together.

`UserSync`: the script reads account by account, plans (`Planned`, with the refusal
`TooMany`), and makes one call a step, in the order `Sooner` (the removals of one user
among themselves in any); it may fail or be stopped at any of them, and
be run again with the same or another list. `Others` is one call of the access
page or the console while it runs; such a run is not one to judge by
(`disturbed`). Groups the list does not know of are left alone and left out.

### The browser

`DashboardRefresh`: `Tick` is the handler of every second; shorter timers fire at any
moment. `RadioFeed` is one tab: an answer is read (`Read`) some steps before it is
handled; a list may be rebuilt (`LoadFirst`, `ReceiveGap`) only when no card is
edited. `RadioScanner` is the player, the queue and two or more tabs: `Pump` starts
the next call that has a card, `Release` is the end or failure of one, `Refused` the
browser's wish for a click, `scanOffers` the decision of a refresh to play; calls are
stored in order of their recording, the administrator tabs and editing are left
out. `StationAlerts`: polls and their answers are sets, so any order is possible; a
station is one unit. `StationSound`: a player is idle, starting, playing; the promise
of `play()` is kept, refused or broken by a pause. "ended" is handled at once.
`StationAlerts` and `StationSound` are the on-premises page; the cloud's
(`lcdash-station-alerts-cloud.js`) has the same queue and the same release of
announcements and is not modelled on its own.

`MaeVoice`: a task is one run of an asynchronous handler; microphone and graph open
in one step. `AvatarVoice`: the talk button, the microphone asked for, questions,
clips; the remote avatar session is off, as by default.

## 3. The runs

| run | states | checks |
|---|---|---|
| `radio_upload` | 854k | no loss, one marker, order, refinement of `SegmentDelivery`, every segment leaves the queue |
| `radio_units` | 1.56M | the limit's overshoot, the staleness window |
| `workers` | 197k | completeness of the collector and eventual collection; the transcriber refines `TranscriptionJobs` and settles its jobs; a library called complete is current, and catches up |
| `services` | 1.18M | audio and corrections; signalling; webhooks; the CAD's age; the spoken answer; reports |
| `alerts` | 923k | pages of the EMS worker; a station's alerts and sound; MAE's page; the radio scanner and its list |
| `application` | 964k | an admin remains, one role; the user sync; the budget; the dashboard; what COMPLETE promises |
| `radio_ingest_audio` | violation | corrected audio is kept as long as its row says |
| `analytics_sync_missed` | violation | completeness without the proviso |
| `pilot_access_race` | violation | an admin remains, however requests interleave |
| `county_report_busy` | violation | "busy" means a report is being made |
| `mae_voice_echo` | violation | nothing is captured while MAE speaks |
| `avatar_mic` | violation | the microphone is closed between questions |

What each passing property says:

* `NoSilentLoss`, `OneFinalMarker`, `OrderKept`, `ImplementsDelivery`, `QueueIsDrained`
  (uploader): until the server has a segment its files stay; a segment has one final marker;
  it overtakes another only if that one was set aside; delivered is final; and in the end
  nothing waits.
* `NoMissedCallsWithinLimit`, `EveryCallCollected` (collector): the mark passes no
  call that is missing, as long as no window held more than the quota; every call
  is stored once failures stop.
* `ImplementsJobs`, `JobsSettle` (transcriber).
* `CompleteIsCurrent`, `IndexCatchesUp` (indexer): a library with status complete has of each
  document that rested since the pass began what can be extracted from the version of its
  file, or nothing if there is none; and it gets there.
* `AudioHonest`, `CorrectionsSafe` (ingest): audio a row says it has is there; a
  correction keeps row and history, and histories are chains.
* `SignalBelongs` (capture), `BrowsersFollow` (webhooks: told once, and of the
  newest), `CurrentIsRecent`, `SourcesNeverSpoken`,
  `OverIsWhole` (reports).
* `NobodyForgotten`, `RepeatsSpaced`, `SettledAfterRun` (EMS pages), `OnlyShownLeaves`
  (an alert leaves a station's page only by being shown), `NoSpeechOverTone`,
  `InputNotLocked`, `ScannerFollows` (calls play once and in order, nothing from
  before one listened, and the queue is not left asleep), `FeedIsWhole` (no segment
  is missing between two cards, no draft is lost).
* `AdminRemainsIfSerial`, `OneRoleUnlessCrossed`, `SyncSettles` (a run that gets
  through leaves the accounts as declared), `BudgetHolds`, `NoEventForgotten`,
  `DoneMeansServed` (COMPLETE means served).
* `OvershootBounded`, `StaleOnlyWithinWindow` (unit names).

### Bounds

* `radio_upload`: two segments are what an order needs; `ParkLimit = 2` with
  `MaxAttempts = 3` lets a head be parked, one answer short of it and replayed;
  retention of 0 and 1 days over `MaxDay = 2` makes every file, and the markers
  last, expire in each order. The part for liveness has a malformed second segment
  and no clock. The proofs have no bounds.
* `radio_units`: a limit of one, three radio IDs and two admins, the fewest that
  pass it by more than none; two processes, because a cache dropped in one
  stays in the other; a window of one tick.
* `workers`: collector with `PageSize = 1`, `MaxCalls = 2`, three calls, so that pages
  shift, a run is truncated, and a failed call is not the last; the overlap is
  equal to the lag, the smallest that can work. Three jobs, so that one is handled,
  one waits and one failed. Two documents, three contents of which one cannot be
  opened and one loses its pages, two batches of embeddings, two changes under a pass.
* `services`: one segment, two uploads and two editors, retention of 1, 2 and 3 days
  over four, so each deletion comes before and after each edit, an edit and an edit of
  it or a revert. Capture: 5 ticks, two messages. Webhooks: three events, a cache and
  a queue of two, two requests at once, three arrivals, one restart. CAD: two attempts
  of two pieces each, a secret of one tick, a token that lives two and is not used for its
  last. The longest way from the calls to the units is then nine ticks, which a poll takes over the
  clock of ten: TLC refutes any bound on the age of current calls below nine, and
  `CurrentIsRecent` allows a tick more, that of `Fresh`, which a clock of eleven reaches
  too (checked in a run of its own). `Pieces`
  and `Timeout` matter only as a product. Pauses are 0 here (`LongestPause`), and any length in the
  proof. Advisory: texts of six symbols in pieces of up to two, which cuts the
  heading everywhere. Reports: two months of two days, two tenants, two jobs; two owners,
  two months, three jobs of which two are remembered.
* `alerts`: one prescheduled call, which may come in as a transfer does, `Repeat = 2`
  and the other intervals one over a clock of five, so that pages have to keep a
  distance that is not a tick (any number of calls is proved); one incident with two units, two assignments, two polls under way, a choice
  of stations; two tasks and two timers of MAE; two questions and streams of the
  avatar, one clip. Scanner: three calls, one of them stored before, two tabs that
  overlap, pages of two, a queue of one, so that it overflows and a gap arises;
  noise (`Noise`) was checked with four calls in a run of its own. Feed: five segments of which two are there, pages of
  two, a filter that keeps three, one correction each: three new segments on pages of
  two are a gap.
* `application`: three accounts, two of them admins, two requests at a time. User
  sync: three accounts in any of their first states, two roles, two lists that add
  users, take them away and change a role; one call by others per run. Two questions,
  three calls a day, one tool round, one midnight. Dashboard: refresh every 3 seconds,
  stale after 6, timeout of 2. Library: one name, so that an upload replaces what lies
  there, two uploads, two syncs that overlap with a job of the other, and one admin who removes
  and syncs; the theorem is about any number of them, and two were checked once in a run of
  their own.
* violations: `AnalyticsSyncMissed.cfg` has `PageSize = 3`, `MaxCalls = 4` and five
  calls: the quota is no multiple of the page size, as with the deployed 250 and 100.

Symmetry is declared where components do not order the values: ingest handlers and
editors, requests and first admins, radio IDs, admins and processes. Liveness is checked
without symmetry.

### Fairness

* `RadioUpload!FairSpec`: the uploader is one loop whose steps all end (a post has a
  time-out), hence weak fairness of `LoopStep` and `Receipt`; of the network and
  the server only that a post tried again and again is answered about the
  segment at last, a 5xx included, hence strong fairness of `Post`, `Answered`,
  `Received`, `RejectLocally`. An endless run of 401 or 429, which the code
  means to wait out, is thereby excluded. `QueueDrains` is about runs in which crashes
  and replays stop (`Quiet`). `MCRadioUpload` states this for the part `live`, for
  those actions that are ever enabled there.
* `AnalyticsSync!FairSpec`: the worker's loop starts a run every interval whatever
  the last one did (`scripts/analytics_worker.py`), hence weak fairness of `Worker`;
  closed calls show up in the end. `EveryCallCollected` is about runs in which
  failures and restarts stop.
* `RadioTranscribe!FairSpec`: systemd restarts the transcriber and its loop takes
  what is pending, hence weak fairness of its steps; `JobsSettle` is about runs in
  which crashes stop.
* `KnowledgeIndex!FairSpec`: the worker starts a pass every hour; `IndexCatchesUp` is
  about runs in which files rest and the embedding service comes back.

`MCWorkers` gives this fairness to the part that moves, and its liveness properties
speak of that part. The other modules state no liveness.

## 4. What disagrees with the documents

Six runs of `PROJECT.json` end in a counterexample that TLC prints, each quoted there:

* `CorrectedAudioKept`: each edit extends a row's `retain_until`, but a wav already
  under `radio/corrected/` is not written again, so S3 deletes it `KeepDays` after the
  *first* edit and the feed still offers it.
* `NoMissedCalls`: when the quota ends inside a page that is shorter than a full one,
  the run counts as complete and the mark passes the calls it dropped.
* `AdminRemains`: two admins who remove each other's access both pass the guard.
* `BusyMeansReading`: a log-in that fails leaves the monthly report's job "running" for
  good, and its owner is told that another one is being made.
* `NoEcho`: the Listen button, pressed in voice mode, discards the recording, whose end
  starts a new one 150 ms later, while the answer is heard.
* `MicReleased`: the talk button of the avatar released before the microphone is
  granted leaves it recording.

Other statements of the modules ("Not so") that TLC or the code refutes, without a run
of their own:

* Uploader: 5xx, 401, 5xx parks a segment at a limit of two, since an answer that is
  neither final nor 5xx does not reset the head counter; README and comment say "in a
  row".
* `NewSegmentsEvaluated` (`RadioIngest`): a task that dies between insert and matching
  leaves a segment that is never checked, since its retry is a duplicate.
* `OnlyPastRemembered` (`DomesticReport`): midnight between the two readings of the
  clock makes a month remembered whose last day was not counted.
* `DoneMeansServed` without its proviso (`KnowledgeUpload`): STOPPING is not in the precedence
  of statuses, so with newest jobs STOPPING and COMPLETE the status is COMPLETE, though its
  docstring says that a half-synced pair must not read as done
  (`knowledge_upload_service.py:372`, `379`, `397`).
* `StreamedIsWhole` (`AdvisoryStream`): a heading the next piece turns into an ordinary
  line ends the feeding all the same.
* `RefreshIsSpaced` (`DashboardRefresh`): the countdown stays 0 during a refresh and
  the next tick asks for another one after it.
* `OwnEditStays`, `GapsClosed` (`RadioFeed`): a page read before a correction and handled
  after it shows the old text; a gap met while editing stays.
* `CanBeResumed` (`RadioScanner`): a paused call whose card is gone holds the scanner.
* `NoOldRole` (`UserSync`): an account is enabled before its old groups are removed.

Behaviour met while modelling on which the documents are silent or vague:

* the transcriber transcribes again if retention removed a transcript whose job is
  still there; a silent clip fails with the AWS provider instead of "no speech";
* a webhook whose recording failed is never recorded by its repetition;
* any error of the look for a name counts as a free name, although uploads promise "no
  silent overwrite"; a removal deletes whatever lies under the name by then;
* a retry-after of the CAD is obeyed whatever its length, and no request has a deadline as a
  whole: the age of calls called current is bounded by the network only;
* a directory that is not mounted empties a library, with status complete;
* a page whose text cannot be extracted is stored as an empty one, and a document without
  any text with no chunks, under status complete: nobody is told what the library lacks;
* a page of the EMS worker that the CAD took, but whose answer came late, was lost or is
  not JSON, is recorded as failed, and supervisors are paged again after the retry minutes;
* the budget of model calls is one per process and starts anew with it;
* station page: an alert shown in the 250 ms between two is covered without an
  acknowledgement; a late answer for the old choice of stations becomes the baseline
  of the new one; clearing one of two units pages again;
* MAE: ending voice mode does not cancel a microphone request under way; the avatar's
  Stop during an answer leaves the page busy;
* scanner: a tab chosen within 30 seconds of its last refresh plays what came before
  it was chosen; a refused call of the tab before is put into the new tab's queue; the
  same call may play in two tabs.

## 5. What is proved

TLC checks the instances above; the theorems hold for every value of the
constants that satisfies the named assumptions of the modules they extend, which TLC
evaluates in each run. Each proof follows one argument: an
inductive invariant (`IInv`), one lemma per action that it is kept, and the
properties as consequences. TLC was run on each `IInv` first. Large invariants
are proved by parts (types, flags, one clause after another) that a lemma puts
together.

**RadioUpload_proofs** (`TypeCorrect`, `NothingLost`, `MarkersAreReceipts`,
`MarkersExclusive`, `HeadWaits`, `UploadOrder`, `Refinement`).
None of the properties is inductive alone. That no segment is lost needs that a file
disappears only after a marker did its work (`FilesOK`); a marker is a receipt
only if the segment of the open request is the one answered (`PassOK`: the pass
holds queued segments and posts the oldest). The order needs `OrderOK`: everything
older than a segment of the pass is in the pass or settled, and for a segment
stored, *or in a late request*, all of it is settled. `Refinement` shows each
step to be a step of `SegmentDelivery` or a stutter; the status of a segment is
computed from the files. `MarkersAreReceipts` (`DoneMeansStored`) and `HeadWaits`
(`HeadIsQueued`) are proved and not among the run's properties: the first follows
from the refinement, the second is a step on the way to the others.

**Workers_proofs** (`TypeCorrect`, `NothingMissed`, `MarkAdvances`, `TranscriberTypes`,
`TranscriberKeepsItsPromise`, `CompleteLibraries`). The collector: `NothingMissed` is completeness for any page size, quota and number of calls. `Sure`
are the calls of the window that were in the CAD when the run started. Paging by
offset misses none of them although the search grows: positions only increase
(`SearchGrows`), so a sure call not found yet lies at or beyond the offset
(`RunOK`); a call beyond a page means that the page is full (`PageFull`), so
the page that ends the search is the last. `PageFull` rests on `PositionsFill`:
positions are 0, 1, ... without a gap, an injection of a finite set into an
interval of its size being onto. A call before the window was passed by the
old mark, since `Lag <= Overlap`.

The transcriber, from `JobAssumption` (`NoJob` is no job): the refinement of
`TranscriptionJobs`, step by step. `JobsOK` says that a job without transcript waits in one
of three directories, and `WorkerOK` that the job the worker is at is still its own, which
keeps a crash between two of its renames from being anything but a stutter.

The indexer, from `IndexAssumption` (a document has a batch at least): `CompleteLibraries`
for any documents, contents, batches and changes. The text and the hash of a row are of one
version of the file (`StoredOK`), so that a pass which compares only hashes may skip it;
what is being embedded is of the version the pass looked at (`DraftOK`), with no more chunks
than that version gives. The documents
behind the pass are as their files, unless a failure was noted (`PassOK`). A pass that dies
leaves the status "running", never the "complete" of the one before.

**PilotAccess_proofs** (`TypeCorrect`, `AdminRemainsSerially`, `OneRole`, `CompleteMeansServed`).
`GuardOK`: a request past its guard, or in need of none, leaves another enabled admin
behind, which other requests cannot undo while they take nothing away
(`GentleOK`). `RolesOK`: the one request that gives an account a role knows all
the roles it has. `CompleteMeansServed` (`KnowledgeUpload`): a document a sync saw is covered by
the newest job of each source the sync has started (`AllCovered`, `FirstCovered`): that job
is about to read it, has failed or been stopped, or has put it into the index. A newer job
reads the bucket again and covers what is still there. For the two steps of the status
(`ReadingOK`): what a source served of the documents due when its job was found COMPLETE it
serves as long as they lie there (`ServedStays`), so that the answer may be older than the
second look.

**EmsDelayAlert_proofs** (`TypeCorrect`, `NoCallForgotten`, `PagesSpaced`,
`RunsSettle`). For any calls, clock and intervals. `RowsOK` ties the row to what was
sent: a row in state "live" is due again at most `Repeat` after its page, and, unless a
death came between page and record, at least `Repeat` after it, or `Retry` if its answer was
lost (`Distance`); the second is what
spaces pages, the first what forgets nobody. `TurnOK` carries the guard of a page to the
moment it is sent, `DoneOK` says what the evaluation has done for the calls behind
it, and becomes the two other properties when it ends.

**RadioIngest_proofs** (`TypeCorrect`, `AudioIsThere`, `CorrectionsSurvive`,
`UploadsAreIdempotent`). `RequestsOK`: a handler past its put, or an editor past its
copy, has an object of today. So the object a row points to is no older than the
date the row counts from (`AudioOK`), which the longer of the two periods turns into
"it is there". `LocksOK`: what the holder of a row lock read is still what the row
says; hence a history stays a chain (`ChainOK`), and nobody's correction is written over
unseen. `KeptOK`: the row of a recent correction is retained from it, so the purge
passes it by. `UploadsAreIdempotent` is proved and not among the run's properties.

**RadioUnits_proofs** (`TypeCorrect`, `OvershootIsBounded`, `CachesCatchUp`). The
limit is passed by admins who counted before others inserted. `TakenOK` counts the
names that are there *and* those on their way: the admin who comes last sees
fewer than the limit in the table, and at most all other admins on their way. An admin
who replaces a name counts from the start, so that its removal by another is
no way around the bound. `CachesOK`: what a cache, or a reader about to fill one, holds
differs from the table only in what changed since the time it counts from.

**ServerParts_proofs, PageParts_proofs**. Components that share nothing, each with
constants and variables of its own; `ServerParts`, `PageParts` and `AppParts` state what these
constants have to be.

* `SpeechWaitsForTone` (`StationSound`): the announcement is released by the end of
  the tone only.
* `DailyBudgetHolds` (`CloudAdvisory`): for each day, the calls made and the
  reservations not yet used are together within the limit, and on the day being counted
  within the count (`DayOK`). A question that reserved before midnight and calls after it
  therefore spends what was counted for the day before.
* `EventsAreAsked` (`DashboardRefresh`): the property is inductive with the types.
* `InputIsReleased` (`MaeVoice`): the same; of all clips there are, only the one of the
  current speech session exists, which each new session has to take over.
* `CurrentDataIsRecent` (`CadRuntime`): time budgets. The deadline of the step a
  poll is at exceeds the time it got its calls by no more than the attempts made
  (`Spent`) and, while it fetches a token first, the secret store's time and one whole request
  more (`PollOK`). Attempts, pieces and pauses are any numbers, hence products, which needs a
  lemma of its own (`SpentGrows`).
* `SignalsBelong` (`RadioCapture`): a message is in one place only (`Once`): with the open
  segment, with the next one, handed over, or counted. Those with a segment came before
  its silence and the newest not too long before its start (`SegmentOK`, `PreOK`). The
  silence is positive: capture refuses a configuration with another one.
* `BrowsersAreToldOnce` (`Realtime`): what the cache says and what arrived must tell the
  same (`CacheOK`). An event that is in the cache arrived last before exactly those that
  lie behind it there; one of this life that is not there any more was followed by as many
  different events as the cache holds. Hence each arrival that got past the look-up had
  left the cache (`AgedOK`), also when it is passed on much later. The row in the database
  does the rest (`KeptOnce`). `QueuesOK` is inductive with the types.
* `SourcesAreSpared` (`AdvisoryStream`): a heading in the text is either one of the text
  before this piece or lies behind what was held back then (`HeadingWasHeld`); and what is held
  back never starts earlier than it did (`HeldBackGrows`), so no word fed before has to be
  taken back (`FeedOK`).
* `AlertsAreShown` (`StationAlerts`): inductive with the types, for which the server's answer
  has to be a sequence of alerts (`SnapshotTyped`). What is new in it is all that was not
  seen, in any order (`WithoutIs`), and nothing is lost when it is split into the one shown and
  the ones queued (`ElementsJoined`, `ElementsSplit`).
* `CallsPlayInOrder` (`RadioScanner`): a call the open tab's list has not got yet is newer
  than all that wait or have played last (`LineOK`). Calls are stored in their order, hence only
  the call just stored can become new on a page (`ArriveKeeps`). It also came after somebody
  began to listen, unless the next refresh is a quiet one (`HearsOK`). The scanner is asleep
  only while nothing waits (`AwakeOK`).
* `ListIsWhole` (`RadioFeed`): of the list and of a page only the set of segments matters,
  and that it is *whole*: it leaves out none between two of its own that its filter finds
  and that was not stored late. A page read from the top has everything newer than any of
  its rows; one read from the cursor on, everything between its rows and the cursor, which
  is one of the cards (`PageOK`). The first can be joined to a list it has a card in common
  with (`WholeOnTop`), the second always (`WholeBelow`); what fails both is the gap the page
  looks for. A segment stored between reading a page and handling it is the newest of all,
  or late (`FeedArrives`).
* `AccountsAreAsDeclared` (`UserSync`): with the calls that are left, an account becomes what
  the list says (`Leads`): it is enabled or about to be, the groups it has too many are about
  to be removed, the one it needs is there or about to be added. Removals come before the
  addition, so that what an account has on the way is part of what it had, or its one new
  group; nothing else depends on the order of the calls.
* `FeedTypesHold` (`RadioFeed`): that no card is twice on the page is part of its type and the
  longest proof of types. An answer has nothing twice (its rows are put in order, `DownwardIs`)
  and no more than a page, since of any set at most `n` elements have fewer than `n` above
  them (`NewestAreFew`); what is shown is left out of it (`WithoutDiffers`) before the two
  are joined (`JoinDiffers`). The text a card is filled with is one of the answer's (`TextIs`).
* `CountyTypes`, `WebhookTypesHold`, `LibraryTypesHold`, `AvatarTypes`, `SyncTypesHold`: the
  types of the parts whose properties need less than all of them. Each is inductive, alone or
  with the invariant of the property: in `CountyReport` the job just started is the newest of
  those kept and so not the one dropped for its sake (`NewestStays`), in `Realtime` the
  limits of cache and queues are kept because the oldest leaves first.
* `MonthsAreWhole` (`DomesticReport`), from `DomesticAssumption`: `NoCount` is no count, and at
  least one report is kept. Jobs are numbered as they start, the newest is never the one
  dropped, and only one runs (`OneJob`). It counts its months in their order (`InTurn`), so
  that the month it is at is well defined, and has read no more of it than there is
  (`ReadSoFar`): calls only get more. Unless it read the clock on two days, it
  takes for today the last day it asks about (`OneDay`); a month it takes for one that is over
  has then passed, calls come in today only, and what was counted stays right however late
  it is reported or remembered (`Counted`, `CountedStays`).

Several of these speak of a first or last one of a set: the last newline, the first
heading, the last arrival of an event, the oldest call that waits. That a finite set of
numbers has a least and a greatest element (`LeastOf`, `GreatestOf`) is a statement about
data, for which the library's induction theorems cannot be used; it follows from the
well-foundedness of the subsets of a finite set, which the library states without an
operator: the initial segments of the set have a minimal one. For natural numbers it
follows from their order directly (`LeastNatural`, `GreatestBelow`). That a finite set of
numbers can be put in order (`InOrderIs`, about `Orders`) follows from ranks: how many
smaller ones a number has is an injection of the set into an interval of its size, hence onto.
`Orders` takes the place of `SetToSortSeq` and `SelectSeq`, which rest on operators the provers
know no definition of.

**The runs that compose.** `AllTypesCorrect`, in `RadioIngest_proofs`, `EmsDelayAlert_proofs`,
`PilotAccess_proofs` and `Workers_proofs`, states `AllTypesOK` of `MCServices`, `MCAlerts`,
`MCApplication` and `MCWorkers`. The parts
of such a run share nothing: a step of one leaves the variables of the others alone, so
the specification of the run implies that of each part (`ServicesFollow`, `AlertsFollow`,
`ApplicationFollow`, `WorkersFollow`), and the theorems about a part, proved from its own specification, hold in
the run. `TypeCorrect` of the four components and the types above are put together.

Only model-checked: liveness (`QueueIsDrained`, `EveryCallCollected`, `JobsSettle`,
`IndexCatchesUp`), which is out of the prover's reach. Every invariant and every action property
of the passing runs is stated by a theorem. `TypeOK` of `RadioUnits` is the other way round:
proved, and not a property of its run.

## 6. What is not modelled

The status and the reason of each part are in `PROJECT.json`. In short:

* parts without state between requests: identity, roles and tiers; normalisation of
  CAD answers; the intents and prompts of MAE, Mindshare and JACK; reporting over
  stored calls; the cloud report; the tools of the cloud assistant;
* an import that runs once in one transaction (analytics import);
* rendering, forms, maps, charts and the administrator tabs of the pages; the radio
  alerts panel;
* declarations (infrastructure), of which two lifecycle rules are actions of
  `RadioIngest`, and demonstration data (NGA911);
* the on-premises recorders and the avatar's remote session.

Assumptions about what is outside: a job's wav lies beside it when capture hands it
over; S3 deletes no earlier than its rules say; PostgreSQL gives row locks and atomic
commits; Cognito's calls are atomic one by one; the CAD returns what it holds; Bedrock
runs one ingestion job per source; a browser runs one handler at a time.

## 7. Plan

Done: delivery of segments with its refinement and proofs; the server's side and its
limits; the workers; access review with proofs; transcriber, capture, webhooks,
document library, CAD poller, reports, assistant, and the pages of the browser.

Theorems: every safety property of the passing runs, the types among them.

Models that could follow: `RadioUpload` with the ingest of `RadioIngest` instead of
`accepted`, which shows that "stored" in the first is a row in the second; fixes, watch
terms and hints as instances of the limited table of `RadioUnits`; the avatar's remote
session; the radio alerts panel.
