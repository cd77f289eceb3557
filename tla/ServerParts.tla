----------------------------- MODULE ServerParts -----------------------------
(***************************************************************************)
(* Parts of the server that share nothing, each with constants and         *)
(* variables of its own: the capture of a radio stream, the poller of the  *)
(* CAD, its webhooks, the streamed answer of the assistant, and the jobs   *)
(* of two reports.                                                         *)
(***************************************************************************)
EXTENDS Naturals

-----------------------------------------------------------------------------
(* One stream of the radio capture (RadioCapture). *)

CONSTANTS
  RadioId, Unnamed, NoRecording, NoStamp, Silence, MaxSegment, Skip, Lookback,
  LastTick, MaxSignals

VARIABLES
  r_now, r_open, r_started, r_last, r_signal, r_pre, r_preAt, r_job, r_used,
  r_heard

Capture == INSTANCE RadioCapture WITH
  Radio <- RadioId, Unnamed <- Unnamed, NoJob <- NoRecording, NoTime <- NoStamp,
  Silence <- Silence, MaxSegment <- MaxSegment, Skip <- Skip, Lookback <- Lookback,
  MaxTime <- LastTick, MaxSignals <- MaxSignals, now <- r_now, open <- r_open,
  started <- r_started, last <- r_last, signal <- r_signal, pre <- r_pre,
  preAt <- r_preAt, job <- r_job, used <- r_used, heard <- r_heard

(* The silence that ends a segment is not empty: the configuration with    *)
(* another one is refused.                                                 *)
CaptureConstants ==
  /\ Silence \in Nat \ {0} /\ MaxSegment \in Nat /\ Skip \in Nat /\ Lookback \in Nat
  /\ LastTick \in Nat /\ MaxSignals \in Nat /\ NoStamp \notin Nat

ASSUME CaptureAssumption == CaptureConstants

(* What the names of the properties say is told in the modules they are    *)
(* from: a recording has the name of who was talking, ...                  *)
SignalBelongs == Capture!SignalBelongs

-----------------------------------------------------------------------------
(* The poller of the CAD (CadRuntime). *)

CONSTANTS
  NoTime, PollSeconds, CurrentAge, AnswerSeconds, AnswerPieces, SecretSeconds,
  LongestPause, Attempts, TokenLife, TokenMargin, LastTime

VARIABLES
  c_now, c_shown, c_expires, c_phase, c_request, c_attempt, c_until, c_started,
  c_calls

Cad == INSTANCE CadRuntime WITH
  NoTime <- NoTime, Poll <- PollSeconds, Fresh <- CurrentAge,
  Timeout <- AnswerSeconds, Pieces <- AnswerPieces, SecretTime <- SecretSeconds,
  MaxWait <- LongestPause, MaxAttempts <- Attempts,
  Life <- TokenLife, Margin <- TokenMargin, MaxTime <- LastTime,
  now <- c_now, shown <- c_shown, expires <- c_expires, phase <- c_phase,
  request <- c_request, attempt <- c_attempt, until <- c_until,
  started <- c_started, calls <- c_calls

CadConstants ==
  /\ PollSeconds \in Nat /\ CurrentAge \in Nat /\ AnswerSeconds \in Nat
  /\ AnswerPieces \in Nat /\ SecretSeconds \in Nat
  /\ LongestPause \in Nat /\ Attempts \in Nat \ {0} /\ TokenLife \in Nat
  /\ TokenMargin \in Nat /\ LastTime \in Nat /\ NoTime \notin Nat

ASSUME CadAssumption == CadConstants

(* ... data called current is, ... *)
CurrentIsRecent == Cad!CurrentIsRecent

-----------------------------------------------------------------------------
(* The webhooks of the CAD and the browsers that follow them (Realtime). *)

CONSTANTS
  Event, Request, Browser, NoArrival, CacheSize, QueueSize, MaxArrivals,
  MaxLives

VARIABLES
  w_cache, w_recorded, w_work, w_pc, w_queue, w_arrivals, w_published,
  w_behind, w_life

Webhooks == INSTANCE Realtime WITH
  cache <- w_cache, recorded <- w_recorded, work <- w_work, pc <- w_pc,
  queue <- w_queue, arrivals <- w_arrivals, published <- w_published,
  behind <- w_behind, life <- w_life

WebhookConstants ==
  /\ CacheSize \in Nat \ {0} /\ QueueSize \in Nat \ {0} /\ MaxArrivals \in Nat
  /\ MaxLives \in Nat /\ NoArrival \notin Nat

ASSUME WebhookAssumption == WebhookConstants

(* ... browsers are told once about an event, and of the newest ones, ...  *)
BrowsersFollow == Webhooks!BrowsersFollow

-----------------------------------------------------------------------------
(* One streamed answer of the assistant (AdvisoryStream). *)

CONSTANTS MaxText, MaxPiece

VARIABLES g_stage, g_collected, g_fed, g_found

Stream == INSTANCE AdvisoryStream WITH
  MaxDelta <- MaxPiece, stage <- g_stage, collected <- g_collected,
  fed <- g_fed, found <- g_found

StreamConstants == MaxText \in Nat /\ MaxPiece \in Nat

ASSUME StreamAssumption == StreamConstants

(* ... a list of sources is never read out, ... *)
SourcesNeverSpoken == Stream!SourcesNeverSpoken

-----------------------------------------------------------------------------
(* The year-to-date report (DomesticReport). *)

CONSTANTS
  Tenant, NoTenant, NoCount, DaysPerMonth, CallPage, KeptReports, CacheDays,
  Months, MaxReports, MaxCalls

VARIABLES
  d_today, d_calls, d_jobs, d_kept, d_thread, d_to, d_asof, d_skip, d_cache,
  d_torn

Domestic == INSTANCE DomesticReport WITH
  PageSize <- CallPage, Retained <- KeptReports, MaxJobs <- MaxReports,
  today <- d_today, calls <- d_calls, jobs <- d_jobs, kept <- d_kept,
  thread <- d_thread, to <- d_to, asof <- d_asof, skip <- d_skip,
  cache <- d_cache, torn <- d_torn

(* The newest job is always retained. *)
DomesticConstants ==
  /\ DaysPerMonth \in Nat \ {0} /\ Months \in Nat \ {0} /\ CallPage \in Nat
  /\ KeptReports \in Nat \ {0} /\ CacheDays \in Nat /\ MaxReports \in Nat
  /\ MaxCalls \in Nat
  /\ NoCount \notin Domestic!Reported \cup Domestic!Remembered

ASSUME DomesticAssumption == DomesticConstants

(* ... and a month reported as over is counted to the end. *)
OverIsWhole == Domestic!OverIsWhole

-----------------------------------------------------------------------------
(* The monthly report (CountyReport). *)

CONSTANTS Owner, ReportMonth, NoReport, KeptMonthly, MaxMonthly

VARIABLES y_started, y_jobs, y_active, y_thread

County == INSTANCE CountyReport WITH
  Month <- ReportMonth, NoJob <- NoReport, Retained <- KeptMonthly,
  MaxJobs <- MaxMonthly, started <- y_started, jobs <- y_jobs,
  active <- y_active, thread <- y_thread

CountyConstants == KeptMonthly \in Nat \ {0} /\ MaxMonthly \in Nat

ASSUME CountyAssumption == CountyConstants
=============================================================================
