------------------------------ MODULE PageParts ------------------------------
(***************************************************************************)
(* Parts of four pages that share nothing, each with constants and         *)
(* variables of its own: what a fire station sees and what it hears of an  *)
(* alert, the radio page with its list and the calls it plays, MAE's       *)
(* spoken conversation, and that of her avatar.                            *)
(***************************************************************************)
EXTENDS Naturals, FiniteSets

-----------------------------------------------------------------------------
(* The station alerts (StationAlerts). *)

CONSTANTS Incident, Unit, NoAlert, MaxAssign, MaxPolls, MaxChoices

VARIABLES
  l_since, l_clock, l_chosen, l_choices, l_first, l_seen, l_pending, l_shown,
  l_due, l_asked, l_answers

Station == INSTANCE StationAlerts WITH
  Call <- Incident, since <- l_since, clock <- l_clock, chosen <- l_chosen,
  choices <- l_choices, first <- l_first, seen <- l_seen,
  pending <- l_pending, shown <- l_shown, due <- l_due, asked <- l_asked,
  answers <- l_answers

StationConstants ==
  /\ IsFiniteSet(Incident) /\ IsFiniteSet(Unit)
  /\ MaxAssign \in Nat /\ MaxPolls \in Nat /\ MaxChoices \in Nat

ASSUME StationAssumption == StationConstants

(* What the names of the properties say is told in the modules they are    *)
(* from: a station's alert does not get lost in the page, ...              *)
OnlyShownLeaves == Station!OnlyShownLeaves

-----------------------------------------------------------------------------
(* The sound of the station alerts (StationSound). *)

VARIABLES
  s_visible, s_armed, s_tone, s_text, s_speech, s_release, s_starting, s_cut

Sound == INSTANCE StationSound WITH
  visible <- s_visible, armed <- s_armed, tone <- s_tone, text <- s_text,
  speech <- s_speech, release <- s_release, starting <- s_starting,
  cut <- s_cut

(* ... nobody speaks over the paging tone of a station, ...                *)
NoSpeechOverTone == Sound!NoSpeechOverTone

-----------------------------------------------------------------------------
(* The radio page that plays new calls (RadioScanner). *)

CONSTANTS
  RadioCall, FirstCalls, NoiseCalls, RadioTab, ListedIn, StartTab, FeedPage,
  ScanQueue, NoCall

VARIABLES
  f_stored, f_active, f_loaded, f_shown, f_ask, f_quiet, f_on, f_blocked,
  f_queue, f_current, f_promise, f_last, f_before, f_foreign, f_expired

Scanner == INSTANCE RadioScanner WITH
  Call <- RadioCall, First <- FirstCalls, Noise <- NoiseCalls,
  Tab <- RadioTab, In <- ListedIn, Start <- StartTab, PageSize <- FeedPage,
  MaxQueue <- ScanQueue, stored <- f_stored, active <- f_active,
  loaded <- f_loaded, shown <- f_shown, ask <- f_ask, quiet <- f_quiet,
  on <- f_on, blocked <- f_blocked, queue <- f_queue, current <- f_current,
  promise <- f_promise, last <- f_last, before <- f_before,
  foreign <- f_foreign, expired <- f_expired

(* Calls are numbered as they were recorded, and stored in this order.     *)
ScannerConstants ==
  /\ RadioCall \subseteq Nat \ {0} /\ FirstCalls \subseteq RadioCall
  /\ IsFiniteSet(FirstCalls) /\ \A s \in FirstCalls : 1..s \subseteq FirstCalls
  /\ StartTab \in RadioTab /\ ListedIn \in [RadioTab -> SUBSET RadioCall]
  /\ FeedPage \in Nat /\ ScanQueue \in Nat
  /\ NoCall \notin Scanner!Card

ASSUME ScannerAssumption == ScannerConstants

(* ... the radio page plays what is new, once and in order, ...            *)
ScannerFollows == Scanner!ScannerFollows

-----------------------------------------------------------------------------
(* The list of the radio page (RadioFeed). *)

CONSTANTS Entry, FirstEntries, NarrowEntries, ListPage, EditedEntries, MaxEdits

VARIABLES
  p_stored, p_text, p_narrow, p_loaded, p_list, p_version, p_nextBefore,
  p_ask, p_query, p_reply, p_editing, p_busy, p_committed, p_old, p_late,
  p_mixed, p_torn

Feed == INSTANCE RadioFeed WITH
  Segment <- Entry, First <- FirstEntries, Narrow <- NarrowEntries,
  PageSize <- ListPage, Edited <- EditedEntries, stored <- p_stored,
  text <- p_text, narrow <- p_narrow, loaded <- p_loaded, list <- p_list,
  version <- p_version, nextBefore <- p_nextBefore, ask <- p_ask,
  query <- p_query, reply <- p_reply, editing <- p_editing, busy <- p_busy,
  committed <- p_committed, old <- p_old, late <- p_late, mixed <- p_mixed,
  torn <- p_torn

(* A page asks for at least one segment; 0 stands for no segment.          *)
FeedConstants ==
  /\ Entry \subseteq Nat \ {0} /\ FirstEntries \subseteq Entry
  /\ IsFiniteSet(FirstEntries) /\ ListPage \in Nat \ {0} /\ MaxEdits \in Nat

ASSUME FeedAssumption == FeedConstants

(* ... the radio page neither skips segments nor drops drafts, ... *)
FeedIsWhole == Feed!FeedIsWhole

-----------------------------------------------------------------------------
(* MAE's voice mode (MaeVoice). *)

CONSTANTS Talk, NoTalk, MaxTimers

VARIABLES
  v_mode, v_opening, v_stream, v_mic, v_capture, v_heard, v_timers, v_busy,
  v_current, v_clip, v_pc, v_aloud

Voice == INSTANCE MaeVoice WITH
  Task <- Talk, NoTask <- NoTalk, MaxTimers <- MaxTimers,
  mode <- v_mode, opening <- v_opening, stream <- v_stream, mic <- v_mic,
  capture <- v_capture, heard <- v_heard, timers <- v_timers, busy <- v_busy,
  current <- v_current, clip <- v_clip, pc <- v_pc, aloud <- v_aloud

VoiceConstants == NoTalk \notin Talk /\ MaxTimers \in Nat

ASSUME VoiceAssumption == VoiceConstants

(* ... and MAE's page does not wait for speech that will not end. *)
InputNotLocked == Voice!InputNotLocked

-----------------------------------------------------------------------------
(* MAE's avatar (AvatarVoice). *)

CONSTANTS MaxAsked, MaxStreams, MaxClips

VARIABLES
  b_held, b_opening, b_streams, b_stream, b_capture, b_clips, b_pc, b_owner,
  b_voice, b_stuck, b_greeting

Avatar == INSTANCE AvatarVoice WITH
  held <- b_held, opening <- b_opening, streams <- b_streams,
  stream <- b_stream, capture <- b_capture, clips <- b_clips, pc <- b_pc,
  owner <- b_owner, voice <- b_voice, stuck <- b_stuck,
  greeting <- b_greeting

AvatarConstants == MaxAsked \in Nat /\ MaxStreams \in Nat /\ MaxClips \in Nat

ASSUME AvatarAssumption == AvatarConstants
=============================================================================
