------------------------------- MODULE MCAlerts -------------------------------
(***************************************************************************)
(* Who is told of a call, and over which voice: the supervisors' pages for *)
(* EMS calls nobody answers, the station alert page, its paging tone,      *)
(* MAE's spoken conversation, that of her avatar, and the radio page with  *)
(* its list and the new calls it plays.                                    *)
(* They share nothing and are checked in one run: "part" says which of     *)
(* them moves, from the first state on, and the others stay as they begin. *)
(***************************************************************************)
EXTENDS EmsDelayAlert, PageParts

VARIABLES
  part

(* "All channels", and the tab of a group two of the calls belong to. *)
Listed == [all |-> 1..3, law |-> {2, 3}]

station == <<
  l_since, l_clock, l_chosen, l_choices, l_first, l_seen, l_pending,
  l_shown, l_due, l_asked, l_answers>>
sound == <<
  s_visible, s_armed, s_tone, s_text, s_speech, s_release, s_starting,
  s_cut>>
voice == <<
  v_mode, v_opening, v_stream, v_mic, v_capture, v_heard, v_timers, v_busy,
  v_current, v_clip, v_pc, v_aloud>>
avatar == <<
  b_held, b_opening, b_streams, b_stream, b_capture, b_clips, b_pc,
  b_owner, b_voice, b_stuck, b_greeting>>
scanner == <<
  f_stored, f_active, f_loaded, f_shown, f_ask, f_quiet, f_on, f_blocked,
  f_queue, f_current, f_promise, f_last, f_before, f_foreign, f_expired>>
feed == <<
  p_stored, p_text, p_narrow, p_loaded, p_list, p_version, p_nextBefore,
  p_ask, p_query, p_reply, p_editing, p_busy, p_committed, p_old, p_late,
  p_mixed, p_torn>>

all == <<
  part, vars, station, sound, voice, avatar, scanner, feed>>

AlertsInit ==
  /\ part \in {
      "ems", "station", "sound", "voice", "avatar", "scanner", "feed"}
  /\ Init
  /\ Station!Init
  /\ Sound!Init
  /\ Voice!Init
  /\ Avatar!Init
  /\ Scanner!Init
  /\ Feed!Init
  /\ part = "station" \/ l_chosen = {}

AlertsNext ==
  \/ /\ part = "ems" /\ Next
     /\ UNCHANGED <<
          part, station, sound, voice, avatar, scanner, feed>>
  \/ /\ part = "station" /\ Station!Next
     /\ UNCHANGED <<
          part, vars, sound, voice, avatar, scanner, feed>>
  \/ /\ part = "sound" /\ Sound!Next
     /\ UNCHANGED <<
          part, vars, station, voice, avatar, scanner, feed>>
  \/ /\ part = "voice" /\ Voice!Next
     /\ UNCHANGED <<
          part, vars, station, sound, avatar, scanner, feed>>
  \/ /\ part = "avatar" /\ Avatar!Next
     /\ UNCHANGED <<
          part, vars, station, sound, voice, scanner, feed>>
  \/ /\ part = "scanner" /\ Scanner!Next
     /\ UNCHANGED <<
          part, vars, station, sound, voice, avatar, feed>>
  \/ /\ part = "feed" /\ Feed!Next
     /\ UNCHANGED <<
          part, vars, station, sound, voice, avatar, scanner>>

AlertsSpec == AlertsInit /\ [][AlertsNext]_all
-----------------------------------------------------------------------------
(* Each component's state is of its type. *)
AllTypesOK ==
  /\ TypeOK /\ Station!TypeOK /\ Sound!TypeOK
  /\ Voice!TypeOK /\ Avatar!TypeOK /\ Scanner!TypeOK /\ Feed!TypeOK
=============================================================================
