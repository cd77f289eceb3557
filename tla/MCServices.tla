------------------------------ MODULE MCServices ------------------------------
(***************************************************************************)
(* Parts of the server that share nothing, checked in one run: the ingest  *)
(* and correction of radio segments and those below.  "part" says which of *)
(* them moves, from the first state on, and all others stay as they begin. *)
(* Ingest handlers are interchangeable, and so are editors.                *)
(***************************************************************************)
EXTENDS RadioIngest, ServerParts, TLC

VARIABLES
  part

capture == <<
  r_now, r_open, r_started, r_last, r_signal, r_pre, r_preAt, r_job,
  r_used, r_heard>>
realtime == <<
  w_cache, w_recorded, w_work, w_pc, w_queue, w_arrivals, w_published,
  w_behind, w_life>>
poller == <<
  c_now, c_shown, c_expires, c_phase, c_request, c_attempt, c_until,
  c_started, c_calls>>
stream == <<
  g_stage, g_collected, g_fed, g_found>>
domestic == <<
  d_today, d_calls, d_jobs, d_kept, d_thread, d_to, d_asof, d_skip,
  d_cache, d_torn>>
county == <<
  y_started, y_jobs, y_active, y_thread>>

all == <<
  part, vars, capture, realtime, poller, stream, domestic, county>>

ServicesInit ==
  /\ part \in {
      "ingest", "capture", "realtime", "poller", "stream", "domestic",
      "county"}
  /\ Init
  /\ Capture!Init
  /\ Webhooks!Init
  /\ Cad!Init
  /\ Stream!Init
  /\ Domestic!Init
  /\ County!Init

ServicesNext ==
  \/ /\ part = "ingest" /\ Next
     /\ UNCHANGED <<
          part, capture, realtime, poller, stream, domestic, county>>
  \/ /\ part = "capture" /\ Capture!Next
     /\ UNCHANGED <<
          part, vars, realtime, poller, stream, domestic, county>>
  \/ /\ part = "realtime" /\ Webhooks!Next
     /\ UNCHANGED <<
          part, vars, capture, poller, stream, domestic, county>>
  \/ /\ part = "poller" /\ Cad!Next
     /\ UNCHANGED <<
          part, vars, capture, realtime, stream, domestic, county>>
  \/ /\ part = "stream" /\ Stream!Next
     /\ UNCHANGED <<
          part, vars, capture, realtime, poller, domestic, county>>
  \/ /\ part = "domestic" /\ Domestic!Next
     /\ UNCHANGED <<
          part, vars, capture, realtime, poller, stream, county>>
  \/ /\ part = "county" /\ County!Next
     /\ UNCHANGED <<
          part, vars, capture, realtime, poller, stream, domestic>>

ServicesSpec == ServicesInit /\ [][ServicesNext]_all
-----------------------------------------------------------------------------
Handlers == Permutations(Worker) \cup Permutations(Editor)

(* Each component's state is of its type. *)
AllTypesOK ==
  /\ TypeOK
  /\ Capture!TypeOK /\ Webhooks!TypeOK /\ Cad!TypeOK /\ Stream!TypeOK
  /\ Domestic!TypeOK /\ County!TypeOK
=============================================================================
