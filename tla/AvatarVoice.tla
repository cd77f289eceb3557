---------------------------- MODULE AvatarVoice ----------------------------
(***************************************************************************)
(* The page of MAE's avatar (lcdash-mae-avatar.js), against the cloud: the *)
(* button that is held to talk, the question it becomes, and the answer    *)
(* spoken by the page.  The microphone is granted some time after it was   *)
(* asked for, and nothing cancels the request.                             *)
(*                                                                         *)
(* The microphone and its audio graph open in one step; a clip is taken    *)
(* from the graph in the step that ends it.  The session of the remote     *)
(* avatar is off, as it is by default.                                     *)
(***************************************************************************)
EXTENDS Naturals

CONSTANTS
  MaxAsked,    \* bound: requests for the microphone at a time
  MaxStreams,  \* bound: microphones open at a time
  MaxClips     \* bound: clips in transcription at a time

VARIABLES
  held,     \* the button is down
  opening,  \* calls of getUserMedia under way
  streams,  \* microphones open
  stream,   \* pcmStream is one of them
  capture,  \* pcmCapture is recording
  clips,    \* clips in transcription
  pc,       \* where the question is: busy unless "idle"
  owner,    \* whose speech session is the current one
  voice,    \* what the current session is at
  stuck,    \* the question waits for a clip that was paused
  greeting  \* is it loading, did the browser block it, was it attempted?

ears == <<held, opening, streams, stream, capture, clips>>
talk == <<pc, owner, voice, stuck, greeting>>
vars == <<ears, talk>>

TypeOK ==
  /\ {held, stream, capture, stuck} \subseteq BOOLEAN
  /\ opening \in 0..MaxAsked /\ clips \in 0..MaxClips
  /\ streams \in 0..MaxStreams /\ (stream => streams > 0)
  /\ pc \in {"idle", "answer", "speaking"}
  /\ owner \in {"nobody", "question", "greeting"}
  /\ voice \in {"silent", "making", "playing"}
  /\ greeting \in {"loading", "blocked", "tried"}

Init ==
  /\ held = FALSE /\ opening = 0 /\ streams = 0 /\ stream = FALSE
  /\ capture = FALSE /\ clips = 0
  /\ pc = "idle" /\ owner = "nobody" /\ voice = "silent" /\ stuck = FALSE
  /\ greeting = "loading"
-----------------------------------------------------------------------------
busy == pc # "idle"

(* speech.begin and speech.stop: the clip is paused, and a paused clip     *)
(* neither ends nor fails.                                                 *)
Session(who, doing) ==
  /\ owner' = who /\ voice' = doing
  /\ stuck' = (stuck \/ (owner = "question" /\ pc = "speaking" /\ voice = "playing"))

Silence == Session("nobody", "silent")

(* startRecording, once the button is pressed *)
Press ==
  /\ ~held /\ held' = TRUE
  /\ IF capture \/ busy
     THEN UNCHANGED <<opening, talk>>
     ELSE /\ opening < MaxAsked /\ opening' = opening + 1
          /\ Silence /\ UNCHANGED <<pc, greeting>>
  /\ UNCHANGED <<streams, stream, capture, clips>>

Granted ==
  /\ opening > 0 /\ opening' = opening - 1
  /\ streams < MaxStreams /\ streams' = streams + 1
  /\ stream' = TRUE /\ capture' = TRUE
  /\ UNCHANGED <<held, clips, talk>>

(* releasePcmGraph *)
Released ==
  /\ streams' = IF stream THEN streams - 1 ELSE streams
  /\ stream' = FALSE /\ capture' = FALSE

Denied ==
  /\ opening > 0 /\ opening' = opening - 1
  /\ Released
  /\ UNCHANGED <<held, clips, talk>>

(* stopRecording: the button is released, or the pointer leaves it, held   *)
(* or not.  A clip that is too small is dropped.                           *)
Release ==
  /\ held \/ capture
  /\ held' = FALSE
  /\ IF capture
     THEN /\ Released
          /\ clips' \in {clips, clips + 1} \cap (0..MaxClips)
     ELSE UNCHANGED <<streams, stream, capture, clips>>
  /\ UNCHANGED <<opening, talk>>

(* ask: a question that comes while another is asked is dropped. *)
Asked ==
  IF busy THEN UNCHANGED talk
  ELSE pc' = "answer" /\ Session("question", "silent") /\ UNCHANGED greeting

Type == ~busy /\ Asked /\ UNCHANGED ears

Transcribed ==
  /\ clips > 0 /\ clips' = clips - 1
  /\ Asked \/ UNCHANGED talk
  /\ UNCHANGED <<held, opening, streams, stream, capture>>

(* speech.enqueue *)
Enqueue ==
  voice' = IF owner = "question" /\ voice = "silent" THEN "making" ELSE voice

Chunk ==
  /\ pc = "answer" /\ Enqueue
  /\ UNCHANGED <<ears, pc, owner, stuck, greeting>>

(* The answer is complete, spoken as a whole unless it was in chunks. *)
Answered ==
  /\ pc = "answer" /\ pc' = "speaking"
  /\ Enqueue \/ UNCHANGED voice
  /\ UNCHANGED <<ears, owner, stuck, greeting>>

(* speech.idle: the queue as it was when the answer was complete *)
Done ==
  /\ pc = "speaking" /\ ~stuck
  /\ owner = "question" => voice = "silent"
  /\ pc' = "idle"
  /\ UNCHANGED <<ears, owner, voice, stuck, greeting>>

AskFails ==
  /\ pc = "answer" /\ pc' = "idle"
  /\ UNCHANGED <<ears, owner, voice, stuck, greeting>>

Made ==
  /\ voice = "making" /\ voice' \in {"playing", "silent"}
  /\ UNCHANGED <<ears, pc, owner, stuck, greeting>>

Ended ==
  /\ voice = "playing" /\ voice' \in {"making", "silent"}
  /\ UNCHANGED <<ears, pc, owner, stuck, greeting>>

Stop ==
  /\ voice = "playing" /\ Silence
  /\ UNCHANGED <<ears, pc, greeting>>

Greet ==
  /\ greeting \in {"loading", "blocked"} /\ greeting' = "tried"
  /\ Session("greeting", "making")
  /\ UNCHANGED <<ears, pc>>

(* The browser does not let a page speak nobody has touched yet; the first *)
(* touch greets again.                                                     *)
Blocked ==
  /\ owner = "greeting" /\ voice = "making" /\ voice' = "silent"
  /\ greeting' = "blocked"
  /\ UNCHANGED <<ears, pc, owner, stuck>>

Next ==
  \/ Press \/ Granted \/ Denied \/ Release \/ Type \/ Transcribed
  \/ Chunk \/ Answered \/ Done \/ AskFails \/ Made \/ Ended
  \/ Stop \/ Greet \/ Blocked

Spec == Init /\ [][Next]_vars
-----------------------------------------------------------------------------
(* Between questions the microphone is closed: the comment on              *)
(* releasePcmGraph says of a stream left open that it "is not something a  *)
(* 911 console should ever do".                                            *)
MicReleased == ~held /\ opening = 0 => streams = 0

(* A person can always ask: no question waits for speech that was stopped. *)
InputNotLocked == ~stuck
=============================================================================
