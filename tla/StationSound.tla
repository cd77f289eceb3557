---------------------------- MODULE StationSound ----------------------------
(***************************************************************************)
(* What a station hears of an alert (lcdash-station-alerts.js): the paging *)
(* tone, and an announcement that is asked for when the tone starts and    *)
(* played when it has ended.  StationAlerts says when alerts are shown and *)
(* hidden; here they are at any time.  play() returns a promise: a player  *)
(* has not started until it is kept, it may be refused by the browser, and *)
(* pause() breaks it if it is not kept yet.  The event "ended" is handled  *)
(* at once.                                                                *)
(***************************************************************************)
VARIABLES
  visible,    \* the overlay is
  armed,      \* soundArmed
  tone,       \* the dispatch tone plays
  text,       \* there is a pendingAnnouncementText
  speech,     \* the announcement: see TypeOK
  release,    \* announcementReleasePending
  starting,   \* players whose play() has not settled
  cut         \* players whose play() was cut short and will be rejected

vars == <<visible, armed, tone, text, speech, release, starting, cut>>

Player == {"tone", "confirmation", "speech"}

TypeOK ==
  /\ {visible, armed, tone, text, release} \subseteq BOOLEAN
  /\ speech \in {"none", "asked", "dropped", "ready", "failed", "on"}
  /\ starting \subseteq Player /\ cut \subseteq Player

Init ==
  /\ visible = FALSE /\ armed = FALSE /\ tone = FALSE /\ text = FALSE /\ release = FALSE
  /\ speech = "none" /\ starting = {} /\ cut = {}

Audible == armed /\ visible

-----------------------------------------------------------------------------
ReleaseKept == release               \* fault: the flag outlives its tone
NotReleased == FALSE

(* stopAnnouncement *)
NoSpeech == text' = FALSE /\ speech' = "none" /\ release' = NotReleased

(* stopTone: both players and the announcement *)
StopTone ==
  /\ tone' = FALSE /\ NoSpeech
  /\ starting' = {} /\ cut' = cut \cup starting

(* playDispatchTone: what sounds is stopped, the announcement, if the      *)
(* alert has one, is asked for and the tone starts.                        *)
StartTone(announced) ==
  /\ tone' = TRUE /\ text' = announced /\ release' = NotReleased
  /\ speech' = IF announced THEN "asked" ELSE "none"
  /\ starting' = {"tone"} /\ cut' = cut \cup starting

(* showAlert, perhaps over another alert *)
Show(announced) ==
  /\ visible' = TRUE
  /\ IF armed THEN StartTone(announced)
     ELSE UNCHANGED <<tone, text, speech, release, starting, cut>>
  /\ UNCHANGED armed

(* hideAlert *)
Hide == visible' = FALSE /\ StopTone /\ UNCHANGED armed

(* testAlert; the overlay covers its button while it is visible. *)
TestAlert == ~visible /\ visible' = TRUE /\ armed' = TRUE /\ StartTone(TRUE)

(* armSound, with its confirmation *)
Arm ==
  /\ ~visible /\ armed' = TRUE
  /\ starting' = starting \cup {"confirmation"}
  /\ cut' = cut \cup (starting \cap {"confirmation"})
  /\ UNCHANGED <<visible, tone, text, speech, release>>

-----------------------------------------------------------------------------
(* play() has begun, ... *)
Started(p) ==
  /\ p \in starting
  /\ starting' = starting \ {p}
  /\ UNCHANGED <<visible, armed, tone, text, speech, release, cut>>

(* ... or was refused by the browser or cut short: the page disarms when a *)
(* tone did not play, and stops the announcement of this moment when one   *)
(* did not, be it the same or the next.                                    *)
Rejected(p, startingStill, cutStill) ==
  IF p = "speech"
  THEN /\ NoSpeech /\ UNCHANGED armed
       /\ starting' = startingStill \ {p}
       /\ cut' = cutStill \cup (startingStill \cap {p})
  ELSE /\ armed' = FALSE /\ UNCHANGED <<text, speech, release>>
       /\ starting' = startingStill /\ cut' = cutStill

Refused(p) ==
  /\ p \in starting
  /\ Rejected(p, starting \ {p}, cut)
  /\ tone' = (tone /\ p # "tone") /\ UNCHANGED visible

CutShort(p) ==
  /\ p \in cut
  /\ Rejected(p, starting, cut \ {p})
  /\ UNCHANGED <<visible, tone>>

-----------------------------------------------------------------------------
(* releasePreparedAnnouncement *)
Speak == speech' = "on" /\ release' = FALSE /\ starting' = starting \cup {"speech"}

(* The tone has ended: the announcement plays, or will once it is there. *)
ToneEnds ==
  /\ tone /\ "tone" \notin starting
  /\ tone' = FALSE /\ text' = FALSE
  /\ IF text /\ Audible /\ speech = "ready" THEN Speak
     ELSE release' = (release \/ text) /\ UNCHANGED <<speech, starting>>
  /\ UNCHANGED <<visible, armed, cut>>

(* prepareAnnouncement is answered: nothing is done with the speech when   *)
(* the sound was disarmed meanwhile.                                       *)
SpeechComes ==
  /\ speech = "asked"
  /\ IF Audible /\ release THEN Speak
     ELSE /\ speech' = IF Audible THEN "ready" ELSE "dropped"
          /\ UNCHANGED <<release, starting>>
  /\ UNCHANGED <<visible, armed, tone, text, cut>>

SpeechFails ==
  /\ speech = "asked" /\ speech' = "failed"
  /\ UNCHANGED <<visible, armed, tone, text, release, starting, cut>>

SpeechEnds ==
  /\ speech = "on" /\ "speech" \notin starting
  /\ NoSpeech
  /\ UNCHANGED <<visible, armed, tone, starting, cut>>

Next ==
  \/ \E announced \in BOOLEAN : Show(announced)
  \/ \E p \in Player : Started(p) \/ Refused(p) \/ CutShort(p)
  \/ Hide \/ TestAlert \/ Arm
  \/ ToneEnds \/ SpeechComes \/ SpeechFails \/ SpeechEnds

Spec == Init /\ [][Next]_vars
-----------------------------------------------------------------------------
(* VOICE_STACK.md: "speech cannot overlap, interrupt, or delay the         *)
(* authoritative paging audio", whenever it is ready, whatever is shown    *)
(* while it is made, and whichever player is refused or cut short.         *)
NoSpeechOverTone == ~(tone /\ speech = "on")
=============================================================================
