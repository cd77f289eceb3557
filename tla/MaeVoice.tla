------------------------------ MODULE MaeVoice ------------------------------
(***************************************************************************)
(* MAE's voice mode in the browser, against the cloud (lcdash-mae.js).     *)
(* The microphone is captured until a pause, the clip is transcribed and   *)
(* asked, the answer is streamed and spoken sentence by sentence, and then *)
(* the page listens again.  Meanwhile a person may type a question, have   *)
(* an old answer read out, or end the session; none of this cancels what   *)
(* awaits an answer or a timer.                                            *)
(*                                                                         *)
(* A task is one run of an asynchronous handler: a question, a Listen      *)
(* button or the greeting.  A promise that is kept already is handled in   *)
(* the same step.  The microphone and its audio graph open in one step and *)
(* are asked for once at a time.                                           *)
(***************************************************************************)
EXTENDS Naturals

CONSTANTS
  Task, NoTask,
  MaxTimers     \* bound: timers that run at a time

VARIABLES
  mode,       \* voiceModeActive
  opening,    \* getUserMedia is under way
  stream,     \* microphoneStream
  mic,        \* its tracks are enabled
  capture,    \* pcmCapture
  heard,      \* speechDetected
  timers,     \* timers that will call beginListeningCycle
  busy,       \* maeBusy: no question can be typed
  current,    \* the task whose speech session is the current one, or NoTask
  clip,       \* what is left to play of a task's speech
  pc,         \* where a task is
  aloud       \* settings.speakResponse of a question

ears  == <<mode, opening, stream, mic, capture, heard, timers>>
voice == <<current, clip>>
work  == <<busy, pc, aloud>>
vars  == <<ears, voice, work>>

Streaming == {"streaming", "flowing"}    \* nothing, something was spoken
Asking    == {"stream", "whole", "plain", "tail", "spoken"} \cup Streaming
Speaking  == {"tail", "spoken", "after", "greet", "listen"}

TypeOK ==
  /\ {mode, opening, stream, mic, capture, heard, busy} \subseteq BOOLEAN
  /\ timers \in 0..MaxTimers
  /\ current \in Task \cup {NoTask}
  /\ clip \in [Task -> {"none", "making", "playing"}]
  /\ pc \in [Task -> Asking \cup Speaking \cup {"idle", "transcribing"}]
  /\ aloud \in [Task -> BOOLEAN]

Init ==
  /\ mode = FALSE /\ opening = FALSE /\ stream = FALSE /\ mic = FALSE
  /\ capture = FALSE /\ heard = FALSE /\ timers = 0 /\ busy = FALSE
  /\ current = NoTask /\ clip = [t \in Task |-> "none"]
  /\ pc = [t \in Task |-> "idle"] /\ aloud = [t \in Task |-> FALSE]

Goto(t, where) == pc' = [pc EXCEPT ![t] = where]

-----------------------------------------------------------------------------
PausedForever ==                \* fault: who waits for a stopped clip waits on
  [t \in Task |-> IF clip[t] = "playing" THEN "playing" ELSE "none"]
(* resetPlayer: whoever waits for the clip of an old session is released. *)
Abandoned == [t \in Task |-> "none"]

(* speech.stop, and speech.begin for a new session *)
Silence == current' = NoTask /\ clip' = Abandoned
Begin(t) == current' = t /\ clip' = Abandoned

(* speech.enqueue: only the current session gets to speak. *)
Enqueue(t) ==
  /\ clip' = IF current = t /\ clip[t] = "none" THEN [clip EXCEPT ![t] = "making"]
             ELSE clip
  /\ UNCHANGED current

(* Speech is made, and played unless it could not be; there may be more.   *)
ClipMade(t) ==
  /\ clip[t] = "making"
  /\ \E next \in {"playing", "none"} : clip' = [clip EXCEPT ![t] = next]
  /\ UNCHANGED <<ears, current, work>>

ClipEnds(t) ==
  /\ clip[t] = "playing" /\ current = t
  /\ \E next \in {"making", "none"} : clip' = [clip EXCEPT ![t] = next]
  /\ UNCHANGED <<ears, current, work>>

(* speakAnswer: the microphone pauses in voice mode. *)
Speak(t) == current' = t /\ clip' = [Abandoned EXCEPT ![t] = "making"]
SpeakAnswer(t) == Speak(t) /\ mic' = (mic /\ ~mode)

-----------------------------------------------------------------------------
(* beginListeningCycle, as things are at the end of the step *)
Listening ==
  IF mode /\ stream /\ ~busy'
  THEN mic' = TRUE /\ capture' = TRUE /\ heard' = FALSE
  ELSE UNCHANGED <<mic, capture, heard>>

LaterListening == timers < MaxTimers /\ timers' = timers + 1

(* stopListeningCycle(true) and, with finishVoiceRecording, what becomes   *)
(* of the discarded clip: the page listens again unless it is busy.        *)
Discard ==
  /\ capture' = FALSE
  /\ IF capture /\ mode /\ ~busy' THEN LaterListening ELSE UNCHANGED timers
  /\ UNCHANGED heard

TimerFires ==
  /\ timers > 0 /\ timers' = timers - 1
  /\ UNCHANGED work /\ Listening
  /\ UNCHANGED <<mode, opening, stream, voice>>

(* monitorVoiceLevel: someone speaks, ... *)
Hear ==
  /\ capture /\ mic /\ ~heard /\ heard' = TRUE
  /\ UNCHANGED <<mode, opening, stream, mic, capture, timers, voice, work>>

(* ... and pauses, ... *)
Pause(t) ==
  /\ capture /\ heard /\ pc[t] = "idle"
  /\ capture' = FALSE /\ mic' = FALSE
  /\ Goto(t, "transcribing")
  /\ UNCHANGED <<mode, opening, stream, heard, timers, voice, busy, aloud>>

(* ... or nobody does for 45 seconds, or the clip turns out empty. *)
Nothing ==
  /\ capture
  /\ UNCHANGED work /\ Discard /\ mic' = FALSE
  /\ UNCHANGED <<mode, opening, stream, voice>>

-----------------------------------------------------------------------------
(* startVoiceMode: asked for the microphone, ... *)
StartVoice ==
  /\ ~mode /\ ~opening /\ opening' = TRUE
  /\ UNCHANGED <<mode, stream, mic, capture, heard, timers, voice, work>>

(* ... gets it and greets, whatever was done meanwhile, ... *)
Opened(t) ==
  /\ opening /\ pc[t] = "idle"
  /\ opening' = FALSE /\ stream' = TRUE /\ mode' = TRUE
  /\ Speak(t) /\ mic' = FALSE /\ Goto(t, "greet")
  /\ UNCHANGED <<capture, heard, timers, busy, aloud>>

(* endVoiceMode *)
Ended ==
  /\ mode' = FALSE /\ stream' = FALSE /\ mic' = FALSE /\ capture' = FALSE
  /\ Silence
  /\ UNCHANGED <<heard, timers, work>>

(* ... or does not.  The session ends by its button as well. *)
Denied   == opening /\ opening' = FALSE /\ Ended
EndVoice == (mode \/ opening) /\ UNCHANGED opening /\ Ended

-----------------------------------------------------------------------------
(* ask, from its start to the first await *)
Asked(t, speak) ==
  /\ busy' = TRUE /\ aloud' = [aloud EXCEPT ![t] = speak]
  /\ IF speak /\ mode
       THEN \E where \in {"stream", "whole"} : Goto(t, where)
       ELSE Goto(t, "plain")

(* The form: whatever is being spoken or recorded is dropped. *)
Submit(t) ==
  /\ ~busy /\ pc[t] = "idle"
  /\ Asked(t, mode) /\ Silence
  /\ IF mode THEN Discard /\ mic' = (mic /\ ~capture)
             ELSE UNCHANGED <<mic, capture, heard, timers>>
  /\ UNCHANGED <<mode, opening, stream>>

Transcribed(t) ==
  /\ pc[t] = "transcribing"
  /\ Asked(t, TRUE)
  /\ UNCHANGED <<ears, voice>>

(* No question was understood, or the request has failed. *)
NotUnderstood(t) ==
  /\ pc[t] = "transcribing" /\ Goto(t, "idle")
  /\ \/ LaterListening
     \/ ~mode /\ UNCHANGED timers
  /\ UNCHANGED <<mode, opening, stream, mic, capture, heard, voice, busy, aloud>>

(* fetchCloudStreamedAnswer: its session begins when the answer does, ... *)
StreamOpens(t) ==
  /\ pc[t] = "stream" /\ Goto(t, "streaming")
  /\ Begin(t)
  /\ UNCHANGED <<ears, busy, aloud>>

(* ... its first sentence pauses the microphone, ... *)
Chunk(t) ==
  /\ pc[t] \in Streaming /\ Goto(t, "flowing")
  /\ Enqueue(t)
  /\ mic' = (mic /\ ~(pc[t] = "streaming" /\ mode))
  /\ UNCHANGED <<mode, opening, stream, capture, heard, timers, busy, aloud>>

(* ... and an answer that came without one is spoken as a whole.           *)
StreamEnds(t) ==
  /\ pc[t] \in Streaming /\ Goto(t, "tail")
  /\ IF pc[t] = "streaming" THEN Enqueue(t) ELSE UNCHANGED voice
  /\ UNCHANGED <<ears, busy, aloud>>

(* A stream that is refused or breaks is replaced by the whole answer.     *)
StreamFails(t) ==
  /\ pc[t] \in {"stream"} \cup Streaming /\ Goto(t, "whole")
  /\ IF pc[t] = "stream" THEN UNCHANGED voice ELSE Silence
  /\ UNCHANGED <<ears, busy, aloud>>

WholeComes(t) ==
  /\ pc[t] = "whole" /\ Goto(t, "spoken")
  /\ SpeakAnswer(t)
  /\ UNCHANGED <<mode, opening, stream, capture, heard, timers, busy, aloud>>

StillBusy == busy                      \* fault: an early return keeps the flag
(* The end of ask: whatever the answer was, questions can be typed again,  *)
(* and what has not been spoken is.                                        *)
NotBusy == FALSE

Unspoken(t) ==
  /\ busy' = NotBusy
  /\ IF aloud[t] /\ mode
       THEN SpeakAnswer(t) /\ Goto(t, "after") /\ UNCHANGED <<capture, heard>>
       ELSE Listening /\ Goto(t, "idle") /\ UNCHANGED voice
  /\ UNCHANGED <<mode, opening, stream, timers, aloud>>

PlainComes(t) == pc[t] = "plain" /\ Unspoken(t)

(* The request fails or its 130 seconds are over. *)
AskFails(t) ==
  /\ pc[t] \in {"stream", "whole", "plain"}
  /\ Unspoken(t)

(* They end in the middle of a stream: the speech is stopped, and the      *)
(* apology spoken.                                                         *)
TimesOut(t) ==
  /\ pc[t] \in Streaming
  /\ busy' = NotBusy
  /\ IF mode
       THEN SpeakAnswer(t) /\ Goto(t, "after") /\ UNCHANGED <<capture, heard>>
       ELSE Silence /\ Goto(t, "idle") /\ UNCHANGED <<mic, capture, heard>>
  /\ UNCHANGED <<mode, opening, stream, timers, aloud>>

(* The speech a task waits for is over or abandoned. *)
SpeechOver(t) ==
  /\ pc[t] \in Speaking /\ clip[t] = "none" /\ Goto(t, "idle")
  /\ busy' = IF pc[t] \in {"tail", "spoken"} THEN NotBusy ELSE busy
  /\ Listening
  /\ UNCHANGED <<mode, opening, stream, timers, voice, aloud>>

(* The Listen button of an answer: in voice mode the capture is stopped,   *)
(* and what was recorded is discarded.                                     *)
ReadAloud(t) ==
  /\ pc[t] = "idle" /\ Goto(t, "listen")
  /\ UNCHANGED <<mode, opening, stream, busy, aloud>>
  /\ IF mode THEN Discard ELSE UNCHANGED <<capture, heard, timers>>
  /\ SpeakAnswer(t)

Next ==
  \/ \E t \in Task :
       \/ ClipMade(t) \/ ClipEnds(t) \/ Pause(t) \/ Opened(t) \/ Submit(t)
       \/ Transcribed(t) \/ NotUnderstood(t) \/ StreamOpens(t) \/ Chunk(t)
       \/ StreamEnds(t) \/ StreamFails(t) \/ WholeComes(t) \/ PlainComes(t)
       \/ AskFails(t) \/ TimesOut(t) \/ SpeechOver(t) \/ ReadAloud(t)
  \/ TimerFires \/ Hear \/ Nothing \/ StartVoice \/ Denied \/ EndVoice

Spec == Init /\ [][Next]_vars
-----------------------------------------------------------------------------
(* Whoever keeps the input locked waits for an answer or for a clip that   *)
(* is in the player: neither the Stop button nor another voice leaves the  *)
(* page waiting for speech that will not end, or busy with nothing.        *)
InputNotLocked ==
  /\ busy => \E t \in Task : pc[t] \in Asking
  /\ \A t \in Task : clip[t] # "none" => current = t

(* VOICE_STACK.md: "Microphone capture is paused while MAE speaks to       *)
(* prevent feedback"; at the Listen button: "Pause hands-free capture so   *)
(* the answer is not recorded as input."                                   *)
NoEcho == ~(capture /\ mic /\ \E t \in Task : clip[t] = "playing")
=============================================================================
