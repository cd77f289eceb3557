---------------------------- MODULE RadioCapture ----------------------------
(***************************************************************************)
(* One stream of the radio capture (radio_listener/capture.py): voice      *)
(* packets open, extend and close a segment, and signalling messages say   *)
(* who is talking.  A message heard while no segment is open is kept for   *)
(* the next one.  Every decision compares clock readings; the check that   *)
(* closes a silent segment runs when the receive loop comes to it, so      *)
(* packets and messages reach a segment that is silent but still open.     *)
(*                                                                         *)
(* A message either names a radio or it does not (a console's label, a     *)
(* talkgroup); the fields it carries beside the radio are the messages     *)
(* themselves here.  Sound, counters and the RTP layout are left out.      *)
(***************************************************************************)
EXTENDS Naturals, Sequences, FiniteSets

CONSTANTS
  Radio,       \* radio ids
  Unnamed,     \* a message without a radio id
  NoJob,
  NoTime,
  Silence,     \* segment_silence_seconds
  MaxSegment,  \* max_segment_seconds
  Skip,        \* skip_segments_up_to_seconds; 0 keeps every segment
  Lookback,    \* SIGNAL_LOOKBACK_SECONDS
  MaxTime,     \* bound: the last tick of the clock
  MaxSignals   \* bound: messages heard

VARIABLES
  now,
  open,      \* a segment is open (self.wav)
  started,   \* its start
  last,      \* its last voice packet
  signal,    \* segment_signal: the radio, and the messages folded in
  pre,       \* _pre_signal
  preAt,     \* _pre_signal_at
  job,       \* the last segment handed to the transcriber; history: with
             \* the time of its last voice packet
  used,      \* history: the messages of the segments before it
  heard      \* history: the messages, as [who, at]

segment == <<open, started, last, signal>>
handed  == <<job, used>>
vars == <<now, segment, pre, preAt, handed, heard>>

Times == 0..MaxTime
Messages(j) == IF j = NoJob THEN {} ELSE j.signal.messages
Silent == [radio |-> Unnamed, messages |-> {}]
Signals == [radio : Radio \cup {Unnamed}, messages : SUBSET (1..MaxSignals)]

TypeOK ==
  /\ now \in Times
  /\ open \in BOOLEAN
  /\ started \in Times \cup {NoTime} /\ last \in Times \cup {NoTime}
  /\ open = (started # NoTime) /\ (open = (last # NoTime))
  /\ signal \in Signals /\ pre \in Signals
  /\ preAt \in Times \cup {NoTime}
  /\ job \in [start : Times, last : Times, signal : Signals] \cup {NoJob}
  /\ used \subseteq 1..MaxSignals
  /\ heard \in Seq([who : Radio \cup {Unnamed}, at : Times])
  /\ Len(heard) <= MaxSignals

Init ==
  /\ now = 0
  /\ open = FALSE /\ started = NoTime /\ last = NoTime /\ signal = Silent
  /\ pre = Silent /\ preAt = NoTime
  /\ job = NoJob /\ used = {} /\ heard = <<>>

-----------------------------------------------------------------------------
Tick == now < MaxTime /\ now' = now + 1
        /\ UNCHANGED <<segment, pre, preAt, handed, heard>>

(* accept and finish_if_idle close a segment for these reasons. *)
Idle    == open /\ now - last >= Silence
Expired == open /\ now - started >= MaxSegment

TooShort == Skip # 0 /\ now - started <= Skip

(* finish_segment: the job file of the open segment is published. *)
Finish ==
  IF TooShort THEN UNCHANGED handed
  ELSE /\ job' = [start |-> started, last |-> last, signal |-> signal]
       /\ used' = used \cup Messages(job)

Close ==
  /\ Finish
  /\ open' = FALSE /\ started' = NoTime /\ last' = NoTime /\ signal' = Silent

PreAlways == pre                                \* fault: whatever its age
PreSignal ==
  IF preAt # NoTime /\ now - preAt <= Lookback THEN pre ELSE Silent

PreKept == pre' = pre /\ preAt' = preAt         \* fault: not used up
PreUsed == pre' = Silent /\ preAt' = NoTime

(* start_segment, and the packet that opened it *)
Open ==
  /\ open' = TRUE /\ started' = now /\ last' = now
  /\ signal' = PreSignal
  /\ PreUsed

(* accept: one voice packet. *)
Voice ==
  /\ IF open /\ ~Idle /\ ~Expired
       THEN /\ last' = now
            /\ UNCHANGED <<open, started, signal, pre, preAt, handed>>
       ELSE /\ IF open THEN Finish ELSE UNCHANGED handed
            /\ Open
  /\ UNCHANGED <<now, heard>>

(* finish_if_idle, once per round of the receive loop. *)
Check ==
  /\ Idle \/ Expired
  /\ Close
  /\ UNCHANGED <<now, pre, preAt, heard>>

(* dict.update: the fields of the message replace those already there. *)
Fold(s, who, m) ==
  [radio |-> IF who = Unnamed THEN s.radio ELSE who, messages |-> s.messages \cup {m}]

Conflict(s, who) == who # Unnamed /\ s.radio # Unnamed /\ s.radio # who

LiveUntilClosed == open                        \* fault: silent is still live
Live == open /\ ~Idle

NoteLive(who, m) ==
  /\ signal' = IF Conflict(signal, who) THEN signal ELSE Fold(signal, who, m)
  /\ UNCHANGED <<pre, preAt>>

NoteNext(who, m) ==
  /\ LET fresh == preAt # NoTime /\ now - preAt <= Lookback
     IN  pre' = IF fresh /\ ~Conflict(pre, who)
                  THEN Fold(pre, who, m) ELSE Fold(Silent, who, m)
  /\ preAt' = now
  /\ UNCHANGED signal

(* note_signal: one message that parses. *)
Note(who) ==
  /\ Len(heard) < MaxSignals
  /\ heard' = Append(heard, [who |-> who, at |-> now])
  /\ IF Live THEN NoteLive(who, Len(heard')) ELSE NoteNext(who, Len(heard'))
  /\ UNCHANGED <<now, open, started, last, handed>>

(* The loop ends: close hands the open segment over. *)
Stop ==
  /\ IF open THEN Close ELSE UNCHANGED <<segment, handed>>
  /\ PreUsed
  /\ UNCHANGED <<now, heard>>

(* The process dies: a recording without a job stays behind. *)
Crash ==
  /\ open' = FALSE /\ started' = NoTime /\ last' = NoTime /\ signal' = Silent
  /\ PreUsed
  /\ UNCHANGED <<now, handed, heard>>

Next ==
  \/ Tick \/ Voice \/ Check \/ Stop \/ Crash
  \/ \E who \in Radio \cup {Unnamed} : Note(who)

Spec == Init /\ [][Next]_vars
-----------------------------------------------------------------------------
(* The name on a recording is the name of who was talking, as far as the   *)
(* signalling says: no message counts for two recordings or was heard when *)
(* the recording had gone silent, however late it is closed; the newest is *)
(* not older than the lookback before its first packet; and all that name  *)
(* a radio name this one.                                                  *)
SignalBelongs ==
  job # NoJob =>
    LET at == {heard[m].at : m \in Messages(job)}
    IN  /\ Messages(job) \cap used = {}
        /\ \A t \in at : t < job.last + Silence
        /\ at # {} => \E t \in at : t + Lookback >= job.start
        /\ \A m \in Messages(job) : heard[m].who \in {job.signal.radio, Unnamed}
=============================================================================
