--------------------------- MODULE AdvisoryStream ---------------------------
(***************************************************************************)
(* One streamed advisory answer (cloud_ai_streaming.py): passages are      *)
(* retrieved, the daily budget is asked, and the model's text arrives in   *)
(* pieces cut anywhere.  What is safe is handed on at once to be shown and *)
(* spoken; a list of sources must never be, and its heading may come in    *)
(* two pieces.  At the end the whole text is sent as the answer.           *)
(*                                                                         *)
(* A text is a sequence of symbols: the heading "Sources" is a line of its *)
(* two halves and nothing else.  Sentences, their grouping and the limit   *)
(* on chunks are left out: what is fed is spoken at the latest by flush.   *)
(***************************************************************************)
EXTENDS Naturals, Sequences, FiniteSetsExt

CONSTANTS MaxText, MaxDelta   \* bounds: length of the text and of a piece

VARIABLES
  stage,      \* of the stream: see Stages
  collected,  \* the text so far
  fed,        \* how much of it was fed to the chunker
  found       \* sources_found

vars == <<stage, collected, fed, found>>

Symbol == {"word", "newline", "Sour", "ces"}
Deltas == UNION {[1..n -> Symbol] : n \in 1..MaxDelta}
Ended  == {"complete", "denied", "error"}
Stages == {"retrieving", "reserving", "generating"} \cup Ended

TypeOK ==
  /\ stage \in Stages
  /\ collected \in Seq(Symbol) /\ Len(collected) <= MaxText
  /\ fed \in 0..Len(collected)
  /\ found \in BOOLEAN

Init == stage = "retrieving" /\ collected = <<>> /\ fed = 0 /\ found = FALSE

-----------------------------------------------------------------------------
StartsLine(t, i) == i = 1 \/ t[i - 1] = "newline"
EndsLine(t, i)   == i = Len(t) \/ t[i + 1] = "newline"

(* _SOURCES_HEADING: a line that is "Sources".  The end of the text so far *)
(* passes for the end of a line.                                           *)
Headings(t) ==
  {i \in 1..(Len(t) - 1) :
    t[i] = "Sour" /\ t[i + 1] = "ces" /\ StartsLine(t, i) /\ EndsLine(t, i + 1)}

BeforeSources(t) == IF Headings(t) = {} THEN Len(t) ELSE Min(Headings(t)) - 1

(* clean_display_text: the answer without its sources. *)
Answer(t) == SubSeq(t, 1, BeforeSources(t))

LastNewline(t) == Max({0} \cup {i \in 1..Len(t) : t[i] = "newline"})

AllThatCame(t) == Len(t)           \* fault: nothing is held back
(* A last line that may become a heading is held back, if another line *)
(* comes before it.                                                    *)
HeldBack(t) ==
  LET n == LastNewline(t)
      line == SubSeq(t, n + 1, Len(t))
  IN  IF n > 0 /\ line \in {<<>>, <<"Sour">>} THEN n - 1 ELSE Len(t)

(* _feedable_limit *)
Limit(t, final) ==
  IF Headings(t) # {} THEN BeforeSources(t) ELSE IF final THEN Len(t) ELSE HeldBack(t)

Feed(t, final) ==
  /\ fed' = IF found \/ Limit(t, final) < fed THEN fed ELSE Limit(t, final)
  /\ found' = (found \/ Headings(t) # {})

-----------------------------------------------------------------------------
Goto(s) == stage' = s /\ UNCHANGED <<collected, fed, found>>

Retrieve == stage = "retrieving" /\ Goto("reserving")
Reserve  == stage = "reserving" /\ Goto("generating")

(* No passage supports the question, or the day's budget is used up. *)
Deny == stage \in {"retrieving", "reserving"} /\ Goto("denied")

Delta(d) ==
  /\ stage = "generating" /\ Len(collected) + Len(d) <= MaxText
  /\ collected' = collected \o d
  /\ Feed(collected', FALSE)
  /\ UNCHANGED stage

(* The model's text has ended. *)
Finish ==
  /\ stage = "generating"
  /\ Feed(collected, TRUE)
  /\ stage' = IF \E i \in 1..BeforeSources(collected) : collected[i] # "newline"
                THEN "complete" ELSE "denied"
  /\ UNCHANGED collected

(* Whatever fails ends the stream with an error event. *)
Fail == stage \notin Ended /\ Goto("error")

Next ==
  \/ Retrieve \/ Reserve \/ Deny \/ Finish \/ Fail
  \/ \E d \in Deltas : Delta(d)

Spec == Init /\ [][Next]_vars
-----------------------------------------------------------------------------
(* Nothing from the heading of a source list on is spoken, wherever the    *)
(* model's text is cut into pieces: of what is fed by the end of a stream, *)
(* nothing lies behind the heading, or in it unless it is the first line.  *)
SourcesNeverSpoken ==
  stage = "complete" =>
    LET limit == BeforeSources(collected)
    IN  fed <= IF limit = 0 THEN 1 ELSE limit

(* The streamed answer is the whole answer: its text is all fed. *)
StreamedIsWhole == stage = "complete" => fed >= Len(Answer(collected))
=============================================================================
