------------------------------ MODULE RadioFeed ------------------------------
(***************************************************************************)
(* One tab of the radio page (lcdash-admin-radio.js): a list of segments,  *)
(* newest first, that is loaded a page at a time, gets what is new put on  *)
(* top every now and then, and lets its reader correct a card in place.    *)
(* Segments are stored and corrected elsewhere at any time.  An answer is  *)
(* read by the server some time before it is handled.                      *)
(*                                                                         *)
(* Segments are numbered in the order of their recording; a version counts *)
(* the corrections of a text.  The filter form has two settings.           *)
(***************************************************************************)
EXTENDS Naturals, FiniteSets, SequencesExt, Orders

CONSTANTS
  Segment,   \* numbers
  First,     \* the segments stored when the page is opened
  Narrow,    \* those the narrow filter finds
  PageSize,
  Edited,    \* bound: the segments that are corrected
  MaxEdits   \* bound: corrections of a segment, the last of which ends them

VARIABLES
  stored,     \* the server's segments
  text,       \* and the versions of their texts
  narrow,     \* the form asks for the narrow filter, applied or not
  loaded,     \* tab.loaded
  list,       \* the cards, from the top
  version,    \* the version each of them shows
  nextBefore, \* tab.nextBefore
  ask,        \* the open request: "no", "first", "newest" or "older"
  query,      \* its filter
  reply,      \* the page that was read for it, or NoPage
  editing,    \* cards with an editor
  busy,       \* cards whose correction is being saved or reverted
  committed,  \* the version the server has made of it, 0 before
  old,        \* cards of an earlier list that still are
  late,       \* history: segments stored after a younger one
  mixed,      \* history: the list was asked for under different filters
  torn        \* history: a gap was left for the sake of a draft

server == <<stored, text, late>>
tab    == <<loaded, list, version, nextBefore>>
asking == <<ask, query, reply>>
cards  == <<editing, busy, committed, old>>
vars   == <<server, narrow, tab, asking, cards, mixed, torn>>

NoPage == [rows |-> <<>>, more |-> FALSE, read |-> FALSE]
Version == 0..MaxEdits

TypeOK ==
  /\ {late, First} \subseteq SUBSET stored /\ stored \subseteq Segment
  /\ {text, version, committed} \subseteq [Segment -> Version]
  /\ {narrow, loaded, query, mixed, torn} \subseteq BOOLEAN
  /\ list \in Seq(Segment) /\ IsInjective(list)
  /\ nextBefore \in Segment \cup {0}
  /\ ask \in {"no", "first", "newest", "older"}
  /\ Len(reply.rows) <= PageSize
  /\ ask = "no" => reply = NoPage
  /\ editing \cup busy \cup old \subseteq Segment

Init ==
  /\ stored = First /\ late = {}
  /\ text = [s \in Segment |-> 0] /\ version = text /\ committed = text
  /\ narrow = FALSE /\ query = FALSE /\ mixed = FALSE /\ torn = FALSE
  /\ loaded = FALSE /\ list = <<>> /\ nextBefore = 0
  /\ ask = "first" /\ reply = NoPage
  /\ editing = {} /\ busy = {} /\ old = {}

-----------------------------------------------------------------------------
(* The server. *)

Found(f)   == IF f THEN stored \cap Narrow ELSE stored
MayEdit    == \A s \in Segment : text[s] < MaxEdits
Shown      == Range(list)
Older(s)   == {t \in Segment : t < s}

(* Segments are stored in the order of their recording, but for one that   *)
(* may be overtaken by its successor.                                      *)
Arrive(s) ==
  /\ s \in Segment \ stored /\ Older(s - 1) \subseteq stored
  /\ stored' = stored \cup {s}
  /\ late' = late \cup {t \in {s} : \E u \in stored : u > t}
  /\ UNCHANGED <<text, narrow, tab, asking, cards, mixed, torn>>

EditElsewhere(s) ==
  /\ s \in stored \cap Edited /\ MayEdit
  /\ text' = [text EXCEPT ![s] = @ + 1]
  /\ UNCHANGED <<stored, late, narrow, tab, asking, cards, mixed, torn>>

(* list_segments: the newest page, or the one before the cursor. *)
Read ==
  /\ ask # "no" /\ ~reply.read
  /\ LET rest == IF ask = "older" THEN Found(query) \cap Older(nextBefore) ELSE Found(query)
         rows == {s \in rest : Cardinality({t \in rest : t > s}) < PageSize}
         page == Reverse(InOrder(rows))
     IN  reply' = [rows |-> [i \in DOMAIN page |-> [id |-> page[i], text |-> text[page[i]]]],
                   more |-> rows # rest, read |-> TRUE]
  /\ UNCHANGED <<server, narrow, tab, ask, query, cards, mixed, torn>>

-----------------------------------------------------------------------------
(* The page. *)

DraftsLost == {}               \* fault: the list is rebuilt under an editor
Drafts == editing \cap Shown   \* hasEditingCard

Send(kind) == ask' = kind /\ query' = narrow /\ reply' = NoPage
Answered   == ask' = "no" /\ query' = query /\ reply' = NoPage

(* loadFirst, with clearTab: all cards are built anew. *)
LoadFirst ==
  /\ loaded' = FALSE /\ list' = <<>> /\ nextBefore' = 0 /\ UNCHANGED version
  /\ Send("first")
  /\ old' = old \cup busy /\ busy' = {}
  /\ committed' = [s \in Segment |-> 0] /\ UNCHANGED editing
  /\ mixed' = FALSE /\ torn' = FALSE

(* The filter form, typed into and not applied. *)
Type ==
  /\ narrow' = ~narrow
  /\ UNCHANGED <<server, tab, asking, cards, mixed, torn>>

(* A filter, a channel, a radio id is chosen, or a tab shown again after   *)
(* units were renamed.                                                     *)
Reload ==
  /\ Drafts = {} /\ LoadFirst
  /\ UNCHANGED <<server, narrow>>

(* The button, the timers, the page looked at again: refreshNewest. *)
Refresh ==
  /\ ask = "no"
  /\ IF loaded THEN Send("newest") /\ mixed' = (mixed \/ query # narrow)
                    /\ UNCHANGED <<tab, cards, torn>>
               ELSE LoadFirst
  /\ UNCHANGED <<server, narrow>>

LoadOlder ==
  /\ ask = "no" /\ nextBefore # 0
  /\ Send("older") /\ mixed' = (mixed \/ query # narrow)
  /\ UNCHANGED <<server, narrow, tab, cards, torn>>

Ids   == [i \in DOMAIN reply.rows |-> reply.rows[i].id]
Fresh == Without(Ids, Shown)
TextOf(s) == reply.rows[CHOOSE i \in DOMAIN Ids : Ids[i] = s].text

Cursor == nextBefore' = IF reply.more THEN Last(Ids) ELSE 0

(* The cards of S show what was read for them. *)
Fill(S) == version' = [s \in Segment |-> IF s \in S THEN TextOf(s) ELSE version[s]]

(* The first page, and appendItems for an older one. *)
ReceivePage ==
  /\ ask \in {"first", "older"} /\ reply.read
  /\ list' = list \o Fresh /\ Fill(Range(Fresh)) /\ Cursor /\ loaded' = TRUE
  /\ Answered
  /\ UNCHANGED <<server, narrow, cards, mixed, torn>>

Newest == ask = "newest" /\ reply.read

NoGap == FALSE  \* fault: a gap is not looked for

(* Nothing on the page is on screen: there may be more in between. *)
Gap == list # <<>> /\ reply.rows # <<>> /\ Len(Fresh) = Len(Ids) /\ reply.more

ReceiveGap ==
  /\ Newest /\ Gap /\ Drafts = {}
  /\ LoadFirst
  /\ UNCHANGED <<server, narrow>>

(* Cards somebody else changed are filled again, unless they are edited or *)
(* saved, and what is new goes on top.                                     *)
ReceiveNewest ==
  /\ Newest /\ ~(Gap /\ Drafts = {})
  /\ list' = Fresh \o list
  /\ Fill(Range(Ids) \ (Shown \cap (editing \cup busy)))
  /\ torn' = (torn \/ Gap)
  /\ Answered
  /\ UNCHANGED <<server, narrow, loaded, nextBefore, cards, mixed>>

RequestFails ==
  /\ ask # "no" /\ Answered
  /\ UNCHANGED <<server, narrow, tab, cards, mixed, torn>>

-----------------------------------------------------------------------------
(* Corrections. *)

OpenEditor(s) ==
  /\ s \in (Shown \cap Edited) \ (editing \cup busy)
  /\ editing' = editing \cup {s}
  /\ UNCHANGED <<server, narrow, tab, asking, busy, committed, old, mixed, torn>>

Cancel(s) ==
  /\ s \in Drafts \ busy
  /\ editing' = editing \ {s}
  /\ UNCHANGED <<server, narrow, tab, asking, busy, committed, old, mixed, torn>>

(* saveCorrection, from the editor, or revertCorrection, without one. *)
Save(s) ==
  /\ s \in Shown \ busy /\ (s \in editing \/ version[s] > 0)
  /\ busy' = busy \cup {s} /\ committed' = [committed EXCEPT ![s] = 0]
  /\ UNCHANGED <<server, narrow, tab, asking, editing, old, mixed, torn>>

Commit(s) ==
  /\ s \in busy /\ committed[s] = 0 /\ MayEdit
  /\ text' = [text EXCEPT ![s] = @ + 1]
  /\ committed' = [committed EXCEPT ![s] = text'[s]]
  /\ UNCHANGED <<stored, late, narrow, tab, asking, editing, busy, old, mixed, torn>>

Saved(s) ==
  /\ s \in busy /\ committed[s] > 0
  /\ busy' = busy \ {s} /\ editing' = editing \ {s}
  /\ committed' = [committed EXCEPT ![s] = 0]
  /\ version' = [version EXCEPT ![s] = committed[s]]
  /\ UNCHANGED <<server, narrow, loaded, list, nextBefore, asking, old, mixed, torn>>

(* An error, also one after the server had saved it: the draft stays. *)
SaveFails(s) ==
  /\ s \in busy
  /\ busy' = busy \ {s} /\ committed' = [committed EXCEPT ![s] = 0]
  /\ UNCHANGED <<server, narrow, tab, asking, editing, old, mixed, torn>>

(* The answer for a card that is no longer there goes to the one that is   *)
(* (applySegmentEverywhere); an error concerns nobody.                     *)
SavedOld(s) ==
  /\ s \in old /\ old' = old \ {s}
  /\ \/ UNCHANGED version
     \/ /\ s \in Shown \ (editing \cup busy)
        /\ \E v \in 1..text[s] : version' = [version EXCEPT ![s] = v]
  /\ UNCHANGED <<server, narrow, loaded, list, nextBefore, asking, editing, busy>>
  /\ UNCHANGED <<committed, mixed, torn>>

Next ==
  \/ Read \/ Type \/ Reload \/ Refresh \/ LoadOlder
  \/ ReceivePage \/ ReceiveGap \/ ReceiveNewest \/ RequestFails
  \/ \E s \in Segment :
       \/ Arrive(s) \/ EditElsewhere(s) \/ OpenEditor(s) \/ Cancel(s)
       \/ Save(s) \/ Commit(s) \/ Saved(s) \/ SaveFails(s) \/ SavedOld(s)

Spec == Init /\ [][Next]_vars
-----------------------------------------------------------------------------
(* A draft is never lost: a card stays on the page while it is edited or   *)
(* its correction saved, whatever is loaded meanwhile.                     *)
DraftKept == editing \subseteq Shown

(* No segment between two cards is silently left out, however many came    *)
(* between two refreshes, unless a draft stood in the way, it was stored   *)
(* late, or the form was changed and not applied.                          *)
NoSilentGap ==
  ~mixed /\ ~torn =>
    \A s \in Found(query) \ late, i, j \in DOMAIN list :
      list[i] > s /\ s > list[j] => s \in Shown

(* The two claims pull at each other: a gap is closed by building the list *)
(* anew, which would take a draft along.                                   *)
FeedIsWhole == DraftKept /\ NoSilentGap

(* Not so: "Cards already shown are updated in place only when somebody    *)
(* else changed them".  A page that was read before a correction was saved *)
(* and handled after it takes the card back to the text it had.            *)
OwnEditStays == [][\A s \in Shown : s \in Range(list') => version'[s] >= version[s]]_vars

(* Not so either: a gap left for a draft is closed when the draft is.      *)
GapsClosed == torn => editing # {}
=============================================================================
