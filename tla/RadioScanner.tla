----------------------------- MODULE RadioScanner -----------------------------
(***************************************************************************)
(* "Auto-play new calls" of the radio page (lcdash-admin-radio.js): while  *)
(* the switch is on, calls that are new in the tab that is looked at play  *)
(* one after another, through the one player that the Play buttons of the  *)
(* cards share.                                                            *)
(*                                                                         *)
(* Calls are numbered in the order of their recording, in which they are   *)
(* stored, and all have sound at first.  An event of the player is handled *)
(* before the next press.                                                  *)
(***************************************************************************)
EXTENDS Naturals, FiniteSetsExt, SequencesExt, Orders

CONSTANTS
  Call,      \* numbers
  First,     \* the calls stored when the page is opened
  Noise,     \* key-ups, beeps and the like, left to the Play button
  Tab,
  In,        \* the calls a tab lists
  Start,     \* the tab shown first
  PageSize,
  MaxQueue,  \* SCAN_MAX_QUEUE
  NoCall

VARIABLES
  stored,    \* the server's calls
  active,    \* activeKey
  loaded,    \* of the tabs: tab.loaded
  shown,     \* the calls that have a card (tab.seen)
  ask,       \* the open request: "no", "first" or "newest"
  quiet,     \* tab.scanQuiet
  on, blocked, queue,  \* scanOn, scanBlocked, scanQueue
  current,   \* what the player is about, and whether its card is still there
  promise,   \* who called play(), before it is known what comes of it
  last,      \* history: the last call the scanner started in this tab, or 0
  before,    \* history: what was stored when the scanner began to listen to it
  foreign,   \* history: it was given back a call of the tab before
  expired    \* history: since it looked last, the sound of the card that
             \* played has expired

tabs   == <<active, loaded, shown, ask, quiet>>
player == <<current, promise>>
scan   == <<on, blocked, queue, last, before, foreign, expired>>
vars   == <<stored, tabs, player, scan>>

Card == [call : Call, tab : Tab, state : {"loading", "playing", "paused"}, here : BOOLEAN]

TypeOK ==
  /\ stored \subseteq Call /\ before \subseteq stored
  /\ active \in Tab /\ {loaded, quiet} \subseteq [Tab -> BOOLEAN]
  /\ shown \in [Tab -> SUBSET stored] /\ \A t \in Tab : shown[t] \subseteq In[t]
  /\ ask \in [Tab -> {"no", "first", "newest"}]
  /\ {on, blocked, foreign, expired} \subseteq BOOLEAN
  /\ queue \in Seq(Call \ Noise) /\ last \in Call \cup {0}
  /\ current \in Card \cup {NoCall} /\ promise \in {"no", "auto", "person"}
  /\ promise # "no" => current # NoCall

Init ==
  /\ stored = First
  /\ active = Start
  /\ loaded = [t \in Tab |-> FALSE] /\ quiet = loaded
  /\ shown = [t \in Tab |-> {}]
  /\ ask = [t \in Tab |-> IF t = Start THEN "first" ELSE "no"]
  /\ on = FALSE /\ blocked = FALSE /\ queue = <<>>
  /\ current = NoCall /\ promise = "no"
  /\ last = 0 /\ before = {} /\ foreign = FALSE /\ expired = FALSE

-----------------------------------------------------------------------------
Arrive(s) ==
  /\ s \in Call \ stored /\ 1..(s - 1) \subseteq stored
  /\ stored' = stored \cup {s}
  /\ UNCHANGED <<tabs, player, scan>>

-----------------------------------------------------------------------------
(* The player. *)

Load(s, t, who) ==
  /\ current' = [call |-> s, tab |-> t, state |-> "loading", here |-> TRUE]
  /\ promise' = who

(* fault: what waits is not looked at *)
PumpNothing(q, cards) ==
  /\ queue' = q /\ current' = NoCall /\ promise' = "no" /\ UNCHANGED <<last, expired>>

(* scanPump when nothing plays: start the first call of q with a card, the *)
(* ones before it are dropped.                                             *)
Pump(q, cards) ==
  LET ready == {i \in DOMAIN q : q[i] \in cards} IN
  IF ~on \/ blocked'
    THEN queue' = q /\ current' = NoCall /\ promise' = "no" /\ UNCHANGED <<last, expired>>
    ELSE /\ expired' = FALSE
         /\ IF ready = {}
              THEN queue' = <<>> /\ current' = NoCall /\ promise' = "no" /\ UNCHANGED last
              ELSE LET i == Min(ready) IN
                   /\ queue' = SubSeq(q, i + 1, Len(q))
                   /\ Load(q[i], active, "auto") /\ last' = q[i]

(* failPlayback, and the events "ended" and "error". *)
Release == UNCHANGED blocked /\ Pump(queue, shown[active])

Playing ==
  /\ current # NoCall /\ current.state = "loading"
  /\ current' = [current EXCEPT !.state = "playing"] /\ promise' = "no"
  /\ UNCHANGED <<stored, tabs, scan>>

Buffering ==
  /\ current # NoCall /\ current.state = "playing"
  /\ current' = [current EXCEPT !.state = "loading"]
  /\ UNCHANGED <<stored, tabs, promise, scan>>

Ended ==
  /\ current # NoCall /\ current.state = "playing"
  /\ Release
  /\ UNCHANGED <<stored, tabs, on, before, foreign>>

Error ==
  /\ current # NoCall
  /\ Release
  /\ UNCHANGED <<stored, tabs, on, before, foreign>>

(* The browser wants a click first: the call goes back to the front. *)
Refused ==
  /\ promise = "auto" /\ current.state = "loading"
  /\ current' = NoCall /\ promise' = "no"
  /\ queue' = <<current.call>> \o queue /\ blocked' = TRUE
  /\ last' = 0 /\ foreign' = (foreign \/ last # current.call)
  /\ UNCHANGED <<stored, tabs, on, before, expired>>

(* scanUnblock: any click or key, before it does what else it does. *)
Click ==
  /\ blocked /\ blocked' = FALSE
  /\ IF current = NoCall THEN Pump(queue, shown[active])
                         ELSE UNCHANGED <<queue, player, last, expired>>
  /\ UNCHANGED <<stored, tabs, on, before, foreign>>

(* onPlayPressed on a card of the tab. *)
Press(s) ==
  /\ ~blocked /\ s \in shown[active]
  /\ IF current # NoCall /\ current.here /\ current.call = s /\ current.tab = active
       THEN IF current.state = "paused"
              THEN Load(s, active, "person")
              ELSE current' = [current EXCEPT !.state = "paused"] /\ promise' = "no"
       ELSE Load(s, active, "person")
  /\ UNCHANGED <<stored, tabs, scan>>

(* A card is filled again, and its sound is no longer there. *)
Expire ==
  /\ current # NoCall /\ current.here
  /\ current' = NoCall /\ promise' = "no" /\ expired' = TRUE
  /\ UNCHANGED <<stored, tabs, on, blocked, queue, last, before, foreign>>

-----------------------------------------------------------------------------
(* The tabs. *)

Page(t)    == {s \in stored \cap In[t] : Cardinality({u \in stored \cap In[t] : u > s}) < PageSize}
HasMore(t) == Page(t) # stored \cap In[t]

(* The cards of the tabs in T go, and those in F are loaded anew. *)
Clear(T, F) ==
  /\ loaded' = [t \in Tab |-> loaded[t] /\ t \notin T]
  /\ shown'  = [t \in Tab |-> IF t \in T THEN {} ELSE shown[t]]
  /\ quiet'  = [t \in Tab |-> quiet[t] /\ t \notin T]
  /\ ask'    = [t \in Tab |-> IF t \in F THEN "first" ELSE IF t \in T THEN "no" ELSE ask[t]]
  /\ current' = IF current # NoCall /\ current.tab \in T
                  THEN [current EXCEPT !.here = FALSE] ELSE current
  /\ UNCHANGED promise

(* refreshNewest(t), with tab.scanQuiet set to q before. *)
RefreshNewest(t, q) ==
  IF ask[t] = "no" /\ ~loaded[t]
    THEN Clear({t}, {t})
    ELSE /\ ask' = [ask EXCEPT ![t] = IF @ = "no" THEN "newest" ELSE @]
         /\ quiet' = [quiet EXCEPT ![t] = q]
         /\ UNCHANGED <<loaded, shown, player>>

scanReset == queue' = <<>> /\ last' = 0 /\ foreign' = FALSE /\ expired' = FALSE

(* scanTick, autoRefresh, the button. *)
Refresh ==
  /\ ask[active] = "no"
  /\ RefreshNewest(active, quiet[active])
  /\ UNCHANGED <<stored, active, scan>>

(* What is stored when the scanner begins to listen, unless a page is on   *)
(* its way that may have been read before.                                 *)
ListensTo(t) == before' = IF ask[t] = "no" THEN stored ELSE {}

(* A tab that was refreshed less than 30 s ago is left as it is. *)
activateTab(t) ==
  /\ t # active /\ active' = t
  /\ scanReset
  /\ \/ ~loaded[t] /\ Clear({t}, {t}) /\ before' = {}
     \/ loaded[t] /\ RefreshNewest(t, on) /\ ListensTo(t)
     \/ loaded[t] /\ UNCHANGED <<loaded, shown, ask, quiet, player>> /\ before' = {}
  /\ UNCHANGED <<stored, on, blocked>>

(* reloadFeeds, all tabs, or selectDistrict, the one that is shown. *)
Reload ==
  /\ scanReset /\ before' = {}
  /\ \E T \in {Tab, {active}} : Clear(T, {active})
  /\ UNCHANGED <<stored, active, on, blocked>>

ReceiveFirst(t) ==
  /\ ask[t] = "first" /\ ask' = [ask EXCEPT ![t] = "no"]
  /\ shown' = [shown EXCEPT ![t] = Page(t)] /\ loaded' = [loaded EXCEPT ![t] = TRUE]
  /\ UNCHANGED <<stored, active, quiet, player, scan>>

RequestFails(t) ==
  /\ ask[t] # "no" /\ ask' = [ask EXCEPT ![t] = "no"]
  /\ UNCHANGED <<stored, active, loaded, shown, quiet, player, scan>>

Fresh(t) == Page(t) \ shown[t]
Gap(t)   == shown[t] # {} /\ Fresh(t) = Page(t) /\ Page(t) # {} /\ HasMore(t)

(* Too much is new: the list is built anew, unless a card is edited. *)
ReceiveGap(t) ==
  /\ ask[t] = "newest" /\ Gap(t)
  /\ Clear({t}, {t})
  /\ UNCHANGED <<stored, active, scan>>

(* Those that have aged too much (SCAN_MAX_AGE_MS) are not played. *)
Recent(S) == {{s \in S \ Noise : s > n} : n \in S \cup {0}}

(* The oldest of too many are skipped. *)
Offered(S) ==
  LET q == queue \o InOrder(S)
  IN  SubSeq(q, 1 + Max({0, Len(q) - MaxQueue}), Len(q))

scanOffers(t) == on /\ t = active /\ Fresh(t) # {} /\ ~quiet[t]

ReceiveNewest(t) ==
  /\ ask[t] = "newest" /\ ask' = [ask EXCEPT ![t] = "no"]
  /\ shown' = [shown EXCEPT ![t] = @ \cup Fresh(t)]
  /\ quiet' = [quiet EXCEPT ![t] = FALSE]
  /\ UNCHANGED blocked
  /\ IF ~scanOffers(t) THEN UNCHANGED <<queue, last, expired, player>>
     ELSE \E S \in Recent(Fresh(t)) :
            IF current = NoCall THEN Pump(Offered(S), shown'[t])
            ELSE queue' = Offered(S) /\ UNCHANGED <<last, expired, player>>
  /\ UNCHANGED <<stored, active, loaded, on, before, foreign>>

(* scanSet *)
SwitchOn ==
  /\ ~on /\ on' = TRUE /\ blocked' = FALSE
  /\ scanReset /\ ListensTo(active)
  /\ RefreshNewest(active, TRUE)
  /\ UNCHANGED <<stored, active>>

SwitchOff ==
  /\ on /\ on' = FALSE /\ blocked' = FALSE
  /\ scanReset
  /\ UNCHANGED <<stored, tabs, player, before>>

Next ==
  \/ Playing \/ Buffering \/ Ended \/ Error \/ Refused \/ Click \/ Expire
  \/ Refresh \/ Reload \/ SwitchOn \/ SwitchOff
  \/ \E s \in Call : Arrive(s) \/ Press(s)
  \/ \E t \in Tab :
       \/ activateTab(t) \/ ReceiveFirst(t) \/ RequestFails(t)
       \/ ReceiveGap(t) \/ ReceiveNewest(t)

Spec == Init /\ [][Next]_vars
-----------------------------------------------------------------------------
(* "Calls that arrive while the switch is on play one after another,       *)
(* oldest first", none of them twice, ...                                  *)
OldestFirst == \A i \in DOMAIN queue : \A q \in {last} \cup Range(SubSeq(queue, 1, i - 1)) : q < queue[i]

(* ... the scanner does not go to sleep over a call that waits, ...        *)
NeverAsleep == on /\ ~blocked /\ queue # <<>> => current # NoCall \/ expired

(* ... and "what arrived while the person was not listening is not         *)
(* played".                                                                *)
NotCaughtUp == last \notin before /\ Range(queue) \cap before = {}

ScannerFollows == NeverAsleep /\ (foreign \/ (OldestFirst /\ NotCaughtUp))

(* Not so: the scanner "waits behind anything a person has paused", and    *)
(* there is no button to resume it with when its card has gone.            *)
CanBeResumed ==
  on /\ queue # <<>> /\ current # NoCall /\ current.state = "paused" => current.here
=============================================================================
