------------------------------ MODULE Realtime ------------------------------
(***************************************************************************)
(* CAD webhooks (realtime_service.py, the webhook and event stream routes  *)
(* of main.py): an event is looked up in a cache of those seen last,       *)
(* recorded in the database, and passed to the open browsers, one queue    *)
(* each, whose oldest events make room for new ones.                       *)
(*                                                                         *)
(* The look-up is one step under a lock, the recording runs in a thread,   *)
(* and the event is passed on once the thread is back.  The sender repeats *)
(* events as it likes.  The process may die; cache and queues die with it. *)
(***************************************************************************)
EXTENDS Naturals, Sequences, FiniteSetsExt, SequencesExt

CONSTANTS
  Event,
  Request,     \* requests the server works on at a time
  Browser,
  NoArrival,
  CacheSize,   \* DEDUPLICATION_CACHE_SIZE
  QueueSize,   \* maxsize of a browser's queue
  MaxArrivals, \* bound: events received
  MaxLives     \* bound: starts of the process

VARIABLES
  cache,      \* event_deduplicator: the events seen last, oldest first
  recorded,   \* lcdash_realtime.webhook_events
  work,       \* the arrival each request works on
  pc,         \* each request: "idle", "record" or "publish"
  queue,      \* each browser's queue, of arrivals; Closed if not connected
  arrivals,   \* history: events received, as [event, life, kept], where kept
              \* says that the database took the arrival for a new event
  published,  \* history: arrivals passed on
  behind,     \* history: how many of them each browser came too late for,
              \* has read or has lost
  life        \* history: how often the process was started

request == <<work, pc>>
stream  == <<queue, behind>>
vars == <<cache, recorded, request, stream, arrivals, published, life>>

Closed == <<NoArrival>>
Connected(b) == queue[b] # Closed
Arrival == 1..MaxArrivals

TypeOK ==
  /\ cache \in Seq(Event) /\ Len(cache) <= CacheSize /\ IsInjective(cache)
  /\ recorded \subseteq Event
  /\ pc \in [Request -> {"idle", "record", "publish"}]
  /\ \A r \in Request :
       work[r] \in IF pc[r] = "idle" THEN {NoArrival} ELSE DOMAIN arrivals
  /\ \A b \in Browser :
       Connected(b) => queue[b] \in Seq(Arrival) /\ Len(queue[b]) <= QueueSize
  /\ arrivals \in Seq([event : Event, life : Nat, kept : BOOLEAN])
  /\ Len(arrivals) <= MaxArrivals
  /\ published \in Seq(DOMAIN arrivals) /\ IsInjective(published)

Init ==
  /\ cache = <<>> /\ recorded = {}
  /\ work = [r \in Request |-> NoArrival] /\ pc = [r \in Request |-> "idle"]
  /\ queue = [b \in Browser |-> Closed]
  /\ behind = [b \in Browser |-> 0]
  /\ arrivals = <<>> /\ published = <<>> /\ life = 1

-----------------------------------------------------------------------------
Newest(s, n) == IF Len(s) <= n THEN s ELSE SubSeq(s, Len(s) - n + 1, Len(s))

Renewed(e) ==
  LET i == CHOOSE j \in DOMAIN cache : cache[j] = e
  IN  Append(RemoveAt(cache, i), e)

(* check_and_store *)
Store(e) ==
  cache' = IF Contains(cache, e) THEN Renewed(e) ELSE Newest(Append(cache, e), CacheSize)

(* An event that is in the cache is answered as a duplicate at once. *)
Receive(r, e) ==
  /\ pc[r] = "idle" /\ Len(arrivals) < MaxArrivals
  /\ arrivals' = Append(arrivals, [event |-> e, life |-> life, kept |-> FALSE])
  /\ Store(e)
  /\ IF Contains(cache, e)
       THEN UNCHANGED request
       ELSE /\ work' = [work EXCEPT ![r] = Len(arrivals')]
            /\ pc' = [pc EXCEPT ![r] = "record"]
  /\ UNCHANGED <<recorded, stream, published, life>>

Answer(r) ==
  /\ work' = [work EXCEPT ![r] = NoArrival]
  /\ pc' = [pc EXCEPT ![r] = "idle"]

KnownIsNew(e) == TRUE                \* fault: a conflict returns the row, too
Inserted(e) == e \notin recorded

(* record_event inserts a new event and counts a known one. *)
RecordEvent(r) ==
  /\ pc[r] = "record"
  /\ LET e == arrivals[work[r]].event
     IN  /\ recorded' = recorded \cup {e}
         /\ IF Inserted(e)
              THEN /\ pc' = [pc EXCEPT ![r] = "publish"]
                   /\ arrivals' = [arrivals EXCEPT ![work[r]].kept = TRUE]
                   /\ UNCHANGED work
              ELSE Answer(r) /\ UNCHANGED arrivals
  /\ UNCHANGED <<cache, stream, published, life>>

(* The database fails, at worst after its commit: passed on all the same. *)
RecordFails(r, committed) ==
  /\ pc[r] = "record"
  /\ recorded' = IF committed THEN recorded \cup {arrivals[work[r]].event} ELSE recorded
  /\ pc' = [pc EXCEPT ![r] = "publish"]
  /\ UNCHANGED <<cache, work, stream, arrivals, published, life>>

Full(b) == Len(queue[b]) = QueueSize
OldestDropped(q) == Tail(q)

(* publish, to all connected browsers without yielding *)
Publish(r) ==
  /\ pc[r] = "publish"
  /\ queue' = [b \in Browser |->
       IF ~Connected(b) THEN Closed
       ELSE Append(IF Full(b) THEN OldestDropped(queue[b]) ELSE queue[b], work[r])]
  /\ behind' = [b \in Browser |->
       IF Connected(b) /\ Full(b) THEN behind[b] + 1 ELSE behind[b]]
  /\ published' = Append(published, work[r])
  /\ Answer(r)
  /\ UNCHANGED <<cache, recorded, arrivals, life>>

Subscribe(b) ==
  /\ ~Connected(b)
  /\ queue' = [queue EXCEPT ![b] = <<>>]
  /\ behind' = [behind EXCEPT ![b] = Len(published)]
  /\ UNCHANGED <<cache, recorded, request, arrivals, published, life>>

Take(b) ==
  /\ Connected(b) /\ queue[b] # <<>>
  /\ queue' = [queue EXCEPT ![b] = Tail(@)]
  /\ behind' = [behind EXCEPT ![b] = @ + 1]
  /\ UNCHANGED <<cache, recorded, request, arrivals, published, life>>

Unsubscribe(b) ==
  /\ Connected(b)
  /\ queue' = [queue EXCEPT ![b] = Closed] /\ behind' = [behind EXCEPT ![b] = 0]
  /\ UNCHANGED <<cache, recorded, request, arrivals, published, life>>

Restart ==
  /\ life < MaxLives
  /\ life' = life + 1
  /\ cache' = <<>>
  /\ work' = [r \in Request |-> NoArrival] /\ pc' = [r \in Request |-> "idle"]
  /\ queue' = [b \in Browser |-> Closed] /\ behind' = [b \in Browser |-> 0]
  /\ UNCHANGED <<recorded, arrivals, published>>

Next ==
  \/ \E r \in Request :
       \/ \E e \in Event : Receive(r, e)
       \/ RecordEvent(r) \/ Publish(r)
       \/ \E committed \in BOOLEAN : RecordFails(r, committed)
  \/ \E b \in Browser : Subscribe(b) \/ Take(b) \/ Unsubscribe(b)
  \/ Restart

Spec == Init /\ [][Next]_vars
-----------------------------------------------------------------------------
EventOf(n) == arrivals[n].event

(* The last arrival of the same event before arrival n, in one life, is    *)
(* followed by as many different events as the cache holds.                *)
AgedOut(n) ==
  LET before == {m \in 1..(n - 1) : EventOf(m) = EventOf(n)}
      between == {EventOf(k) : k \in (Max(before) + 1)..(n - 1)}
  IN  arrivals[Max(before)].life = arrivals[n].life => Cardinality(between) >= CacheSize

(* The browsers are told once about an event, however often, how late and  *)
(* between which others the sender repeats it.  They are told again only   *)
(* if the database took no note of one of the two, and the event had left  *)
(* the cache by its age or with the process.                               *)
ToldOnce ==
  \A i, j \in DOMAIN published :
    LET m == published[i]  n == published[j]
    IN  m < n /\ EventOf(m) = EventOf(n) =>
          /\ ~(arrivals[m].kept /\ arrivals[n].kept)
          /\ AgedOut(n)

(* What a browser has still to read is the newest of what was passed on,   *)
(* in that order: it loses the oldest, and only one for each that comes    *)
(* when its queue is full.                                                 *)
NewestKept ==
  \A b \in Browser :
    Connected(b) => queue[b] = SubSeq(published, behind[b] + 1, Len(published))

(* What browsers see of the events is neither repeated nor out of date by  *)
(* more than their queue holds.                                            *)
BrowsersFollow == ToldOnce /\ NewestKept
=============================================================================
