----------------------------- MODULE CadRuntime -----------------------------
(***************************************************************************)
(* The poller of the cloud deployment (cloud_read_runtime.py) and the      *)
(* connector it reads the CAD with (cloud_read_connector.py): calls, then  *)
(* units, each asked up to MaxAttempts times with a token that is kept     *)
(* until shortly before it expires.  What was read last stays on display   *)
(* while polls fail, with the age of the last success.                     *)
(*                                                                         *)
(* The clock ticks while an answer or the end of a pause is awaited, never *)
(* between two steps of the poller.  The reading thread that a stopped     *)
(* poller leaves behind changes nothing on display and is left out.        *)
(***************************************************************************)
EXTENDS Naturals

CONSTANTS
  NoTime,
  Poll,         \* poll_seconds
  Fresh,        \* status: the age up to which data is current
  Timeout,      \* REQUEST_TIMEOUT_SECONDS, for each connect, write or read
  Pieces,       \* bound: how many of these an attempt takes; nothing limits
                \* the attempt as a whole
  SecretTime,   \* bound: the longest the secret store takes for its answer
  MaxWait,      \* bound: the longest pause before a retry; the code sets
                \* none on a retry-after it is sent
  MaxAttempts,
  Life,         \* how long a token lives
  Margin,       \* a token is not used for so long before it expires
  MaxTime       \* bound: the last tick of the clock

VARIABLES
  now,
  shown,     \* the state on display: when its calls and its units were read,
             \* last_success_at, last_attempt_at, and whether the poll failed
  expires,   \* _access_token_expires_at
  phase,     \* "off", "sleep", "send" or "pause"
  request,   \* what is asked: calls or units, or for which of these two the
             \* secret store and then the token
  attempt,   \* attempts made for it
  until,     \* when the sleep, pause or wait for an answer ends
  started,   \* attempted: when the poll began
  calls      \* when the calls of this poll were read

poller == <<phase, request, attempt, until, started, calls>>
vars == <<now, shown, expires, poller>>

Times == 0..MaxTime
Stamp == Times \cup {NoTime}
Operation == {"calls", "units"}

(* An attempt that sends and receives piece by piece. *)
Exchange == Pieces * Timeout

TypeOK ==
  /\ now \in Times
  /\ shown \in [calls : Stamp, units : Stamp, success : Stamp, attempt : Stamp,
                failed : BOOLEAN]
  /\ expires \in 0..(MaxTime + Life)
  /\ phase \in {"off", "sleep", "send", "pause"}
  /\ request \in [what : Operation \cup {"secret", "token"}, for : Operation]
  /\ attempt \in 0..MaxAttempts
  /\ until \in 0..(MaxTime + Poll + Exchange + MaxWait + SecretTime)
  /\ phase \in {"sleep", "send", "pause"} => now <= until
  /\ started \in Stamp /\ calls \in Stamp

Calls == [what |-> "calls", for |-> "calls"]

Init ==
  /\ now = 0 /\ expires = 0
  /\ shown = [calls |-> NoTime, units |-> NoTime, success |-> NoTime,
              attempt |-> NoTime, failed |-> FALSE]
  /\ phase = "off" /\ request = Calls /\ attempt = 0 /\ until = 0
  /\ started = NoTime /\ calls = NoTime

-----------------------------------------------------------------------------
Tick ==
  /\ now < MaxTime
  /\ phase # "off" => now < until
  /\ now' = now + 1
  /\ UNCHANGED <<shown, expires, poller>>

Send(what, for) ==
  /\ phase' = "send" /\ attempt' = 1
  /\ request' = [what |-> what, for |-> for]
  /\ until' = now + (IF what = "secret" THEN SecretTime ELSE Exchange)

(* _read_request: the token is taken along or fetched first, with the      *)
(* credentials from the secret store.                                      *)
Ask(op, expiry) == Send(IF now + Margin < expiry THEN op ELSE "secret", op)

Start ==
  /\ phase = "off"
  /\ phase' = "sleep" /\ until' = now
  /\ UNCHANGED <<now, shown, expires, request, attempt, started, calls>>

Stop ==
  /\ phase # "off"
  /\ phase' = "off" /\ request' = Calls /\ attempt' = 0 /\ until' = 0
  /\ started' = NoTime /\ calls' = NoTime
  /\ UNCHANGED <<now, shown, expires>>

PollOnce ==
  /\ phase = "sleep" /\ now = until
  /\ started' = now /\ calls' = NoTime
  /\ Ask("calls", expires)
  /\ UNCHANGED <<now, shown, expires>>

Sleep ==
  /\ phase' = "sleep" /\ until' = now + Poll
  /\ request' = Calls /\ attempt' = 0 /\ started' = NoTime /\ calls' = NoTime

SecretArrives ==
  /\ phase = "send" /\ request.what = "secret"
  /\ Send("token", request.for)
  /\ UNCHANGED <<now, shown, expires, started, calls>>

(* A token, or a refusal to work with one that has no time left. *)
TokenArrives ==
  /\ phase = "send" /\ request.what = "token"
  /\ expires' = now + Life
  /\ Send(request.for, request.for)
  /\ UNCHANGED <<now, shown, started, calls>>

CallsArrive ==
  /\ phase = "send" /\ request.what = "calls"
  /\ calls' = now
  /\ Ask("units", expires)
  /\ UNCHANGED <<now, shown, expires, started>>

(* Both are replaced together. *)
UnitsArrive ==
  /\ phase = "send" /\ request.what = "units"
  /\ shown' = [calls |-> calls, units |-> now, success |-> now, attempt |-> started,
               failed |-> FALSE]
  /\ Sleep
  /\ UNCHANGED <<now, expires>>

(* _send_with_backoff *)
OneTooMany == attempt <= MaxAttempts   \* fault: off by one
MayRetry == attempt < MaxAttempts

(* No answer, too many requests, or an error of the CAD; the secret store  *)
(* is asked once.                                                          *)
Retry(pause) ==
  /\ phase = "send" /\ request.what # "secret" /\ MayRetry
  /\ phase' = "pause" /\ until' = now + pause
  /\ UNCHANGED <<now, shown, expires, request, attempt, started, calls>>

SendAgain ==
  /\ phase = "pause" /\ now = until
  /\ phase' = "send" /\ until' = now + Exchange /\ attempt' = attempt + 1
  /\ UNCHANGED <<now, shown, expires, request, started, calls>>

(* Fault: a failed poll renews the age. *)
Renewed ==
  [shown EXCEPT !.attempt = started, !.failed = TRUE,
                !.success = IF @ = NoTime THEN NoTime ELSE now]

(* The last attempt fails, or the CAD refuses, or what it answers cannot   *)
(* be used: what is on display stays, and so does its age.                 *)
Failed == [shown EXCEPT !.attempt = started, !.failed = TRUE]

PollFails ==
  /\ phase = "send"
  /\ shown' = Failed
  /\ Sleep
  /\ UNCHANGED <<now, expires>>

Next ==
  \/ Tick \/ Start \/ Stop \/ PollOnce \/ SecretArrives \/ TokenArrives
  \/ CallsArrive \/ UnitsArrive \/ SendAgain \/ PollFails
  \/ \E pause \in 0..MaxWait : Retry(pause)

Spec == Init /\ [][Next]_vars
-----------------------------------------------------------------------------
(* CloudCadDisplayState.status *)
Freshness ==
  IF shown.success = NoTime
    THEN IF shown.attempt = NoTime THEN "disabled" ELSE "awaiting-success"
    ELSE IF now - shown.success <= Fresh THEN "current" ELSE "stale"

(* The longest a request takes, and the time from the answer with the      *)
(* calls to the end of the poll: a token may have to be fetched first.     *)
LongestRequest == MaxAttempts * Exchange + (MaxAttempts - 1) * MaxWait
LongestRest == SecretTime + 2 * LongestRequest

(* Data called current is: the units are as old as the status says, the    *)
(* calls are of the same poll and older by no more than that may take to   *)
(* get the units as well, whatever failed or was retried since.  How long  *)
(* that is the code leaves to the network: with an answer that comes in    *)
(* ever more pieces, or a retry-after of any length, calls of any age are  *)
(* called current.                                                         *)
CurrentIsRecent ==
  Freshness = "current" =>
    /\ now - shown.units <= Fresh
    /\ shown.calls <= shown.units
    /\ shown.failed \/ shown.attempt <= shown.calls
    /\ now - shown.calls <= Fresh + LongestRest
=============================================================================
