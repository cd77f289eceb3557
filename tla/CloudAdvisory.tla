---------------------------- MODULE CloudAdvisory ----------------------------
(***************************************************************************)
(* Questions to the cloud assistant (the advisory routes of main.py and    *)
(* the three paths behind them).  A question that names live data is       *)
(* phrased from verified facts; any other may be given to a model with     *)
(* read-only tools; what that leaves is answered from documents.  All      *)
(* paths draw on one daily budget of model calls, DailyRequestBudget.      *)
(*                                                                         *)
(* Requests run in threads; only the look at the budget is under its lock. *)
(* The budget is a variable of the process: this is one process from its   *)
(* start.  The streamed document path is AdvisoryStream; here it is one    *)
(* call of the model.                                                      *)
(***************************************************************************)
EXTENDS Naturals

CONSTANTS
  Request,    \* questions answered at a time
  Limit,      \* the daily limit
  MaxRounds,  \* max_tool_rounds
  MaxDay      \* bound: the last day

VARIABLES
  today,
  day, count,  \* the budget
  pc, path,    \* where a request is, and on which path
  rounds,      \* answers of the model in its tool loop
  used,        \* tools_executed is not 0
  paid,        \* history: the day a request's last reservation counted for
  calls        \* history: model calls on the reservations of each day

vars == <<today, day, count, pc, path, rounds, used, paid, calls>>

Day   == 0..MaxDay
Paths == {"facts", "tools", "documents"}
Ended == {"answered", "denied", "failed"}

TypeOK ==
  /\ {today, day} \subseteq Day /\ count \in 0..Limit
  /\ pc \in [Request -> {"new", "retrieve", "reserve", "call"} \cup Ended]
  /\ path \in [Request -> Paths]
  /\ rounds \in [Request -> 0..(MaxRounds + 1)]
  /\ used \in [Request -> BOOLEAN]
  /\ paid \in [Request -> Day]
  /\ calls \in [Day -> Nat]

Init ==
  /\ today = 0 /\ day = 0 /\ count = 0
  /\ pc = [r \in Request |-> "new"]
  /\ path = [r \in Request |-> "facts"]
  /\ rounds = [r \in Request |-> 0]
  /\ used = [r \in Request |-> FALSE]
  /\ paid = [r \in Request |-> 0]
  /\ calls = [d \in Day |-> 0]

-----------------------------------------------------------------------------
Goto(r, stage) == pc' = [pc EXCEPT ![r] = stage]
Take(r, way)   == path' = [path EXCEPT ![r] = way]

(* build_live_data_facts finds what the question names, ...  *)
AskFacts(r) == Take(r, "facts") /\ Goto(r, "reserve")

(* ... or not; whether tools are then offered is a setting. *)
AskTools(r) == Take(r, "tools") /\ Goto(r, "reserve")

AskDocuments(r) == Take(r, "documents") /\ Goto(r, "retrieve")

Ask(r) ==
  /\ pc[r] = "new"
  /\ AskFacts(r) \/ AskTools(r) \/ AskDocuments(r)
  /\ UNCHANGED <<today, day, count, rounds, used, paid, calls>>

(* ApprovedBedrockRetriever.retrieve: without a passage the answer is no.  *)
Retrieve(r) ==
  /\ pc[r] = "retrieve"
  /\ \E stage \in {"reserve", "denied", "failed"} : Goto(r, stage)
  /\ UNCHANGED <<today, day, count, path, rounds, used, paid, calls>>

Taken == IF day = today THEN count ELSE 0

HasRoom == Taken < Limit

(* DailyRequestBudget.reserve, under its lock. *)
Reserve(r) ==
  /\ pc[r] = "reserve"
  /\ day' = today
  /\ IF HasRoom
       THEN /\ count' = Taken + 1 /\ Goto(r, "call")
            /\ paid' = [paid EXCEPT ![r] = today]
       ELSE /\ count' = Taken /\ Goto(r, "denied") /\ UNCHANGED paid
  /\ UNCHANGED <<today, path, rounds, used, calls>>

(* A call of the model, whether it answers or fails. *)
Call(r) ==
  /\ pc[r] = "call"
  /\ calls' = [calls EXCEPT ![paid[r]] = @ + 1]
  /\ UNCHANGED <<today, day, count, paid>>

CallFails(r) == Call(r) /\ Goto(r, "failed") /\ UNCHANGED <<path, rounds, used>>

(* It puts something into words, possibly none. *)
Words(r) ==
  /\ Call(r)
  /\ \E stage \in {"answered", "denied"} : Goto(r, stage)
  /\ UNCHANGED <<path, rounds, used>>

(* VerifiedLiveAdvisory and GroundedBedrockAdvisory: facts or passages. *)
Phrase(r)   == path[r] = "facts" /\ Words(r)
Converse(r) == path[r] = "documents" /\ Words(r)

NextUnpaid(r) == Goto(r, "call")   \* fault: one reservation for all rounds
NextRound(r)  == Goto(r, "reserve")

(* The model names tools: they are executed, and it is called again, at    *)
(* most MaxRounds times.                                                   *)
UseTools(r) ==
  /\ path[r] = "tools" /\ Call(r)
  /\ used' = [used EXCEPT ![r] = TRUE]
  /\ rounds' = [rounds EXCEPT ![r] = @ + 1]
  /\ IF rounds[r] < MaxRounds THEN NextRound(r) ELSE Goto(r, "denied")
  /\ UNCHANGED path

(* It answers from what they returned.  *)
EndTools(r) ==
  path[r] = "tools" /\ used[r] /\ Words(r)

(* It answers from memory, which is not used, or means to use a tool and   *)
(* names none: the documents are asked instead.                            *)
LeaveTools(r) ==
  /\ path[r] = "tools" /\ Call(r)
  /\ AskDocuments(r)
  /\ UNCHANGED <<rounds, used>>

(* The thread's next question. *)
Again(r) ==
  /\ pc[r] \in Ended
  /\ Goto(r, "new")
  /\ rounds' = [rounds EXCEPT ![r] = 0]
  /\ used' = [used EXCEPT ![r] = FALSE]
  /\ UNCHANGED <<today, day, count, path, paid, calls>>

NextDay ==
  /\ today < MaxDay /\ today' = today + 1
  /\ UNCHANGED <<day, count, pc, path, rounds, used, paid, calls>>

Next ==
  \/ NextDay
  \/ \E r \in Request :
       \/ Ask(r) \/ Retrieve(r) \/ Reserve(r) \/ CallFails(r)
       \/ Phrase(r) \/ Converse(r) \/ UseTools(r) \/ EndTools(r)
       \/ LeaveTools(r) \/ Again(r)

Spec == Init /\ [][Next]_vars
-----------------------------------------------------------------------------
(* The model is called no more often than the daily limit allows, all      *)
(* paths, tool rounds, failures and questions under way together; a call   *)
(* counts for the day it was reserved on.                                  *)
BudgetHolds == \A d \in Day : calls[d] <= Limit
=============================================================================
