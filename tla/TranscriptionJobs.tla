------------------------- MODULE TranscriptionJobs -------------------------
(***************************************************************************)
(* What the transcriber promises about a recording that capture handed     *)
(* over, whatever its queue files and its process do: the job waits until  *)
(* it is transcribed or set aside with a failure record, a failed job may  *)
(* still be transcribed later, and a transcript is final.                  *)
(***************************************************************************)
CONSTANT Job

VARIABLE status   \* where each job stands

Statuses == {"absent", "queued", "failed", "transcribed"}

Init == status = [j \in Job |-> "absent"]

Move(j, from, to) ==
  /\ status[j] \in from
  /\ status' = [status EXCEPT ![j] = to]

HandOver(j)   == Move(j, {"absent"}, "queued")
SetAside(j)   == Move(j, {"queued"}, "failed")
Transcribe(j) == Move(j, {"queued", "failed"}, "transcribed")

Next == \E j \in Job : HandOver(j) \/ SetAside(j) \/ Transcribe(j)

Spec == Init /\ [][Next]_status
=============================================================================
