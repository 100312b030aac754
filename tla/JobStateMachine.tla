-------------------------- MODULE JobStateMachine --------------------------
(*****************************************************************************)
(* What the database promises of job.status: the transitions that the        *)
(* trigger validate_job_transition lets through, one row per statement.      *)
(* Whoever implements this specification never has a statement rejected.     *)
(*****************************************************************************)
CONSTANT Jobs

VARIABLE status

Absent == "ABSENT"    \* the row is not inserted yet

ValidTransition(from, to) ==
  \/ from = "PENDING"              /\ to \in {"SCHEDULED", "FAILED"}
  \/ from = "SCHEDULED"            /\ to \in {"RUNNING", "FAILED"}
  \/ from = "RUNNING"              /\ to \in {"COMPLETED", "FAILED", "TIMED_OUT",
                                              "WAITING_FOR_APPROVAL"}
  \/ from = "WAITING_FOR_APPROVAL" /\ to \in {"RUNNING", "FAILED", "TIMED_OUT"}
  \/ from = "FAILED"               /\ to \in {"RETRYING", "DEAD_LETTER"}
  \/ from = "TIMED_OUT"            /\ to \in {"RETRYING", "DEAD_LETTER"}
  \/ from = "RETRYING"             /\ to \in {"SCHEDULED", "DEAD_LETTER"}

Init == status = [j \in Jobs |-> Absent]

\* status is NOT NULL DEFAULT 'PENDING' and no route inserts another value.
Insert(j) ==
  /\ status[j] = Absent
  /\ status' = [status EXCEPT ![j] = "PENDING"]

Update(j, to) ==
  /\ ValidTransition(status[j], to)
  /\ status' = [status EXCEPT ![j] = to]

Statuses == {"SCHEDULED", "RUNNING", "COMPLETED", "FAILED", "TIMED_OUT",
             "WAITING_FOR_APPROVAL", "RETRYING", "DEAD_LETTER"}

Next == \E j \in Jobs : Insert(j) \/ \E to \in Statuses : Update(j, to)

Spec == Init /\ [][Next]_status
=============================================================================
