----------------------------- MODULE AgentAdmin ------------------------------
(*****************************************************************************)
(* The operators' calls on one agent, statement by statement, while its jobs *)
(* start, end and judge it.  What a checkpoint holds is left out: only       *)
(* rollback and replay write a job's checkpoint, and they copy what others   *)
(* read from jobs.                                                           *)
(*****************************************************************************)
EXTENDS Naturals

CONSTANTS
  AdminCalls, \* operators' calls that may be under way
  AdminJobs,  \* jobs of the agent
  Threshold   \* maxConsecutiveFailures of the agent's circuit breaker

ASSUME AdminAssumption == Threshold \in Nat \ {0}

VARIABLES
  status,     \* agent.status
  streak,     \* failed jobs since the last that did not fail, and since health_reset_at
  failures,   \* history: failed jobs since the agent was last activated or reset
  adminJob,   \* per job its status; "loaded" and "judged" are points of a RUNNING one
  kept,       \* per job, failures that its reading of health_reset_at still counts; all that a
              \* judged one counted, once there was a reset
  sessions,   \* active sessions
  call,       \* per call what it does and how far it is
  unchecked,  \* history: an agent was archived past the count of its sessions, or opened one later
  condemned   \* history: the failures at the last quarantine by the breaker

adminVars == <<status, streak, failures, adminJob, kept, sessions, call, unchecked, condemned>>

judging == <<streak, failures, kept, condemned>>

NoAdminCall == <<"none", "none">>

AdminInit ==
  /\ status = "ACTIVE" /\ streak = 0 /\ failures = 0 /\ condemned = Threshold
  /\ adminJob = [j \in AdminJobs |-> "none"] /\ kept = [j \in AdminJobs |-> 0]
  /\ sessions = 0 /\ call = [c \in AdminCalls |-> NoAdminCall] /\ unchecked = FALSE

Goes(c, op, at) == call' = [call EXCEPT ![c] = <<op, at>>]
Returns(c, op, at) == call[c] = <<op, at>> /\ call' = [call EXCEPT ![c] = NoAdminCall]

--------------------------------------------------------------------------------
\* The operators' calls.

\* Each call reads first whether the agent is there and, where that matters, its status.
Read(c, op) ==
  /\ call[c] = NoAdminCall /\ Goes(c, op, "read")
  /\ op = "create" => status = "ACTIVE"
  /\ op \in {"quarantine", "kill"} => status # "QUARANTINED"
  /\ op = "release" => status = "QUARANTINED"
  /\ UNCHANGED <<status, judging, adminJob, sessions, unchecked>>

\* Mutant: health_reset_at is not written.
ResetHealthNot == failures' = 0 /\ UNCHANGED <<streak, kept, condemned>>

\* health_reset_at is now; a job that has read the row before still counts what was there.
ResetHealth ==
  /\ streak' = 0 /\ failures' = 0 /\ UNCHANGED condemned
  /\ kept' = [j \in AdminJobs |-> IF adminJob[j] = "judged" THEN Threshold
                                  ELSE IF adminJob[j] = "loaded" THEN kept[j] + streak ELSE 0]

\* PUT /agents/:id with a status; it looks at nothing.
UpdateStatus(c, s) ==
  /\ Returns(c, "update", "read") /\ status' = s
  /\ IF s = "ACTIVE" THEN ResetHealth ELSE UNCHANGED judging
  /\ unchecked' = IF s = "ARCHIVED" THEN sessions > 0 ELSE unchecked
  /\ UNCHANGED <<adminJob, sessions>>

resetHealth(c) ==
  /\ Returns(c, "reset", "read") /\ ResetHealth /\ UNCHANGED <<status, adminJob, sessions, unchecked>>

\* POST /release, of an agent no context is kept of.
Release(c) ==
  /\ Returns(c, "release", "read") /\ status' = "ACTIVE" /\ ResetHealth
  /\ UNCHANGED <<adminJob, sessions, unchecked>>

\* POST /quarantine of such an agent, and the ends of a kill and of a rollback.
Quarantine(c) ==
  /\ \/ Returns(c, "quarantine", "read") \/ Returns(c, "rollback", "read") \/ Returns(c, "kill", "failed")
  /\ status' = "QUARANTINED" /\ UNCHANGED <<judging, adminJob, sessions, unchecked>>

Fail(j) ==
  /\ adminJob' = [adminJob EXCEPT ![j] = "FAILED"]
  /\ streak' = IF streak < Threshold THEN streak + 1 ELSE streak
  /\ failures' = IF failures < Threshold THEN failures + 1 ELSE failures

Running == {j \in AdminJobs : adminJob[j] \in {"RUNNING", "loaded", "judged", "executing", "stranded"}}

\* POST /kill: of the running jobs one is found, cancelled and failed before the row is written.
Kill(c) ==
  /\ call[c] = <<"kill", "read">> /\ Goes(c, "kill", "failed")
  /\ IF Running = {} THEN UNCHANGED <<adminJob, streak, failures>> ELSE \E j \in Running : Fail(j)
  /\ UNCHANGED <<status, kept, condemned, sessions, unchecked>>

\* Mutant: the sessions are not counted.
CountSessionsNot(c) ==
  /\ call[c] = <<"archive", "read">> /\ Goes(c, "archive", "counted")
  /\ UNCHANGED <<status, judging, adminJob, sessions, unchecked>>

\* DELETE /agents/:id counts the active sessions ...
CountSessions(c) ==
  /\ call[c] = <<"archive", "read">>
  /\ IF sessions > 0 THEN Returns(c, "archive", "read") ELSE Goes(c, "archive", "counted")
  /\ UNCHANGED <<status, judging, adminJob, sessions, unchecked>>

\* ... and then writes.
Archive(c) ==
  /\ Returns(c, "archive", "counted") /\ status' = "ARCHIVED"
  /\ UNCHANGED <<judging, adminJob, sessions, unchecked>>

\* POST /jobs, of an agent that was ACTIVE, and /replay, of any.
InsertJob(c, j) ==
  /\ Returns(c, "create", "read") \/ Returns(c, "replay", "read")
  /\ adminJob[j] = "none" /\ adminJob' = [adminJob EXCEPT ![j] = "SCHEDULED"]
  /\ UNCHANGED <<status, judging, sessions, unchecked>>

\* POST /pause and /resume write the job of the agent's context; its execution goes on.
Pause(c, j) ==
  /\ Returns(c, "pause", "read") /\ adminJob[j] = "executing"
  /\ adminJob' = [adminJob EXCEPT ![j] = "paused"] /\ UNCHANGED <<status, judging, sessions, unchecked>>

\* A job whose execution ended while it was paused is RUNNING again, with nobody to end it.
Resume(c, j) ==
  /\ Returns(c, "resume", "read") /\ adminJob[j] \in {"paused", "pausedOver"}
  /\ adminJob' = [adminJob EXCEPT ![j] = IF adminJob[j] = "paused" THEN "executing" ELSE "stranded"]
  /\ UNCHANGED <<status, judging, sessions, unchecked>>

--------------------------------------------------------------------------------
\* Sessions and jobs.

OpenSession ==
  /\ sessions = 0 /\ sessions' = 1
  /\ unchecked' = (unchecked \/ status = "ARCHIVED" \/ \E c \in AdminCalls : call[c] = <<"archive", "counted">>)
  /\ UNCHANGED <<status, judging, adminJob, call>>

\* The last session of the agent ends; from here the counts are right again.
EndSession ==
  /\ sessions = 1 /\ sessions' = 0 /\ unchecked' = FALSE
  /\ UNCHANGED <<status, judging, adminJob, call>>

StartJob(j) ==
  /\ adminJob[j] = "SCHEDULED" /\ adminJob' = [adminJob EXCEPT ![j] = "RUNNING"]
  /\ UNCHANGED <<status, judging, sessions, call, unchecked>>

\* The attempt reads the agent; unless it is ACTIVE the job fails.
LoadAgent(j) ==
  /\ adminJob[j] = "RUNNING" /\ kept' = [kept EXCEPT ![j] = 0]
  /\ IF status = "ACTIVE"
     THEN adminJob' = [adminJob EXCEPT ![j] = "loaded"] /\ UNCHANGED <<streak, failures>>
     ELSE Fail(j)
  /\ UNCHANGED <<status, condemned, sessions, call, unchecked>>

\* The failures are counted from the health_reset_at that was read.
Judge(j) ==
  /\ adminJob[j] = "loaded"
  /\ adminJob' = [adminJob EXCEPT ![j] = IF kept[j] + streak >= Threshold THEN "judged" ELSE "executing"]
  /\ UNCHANGED <<status, judging, sessions, call, unchecked>>

\* The agent is quarantined by what was counted.
Condemn(j) ==
  /\ adminJob[j] = "judged" /\ status' = "QUARANTINED" /\ Fail(j)
  /\ condemned' = IF kept[j] > 0 THEN Threshold ELSE failures
  /\ UNCHANGED <<kept, sessions, call, unchecked>>

\* Mutant: a job of any end counts as a failure.
EndJobAlways(j) ==
  /\ adminJob[j] = "executing" /\ adminJob' = [adminJob EXCEPT ![j] = "COMPLETED"]
  /\ streak' = streak + 1 /\ UNCHANGED <<failures, kept, status, condemned, sessions, call, unchecked>>

\* Failures of the configuration do not count; what did not fail ends the row of failures.
EndJob(j) ==
  /\ adminJob[j] = "executing"
  /\ \/ Fail(j) /\ UNCHANGED kept
     \/ adminJob' = [adminJob EXCEPT ![j] = "FAILED"] /\ UNCHANGED <<streak, failures, kept>>
     \/ /\ adminJob' = [adminJob EXCEPT ![j] = "COMPLETED"] /\ streak' = 0 /\ UNCHANGED failures
        /\ kept' = [k \in AdminJobs |-> IF adminJob[k] = "loaded" THEN 0 ELSE kept[k]]
  /\ UNCHANGED <<status, condemned, sessions, call, unchecked>>

\* The end of a paused job's execution finds no RUNNING row to write.
EndPaused(j) ==
  /\ adminJob[j] = "paused" /\ adminJob' = [adminJob EXCEPT ![j] = "pausedOver"]
  /\ UNCHANGED <<status, judging, sessions, call, unchecked>>

AdminNext ==
  \/ \E c \in AdminCalls :
       \/ \E op \in {"update", "reset", "release", "quarantine", "kill", "archive", "create",
                     "replay", "rollback", "pause", "resume"} : Read(c, op)
       \/ \E s \in {"ACTIVE", "DISABLED", "ARCHIVED"} : UpdateStatus(c, s)
       \/ resetHealth(c) \/ Release(c) \/ Quarantine(c) \/ Kill(c) \/ CountSessions(c) \/ Archive(c)
       \/ \E j \in AdminJobs : InsertJob(c, j) \/ Pause(c, j) \/ Resume(c, j)
  \/ \E j \in AdminJobs : StartJob(j) \/ LoadAgent(j) \/ Judge(j) \/ Condemn(j) \/ EndJob(j) \/ EndPaused(j)
  \/ OpenSession \/ EndSession

--------------------------------------------------------------------------------
\* The types of the variables; no more failures are counted than there were.
AdminTypeOK ==
  /\ status \in {"ACTIVE", "DISABLED", "ARCHIVED", "QUARANTINED"} /\ sessions \in 0 .. 1
  /\ {streak, failures, condemned} \subseteq 0 .. Threshold /\ streak <= failures
  /\ \A j \in AdminJobs :
       /\ adminJob[j] \in {"none", "SCHEDULED", "RUNNING", "loaded", "judged", "executing", "paused",
                         "pausedOver", "stranded", "COMPLETED", "FAILED"}
       /\ kept[j] \in Nat

\* An agent that was activated, released or reset is quarantined by the breaker only after
\* Threshold failures of jobs since (the "quarantine death spiral", #443), or by a job that
\* had read the row before.
CondemnedAfresh == condemned = Threshold

\* An archived agent has no active session, unless one was opened after the count or the
\* status was written without one.
ArchivedIsEmpty == status = "ARCHIVED" /\ ~unchecked => sessions = 0
================================================================================
