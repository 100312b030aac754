---------------------------- MODULE JobLifecycle ----------------------------
(*****************************************************************************)
(* The life of a job of the control plane, from the HTTP route that inserts  *)
(* it to the outcome the agent_execute task writes.  The state is what the   *)
(* database holds (job and agent rows, approval requests, the entries of the *)
(* Graphile Worker queue) and what lives only in the process: the handlers   *)
(* in flight, each at one of its awaits, and the ExecutionRegistry.          *)
(*                                                                           *)
(* One action is one statement of a handler that the other handlers can      *)
(* observe; everything between two awaits is atomic, as in Node.js.          *)
(*****************************************************************************)
EXTENDS Naturals, FiniteSets

CONSTANTS
  Jobs, Agents, Workers, Requests,
  Entries,              \* bound: queue entries alive at one time
  AgentOf,              \* job.agent_id
  RetryBound,           \* bound: attempts up to which the dashboard retries a job
  Gated,                \* the agents whose model_config.requiresApproval is true
  MaxAttempts,          \* job.max_attempts
  Nobody,               \* "no job", "no entry", "no worker", "no approval"
  QuarantineDisabled,   \* DISABLE_AGENT_QUARANTINE
  RoutesMayFail,        \* enqueueing fails, or the process dies inside a route
  WorkersMayDie,        \* a worker process dies in the middle of a task
  StatementsMayFail,    \* a statement of a handler is rejected, the worker alive
  DashboardRetries,     \* somebody uses POST /jobs/:jobId/retry
  OperatorActs,         \* somebody kills an agent or opens an approval request
  BackoffOutlastsUpdate \* a delayed entry only runs after its author's UPDATE

ASSUME ConstantsAssumption ==
  /\ AgentOf \in [Jobs -> Agents]
  /\ Gated \subseteq Agents
  /\ MaxAttempts \in Nat /\ RetryBound \in Nat
  /\ Nobody \notin Jobs \cup Entries \cup Workers \cup Requests
  /\ {QuarantineDisabled, RoutesMayFail, WorkersMayDie, StatementsMayFail,
      DashboardRetries, OperatorActs, BackoffOutlastsUpdate} \subseteq BOOLEAN

VARIABLES
  job,       \* the job rows
  agent,     \* agent.status
  queue,     \* the entries of graphile_worker.jobs
  request,   \* the approval_request rows
  creating,  \* per job, where the route that creates it stands
  retry,     \* per job, the retry route in flight
  kill,      \* per agent, the kill route in flight
  registry,  \* ExecutionRegistry.handles, by job
  worker,    \* the agent_execute handlers in flight
  stranded   \* history: the jobs whose last status may have nobody to go on with

vars == <<job, agent, queue, request, creating, retry, kill, registry, worker, stranded>>

JobStatus == {"PENDING", "SCHEDULED", "RUNNING", "WAITING_FOR_APPROVAL",
              "COMPLETED", "FAILED", "TIMED_OUT", "RETRYING", "DEAD_LETTER"}
Absent == "ABSENT"    \* the row is not inserted yet

JobRow == [status: JobStatus \cup {Absent}, attempt: Nat, completed: BOOLEAN]

\* keyed: carries the job key exec:<jobId>; once: this is its last attempt.
Entry == [job: Jobs, keyed: BOOLEAN, once: BOOLEAN,
          st: {"delayed", "queued", "locked"}]

\* Where a handler of agent_execute stands, in the order of its code.
Running  == {"started", "admitted", "unapproved", "cleared", "tripped",
             "executing", "resulted", "caught"}
Catching == {"failed", "retrying", "requeued", "rethrow"}
Points   == {"loaded"} \cup Running \cup Catching

Notes == {"none", "cancelled",
          "completed", "failed", "timed_out",                 \* results
          "inactive", "retryable", "timeout", "permanent"}    \* errors

\* A handler: its entry, its job, job.attempt as it was loaded, and the result
\* or the error in hand.
BusyHandler == [pc: Points, job: Jobs, entry: Entries, attempt: Nat, note: Notes]

RequestRow == [job: Jobs, status: {"PENDING", "APPROVED", "REJECTED", "EXPIRED"},
               stale: BOOLEAN]

\* The retry route of the dashboard: the row it has read, and whether it has
\* written RETRYING over it.
RetryRoute == [pc: {"read", "marked"}, status: JobStatus, completed: BOOLEAN]

\* Nobody also marks a row that is not there, so it is not one.
ASSUME NobodyIsNoRow ==
  Nobody \notin Entry /\ Nobody \notin RetryRoute /\ Nobody \notin RequestRow

KillState == [pc: {"none", "cancel", "fail", "quarantine"}, job: Jobs \cup {Nobody}]

Idle == [pc |-> "idle", job |-> Nobody, entry |-> Nobody,
         attempt |-> 0, note |-> "none"]

HandlerState == BusyHandler \cup {Idle}

Init ==
  /\ job = [j \in Jobs |-> [status |-> Absent, attempt |-> 0, completed |-> FALSE]]
  /\ agent = [a \in Agents |-> "ACTIVE"]
  /\ queue = [e \in Entries |-> Nobody]
  /\ request = [r \in Requests |-> Nobody]
  /\ creating = [j \in Jobs |-> "none"]
  /\ retry = [j \in Jobs |-> Nobody]
  /\ kill = [a \in Agents |-> [pc |-> "none", job |-> Nobody]]
  /\ registry = [j \in Jobs |-> Nobody]
  /\ worker = [w \in Workers |-> Idle]
  /\ stranded = {}

-----------------------------------------------------------------------------
\* Statements that several handlers share.

\* UPDATE job SET status = to [, completed_at = now()]
\*   WHERE id = j AND status = from
UpdateJob(j, from, to, closes) ==
  job' = [job EXCEPT ![j] =
            IF job[j].status = from
            THEN [job[j] EXCEPT !.status = to, !.completed = closes \/ job[j].completed]
            ELSE job[j]]

\* A job is stranded in one status only: whoever gives it another takes it on.
MoveJob(j, from, to, closes) ==
  /\ UpdateJob(j, from, to, closes)
  /\ stranded' = IF job[j].status = from THEN stranded \ {j} ELSE stranded

\* Something goes wrong with whoever was to go on with the job.
Strand(j) == stranded' = stranded \cup {j}

\* graphile_worker.add_job without a key, one attempt, a future run_at.
Unused == {e \in Entries : queue[e] = Nobody}
NewEntry == CHOOSE e \in Unused : TRUE

AddDelayed(j) ==
  /\ Unused # {}
  /\ queue' = [queue EXCEPT ![NewEntry] =
                 [job |-> j, keyed |-> FALSE, once |-> TRUE, st |-> "delayed"]]

\* enqueueJob: add_job with the key exec:<jobId>.  An entry with the key that
\* is not locked is reused; one that is locked loses the key and its retries,
\* and a new entry takes its place.
KeyedEntries(j) ==
  {e \in Entries : queue[e] # Nobody /\ queue[e].job = j /\ queue[e].keyed}
\* Mutant: a locked entry with the key is unlocked and reused.
AddKeyedUnlocks(j) ==
  IF KeyedEntries(j) # {}
  THEN queue' = [e \in Entries |->
         IF e \in KeyedEntries(j) THEN [queue[e] EXCEPT !.st = "queued"] ELSE queue[e]]
  ELSE /\ Unused # {}
       /\ queue' = [queue EXCEPT ![NewEntry] =
            [job |-> j, keyed |-> TRUE, once |-> FALSE, st |-> "queued"]]

AddKeyed(j) ==
  \/ /\ \E e \in KeyedEntries(j) : queue[e].st # "locked"
     /\ UNCHANGED queue
  \/ /\ \A e \in KeyedEntries(j) : queue[e].st = "locked"
     /\ Unused # {}
     /\ queue' = [e \in Entries |->
          CASE e = NewEntry          -> [job |-> j, keyed |-> TRUE, once |-> FALSE,
                                         st |-> "queued"]
            [] e \in KeyedEntries(j) -> [queue[e] EXCEPT !.keyed = FALSE, !.once = TRUE]
            [] OTHER                 -> queue[e]]

At(w, pc) == worker[w].pc = pc

Goto(w, pc) == worker' = [worker EXCEPT ![w].pc = pc]

GotoWith(w, pc, note) ==
  worker' = [worker EXCEPT ![w] = [@ EXCEPT !.pc = pc, !.note = note]]

\* The handler returns: Graphile deletes the entry.
Return(w) ==
  /\ worker' = [worker EXCEPT ![w] = Idle]
  /\ queue' = [queue EXCEPT ![worker[w].entry] = Nobody]

Approved(j) ==
  \E r \in Requests :
    request[r] # Nobody /\ request[r].job = j /\ request[r].status = "APPROVED"

-----------------------------------------------------------------------------
\* Creating a job: INSERT, UPDATE to SCHEDULED, enqueue, in three awaits.

CreateInsert(j) ==
  /\ job[j].status = Absent
  /\ agent[AgentOf[j]] = "ACTIVE"
  /\ job' = [job EXCEPT ![j].status = "PENDING"]
  /\ stranded' = stranded \ {j}
  /\ creating' = [creating EXCEPT ![j] = "inserted"]
  /\ UNCHANGED <<agent, queue, request, retry, kill, registry, worker>>

CreateSchedule(j) ==
  /\ creating[j] = "inserted"
  /\ job' = [job EXCEPT ![j].status = "SCHEDULED"]
  /\ stranded' = {k \in stranded : job'[k].status = job[k].status}
  /\ creating' = [creating EXCEPT ![j] = "scheduled"]
  /\ UNCHANGED <<agent, queue, request, retry, kill, registry, worker>>

CreateEnqueue(j) ==
  /\ creating[j] = "scheduled"
  /\ AddKeyed(j)
  /\ creating' = [creating EXCEPT ![j] = "none"]
  /\ UNCHANGED <<job, agent, request, retry, kill, registry, worker, stranded>>

\* enqueueJob rejects (the error is swallowed) or the process dies here.
CreateAbandoned(j) ==
  /\ RoutesMayFail
  /\ creating[j] # "none"
  /\ creating' = [creating EXCEPT ![j] = "none"]
  /\ Strand(j)
  /\ UNCHANGED <<job, agent, queue, request, retry, kill, registry, worker>>

-----------------------------------------------------------------------------
\* The agent_execute task.

\* Graphile locks an entry and the handler reads the job row; on any status
\* but SCHEDULED it returns and the entry is gone.
TakeAndSkip(w, e) ==
  /\ At(w, "idle")
  /\ queue[e] # Nobody /\ queue[e].st = "queued"
  /\ job[queue[e].job].status # "SCHEDULED"
  /\ queue' = [queue EXCEPT ![e] = Nobody]
  /\ UNCHANGED <<job, agent, request, creating, retry, kill, registry, worker, stranded>>

TakeAndLoad(w, e) ==
  /\ At(w, "idle")
  /\ queue[e] # Nobody /\ queue[e].st = "queued"
  /\ LET j == queue[e].job IN
       /\ job[j].status = "SCHEDULED"
       /\ worker' = [worker EXCEPT ![w] =
            [pc |-> "loaded", job |-> j, entry |-> e,
             attempt |-> job[j].attempt, note |-> "none"]]
  /\ queue' = [queue EXCEPT ![e].st = "locked"]
  /\ UNCHANGED <<job, agent, request, creating, retry, kill, registry, stranded>>

\* UPDATE to RUNNING where SCHEDULED.  The number of affected rows is not
\* looked at: the handler goes on whether or not the job was still SCHEDULED.
Start(w) ==
  /\ At(w, "loaded")
  /\ LET j == worker[w].job IN
       job' = [job EXCEPT ![j] =
                 IF @.status = "SCHEDULED"
                 THEN [@ EXCEPT !.status = "RUNNING", !.attempt = worker[w].attempt + 1]
                 ELSE @]
  /\ stranded' = {j \in stranded : job'[j].status = job[j].status}
  /\ Goto(w, "started")
  /\ UNCHANGED <<agent, queue, request, creating, retry, kill, registry>>

\* Step 1: the agent must be ACTIVE, or QUARANTINED with quarantine disabled.
LoadAgent(w) ==
  /\ At(w, "started")
  /\ IF agent[AgentOf[worker[w].job]] = "ACTIVE" \/ QuarantineDisabled
     THEN Goto(w, "admitted")
     ELSE GotoWith(w, "caught", "inactive")
  /\ UNCHANGED <<job, agent, queue, request, creating, retry, kill, registry, stranded>>

\* Step 1c: the recent failures trip the agent's breaker.  Which failures do
\* is left open here.
TripBeforeRun(w) ==
  /\ At(w, "admitted") /\ ~QuarantineDisabled
  /\ agent' = [agent EXCEPT ![AgentOf[worker[w].job]] = "QUARANTINED"]
  /\ Goto(w, "tripped")
  /\ UNCHANGED <<job, queue, request, creating, retry, kill, registry, stranded>>

CloseTripped(w) ==
  /\ At(w, "tripped")
  /\ MoveJob(worker[w].job, "RUNNING", "FAILED", TRUE)
  /\ Return(w)
  /\ UNCHANGED <<agent, request, creating, retry, kill, registry>>
\* Mutant: the query of the gate has no filter on the request's status.
ReadGateAnyRequest(w) ==
  /\ At(w, "admitted")
  /\ LET j == worker[w].job IN
       IF /\ AgentOf[j] \in Gated
          /\ \A r \in Requests : request[r] = Nobody \/ request[r].job # j
       THEN Goto(w, "unapproved")
       ELSE Goto(w, "cleared")
  /\ UNCHANGED <<job, agent, queue, request, creating, retry, kill, registry, stranded>>

\* Step 2: checkApprovalGate reads; parking the job is a later statement.
ReadGate(w) ==
  /\ At(w, "admitted")
  /\ LET j == worker[w].job IN
       IF AgentOf[j] \in Gated /\ ~Approved(j)
       THEN Goto(w, "unapproved")
       ELSE Goto(w, "cleared")
  /\ UNCHANGED <<job, agent, queue, request, creating, retry, kill, registry, stranded>>

Park(w) ==
  /\ At(w, "unapproved")
  /\ MoveJob(worker[w].job, "RUNNING", "WAITING_FOR_APPROVAL", FALSE)
  /\ Return(w)
  /\ UNCHANGED <<agent, request, creating, retry, kill, registry>>

\* Context budget, model contract, unusable credential: FAILED, no retry.
Refuse(w) ==
  /\ At(w, "cleared")
  /\ MoveJob(worker[w].job, "RUNNING", "FAILED", TRUE)
  /\ Return(w)
  /\ UNCHANGED <<agent, request, creating, retry, kill, registry>>

\* Steps 5 to 8b: the backend accepted the task and its handle is registered.
Dispatch(w) ==
  /\ At(w, "cleared")
  /\ registry' = [registry EXCEPT ![worker[w].job] = w]
  /\ Goto(w, "executing")
  /\ UNCHANGED <<job, agent, queue, request, creating, retry, kill, stranded>>

\* Routing, the permit or executeTask throws.  Once the permit is held the
\* finally block unregisters the job, whoever registered it.
DispatchThrows(w, err) ==
  /\ At(w, "cleared")
  /\ registry' \in {registry, [registry EXCEPT ![worker[w].job] = Nobody]}
  /\ GotoWith(w, "caught", err)
  /\ UNCHANGED <<job, agent, queue, request, creating, retry, kill, stranded>>

\* The cancel checker sees the job in another status and cancels the handle.
CancelCheck(w) ==
  /\ At(w, "executing") /\ worker[w].note = "none"
  /\ job[worker[w].job].status # "RUNNING"
  /\ worker' = [worker EXCEPT ![w].note = "cancelled"]
  /\ UNCHANGED <<job, agent, queue, request, creating, retry, kill, registry, stranded>>

\* Steps 10 and 11: the result arrives; a failure may quarantine the agent.
ResultArrives(w, result) ==
  /\ At(w, "executing")
  /\ result = "cancelled" => worker[w].note = "cancelled"
  /\ GotoWith(w, "resulted", result)
  /\ \/ UNCHANGED agent
     \/ /\ result # "completed" /\ ~QuarantineDisabled
        /\ agent' = [agent EXCEPT ![AgentOf[worker[w].job]] = "QUARANTINED"]
  /\ UNCHANGED <<job, queue, request, creating, retry, kill, registry, stranded>>

ExecutionThrows(w, err) ==
  /\ At(w, "executing")
  /\ registry' = [registry EXCEPT ![worker[w].job] = Nobody]
  /\ GotoWith(w, "caught", err)
  /\ UNCHANGED <<job, agent, queue, request, creating, retry, kill, stranded>>
\* Any other statement of the try block may be rejected; the catch block then
\* treats the error like the execution's own.
StepThrows(w, err) ==
  /\ StatementsMayFail
  /\ worker[w].pc \in {"started", "admitted", "unapproved", "tripped", "resulted"}
  /\ registry' = [registry EXCEPT ![worker[w].job] =
                    IF At(w, "resulted") THEN Nobody ELSE @]
  /\ GotoWith(w, "caught", err)
  /\ UNCHANGED <<job, agent, queue, request, creating, retry, kill, stranded>>
\* Mutant: a cancelled result gets a status of its own.
mapExecutionStatusCancelled(result) ==
  CASE result = "completed" -> "COMPLETED"
    [] result = "timed_out" -> "TIMED_OUT"
    [] result = "cancelled" -> "CANCELLED"
    [] OTHER                -> "FAILED"

mapExecutionStatus(result) ==
  CASE result = "completed" -> "COMPLETED"
    [] result = "timed_out" -> "TIMED_OUT"
    [] OTHER                -> "FAILED"
\* Mutant: no finally block unregisters the handle.
PersistKeepsHandle(w) ==
  /\ At(w, "resulted")
  /\ MoveJob(worker[w].job, "RUNNING", mapExecutionStatus(worker[w].note), TRUE)
  /\ Return(w)
  /\ UNCHANGED <<agent, request, creating, retry, kill, registry>>

\* Step 12 and the finally blocks.
Persist(w) ==
  /\ At(w, "resulted")
  /\ MoveJob(worker[w].job, "RUNNING", mapExecutionStatus(worker[w].note), TRUE)
  /\ registry' = [registry EXCEPT ![worker[w].job] = Nobody]
  /\ Return(w)
  /\ UNCHANGED <<agent, request, creating, retry, kill>>
\* Mutant: one attempt too many.
WillRetryOneMore(w) ==
  worker[w].note # "permanent" /\ worker[w].attempt <= MaxAttempts

\* The catch block.  The retry decision uses the attempt read when the
\* handler loaded the job.
WillRetry(w) ==
  worker[w].note # "permanent" /\ worker[w].attempt < MaxAttempts

FailForRetry(w) ==
  /\ At(w, "caught") /\ WillRetry(w)
  /\ MoveJob(worker[w].job, "RUNNING", "FAILED", FALSE)
  /\ Goto(w, "failed")
  /\ UNCHANGED <<agent, queue, request, creating, retry, kill, registry>>
\* Mutant: the UPDATE to RETRYING has no condition on the status.
MarkRetryingAlways(w) ==
  /\ At(w, "failed")
  /\ job' = [job EXCEPT ![worker[w].job].status = "RETRYING"]
  /\ stranded' = stranded \ {worker[w].job}
  /\ Goto(w, "retrying")
  /\ UNCHANGED <<agent, queue, request, creating, retry, kill, registry>>

MarkRetrying(w) ==
  /\ At(w, "failed")
  /\ MoveJob(worker[w].job, "FAILED", "RETRYING", FALSE)
  /\ Goto(w, "retrying")
  /\ UNCHANGED <<agent, queue, request, creating, retry, kill, registry>>
\* Mutant: no delayed entry is added.
AddRetryForgets(w) ==
  /\ At(w, "retrying")
  /\ Goto(w, "requeued")
  /\ UNCHANGED <<job, agent, queue, request, creating, retry, kill, registry, stranded>>

AddRetry(w) ==
  /\ At(w, "retrying")
  /\ AddDelayed(worker[w].job)
  /\ Goto(w, "requeued")
  /\ UNCHANGED <<job, agent, request, creating, retry, kill, registry, stranded>>

Reschedule(w) ==
  /\ At(w, "requeued")
  /\ MoveJob(worker[w].job, "RETRYING", "SCHEDULED", FALSE)
  /\ Goto(w, "rethrow")
  /\ UNCHANGED <<agent, queue, request, creating, retry, kill, registry>>
\* Mutant: the final failure does not set completed_at.
CloseFailedOpen(w) ==
  /\ At(w, "caught") /\ ~WillRetry(w)
  /\ MoveJob(worker[w].job, "RUNNING",
             IF worker[w].note = "timeout" THEN "TIMED_OUT" ELSE "FAILED", FALSE)
  /\ Goto(w, "rethrow")
  /\ UNCHANGED <<agent, queue, request, creating, retry, kill, registry>>

CloseFailed(w) ==
  /\ At(w, "caught") /\ ~WillRetry(w)
  /\ MoveJob(worker[w].job, "RUNNING",
             IF worker[w].note = "timeout" THEN "TIMED_OUT" ELSE "FAILED", TRUE)
  /\ Goto(w, "rethrow")
  /\ UNCHANGED <<agent, queue, request, creating, retry, kill, registry>>

\* The error goes to Graphile, which retries the entry unless that was its last
\* attempt.
HandBack(w) ==
  /\ queue' = [queue EXCEPT ![worker[w].entry] =
                 IF @.once THEN Nobody ELSE [@ EXCEPT !.st = "queued"]]
  /\ worker' = [worker EXCEPT ![w] = Idle]

\* A statement outside the try block is rejected, the UPDATE to RUNNING, one of
\* the catch block or its addJob: the rest is left out.
Falter(w) ==
  /\ StatementsMayFail
  /\ worker[w].pc \in {"loaded", "caught", "failed", "retrying", "requeued"}
  /\ HandBack(w)
  /\ Strand(worker[w].job)
  /\ UNCHANGED <<job, agent, request, creating, retry, kill, registry>>

\* The breaker counts the error, then the error is thrown again.
Rethrow(w) ==
  /\ At(w, "rethrow")
  /\ \/ UNCHANGED agent
     \/ /\ worker[w].note \in {"retryable", "timeout"} /\ ~QuarantineDisabled
        /\ agent' = [agent EXCEPT ![AgentOf[worker[w].job]] = "QUARANTINED"]
  /\ HandBack(w)
  /\ UNCHANGED <<job, request, creating, retry, kill, registry, stranded>>

\* The worker process dies: its handlers and its handles are gone, the entry
\* stays locked.
Die(w) ==
  /\ WorkersMayDie
  /\ ~At(w, "idle")
  /\ worker' = [worker EXCEPT ![w] = Idle]
  /\ registry' = [j \in Jobs |-> IF registry[j] = w THEN Nobody ELSE registry[j]]
  /\ Strand(worker[w].job)
  /\ UNCHANGED <<job, agent, queue, request, creating, retry, kill>>

\* Graphile frees the locks of a dead worker after four hours; an entry with
\* no attempt left is never run again.
LockExpires(e) ==
  /\ queue[e] # Nobody /\ queue[e].st = "locked"
  /\ \A w \in Workers : worker[w].entry # e
  /\ queue' = [queue EXCEPT ![e] =
                 IF @.once THEN Nobody ELSE [@ EXCEPT !.st = "queued"]]
  /\ UNCHANGED <<job, agent, request, creating, retry, kill, registry, worker, stranded>>

\* run_at is reached.
BecomesDue(e) ==
  /\ queue[e] # Nobody /\ queue[e].st = "delayed"
  /\ BackoffOutlastsUpdate =>
       \A w \in Workers : ~(At(w, "requeued") /\ worker[w].job = queue[e].job)
  /\ queue' = [queue EXCEPT ![e].st = "queued"]
  /\ UNCHANGED <<job, agent, request, creating, retry, kill, registry, worker, stranded>>

-----------------------------------------------------------------------------
\* POST /jobs/:jobId/retry of the dashboard.

StateMachine == INSTANCE JobStateMachine
                  WITH status <- [j \in Jobs |-> job[j].status]

\* validate_job_transition, for the two statements that do not look at the
\* status they overwrite: one that it refuses has no effect and ends the route.
TriggerPasses(j, to) ==
  job[j].status = to \/ StateMachine!ValidTransition(job[j].status, to)

RetryRead(j) ==
  /\ DashboardRetries
  /\ retry[j] = Nobody /\ job[j].status # Absent /\ job[j].attempt <= RetryBound
  /\ retry' = [retry EXCEPT ![j] = [pc |-> "read", status |-> job[j].status,
                                    completed |-> job[j].completed]]
  /\ UNCHANGED <<job, agent, queue, request, creating, kill, registry, worker, stranded>>

InRetry(j, pc) == retry[j] # Nobody /\ retry[j].pc = pc

\* The job is RETRYING, which no handler takes up, unless the handler that
\* failed it is still about to reschedule it.
RetryMark(j) ==
  /\ InRetry(j, "read") /\ TriggerPasses(j, "RETRYING")
  /\ job' = [job EXCEPT ![j] = [@ EXCEPT !.status = "RETRYING", !.completed = FALSE]]
  /\ IF job[j].status = "RETRYING" THEN UNCHANGED stranded ELSE Strand(j)
  /\ retry' = [retry EXCEPT ![j].pc = "marked"]
  /\ UNCHANGED <<agent, queue, request, creating, kill, registry, worker>>

RetryEnqueue(j) ==
  /\ InRetry(j, "marked")
  /\ AddKeyed(j)
  /\ retry' = [retry EXCEPT ![j] = Nobody]
  /\ UNCHANGED <<job, agent, request, creating, kill, registry, worker, stranded>>

\* Enqueueing fails and the row that was read is written back, whatever has
\* become of the job since.
RetryRevert(j) ==
  /\ RoutesMayFail
  /\ InRetry(j, "marked") /\ TriggerPasses(j, retry[j].status)
  /\ job' = [job EXCEPT ![j] = [@ EXCEPT !.status = retry[j].status,
                                         !.completed = retry[j].completed]]
  /\ Strand(j)
  /\ retry' = [retry EXCEPT ![j] = Nobody]
  /\ UNCHANGED <<agent, queue, request, creating, kill, registry, worker>>

\* The trigger refuses a statement, the database another, or the process dies.
RetryEnds(j) ==
  /\ \/ InRetry(j, "read") /\ (RoutesMayFail \/ ~TriggerPasses(j, "RETRYING"))
     \/ InRetry(j, "marked") /\ RoutesMayFail
  /\ retry' = [retry EXCEPT ![j] = Nobody]
  /\ UNCHANGED <<job, agent, queue, request, creating, kill, registry, worker, stranded>>

-----------------------------------------------------------------------------
\* POST /agents/:agentId/kill, and the release of a quarantined agent.

KillFind(a) ==
  /\ OperatorActs
  /\ kill[a].pc = "none" /\ agent[a] # "QUARANTINED"
  /\ LET running == {j \in Jobs : AgentOf[j] = a /\ job[j].status = "RUNNING"} IN
       \/ /\ running = {}
          /\ kill' = [kill EXCEPT ![a] = [pc |-> "quarantine", job |-> Nobody]]
       \/ \E j \in running :
            kill' = [kill EXCEPT ![a] = [pc |-> "cancel", job |-> j]]
  /\ UNCHANGED <<job, agent, queue, request, creating, retry, registry, worker, stranded>>

KillCancel(a) ==
  /\ kill[a].pc = "cancel"
  /\ worker' = [w \in Workers |->
       IF registry[kill[a].job] = w /\ At(w, "executing")
       THEN [worker[w] EXCEPT !.note = "cancelled"] ELSE worker[w]]
  /\ kill' = [kill EXCEPT ![a].pc = "fail"]
  /\ UNCHANGED <<job, agent, queue, request, creating, retry, registry, stranded>>

KillFail(a) ==
  /\ kill[a].pc = "fail"
  /\ MoveJob(kill[a].job, "RUNNING", "FAILED", TRUE)
  /\ kill' = [kill EXCEPT ![a].pc = "quarantine"]
  /\ UNCHANGED <<agent, queue, request, creating, retry, registry, worker>>

KillQuarantine(a) ==
  /\ kill[a].pc = "quarantine"
  /\ agent' = [agent EXCEPT ![a] = "QUARANTINED"]
  /\ kill' = [kill EXCEPT ![a] = [pc |-> "none", job |-> Nobody]]
  /\ UNCHANGED <<job, queue, request, creating, retry, registry, worker, stranded>>

\* The process dies inside the route.
KillAbandoned(a) ==
  /\ RoutesMayFail
  /\ kill[a].pc # "none"
  /\ kill' = [kill EXCEPT ![a] = [pc |-> "none", job |-> Nobody]]
  /\ UNCHANGED <<job, agent, queue, request, creating, retry, registry, worker, stranded>>

\* POST /agents/:agentId/quarantine of an agent no manager tracks.
Quarantine(a) ==
  /\ OperatorActs
  /\ agent[a] # "QUARANTINED"
  /\ agent' = [agent EXCEPT ![a] = "QUARANTINED"]
  /\ UNCHANGED <<job, queue, request, creating, retry, kill, registry, worker, stranded>>

Release(a) ==
  /\ agent[a] = "QUARANTINED"
  /\ agent' = [agent EXCEPT ![a] = "ACTIVE"]
  /\ UNCHANGED <<job, queue, request, creating, retry, kill, registry, worker, stranded>>

-----------------------------------------------------------------------------
\* ApprovalService.

\* createRequest inserts the request and suspends a RUNNING job, in one
\* transaction.
CreateRequest(r, j) ==
  /\ OperatorActs
  /\ request[r] = Nobody /\ job[j].status # Absent
  /\ request' = [request EXCEPT ![r] = [job |-> j, status |-> "PENDING", stale |-> FALSE]]
  /\ MoveJob(j, "RUNNING", "WAITING_FOR_APPROVAL", FALSE)
  /\ UNCHANGED <<agent, queue, creating, retry, kill, registry, worker>>

\* A request of risk P3 is inserted approved; the job stays as it is, and nothing
\* is enqueued (the service is built without workerUtils).
CreateApproved(r, j) ==
  /\ OperatorActs
  /\ request[r] = Nobody /\ job[j].status # Absent
  /\ request' = [request EXCEPT ![r] = [job |-> j, status |-> "APPROVED", stale |-> FALSE]]
  /\ UNCHANGED <<job, agent, queue, creating, retry, kill, registry, worker, stranded>>

Open(r) == request[r] # Nobody /\ request[r].status = "PENDING"

\* The job is RUNNING again, and nothing is enqueued for it.
Approve(r) ==
  /\ Open(r) /\ ~request[r].stale
  /\ request' = [request EXCEPT ![r].status = "APPROVED"]
  /\ UpdateJob(request[r].job, "WAITING_FOR_APPROVAL", "RUNNING", FALSE)
  /\ IF job[request[r].job].status = "WAITING_FOR_APPROVAL"
     THEN Strand(request[r].job) ELSE UNCHANGED stranded
  /\ UNCHANGED <<agent, queue, creating, retry, kill, registry, worker>>

Reject(r) ==
  /\ Open(r) /\ ~request[r].stale
  /\ request' = [request EXCEPT ![r].status = "REJECTED"]
  /\ MoveJob(request[r].job, "WAITING_FOR_APPROVAL", "FAILED", TRUE)
  /\ UNCHANGED <<agent, queue, creating, retry, kill, registry, worker>>

\* expires_at passes.
GrowStale(r) ==
  /\ Open(r) /\ ~request[r].stale
  /\ request' = [request EXCEPT ![r].stale = TRUE]
  /\ UNCHANGED <<job, agent, queue, creating, retry, kill, registry, worker, stranded>>

\* approval_expire, one transaction for each stale request.
Expire(r) ==
  /\ Open(r) /\ request[r].stale
  /\ request' = [request EXCEPT ![r].status = "EXPIRED"]
  /\ MoveJob(request[r].job, "WAITING_FOR_APPROVAL", "FAILED", TRUE)
  /\ UNCHANGED <<agent, queue, creating, retry, kill, registry, worker>>

-----------------------------------------------------------------------------
Results == {"completed", "failed", "timed_out", "cancelled"}
Errors  == {"retryable", "timeout", "permanent"}

\* What a handler does once it holds an entry, left to itself.
Handler(w) ==
  \/ Start(w) \/ LoadAgent(w)
  \/ TripBeforeRun(w) \/ CloseTripped(w)
  \/ ReadGate(w) \/ Park(w) \/ Refuse(w)
  \/ Dispatch(w)
  \/ \E err \in Errors : DispatchThrows(w, err) \/ ExecutionThrows(w, err) \/ StepThrows(w, err)
  \/ CancelCheck(w)
  \/ \E result \in Results : ResultArrives(w, result)
  \/ Persist(w)
  \/ FailForRetry(w) \/ MarkRetrying(w) \/ AddRetry(w) \/ Reschedule(w)
  \/ CloseFailed(w) \/ Rethrow(w) \/ Falter(w)

Take(e) == \E w \in Workers : TakeAndSkip(w, e) \/ TakeAndLoad(w, e)

CreationGoesOn(j) == CreateSchedule(j) \/ CreateEnqueue(j) \/ CreateAbandoned(j)
RetryGoesOn(j)    == RetryMark(j) \/ RetryEnqueue(j) \/ RetryRevert(j) \/ RetryEnds(j)
KillGoesOn(a)     == KillCancel(a) \/ KillFail(a) \/ KillQuarantine(a) \/ KillAbandoned(a)

Next ==
  \/ \E w \in Workers : Handler(w) \/ Die(w)
  \/ \E e \in Entries : Take(e) \/ LockExpires(e) \/ BecomesDue(e)
  \/ \E j \in Jobs : CreateInsert(j) \/ CreationGoesOn(j) \/ RetryRead(j) \/ RetryGoesOn(j)
  \/ \E a \in Agents : KillFind(a) \/ KillGoesOn(a) \/ Quarantine(a) \/ Release(a)
  \/ \E r \in Requests :
       \/ \E j \in Jobs : CreateRequest(r, j) \/ CreateApproved(r, j)
       \/ Approve(r) \/ Reject(r) \/ GrowStale(r) \/ Expire(r)

Spec == Init /\ [][Next]_vars

(*****************************************************************************)
(* Fairness: a handler that can go on does (promises settle, the LLM call is *)
(* bounded by the task's timeout), Graphile polls its queue and its delays   *)
(* and lock leases end, a route in flight goes on, time passes and the cron  *)
(* entry of approval_expire fires every minute.  Nothing is assumed of       *)
(* people: nobody has to create, retry, approve, kill or release.            *)
(*****************************************************************************)
Fairness ==
  /\ \A w \in Workers : WF_vars(Handler(w))
  /\ \A e \in Entries :
       WF_vars(Take(e)) /\ WF_vars(LockExpires(e)) /\ WF_vars(BecomesDue(e))
  /\ \A j \in Jobs : WF_vars(CreationGoesOn(j)) /\ WF_vars(RetryGoesOn(j))
  /\ \A a \in Agents : WF_vars(KillGoesOn(a))
  /\ \A r \in Requests : WF_vars(GrowStale(r)) /\ WF_vars(Expire(r))

FairSpec == Spec /\ Fairness

-----------------------------------------------------------------------------
\* Types of the state: the rows, the entries and every handler's point.
TypeOK ==
  /\ job \in [Jobs -> JobRow]
  /\ agent \in [Agents -> {"ACTIVE", "QUARANTINED"}]
  /\ queue \in [Entries -> Entry \cup {Nobody}]
  /\ request \in [Requests -> RequestRow \cup {Nobody}]
  /\ creating \in [Jobs -> {"none", "inserted", "scheduled"}]
  /\ retry \in [Jobs -> RetryRoute \cup {Nobody}]
  /\ kill \in [Agents -> KillState]
  /\ registry \in [Jobs -> Workers \cup {Nobody}]
  /\ worker \in [Workers -> HandlerState]
  /\ stranded \in SUBSET Jobs

\* No job of an agent with requiresApproval gets past the approval gate, in
\* any handler, without an approved request for that very job, whatever
\* duplicates, deaths and retries came before (checkApprovalGate).
GateHolds ==
  \A w \in Workers :
    /\ worker[w].pc \in {"cleared", "executing", "resulted"}
    /\ AgentOf[worker[w].job] \in Gated
    => Approved(worker[w].job)

\* Two handlers never work on one queue entry, and the entry of a handler is
\* locked and carries that handler's job (Graphile's lock, seen from the task:
\* re-enqueueing, retries and dead workers do not break it).
EntriesAreExclusive ==
  \A w \in Workers :
    worker[w].pc # "idle" =>
      /\ queue[worker[w].entry] # Nobody
      /\ queue[worker[w].entry].st = "locked"
      /\ queue[worker[w].entry].job = worker[w].job
      /\ \A x \in Workers : worker[x].entry = worker[w].entry => x = w

\* The registry leads a kill only to a handler that is executing that job:
\* a kill never cancels the execution of another job.
RegistryIsAccurate ==
  \A j \in Jobs :
    registry[j] # Nobody =>
      /\ worker[registry[j]].job = j
      /\ worker[registry[j]].pc \in {"executing", "resulted"}

WorkingOn(j, pcs) == \E w \in Workers : worker[w].job = j /\ worker[w].pc \in pcs

Waiting(j) == \E e \in Entries : queue[e] # Nobody /\ queue[e].job = j /\ queue[e].st # "locked"

\* Somebody goes on with a job in the status it has: the route that creates it,
\* an entry that some worker will take, or a handler that has not made its last
\* write to it yet.
IsAttended(j) ==
  /\ job[j].status = "PENDING" => creating[j] = "inserted"
  /\ job[j].status = "SCHEDULED" /\ BackoffOutlastsUpdate =>
       Waiting(j) \/ WorkingOn(j, {"loaded"}) \/ creating[j] = "scheduled"
  /\ job[j].status = "RUNNING" => WorkingOn(j, Running)
  /\ job[j].status = "FAILED" /\ ~job[j].completed => WorkingOn(j, {"failed"})
  /\ job[j].status = "RETRYING" => WorkingOn(j, {"retrying", "requeued"})

\* No job is lost but by one of five things, which happen while it has the status
\* it is left in: its creating route fails or dies, a worker dies on it, a
\* statement outside the try block is rejected, the dashboard's retry writes its
\* row, or an approval resumes it (these strand it).  Double executions, kills,
\* quarantines, requests and every error of an execution never lose one, and what
\* was stranded is attended again once somebody moves it on.
NoJobIsLost == \A j \in Jobs : IsAttended(j) \/ j \in stranded

Settled(j) ==
  \/ job[j].status \in {"COMPLETED", "TIMED_OUT", "WAITING_FOR_APPROVAL"}
  \/ job[j].status = "FAILED" /\ job[j].completed

\* Every job that is scheduled ends, is parked, or is stranded by a failure that
\* nothing repairs, however its attempts fail, workers die, and the agent is
\* killed, quarantined and released meanwhile.
EveryJobSettles ==
  \A j \in Jobs : job[j].status = "SCHEDULED" ~> Settled(j) \/ j \in stranded

\* Refinement: apart from the dashboard's retry, which relies on the trigger, no
\* statement of a handler, a route or a decision ever asks for a transition that
\* the trigger refuses, in any interleaving, after any failure and whatever the
\* retry wrote meanwhile, and none moves two jobs.  (Their statements are
\* modelled without the trigger: one that it would refuse breaks this.)
ObeysTrigger == StateMachine!Spec

\* The job has used up its attempts, and no handler of it may still reschedule it: those
\* that read a count below max_attempts, whatever the row says by now, are past that.
Exhausted(j) ==
  /\ job[j].attempt >= MaxAttempts
  /\ job[j].status \notin {Absent, "PENDING", "SCHEDULED"}
  /\ \A w \in Workers :
       worker[w].job = j /\ worker[w].attempt < MaxAttempts => At(w, "rethrow")
  /\ retry[j] # Nobody => retry[j].status # "SCHEDULED"

\* A job that is exhausted stays so and is not scheduled again, by any handler, route,
\* decision or duplicate entry.  (Handlers that overlap may count far past max_attempts
\* before: the retry decision compares the count that a handler read when it loaded the
\* job, and the UPDATE to RUNNING writes that count plus one.)
ExhaustedStays == [][\A j \in Jobs : Exhausted(j) => Exhausted(j)']_vars

-----------------------------------------------------------------------------
(*****************************************************************************)
(* What the documents and comments of the repository say and the code does   *)
(* not keep.  Each is checked by a run that expects a violation.             *)
(*****************************************************************************)

\* docs/spec.md:53, "exactly-once job execution": one job is never executed
\* by two handlers at a time.
ExecutedOnce ==
  \A w, x \in Workers :
    At(w, "executing") /\ At(x, "executing") /\ worker[w].job = worker[x].job => w = x

\* docs/spikes/026-checkpoint-approval-schema.md:621, an approval "Enqueues a new
\* Graphile Worker job to resume": an approved job is worked on again.
ApprovedJobResumes ==
  \A j \in Jobs :
    job[j].status = "RUNNING" /\ Approved(j)
      ~> WorkingOn(j, Running) \/ job[j].status # "RUNNING"

\* docs/spec.md:275, "RETRYING | Failed, queued for retry with backoff": a RETRYING
\* job is retried, so it does not stay so.
RetryingIsRetried ==
  \A j \in Jobs : job[j].status = "RETRYING" ~> job[j].status # "RETRYING"
=============================================================================
