-------------------------------- MODULE Spending --------------------------------
(*****************************************************************************)
(* The bookkeeping of agent_execute for the jobs of one agent and session:   *)
(* CostTracker.recordLlmCost, which charges the job and the session row and  *)
(* compares the sums with the budgets, and AgentEventEmitter, which buffers  *)
(* events and inserts them in batches.  A job is charged once, when the      *)
(* usage event of its execution arrives.  Estimated cost and reported cost   *)
(* differ: only Antigravity reports one, and only reported costs reach the   *)
(* events, which carry them twice: in the end of the call and in that of the *)
(* job.  A job over a budget is cancelled; the cancel of an HTTP backend     *)
(* settles its result at once, that of the CLI waits for the exit of the     *)
(* process, while the events behind it complete the job.                     *)
(*****************************************************************************)
EXTENDS Integers, FiniteSetsExt

CONSTANTS
  Spenders,                            \* jobs
  CliJobs,                             \* those that the CLI backend runs
  Prices,                              \* estimated costs of an execution
  JobLimit, SessionLimit, DayLimit     \* the agent's budgets; 0 is none

ASSUME SpendingAssumption ==
  CliJobs \subseteq Spenders /\ Prices \subseteq Nat /\ {JobLimit, SessionLimit, DayLimit} \subseteq Nat

VARIABLES
  stage,      \* where the handling of a job's usage event is
  price,      \* its estimated cost
  reported,   \* the cost its backend reported
  exceeded,   \* whether a budget was found exceeded
  checked,    \* whether recordLlmCost returned
  jobCost, sessionCost,   \* the columns
  buffer, flights, rows, lost,   \* events: buffered, in INSERTs, inserted, in failed INSERTs
  timer,      \* whether a flush is scheduled
  exiting     \* whether an unhandled rejection began the shutdown

spendVars == <<stage, price, reported, exceeded, checked, jobCost, sessionCost,
               buffer, flights, rows, lost, timer, exiting>>

emitter == <<buffer, flights, rows, lost, timer, exiting>>

books == <<stage, price, reported, exceeded, checked, jobCost, sessionCost>>

\* Events that matter here: the end of a model call, the end of a job that carries a cost, and
\* alerts, one for the budgets of job and session, which are compared together, and one for the day's.
Events == {"llm_call_end", "session_end", "alert", "daily"} \X Spenders

SpendInit ==
  /\ stage = [j \in Spenders |-> "running"]
  /\ price \in [Spenders -> Prices]
  /\ reported \in {[j \in Spenders |-> 0], [j \in Spenders |-> IF j \in CliJobs THEN 0 ELSE price[j]]}
  /\ exceeded = [j \in Spenders |-> FALSE] /\ checked = [j \in Spenders |-> FALSE]
  /\ jobCost = [j \in Spenders |-> 0] /\ sessionCost = 0
  /\ buffer = {} /\ flights = {} /\ rows = {} /\ lost = {}
  /\ timer = FALSE /\ exiting = FALSE

\* Mutant: an INSERT under way is taken for a flush to come.
enqueueLazy(events) ==
  /\ buffer' = buffer \cup events
  /\ timer' = (timer \/ (events # {} /\ flights = {}))
  /\ UNCHANGED <<flights, rows, lost, exiting>>

\* enqueue(): buffer the events and schedule a flush if none is.
enqueue(events) ==
  /\ buffer' = buffer \cup events
  /\ timer' = (timer \/ events # {})
  /\ UNCHANGED <<flights, rows, lost, exiting>>

\* checkThreshold(); a warning starts at the limit's percentage, here one below the limit.
Exceeds(current, limit) == limit > 0 /\ current > limit

Alerts(current, limit) == limit > 0 /\ current >= limit - 1

--------------------------------------------------------------------------------
\* An execution ends without usage: it failed, was cancelled with an error, or threw.
EndUncharged(j) ==
  /\ stage[j] = "running" /\ stage' = [stage EXCEPT ![j] = "failed"]
  /\ UNCHANGED <<price, reported, exceeded, checked, jobCost, sessionCost, emitter>>

\* UPDATE job SET cost_usd = cost_usd + cost RETURNING cost_usd
ChargeJob(j) ==
  /\ stage[j] = "running" /\ stage' = [stage EXCEPT ![j] = "charged"]
  /\ jobCost' = [jobCost EXCEPT ![j] = @ + price[j]]
  /\ UNCHANGED <<price, reported, exceeded, checked, sessionCost, emitter>>

\* UPDATE session SET total_cost_usd = total_cost_usd + cost RETURNING total_cost_usd, then the
\* comparisons of job and session, and their alerts.
ChargeSession(j) ==
  /\ stage[j] = "charged" /\ stage' = [stage EXCEPT ![j] = "shared"]
  /\ sessionCost' = sessionCost + price[j]
  /\ exceeded' = [exceeded EXCEPT ![j] = Exceeds(jobCost[j], JobLimit) \/ Exceeds(sessionCost', SessionLimit)]
  /\ enqueue(IF Alerts(jobCost[j], JobLimit) \/ Alerts(sessionCost', SessionLimit) THEN {<<"alert", j>>} ELSE {})
  /\ UNCHANGED <<price, reported, checked, jobCost>>

\* getDailyCost(): the costs of all events inserted so far, of a job's end with that of its call.
DailyCost ==
  MapThenSumSet(LAMBDA e : IF e[1] \in {"llm_call_end", "session_end"} THEN reported[e[2]] ELSE 0, rows)

CheckDay(j) ==
  /\ stage[j] = "shared" /\ stage' = [stage EXCEPT ![j] = "tracked"]
  /\ exceeded' = [exceeded EXCEPT ![j] = @ \/ Exceeds(DailyCost, DayLimit)]
  /\ checked' = [checked EXCEPT ![j] = TRUE]
  /\ enqueue(IF Alerts(DailyCost, DayLimit) THEN {<<"daily", j>>} ELSE {})
  /\ UNCHANGED <<price, reported, jobCost, sessionCost>>

\* A statement of recordLlmCost fails: its caller goes on as if no budget was exceeded.
RecordFails(j) ==
  /\ stage[j] \in {"running", "charged", "shared"} /\ stage' = [stage EXCEPT ![j] = "tracked"]
  /\ exceeded' = [exceeded EXCEPT ![j] = FALSE]
  /\ UNCHANGED <<price, reported, checked, jobCost, sessionCost, emitter>>

\* The event of the call is emitted; a job that exceeded a budget is told to cancel.
EndCall(j) ==
  /\ stage[j] = "tracked" /\ stage' = [stage EXCEPT ![j] = "called"]
  /\ enqueue({<<"llm_call_end", j>>})
  /\ UNCHANGED <<price, reported, exceeded, checked, jobCost, sessionCost>>

\* Mutant: nobody waits for the cancel.
EndJobAny(j) ==
  /\ stage[j] = "called"
  /\ \E s \in {"completed", "cancelled"} : (s = "cancelled" => exceeded[j]) /\ stage' = [stage EXCEPT ![j] = s]
  /\ enqueue(IF reported[j] > 0 THEN {<<"session_end", j>>} ELSE {})
  /\ UNCHANGED <<price, reported, exceeded, checked, jobCost, sessionCost>>

\* The result is taken and written, and its event emitted.  A cancel that settles late comes
\* behind the result, unless the process had been told before (by the kill route or the time-out).
EndJob(j) ==
  /\ stage[j] = "called"
  /\ \E s \in {"completed", "cancelled"} :
       /\ IF exceeded[j] THEN s = "cancelled" \/ j \in CliJobs ELSE s = "completed"
       /\ stage' = [stage EXCEPT ![j] = s]
  /\ enqueue(IF reported[j] > 0 THEN {<<"session_end", j>>} ELSE {})
  /\ UNCHANGED <<price, reported, exceeded, checked, jobCost, sessionCost>>

--------------------------------------------------------------------------------
\* Mutant: the batch stays in the buffer until its INSERT.
FlushCopy ==
  /\ buffer # {} /\ timer' = FALSE /\ flights' = flights \cup {buffer}
  /\ UNCHANGED <<books, buffer, rows, lost, exiting>>

\* flush(), from the timer, query() or the close hook: the batch leaves the buffer before its INSERT.
flush ==
  /\ buffer # {} /\ timer' = FALSE
  /\ buffer' = {} /\ flights' = flights \cup {buffer}
  /\ UNCHANGED <<books, rows, lost, exiting>>

Insert(batch) ==
  /\ batch \in flights /\ flights' = flights \ {batch} /\ rows' = rows \cup batch
  /\ UNCHANGED <<books, buffer, lost, timer, exiting>>

\* The INSERT fails: the batch is gone, and the rejection nobody handles shuts the process down.
InsertFails(batch) ==
  /\ batch \in flights /\ flights' = flights \ {batch} /\ lost' = lost \cup batch
  /\ exiting' = TRUE
  /\ UNCHANGED <<books, buffer, rows, timer>>

InsertEnds == \E batch \in flights : Insert(batch) \/ InsertFails(batch)

SpendNext ==
  \/ \E j \in Spenders : \/ EndUncharged(j) \/ ChargeJob(j) \/ ChargeSession(j) \/ CheckDay(j)
                         \/ RecordFails(j) \/ EndCall(j) \/ EndJob(j)
  \/ flush \/ InsertEnds

\* The timer fires and batches end; queries need not come.
SpendFairness ==
  /\ WF_spendVars(timer /\ flush)
  /\ WF_spendVars(InsertEnds)

--------------------------------------------------------------------------------
\* The types of the variables.
SpendTypeOK ==
  /\ stage \in [Spenders -> {"running", "charged", "shared", "tracked", "called", "completed", "cancelled",
                         "failed"}]
  /\ {price, reported, jobCost} \subseteq [Spenders -> Nat] /\ sessionCost \in Nat
  /\ {exceeded, checked} \subseteq [Spenders -> BOOLEAN]
  /\ (buffer \cup rows \cup lost) \subseteq Events /\ flights \subseteq SUBSET Events
  /\ {timer, exiting} \subseteq BOOLEAN

\* Together, the jobs that completed with their costs checked are within the session's budget,
\* however their updates interleave and whatever was charged to others; the only ones beyond it are
\* jobs of the CLI, whose cancel came behind their result.
SessionBudgetHolds ==
  LET checkedJobs == {j \in Spenders : stage[j] = "completed" /\ checked[j]}
      late == {j \in checkedJobs \cap CliJobs : exceeded[j]}
  IN SessionLimit > 0 => MapThenSumSet(LAMBDA j : price[j], checkedJobs \ late) <= SessionLimit

\* An event is in one place: in the buffer, in one batch, in the table or lost with its batch.
EventsAreOnce ==
  /\ \A p, q \in flights : p # q => p \cap q = {}
  /\ buffer \cap UNION (flights \cup {rows, lost}) = {}
  /\ (UNION flights) \cap (rows \cup lost) = {} /\ rows \cap lost = {}

\* Nothing waits in the buffer without a flush to come.
BufferHasFlush == buffer # {} => timer

\* What is spent is within the budget, and every event of it is on its way or told as lost.
SpendingIsSound == SpendTypeOK /\ SessionBudgetHolds /\ EventsAreOnce /\ BufferHasFlush

\* An event that was emitted reaches the table, or is lost with its batch.
EventsAreWritten == \A j \in Spenders : <<"llm_call_end", j>> \in buffer ~> <<"llm_call_end", j>> \in rows \cup lost
================================================================================
