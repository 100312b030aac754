------------------------------- MODULE ToolLoop -------------------------------
(*****************************************************************************)
(* One execution of a task by an HTTP backend: the generator events() of the *)
(* Anthropic, OpenAI, Antigravity or echo handle, and agent_execute, which   *)
(* consumes it.  A generator runs only while its consumer waits for the next *)
(* event, so the two share one location, `at`; cancel() comes from outside   *)
(* (the kill route, the poll of the job's status) or from the consumer (a    *)
(* limit). A model answer costs one unit; text is left out.                  *)
(*****************************************************************************)
EXTENDS Naturals

CONSTANTS
  MaxTurns,     \* task.constraints.maxTurns
  MaxCalls,     \* most tool calls in one answer of the model
  ToolLimit,    \* toolCallRateLimit.maxCalls
  TokenBudget,  \* tokenBudgetPerJob
  Endpoints     \* number of ANTIGRAVITY_ENDPOINTS

ASSUME ToolLoopAssumption ==
  {MaxTurns, MaxCalls, ToolLimit, TokenBudget, Endpoints} \subseteq Nat /\ MaxTurns > 0 /\ Endpoints > 0

VARIABLES
  api,          \* the kind of handle
  refreshable,  \* whether there is a token to refresh (the agent's credential)
  at,           \* where generator and consumer stand
  turn, retriedTurn, endpoint,   \* the loop's counters; retriedTurn = lastRetryTurn
  toRun,        \* tool calls of this turn not yet executed
  unanswered,   \* tool calls in the conversation without a result
  cancelled, result, complete,   \* the flag, the settled result, the last event
  requests, ran,                 \* model calls opened, tools executed
  toolCalls,                     \* agentCB's window
  spent, usage, recorded,        \* units answered, accumulated, written to the job
  unwritten     \* history: whether the statement that writes them failed

loopVars == <<api, refreshable, at, turn, retriedTurn, endpoint, toRun, unanswered, cancelled,
              result, complete, requests, ran, toolCalls, spent, usage, recorded, unwritten>>

counters == <<turn, retriedTurn, endpoint>>

outcome == <<cancelled, result, complete>>

Never == MaxTurns   \* no turn: lastRetryTurn = -1

LoopInit ==
  /\ api \in {"anthropic", "openai", "antigravity", "echo"}
  /\ refreshable \in (IF api = "antigravity" THEN {TRUE} ELSE BOOLEAN)
  /\ at = "created" /\ turn = 0 /\ retriedTurn = Never
  /\ endpoint \in (IF api = "antigravity" THEN 1 .. Endpoints ELSE {Endpoints})
  /\ toRun = 0 /\ unanswered = 0
  /\ cancelled = FALSE /\ result = "none" /\ complete = "none"
  /\ requests = 0 /\ ran = 0 /\ toolCalls = 0 /\ spent = 0 /\ usage = 0 /\ recorded = 0
  /\ unwritten = FALSE

\* settleResult(): the first result stays.
Settled(status) == IF result = "none" THEN status ELSE result

Given == UNCHANGED <<api, refreshable>>

bill == <<recorded, unwritten>>

--------------------------------------------------------------------------------
\* cancel(), from anybody; the handle is registered until its result was taken.
cancel ==
  /\ at \notin {"recorded", "abandoned"} /\ ~cancelled
  /\ cancelled' = TRUE /\ result' = Settled("cancelled")
  /\ Given
  /\ UNCHANGED <<at, counters, toRun, unanswered, complete, requests, ran, toolCalls, spent, usage, bill>>

\* The consumer begins; a handle cancelled before that yields nothing.
Start ==
  /\ at = "created" /\ api # "echo"
  /\ at' = IF cancelled THEN "over" ELSE "turn"
  /\ Given
  /\ UNCHANGED <<counters, toRun, unanswered, outcome, requests, ran, toolCalls, spent, usage, bill>>

\* The echo handle after its latency.
Echo ==
  /\ at = "created" /\ api = "echo" /\ at' = "over"
  /\ \E status \in {"completed", "failed"} :
       IF cancelled THEN UNCHANGED <<result, complete>>
       ELSE result' = Settled(status) /\ complete' = status
  /\ Given
  /\ UNCHANGED <<counters, toRun, unanswered, cancelled, requests, ran, toolCalls, spent, usage, bill>>

\* Mutant: the loop asks the model again, whatever happened meanwhile.
NextTurnAnyway ==
  /\ at = "turn"
  /\ IF turn < MaxTurns THEN at' = "streaming" /\ requests' = requests + 1
     ELSE at' = "usage" /\ UNCHANGED requests
  /\ Given
  /\ UNCHANGED <<counters, toRun, unanswered, outcome, ran, toolCalls, spent, usage, bill>>

\* The head of the loop over turns.
NextTurn ==
  /\ at = "turn"
  /\ IF turn < MaxTurns /\ ~cancelled THEN at' = "streaming" /\ requests' = requests + 1
     ELSE at' = "usage" /\ UNCHANGED requests
  /\ Given
  /\ UNCHANGED <<counters, toRun, unanswered, outcome, ran, toolCalls, spent, usage, bill>>

\* The answer ends, or is cut off: an aborted OpenAI or Antigravity stream ends without an
\* error, with the tool calls it had announced by then; an Anthropic one may have ended just before.
StreamEnds ==
  /\ at = "streaming"
  /\ \E calls \in 0 .. MaxCalls, whole \in (IF cancelled /\ api # "anthropic" THEN {0, 1} ELSE {1}) :
       /\ spent' = spent + whole /\ usage' = usage + whole
       /\ IF calls = 0 \/ turn + 1 >= MaxTurns
          THEN at' = "usage" /\ UNCHANGED <<toRun, unanswered>>
          ELSE at' = "tool" /\ toRun' = calls /\ unanswered' = calls
  /\ Given
  /\ UNCHANGED <<counters, outcome, requests, ran, toolCalls, bill>>

\* Mutant: the turn that was refreshed is not noted.
UnauthorisedAgain ==
  /\ at = "streaming" /\ refreshable /\ turn # retriedTurn /\ at' = "refreshing"
  /\ Given
  /\ UNCHANGED <<counters, toRun, unanswered, outcome, requests, ran, toolCalls, spent, usage, bill>>

\* 401: the token is refreshed, once in a turn.
Unauthorised ==
  /\ at = "streaming" /\ refreshable /\ turn # retriedTurn
  /\ retriedTurn' = turn /\ at' = "refreshing"
  /\ Given
  /\ UNCHANGED <<turn, endpoint, toRun, unanswered, outcome, requests, ran, toolCalls, spent, usage, bill>>

\* The refresh ends: the turn is repeated with the new token, or the execution fails.
Refreshed ==
  /\ at = "refreshing" /\ at' \in {"turn", "failing"}
  /\ Given
  /\ UNCHANGED <<counters, toRun, unanswered, outcome, requests, ran, toolCalls, spent, usage, bill>>

\* Mutant: there is always a next endpoint.
StreamFailsOn ==
  /\ at = "streaming" /\ api = "antigravity" /\ turn = 0
  /\ endpoint' = endpoint + 1 /\ at' = "turn"
  /\ Given
  /\ UNCHANGED <<turn, retriedTurn, toRun, unanswered, outcome, requests, ran, toolCalls, spent, usage, bill>>

\* Any other error (an abort is one). Antigravity's first turn moves on to the next endpoint;
\* its error events may carry usage.
StreamFails ==
  /\ at = "streaming"
  /\ \E billed \in (IF api = "antigravity" THEN {0, 1} ELSE {0}) :
       spent' = spent + billed /\ usage' = usage + billed
  /\ IF api = "antigravity" /\ turn = 0 /\ endpoint < Endpoints
     THEN endpoint' = endpoint + 1 /\ at' = "turn"
     ELSE at' = "failing" /\ UNCHANGED endpoint
  /\ Given
  /\ UNCHANGED <<turn, retriedTurn, toRun, unanswered, outcome, requests, ran, toolCalls, bill>>

--------------------------------------------------------------------------------
\* tool_use goes to the consumer, whose rate limit may cancel; then the tool runs.
UseTool ==
  /\ at = "tool" /\ at' = "running" /\ ran' = ran + 1
  /\ IF toolCalls < ToolLimit
     THEN toolCalls' = toolCalls + 1 /\ UNCHANGED outcome
     ELSE cancelled' = TRUE /\ result' = Settled("cancelled") /\ UNCHANGED <<toolCalls, complete>>
  /\ Given
  /\ UNCHANGED <<counters, toRun, unanswered, requests, spent, usage, bill>>

\* Mutant: an error of a tool ends its turn.
ToolEndsTurn ==
  /\ at = "running"
  /\ \E isError \in BOOLEAN : toRun' = (IF isError THEN 0 ELSE toRun - 1)
  /\ unanswered' = unanswered - 1
  /\ IF toRun' = 0 THEN at' = "turn" /\ turn' = turn + 1 ELSE at' = "tool" /\ UNCHANGED turn
  /\ Given
  /\ UNCHANGED <<retriedTurn, endpoint, outcome, requests, ran, toolCalls, spent, usage, bill>>

\* execute() returns an output or an error, and never throws. Anthropic's results enter the
\* conversation together, after the last tool.
ToolEnds ==
  /\ at = "running" /\ toRun' = toRun - 1
  /\ unanswered' = CASE api # "anthropic" -> unanswered - 1
                     [] api = "anthropic" /\ toRun = 1 -> 0
                     [] OTHER -> unanswered
  /\ IF toRun = 1 THEN at' = "turn" /\ turn' = turn + 1 ELSE at' = "tool" /\ UNCHANGED turn
  /\ Given
  /\ UNCHANGED <<retriedTurn, endpoint, outcome, requests, ran, toolCalls, spent, usage, bill>>

--------------------------------------------------------------------------------
\* Mutant: the usage event is the last one, behind the result.
ReportUsageLate ==
  /\ at = "usage" /\ at' = "settling" /\ recorded' = usage
  /\ Given /\ UNCHANGED unwritten
  /\ UNCHANGED <<counters, toRun, unanswered, outcome, requests, ran, toolCalls, spent, usage>>

\* usage goes to the consumer, which cancels when it is over the budget, and writes it to the job;
\* it goes on if it cannot.
ReportUsage ==
  /\ at = "usage" /\ at' = "settling"
  /\ \/ recorded' = usage /\ UNCHANGED unwritten
     \/ unwritten' = TRUE /\ UNCHANGED recorded
  /\ IF usage <= TokenBudget THEN UNCHANGED outcome
     ELSE cancelled' = TRUE /\ result' = Settled("cancelled") /\ UNCHANGED complete
  /\ Given
  /\ UNCHANGED <<counters, toRun, unanswered, requests, ran, toolCalls, spent, usage>>

\* The end of the loop: settle, then the complete event.
Complete ==
  /\ at = "settling" /\ at' = "over"
  /\ LET status == IF cancelled THEN "cancelled" ELSE "completed"
     IN result' = Settled(status) /\ complete' = status
  /\ Given
  /\ UNCHANGED <<counters, toRun, unanswered, cancelled, requests, ran, toolCalls, spent, usage, bill>>

\* Mutant: a cancelled execution's error is reported.
FailAnyway ==
  /\ at = "failing" /\ at' = "over"
  /\ result' = Settled("failed") /\ complete' = "failed"
  /\ Given
  /\ UNCHANGED <<counters, toRun, unanswered, cancelled, requests, ran, toolCalls, spent, usage, bill>>

\* Mutant: the error ends the generator and settles nothing.
FailUnsettled ==
  /\ at = "failing" /\ at' = "over"
  /\ Given
  /\ UNCHANGED <<counters, toRun, unanswered, outcome, requests, ran, toolCalls, spent, usage, bill>>

\* The outer catch; a cancelled execution ends without an event.
Fail ==
  /\ at = "failing" /\ at' = "over"
  /\ IF cancelled THEN UNCHANGED <<result, complete>>
     ELSE result' = Settled("failed") /\ complete' = "failed"
  /\ Given
  /\ UNCHANGED <<counters, toRun, unanswered, cancelled, requests, ran, toolCalls, spent, usage, bill>>

\* agent_execute awaits the result and writes the job; then the handle is forgotten.
Record ==
  /\ at = "over" /\ result # "none" /\ at' = "recorded"
  /\ Given
  /\ UNCHANGED <<counters, toRun, unanswered, outcome, requests, ran, toolCalls, spent, usage, bill>>

\* The consumer cannot write an event to its buffer, if it has one: the generator is closed, and agent_execute's
\* catch writes the job.
ConsumerThrows ==
  /\ at \in {"streaming", "tool", "running", "usage"} \/ (complete # "none" /\ at = "over")
  /\ at' = "abandoned"
  /\ Given
  /\ UNCHANGED <<counters, toRun, unanswered, outcome, requests, ran, toolCalls, spent, usage, bill>>

LoopStep ==
  \/ Start \/ Echo \/ NextTurn \/ StreamEnds \/ Unauthorised \/ Refreshed \/ StreamFails
  \/ UseTool \/ ToolEnds \/ ReportUsage \/ Complete \/ Fail \/ Record

LoopNext == LoopStep \/ cancel \/ ConsumerThrows

--------------------------------------------------------------------------------
Statuses == {"none", "completed", "failed", "cancelled"}

\* The types of the variables.
LoopTypeOK ==
  /\ api \in {"anthropic", "openai", "antigravity", "echo"} /\ refreshable \in BOOLEAN
  /\ at \in {"created", "turn", "streaming", "refreshing", "tool", "running", "usage", "settling",
             "failing", "over", "recorded", "abandoned"}
  /\ turn \in 0 .. MaxTurns /\ retriedTurn \in 0 .. MaxTurns /\ endpoint \in 1 .. Endpoints
  /\ toRun \in 0 .. MaxCalls /\ unanswered \in 0 .. MaxCalls
  /\ {cancelled, unwritten} \subseteq BOOLEAN /\ {result, complete} \subseteq Statuses
  /\ {requests, ran, toolCalls, spent, usage, recorded} \subseteq Nat

\* When the model is asked again, the result of every tool it called is in the conversation
\* (a provider refuses a conversation without them), whatever was cancelled or failed meanwhile.
CallsAreAnswered == at = "streaming" => unanswered = 0

\* The repetitions of turns end: one more request per turn after a refresh, and one per endpoint.
RequestsBounded == requests <= 2 * MaxTurns + (IF api = "antigravity" THEN Endpoints - 1 ELSE 0)

\* The rate limit cancels between turns only: what runs beyond it is the rest of one turn.
ToolOvershoot == ran <= ToolLimit + MaxCalls

\* A job that completes is within its token budget, although the limit is only told after its
\* last answer; and it was charged for every answer, unless the statement that charges it failed.
CompletedIsPaid ==
  result = "completed" => spent <= TokenBudget /\ (spent = recorded \/ unwritten)

\* What the stream of events says last is what result() says.
LastEventIsResult == complete # "none" => complete = result

\* A cancelled execution asks the model no more.
NoRequestAfterCancel == [][cancelled => requests' = requests]_loopVars

\* An execution ends, with its result settled or an error thrown, and the job can be written.
ExecutionEnds == at # "created" ~> at \in {"recorded", "abandoned"}
================================================================================
