---------------------------- MODULE ExecutionMonitor ----------------------------
(*****************************************************************************)
(* What agent_execute does while it reads the events of a backend handle,    *)
(* for the executions of one agent, in one session: it counts the model's    *)
(* turns, asks its circuit breaker after every event whether a limit is      *)
(* passed, and takes the operators' steering messages, which are numbered    *)
(* among the turns.  Each execution has a breaker of its own.                *)
(*****************************************************************************)
EXTENDS Integers, SequencesExt

CONSTANTS
  Executions,     \* jobs of the agent, all of one session
  NoExecution,
  Steers,         \* steering messages
  MaxToolCalls, MaxLlmCalls, WindowSeconds,   \* the rate limits of the breaker
  JobBudget, SessionBudget,                   \* its token budgets
  MaxTime, MaxTurnsSeen, MaxUsage             \* bounds: the clock, an execution's turns, tokens

ASSUME MonitorAssumption ==
  /\ {MaxToolCalls, MaxLlmCalls, WindowSeconds, JobBudget, SessionBudget} \subseteq Nat
  /\ {MaxTime, MaxUsage} \subseteq Nat /\ MaxTurnsSeen \in [Executions -> Nat]
  /\ NoExecution \notin Executions

VARIABLES
  clock,
  streaming,     \* per execution: "waiting", "model", "tool", "told" (its usage) or "over"
  turnCount, llmTurnOpen,
  toolStamps, llmStamps,   \* the breaker's windows
  tokensUsed,    \* currentJobTokensUsed, and currentSessionTokensUsed, of its breaker
  cancels,       \* the reasons for which it asked the handle to cancel
  executing,     \* the agent's lifecycle state is EXECUTING
  listeners,     \* steerListeners of the agent, in the order of their registration
  ack,           \* per steering message: the answer, [told, by, turn]
  toolTimes, llmTimes,     \* history: all tool calls and all turns, with their times
  llmTurns       \* history: the numbers given to the model's turns

breakerVars == <<toolStamps, llmStamps, tokensUsed>>
steerVars == <<executing, listeners, ack>>
monitorVars == <<clock, streaming, turnCount, llmTurnOpen, breakerVars, cancels, steerVars,
                 toolTimes, llmTimes, llmTurns>>

Unsent == [told |-> "unsent", by |-> NoExecution, turn |-> 0]

MonitorInit ==
  /\ clock = 0 /\ streaming = [e \in Executions |-> "waiting"]
  /\ turnCount = [e \in Executions |-> 0] /\ llmTurnOpen = [e \in Executions |-> FALSE]
  /\ toolStamps = [e \in Executions |-> <<>>] /\ llmStamps = toolStamps
  /\ tokensUsed = [e \in Executions |-> 0] /\ cancels = [e \in Executions |-> {}]
  /\ executing = FALSE /\ listeners = <<>> /\ ack = [m \in Steers |-> Unsent]
  /\ toolTimes = [e \in Executions |-> <<>>] /\ llmTimes = toolTimes
  /\ llmTurns = [e \in Executions |-> {}]

-----------------------------------------------------------------------------
(* The breaker                                                               *)

\* the first stamp that is not older than the window
firstValid(stamps) ==
  CHOOSE k \in 1 .. Len(stamps) + 1 :
    /\ k <= Len(stamps) => stamps[k] >= clock - WindowSeconds
    /\ \A j \in 1 .. k - 1 : stamps[j] < clock - WindowSeconds

\* Mutant: a stamp as old as the window is dropped
pruneEarly(stamps) == SelectSeq(stamps, LAMBDA t : t > clock - WindowSeconds)

pruneWindow(stamps) == SubSeq(stamps, firstValid(stamps), Len(stamps))

\* a call that is refused leaves no stamp
WithinWindow(stamps, maxCalls) == Len(pruneWindow(stamps)) < maxCalls

Stamped(stamps, maxCalls) ==
  IF WithinWindow(stamps, maxCalls) THEN Append(pruneWindow(stamps), clock) ELSE pruneWindow(stamps)

\* recordToolCall; cancel() is asked for and not waited for
recordToolCall(e) ==
  /\ toolStamps' = [toolStamps EXCEPT ![e] = Stamped(@, MaxToolCalls)]
  /\ toolTimes' = [toolTimes EXCEPT ![e] = Append(@, clock)]

recordLlmTurn(e) ==
  /\ llmStamps' = [llmStamps EXCEPT ![e] = Stamped(@, MaxLlmCalls)]
  /\ llmTimes' = [llmTimes EXCEPT ![e] = Append(@, clock)]

ToolReasons(e) == IF WithinWindow(toolStamps[e], MaxToolCalls) THEN {} ELSE {"tool_call_rate_exceeded"}

LlmReasons(e) == IF WithinWindow(llmStamps[e], MaxLlmCalls) THEN {} ELSE {"llm_call_rate_exceeded"}

\* Mutant: the turn's number is counted by the steering messages only
OpenTurnUncounted(e) ==
  IF llmTurnOpen[e] THEN UNCHANGED <<turnCount, llmTurnOpen, llmTurns, llmStamps, llmTimes>>
  ELSE /\ llmTurnOpen' = [llmTurnOpen EXCEPT ![e] = TRUE] /\ UNCHANGED turnCount
       /\ llmTurns' = [llmTurns EXCEPT ![e] = @ \cup {turnCount[e] + 1}]
       /\ recordLlmTurn(e)

\* text and the call of a tool start a turn if none is open
OpenTurn(e) ==
  IF llmTurnOpen[e] THEN UNCHANGED <<turnCount, llmTurnOpen, llmTurns, llmStamps, llmTimes>>
  ELSE /\ llmTurnOpen' = [llmTurnOpen EXCEPT ![e] = TRUE]
       /\ turnCount' = [turnCount EXCEPT ![e] = @ + 1]
       /\ llmTurns' = [llmTurns EXCEPT ![e] = @ \cup {turnCount[e] + 1}]
       /\ recordLlmTurn(e)

TurnReasons(e) == IF llmTurnOpen[e] THEN {} ELSE LlmReasons(e)

-----------------------------------------------------------------------------
(* The events of the handle                                                  *)

\* from here on the execution listens to steering messages
StartStream(e) ==
  /\ streaming[e] = "waiting" /\ streaming' = [streaming EXCEPT ![e] = "model"]
  /\ listeners' = Append(listeners, e)
  /\ UNCHANGED <<clock, turnCount, llmTurnOpen, breakerVars, cancels, executing, ack>>
  /\ UNCHANGED <<toolTimes, llmTimes, llmTurns>>

TextEvent(e) ==
  /\ streaming[e] = "model" /\ turnCount[e] < MaxTurnsSeen[e]
  /\ OpenTurn(e) /\ cancels' = [cancels EXCEPT ![e] = @ \cup TurnReasons(e)]
  /\ UNCHANGED <<clock, streaming, toolStamps, tokensUsed, steerVars, toolTimes>>

ToolUseEvent(e) ==
  /\ streaming[e] = "model" /\ turnCount[e] < MaxTurnsSeen[e]
  /\ streaming' = [streaming EXCEPT ![e] = "tool"]
  /\ OpenTurn(e) /\ recordToolCall(e)
  /\ cancels' = [cancels EXCEPT ![e] = @ \cup ToolReasons(e) \cup TurnReasons(e)]
  /\ UNCHANGED <<clock, tokensUsed, steerVars>>

ToolResultEvent(e) ==
  /\ streaming[e] = "tool" /\ streaming' = [streaming EXCEPT ![e] = "model"]
  /\ llmTurnOpen' = [llmTurnOpen EXCEPT ![e] = FALSE]
  /\ UNCHANGED <<clock, turnCount, breakerVars, cancels, steerVars, toolTimes, llmTimes, llmTurns>>

\* recordTokenUsage: a breaker knows the tokens of its own execution only
WithinBudgets(e, n) == tokensUsed[e] + n <= JobBudget /\ tokensUsed[e] + n <= SessionBudget

\* handles report their usage once, before they complete
UsageEvent(e) == \E n \in 1 .. MaxUsage :
  /\ streaming[e] = "model" /\ streaming' = [streaming EXCEPT ![e] = "told"]
  /\ tokensUsed' = [tokensUsed EXCEPT ![e] = @ + n]
  /\ cancels' = IF WithinBudgets(e, n) THEN cancels
                ELSE [cancels EXCEPT ![e] = @ \cup {"token_budget_exceeded"}]
  /\ UNCHANGED <<clock, turnCount, llmTurnOpen, toolStamps, llmStamps, steerVars>>
  /\ UNCHANGED <<toolTimes, llmTimes, llmTurns>>

\* Mutant: the listener is left behind
MonitorEndsListening(e) ==
  /\ streaming[e] \in {"model", "tool", "told"}
  /\ streaming' = [streaming EXCEPT ![e] = "over"]
  /\ UNCHANGED <<clock, turnCount, llmTurnOpen, breakerVars, cancels, steerVars>>
  /\ UNCHANGED <<toolTimes, llmTimes, llmTurns>>

\* the stream completes, is cancelled or throws: unsubSteer() in the finally
MonitorStreamEnds(e) ==
  /\ streaming[e] \in {"model", "tool", "told"}
  /\ streaming' = [streaming EXCEPT ![e] = "over"]
  /\ IF Contains(listeners, e)
     THEN \E i \in DOMAIN listeners : listeners[i] = e /\ listeners' = RemoveAt(listeners, i)
     ELSE UNCHANGED listeners
  /\ UNCHANGED <<clock, turnCount, llmTurnOpen, breakerVars, cancels, executing, ack>>
  /\ UNCHANGED <<toolTimes, llmTimes, llmTurns>>

-----------------------------------------------------------------------------
(* Steering                                                                  *)

\* every listener counts the message as a turn of its execution
steer == turnCount' = [e \in Executions |-> turnCount[e] + IF Contains(listeners, e) THEN 1 ELSE 0]

\* POST /agents/:agentId/steer: the listeners run at once, the first acknowledges; without one
\* the request waits for its time-out
steerAsync(m) ==
  /\ ack[m].told = "unsent" /\ executing /\ steer
  /\ ack' = [ack EXCEPT ![m] =
       IF listeners = <<>> THEN [Unsent EXCEPT !.told = "pending"]
       ELSE [told |-> "acknowledged", by |-> Head(listeners), turn |-> turnCount[Head(listeners)] + 1]]
  /\ UNCHANGED <<clock, streaming, llmTurnOpen, breakerVars, cancels, executing, listeners>>
  /\ UNCHANGED <<toolTimes, llmTimes, llmTurns>>

\* annotations of the browser steer too, and nobody waits for their acknowledgement
Annotate ==
  /\ executing /\ listeners # <<>> /\ steer
  /\ SumFunction(turnCount) < SumFunction(MaxTurnsSeen)
  /\ UNCHANGED <<clock, streaming, llmTurnOpen, breakerVars, cancels, steerVars>>
  /\ UNCHANGED <<toolTimes, llmTimes, llmTurns>>

\* the time-out, or the refusal of an agent that is not EXECUTING
SteerUnheard(m) ==
  /\ \/ ack[m].told = "pending"
     \/ ack[m].told = "unsent" /\ ~executing
  /\ ack' = [ack EXCEPT ![m].told = "unacknowledged"]
  /\ UNCHANGED <<clock, streaming, turnCount, llmTurnOpen, breakerVars, cancels, executing>>
  /\ UNCHANGED <<listeners, toolTimes, llmTimes, llmTurns>>

\* the lifecycle manager runs the agent; when it lets it go, cleanup() forgets the listeners,
\* those of executions that still stream as well
RunAgent ==
  /\ ~executing /\ executing' = TRUE
  /\ UNCHANGED <<clock, streaming, turnCount, llmTurnOpen, breakerVars, cancels, listeners, ack>>
  /\ UNCHANGED <<toolTimes, llmTimes, llmTurns>>

forgetListeners ==
  /\ executing /\ executing' = FALSE /\ listeners' = <<>>
  /\ UNCHANGED <<clock, streaming, turnCount, llmTurnOpen, breakerVars, cancels, ack>>
  /\ UNCHANGED <<toolTimes, llmTimes, llmTurns>>

TimePasses ==
  /\ clock < MaxTime /\ clock' = clock + 1
  /\ UNCHANGED <<streaming, turnCount, llmTurnOpen, breakerVars, cancels, steerVars>>
  /\ UNCHANGED <<toolTimes, llmTimes, llmTurns>>

MonitorNext ==
  \/ Annotate \/ RunAgent \/ forgetListeners \/ TimePasses
  \/ \E m \in Steers : steerAsync(m) \/ SteerUnheard(m)
  \/ \E e \in Executions :
       \/ StartStream(e) \/ TextEvent(e) \/ ToolUseEvent(e) \/ ToolResultEvent(e)
       \/ UsageEvent(e) \/ MonitorStreamEnds(e)

MonitorSpec == MonitorInit /\ [][MonitorNext]_monitorVars

-----------------------------------------------------------------------------
(* Properties                                                                *)

\* whether some window of the history holds more than a limit's number of calls
Overrun(times, maxCalls) ==
  \E i \in DOMAIN times : i + maxCalls \in DOMAIN times
                          /\ times[i + maxCalls] - times[i] <= WindowSeconds

\* The breaker, which forgets old calls and refused ones, asks for the end of an execution when
\* its whole history has more calls of tools, or more turns, within a window than the limit
\* allows, or used more tokens than a budget, and of no other execution.
CutIffOverrun ==
  \A e \in Executions :
    /\ "token_budget_exceeded" \in cancels[e]
         <=> ~(tokensUsed[e] <= JobBudget /\ tokensUsed[e] <= SessionBudget)
    /\ "tool_call_rate_exceeded" \in cancels[e] <=> Overrun(toolTimes[e], MaxToolCalls)
    /\ "llm_call_rate_exceeded" \in cancels[e] <=> Overrun(llmTimes[e], MaxLlmCalls)

\* "incorporated at turn n" names one place of one execution: no turn of the model and no other
\* acknowledged message has that number there, although messages arrive between any two events.
TurnIsItsOwn ==
  \A m \in Steers : ack[m].told = "acknowledged" =>
    /\ ack[m].turn \notin llmTurns[ack[m].by]
    /\ \A o \in Steers \ {m} :
         ack[o].told = "acknowledged" /\ ack[o].by = ack[m].by => ack[o].turn # ack[m].turn

\* A message is acknowledged only by an execution that reads events still.
AcknowledgedByLive ==
  [][\A m \in Steers : ack[m].told = "unsent" /\ ack'[m].told = "acknowledged" =>
       streaming[ack'[m].by] \in {"model", "tool", "told"}]_monitorVars
=============================================================================
