------------------------------ MODULE CliProcess ------------------------------
(*****************************************************************************)
(* One execution of the Claude Code backend: a process that writes lines,    *)
(* the time-out of executeTask, the generator events() with its consumer,    *)
(* and cancel().  Node reports the death of a process (the exit event) and   *)
(* the end of its output as two events, in either order.  A CLI may die of   *)
(* any signal: of SIGTERM, sent by this code or by another, with code 143 or *)
(* none; of a lack of memory or a fault, without a code.                     *)
(*****************************************************************************)

VARIABLES
  process,   \* whether the process lives, whether it wrote its result line, its exit code
  killed,    \* subprocess.killed: a signal was sent
  exitSeen,  \* the exit event was emitted, and exitCode set
  output,    \* "open", or "ended" for its reader
  reader,    \* where events() and its consumer stand
  waiting,   \* whether a cancel() awaits the exit
  cliTimer,     \* the time-out: "armed", "off"
  cliResult, cliComplete   \* the settled result and the last event

cliVars == <<process, killed, exitSeen, output, reader, waiting, cliTimer, cliResult, cliComplete>>

Codes == {"0", "1", "137", "143", "null"}

CliInit ==
  /\ process = [alive |-> TRUE, wrote |-> FALSE, code |-> "null"]
  /\ killed = FALSE /\ exitSeen = FALSE /\ output = "open"
  /\ reader = "reading" /\ waiting = FALSE /\ cliTimer = "armed"
  /\ cliResult = "none" /\ cliComplete = "none"

\* settleResult(): the first result stays.
SettledCli(status) == IF cliResult = "none" THEN status ELSE cliResult

--------------------------------------------------------------------------------
\* The CLI writes its result line.
WriteResult ==
  /\ process.alive /\ ~process.wrote /\ process' = [process EXCEPT !.wrote = TRUE]
  /\ UNCHANGED <<killed, exitSeen, output, reader, waiting, cliTimer, cliResult, cliComplete>>

\* The CLI ends: by itself, because it was told to, or of a signal of the system.
Exit ==
  /\ process.alive
  /\ \E code \in Codes : process' = [process EXCEPT !.alive = FALSE, !.code = code]
  /\ UNCHANGED <<killed, exitSeen, output, reader, waiting, cliTimer, cliResult, cliComplete>>

\* The exit event stops the time-out and wakes those who listen for it: a cancel(), which
\* settles at once, and events() in waitForExit(), which has a `git diff` before it.
ExitEvent ==
  /\ ~process.alive /\ ~exitSeen /\ exitSeen' = TRUE /\ cliTimer' = "off" /\ waiting' = FALSE
  /\ cliResult' = IF waiting THEN SettledCli("cancelled") ELSE cliResult
  /\ reader' = IF reader = "exiting" THEN "building" ELSE reader
  /\ UNCHANGED <<process, killed, output, cliComplete>>

OutputEnds ==
  /\ ~process.alive /\ output = "open" /\ output' = "ended"
  /\ UNCHANGED <<process, killed, exitSeen, reader, waiting, cliTimer, cliResult, cliComplete>>

\* The time-out.  The SIGKILL five seconds later is never sent: `killed` is TRUE since this kill().
TimeOut ==
  /\ cliTimer = "armed" /\ cliTimer' = "off" /\ killed' = (killed \/ process.alive)
  /\ UNCHANGED <<process, exitSeen, output, reader, waiting, cliResult, cliComplete>>

--------------------------------------------------------------------------------
\* cancel(): the first one sends SIGTERM (which fails for a dead process) and waits; one that
\* finds `killed` settles at once.
cancelCli ==
  /\ reader \notin {"recorded", "thrown"}
  /\ IF killed THEN cliResult' = SettledCli("cancelled") /\ UNCHANGED <<killed, waiting>>
     ELSE killed' = process.alive /\ waiting' = TRUE /\ UNCHANGED cliResult
  /\ UNCHANGED <<process, exitSeen, output, reader, cliTimer, cliComplete>>

\* Five seconds without an exit event.
CancelGivesUp ==
  /\ waiting /\ waiting' = FALSE /\ cliResult' = SettledCli("cancelled")
  /\ UNCHANGED <<process, killed, exitSeen, output, reader, cliTimer, cliComplete>>

\* The line of the result is read: usage first, at which the consumer may call cancel().
ReadResult ==
  /\ reader = "reading" /\ process.wrote /\ reader' = "completing" /\ cliComplete' = "completed"
  /\ UNCHANGED <<process, killed, exitSeen, output, waiting, cliTimer, cliResult>>

\* Mutant: the generator returns with the result.
SettleAndReturn ==
  /\ reader = "completing" /\ reader' = "over" /\ cliResult' = SettledCli("completed")
  /\ UNCHANGED <<process, killed, exitSeen, output, waiting, cliTimer, cliComplete>>

\* The consumer has seen the complete event: the generator settles, and reads on to the end.
SettleRead ==
  /\ reader = "completing" /\ reader' = "draining" /\ cliResult' = SettledCli("completed")
  /\ UNCHANGED <<process, killed, exitSeen, output, waiting, cliTimer, cliComplete>>

\* Mutant: a result is built from the exit code whether or not there is one.
EndOfOutputAgain ==
  /\ output = "ended" /\ reader \in {"reading", "draining"}
  /\ reader = "reading" => ~process.wrote
  /\ reader' = IF exitSeen /\ process.code # "null" THEN "building" ELSE "exiting"
  /\ UNCHANGED <<process, killed, exitSeen, output, waiting, cliTimer, cliResult, cliComplete>>

\* Mutant: waitForExit() listens for the exit event, whether or not it has been.
EndOfOutputListens ==
  /\ output = "ended" /\ reader \in {"reading", "draining"}
  /\ reader = "reading" => ~process.wrote
  /\ reader' = IF cliResult # "none" THEN "over" ELSE "exiting"
  /\ UNCHANGED <<process, killed, exitSeen, output, waiting, cliTimer, cliResult, cliComplete>>

\* The end of the output: without a result yet, waitForExit() returns exitCode, which is null
\* before the exit event and after a death by a signal, or listens for the exit event.
EndOfOutput ==
  /\ output = "ended" /\ reader \in {"reading", "draining"}
  /\ reader = "reading" => ~process.wrote
  /\ reader' = IF cliResult # "none" THEN "over"
               ELSE IF exitSeen /\ process.code # "null" THEN "building" ELSE "exiting"
  /\ UNCHANGED <<process, killed, exitSeen, output, waiting, cliTimer, cliResult, cliComplete>>

\* Mutant: every code but zero is a time-out.
StatusOfAny(code) == IF code = "0" THEN "completed" ELSE "timed_out"

\* Mutant: the code itself.
StatusOfCode(code) == code

\* buildFinalResult()
StatusOfExit(code) ==
  CASE code \in {"null", "143"} -> "timed_out" [] code = "0" -> "completed" [] OTHER -> "failed"

BuildResult ==
  /\ reader = "building" /\ reader' = "over"
  /\ cliComplete' = StatusOfExit(process.code) /\ cliResult' = SettledCli(StatusOfExit(process.code))
  /\ UNCHANGED <<process, killed, exitSeen, output, waiting, cliTimer>>

\* A line that mapClaudeEvent() cannot map, or a consumer that cannot write its buffer: the
\* generator ends with the error, and agent_execute's catch writes the job.  Nobody tells the process.
Throw ==
  /\ reader \in {"reading", "completing", "draining"} \/ (reader = "over" /\ cliComplete # "none")
  /\ reader' = "thrown"
  /\ UNCHANGED <<process, killed, exitSeen, output, waiting, cliTimer, cliResult, cliComplete>>

\* agent_execute takes the result.
RecordCli ==
  /\ reader = "over" /\ cliResult # "none" /\ reader' = "recorded"
  /\ UNCHANGED <<process, killed, exitSeen, output, waiting, cliTimer, cliResult, cliComplete>>

ReaderStep == ReadResult \/ SettleRead \/ EndOfOutput \/ BuildResult \/ RecordCli

CliNext ==
  \/ ReaderStep \/ Exit \/ ExitEvent \/ OutputEnds \/ WriteResult
  \/ TimeOut \/ CancelGivesUp \/ cancelCli \/ Throw

\* Lines are read, and Node reports the death of a process and the end of its output.
CliFairness == WF_cliVars(ReaderStep) /\ WF_cliVars(ExitEvent) /\ WF_cliVars(OutputEnds)

--------------------------------------------------------------------------------
\* The types of the variables.
CliTypeOK ==
  /\ process \in [alive : BOOLEAN, wrote : BOOLEAN, code : Codes]
  /\ {killed, exitSeen, waiting} \subseteq BOOLEAN /\ output \in {"open", "ended"}
  /\ reader \in {"reading", "completing", "draining", "exiting", "building", "over", "recorded",
                "thrown"}
  /\ cliTimer \in {"armed", "off"}
  /\ {cliResult, cliComplete} \subseteq {"none", "completed", "failed", "timed_out", "cancelled"}

\* No process outlives an execution that ends with a result: the next task of the agent works on
\* the same files.  One whose reader threw lives on, but never without an end: it was told to, or
\* its time-out is armed still.
NoOrphan ==
  /\ reader \in {"over", "recorded"} => ~process.alive
  /\ process.alive => cliTimer = "armed" \/ killed

\* The last event and the result differ only where a cancel() came between them.
CliLastEvent == cliComplete # "none" /\ cliResult # "none" => cliResult \in {cliComplete, "cancelled"}

\* A result says what the process did: it completed by its own account or its exit code, failed by
\* its exit code, and "timed out" if it died of a signal, whoever sent it; and a process that told
\* its result is never said to have failed or timed out, whatever it died of afterwards.
ResultIsEarned ==
  /\ cliResult = "completed" => process.wrote \/ process.code = "0"
  /\ cliResult = "failed" => process.code \in {"1", "137"}
  /\ cliResult = "timed_out" => ~process.alive /\ process.code \in {"143", "null"}
  /\ cliResult \in {"failed", "timed_out"} => ~process.wrote

\* The process died of a signal without an exit code, its exit event came before the end of its
\* output, and waitForExit() listens for an event that has been.
Unheard == reader = "exiting" /\ exitSeen /\ process.code = "null"

\* The stream of events of a process that has ended ends too, and its job is written, but for the
\* one case that waitForExit() cannot see.
CliEnds == ~process.alive ~> reader \in {"recorded", "thrown"} \/ Unheard
================================================================================
