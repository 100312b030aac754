----------------------------- MODULE MCWorkbench -----------------------------
(*****************************************************************************)
(* The instance of the parts around one execution for TLC.  They share no    *)
(* state here: a behaviour moves one of them, its part, and the others rest  *)
(* where they start.                                                         *)
(*****************************************************************************)
EXTENDS AgentLifecycle, ToolLoop, CliProcess, Spending, Observation, JobFeed

VARIABLE part

Init ==
  /\ part \in {"lifecycle", "loop", "cli", "spending", "observation", "feed"}
  /\ LifecycleInit /\ LoopInit /\ CliInit /\ SpendInit /\ ObsInit /\ FeedInit
  /\ part # "loop" => api = "echo" /\ ~refreshable
  /\ part # "spending" => \A j \in Spenders : price[j] = 1 /\ reported[j] = 0

Next ==
  /\ part' = part
  /\ \/ part = "lifecycle" /\ LifecycleNext
     \/ part = "loop" /\ LoopNext
     \/ part = "cli" /\ CliNext
     \/ part = "spending" /\ SpendNext
     \/ part = "feed" /\ FeedNext
     \/ part = "observation" /\ ObsNext
  /\ part # "lifecycle" => UNCHANGED lifecycleVars
  /\ part # "loop" => UNCHANGED loopVars
  /\ part # "cli" => UNCHANGED cliVars
  /\ part # "spending" => UNCHANGED spendVars
  /\ part # "feed" => UNCHANGED feedVars
  /\ part # "observation" => UNCHANGED obsVars

\* Each part under the fairness its code justifies; at rest, no other part has a fair step.
Fairness ==
  /\ LifecycleFairness
  /\ WF_loopVars(part = "loop" /\ LoopStep)
  /\ CliFairness
  /\ SpendFairness
  /\ FeedFairness

Spec ==
  Init /\ [][Next]_<<part, lifecycleVars, loopVars, cliVars, spendVars, feedVars, obsVars>> /\ Fairness

\* A result says what the execution did, and nothing of the execution outlives it: the loop
\* of a model and its tools (ToolLoop), and the process of a CLI (CliProcess).
ResultsAreEarned ==
  /\ LoopTypeOK /\ CallsAreAnswered /\ RequestsBounded /\ ToolOvershoot
  /\ CompletedIsPaid /\ LastEventIsResult
  /\ CliTypeOK /\ NoOrphan /\ CliLastEvent /\ ResultIsEarned

\* What those who watch an agent see is what there is: its browser, its pictures, its jobs.
ViewsAreTrue ==
  /\ ObsTypeOK /\ ConnectingIsGoing /\ ViewersAgree /\ StoppingIsAStop
  /\ FeedTypeOK /\ ShownIsConnecting /\ EventsRefetch

\* Whatever is begun ends: an idle agent is scaled down, a drain completes, an execution
\* and the process of a CLI come to their result, events reach their table and the feed.
WorkEnds ==
  /\ IdleIsScaledDown /\ DrainCompletes /\ ExecutionEnds /\ CliEnds
  /\ EventsAreWritten /\ FeedCatchesUp
=============================================================================
