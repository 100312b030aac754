--------------------------- MODULE ProviderRouting ---------------------------
(*****************************************************************************)
(* The way of a task through the BackendRegistry: it is routed to a provider *)
(* past the circuit breakers, waits for a permit of the provider's           *)
(* semaphore, executes, has its outcome recorded and gives the permit back   *)
(* (steps 5, 6, 11 and the finally block of agent_execute).                  *)
(*                                                                           *)
(* Time is left to the environment: an OPEN breaker's cool-down ends and a   *)
(* failure leaves the sliding window at any moment.                          *)
(*****************************************************************************)
EXTENDS Naturals, SequencesExt

CONSTANTS
  Tasks, Providers,
  Rank,                    \* a provider's priority; lower is tried first
  MaxConcurrent,           \* permits of each provider's semaphore
  FailureThreshold, HalfOpenMaxAttempts, SuccessThresholdToClose,
  None,
  RouterConfigured,        \* configureRouter was called
  PermitsTimeOut,          \* an acquire may wait longer than its timeout
  ExecutionsThrow,         \* executing a task may throw instead of resulting
  Uncounted                \* results may fail as "permanent" or "timeout"

ASSUME RoutingAssumption ==
  /\ Rank \in [Providers -> Nat]
  /\ \A p, q \in Providers : Rank[p] = Rank[q] => p = q
  /\ {MaxConcurrent, FailureThreshold, HalfOpenMaxAttempts,
      SuccessThresholdToClose} \subseteq Nat \ {0}
  /\ None \notin Providers
  /\ {RouterConfigured, PermitsTimeOut, ExecutionsThrow, Uncounted} \subseteq BOOLEAN

VARIABLES
  breaker,   \* the CircuitBreaker of each provider
  active,    \* BackendSemaphore.active
  waiters,   \* BackendSemaphore.waiters
  task       \* where each task stands, at which provider

vars == <<breaker, active, waiters, task>>

\* failures: those in the window of a CLOSED breaker, the only ones that are
\* ever counted; elapsed: openDurationMs have passed since openedAt.  Of a HALF_OPEN
\* breaker, histories the code does not keep: the tasks in flight that were routed
\* on a slot of it (probing), how many such ended with no outcome that counts (lost),
\* and how many outcomes came of tasks that have no slot of it (late).
Breaker == [state: {"CLOSED", "OPEN", "HALF_OPEN"},
            failures: 0..FailureThreshold,
            halfOpenActive: 0..HalfOpenMaxAttempts,
            successes: 0..SuccessThresholdToClose,
            elapsed: BOOLEAN,
            probing: SUBSET Tasks, lost: Nat, late: Nat]

Closed == [state |-> "CLOSED", failures |-> 0, halfOpenActive |-> 0,
           successes |-> 0, elapsed |-> FALSE,
           probing |-> {}, lost |-> 0, late |-> 0]

TaskState == [pc: {"idle", "routed", "waiting", "holding", "recorded"},
              provider: Providers \cup {None}]

Idle == [pc |-> "idle", provider |-> None]

Init ==
  /\ breaker = [p \in Providers |-> Closed]
  /\ active = [p \in Providers |-> 0]
  /\ waiters = [p \in Providers |-> <<>>]
  /\ task = [t \in Tasks |-> Idle]

-----------------------------------------------------------------------------
\* The circuit breaker.

Forgotten(b) == [b EXCEPT !.probing = {}, !.lost = 0, !.late = 0]

Trip(b) == [Forgotten(b) EXCEPT !.state = "OPEN", !.failures = 0, !.elapsed = FALSE]

\* Mutant: the cool-down is not waited for.
maybeTransitionAtOnce(b) ==
  IF b.state = "OPEN"
  THEN [Forgotten(b) EXCEPT !.state = "HALF_OPEN", !.halfOpenActive = 0, !.successes = 0]
  ELSE b

\* Every public method of the breaker starts with maybeTransition.
maybeTransition(b) ==
  IF b.state = "OPEN" /\ b.elapsed
  THEN [Forgotten(b) EXCEPT !.state = "HALF_OPEN", !.halfOpenActive = 0, !.successes = 0]
  ELSE b

canExecute(b) ==
  \/ b.state = "CLOSED"
  \/ b.state = "HALF_OPEN" /\ b.halfOpenActive < HalfOpenMaxAttempts

acquireHalfOpenSlot(b, t) ==
  IF b.state = "HALF_OPEN"
  THEN [b EXCEPT !.halfOpenActive = @ + 1, !.probing = @ \cup {t}]
  ELSE b

\* The task has an outcome that counts, or ends without one.
Told(b, t) ==
  IF t \in b.probing THEN [b EXCEPT !.probing = @ \ {t}] ELSE [b EXCEPT !.late = @ + 1]

Lose(b, t) ==
  IF t \in b.probing THEN [b EXCEPT !.probing = @ \ {t}, !.lost = @ + 1] ELSE b

\* Mutant: the count of slots goes below zero.
FreeSlotBelowZero(b) == [b EXCEPT !.halfOpenActive = @ - 1]

\* Math.max(0, halfOpenActive - 1)
FreeSlot(b) == [b EXCEPT !.halfOpenActive = IF @ = 0 THEN 0 ELSE @ - 1]

\* Mutant: a successful probe keeps its slot.
recordSuccessKeepsSlot(b0, t) ==
  LET b == maybeTransition(b0) IN
    IF b.state # "HALF_OPEN" THEN b
    ELSE IF b.successes + 1 >= SuccessThresholdToClose THEN Closed
    ELSE [Told(b, t) EXCEPT !.successes = b.successes + 1]

recordSuccess(b0, t) ==
  LET b == maybeTransition(b0) IN
    IF b.state # "HALF_OPEN" THEN b
    ELSE IF b.successes + 1 >= SuccessThresholdToClose THEN Closed
    ELSE [FreeSlot(Told(b, t)) EXCEPT !.successes = b.successes + 1]

\* Mutant: a failed probe leaves the breaker half open.
recordFailureStaysHalfOpen(b0, t, counted) ==
  LET b == maybeTransition(b0) IN
    IF ~counted THEN Lose(b, t)
    ELSE IF b.state = "OPEN" THEN b
    ELSE IF b.state = "HALF_OPEN" THEN [Told(b, t) EXCEPT !.successes = 0]
    ELSE IF b.failures + 1 >= FailureThreshold THEN Trip(b)
    ELSE [b EXCEPT !.failures = @ + 1]

\* Only transient and resource failures count; any other is ignored before the
\* slot of a probe is given back.
recordFailure(b0, t, counted) ==
  LET b == maybeTransition(b0) IN
    IF ~counted THEN Lose(b, t)
    ELSE IF b.state = "OPEN" THEN b
    ELSE IF b.state = "HALF_OPEN" THEN Trip([FreeSlot(b) EXCEPT !.successes = 0])
    ELSE IF b.failures + 1 >= FailureThreshold THEN Trip(b)
    ELSE [b EXCEPT !.failures = @ + 1]

-----------------------------------------------------------------------------
\* A task.

At(t, pc) == task[t].pc = pc

Before(p) == {q \in Providers : Rank[q] < Rank[p]}

\* ProviderRouter.route: the first provider that is CLOSED, or HALF_OPEN with a
\* slot left.  The breakers looked at on the way have made their transition.
Route(t, p) ==
  /\ At(t, "idle") /\ RouterConfigured
  /\ canExecute(maybeTransition(breaker[p]))
  /\ \A q \in Before(p) : ~canExecute(maybeTransition(breaker[q]))
  /\ breaker' = [q \in Providers |->
       CASE q \in Before(p) -> maybeTransition(breaker[q])
         [] q = p           -> acquireHalfOpenSlot(maybeTransition(breaker[q]), t)
         [] OTHER           -> breaker[q]]
  /\ task' = [task EXCEPT ![t] = [pc |-> "routed", provider |-> p]]
  /\ UNCHANGED <<active, waiters>>

\* No provider is available: route throws and the job fails.
RouteExhausted(t) ==
  /\ At(t, "idle") /\ RouterConfigured
  /\ \A p \in Providers : ~canExecute(maybeTransition(breaker[p]))
  /\ breaker' = [p \in Providers |-> maybeTransition(breaker[p])]
  /\ UNCHANGED <<active, waiters, task>>

\* routeTask without a router: the preferred backend or the default one.
LookUp(t, p) ==
  /\ At(t, "idle") /\ ~RouterConfigured
  /\ task' = [task EXCEPT ![t] = [pc |-> "routed", provider |-> p]]
  /\ UNCHANGED <<breaker, active, waiters>>

\* Nothing is recorded with the breaker of a task that is over: a slot it took stays taken.
Unrecorded(t) ==
  breaker' = [breaker EXCEPT ![task[t].provider] = Lose(@, t)]

acquirePermit(t) ==
  /\ At(t, "routed")
  /\ LET p == task[t].provider IN
       \/ /\ active[p] < MaxConcurrent
          /\ active' = [active EXCEPT ![p] = @ + 1]
          /\ task' = [task EXCEPT ![t].pc = "holding"]
          /\ UNCHANGED waiters
       \/ /\ active[p] >= MaxConcurrent
          /\ waiters' = [waiters EXCEPT ![p] = Append(@, t)]
          /\ task' = [task EXCEPT ![t].pc = "waiting"]
          /\ UNCHANGED active
  /\ UNCHANGED breaker

\* The timer of a waiter fires: the acquire rejects and the task is over.
PermitTimeout(t) ==
  /\ PermitsTimeOut
  /\ At(t, "waiting")
  /\ LET p == task[t].provider IN
       \E i \in 1..Len(waiters[p]) :
         /\ waiters[p][i] = t
         /\ waiters' = [waiters EXCEPT ![p] = RemoveAt(@, i)]
  /\ task' = [task EXCEPT ![t] = Idle]
  /\ Unrecorded(t) /\ UNCHANGED active

\* Mutant: the permit is given back and no waiter is woken.
releaseWakesNobody(t) ==
  /\ active' = [active EXCEPT ![task[t].provider] = @ - 1]
  /\ task' = [task EXCEPT ![t] = Idle]
  /\ UNCHANGED waiters

\* The finally block: the permit goes to the first waiter, if there is one.
release(t) ==
  LET p == task[t].provider IN
    \/ /\ waiters[p] = <<>>
       /\ active' = [active EXCEPT ![p] = @ - 1]
       /\ task' = [task EXCEPT ![t] = Idle]
       /\ UNCHANGED waiters
    \/ /\ waiters[p] # <<>>
       /\ waiters' = [waiters EXCEPT ![p] = Tail(@)]
       /\ task' = [task EXCEPT ![t] = Idle, ![Head(waiters[p])].pc = "holding"]
       /\ UNCHANGED active

\* Executing throws before the outcome is recorded.
ExecuteThrows(t) ==
  /\ ExecutionsThrow
  /\ At(t, "holding")
  /\ release(t)
  /\ Unrecorded(t)

recordOutcome(t, success, counted) ==
  /\ At(t, "holding")
  /\ counted \/ Uncounted
  /\ breaker' = [breaker EXCEPT ![task[t].provider] =
                   IF success THEN recordSuccess(@, t) ELSE recordFailure(@, t, counted)]
  /\ task' = [task EXCEPT ![t].pc = "recorded"]
  /\ UNCHANGED <<active, waiters>>

Finish(t) ==
  /\ At(t, "recorded")
  /\ release(t)
  /\ UNCHANGED breaker

-----------------------------------------------------------------------------
\* Time.

CooldownEnds(p) ==
  /\ breaker[p].state = "OPEN" /\ ~breaker[p].elapsed
  /\ breaker' = [breaker EXCEPT ![p].elapsed = TRUE]
  /\ UNCHANGED <<active, waiters, task>>

\* A failure leaves the window, which pruneWindow finds out when it matters.
FailureAges(p) ==
  /\ breaker[p].failures > 0
  /\ breaker' = [breaker EXCEPT ![p].failures = @ - 1]
  /\ UNCHANGED <<active, waiters, task>>

Routing(t) ==
  \/ \E p \in Providers : Route(t, p) \/ LookUp(t, p)
  \/ RouteExhausted(t)

Executing(t) ==
  \/ ExecuteThrows(t)
  \/ \E success, counted \in BOOLEAN : recordOutcome(t, success, counted)

Next ==
  \/ \E t \in Tasks :
       Routing(t) \/ acquirePermit(t) \/ PermitTimeout(t) \/ Executing(t) \/ Finish(t)
  \/ \E p \in Providers : CooldownEnds(p) \/ FailureAges(p)

Spec == Init /\ [][Next]_vars

(*****************************************************************************)
(* Fairness: jobs keep coming, the promises of a task settle (executions are *)
(* bounded by the task's timeout) and the cool-down ends.  Permits are not   *)
(* assumed to time out and failures not to age.                              *)
(*****************************************************************************)
Fairness ==
  /\ \A t \in Tasks :
       /\ WF_vars(Routing(t)) /\ WF_vars(acquirePermit(t))
       /\ WF_vars(Executing(t)) /\ WF_vars(Finish(t))
  /\ \A p \in Providers : WF_vars(CooldownEnds(p))

-----------------------------------------------------------------------------
\* Types of the state: breakers within their thresholds, tasks at a point.
TypeOK ==
  /\ breaker \in [Providers -> Breaker]
  /\ active \in [Providers -> 0..MaxConcurrent]
  /\ waiters \in [Providers -> Seq(Tasks)]
  /\ task \in [Tasks -> TaskState]

Holders(p) == {t \in Tasks : task[t].provider = p /\ task[t].pc \in {"holding", "recorded"}}

\* The semaphore's count is exact: as many permits are taken as tasks hold one,
\* never more than the limit, and no task waits while a permit is free, whatever
\* timeouts, errors and hand-overs happened (BackendSemaphore).
PermitsAreExact ==
  \A p \in Providers :
    /\ active[p] = Cardinality(Holders(p))
    /\ active[p] <= MaxConcurrent
    /\ waiters[p] # <<>> => active[p] = MaxConcurrent

\* The queue of a semaphore holds each waiting task once, at its provider only,
\* and no task that gave up (waiters.splice in the timer, waiters.shift).
WaitersAreQueued ==
  \A p \in Providers :
    /\ \A t \in Tasks :
         (At(t, "waiting") /\ task[t].provider = p)
           <=> \E i \in 1..Len(waiters[p]) : waiters[p][i] = t
    /\ \A i, k \in 1..Len(waiters[p]) : waiters[p][i] = waiters[p][k] => i = k

\* The semaphore as a whole: count, limit, and the queue of those that wait.
SemaphoreIsExact == TypeOK /\ PermitsAreExact /\ WaitersAreQueued

InFlight(p) ==
  {t \in Tasks : task[t].provider = p /\ task[t].pc \in {"routed", "waiting", "holding"}}

\* The slots of a half-open breaker add up, whatever cool-downs, late outcomes, time-outs
\* and errors come between (acquireHalfOpenSlot).  A slot that is taken is that of a probe
\* in flight, or of one that ended with no outcome recorded: the breaker refuses a task for
\* nothing else.  And a probe in flight has its slot, unless the outcome of a task that has
\* none gave it back: no more probes run than are allowed and such outcomes came.
SlotsAddUp ==
  \A p \in Providers : LET b == breaker[p] IN
    b.state = "HALF_OPEN" =>
      /\ b.probing \subseteq InFlight(p)
      /\ b.halfOpenActive <= Cardinality(b.probing) + b.lost
      /\ Cardinality(b.probing) <= b.halfOpenActive + b.late

\* Waiters are served in turn: with fair tasks nobody waits for ever, and without a
\* time-out whoever waits for a permit gets it.
WaiterGetsPermit ==
  \A t \in Tasks : At(t, "waiting") ~> ~At(t, "waiting")

\* A breaker stays OPEN until its cool-down is over and nothing is started on its
\* provider, whatever outcomes of earlier tasks are still recorded.
KeepsOpen ==
  \A p \in Providers :
    breaker[p].state = "OPEN" /\ ~breaker[p].elapsed =>
      /\ breaker'[p].state = "OPEN"
      /\ \A t \in Tasks : task'[t].provider = p => task[t].provider = p
=============================================================================
