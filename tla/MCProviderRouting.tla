-------------------------- MODULE MCProviderRouting --------------------------
(*****************************************************************************)
(* Small instances for TLC of the way to a backend and of the execution      *)
(* there.  A behaviour has one part: ProviderRouting with a router, when     *)
(* every outcome is recorded and counted; the same with time-outs,           *)
(* executions that throw and outcomes that do not count (lossy); with these  *)
(* and no router, as the program runs it (direct); or ExecutionMonitor.  The *)
(* others rest where they start.                                             *)
(*****************************************************************************)
EXTENDS ProviderRouting, ExecutionMonitor

\* The providers in some order of priority.
SomeRank == CHOOSE f \in [Providers -> 1..Cardinality(Providers)] :
              \A p, q \in Providers : f[p] = f[q] => p = q

\* How many turns of each execution are looked at: two of one, the others only listen.
TurnBounds ==
  LET first == CHOOSE e \in Executions : TRUE
  IN [e \in Executions |-> IF e = first THEN 2 ELSE 0]

VARIABLE part

Direct == INSTANCE ProviderRouting
            WITH RouterConfigured <- FALSE, PermitsTimeOut <- TRUE,
                 ExecutionsThrow <- TRUE, Uncounted <- TRUE

Lossy == INSTANCE ProviderRouting
           WITH PermitsTimeOut <- TRUE, ExecutionsThrow <- TRUE, Uncounted <- TRUE

RoutingNext ==
  /\ part' = part
  /\ \/ part = "router" /\ Next /\ UNCHANGED monitorVars
     \/ part = "lossy" /\ Lossy!Next /\ UNCHANGED monitorVars
     \/ part = "direct" /\ Direct!Next /\ UNCHANGED monitorVars
     \/ part = "monitor" /\ MonitorNext /\ UNCHANGED vars
     \/ part = "monitor" /\ UNCHANGED <<vars, monitorVars>>   \* its executions may be over

InRouting(A) == part # "monitor" /\ A

\* Fairness of ProviderRouting, of steps no other part could take.
RoutingFairness ==
  /\ \A t \in Tasks :
       /\ WF_vars(InRouting(Routing(t))) /\ WF_vars(InRouting(acquirePermit(t)))
       /\ WF_vars(InRouting(Executing(t))) /\ WF_vars(InRouting(Finish(t)))
  /\ \A p \in Providers : WF_vars(InRouting(CooldownEnds(p)))

RoutingInit ==
  /\ part \in {"router", "lossy", "direct", "monitor"}
  /\ Init /\ MonitorInit

RoutingSpec ==
  /\ RoutingInit /\ [][RoutingNext]_<<part, vars, monitorVars>> /\ RoutingFairness

\* With a router an open breaker stays open until its cool-down is over, and nothing is
\* started on its provider before.
OpenHoldsUntilCooldown == [][part # "direct" => KeepsOpen]_vars

\* docs/spikes/037-execution-backends.md:1250, "If the probe succeeds, the circuit
\* closes. If it fails, the cooldown restarts": the breaker of the first provider
\* does not stay HALF_OPEN, whatever late outcomes come between the probes (one of
\* lower rank may get no traffic to decide on).  It holds when every outcome is
\* recorded and counted; a probe that throws keeps its slot for ever.
HalfOpenEnds ==
  \A p \in Providers :
    Before(p) = {} => (part = "router" /\ breaker[p].state = "HALF_OPEN" ~> breaker[p].state # "HALF_OPEN")

\* An open breaker holds, a half-open one is decided, and whoever waits for a permit gets it.
RoutingGoesOn == OpenHoldsUntilCooldown /\ HalfOpenEnds /\ WaiterGetsPermit
=============================================================================
