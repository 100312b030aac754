-------------------------- MODULE ChannelSupervisor --------------------------
(*****************************************************************************)
(* One channel type of the control plane: the adapter that is registered for *)
(* it, the ChannelSupervisor that probes and restarts it, and the            *)
(* ChannelReloader that replaces it when its configuration changes.          *)
(* Everything the supervisor keeps is keyed by channel type.                 *)
(*                                                                           *)
(* A probe, a recovery and a reload each take several steps, one up to each  *)
(* await.  They hold the adapter and the status object they began with,      *)
(* whatever has been registered since.                                       *)
(*****************************************************************************)
EXTENDS Naturals

CONSTANTS
  Adapters,               \* the adapter objects that may be created
  Probes, Recoveries,     \* bound: probes and recoveries in flight at one time
  Reloads,                \* the reloads that may be in flight at one time
  CircuitFailureThreshold,
  None

ASSUME SupervisorAssumption ==
  /\ CircuitFailureThreshold \in Nat \ {0}
  /\ None \notin Adapters

VARIABLES
  registered,  \* ChannelAdapterRegistry.adapters
  routed,      \* MessageRouter.adapters
  started,     \* the adapters whose "started" flag is set
  made,        \* the adapters created so far
  broken,      \* the started adapters whose connection is lost
  running,     \* ChannelSupervisor.running
  status,      \* ChannelSupervisor.statuses
  timer,       \* ChannelSupervisor.recoveryTimers
  probe, recovery, reload   \* what is in flight

net  == <<registered, routed, started, made, broken>>
sup  == <<running, status, timer>>
vars == <<net, sup, probe, recovery, reload>>

\* consecutiveFailures counts on; only whether it has reached the threshold is
\* ever asked.  cooled: circuitOpenUntil has passed.
Status == [state: {"healthy", "unhealthy", "recovering", "circuit_open"},
           failures: 0..CircuitFailureThreshold, cooled: BOOLEAN]

Healthy == [state |-> "healthy", failures |-> 0, cooled |-> FALSE]

Idle == [pc |-> "idle"]

\* own: the status object it holds is still the one in the map.
Probe    == [pc: {"checking"}, adapter: Adapters, own: BOOLEAN]
Recovery == [pc: {"stopping", "starting", "checking"}, adapter: Adapters, own: BOOLEAN]
\* wanted: an enabled configuration was read when the reload began.
Reload   == [pc: {"stopping", "stopped", "starting", "announcing"},
             adapter: Adapters, wanted: BOOLEAN]

\* The adapters of the configuration are registered before the supervisor
\* starts; there is none for a channel that is not configured.
Init ==
  /\ registered \in Adapters \cup {None}
  /\ routed = registered
  /\ started = {registered} \ {None}
  /\ made = started
  /\ broken = {}
  /\ running = TRUE
  /\ status = IF registered = None THEN None ELSE Healthy
  /\ timer = FALSE
  /\ probe = [x \in Probes |-> Idle]
  /\ recovery = [r \in Recoveries |-> Idle]
  /\ reload = [l \in Reloads |-> Idle]

-----------------------------------------------------------------------------
\* The status map.

ensureStatus == IF status = None THEN Healthy ELSE status

\* emit() reads all statuses, which makes one for a registered adapter.
Emitted(s, adapter) == IF s = None /\ adapter # None THEN Healthy ELSE s

\* Mutant: the circuit opens at the threshold, not from it on: a failure after the
\* cool-down counts past it.
FailedAtThreshold(s) ==
  IF s.failures + 1 = CircuitFailureThreshold
  THEN [state |-> "circuit_open", failures |-> CircuitFailureThreshold, cooled |-> FALSE]
  ELSE [state |-> "unhealthy", failures |-> s.failures + 1, cooled |-> FALSE]

Failed(s) ==
  IF s.failures + 1 >= CircuitFailureThreshold
  THEN [state |-> "circuit_open", failures |-> CircuitFailureThreshold, cooled |-> FALSE]
  ELSE [state |-> "unhealthy", failures |-> s.failures + 1, cooled |-> FALSE]

\* Mutant: opening the circuit leaves the recovery timer armed.
recordFailureKeepsTimer ==
  /\ status' = Failed(ensureStatus)
  /\ timer' = (timer \/ (running /\ Failed(ensureStatus).state # "circuit_open"))

\* Mutant: a failure below the threshold schedules nothing.
recordFailureOnly ==
  /\ status' = Failed(ensureStatus)
  /\ timer' = (timer /\ Failed(ensureStatus).state # "circuit_open")

\* Mutant: a recovery is scheduled after stop().
recordFailureWhenStopped ==
  /\ status' = Failed(ensureStatus)
  /\ timer' = (Failed(ensureStatus).state # "circuit_open")

\* An open circuit cancels the timer; below the threshold a recovery is
\* scheduled, unless one is or the supervisor was stopped.
recordFailure ==
  /\ status' = Failed(ensureStatus)
  /\ timer' = (Failed(ensureStatus).state # "circuit_open" /\ (timer \/ running))

\* getStatus, or a listener is subscribed.
Look ==
  /\ status' = Emitted(status, registered)
  /\ UNCHANGED <<net, running, timer, probe, recovery, reload>>

-----------------------------------------------------------------------------
\* Probes.

\* What healthCheck may answer: an adapter that is not started may still reach
\* its service, one that lost its connection does not.
healthCheck(a) ==
  CASE a \in broken                -> {FALSE}
    [] a \notin started \cup broken -> BOOLEAN
    [] OTHER                       -> {TRUE}

Resting(s) == s.state = "circuit_open" /\ ~s.cooled

\* probeAdapter, up to the health check.  While the circuit is open there is
\* none; after that the status is unhealthy until the answer comes.
StartProbe(x) ==
  LET s == ensureStatus IN
    /\ probe[x] = Idle /\ ~Resting(s)
    /\ status' = IF s.state = "circuit_open"
                 THEN [s EXCEPT !.state = "unhealthy", !.cooled = FALSE] ELSE s
    /\ probe' = [probe EXCEPT ![x] = [pc |-> "checking", adapter |-> registered, own |-> TRUE]]

\* Mutant: the probe cycle leaves an unhealthy channel to its recovery.
runProbeCycleSkipsUnhealthy(x) ==
  /\ running /\ registered # None
  /\ ensureStatus.state # "unhealthy"
  /\ StartProbe(x)
  /\ UNCHANGED <<net, running, timer, recovery, reload>>

runProbeCycle(x) ==
  /\ running /\ registered # None
  /\ StartProbe(x)
  /\ UNCHANGED <<net, running, timer, recovery, reload>>

ProbeEnds(x) ==
  /\ probe[x] # Idle
  /\ \E healthy \in healthCheck(probe[x].adapter) :
       \/ /\ healthy
          /\ status' = Emitted(IF probe[x].own THEN Healthy ELSE status, registered)
          /\ timer' = FALSE
       \/ ~healthy /\ recordFailure
  /\ probe' = [probe EXCEPT ![x] = Idle]
  /\ UNCHANGED <<net, running, recovery, reload>>

-----------------------------------------------------------------------------
\* Recoveries.

\* adapter.stop() has closed the connection, whether it was lost or not.
Stopped(a) == started' = started \ {a} /\ broken' = broken \ {a}

MayRecover == ensureStatus.state # "circuit_open" /\ registered # None

\* The timer fires: recoverAdapter, up to adapter.stop().  It returns at once after
\* stop(), which never happens: stop() clears the timers (StoppedIsQuiet).
TimerFires(r) ==
  /\ timer /\ running /\ recovery[r] = Idle
  /\ timer' = FALSE
  /\ \/ /\ MayRecover
        /\ status' = [ensureStatus EXCEPT !.state = "recovering"]
        /\ recovery' = [recovery EXCEPT ![r] =
                          [pc |-> "stopping", adapter |-> registered, own |-> TRUE]]
     \/ ~MayRecover /\ status' = ensureStatus /\ UNCHANGED recovery
  /\ UNCHANGED <<net, running, probe, reload>>

At(r, pc) == recovery[r].pc = pc

\* Mutant: an error in a recovery is swallowed.
RecoveryFailsSilently(r) ==
  /\ recovery[r].pc \in {"stopping", "starting"}
  /\ recovery' = [recovery EXCEPT ![r] = Idle]
  /\ UNCHANGED <<net, running, status, timer, probe, reload>>

\* adapter.stop() or adapter.start() throws.
RecoveryFails(r) ==
  /\ recovery[r].pc \in {"stopping", "starting"}
  /\ recordFailure
  /\ recovery' = [recovery EXCEPT ![r] = Idle]
  /\ UNCHANGED <<net, running, probe, reload>>

RecoveryStops(r) ==
  /\ At(r, "stopping")
  /\ Stopped(recovery[r].adapter)
  /\ recovery' = [recovery EXCEPT ![r].pc = "starting"]
  /\ UNCHANGED <<registered, routed, made, sup, probe, reload>>

\* start() connects, unless the adapter is started already.
RecoveryStarts(r) ==
  /\ At(r, "starting")
  /\ started' = started \cup {recovery[r].adapter}
  /\ recovery' = [recovery EXCEPT ![r].pc = "checking"]
  /\ UNCHANGED <<registered, routed, made, broken, sup, probe, reload>>

\* A success leaves the timer alone.
RecoveryEnds(r) ==
  /\ At(r, "checking")
  /\ \E healthy \in healthCheck(recovery[r].adapter) :
       \/ /\ healthy
          /\ status' = Emitted(IF recovery[r].own THEN Healthy ELSE status, registered)
          /\ UNCHANGED timer
       \/ ~healthy /\ recordFailure
  /\ recovery' = [recovery EXCEPT ![r] = Idle]
  /\ UNCHANGED <<net, running, probe, reload>>

-----------------------------------------------------------------------------
\* ChannelReloader.syncChannelType.

ReloadAt(l, pc) == reload[l].pc = pc
ReloadTo(l, pc) == reload' = [reload EXCEPT ![l].pc = pc]

\* A new adapter is made and registered, up to its start().
Register(l, a) ==
  /\ a \in Adapters \ made
  /\ made' = made \cup {a}
  /\ reload' = [reload EXCEPT ![l] = [pc |-> "starting", adapter |-> a, wanted |-> TRUE]]

\* Mutant: the router keeps the adapter that is being stopped.
ReloadKeepsRoute(l, wanted) ==
  /\ reload[l] = Idle
  /\ \/ /\ registered # None
        /\ reload' = [reload EXCEPT ![l] =
                        [pc |-> "stopping", adapter |-> registered, wanted |-> wanted]]
        /\ UNCHANGED made
     \/ registered = None /\ wanted /\ \E a \in Adapters : Register(l, a)
  /\ UNCHANGED <<registered, routed, started, broken, sup, probe, recovery>>

\* The configuration was read; an adapter that is there is taken out of the
\* router and stopped first.
ReloadBegins(l, wanted) ==
  /\ reload[l] = Idle
  /\ \/ /\ registered # None
        /\ routed' = None
        /\ reload' = [reload EXCEPT ![l] =
                        [pc |-> "stopping", adapter |-> registered, wanted |-> wanted]]
        /\ UNCHANGED made
     \/ /\ registered = None /\ wanted
        /\ \E a \in Adapters : Register(l, a)
        /\ UNCHANGED routed
  /\ UNCHANGED <<registered, started, broken, sup, probe, recovery>>

\* adapter.stop() or adapter.start() throws and the route answers with an error.
ReloadFails(l) ==
  /\ reload[l].pc \in {"stopping", "starting"}
  /\ reload' = [reload EXCEPT ![l] = Idle]
  /\ UNCHANGED <<net, sup, probe, recovery>>

\* registry.remove deletes by channel type.
ReloadStops(l) ==
  /\ ReloadAt(l, "stopping")
  /\ Stopped(reload[l].adapter)
  /\ registered' = None
  /\ ReloadTo(l, "stopped")
  /\ UNCHANGED <<routed, made, sup, probe, recovery>>

Disown(f) == [x \in DOMAIN f |-> IF f[x] = Idle THEN Idle ELSE [f[x] EXCEPT !.own = FALSE]]

\* supervisor.removeAdapter; then register, which throws if there is an adapter.
ReloadDiscards(l) ==
  /\ ReloadAt(l, "stopped")
  /\ timer' = FALSE
  /\ status' = Emitted(None, registered)
  /\ probe' = Disown(probe) /\ recovery' = Disown(recovery)
  /\ \/ /\ ~reload[l].wanted \/ registered # None
        /\ reload' = [reload EXCEPT ![l] = Idle]
        /\ UNCHANGED made
     \/ /\ reload[l].wanted /\ registered = None
        /\ \E a \in Adapters : Register(l, a)
  /\ UNCHANGED <<registered, routed, started, broken, running>>

ReloadStarts(l) ==
  /\ ReloadAt(l, "starting")
  /\ started' = started \cup {reload[l].adapter}
  /\ registered' = reload[l].adapter
  /\ ReloadTo(l, "announcing")
  /\ UNCHANGED <<routed, made, broken, sup, probe, recovery>>

\* router.addAdapter and supervisor.addAdapter, which probes at once.
ReloadAnnounces(l) ==
  /\ ReloadAt(l, "announcing")
  /\ routed' = reload[l].adapter
  /\ reload' = [reload EXCEPT ![l] = Idle]
  /\ \/ /\ running /\ registered # None
        /\ \E x \in Probes : StartProbe(x)
     \/ /\ ~running \/ registered = None \/ Resting(ensureStatus)
        /\ status' = Emitted(status, registered)
        /\ UNCHANGED probe
  /\ UNCHANGED <<registered, started, made, broken, running, timer, recovery>>

-----------------------------------------------------------------------------
\* The environment.

\* Mutant: stop() leaves the timers.
stopKeepsTimers ==
  /\ running /\ running' = FALSE
  /\ UNCHANGED <<net, status, timer, probe, recovery, reload>>

\* The application closes.
stop ==
  /\ running /\ running' = FALSE
  /\ timer' = FALSE
  /\ UNCHANGED <<net, status, probe, recovery, reload>>

CoolDown ==
  /\ status # None /\ Resting(status)
  /\ status' = [status EXCEPT !.cooled = TRUE]
  /\ UNCHANGED <<net, running, timer, probe, recovery, reload>>

\* A connection is lost; it may come back by itself.
Break(a) ==
  /\ a \in started /\ broken' = broken \cup {a}
  /\ UNCHANGED <<registered, routed, started, made, sup, probe, recovery, reload>>

Mend(a) ==
  /\ a \in broken /\ broken' = broken \ {a}
  /\ UNCHANGED <<registered, routed, started, made, sup, probe, recovery, reload>>

Recovering(r) == RecoveryFails(r) \/ RecoveryStops(r) \/ RecoveryStarts(r) \/ RecoveryEnds(r)

Reloading(l) ==
  ReloadFails(l) \/ ReloadStops(l) \/ ReloadDiscards(l) \/ ReloadStarts(l) \/ ReloadAnnounces(l)

Next ==
  \/ \E x \in Probes : runProbeCycle(x) \/ ProbeEnds(x)
  \/ \E r \in Recoveries : TimerFires(r) \/ Recovering(r)
  \/ \E l \in Reloads : Reloading(l) \/ \E wanted \in BOOLEAN : ReloadBegins(l, wanted)
  \/ \E a \in Adapters : Break(a) \/ Mend(a)
  \/ Look \/ stop \/ CoolDown

Spec == Init /\ [][Next]_vars

(*****************************************************************************)
(* Fairness: health checks, stops and starts of adapters settle, the probe   *)
(* interval and the recovery timer fire and time passes.  Nobody is assumed  *)
(* to change the configuration, and no connection to break or to mend.       *)
(*****************************************************************************)
FairSpec ==
  /\ Spec
  /\ WF_vars(\E x \in Probes : runProbeCycle(x))
  /\ \A x \in Probes : WF_vars(ProbeEnds(x))
  /\ WF_vars(\E r \in Recoveries : TimerFires(r))
  /\ \A r \in Recoveries : WF_vars(Recovering(r))
  /\ \A l \in Reloads : WF_vars(Reloading(l))
  /\ WF_vars(CoolDown)

-----------------------------------------------------------------------------
\* Types of the state.
TypeOK ==
  /\ {registered, routed} \subseteq Adapters \cup {None}
  /\ broken \subseteq started /\ started \subseteq made /\ made \subseteq Adapters
  /\ {running, timer} \subseteq BOOLEAN
  /\ status \in Status \cup {None}
  /\ probe \in [Probes -> Probe \cup {Idle}]
  /\ recovery \in [Recoveries -> Recovery \cup {Idle}]
  /\ reload \in [Reloads -> Reload \cup {Idle}]

\* While the circuit is open no recovery is scheduled, and it has not opened
\* before the threshold, whatever late answers of older probes and recoveries,
\* reloads and a stop came in between (recordFailure, cancelRecovery).
CircuitIsQuiet ==
  status # None /\ status.state = "circuit_open" =>
    ~timer /\ status.failures = CircuitFailureThreshold

\* A channel is shown as recovering only while a recovery that will say how it
\* ended is in flight; removing or replacing the adapter meanwhile leaves no
\* status behind that nothing corrects.
RecoveringIsReal ==
  status # None /\ status.state = "recovering" =>
    \E r \in Recoveries : recovery[r] # Idle /\ recovery[r].own

\* No recovery begins after the supervisor was stopped, though probes and
\* recoveries in flight still report failures.
StoppedIsQuiet == ~running => ~timer

\* A restart is scheduled only where one may come.
RestartsAreDue == CircuitIsQuiet /\ StoppedIsQuiet

\* Unless reloads overlap, messages are sent through no adapter but the registered
\* one, also when stopping or starting an adapter throws half-way (syncChannelType).
RoutedIsRegistered ==
  (\A k, l \in Reloads : k = l) => routed \in {None, registered}

Supervised == running /\ registered # None /\ status # None

\* A restart is scheduled for every channel that is unhealthy and below the
\* threshold, however probes and recoveries in flight end (recordFailure,
\* scheduleRecovery).  Only for the first adapter: after a reload, the success of a
\* probe of the old adapter cancels the restart of the new one.
RestartIsScheduled ==
  Supervised /\ made = {registered} /\ status.state = "unhealthy"
    /\ status.failures < CircuitFailureThreshold => timer

\* A channel does not stay unhealthy, also when its restart was cancelled by the
\* late answer of another adapter's probe: it is restarted, is seen to be healthy
\* again, or its circuit opens.
FailureIsAnswered ==
  Supervised /\ status.state = "unhealthy"
    ~> ~(Supervised /\ status.state = "unhealthy")

=============================================================================
