----------------------- MODULE ChannelSupervisorProofs -----------------------
(*****************************************************************************)
(* The safety of ChannelSupervisor for any number of adapters, probes,       *)
(* recoveries and reloads and any threshold.                                 *)
(*****************************************************************************)
EXTENDS ChannelSupervisor, TLAPS

USE SupervisorAssumption

\* Whatever operations hold has been made, which keeps started within made.
Known ==
  /\ registered \in made \cup {None}
  /\ \A r \in Recoveries : recovery[r] # Idle => recovery[r].adapter \in made
  /\ \A l \in Reloads : reload[l] # Idle => reload[l].adapter \in made

Typed == TypeOK /\ Known

-----------------------------------------------------------------------------
\* What the operators on the status return.

\* Statuses that are made or counted up are statuses.
LEMMA StatusTypes ==
  ASSUME status \in Status \cup {None}
  PROVE  /\ Healthy \in Status /\ ensureStatus \in Status
         /\ Failed(ensureStatus) \in Status
<1>1. CircuitFailureThreshold \in Nat \ {0}
  OBVIOUS
<1>2. Healthy \in Status /\ ensureStatus \in Status
  BY <1>1 DEF Status, Healthy, ensureStatus
<1>3. \A s \in Status : s.failures \in 0..CircuitFailureThreshold
  BY DEF Status
<1>4. ASSUME NEW n \in 0..CircuitFailureThreshold, ~ n + 1 >= CircuitFailureThreshold
      PROVE  n + 1 \in 0..CircuitFailureThreshold
  BY <1>1, <1>4
<1>5. \A s \in Status : Failed(s) \in Status
  BY <1>1, <1>3, <1>4 DEF Failed, Status
<1> QED
  BY <1>2, <1>5

\* emit() leaves a status or none.
LEMMA EmittedType ==
  ASSUME NEW s \in Status \cup {None}, NEW a
  PROVE  Emitted(s, a) \in Status \cup {None}
BY DEF Emitted, Healthy, Status

\* A failure leaves a status that is unhealthy or at the threshold.
LEMMA FailureCounts ==
  ASSUME status \in Status \cup {None}, recordFailure, timer \in BOOLEAN, running \in BOOLEAN
  PROVE  /\ status' \in Status /\ timer' \in BOOLEAN
         /\ status'.state \in {"unhealthy", "circuit_open"}
         /\ status'.state = "circuit_open" =>
              ~timer' /\ status'.failures = CircuitFailureThreshold
         /\ timer' => timer \/ running
BY StatusTypes DEF recordFailure, Failed

\* A probe that begins leaves a status that is not open.
LEMMA ProbeBegins ==
  ASSUME TypeOK, registered # None, NEW x \in Probes, StartProbe(x)
  PROVE  /\ status' \in Status /\ status'.state # "circuit_open"
         /\ probe' \in [Probes -> Probe \cup {Idle}]
         /\ status'.state = "recovering" => status # None /\ status.state = "recovering"
<1>1. ensureStatus \in Status
  BY StatusTypes DEF TypeOK
<1>2. status' \in Status /\ status'.state # "circuit_open"
  BY <1>1 DEF StartProbe, Status
<1>3. [pc |-> "checking", adapter |-> registered, own |-> TRUE] \in Probe
  BY DEF TypeOK, Probe
<1>4. probe' \in [Probes -> Probe \cup {Idle}]
  BY <1>3 DEF StartProbe, TypeOK
<1>5. status'.state = "recovering" => status # None /\ status.state = "recovering"
  BY <1>1 DEF StartProbe, Status, ensureStatus, Healthy
<1> QED
  BY <1>2, <1>4, <1>5

-----------------------------------------------------------------------------
\* Types, one lemma for each kind of operation.

\* Probes, looks, stop, cool-down and the connections keep the types.
LEMMA ProbesKeepTypes ==
  ASSUME Typed,
         \/ \E x \in Probes : runProbeCycle(x) \/ ProbeEnds(x)
         \/ \E a \in Adapters : Break(a) \/ Mend(a)
         \/ Look \/ stop \/ CoolDown
  PROVE  Typed'
<1> USE DEF Typed, Known
<1>1. CASE \E x \in Probes : runProbeCycle(x)
  BY <1>1, ProbeBegins DEF runProbeCycle, TypeOK, net
<1>2. ASSUME NEW x \in Probes, ProbeEnds(x) PROVE Typed'
  <2>a. ASSUME recordFailure
        PROVE  status' \in Status \cup {None} /\ timer' \in BOOLEAN
    BY <2>a, FailureCounts DEF TypeOK
  <2>b. ASSUME timer' = FALSE,
               status' = Emitted(IF probe[x].own THEN Healthy ELSE status, registered)
        PROVE  status' \in Status \cup {None} /\ timer' \in BOOLEAN
    BY <2>b, StatusTypes, EmittedType DEF TypeOK
  <2>1. status' \in Status \cup {None} /\ timer' \in BOOLEAN
    BY <1>2, <2>a, <2>b DEF ProbeEnds
  <2>2. probe' \in [Probes -> Probe \cup {Idle}]
    BY <1>2 DEF ProbeEnds, TypeOK
  <2> QED
    BY <1>2, <2>1, <2>2 DEF ProbeEnds, TypeOK, net
<1>3. CASE \E a \in Adapters : Break(a) \/ Mend(a)
  BY <1>3 DEF Break, Mend, TypeOK, sup
<1>4. CASE Look
  BY <1>4, EmittedType DEF Look, TypeOK, net
<1>5. CASE stop
  BY <1>5 DEF stop, TypeOK, net
<1>6. CASE CoolDown
  <2>1. status' \in Status
    BY <1>6 DEF CoolDown, TypeOK, Status
  <2> QED
    BY <1>6, <2>1 DEF CoolDown, TypeOK, net
<1> QED
  BY <1>1, <1>2, <1>3, <1>4, <1>5, <1>6

\* Recoveries keep the types: the adapter they start was made.
LEMMA RecoveriesKeepTypes ==
  ASSUME Typed, NEW r \in Recoveries, TimerFires(r) \/ Recovering(r)
  PROVE  Typed'
<1> USE DEF Typed, Known
<1>1. CASE TimerFires(r)
  <2>1. status' \in Status
    BY <1>1, StatusTypes DEF TimerFires, TypeOK, Status
  <2>a. ASSUME registered # None
        PROVE  [pc |-> "stopping", adapter |-> registered, own |-> TRUE] \in Recovery
    BY <2>a DEF TypeOK, Recovery
  <2>2. recovery' \in [Recoveries -> Recovery \cup {Idle}]
    BY <1>1, <2>a DEF TimerFires, MayRecover, TypeOK
  <2>3. \A q \in Recoveries : recovery'[q] # Idle => recovery'[q].adapter \in made
    BY <1>1 DEF TimerFires, MayRecover, TypeOK
  <2> QED
    BY <1>1, <2>1, <2>2, <2>3 DEF TimerFires, TypeOK, net
<1>2. CASE RecoveryFails(r)
  <2>1. status' \in Status /\ timer' \in BOOLEAN
    BY <1>2, FailureCounts DEF RecoveryFails, TypeOK
  <2> QED
    BY <1>2, <2>1 DEF RecoveryFails, TypeOK, net
<1>3. ASSUME recovery[r].pc # "idle" PROVE recovery[r] \in Recovery /\ recovery[r].adapter \in made
  BY <1>3 DEF TypeOK, Idle
<1>4. ASSUME NEW pc \in {"starting", "checking"}, recovery[r].pc # "idle",
             recovery' = [recovery EXCEPT ![r].pc = pc]
      PROVE  /\ recovery' \in [Recoveries -> Recovery \cup {Idle}]
             /\ \A q \in Recoveries : recovery'[q] # Idle => recovery'[q].adapter \in made
  <2>1. recovery'[r] \in Recovery /\ recovery'[r].adapter = recovery[r].adapter
    BY <1>3, <1>4 DEF Recovery, TypeOK
  <2> QED
    BY <1>3, <1>4, <2>1 DEF TypeOK
<1>5. CASE RecoveryStops(r)
  BY <1>3, <1>4, <1>5 DEF RecoveryStops, At, Stopped, TypeOK, sup
<1>6. CASE RecoveryStarts(r)
  BY <1>3, <1>4, <1>6 DEF RecoveryStarts, At, TypeOK, sup
<1>7. CASE RecoveryEnds(r)
  <2>a. ASSUME recordFailure
        PROVE  status' \in Status \cup {None} /\ timer' \in BOOLEAN
    BY <2>a, FailureCounts DEF TypeOK
  <2>b. ASSUME timer' = timer,
               status' = Emitted(IF recovery[r].own THEN Healthy ELSE status, registered)
        PROVE  status' \in Status \cup {None} /\ timer' \in BOOLEAN
    BY <2>b, StatusTypes, EmittedType DEF TypeOK
  <2>1. status' \in Status \cup {None} /\ timer' \in BOOLEAN
    BY <1>7, <2>a, <2>b DEF RecoveryEnds
  <2> QED
    BY <1>7, <2>1 DEF RecoveryEnds, TypeOK, net
<1> QED
  BY <1>1, <1>2, <1>5, <1>6, <1>7 DEF Recovering

\* An operation that was disowned is otherwise the same.
LEMMA DisownTypes ==
  ASSUME Typed
  PROVE  /\ Disown(probe) \in [Probes -> Probe \cup {Idle}]
         /\ Disown(recovery) \in [Recoveries -> Recovery \cup {Idle}]
         /\ \A r \in Recoveries : Disown(recovery)[r] # Idle =>
              /\ recovery[r] # Idle /\ Disown(recovery)[r].adapter \in made
              /\ ~Disown(recovery)[r].own
<1> USE DEF Typed, TypeOK, Known
<1>1. ASSUME NEW x \in Probes, probe[x] # Idle
      PROVE  [probe[x] EXCEPT !.own = FALSE] \in Probe
  BY <1>1 DEF Probe
<1>2. ASSUME NEW r \in Recoveries, recovery[r] # Idle
      PROVE  /\ [recovery[r] EXCEPT !.own = FALSE] \in Recovery
             /\ [recovery[r] EXCEPT !.own = FALSE].adapter = recovery[r].adapter
             /\ ~[recovery[r] EXCEPT !.own = FALSE].own
  BY <1>2 DEF Recovery
<1>3. DOMAIN probe = Probes /\ DOMAIN recovery = Recoveries
  OBVIOUS
<1>4. Disown(probe) \in [Probes -> Probe \cup {Idle}]
  BY <1>1, <1>3 DEF Disown
<1>5. Disown(recovery) \in [Recoveries -> Recovery \cup {Idle}]
  BY <1>2, <1>3 DEF Disown
<1>6. ASSUME NEW r \in Recoveries, Disown(recovery)[r] # Idle
      PROVE  /\ recovery[r] # Idle /\ Disown(recovery)[r].adapter \in made
             /\ ~Disown(recovery)[r].own
  BY <1>2, <1>3, <1>6 DEF Disown
<1> QED
  BY <1>4, <1>5, <1>6

\* Reloads keep the types: what they register they have made.
LEMMA ReloadsKeepTypes ==
  ASSUME Typed, NEW l \in Reloads,
         Reloading(l) \/ \E wanted \in BOOLEAN : ReloadBegins(l, wanted)
  PROVE  Typed'
<1> USE DEF Typed, Known
<1>1. ASSUME reload[l].pc # "idle" PROVE reload[l] \in Reload /\ reload[l].adapter \in made
  BY <1>1 DEF TypeOK, Idle
<1> DEFINE ReloadTyped ==
             /\ reload' \in [Reloads -> Reload \cup {Idle}]
             /\ \A k \in Reloads : reload'[k] # Idle => reload'[k].adapter \in made'
<1>2. ASSUME made' = made, reload' = [reload EXCEPT ![l] = Idle] PROVE ReloadTyped
  BY <1>2 DEF TypeOK
<1>3. ASSUME NEW pc \in {"stopped", "announcing"}, made' = made, reload[l].pc # "idle",
             reload' = [reload EXCEPT ![l].pc = pc]
      PROVE  ReloadTyped
  <2>1. reload'[l] \in Reload /\ reload'[l].adapter = reload[l].adapter
    BY <1>1, <1>3 DEF Reload, TypeOK
  <2> QED
    BY <1>1, <1>3, <2>1 DEF TypeOK
<1>4. ASSUME NEW a \in Adapters, Register(l, a)
      PROVE  ReloadTyped /\ made \subseteq made' /\ made' \subseteq Adapters
  <2>1. [pc |-> "starting", adapter |-> a, wanted |-> TRUE] \in Reload
    BY DEF Reload
  <2> QED
    BY <1>4, <2>1 DEF Register, TypeOK
<1>5. ASSUME NEW wanted \in BOOLEAN, ReloadBegins(l, wanted) PROVE Typed'
  <2>1. CASE registered # None
    <3>1. [pc |-> "stopping", adapter |-> registered, wanted |-> wanted] \in Reload
      BY <2>1 DEF TypeOK, Reload
    <3> QED
      BY <1>5, <2>1, <3>1 DEF ReloadBegins, TypeOK, sup
  <2>2. CASE registered = None
    BY <1>4, <1>5, <2>2 DEF ReloadBegins, TypeOK, sup
  <2> QED
    BY <2>1, <2>2
<1>6. CASE ReloadFails(l)
  BY <1>2, <1>6 DEF ReloadFails, TypeOK, net, sup
<1>7. CASE ReloadStops(l)
  <2>1. ReloadTyped
    BY <1>3, <1>7 DEF ReloadStops, ReloadAt, ReloadTo
  <2> QED
    BY <1>7, <2>1 DEF ReloadStops, Stopped, TypeOK, sup
<1>8. CASE ReloadDiscards(l)
  <2>1. ReloadTyped /\ made \subseteq made' /\ made' \subseteq Adapters
    BY <1>2, <1>4, <1>8 DEF ReloadDiscards, TypeOK
  <2>2. status' \in Status \cup {None}
    BY <1>8, EmittedType DEF ReloadDiscards
  <2> QED
    BY <1>8, <2>1, <2>2, DisownTypes DEF ReloadDiscards, TypeOK
<1>9. CASE ReloadStarts(l)
  <2>1. ReloadTyped
    BY <1>3, <1>9 DEF ReloadStarts, ReloadAt, ReloadTo
  <2> QED
    BY <1>1, <1>9, <2>1 DEF ReloadStarts, ReloadAt, TypeOK, sup
<1>10. CASE ReloadAnnounces(l)
  <2>1. ReloadTyped
    BY <1>2, <1>10 DEF ReloadAnnounces
  <2>2. status' \in Status \cup {None} /\ probe' \in [Probes -> Probe \cup {Idle}]
    <3>1. CASE registered # None /\ \E x \in Probes : StartProbe(x)
      BY <3>1, ProbeBegins
    <3>2. CASE status' = Emitted(status, registered) /\ probe' = probe
      BY <3>2, EmittedType DEF TypeOK
    <3> QED
      BY <1>10, <3>1, <3>2 DEF ReloadAnnounces
  <2>3. reload[l].adapter \in made
    BY <1>1, <1>10 DEF ReloadAnnounces, ReloadAt
  <2> QED
    BY <1>10, <2>1, <2>2, <2>3 DEF ReloadAnnounces, TypeOK
<1> QED
  BY <1>5, <1>6, <1>7, <1>8, <1>9, <1>10 DEF Reloading

\* The initial states are well typed.
LEMMA InitTyped == Init => Typed
<1> SUFFICES ASSUME Init PROVE Typed
  OBVIOUS
<1>1. status \in Status \cup {None}
  BY DEF Init, Status, Healthy
<1>2. /\ probe \in [Probes -> Probe \cup {Idle}]
      /\ recovery \in [Recoveries -> Recovery \cup {Idle}]
      /\ reload \in [Reloads -> Reload \cup {Idle}]
  BY DEF Init
<1>3. started \subseteq made /\ made \subseteq Adapters /\ registered \in made \cup {None}
  BY DEF Init
<1> QED
  BY <1>1, <1>2, <1>3 DEF Init, Typed, TypeOK, Known

\* Every step keeps the types.
LEMMA StepTyped == Typed /\ [Next]_vars => Typed'
<1> SUFFICES ASSUME Typed, [Next]_vars PROVE Typed'
  OBVIOUS
<1>1. CASE UNCHANGED vars
  BY <1>1 DEF Typed, TypeOK, Known, vars, net, sup
<1>2. CASE Next
  BY <1>2, ProbesKeepTypes, RecoveriesKeepTypes, ReloadsKeepTypes DEF Next
<1> QED
  BY <1>1, <1>2

\* TypeOK holds in every reachable state: whatever overlaps, the supervisor's status,
\* the registry and the operations in flight stay well formed, only adapters that
\* were made are started, and no failure counts past the threshold.
THEOREM TypesHold == Spec => []TypeOK
<1>1. Typed => TypeOK
  BY DEF Typed
<1> QED
  BY <1>1, InitTyped, StepTyped, PTL DEF Spec

-----------------------------------------------------------------------------
\* The supervisor's promises.  Each step lemma looks at the few actions that write the
\* status, the timer or the recoveries; all others leave what the promise reads.

\* A status that emit() made is healthy.
LEMMA EmittedIsOld ==
  ASSUME NEW s, NEW a
  PROVE  Emitted(s, a) = s \/ Emitted(s, a) = Healthy
BY DEF Emitted

\* What a late success writes is healthy or was there before.
LEMMA SuccessIsOldOrHealthy ==
  ASSUME NEW own, NEW a, status' = Emitted(IF own THEN Healthy ELSE status, a)
  PROVE  status' = status \/ status' = Healthy
BY EmittedIsOld

\* No step opens a circuit with a timer armed, nor arms a timer after stop().
LEMMA StepQuiet == Typed /\ RestartsAreDue /\ [Next]_vars => RestartsAreDue'
<1> SUFFICES ASSUME Typed, RestartsAreDue, [Next]_vars PROVE RestartsAreDue'
  OBVIOUS
<1> USE DEF RestartsAreDue, CircuitIsQuiet, StoppedIsQuiet
<1>1. Healthy.state = "healthy"
  BY DEF Healthy
<1>2. TypeOK /\ status \in Status \cup {None} /\ timer \in BOOLEAN /\ running \in BOOLEAN
  BY DEF Typed, TypeOK
<1>3. ASSUME recordFailure, running' = running PROVE RestartsAreDue'
  BY <1>2, <1>3, FailureCounts
<1>4. ASSUME status' = status \/ status' = Healthy, timer' => timer, running' = running
      PROVE  RestartsAreDue'
  BY <1>1, <1>4
<1>5. ASSUME registered # None, NEW x \in Probes, StartProbe(x), timer' = timer, running' = running
      PROVE  RestartsAreDue'
  BY <1>2, <1>5, ProbeBegins
<1>6. ASSUME NEW x \in Probes, runProbeCycle(x) \/ ProbeEnds(x) PROVE RestartsAreDue'
  <2>1. CASE runProbeCycle(x)
    BY <1>5, <2>1 DEF runProbeCycle
  <2>2. CASE ProbeEnds(x)
    BY <1>3, <1>4, <2>2, SuccessIsOldOrHealthy DEF ProbeEnds
  <2> QED
    BY <1>6, <2>1, <2>2
<1>7. ASSUME NEW r \in Recoveries, TimerFires(r) \/ Recovering(r) PROVE RestartsAreDue'
  <2>1. CASE TimerFires(r)
    <3>1. ensureStatus \in Status /\ (ensureStatus = status \/ ensureStatus = Healthy)
      BY <1>2, StatusTypes DEF ensureStatus
    <3>2. CASE status' = [ensureStatus EXCEPT !.state = "recovering"]
      BY <2>1, <3>1, <3>2 DEF TimerFires, Status
    <3>3. CASE status' = ensureStatus
      BY <1>4, <2>1, <3>1, <3>3 DEF TimerFires
    <3> QED
      BY <2>1, <3>2, <3>3 DEF TimerFires
  <2>2. CASE RecoveryFails(r)
    BY <1>3, <2>2 DEF RecoveryFails
  <2>3. CASE RecoveryStops(r) \/ RecoveryStarts(r)
    BY <1>4, <2>3 DEF RecoveryStops, RecoveryStarts, sup
  <2>4. CASE RecoveryEnds(r)
    BY <1>3, <1>4, <2>4, SuccessIsOldOrHealthy DEF RecoveryEnds
  <2> QED
    BY <1>7, <2>1, <2>2, <2>3, <2>4 DEF Recovering
<1>8. ASSUME NEW l \in Reloads, Reloading(l) \/ \E wanted \in BOOLEAN : ReloadBegins(l, wanted)
      PROVE  RestartsAreDue'
  <2>1. CASE \E wanted \in BOOLEAN : ReloadBegins(l, wanted)
    BY <1>4, <2>1 DEF ReloadBegins, sup
  <2>2. CASE ReloadFails(l) \/ ReloadStops(l) \/ ReloadStarts(l)
    BY <1>4, <2>2 DEF ReloadFails, ReloadStops, ReloadStarts, sup
  <2>3. CASE ReloadDiscards(l)
    BY <1>1, <2>3 DEF ReloadDiscards, Emitted
  <2>4. CASE ReloadAnnounces(l)
    BY <1>4, <1>5, <2>4, EmittedIsOld DEF ReloadAnnounces
  <2> QED
    BY <1>8, <2>1, <2>2, <2>3, <2>4 DEF Reloading
<1>9. CASE Look
  BY <1>4, <1>9, EmittedIsOld DEF Look
<1>10. CASE stop
  BY <1>10 DEF stop
<1>11. CASE CoolDown
  BY <1>2, <1>11 DEF CoolDown, Status
<1>12. CASE UNCHANGED vars \/ \E a \in Adapters : Break(a) \/ Mend(a)
  BY <1>4, <1>12 DEF vars, sup, Break, Mend
<1> QED
  BY <1>6, <1>7, <1>8, <1>9, <1>10, <1>11, <1>12 DEF Next

\* While the circuit is open no restart is scheduled, and it opened at the threshold; after
\* stop() none is scheduled, whatever probes and recoveries report later.
THEOREM RestartsStayDue == Spec => []RestartsAreDue
<1>1. Init => RestartsAreDue
  BY DEF Init, RestartsAreDue, CircuitIsQuiet, StoppedIsQuiet, Healthy
<1> QED
  BY <1>1, InitTyped, StepTyped, StepQuiet, PTL DEF Spec

-----------------------------------------------------------------------------
\* Routes.

\* A reload takes the old adapter out of the router before anything else, and puts the new one
\* in after it was registered.
Routes ==
  (\A k, l \in Reloads : k = l) =>
    /\ routed \in {None, registered}
    /\ \A l \in Reloads :
         /\ reload[l].pc \in {"stopping", "stopped", "starting"} => routed = None
         /\ ReloadAt(l, "announcing") => registered = reload[l].adapter

\* Only a reload writes the registry, the router or a reload.
LEMMA StepRoutes == Typed /\ Routes /\ [Next]_vars => Routes'
<1> SUFFICES ASSUME Typed, Routes, [Next]_vars, \A k, l \in Reloads : k = l
             PROVE  /\ routed' \in {None, registered'}
                    /\ \A l \in Reloads :
                         /\ reload'[l].pc \in {"stopping", "stopped", "starting"} => routed' = None
                         /\ reload'[l].pc = "announcing" => registered' = reload'[l].adapter
  BY DEF Routes, ReloadAt
<1> USE DEF ReloadAt, Idle
<1>0. /\ routed \in {None, registered}
      /\ \A l \in Reloads :
           /\ reload[l].pc \in {"stopping", "stopped", "starting"} => routed = None
           /\ reload[l].pc = "announcing" => registered = reload[l].adapter
  BY DEF Routes
<1>1. CASE UNCHANGED <<registered, routed, reload>>
  BY <1>0, <1>1
<1>2. ASSUME NEW l \in Reloads, Reloading(l) \/ \E wanted \in BOOLEAN : ReloadBegins(l, wanted)
      PROVE  /\ routed' \in {None, registered'}
             /\ reload'[l].pc \in {"stopping", "stopped", "starting"} => routed' = None
             /\ reload'[l].pc = "announcing" => registered' = reload'[l].adapter
  <2>0. l \in DOMAIN reload
    BY DEF Typed, TypeOK
  <2>a. ASSUME NEW pc, reload[l] # Idle, ReloadTo(l, pc)
        PROVE  reload'[l].pc = pc /\ reload'[l].adapter = reload[l].adapter
    <3>1. reload[l] \in Reload
      BY <2>a DEF Typed, TypeOK
    <3>2. reload'[l] = [reload[l] EXCEPT !.pc = pc]
      BY <2>0, <2>a DEF ReloadTo
    <3> QED
      BY <3>1, <3>2 DEF Reload
  <2>1. CASE \E wanted \in BOOLEAN : ReloadBegins(l, wanted)
    BY <1>0, <2>0, <2>1 DEF ReloadBegins, Register
  <2>2. CASE ReloadFails(l)
    BY <1>0, <2>0, <2>2 DEF ReloadFails, net
  <2>3. CASE ReloadStops(l)
    BY <1>0, <2>3, <2>a DEF ReloadStops
  <2>4. CASE ReloadDiscards(l)
    BY <1>0, <2>0, <2>4 DEF ReloadDiscards, Register
  <2>5. CASE ReloadStarts(l)
    BY <1>0, <2>5, <2>a DEF ReloadStarts
  <2>6. CASE ReloadAnnounces(l)
    BY <1>0, <2>0, <2>6 DEF ReloadAnnounces
  <2> QED
    BY <1>2, <2>1, <2>2, <2>3, <2>4, <2>5, <2>6 DEF Reloading
<1>3. ASSUME NEW r \in Recoveries, TimerFires(r) \/ Recovering(r)
      PROVE  UNCHANGED <<registered, routed, reload>>
  BY <1>3 DEF TimerFires, Recovering, RecoveryFails, RecoveryStops, RecoveryStarts, RecoveryEnds, net
<1>4. ASSUME NEW x \in Probes, runProbeCycle(x) \/ ProbeEnds(x)
      PROVE  UNCHANGED <<registered, routed, reload>>
  BY <1>4 DEF runProbeCycle, ProbeEnds, net
<1>5. ASSUME Look \/ stop \/ CoolDown \/ UNCHANGED vars \/ \E a \in Adapters : Break(a) \/ Mend(a)
      PROVE  UNCHANGED <<registered, routed, reload>>
  BY <1>5 DEF Look, stop, CoolDown, Break, Mend, vars, net
<1> QED
  BY <1>1, <1>2, <1>3, <1>4, <1>5 DEF Next

\* Unless reloads overlap, messages are sent through the registered adapter or through none.
THEOREM RoutesAreRegistered == Spec => []RoutedIsRegistered
<1>1. Init => Routes
  BY DEF Init, Routes, ReloadAt, Idle
<1>2. Routes => RoutedIsRegistered
  BY DEF Routes, RoutedIsRegistered
<1> QED
  BY <1>1, <1>2, InitTyped, StepTyped, StepRoutes, PTL DEF Spec

-----------------------------------------------------------------------------
\* Recoveries that are shown.

\* A status that a step makes recovering, or leaves so, has its recovery.
LEMMA StepReal == Typed /\ RecoveringIsReal /\ [Next]_vars => RecoveringIsReal'
<1> SUFFICES ASSUME Typed, RecoveringIsReal, [Next]_vars PROVE RecoveringIsReal'
  OBVIOUS
<1> USE DEF RecoveringIsReal
<1>1. Healthy.state = "healthy"
  BY DEF Healthy
<1>2. TypeOK /\ status \in Status \cup {None} /\ timer \in BOOLEAN /\ running \in BOOLEAN
  BY DEF Typed, TypeOK
<1>3. CASE recordFailure
  BY <1>2, <1>3, FailureCounts
<1>4. CASE recovery' = recovery /\ (status' = status \/ status' = Healthy)
  BY <1>1, <1>4
<1>5. ASSUME registered # None, NEW x \in Probes, StartProbe(x), recovery' = recovery
      PROVE  RecoveringIsReal'
  BY <1>2, <1>5, ProbeBegins
<1>6. ASSUME NEW x \in Probes, runProbeCycle(x) \/ ProbeEnds(x) PROVE RecoveringIsReal'
  <2>1. CASE runProbeCycle(x)
    BY <1>5, <2>1 DEF runProbeCycle
  <2>2. CASE ProbeEnds(x)
    BY <1>3, <1>4, <2>2, SuccessIsOldOrHealthy DEF ProbeEnds
  <2> QED
    BY <1>6, <2>1, <2>2
<1>7. ASSUME NEW r \in Recoveries, TimerFires(r) \/ Recovering(r) PROVE RecoveringIsReal'
  <2>1. recovery \in [Recoveries -> Recovery \cup {Idle}]
    BY <1>2 DEF TypeOK
  <2>2. CASE TimerFires(r)
    <3>1. ensureStatus = status \/ ensureStatus = Healthy
      BY DEF ensureStatus
    <3>2. CASE recovery' = [recovery EXCEPT ![r] =
                              [pc |-> "stopping", adapter |-> registered, own |-> TRUE]]
      BY <2>1, <3>2 DEF Idle
    <3>3. CASE status' = ensureStatus /\ recovery' = recovery
      BY <1>4, <3>1, <3>3
    <3> QED
      BY <2>2, <3>2, <3>3 DEF TimerFires
  <2>3. CASE RecoveryFails(r)
    BY <1>3, <2>3 DEF RecoveryFails
  <2>4. CASE RecoveryStops(r) \/ RecoveryStarts(r)
    <3>1. recovery[r] \in Recovery
      BY <2>1, <2>4 DEF RecoveryStops, RecoveryStarts, At, Idle
    <3>2. PICK pc \in {"starting", "checking"} : recovery' = [recovery EXCEPT ![r].pc = pc]
      BY <2>4 DEF RecoveryStops, RecoveryStarts
    <3>3. recovery'[r].own = recovery[r].own /\ recovery'[r].pc # "idle"
      BY <2>1, <3>1, <3>2 DEF Recovery
    <3>4. \A q \in Recoveries : recovery[q] # Idle /\ recovery[q].own =>
                                recovery'[q] # Idle /\ recovery'[q].own
      BY <2>1, <3>2, <3>3 DEF Idle
    <3>5. status' = status
      BY <2>4 DEF RecoveryStops, RecoveryStarts, sup
    <3> QED
      BY <3>4, <3>5
  <2>5. CASE RecoveryEnds(r)
    <3>1. CASE status' = Emitted(Healthy, registered)
      BY <1>1, <3>1, EmittedIsOld
    <3>2. CASE ~recovery[r].own /\ status' = Emitted(status, registered)
      <4>1. \A q \in Recoveries : recovery[q] # Idle /\ recovery[q].own =>
                                  recovery'[q] = recovery[q]
        BY <2>1, <2>5, <3>2 DEF RecoveryEnds
      <4> QED
        BY <1>1, <3>2, <4>1, EmittedIsOld
    <3> QED
      BY <1>3, <2>5, <3>1, <3>2 DEF RecoveryEnds
  <2> QED
    BY <1>7, <2>2, <2>3, <2>4, <2>5 DEF Recovering
<1>8. ASSUME NEW l \in Reloads, Reloading(l) \/ \E wanted \in BOOLEAN : ReloadBegins(l, wanted)
      PROVE  RecoveringIsReal'
  <2>1. CASE \E wanted \in BOOLEAN : ReloadBegins(l, wanted)
    BY <1>4, <2>1 DEF ReloadBegins, sup
  <2>2. CASE ReloadFails(l) \/ ReloadStops(l) \/ ReloadStarts(l)
    BY <1>4, <2>2 DEF ReloadFails, ReloadStops, ReloadStarts, sup
  <2>3. CASE ReloadDiscards(l)
    BY <1>1, <2>3 DEF ReloadDiscards, Emitted
  <2>4. CASE ReloadAnnounces(l)
    BY <1>4, <1>5, <2>4, EmittedIsOld DEF ReloadAnnounces
  <2> QED
    BY <1>8, <2>1, <2>2, <2>3, <2>4 DEF Reloading
<1>9. CASE Look
  BY <1>4, <1>9, EmittedIsOld DEF Look
<1>10. CASE stop
  BY <1>4, <1>10 DEF stop
<1>11. CASE CoolDown
  <2>1. status'.state = status.state
    BY <1>2, <1>11 DEF CoolDown, Status
  <2> QED
    BY <1>11, <2>1 DEF CoolDown
<1>12. CASE UNCHANGED vars \/ \E a \in Adapters : Break(a) \/ Mend(a)
  BY <1>4, <1>12 DEF vars, sup, Break, Mend
<1> QED
  BY <1>6, <1>7, <1>8, <1>9, <1>10, <1>11, <1>12 DEF Next

\* A channel shown as recovering has a recovery in flight that will say how it ended.
THEOREM RecoveriesAreReal == Spec => []RecoveringIsReal
<1>1. Init => RecoveringIsReal
  BY DEF Init, RecoveringIsReal, Healthy
<1> QED
  BY <1>1, InitTyped, StepTyped, StepReal, PTL DEF Spec

-----------------------------------------------------------------------------
(*****************************************************************************)
(* RestartIsScheduled speaks of the first adapter only, and is not inductive *)
(* by itself: it has to be known that the first adapter met a supervisor on  *)
(* which nothing had been done, so that no probe in flight is of an adapter  *)
(* before it.                                                                *)
(*****************************************************************************)

Untouched ==
  /\ registered = None /\ status = None /\ ~timer
  /\ \A x \in Probes : probe[x] = Idle
  /\ \A r \in Recoveries : recovery[r] = Idle

First(l) == made = {reload[l].adapter}

FirstIsAlone ==
  /\ made = {} => Untouched /\ \A l \in Reloads : reload[l] = Idle
  /\ \A l \in Reloads :
       /\ ReloadAt(l, "starting") /\ First(l) =>
            Untouched /\ \A k \in Reloads \ {l} : reload[k] = Idle
       /\ ReloadAt(l, "stopped") /\ First(l) => registered = None
  /\ made = {registered} => \A x \in Probes : probe[x] # Idle => probe[x].own

\* Nothing happens to a supervisor that has nothing to do.
LEMMA AloneFrame ==
  ASSUME FirstIsAlone, UNCHANGED <<registered, made, reload>>, Untouched => Untouched',
         made = {registered} => \A x \in Probes : probe'[x] # Idle => probe'[x].own
  PROVE  FirstIsAlone'
BY DEF FirstIsAlone, First, ReloadAt

\* A probe that begins is its adapter's own.
LEMMA ProbesAreOwn ==
  ASSUME TypeOK, NEW x \in Probes, StartProbe(x), NEW y \in Probes,
         probe[y] # Idle => probe[y].own
  PROVE  probe'[y] # Idle => probe'[y].own
<1>1. CASE y = x
  BY <1>1 DEF StartProbe, TypeOK
<1>2. CASE y # x
  BY <1>2 DEF StartProbe, TypeOK
<1> QED
  BY <1>1, <1>2

LEMMA SupervisionKeepsAlone ==
  ASSUME Typed, FirstIsAlone,
         \/ \E x \in Probes : runProbeCycle(x) \/ ProbeEnds(x)
         \/ \E r \in Recoveries : TimerFires(r) \/ Recovering(r)
         \/ \E a \in Adapters : Break(a) \/ Mend(a)
         \/ Look \/ stop \/ CoolDown \/ UNCHANGED vars
  PROVE  FirstIsAlone'
<1>a. made = {registered} => \A x \in Probes : probe[x] # Idle => probe[x].own
  BY DEF FirstIsAlone
<1>b. ASSUME UNCHANGED <<registered, made, reload, probe>>, Untouched => Untouched'
      PROVE  FirstIsAlone'
  BY <1>a, <1>b, AloneFrame
<1>1. ASSUME NEW x \in Probes, runProbeCycle(x) PROVE FirstIsAlone'
  <2>1. UNCHANGED <<registered, made, reload>> /\ ~Untouched
    BY <1>1 DEF runProbeCycle, net, Untouched
  <2>2. made = {registered} => \A y \in Probes : probe'[y] # Idle => probe'[y].own
    BY <1>a, <1>1, ProbesAreOwn DEF runProbeCycle, Typed
  <2> QED
    BY <2>1, <2>2, AloneFrame
<1>2. ASSUME NEW x \in Probes, ProbeEnds(x) PROVE FirstIsAlone'
  <2>1. UNCHANGED <<registered, made, reload>> /\ ~Untouched
    BY <1>2 DEF ProbeEnds, net, Untouched
  <2>2. \A y \in Probes : probe'[y] # Idle => probe'[y] = probe[y]
    BY <1>2 DEF ProbeEnds, Typed, TypeOK
  <2> QED
    BY <1>a, <2>1, <2>2, AloneFrame
<1>3. ASSUME NEW r \in Recoveries, TimerFires(r) PROVE FirstIsAlone'
  BY <1>3, <1>b DEF TimerFires, net, Untouched
<1>4. ASSUME NEW r \in Recoveries, Recovering(r) PROVE FirstIsAlone'
  <2>1. recovery[r] # Idle
    BY <1>4 DEF Recovering, RecoveryFails, RecoveryStops, RecoveryStarts, RecoveryEnds, At, Idle
  <2>2. UNCHANGED <<registered, made, reload, probe>>
    BY <1>4 DEF Recovering, RecoveryFails, RecoveryStops, RecoveryStarts, RecoveryEnds, net
  <2> QED
    BY <1>b, <2>1, <2>2 DEF Untouched
<1>5. CASE \E a \in Adapters : Break(a) \/ Mend(a)
  BY <1>5, <1>b DEF Break, Mend, sup, Untouched
<1>6. CASE Look
  BY <1>6, <1>b DEF Look, net, Untouched, Emitted
<1>7. CASE stop \/ CoolDown
  BY <1>7, <1>b DEF stop, CoolDown, net, Untouched
<1>8. CASE UNCHANGED vars
  BY <1>8, <1>b DEF vars, net, sup, Untouched
<1> QED
  BY <1>1, <1>2, <1>3, <1>4, <1>5, <1>6, <1>7, <1>8

\* An adapter that is registered while another was made before is not the first.
LEMMA RegisterIsSecond ==
  ASSUME Typed, NEW l \in Reloads, NEW a \in Adapters, Register(l, a), registered = None,
         made # {}, UNCHANGED registered
  PROVE  FirstIsAlone' /\ made' # {registered'}
<1>1. PICK b \in made : b # a
  BY DEF Register
<1>2. a \in made' /\ b \in made' /\ None \notin made'
  BY <1>1 DEF Register, Typed, TypeOK
<1> QED
  BY <1>1, <1>2 DEF FirstIsAlone, First

LEMMA ReloadsKeepAlone ==
  ASSUME Typed, FirstIsAlone, NEW l \in Reloads,
         Reloading(l) \/ \E wanted \in BOOLEAN : ReloadBegins(l, wanted)
  PROVE  FirstIsAlone'
<1>a. None \notin made /\ reload \in [Reloads -> Reload \cup {Idle}]
  BY DEF Typed, TypeOK
<1>b. ASSUME reload[l] # Idle
      PROVE  /\ made # {} /\ reload[l].adapter \in made
             /\ \A k \in Reloads \ {l} : ~(ReloadAt(k, "starting") /\ First(k))
  BY <1>b DEF FirstIsAlone, Typed, Known
<1>1. ASSUME NEW wanted \in BOOLEAN, ReloadBegins(l, wanted) PROVE FirstIsAlone'
  <2>1. CASE registered # None
    <3>1. ~Untouched
      BY <2>1 DEF Untouched
    <3>2. /\ UNCHANGED <<registered, made, probe>> /\ reload'[l].pc = "stopping"
          /\ \A k \in Reloads \ {l} : reload'[k] = reload[k]
      BY <1>a, <1>1, <2>1 DEF ReloadBegins
    <3> QED
      BY <3>1, <3>2 DEF FirstIsAlone, First, ReloadAt
  <2>2. CASE registered = None /\ made # {}
    BY <1>1, <2>2, RegisterIsSecond DEF ReloadBegins
  <2>3. CASE registered = None /\ made = {}
    <3>1. Untouched /\ \A k \in Reloads : reload[k] = Idle
      BY <2>3 DEF FirstIsAlone
    <3>2. PICK a \in Adapters : Register(l, a)
      BY <1>1, <2>3 DEF ReloadBegins
    <3>3. /\ made' = {a} /\ a # None /\ reload'[l].pc = "starting"
          /\ \A k \in Reloads \ {l} : reload'[k] = Idle
      BY <1>a, <2>3, <3>1, <3>2 DEF Register
    <3>4. Untouched' /\ UNCHANGED registered
      BY <1>1, <3>1 DEF ReloadBegins, sup, Untouched
    <3> QED
      BY <2>3, <3>3, <3>4 DEF FirstIsAlone, First, ReloadAt, Idle
  <2> QED
    BY <2>1, <2>2, <2>3
<1>2. CASE ReloadFails(l)
  <2>1. UNCHANGED <<registered, made, probe>> /\ (Untouched => Untouched')
    BY <1>2 DEF ReloadFails, net, sup, Untouched
  <2>2. reload'[l] = Idle /\ \A k \in Reloads \ {l} : reload'[k] = reload[k]
    BY <1>a, <1>2 DEF ReloadFails
  <2> QED
    BY <2>1, <2>2 DEF FirstIsAlone, First, ReloadAt, Idle
<1>3. CASE ReloadStops(l)
  <2>1. reload[l] \in Reload
    BY <1>a, <1>3 DEF ReloadStops, ReloadAt, Idle
  <2>2. /\ UNCHANGED made /\ registered' = None
        /\ \A k \in Reloads \ {l} : reload'[k] = reload[k]
    BY <1>a, <1>3 DEF ReloadStops, ReloadTo
  <2>3. reload'[l].pc = "stopped"
    BY <1>a, <1>3, <2>1 DEF ReloadStops, ReloadTo, Reload
  <2> QED
    BY <1>a, <1>b, <1>3, <2>2, <2>3 DEF ReloadStops, FirstIsAlone, First, ReloadAt, Idle
<1>4. CASE ReloadDiscards(l)
  <2>1. made # {} /\ made # {registered}
    <3>1. made # {} /\ reload[l].adapter \in made
      BY <1>4, <1>b DEF ReloadDiscards, ReloadAt, Idle
    <3>2. CASE made = {registered}
      <4>1. First(l)
        BY <3>1, <3>2 DEF First
      <4> QED
        BY <1>a, <1>4, <3>2, <4>1 DEF ReloadDiscards, FirstIsAlone
    <3> QED
      BY <3>1, <3>2
  <2>2. CASE registered = None /\ \E a \in Adapters : Register(l, a)
    BY <1>4, <2>1, <2>2, RegisterIsSecond DEF ReloadDiscards
  <2>3. CASE UNCHANGED made /\ reload' = [reload EXCEPT ![l] = Idle]
    <3>1. UNCHANGED registered
      BY <1>4 DEF ReloadDiscards
    <3>2. reload'[l] = Idle /\ \A k \in Reloads \ {l} : reload'[k] = reload[k]
      BY <1>a, <2>3
    <3> QED
      BY <1>b, <1>4, <2>1, <2>3, <3>1, <3>2
         DEF ReloadDiscards, FirstIsAlone, First, ReloadAt, Idle
  <2> QED
    BY <1>4, <2>2, <2>3 DEF ReloadDiscards
<1>5. CASE ReloadStarts(l)
  <2>1. reload[l] \in Reload
    BY <1>a, <1>5 DEF ReloadStarts, ReloadAt, Idle
  <2>2. /\ UNCHANGED <<made, probe>> /\ registered' = reload[l].adapter
        /\ \A k \in Reloads \ {l} : reload'[k] = reload[k]
    BY <1>a, <1>5 DEF ReloadStarts, ReloadTo
  <2>3. reload'[l].pc = "announcing"
    BY <1>a, <1>5, <2>1 DEF ReloadStarts, ReloadTo, Reload
  <2>4. made # {} /\ reload[l].adapter \in made
    BY <1>b, <1>5 DEF ReloadStarts, ReloadAt, Idle
  <2>5. First(l) => Untouched /\ \A k \in Reloads \ {l} : reload[k] = Idle
    BY <1>5 DEF ReloadStarts, FirstIsAlone
  <2>6. \A k \in Reloads \ {l} : ~(ReloadAt(k, "starting") /\ First(k))
    BY <1>b, <1>5 DEF ReloadStarts, ReloadAt, Idle
  <2>7. \A k \in Reloads \ {l} : ~(ReloadAt(k, "stopped") /\ First(k))
    BY <2>4, <2>5 DEF First, ReloadAt, Idle
  <2>8. made' = {registered'} => \A x \in Probes : probe'[x] # Idle => probe'[x].own
    BY <2>2, <2>5 DEF First, Untouched
  <2> QED
    BY <2>2, <2>3, <2>4, <2>6, <2>7, <2>8 DEF FirstIsAlone, First, ReloadAt
<1>6. CASE ReloadAnnounces(l)
  <2>1. UNCHANGED <<registered, made>>
    BY <1>6 DEF ReloadAnnounces
  <2>2. reload'[l] = Idle /\ \A k \in Reloads \ {l} : reload'[k] = reload[k]
    BY <1>a, <1>6 DEF ReloadAnnounces
  <2>3. made # {} /\ \A k \in Reloads \ {l} : ~(ReloadAt(k, "starting") /\ First(k))
    BY <1>b, <1>6 DEF ReloadAnnounces, ReloadAt, Idle
  <2>4. made = {registered} => \A x \in Probes : probe'[x] # Idle => probe'[x].own
    BY <1>6, ProbesAreOwn DEF ReloadAnnounces, FirstIsAlone, Typed
  <2> QED
    BY <2>1, <2>2, <2>3, <2>4 DEF FirstIsAlone, First, ReloadAt, Idle
<1> QED
  BY <1>1, <1>2, <1>3, <1>4, <1>5, <1>6 DEF Reloading

\* Every step keeps the first adapter alone.
LEMMA StepAlone == Typed /\ FirstIsAlone /\ [Next]_vars => FirstIsAlone'
  BY SupervisionKeepsAlone, ReloadsKeepAlone DEF Next

\* A failure below the threshold stays scheduled until it is answered.
LEMMA StepScheduled ==
  Typed /\ RestartsAreDue /\ FirstIsAlone /\ RestartIsScheduled /\ [Next]_vars => RestartIsScheduled'
<1> SUFFICES ASSUME Typed, RestartsAreDue, FirstIsAlone, RestartIsScheduled, [Next]_vars
             PROVE  RestartIsScheduled'
  OBVIOUS
<1> USE DEF RestartIsScheduled, Supervised
<1>1. Healthy.state = "healthy"
  BY DEF Healthy
<1>2. TypeOK /\ status \in Status \cup {None} /\ timer \in BOOLEAN /\ running \in BOOLEAN
  BY DEF Typed, TypeOK
<1>3. ASSUME recordFailure, running' = running PROVE RestartIsScheduled'
  BY <1>3 DEF recordFailure, Failed
<1>4. ASSUME status' = status \/ status' = Healthy, timer' = timer, running' => running,
             UNCHANGED <<registered, made>>
      PROVE  RestartIsScheduled'
  BY <1>1, <1>4
<1>5. ASSUME NEW x \in Probes, StartProbe(x), timer' = timer, running' = running,
             UNCHANGED <<registered, made>>
      PROVE  RestartIsScheduled'
  <2>1. ensureStatus = status \/ ensureStatus = Healthy
    BY DEF ensureStatus
  <2>2. CASE status' = ensureStatus
    BY <1>4, <1>5, <2>1, <2>2
  <2>3. CASE /\ ensureStatus.state = "circuit_open"
             /\ status' = [ensureStatus EXCEPT !.state = "unhealthy", !.cooled = FALSE]
    <3>1. status # None /\ status.state = "circuit_open" /\ status \in Status
      BY <1>1, <1>2, <2>1, <2>3 DEF ensureStatus
    <3>2. status'.failures = CircuitFailureThreshold
      BY <2>1, <2>3, <3>1 DEF ensureStatus, RestartsAreDue, CircuitIsQuiet, Status
    <3> QED
      BY <3>2
  <2> QED
    BY <1>5, <2>2, <2>3 DEF StartProbe
<1>6. ASSUME NEW x \in Probes, runProbeCycle(x) \/ ProbeEnds(x) PROVE RestartIsScheduled'
  <2>1. CASE runProbeCycle(x)
    BY <1>5, <2>1 DEF runProbeCycle, net
  <2>2. CASE ProbeEnds(x) /\ recordFailure
    BY <1>3, <2>2 DEF ProbeEnds
  <2>3. CASE ProbeEnds(x) /\ status' = Emitted(IF probe[x].own THEN Healthy ELSE status, registered)
    <3>1. CASE probe[x].own
      BY <1>1, <2>3, <3>1, EmittedIsOld
    <3>2. CASE ~probe[x].own
      BY <2>3, <3>2 DEF ProbeEnds, FirstIsAlone, net
    <3> QED
      BY <3>1, <3>2
  <2> QED
    BY <1>6, <2>1, <2>2, <2>3 DEF ProbeEnds
<1>7. ASSUME NEW r \in Recoveries, TimerFires(r) \/ Recovering(r) PROVE RestartIsScheduled'
  <2>1. CASE TimerFires(r)
    <3>1. ensureStatus \in Status
      BY <1>2, StatusTypes
    <3>2. CASE status' = [ensureStatus EXCEPT !.state = "recovering"]
      BY <3>1, <3>2 DEF Status
    <3>3. CASE ~MayRecover /\ status' = ensureStatus
      BY <2>1, <3>3 DEF TimerFires, MayRecover, net
    <3> QED
      BY <2>1, <3>2, <3>3 DEF TimerFires
  <2>2. CASE RecoveryFails(r)
    BY <1>3, <2>2 DEF RecoveryFails
  <2>3. CASE RecoveryStops(r) \/ RecoveryStarts(r)
    BY <1>4, <2>3 DEF RecoveryStops, RecoveryStarts, sup
  <2>4. CASE RecoveryEnds(r)
    BY <1>3, <1>4, <2>4, SuccessIsOldOrHealthy DEF RecoveryEnds, net
  <2> QED
    BY <1>7, <2>1, <2>2, <2>3, <2>4 DEF Recovering
<1>8. ASSUME NEW l \in Reloads, NEW a \in Adapters, Register(l, a), registered = None,
             UNCHANGED registered
      PROVE  RestartIsScheduled'
  BY <1>8
<1>9. ASSUME NEW l \in Reloads, Reloading(l) \/ \E wanted \in BOOLEAN : ReloadBegins(l, wanted)
      PROVE  RestartIsScheduled'
  <2>1. CASE \E wanted \in BOOLEAN : ReloadBegins(l, wanted)
    BY <1>4, <1>8, <2>1 DEF ReloadBegins, sup
  <2>2. CASE ReloadFails(l)
    BY <1>4, <2>2 DEF ReloadFails, sup, net
  <2>3. CASE ReloadStops(l)
    BY <2>3 DEF ReloadStops
  <2>4. CASE ReloadDiscards(l)
    BY <1>1, <2>4 DEF ReloadDiscards, Emitted
  <2>5. CASE ReloadStarts(l)
    <3>1. made = {reload[l].adapter} => status = None
      BY <2>5 DEF ReloadStarts, FirstIsAlone, First, Untouched
    <3> QED
      BY <2>5, <3>1 DEF ReloadStarts, sup
  <2>6. CASE ReloadAnnounces(l)
    BY <1>4, <1>5, <2>6, EmittedIsOld DEF ReloadAnnounces
  <2> QED
    BY <1>9, <2>1, <2>2, <2>3, <2>4, <2>5, <2>6 DEF Reloading
<1>10. CASE Look
  BY <1>4, <1>10, EmittedIsOld DEF Look, net
<1>11. CASE stop
  BY <1>11 DEF stop
<1>12. CASE CoolDown
  BY <1>2, <1>12 DEF CoolDown, Resting, Status
<1>13. CASE UNCHANGED vars \/ \E a \in Adapters : Break(a) \/ Mend(a)
  BY <1>4, <1>13 DEF vars, sup, net, Break, Mend
<1> QED
  BY <1>6, <1>7, <1>9, <1>10, <1>11, <1>12, <1>13 DEF Next

\* As long as no adapter was replaced, a channel that is unhealthy and below the
\* threshold has a restart scheduled, however many probes and recoveries overlap and
\* in whatever order they report.
THEOREM RestartsAreScheduled == Spec => []RestartIsScheduled
<1>1. Init => RestartsAreDue /\ FirstIsAlone /\ RestartIsScheduled
  <2> SUFFICES ASSUME Init PROVE RestartsAreDue /\ FirstIsAlone /\ RestartIsScheduled
    OBVIOUS
  <2>1. RestartsAreDue /\ RestartIsScheduled
    BY DEF Init, RestartsAreDue, CircuitIsQuiet, StoppedIsQuiet, RestartIsScheduled, Healthy
  <2>2. made = {} => registered = None
    BY DEF Init
  <2> QED
    BY <2>1, <2>2 DEF Init, FirstIsAlone, Untouched, ReloadAt, Idle
<1> QED
  BY <1>1, InitTyped, StepTyped, StepQuiet, StepAlone, StepScheduled, PTL DEF Spec
=============================================================================
