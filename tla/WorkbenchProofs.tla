--------------------------- MODULE WorkbenchProofs ---------------------------
(*****************************************************************************)
(* Theorems of the parts around one execution, for any number of contexts,   *)
(* turns, tools, jobs, browsers, viewers and pages, and what follows of them *)
(* together.                                                                 *)
(*****************************************************************************)
EXTENDS MCWorkbench, TLAPS, FiniteSetTheorems, WellFoundedInduction

(*****************************************************************************)
(* The life of an agent: which of its contexts the manager knows, and        *)
(* watches.                                                                  *)
(*****************************************************************************)

\* What the proofs use of the table of transitions.
LEMMA Transitions ==
  /\ DOMAIN VALID_TRANSITIONS =
       {"BOOTING", "HYDRATING", "READY", "EXECUTING", "DRAINING", "TERMINATED",
        "DEGRADED", "QUARANTINED", "SAFE_MODE"}
  /\ VALID_TRANSITIONS["TERMINATED"] = {}
  /\ \A s \in DOMAIN VALID_TRANSITIONS :
       /\ "EXECUTING" \in VALID_TRANSITIONS[s] => s \in {"READY", "DEGRADED"}
       /\ "READY" \in VALID_TRANSITIONS[s] => s \in {"HYDRATING", "SAFE_MODE"}
       /\ "QUARANTINED" \in VALID_TRANSITIONS[s] => s \in {"EXECUTING", "DEGRADED"}
  BY SMT DEF VALID_TRANSITIONS

\* One context moves, to a state that is one and not BOOTING.
LEMMA MoveType ==
  ASSUME machine \in [Contexts -> DOMAIN VALID_TRANSITIONS], NEW c \in Contexts,
         NEW s \in DOMAIN VALID_TRANSITIONS, s # "BOOTING",
         machine' = [machine EXCEPT ![c] = s]
  PROVE  /\ machine' \in [Contexts -> DOMAIN VALID_TRANSITIONS]
         /\ machine'[c] = s
         /\ \A d \in Contexts : d # c => machine'[d] = machine[d]
         /\ \A d \in Contexts : ~Fresh(d) => ~Fresh(d)'
  BY DEF Fresh

\* Giving a boot up ends it, or finds it ended.
LEMMA GiveUpEffect ==
  ASSUME LifecycleTypeOK, NEW c \in Contexts, ~Fresh(c), GiveUp(c)
  PROVE  /\ machine' \in [Contexts -> DOMAIN VALID_TRANSITIONS]
         /\ \A d \in Contexts : ~Fresh(d) => ~Fresh(d)'
         /\ \A d \in Contexts : d # c => machine'[d] = machine[d]
         /\ \/ machine[c] # "TERMINATED" /\ machine'[c] = "TERMINATED"
               /\ agents' = NoContext
            \/ UNCHANGED <<machine, agents>>
<1>1. CASE Allowed(c, "TERMINATED") /\ machine' = [machine EXCEPT ![c] = "TERMINATED"]
           /\ agents' = NoContext
  <2>1. machine[c] # "TERMINATED"
    BY <1>1, Transitions DEF Allowed
  <2> QED
    BY <1>1, <2>1, MoveType, Transitions DEF LifecycleTypeOK
<1>2. CASE UNCHANGED <<machine, agents>>
  BY <1>2 DEF LifecycleTypeOK, Fresh
<1> QED
  BY <1>1, <1>2 DEF GiveUp

-----------------------------------------------------------------------------
\* Types.  Every action moves one context at most and keeps the others.

LEMMA SettlesType ==
  ASSUME LifecycleTypeOK, NEW c \in Contexts, Settles(c)
  PROVE  LifecycleTypeOK'
<1>1. ASSUME NEW op \in {"boot", "drain", "terminate"}, Awaits(op, c)
      PROVE  ~Fresh(c)
  BY <1>1 DEF LifecycleTypeOK, Awaits
<1>2. CASE Hydrated(c)
  <2>1. ~Fresh(c)
    BY <1>1, <1>2 DEF Hydrated
  <2>2. CASE Allowed(c, "READY") /\ machine' = [machine EXCEPT ![c] = "READY"]
             /\ idle' = TRUE /\ UNCHANGED agents
    <3>1. /\ machine' \in [Contexts -> DOMAIN VALID_TRANSITIONS]
          /\ \A d \in Contexts : ~Fresh(d) => ~Fresh(d)'
      BY <2>2, MoveType, Transitions DEF LifecycleTypeOK
    <3> QED
      BY <1>2, <2>2, <3>1 DEF Hydrated, LifecycleTypeOK, Managed
  <2>3. CASE GiveUp(c) /\ UNCHANGED idle
    BY <1>2, <2>1, <2>3, GiveUpEffect DEF Hydrated, LifecycleTypeOK, Managed
  <2> QED
    BY <1>2, <2>2, <2>3 DEF Hydrated
<1>3. CASE HydrationFails(c)
  <2>1. ~Fresh(c)
    BY <1>1, <1>3 DEF HydrationFails
  <2> QED
    BY <1>3, <2>1, GiveUpEffect DEF HydrationFails, LifecycleTypeOK, Managed
<1>4. CASE Drained(c)
  <2>1. CASE machine' = [machine EXCEPT ![c] = "TERMINATED"] /\ cleanup
    <3>1. /\ machine' \in [Contexts -> DOMAIN VALID_TRANSITIONS]
          /\ \A d \in Contexts : ~Fresh(d) => ~Fresh(d)'
      BY <2>1, MoveType, Transitions DEF LifecycleTypeOK
    <3> QED
      BY <1>4, <2>1, <3>1 DEF Drained, LifecycleTypeOK, Managed, cleanup
  <2>2. CASE UNCHANGED <<machine, agents, idle>>
    BY <1>4, <2>2 DEF Drained, LifecycleTypeOK, Managed, Fresh
  <2> QED
    BY <1>4, <2>1, <2>2 DEF Drained
<1>5. CASE Terminated(c)
  BY <1>5 DEF Terminated, LifecycleTypeOK, Managed, Fresh, cleanup
<1> QED
  BY <1>2, <1>3, <1>4, <1>5 DEF Settles

LEMMA StartDrainType ==
  ASSUME LifecycleTypeOK, Managed, StartDrain, UNCHANGED <<agents, cooling>>, idle' \in BOOLEAN,
         ~Fresh(agents)
  PROVE  LifecycleTypeOK'
<1>1. /\ machine' \in [Contexts -> DOMAIN VALID_TRANSITIONS]
      /\ \A d \in Contexts : ~Fresh(d) => ~Fresh(d)'
  BY MoveType, Transitions DEF LifecycleTypeOK, StartDrain, Managed
<1> QED
  BY <1>1 DEF LifecycleTypeOK, StartDrain, Managed

LEMMA StepType ==
  ASSUME LifecycleTypeOK, [LifecycleNext]_lifecycleVars
  PROVE  LifecycleTypeOK'
<1>1. ASSUME NEW c \in Contexts, NEW s \in {"HYDRATING", "SAFE_MODE"},
             agents' = c, machine' = [machine EXCEPT ![c] = s],
             awaiting' \in {awaiting, awaiting \cup {<<"boot", c>>}},
             UNCHANGED <<idle, cooling>>
      PROVE  LifecycleTypeOK'
  <2>1. /\ machine' \in [Contexts -> DOMAIN VALID_TRANSITIONS]
        /\ machine'[c] # "BOOTING"
        /\ \A d \in Contexts : ~Fresh(d) => ~Fresh(d)'
    BY <1>1, MoveType, Transitions DEF LifecycleTypeOK
  <2> QED
    BY <1>1, <2>1 DEF LifecycleTypeOK, Managed, Fresh
<1>2. ASSUME Managed, NEW s \in {"EXECUTING", "QUARANTINED", "DRAINING", "TERMINATED"},
             machine' = [machine EXCEPT ![agents] = s],
             awaiting' \in {awaiting, awaiting \cup {<<"terminate", agents>>}},
             idle' \in BOOLEAN, cooling' \in BOOLEAN, UNCHANGED agents
      PROVE  LifecycleTypeOK'
  <2>1. /\ machine' \in [Contexts -> DOMAIN VALID_TRANSITIONS]
        /\ \A d \in Contexts : ~Fresh(d) => ~Fresh(d)'
    BY <1>2, MoveType, Transitions DEF LifecycleTypeOK, Managed
  <2> QED
    BY <1>2, <2>1 DEF LifecycleTypeOK, Managed
<1>3. ASSUME NEW c \in Contexts, boot(c) \/ bootSafeMode(c) PROVE LifecycleTypeOK'
  BY <1>1, <1>3 DEF boot, bootSafeMode
<1>4. ASSUME run \/ quarantine \/ terminate PROVE LifecycleTypeOK'
  BY <1>2, <1>4 DEF run, quarantine, terminate, LifecycleTypeOK
<1>5. ASSUME NEW reset \in BOOLEAN, release(reset) PROVE LifecycleTypeOK'
  BY <1>2, <1>5 DEF release, LifecycleTypeOK
<1>6. ASSUME recordActivity \/ CooldownEnds PROVE LifecycleTypeOK'
  BY <1>6 DEF recordActivity, CooldownEnds, LifecycleTypeOK, Managed, Fresh
<1>7. ASSUME drain PROVE LifecycleTypeOK'
  BY <1>7, StartDrainType DEF drain, LifecycleTypeOK
<1>8. ASSUME IdleTimeout PROVE LifecycleTypeOK'
  <2>1. CASE Managed /\ StartDrain
    BY <1>8, <2>1, StartDrainType DEF IdleTimeout, LifecycleTypeOK
  <2>2. CASE UNCHANGED <<machine, awaiting>>
    BY <1>8, <2>2 DEF IdleTimeout, LifecycleTypeOK, Managed, Fresh
  <2> QED
    BY <1>8, <2>1, <2>2 DEF IdleTimeout
<1>9. ASSUME crash PROVE LifecycleTypeOK'
  BY <1>9, Transitions DEF crash, LifecycleTypeOK, Managed, Fresh, cleanup
<1>10. ASSUME UNCHANGED lifecycleVars PROVE LifecycleTypeOK'
  BY <1>10 DEF lifecycleVars, LifecycleTypeOK, Managed, Fresh
<1> QED
  BY <1>3, <1>4, <1>5, <1>6, <1>7, <1>8, <1>9, <1>10, SettlesType DEF LifecycleNext

\* The state of the manager is well formed, and neither the map nor an
\* operation holds a context that was not made.
THEOREM TypesHold == LifecycleSpec => []LifecycleTypeOK
<1>1. LifecycleInit => LifecycleTypeOK
  BY Transitions DEF LifecycleInit, LifecycleTypeOK, Managed
<1> QED
  BY <1>1, StepType, PTL DEF LifecycleSpec
-----------------------------------------------------------------------------
(*****************************************************************************)
(* Sight of the living agents.  cleanup forgets whatever context the map     *)
(* holds, so the invariant must say that whoever is about to call it finds   *)
(* its own context there, or nothing: Alone, for terminations, and Live      *)
(* itself for drains and boots, which call it only for a live context.       *)
(*****************************************************************************)

Alone ==
  \A c \in Contexts :
    Awaits("terminate", c) => agents \in {c, NoContext} /\ machine[c] = "TERMINATED"

InSight == Live \subseteq {agents} /\ Alone

\* What a step changes that moves at most one context, the agent's.
LEMMA OwnMoveInSight ==
  ASSUME InSight, agents' = agents,
         \A c \in Contexts : c # agents => machine'[c] = machine[c],
         \A c \in Contexts : machine[c] = "TERMINATED" => machine'[c] = "TERMINATED",
         \A c \in Contexts : Awaits("terminate", c)' => Awaits("terminate", c)
  PROVE  InSight'
  BY DEF InSight, Live, Alone

\* Nothing lives once the agent's context is gone from the map.
LEMMA GoneInSight ==
  ASSUME InSight, agents' = NoContext,
         \A c \in Contexts : c # agents => machine'[c] = machine[c],
         agents \in Contexts => machine'[agents] = "TERMINATED",
         \A c \in Contexts : Awaits("terminate", c)' => Awaits("terminate", c)
  PROVE  InSight'
<1>1. Live' \subseteq {NoContext}
  BY DEF InSight, Live
<1>2. Alone'
  BY DEF InSight, Alone
<1> QED
  BY <1>1, <1>2 DEF InSight

LEMMA SettlesInSight ==
  ASSUME LifecycleTypeOK, InSight, NEW c \in Contexts, Settles(c)
  PROVE  InSight'
<1>1. ASSUME NEW op \in {"boot", "drain", "terminate"}, Awaits(op, c)
      PROVE  ~Fresh(c)
  BY <1>1 DEF LifecycleTypeOK, Awaits
<1>2. ASSUME ~Fresh(c), machine[c] # "TERMINATED" PROVE agents = c
  BY <1>2 DEF InSight, Live, Fresh
<1>3. ASSUME NEW op \in {"boot", "drain"}, awaiting' = awaiting \ {<<op, c>>}
      PROVE  \A d \in Contexts : Awaits("terminate", d)' => Awaits("terminate", d)
  BY <1>3 DEF Awaits
<1>4. ASSUME ~Fresh(c), GiveUp(c),
             \A d \in Contexts : Awaits("terminate", d)' => Awaits("terminate", d)
      PROVE  InSight'
  <2>1. CASE machine[c] # "TERMINATED" /\ machine'[c] = "TERMINATED" /\ agents' = NoContext
    BY <1>2, <1>4, <2>1, GiveUpEffect, GoneInSight
  <2>2. CASE UNCHANGED <<machine, agents>>
    BY <1>4, <2>2, OwnMoveInSight
  <2> QED
    BY <1>4, <2>1, <2>2, GiveUpEffect
<1>5. CASE Hydrated(c)
  <2>1. ~Fresh(c) /\ \A d \in Contexts : Awaits("terminate", d)' => Awaits("terminate", d)
    BY <1>1, <1>3, <1>5 DEF Hydrated
  <2>2. CASE Allowed(c, "READY") /\ machine' = [machine EXCEPT ![c] = "READY"]
             /\ UNCHANGED agents
    <3>1. machine[c] # "TERMINATED"
      BY <2>2, Transitions DEF Allowed
    <3>2. agents = c
      BY <1>2, <2>1, <3>1
    <3> QED
      BY <2>1, <2>2, <3>1, <3>2, OwnMoveInSight DEF LifecycleTypeOK
  <2>3. CASE GiveUp(c)
    BY <1>4, <2>1, <2>3
  <2> QED
    BY <1>5, <2>2, <2>3 DEF Hydrated
<1>6. CASE HydrationFails(c)
  BY <1>1, <1>3, <1>4, <1>6 DEF HydrationFails
<1>7. CASE Drained(c)
  <2>1. ~Fresh(c) /\ \A d \in Contexts : Awaits("terminate", d)' => Awaits("terminate", d)
    BY <1>1, <1>3, <1>7 DEF Drained
  <2>2. CASE Allowed(c, "TERMINATED") /\ machine' = [machine EXCEPT ![c] = "TERMINATED"]
             /\ cleanup
    <3>1. machine[c] # "TERMINATED"
      BY <2>2, Transitions DEF Allowed
    <3>2. agents = c
      BY <1>2, <2>1, <3>1
    <3> QED
      BY <2>1, <2>2, <3>2, GoneInSight DEF LifecycleTypeOK, cleanup
  <2>3. CASE UNCHANGED <<machine, agents>>
    BY <2>1, <2>3, OwnMoveInSight
  <2> QED
    BY <1>7, <2>2, <2>3 DEF Drained
<1>8. CASE Terminated(c)
  <2>1. /\ agents \in {c, NoContext} /\ machine[c] = "TERMINATED"
        /\ \A d \in Contexts : Awaits("terminate", d)' => Awaits("terminate", d)
    BY <1>8 DEF Terminated, InSight, Alone, Awaits
  <2>2. NoContext \notin Contexts
    BY LifecycleAssumption
  <2> QED
    BY <1>8, <2>1, <2>2, GoneInSight DEF Terminated, cleanup
<1> QED
  BY <1>5, <1>6, <1>7, <1>8 DEF Settles

LEMMA StepInSight ==
  ASSUME ~BootsOverlap, LifecycleTypeOK, InSight, [LifecycleNext]_lifecycleVars
  PROVE  InSight'
<1>1. ASSUME NEW c \in Contexts, boot(c) \/ bootSafeMode(c) PROVE InSight'
  <2>1. /\ agents = NoContext
        /\ \A d \in Contexts : ~Awaits("terminate", d)
    BY <1>1 DEF boot, bootSafeMode, MayBoot, Managed
  <2>2. /\ agents' = c
        /\ \A d \in Contexts : d # c => machine'[d] = machine[d]
        /\ \A d \in Contexts : ~Awaits("terminate", d)'
    BY <1>1, <2>1 DEF boot, bootSafeMode, LifecycleTypeOK, Awaits
  <2>3. Live = {}
    BY <2>1, LifecycleAssumption DEF InSight, Live
  <2> QED
    BY <2>2, <2>3 DEF InSight, Live, Alone
<1>2. ASSUME Managed, State # "TERMINATED",
             NEW s, machine' = [machine EXCEPT ![agents] = s],
             awaiting' \in {awaiting, awaiting \cup {<<"drain", agents>>}},
             UNCHANGED agents
      PROVE  InSight'
  <2>1. \A d \in Contexts : Awaits("terminate", d)' => Awaits("terminate", d)
    BY <1>2 DEF Awaits
  <2>2. \A d \in Contexts : machine[d] = "TERMINATED" => machine'[d] = "TERMINATED"
    BY <1>2 DEF LifecycleTypeOK, State, Managed
  <2>3. \A d \in Contexts : d # agents => machine'[d] = machine[d]
    BY <1>2 DEF LifecycleTypeOK
  <2> QED
    BY <1>2, <2>1, <2>2, <2>3, OwnMoveInSight
<1>3. ASSUME run \/ quarantine PROVE InSight'
  <2>1. Managed /\ State # "TERMINATED"
    BY <1>3, Transitions DEF run, quarantine, Allowed, State
  <2> QED
    BY <1>2, <1>3, <2>1 DEF run, quarantine
<1>4. ASSUME NEW reset \in BOOLEAN, release(reset) PROVE InSight'
  BY <1>2, <1>4 DEF release
<1>5. ASSUME drain PROVE InSight'
  BY <1>2, <1>5 DEF drain, StartDrain
<1>6. ASSUME UNCHANGED <<agents, machine, awaiting>> PROVE InSight'
  BY <1>6 DEF InSight, Live, Alone, Awaits
<1>7. ASSUME IdleTimeout PROVE InSight'
  BY <1>2, <1>6, <1>7 DEF IdleTimeout, StartDrain
<1>8. ASSUME terminate PROVE InSight'
  <2>1. agents \in Contexts /\ machine[agents] # "TERMINATED"
    BY <1>8 DEF terminate, Managed, State, LifecycleTypeOK
  <2>2. \A d \in Contexts : Awaits("terminate", d)' => d = agents
    BY <1>8, <2>1, LifecycleAssumption DEF terminate, Awaits, InSight, Alone
  <2>3. /\ agents' = agents /\ machine'[agents] = "TERMINATED"
        /\ \A d \in Contexts : d # agents => machine'[d] = machine[d]
    BY <1>8, <2>1 DEF terminate, LifecycleTypeOK
  <2> QED
    BY <2>2, <2>3 DEF InSight, Live, Alone
<1>9. ASSUME crash PROVE InSight'
  <2>1. CASE UNCHANGED <<agents, machine>>
    BY <1>6, <1>9, <2>1 DEF crash
  <2>2. CASE /\ machine' = [c \in Contexts |-> IF c = agents THEN "TERMINATED" ELSE machine[c]]
             /\ cleanup
    BY <1>9, <2>2, GoneInSight DEF crash, cleanup, Awaits
  <2> QED
    BY <1>9, <2>1, <2>2 DEF crash
<1> QED
  BY <1>1, <1>3, <1>4, <1>5, <1>6, <1>7, <1>8, <1>9, SettlesInSight
  DEF LifecycleNext, lifecycleVars, recordActivity, CooldownEnds

\* If boots wait until the agent has no context and no termination awaits its
\* pod, the manager never loses a living context.
THEOREM LivingAreManaged == LifecycleSpec => []LiveIsManaged
<1>1. CASE BootsOverlap
  <2>1. LiveIsManaged
    BY <1>1 DEF LiveIsManaged
  <2> QED
    BY <2>1, PTL
<1>2. CASE ~BootsOverlap
  <2>1. LifecycleInit => InSight
    BY DEF LifecycleInit, InSight, Live, Alone, Awaits
  <2>2. LifecycleTypeOK /\ InSight /\ [LifecycleNext]_lifecycleVars => InSight'
    BY <1>2, StepInSight
  <2>3. InSight => LiveIsManaged
    BY DEF InSight, LiveIsManaged
  <2> QED
    BY <2>1, <2>2, <2>3, TypesHold, PTL DEF LifecycleSpec
<1> QED
  BY <1>1, <1>2

-----------------------------------------------------------------------------
LEMMA StepLeaves ==
  ASSUME LifecycleTypeOK, TerminatedIsLeaving, [LifecycleNext]_lifecycleVars
  PROVE  TerminatedIsLeaving'
<1>1. ASSUME agents' = NoContext PROVE TerminatedIsLeaving'
  BY <1>1 DEF TerminatedIsLeaving, Managed
<1>2. ASSUME agents' = agents, \A c \in Contexts : Awaits("terminate", c) => Awaits("terminate", c)',
             Managed => machine'[agents] \in {machine[agents], "READY", "EXECUTING",
                                              "QUARANTINED", "DRAINING"}
      PROVE  TerminatedIsLeaving'
  BY <1>2 DEF TerminatedIsLeaving, Managed, State, LifecycleTypeOK
<1>3. ASSUME NEW c \in Contexts, boot(c) \/ bootSafeMode(c) PROVE TerminatedIsLeaving'
  <2>1. agents' = c /\ machine'[c] \in {"HYDRATING", "SAFE_MODE"}
    BY <1>3 DEF boot, bootSafeMode, LifecycleTypeOK
  <2> QED
    BY <2>1 DEF TerminatedIsLeaving, State
<1>4. ASSUME NEW c \in Contexts, Settles(c) PROVE TerminatedIsLeaving'
  <2>1. ASSUME NEW op \in {"boot", "drain"}, awaiting' = awaiting \ {<<op, c>>}
        PROVE  \A d \in Contexts : Awaits("terminate", d) => Awaits("terminate", d)'
    BY <2>1 DEF Awaits
  <2>2. ASSUME NEW op \in {"boot", "drain"}, awaiting' = awaiting \ {<<op, c>>}, GiveUp(c)
        PROVE  TerminatedIsLeaving'
    <3>1. CASE agents' = NoContext
      BY <1>1, <3>1
    <3>2. CASE UNCHANGED <<machine, agents>>
      BY <1>2, <2>1, <2>2, <3>2
    <3> QED
      BY <2>2, <3>1, <3>2 DEF GiveUp
  <2>3. CASE Hydrated(c)
    <3>1. CASE machine' = [machine EXCEPT ![c] = "READY"] /\ UNCHANGED agents
      BY <1>2, <2>1, <2>3, <3>1 DEF Hydrated, LifecycleTypeOK, Managed
    <3> QED
      BY <2>2, <2>3, <3>1 DEF Hydrated
  <2>4. CASE HydrationFails(c)
    BY <2>2, <2>4 DEF HydrationFails
  <2>5. CASE Drained(c)
    <3>1. CASE UNCHANGED <<machine, agents, idle>>
      BY <1>2, <2>1, <2>5, <3>1 DEF Drained
    <3> QED
      BY <1>1, <2>5, <3>1 DEF Drained, cleanup
  <2>6. CASE Terminated(c)
    BY <1>1, <2>6 DEF Terminated, cleanup
  <2> QED
    BY <1>4, <2>3, <2>4, <2>5, <2>6 DEF Settles
<1>5. ASSUME run \/ quarantine \/ (\E reset \in BOOLEAN : release(reset)) PROVE TerminatedIsLeaving'
  BY <1>2, <1>5 DEF run, quarantine, release, LifecycleTypeOK, Managed, Awaits
<1>6. ASSUME drain \/ IdleTimeout PROVE TerminatedIsLeaving'
  BY <1>2, <1>6 DEF drain, IdleTimeout, StartDrain, LifecycleTypeOK, Managed, Awaits
<1>7. ASSUME terminate PROVE TerminatedIsLeaving'
  BY <1>7 DEF terminate, TerminatedIsLeaving, Awaits
<1>8. ASSUME crash PROVE TerminatedIsLeaving'
  BY <1>1, <1>2, <1>8 DEF crash, cleanup, Awaits
<1>9. ASSUME recordActivity \/ CooldownEnds \/ UNCHANGED lifecycleVars PROVE TerminatedIsLeaving'
  BY <1>2, <1>9 DEF recordActivity, CooldownEnds, lifecycleVars, Awaits
<1> QED
  BY <1>3, <1>4, <1>5, <1>6, <1>7, <1>8, <1>9 DEF LifecycleNext

\* The map holds a terminated context only while its termination is under way.
THEOREM TerminatedLeave == LifecycleSpec => []TerminatedIsLeaving
<1>1. LifecycleInit => TerminatedIsLeaving
  BY DEF LifecycleInit, TerminatedIsLeaving, Managed
<1> QED
  BY <1>1, StepLeaves, TypesHold, PTL DEF LifecycleSpec

-----------------------------------------------------------------------------
(* The idle timer.  A context becomes READY by its hydration alone, which sets  *)
(* the timer; whoever stops the timer removes the agent's context from the map  *)
(* or drains it.                                                                *)

LEMMA StepWatched ==
  ASSUME LifecycleTypeOK, ReadyIsWatched, [LifecycleNext]_lifecycleVars
  PROVE  ReadyIsWatched'
<1>1. ASSUME agents' = NoContext PROVE ReadyIsWatched'
  BY <1>1 DEF ReadyIsWatched, Managed
<1>2. ASSUME idle' = TRUE PROVE ReadyIsWatched'
  BY <1>2 DEF ReadyIsWatched
<1>3. ASSUME UNCHANGED <<agents, machine, idle>> PROVE ReadyIsWatched'
  BY <1>3 DEF ReadyIsWatched, Managed, State
<1>4. ASSUME agents' \in Contexts, machine'[agents'] # "READY" PROVE ReadyIsWatched'
  BY <1>4 DEF ReadyIsWatched, State
<1>5. ASSUME NEW c \in Contexts, boot(c) \/ bootSafeMode(c) PROVE ReadyIsWatched'
  BY <1>4, <1>5 DEF boot, bootSafeMode, LifecycleTypeOK
<1>6. ASSUME NEW c \in Contexts, Settles(c) PROVE ReadyIsWatched'
  <2>1. ASSUME GiveUp(c), UNCHANGED idle PROVE ReadyIsWatched'
    BY <1>1, <1>3, <2>1 DEF GiveUp
  <2>2. CASE Hydrated(c)
    BY <1>2, <2>1, <2>2 DEF Hydrated
  <2>3. CASE HydrationFails(c)
    BY <2>1, <2>3 DEF HydrationFails
  <2>4. CASE Drained(c)
    BY <1>1, <1>3, <2>4 DEF Drained, cleanup
  <2>5. CASE Terminated(c)
    BY <1>1, <2>5 DEF Terminated, cleanup
  <2> QED
    BY <1>6, <2>2, <2>3, <2>4, <2>5 DEF Settles
<1>7. ASSUME Managed, NEW s \in {"EXECUTING", "QUARANTINED", "DRAINING", "TERMINATED"},
             machine' = [machine EXCEPT ![agents] = s], UNCHANGED agents
      PROVE  ReadyIsWatched'
  BY <1>4, <1>7 DEF LifecycleTypeOK, Managed
<1>8. ASSUME run \/ quarantine \/ drain \/ terminate \/ \E reset \in BOOLEAN : release(reset)
      PROVE  ReadyIsWatched'
  BY <1>7, <1>8 DEF run, quarantine, drain, StartDrain, terminate, release
<1>9. ASSUME IdleTimeout PROVE ReadyIsWatched'
  <2>1. CASE Managed /\ StartDrain
    BY <1>7, <1>9, <2>1 DEF IdleTimeout, StartDrain
  <2>2. CASE ~(Managed /\ State = "READY") /\ UNCHANGED machine
    BY <1>9, <2>2 DEF IdleTimeout, ReadyIsWatched, Managed, State
  <2> QED
    BY <1>9, <2>1, <2>2 DEF IdleTimeout
<1>10. ASSUME crash PROVE ReadyIsWatched'
  BY <1>1, <1>3, <1>10 DEF crash, cleanup
<1>11. ASSUME recordActivity \/ CooldownEnds \/ UNCHANGED lifecycleVars PROVE ReadyIsWatched'
  BY <1>2, <1>3, <1>11 DEF recordActivity, CooldownEnds, lifecycleVars
<1> QED
  BY <1>5, <1>6, <1>8, <1>9, <1>10, <1>11 DEF LifecycleNext

\* An agent that is ready is watched for idleness, however its operations overlap.
THEOREM ReadyAreWatched == LifecycleSpec => []ReadyIsWatched
<1>1. LifecycleInit => ReadyIsWatched
  BY DEF LifecycleInit, ReadyIsWatched, Managed
<1> QED
  BY <1>1, StepWatched, TypesHold, PTL DEF LifecycleSpec

\* The manager knows the agent that lives, watches it when it is ready, and forgets the one
\* that has ended.
THEOREM AgentsAreManaged == LifecycleSpec => []AgentIsManaged
  BY TypesHold, LivingAreManaged, TerminatedLeave, ReadyAreWatched, PTL DEF AgentIsManaged

(*****************************************************************************)
(* An execution by an HTTP backend: the counters of its turns, the accounts  *)
(* of its tools and of its units, and the outcome they lead to.              *)
(*****************************************************************************)

\* Beyond the turns: a refresh repeats one, an endpoint that fails another.
Repeated == IF retriedTurn = turn THEN 1 ELSE 0

Detours == IF api = "antigravity" THEN endpoint - 1 ELSE 0

\* What a turn has still to run, once the flag is up.
Remaining == IF at = "tool" THEN toRun ELSE IF at = "running" THEN toRun - 1 ELSE 0

InTools == at \in {"tool", "running"}

IsOver == at \in {"over", "recorded", "abandoned"}

TurnsFit ==
  /\ turn < MaxTurns
  /\ IF InTools THEN turn + 1 < MaxTurns /\ toRun >= 1 ELSE at # "abandoned" => toRun = 0
  /\ IF InTools THEN api # "anthropic" => unanswered = toRun ELSE at # "abandoned" => unanswered = 0

RequestsFit ==
  IF at \in {"created", "turn", "refreshing"} THEN requests <= 2 * turn + Detours + Repeated
  ELSE requests <= 2 * turn + 1 + Detours + Repeated

ToolsFit ==
  /\ toolCalls <= ToolLimit
  /\ \/ ran = toolCalls
     \/ /\ cancelled /\ at \notin {"created", "streaming", "refreshing"}
        /\ ran + Remaining <= ToolLimit + MaxCalls

BooksFit ==
  /\ spent = usage
  /\ at = "settling" => (recorded = usage \/ unwritten) /\ (usage <= TokenBudget \/ cancelled)
  /\ result = "completed" => IsOver /\ spent <= TokenBudget /\ (spent = recorded \/ unwritten)

OutcomeFits ==
  /\ ~IsOver => /\ complete = "none"
               /\ IF cancelled THEN result = "cancelled" ELSE result = "none"
  /\ at \in {"over", "recorded"} => result # "none"
  /\ complete # "none" => complete = result
  /\ at = "created" => spent = 0 /\ recorded = 0

LoopInv == LoopTypeOK /\ TurnsFit /\ RequestsFit /\ ToolsFit /\ BooksFit /\ OutcomeFits

\* The variables and the constants that are numbers.
LEMMA LoopNumbers ==
  ASSUME LoopTypeOK
  PROVE  /\ {MaxTurns, MaxCalls, ToolLimit, TokenBudget, Endpoints} \subseteq Nat
         /\ {turn, retriedTurn, endpoint, toRun, unanswered, requests, ran, toolCalls, spent, usage, recorded} \subseteq Nat
         /\ turn <= MaxTurns /\ retriedTurn <= MaxTurns /\ endpoint >= 1 /\ endpoint <= Endpoints
         /\ toRun <= MaxCalls /\ unanswered <= MaxCalls /\ MaxTurns > 0
BY ToolLoopAssumption DEF LoopTypeOK

LEMMA LoopStarts == LoopInit => LoopInv
<1> SUFFICES ASSUME LoopInit PROVE LoopInv
  OBVIOUS
<1> USE ToolLoopAssumption
<1>1. LoopTypeOK
  <2>1. MaxTurns \in Nat /\ MaxTurns > 0 /\ Endpoints \in Nat /\ Endpoints > 0 /\ MaxCalls \in Nat
    OBVIOUS
  <2>2. endpoint \in 1 .. Endpoints
    BY <2>1 DEF LoopInit
  <2>3. 0 \in 0 .. MaxTurns /\ MaxTurns \in 0 .. MaxTurns /\ 0 \in 0 .. MaxCalls
    BY <2>1
  <2>4. api \in {"anthropic", "openai", "antigravity", "echo"} /\ refreshable \in BOOLEAN
    BY DEF LoopInit
  <2>5. /\ at = "created" /\ turn = 0 /\ retriedTurn = MaxTurns /\ toRun = 0 /\ unanswered = 0
        /\ cancelled = FALSE /\ result = "none" /\ complete = "none"
        /\ requests = 0 /\ ran = 0 /\ toolCalls = 0 /\ spent = 0 /\ usage = 0 /\ recorded = 0
        /\ unwritten = FALSE
    BY DEF LoopInit, Never
  <2>6. {requests, ran, toolCalls, spent, usage, recorded} \subseteq Nat
    BY ONLY <2>5
  <2> QED
    BY ONLY <2>2, <2>3, <2>4, <2>5, <2>6 DEF LoopTypeOK, Statuses
<1>2. TurnsFit /\ ToolsFit /\ BooksFit /\ OutcomeFits
  BY DEF LoopInit, TurnsFit, ToolsFit, BooksFit, OutcomeFits, InTools, IsOver
<1>3. RequestsFit
  BY DEF LoopInit, RequestsFit, Detours, Repeated, Never
<1> QED
  BY <1>1, <1>2, <1>3 DEF LoopInv

LEMMA LoopSteps == LoopInv /\ [LoopNext]_loopVars => LoopInv'
<1> SUFFICES ASSUME LoopInv, [LoopNext]_loopVars PROVE LoopInv'
  OBVIOUS
<1> USE DEF bill
<1> USE DEF Given, counters, outcome
<1>a. LoopTypeOK /\ TurnsFit /\ RequestsFit /\ ToolsFit /\ BooksFit /\ OutcomeFits
  BY DEF LoopInv
<1>b. /\ {MaxTurns, MaxCalls, ToolLimit, TokenBudget, Endpoints} \subseteq Nat
      /\ {turn, retriedTurn, endpoint, toRun, unanswered, requests, ran, toolCalls, spent, usage, recorded} \subseteq Nat
      /\ turn <= MaxTurns /\ retriedTurn <= MaxTurns /\ endpoint >= 1 /\ endpoint <= Endpoints
      /\ toRun <= MaxCalls /\ unanswered <= MaxCalls /\ MaxTurns > 0
  BY <1>a, LoopNumbers
<1>1. CASE Start
  <2>1. LoopTypeOK'
    BY <1>a, <1>b, <1>1 DEF Start, LoopTypeOK, Statuses, TurnsFit, InTools, Settled
  <2>2. TurnsFit'
    BY <1>a, <1>b, <1>1 DEF Start, TurnsFit, InTools
  <2>3. RequestsFit'
    BY <1>a, <1>b, <1>1 DEF Start, RequestsFit, Detours, Repeated, TurnsFit, InTools
  <2>4. ToolsFit'
    BY <1>a, <1>b, <1>1 DEF Start, ToolsFit, Remaining, TurnsFit, InTools
  <2>5. BooksFit'
    BY <1>a, <1>b, <1>1 DEF Start, BooksFit, OutcomeFits, IsOver, Settled
  <2>6. OutcomeFits'
    BY <1>a, <1>b, <1>1 DEF Start, OutcomeFits, BooksFit, IsOver, Settled, LoopTypeOK
  <2> QED
    BY <2>1, <2>2, <2>3, <2>4, <2>5, <2>6 DEF LoopInv
<1>2. CASE Echo
  <2>1. LoopTypeOK'
    BY <1>a, <1>b, <1>2 DEF Echo, LoopTypeOK, Statuses, TurnsFit, InTools, Settled
  <2>2. TurnsFit'
    BY <1>a, <1>b, <1>2 DEF Echo, TurnsFit, InTools
  <2>3. RequestsFit'
    BY <1>a, <1>b, <1>2 DEF Echo, RequestsFit, Detours, Repeated, TurnsFit, InTools
  <2>4. ToolsFit'
    BY <1>a, <1>b, <1>2 DEF Echo, ToolsFit, Remaining, TurnsFit, InTools
  <2>5. BooksFit'
    BY <1>a, <1>b, <1>2 DEF Echo, BooksFit, OutcomeFits, IsOver, Settled
  <2>6. OutcomeFits'
    BY <1>a, <1>b, <1>2 DEF Echo, OutcomeFits, BooksFit, IsOver, Settled, LoopTypeOK
  <2> QED
    BY <2>1, <2>2, <2>3, <2>4, <2>5, <2>6 DEF LoopInv
<1>3. CASE NextTurn
  <2>1. LoopTypeOK'
    BY <1>a, <1>b, <1>3 DEF NextTurn, LoopTypeOK, Statuses, TurnsFit, InTools, Settled
  <2>2. TurnsFit'
    BY <1>a, <1>b, <1>3 DEF NextTurn, TurnsFit, InTools
  <2>3. RequestsFit'
    BY <1>a, <1>b, <1>3 DEF NextTurn, RequestsFit, Detours, Repeated, TurnsFit, InTools
  <2>4. ToolsFit'
    BY <1>a, <1>b, <1>3 DEF NextTurn, ToolsFit, Remaining, TurnsFit, InTools
  <2>5. BooksFit'
    BY <1>a, <1>b, <1>3 DEF NextTurn, BooksFit, OutcomeFits, IsOver, Settled
  <2>6. OutcomeFits'
    BY <1>a, <1>b, <1>3 DEF NextTurn, OutcomeFits, BooksFit, IsOver, Settled, LoopTypeOK
  <2> QED
    BY <2>1, <2>2, <2>3, <2>4, <2>5, <2>6 DEF LoopInv
<1>4. CASE StreamEnds
  <2>1. LoopTypeOK'
    BY <1>a, <1>b, <1>4 DEF StreamEnds, LoopTypeOK, Statuses, TurnsFit, InTools, Settled
  <2>2. TurnsFit'
    BY <1>a, <1>b, <1>4 DEF StreamEnds, TurnsFit, InTools
  <2>3. RequestsFit'
    BY <1>a, <1>b, <1>4 DEF StreamEnds, RequestsFit, Detours, Repeated, TurnsFit, InTools
  <2>4. ToolsFit'
    BY <1>a, <1>b, <1>4 DEF StreamEnds, ToolsFit, Remaining, TurnsFit, InTools
  <2>5. BooksFit'
    BY <1>a, <1>b, <1>4 DEF StreamEnds, BooksFit, OutcomeFits, IsOver, Settled
  <2>6. OutcomeFits'
    BY <1>a, <1>b, <1>4 DEF StreamEnds, OutcomeFits, BooksFit, IsOver, Settled, LoopTypeOK
  <2> QED
    BY <2>1, <2>2, <2>3, <2>4, <2>5, <2>6 DEF LoopInv
<1>5. CASE Unauthorised
  <2>1. LoopTypeOK'
    BY <1>a, <1>b, <1>5 DEF Unauthorised, LoopTypeOK, Statuses, TurnsFit, InTools, Settled
  <2>2. TurnsFit'
    BY <1>a, <1>b, <1>5 DEF Unauthorised, TurnsFit, InTools
  <2>3. RequestsFit'
    BY <1>a, <1>b, <1>5 DEF Unauthorised, RequestsFit, Detours, Repeated, TurnsFit, InTools
  <2>4. ToolsFit'
    BY <1>a, <1>b, <1>5 DEF Unauthorised, ToolsFit, Remaining, TurnsFit, InTools
  <2>5. BooksFit'
    BY <1>a, <1>b, <1>5 DEF Unauthorised, BooksFit, OutcomeFits, IsOver, Settled
  <2>6. OutcomeFits'
    BY <1>a, <1>b, <1>5 DEF Unauthorised, OutcomeFits, BooksFit, IsOver, Settled, LoopTypeOK
  <2> QED
    BY <2>1, <2>2, <2>3, <2>4, <2>5, <2>6 DEF LoopInv
<1>6. CASE Refreshed
  <2>1. LoopTypeOK'
    BY <1>a, <1>b, <1>6 DEF Refreshed, LoopTypeOK, Statuses, TurnsFit, InTools, Settled
  <2>2. TurnsFit'
    BY <1>a, <1>b, <1>6 DEF Refreshed, TurnsFit, InTools
  <2>3. RequestsFit'
    BY <1>a, <1>b, <1>6 DEF Refreshed, RequestsFit, Detours, Repeated, TurnsFit, InTools
  <2>4. ToolsFit'
    BY <1>a, <1>b, <1>6 DEF Refreshed, ToolsFit, Remaining, TurnsFit, InTools
  <2>5. BooksFit'
    BY <1>a, <1>b, <1>6 DEF Refreshed, BooksFit, OutcomeFits, IsOver, Settled
  <2>6. OutcomeFits'
    BY <1>a, <1>b, <1>6 DEF Refreshed, OutcomeFits, BooksFit, IsOver, Settled, LoopTypeOK
  <2> QED
    BY <2>1, <2>2, <2>3, <2>4, <2>5, <2>6 DEF LoopInv
<1>7. CASE StreamFails
  <2>1. LoopTypeOK'
    BY <1>a, <1>b, <1>7 DEF StreamFails, LoopTypeOK, Statuses, TurnsFit, InTools, Settled
  <2>2. TurnsFit'
    BY <1>a, <1>b, <1>7 DEF StreamFails, TurnsFit, InTools
  <2>3. RequestsFit'
    BY <1>a, <1>b, <1>7 DEF StreamFails, RequestsFit, Detours, Repeated, TurnsFit, InTools
  <2>4. ToolsFit'
    BY <1>a, <1>b, <1>7 DEF StreamFails, ToolsFit, Remaining, TurnsFit, InTools
  <2>5. BooksFit'
    BY <1>a, <1>b, <1>7 DEF StreamFails, BooksFit, OutcomeFits, IsOver, Settled
  <2>6. OutcomeFits'
    BY <1>a, <1>b, <1>7 DEF StreamFails, OutcomeFits, BooksFit, IsOver, Settled, LoopTypeOK
  <2> QED
    BY <2>1, <2>2, <2>3, <2>4, <2>5, <2>6 DEF LoopInv
<1>8. CASE UseTool
  <2>1. LoopTypeOK'
    <3>1. {result, complete} \subseteq Statuses
      BY <1>a DEF LoopTypeOK
    <3>2. {result', complete'} \subseteq Statuses /\ cancelled' \in BOOLEAN
      BY <3>1, <1>a, <1>8 DEF UseTool, LoopTypeOK, Settled, Statuses
    <3>3. {requests', ran', toolCalls', spent', usage', recorded'} \subseteq Nat
      BY <1>b, <1>8 DEF UseTool
    <3>4. at' = "running" /\ UNCHANGED <<unwritten, api, refreshable, turn, retriedTurn, endpoint, toRun, unanswered>>
      BY <1>8 DEF UseTool
    <3> QED
      BY <1>a, <3>2, <3>3, <3>4 DEF LoopTypeOK
  <2>2. TurnsFit'
    BY <1>a, <1>b, <1>8 DEF UseTool, TurnsFit, InTools
  <2>3. RequestsFit'
    BY <1>a, <1>b, <1>8 DEF UseTool, RequestsFit, Detours, Repeated, TurnsFit, InTools
  <2>4. ToolsFit'
    BY <1>a, <1>b, <1>8 DEF UseTool, ToolsFit, Remaining, TurnsFit, InTools
  <2>5. BooksFit'
    BY <1>a, <1>b, <1>8 DEF UseTool, BooksFit, OutcomeFits, IsOver, Settled
  <2>6. OutcomeFits'
    BY <1>a, <1>b, <1>8 DEF UseTool, OutcomeFits, BooksFit, IsOver, Settled, LoopTypeOK
  <2> QED
    BY <2>1, <2>2, <2>3, <2>4, <2>5, <2>6 DEF LoopInv
<1>9. CASE ToolEnds
  <2>1. LoopTypeOK'
    BY <1>a, <1>b, <1>9 DEF ToolEnds, LoopTypeOK, Statuses, TurnsFit, InTools, Settled
  <2>2. TurnsFit'
    BY <1>a, <1>b, <1>9 DEF ToolEnds, TurnsFit, InTools
  <2>3. RequestsFit'
    BY <1>a, <1>b, <1>9 DEF ToolEnds, RequestsFit, Detours, Repeated, TurnsFit, InTools
  <2>4. ToolsFit'
    BY <1>a, <1>b, <1>9 DEF ToolEnds, ToolsFit, Remaining, TurnsFit, InTools
  <2>5. BooksFit'
    BY <1>a, <1>b, <1>9 DEF ToolEnds, BooksFit, OutcomeFits, IsOver, Settled
  <2>6. OutcomeFits'
    BY <1>a, <1>b, <1>9 DEF ToolEnds, OutcomeFits, BooksFit, IsOver, Settled, LoopTypeOK
  <2> QED
    BY <2>1, <2>2, <2>3, <2>4, <2>5, <2>6 DEF LoopInv
<1>10. CASE ReportUsage
  <2>1. LoopTypeOK'
    BY <1>a, <1>b, <1>10 DEF ReportUsage, LoopTypeOK, Statuses, TurnsFit, InTools, Settled
  <2>2. TurnsFit'
    BY <1>a, <1>b, <1>10 DEF ReportUsage, TurnsFit, InTools
  <2>3. RequestsFit'
    BY <1>a, <1>b, <1>10 DEF ReportUsage, RequestsFit, Detours, Repeated, TurnsFit, InTools
  <2>4. ToolsFit'
    BY <1>a, <1>b, <1>10 DEF ReportUsage, ToolsFit, Remaining, TurnsFit, InTools
  <2>5. BooksFit'
    BY <1>a, <1>b, <1>10 DEF ReportUsage, BooksFit, OutcomeFits, IsOver, Settled
  <2>6. OutcomeFits'
    BY <1>a, <1>b, <1>10 DEF ReportUsage, OutcomeFits, BooksFit, IsOver, Settled, LoopTypeOK
  <2> QED
    BY <2>1, <2>2, <2>3, <2>4, <2>5, <2>6 DEF LoopInv
<1>11. CASE Complete
  <2>1. LoopTypeOK'
    BY <1>a, <1>b, <1>11 DEF Complete, LoopTypeOK, Statuses, TurnsFit, InTools, Settled
  <2>2. TurnsFit'
    BY <1>a, <1>b, <1>11 DEF Complete, TurnsFit, InTools
  <2>3. RequestsFit'
    BY <1>a, <1>b, <1>11 DEF Complete, RequestsFit, Detours, Repeated, TurnsFit, InTools
  <2>4. ToolsFit'
    BY <1>a, <1>b, <1>11 DEF Complete, ToolsFit, Remaining, TurnsFit, InTools
  <2>5. BooksFit'
    BY <1>a, <1>b, <1>11 DEF Complete, BooksFit, OutcomeFits, IsOver, Settled
  <2>6. OutcomeFits'
    BY <1>a, <1>b, <1>11 DEF Complete, OutcomeFits, BooksFit, IsOver, Settled, LoopTypeOK
  <2> QED
    BY <2>1, <2>2, <2>3, <2>4, <2>5, <2>6 DEF LoopInv
<1>12. CASE Fail
  <2>1. LoopTypeOK'
    BY <1>a, <1>b, <1>12 DEF Fail, LoopTypeOK, Statuses, TurnsFit, InTools, Settled
  <2>2. TurnsFit'
    BY <1>a, <1>b, <1>12 DEF Fail, TurnsFit, InTools
  <2>3. RequestsFit'
    BY <1>a, <1>b, <1>12 DEF Fail, RequestsFit, Detours, Repeated, TurnsFit, InTools
  <2>4. ToolsFit'
    BY <1>a, <1>b, <1>12 DEF Fail, ToolsFit, Remaining, TurnsFit, InTools
  <2>5. BooksFit'
    BY <1>a, <1>b, <1>12 DEF Fail, BooksFit, OutcomeFits, IsOver, Settled
  <2>6. OutcomeFits'
    BY <1>a, <1>b, <1>12 DEF Fail, OutcomeFits, BooksFit, IsOver, Settled, LoopTypeOK
  <2> QED
    BY <2>1, <2>2, <2>3, <2>4, <2>5, <2>6 DEF LoopInv
<1>13. CASE Record
  <2>1. LoopTypeOK'
    BY <1>a, <1>b, <1>13 DEF Record, LoopTypeOK, Statuses, TurnsFit, InTools, Settled
  <2>2. TurnsFit'
    BY <1>a, <1>b, <1>13 DEF Record, TurnsFit, InTools
  <2>3. RequestsFit'
    BY <1>a, <1>b, <1>13 DEF Record, RequestsFit, Detours, Repeated, TurnsFit, InTools
  <2>4. ToolsFit'
    BY <1>a, <1>b, <1>13 DEF Record, ToolsFit, Remaining, TurnsFit, InTools
  <2>5. BooksFit'
    BY <1>a, <1>b, <1>13 DEF Record, BooksFit, OutcomeFits, IsOver, Settled
  <2>6. OutcomeFits'
    BY <1>a, <1>b, <1>13 DEF Record, OutcomeFits, BooksFit, IsOver, Settled, LoopTypeOK
  <2> QED
    BY <2>1, <2>2, <2>3, <2>4, <2>5, <2>6 DEF LoopInv
<1>14. CASE cancel
  <2>1. LoopTypeOK'
    BY <1>a, <1>b, <1>14 DEF cancel, LoopTypeOK, Statuses, TurnsFit, InTools, Settled
  <2>2. TurnsFit'
    BY <1>a, <1>b, <1>14 DEF cancel, TurnsFit, InTools
  <2>3. RequestsFit'
    BY <1>a, <1>b, <1>14 DEF cancel, RequestsFit, Detours, Repeated, TurnsFit, InTools
  <2>4. ToolsFit'
    BY <1>a, <1>b, <1>14 DEF cancel, ToolsFit, Remaining, TurnsFit, InTools
  <2>5. BooksFit'
    BY <1>a, <1>b, <1>14 DEF cancel, BooksFit, OutcomeFits, IsOver, Settled
  <2>6. OutcomeFits'
    BY <1>a, <1>b, <1>14 DEF cancel, OutcomeFits, BooksFit, IsOver, Settled, LoopTypeOK
  <2> QED
    BY <2>1, <2>2, <2>3, <2>4, <2>5, <2>6 DEF LoopInv
<1>16. CASE ConsumerThrows
  <2>1. LoopTypeOK'
    BY <1>a, <1>b, <1>16 DEF ConsumerThrows, LoopTypeOK, Statuses, TurnsFit, InTools, Settled
  <2>2. TurnsFit'
    BY <1>a, <1>b, <1>16 DEF ConsumerThrows, TurnsFit, InTools
  <2>3. RequestsFit'
    BY <1>a, <1>b, <1>16 DEF ConsumerThrows, RequestsFit, Detours, Repeated, TurnsFit, InTools
  <2>4. ToolsFit'
    BY <1>a, <1>b, <1>16 DEF ConsumerThrows, ToolsFit, Remaining, TurnsFit, InTools
  <2>5. BooksFit'
    BY <1>a, <1>b, <1>16 DEF ConsumerThrows, BooksFit, OutcomeFits, IsOver, Settled
  <2>6. OutcomeFits'
    BY <1>a, <1>b, <1>16 DEF ConsumerThrows, OutcomeFits, BooksFit, IsOver, Settled, LoopTypeOK
  <2> QED
    BY <2>1, <2>2, <2>3, <2>4, <2>5, <2>6 DEF LoopInv
<1>15. CASE UNCHANGED loopVars
  BY <1>a, <1>15 DEF loopVars, LoopInv, LoopTypeOK, Statuses, TurnsFit, RequestsFit, ToolsFit, BooksFit, OutcomeFits,
     Repeated, Detours, Remaining, InTools, IsOver
<1> QED
  BY <1>1, <1>2, <1>3, <1>4, <1>5, <1>6, <1>7, <1>8, <1>9, <1>10, <1>11, <1>12, <1>13, <1>14, <1>15, <1>16 DEF LoopNext, LoopStep

LEMMA LoopSound ==
  LoopInv => /\ LoopTypeOK /\ CallsAreAnswered /\ RequestsBounded /\ ToolOvershoot
             /\ CompletedIsPaid /\ LastEventIsResult
<1> SUFFICES ASSUME LoopInv
             PROVE  /\ LoopTypeOK /\ CallsAreAnswered /\ RequestsBounded /\ ToolOvershoot
                    /\ CompletedIsPaid /\ LastEventIsResult
  OBVIOUS
<1>1. LoopTypeOK /\ TurnsFit /\ RequestsFit /\ ToolsFit /\ BooksFit /\ OutcomeFits
  BY DEF LoopInv
<1>2. CallsAreAnswered /\ CompletedIsPaid /\ LastEventIsResult
  BY <1>1 DEF CallsAreAnswered, CompletedIsPaid, LastEventIsResult, TurnsFit, BooksFit, OutcomeFits, InTools
<1>3. RequestsBounded
  BY <1>1, LoopNumbers DEF RequestsFit, TurnsFit, Detours, Repeated, RequestsBounded
<1>4. ToolOvershoot
  BY <1>1, LoopNumbers DEF ToolsFit, TurnsFit, Remaining, InTools, ToolOvershoot
<1> QED
  BY <1>1, <1>2, <1>3, <1>4

\* No step of a cancelled execution asks the model.
LEMMA LoopAsksNoMore == LoopInv /\ [LoopNext]_loopVars => (cancelled => requests' = requests)
BY DEF LoopNext, LoopStep, loopVars, cancel, Start, Echo, NextTurn, StreamEnds, Unauthorised, Refreshed, StreamFails, UseTool, ToolEnds, ReportUsage, Complete, Fail, Record,
   ConsumerThrows, bill

(*****************************************************************************)
(* An execution by the process of a CLI: its output, its end, and what is    *)
(* read of both.                                                             *)
(*****************************************************************************)

\* Where the reader stands, what was settled and what was told by then.
ReaderFits ==
  /\ exitSeen \/ output = "ended" \/ reader \in {"exiting", "building", "over", "recorded"} => ~process.alive
  /\ reader \in {"exiting", "building", "over", "recorded"} => output = "ended"
  /\ reader \in {"reading", "exiting", "building"} => cliComplete = "none" /\ cliResult \in {"none", "cancelled"}
  /\ reader = "completing" => cliComplete = "completed" /\ cliResult \in {"none", "cancelled"}
  /\ reader \in {"completing", "draining"} => process.wrote
  /\ reader = "draining" => cliComplete = "completed" /\ cliResult \in {"completed", "cancelled"}
  /\ cliResult = "failed" => ~process.alive
  /\ reader \in {"exiting", "building"} => ~process.wrote
  /\ cliResult = "none" => reader \notin {"draining", "recorded"}
  /\ process.alive => process.code = "null"
  /\ process.alive => cliTimer = "armed" \/ killed

CliInv == CliTypeOK /\ ReaderFits /\ CliLastEvent /\ ResultIsEarned

LEMMA CliStarts == CliInit => CliInv
<1> SUFFICES ASSUME CliInit PROVE CliInv
  OBVIOUS
<1>1. process.alive = TRUE /\ process.wrote = FALSE /\ process.code = "null"
  BY DEF CliInit
<1>2. process \in [alive : BOOLEAN, wrote : BOOLEAN, code : Codes]
  BY DEF CliInit, Codes
<1>3. CliTypeOK
  BY <1>2 DEF CliInit, CliTypeOK
<1>4. ReaderFits /\ CliLastEvent /\ ResultIsEarned
  BY <1>1 DEF CliInit, ReaderFits, CliLastEvent, ResultIsEarned
<1> QED
  BY <1>3, <1>4 DEF CliInv

LEMMA CliSteps == CliInv /\ [CliNext]_cliVars => CliInv'
<1> SUFFICES ASSUME CliInv, [CliNext]_cliVars PROVE CliInv'
  OBVIOUS
<1> USE DEF CliInv, CliTypeOK, ReaderFits, CliLastEvent, ResultIsEarned, Codes, SettledCli
<1>1. CASE WriteResult
  BY <1>1 DEF WriteResult
<1>2. CASE Exit
  BY <1>2 DEF Exit
<1>3. CASE ExitEvent
  BY <1>3 DEF ExitEvent
<1>4. CASE OutputEnds
  BY <1>4 DEF OutputEnds
<1>5. CASE TimeOut
  BY <1>5 DEF TimeOut
<1>6. CASE cancelCli
  BY <1>6 DEF cancelCli
<1>7. CASE CancelGivesUp
  BY <1>7 DEF CancelGivesUp
<1>8. CASE ReadResult
  BY <1>8 DEF ReadResult
<1>9. CASE SettleRead
  BY <1>9 DEF SettleRead
<1>10. CASE EndOfOutput
  BY <1>10 DEF EndOfOutput
<1>11. CASE BuildResult
  BY <1>11 DEF BuildResult, StatusOfExit
<1>12. CASE RecordCli
  BY <1>12 DEF RecordCli
<1>13. CASE UNCHANGED cliVars
  BY <1>13 DEF cliVars
<1>14. CASE Throw
  BY <1>14 DEF Throw
<1> QED
  BY <1>1, <1>2, <1>3, <1>4, <1>5, <1>6, <1>7, <1>8, <1>9, <1>10, <1>11, <1>12, <1>13, <1>14
  DEF CliNext, ReaderStep

LEMMA CliSound == CliInv => CliTypeOK /\ NoOrphan /\ CliLastEvent /\ ResultIsEarned
BY DEF CliInv, ReaderFits, NoOrphan

(*****************************************************************************)
(* The costs of jobs and the batches of their events.                        *)
(*****************************************************************************)

Emitted(e) == e \in buffer \/ e \in rows \/ e \in lost \/ \E p \in flights : e \in p

\* How far the handling of a job is, when an event of it was emitted.
EventsFit ==
  \A j \in Spenders :
    /\ Emitted(<<"session_end", j>>) => stage[j] \in {"completed", "cancelled"}
    /\ Emitted(<<"llm_call_end", j>>) => stage[j] \in {"called", "completed", "cancelled"}
    /\ Emitted(<<"alert", j>>) => stage[j] \notin {"running", "charged"}
    /\ Emitted(<<"daily", j>>) => stage[j] \in {"tracked", "called", "completed", "cancelled"}

\* EventsAreOnce, event by event.
OnePlaceEach ==
  /\ \A p, q \in flights : p # q => \A e \in p : e \notin q
  /\ \A e \in buffer : e \notin rows /\ e \notin lost /\ \A p \in flights : e \notin p
  /\ \A p \in flights : \A e \in p : e \notin rows /\ e \notin lost
  /\ \A e \in rows : e \notin lost

EventsKept ==
  /\ buffer \subseteq Events /\ flights \subseteq SUBSET Events /\ rows \subseteq Events /\ lost \subseteq Events
  /\ {timer, exiting} \subseteq BOOLEAN
  /\ OnePlaceEach /\ BufferHasFlush

BooksKept ==
  /\ stage \in [Spenders -> {"running", "charged", "shared", "tracked", "called", "completed", "cancelled",
                         "failed"}]
  /\ {price, reported, jobCost} \subseteq [Spenders -> Nat] /\ sessionCost \in Nat
  /\ {exceeded, checked} \subseteq [Spenders -> BOOLEAN]

SpendInv == BooksKept /\ EventsKept /\ EventsFit

LEMMA SpendStarts == SpendInit => SpendInv
<1> SUFFICES ASSUME SpendInit PROVE SpendInv
  OBVIOUS
<1>1. price \in [Spenders -> Nat] /\ reported \in [Spenders -> Nat]
  <2>1. price \in [Spenders -> Prices] /\ Prices \subseteq Nat
    BY SpendingAssumption DEF SpendInit
  <2>2. price \in [Spenders -> Nat]
    BY <2>1
  <2> QED
    BY <2>2 DEF SpendInit
<1>2. BooksKept
  BY <1>1 DEF SpendInit, BooksKept
<1>3. EventsKept /\ EventsFit
  BY DEF SpendInit, EventsKept, EventsFit, Emitted, OnePlaceEach, BufferHasFlush
<1> QED
  BY <1>2, <1>3 DEF SpendInv

LEMMA EventsOfJobs ==
  \A j \in Spenders : /\ <<"llm_call_end", j>> \in Events /\ <<"alert", j>> \in Events
                      /\ <<"session_end", j>> \in Events /\ <<"daily", j>> \in Events
BY DEF Events

\* What is emitted for the first time is in the buffer, and nowhere else.
LEMMA EnqueueKeeps ==
  ASSUME EventsKept, NEW new, new \subseteq Events, \A e \in new : ~Emitted(e), enqueue(new)
  PROVE  EventsKept' /\ \A e : Emitted(e)' => Emitted(e) \/ e \in new
<1>1. buffer' = buffer \cup new /\ flights' = flights /\ rows' = rows /\ lost' = lost /\ exiting' = exiting
  BY DEF enqueue
<1>2. timer' \in BOOLEAN /\ (buffer' # {} => timer')
  BY DEF enqueue, EventsKept, BufferHasFlush
<1>3. OnePlaceEach'
  BY <1>1 DEF EventsKept, OnePlaceEach, Emitted
<1>4. buffer' \subseteq Events
  BY <1>1 DEF EventsKept
<1>5. EventsKept'
  BY <1>1, <1>2, <1>3, <1>4 DEF EventsKept, BufferHasFlush
<1>6. \A e : Emitted(e)' => Emitted(e) \/ e \in new
  BY <1>1 DEF Emitted
<1> QED
  BY <1>5, <1>6

LEMMA EmitterRests ==
  ASSUME EventsKept, UNCHANGED emitter
  PROVE  EventsKept' /\ \A e : Emitted(e)' => Emitted(e)
BY DEF emitter, EventsKept, OnePlaceEach, BufferHasFlush, Emitted

\* A batch on its way to the table holds what the buffer held.
LEMMA FlushKeeps ==
  ASSUME EventsKept, flush
  PROVE  EventsKept' /\ \A e : Emitted(e)' => Emitted(e)
<1>1. /\ timer' = FALSE /\ buffer' = {} /\ flights' = flights \cup {buffer}
      /\ rows' = rows /\ lost' = lost /\ exiting' = exiting
  BY DEF flush
<1>2. OnePlaceEach'
  BY <1>1 DEF EventsKept, OnePlaceEach
<1>3. flights' \subseteq SUBSET Events
  BY <1>1 DEF EventsKept
<1>4. EventsKept'
  BY <1>1, <1>2, <1>3 DEF EventsKept, BufferHasFlush
<1>5. \A e : Emitted(e)' => Emitted(e)
  BY <1>1 DEF Emitted
<1> QED
  BY <1>4, <1>5

\* Its end moves it to the table, or to what is lost.
LEMMA InsertKeeps ==
  ASSUME EventsKept, InsertEnds
  PROVE  EventsKept' /\ \A e : Emitted(e)' => Emitted(e)
<1>1. PICK batch \in flights : Insert(batch) \/ InsertFails(batch)
  BY DEF InsertEnds
<1>2. flights' = flights \ {batch} /\ buffer' = buffer /\ timer' = timer
  BY <1>1 DEF Insert, InsertFails
<1>3. \/ rows' = rows \cup batch /\ lost' = lost
      \/ rows' = rows /\ lost' = lost \cup batch
  BY <1>1 DEF Insert, InsertFails
<1>4. exiting' \in BOOLEAN
  BY <1>1 DEF Insert, InsertFails, EventsKept
<1>5. OnePlaceEach'
  BY <1>1, <1>2, <1>3 DEF EventsKept, OnePlaceEach
<1>6. batch \subseteq Events
  BY <1>1 DEF EventsKept
<1>7. flights' \subseteq SUBSET Events /\ rows' \subseteq Events /\ lost' \subseteq Events
  BY <1>2, <1>3, <1>6 DEF EventsKept
<1>8. EventsKept'
  BY <1>2, <1>4, <1>5, <1>7 DEF EventsKept, BufferHasFlush
<1>9. \A e : Emitted(e)' => Emitted(e)
  BY <1>1, <1>2, <1>3 DEF Emitted
<1> QED
  BY <1>8, <1>9

LEMMA SpendSteps == SpendInv /\ [SpendNext]_spendVars => SpendInv'
<1> SUFFICES ASSUME SpendInv, [SpendNext]_spendVars PROVE SpendInv'
  OBVIOUS
<1>a. BooksKept /\ EventsKept /\ EventsFit
  BY DEF SpendInv
<1>1. ASSUME NEW j \in Spenders, EndUncharged(j) \/ ChargeJob(j) \/ RecordFails(j)
      PROVE  SpendInv'
  <2>1. EventsKept' /\ \A e : Emitted(e)' => Emitted(e)
    BY <1>a, <1>1, EmitterRests DEF EndUncharged, ChargeJob, RecordFails
  <2>2. EventsFit'
    BY <1>a, <1>1, <2>1 DEF EndUncharged, ChargeJob, RecordFails, EventsFit, BooksKept
  <2>3. price[j] \in Nat /\ jobCost[j] \in Nat
    BY <1>a DEF BooksKept
  <2>4. jobCost' \in [Spenders -> Nat]
    BY <1>a, <1>1, <2>3 DEF EndUncharged, ChargeJob, RecordFails, BooksKept
  <2>5. stage' \in [Spenders -> {"running", "charged", "shared", "tracked", "called", "completed", "cancelled",
                         "failed"}]
    BY <1>a, <1>1 DEF EndUncharged, ChargeJob, RecordFails, BooksKept
  <2>6. exceeded' \in [Spenders -> BOOLEAN] /\ UNCHANGED <<price, reported, sessionCost, checked>>
    BY <1>a, <1>1 DEF EndUncharged, ChargeJob, RecordFails, BooksKept
  <2>7. BooksKept'
    BY <1>a, <2>4, <2>5, <2>6 DEF BooksKept
  <2> QED
    BY <2>1, <2>2, <2>7 DEF SpendInv
<1>2. ASSUME NEW j \in Spenders, ChargeSession(j)
      PROVE  SpendInv'
  <2> DEFINE new == IF Alerts(jobCost[j], JobLimit) \/ Alerts(sessionCost', SessionLimit)
                    THEN {<<"alert", j>>} ELSE {}
  <2>1. enqueue(new) /\ stage[j] = "charged" /\ stage' = [stage EXCEPT ![j] = "shared"]
    BY <1>2 DEF ChargeSession
  <2>2. new \subseteq {<<"alert", j>>}
    OBVIOUS
  <2> HIDE DEF new
  <2>3. new \subseteq Events /\ \A e \in new : ~Emitted(e)
    BY <1>a, <2>1, <2>2, EventsOfJobs DEF EventsFit
  <2>4. EventsKept' /\ \A e : Emitted(e)' => Emitted(e) \/ e \in new
    BY <1>a, <2>1, <2>3, EnqueueKeeps
  <2>5. /\ \A k : <<"llm_call_end", k>> \notin new /\ <<"session_end", k>> \notin new /\ <<"daily", k>> \notin new
        /\ \A k : <<"alert", k>> \in new => k = j
    BY <2>2
  <2>7. EventsFit'
    BY <1>a, <2>1, <2>4, <2>5 DEF EventsFit, BooksKept
  <2>6. BooksKept'
    BY <1>a, <1>2 DEF ChargeSession, BooksKept, Exceeds
  <2> QED
    BY <2>4, <2>6, <2>7 DEF SpendInv
<1>3. ASSUME NEW j \in Spenders, CheckDay(j)
      PROVE  SpendInv'
  <2> DEFINE new == IF Alerts(DailyCost, DayLimit) THEN {<<"daily", j>>} ELSE {}
  <2>1. enqueue(new) /\ stage[j] = "shared" /\ stage' = [stage EXCEPT ![j] = "tracked"]
    BY <1>3 DEF CheckDay
  <2>2. new \subseteq {<<"daily", j>>}
    OBVIOUS
  <2> HIDE DEF new
  <2>3. new \subseteq Events /\ \A e \in new : ~Emitted(e)
    BY <1>a, <2>1, <2>2, EventsOfJobs DEF EventsFit
  <2>4. EventsKept' /\ \A e : Emitted(e)' => Emitted(e) \/ e \in new
    BY <1>a, <2>1, <2>3, EnqueueKeeps
  <2>5. /\ \A k : <<"llm_call_end", k>> \notin new /\ <<"alert", k>> \notin new /\ <<"session_end", k>> \notin new
        /\ \A k : <<"daily", k>> \in new => k = j
    BY <2>2
  <2>7. EventsFit'
    BY <1>a, <2>1, <2>4, <2>5 DEF EventsFit, BooksKept
  <2>6. BooksKept'
    BY <1>a, <1>3 DEF CheckDay, BooksKept, Exceeds
  <2> QED
    BY <2>4, <2>6, <2>7 DEF SpendInv
<1>4. ASSUME NEW j \in Spenders, EndCall(j)
      PROVE  SpendInv'
  <2> DEFINE new == {<<"llm_call_end", j>>}
  <2>1. enqueue(new) /\ stage[j] = "tracked" /\ stage' = [stage EXCEPT ![j] = "called"]
    BY <1>4 DEF EndCall
  <2>2. new \subseteq {<<"llm_call_end", j>>}
    OBVIOUS
  <2> HIDE DEF new
  <2>3. new \subseteq Events /\ \A e \in new : ~Emitted(e)
    BY <1>a, <2>1, <2>2, EventsOfJobs DEF EventsFit
  <2>4. EventsKept' /\ \A e : Emitted(e)' => Emitted(e) \/ e \in new
    BY <1>a, <2>1, <2>3, EnqueueKeeps
  <2>5. /\ \A k : <<"session_end", k>> \notin new /\ <<"alert", k>> \notin new /\ <<"daily", k>> \notin new
        /\ \A k : <<"llm_call_end", k>> \in new => k = j
    BY <2>2
  <2>7. EventsFit'
    BY <1>a, <2>1, <2>4, <2>5 DEF EventsFit, BooksKept
  <2>6. BooksKept'
    BY <1>a, <1>4 DEF EndCall, BooksKept
  <2> QED
    BY <2>4, <2>6, <2>7 DEF SpendInv
<1>7. ASSUME NEW j \in Spenders, EndJob(j)
      PROVE  SpendInv'
  <2> DEFINE new == IF reported[j] > 0 THEN {<<"session_end", j>>} ELSE {}
  <2>1. /\ enqueue(new) /\ stage[j] = "called"
        /\ UNCHANGED <<price, reported, exceeded, checked, jobCost, sessionCost>>
    BY <1>7 DEF EndJob
  <2>a. PICK s \in {"completed", "cancelled"} : stage' = [stage EXCEPT ![j] = s]
    BY <1>7 DEF EndJob
  <2>2. new \subseteq {<<"session_end", j>>}
    OBVIOUS
  <2> HIDE DEF new
  <2>3. new \subseteq Events /\ \A e \in new : ~Emitted(e)
    BY <1>a, <2>1, <2>2, EventsOfJobs DEF EventsFit
  <2>4. EventsKept' /\ \A e : Emitted(e)' => Emitted(e) \/ e \in new
    BY <1>a, <2>1, <2>3, EnqueueKeeps
  <2>5. /\ \A k : <<"llm_call_end", k>> \notin new /\ <<"alert", k>> \notin new /\ <<"daily", k>> \notin new
        /\ \A k : <<"session_end", k>> \in new => k = j
    BY <2>2
  <2>7. EventsFit'
    BY <1>a, <2>1, <2>a, <2>4, <2>5 DEF EventsFit, BooksKept
  <2>6. BooksKept'
    BY <1>a, <2>1, <2>a DEF BooksKept
  <2> QED
    BY <2>4, <2>6, <2>7 DEF SpendInv
<1>5. CASE flush \/ InsertEnds
  <2>1. EventsKept' /\ \A e : Emitted(e)' => Emitted(e)
    BY <1>a, <1>5, FlushKeeps, InsertKeeps
  <2>2. UNCHANGED books
    BY <1>5 DEF flush, InsertEnds, Insert, InsertFails
  <2> QED
    BY <1>a, <2>1, <2>2 DEF SpendInv, BooksKept, EventsFit, books
<1>6. CASE UNCHANGED spendVars
  <2>1. EventsKept' /\ \A e : Emitted(e)' => Emitted(e)
    BY <1>a, <1>6, EmitterRests DEF spendVars, emitter
  <2> QED
    BY <1>a, <1>6, <2>1 DEF spendVars, SpendInv, BooksKept, EventsFit
<1> QED
  BY <1>1, <1>2, <1>3, <1>4, <1>5, <1>6, <1>7 DEF SpendNext

LEMMA SpendSound == SpendInv => SpendTypeOK /\ EventsAreOnce /\ BufferHasFlush
<1> SUFFICES ASSUME SpendInv PROVE SpendTypeOK /\ EventsAreOnce /\ BufferHasFlush
  OBVIOUS
<1>1. SpendTypeOK /\ BufferHasFlush
  BY DEF SpendInv, BooksKept, EventsKept, SpendTypeOK
<1>2. OnePlaceEach
  BY DEF SpendInv, EventsKept
<1>3. \A p, q \in flights : p # q => p \cap q = {}
  BY <1>2 DEF OnePlaceEach
<1>4. buffer \cap UNION (flights \cup {rows, lost}) = {}
  <2> SUFFICES ASSUME NEW e \in buffer, NEW p \in flights \cup {rows, lost}, e \in p
               PROVE  FALSE
    OBVIOUS
  <2> QED
    BY <1>2 DEF OnePlaceEach
<1>5. (UNION flights) \cap (rows \cup lost) = {}
  <2>1. \A e \in UNION flights : e \notin rows /\ e \notin lost
    BY <1>2 DEF OnePlaceEach
  <2> QED
    BY <2>1
<1>6. rows \cap lost = {}
  BY <1>2 DEF OnePlaceEach
<1> QED
  BY <1>1, <1>3, <1>4, <1>5, <1>6 DEF EventsAreOnce

(*****************************************************************************)
(* Sums of costs. MapThenSumSet takes the elements of a set in the order in  *)
(* which CHOOSE picks them; that the sum is one whatever the order is proved *)
(* by the least number of elements for which it would not be.                *)
(*****************************************************************************)

CostOf(p, S) == MapThenSumSet(LAMBDA j : p[j], S)

Pick(s) == CHOOSE x \in s : TRUE

\* One step of the sum, with f for what is left.
SumStep(p, f, s) == IF s = {} THEN 0 ELSE p[Pick(s)] + f[s \ {Pick(s)}]

IsSum(p, f, S) == f = [s \in SUBSET S |-> SumStep(p, f, s)]

LEMMA SumUnfolds ==
  ASSUME NEW p, NEW S
  PROVE  CostOf(p, S) = (CHOOSE f : IsSum(p, f, S))[S]
BY DEF CostOf, MapThenSumSet, MapThenFoldSet, IsSum, SumStep, Pick

LEMMA LeastNat ==
  ASSUME NEW T \in SUBSET Nat, T # {}
  PROVE  \E x \in T : \A y \in T : x <= y
<1>1. PICK x \in T : \A y \in T : <<y, x>> \notin OpToRel(<, Nat)
  BY NatLessThanWellFounded, WFMin
<1>2. \A y \in T : ~(y < x)
  BY <1>1 DEF OpToRel
<1> QED
  BY <1>2

\* A set that is not empty has one element more than without the one that is picked.
LEMMA PickShrinks ==
  ASSUME NEW S, IsFiniteSet(S), NEW s \in SUBSET S, s # {}
  PROVE  /\ Pick(s) \in s /\ s \ {Pick(s)} \in SUBSET S
         /\ Cardinality(s) \in Nat \ {0} /\ Cardinality(s \ {Pick(s)}) = Cardinality(s) - 1
<1>1. Pick(s) \in s
  BY DEF Pick
<1>2. IsFiniteSet(s)
  BY FS_Subset
<1>3. Cardinality(s) \in Nat /\ Cardinality(s) # 0
  BY <1>2, FS_CardinalityType, FS_EmptySet
<1>4. Cardinality(s \ {Pick(s)}) = Cardinality(s) - 1
  BY <1>1, <1>2, FS_RemoveElement
<1> QED
  BY <1>1, <1>3, <1>4

\* A function that is the sum for sets of up to n elements.
IsSumUpto(p, f, S, n) == \A s \in SUBSET S : Cardinality(s) <= n => f[s] = SumStep(p, f, s)

LEMMA SumBegins ==
  ASSUME NEW S, IsFiniteSet(S), NEW p
  PROVE  \E f \in [SUBSET S -> Nat] : IsSumUpto(p, f, S, 0)
<1> DEFINE f == [s \in SUBSET S |-> 0]
<1>1. ASSUME NEW s \in SUBSET S, Cardinality(s) <= 0 PROVE s = {}
  <2> SUFFICES ASSUME s # {} PROVE FALSE
    OBVIOUS
  <2>1. Cardinality(s) \in Nat \ {0}
    BY PickShrinks
  <2> QED
    BY <1>1, <2>1
<1>2. IsSumUpto(p, f, S, 0)
  BY <1>1 DEF IsSumUpto, SumStep
<1> QED
  BY <1>2

LEMMA SumGoesOn ==
  ASSUME NEW S, IsFiniteSet(S), NEW p, \A j \in S : p[j] \in Nat, NEW n \in Nat,
         NEW f \in [SUBSET S -> Nat], IsSumUpto(p, f, S, n)
  PROVE  \E g \in [SUBSET S -> Nat] : IsSumUpto(p, g, S, n + 1)
<1> DEFINE g == [s \in SUBSET S |-> SumStep(p, f, s)]
<1>1. ASSUME NEW s \in SUBSET S PROVE SumStep(p, f, s) \in Nat
  <2>1. CASE s = {}
    BY <2>1 DEF SumStep
  <2>2. CASE s # {}
    <3>1. Pick(s) \in S /\ s \ {Pick(s)} \in SUBSET S
      BY <2>2, PickShrinks
    <3>2. p[Pick(s)] \in Nat /\ f[s \ {Pick(s)}] \in Nat
      BY <3>1
    <3> QED
      BY <2>2, <3>2 DEF SumStep
  <2> QED
    BY <2>1, <2>2
<1>2. g \in [SUBSET S -> Nat]
  BY <1>1
<1>3. ASSUME NEW s \in SUBSET S, Cardinality(s) <= n + 1 PROVE SumStep(p, f, s) = SumStep(p, g, s)
  <2>1. CASE s = {}
    BY <2>1 DEF SumStep
  <2>2. CASE s # {}
    <3> DEFINE t == s \ {Pick(s)}
    <3>1. t \in SUBSET S /\ Cardinality(t) <= n
      BY <1>3, <2>2, PickShrinks
    <3>2. f[t] = SumStep(p, f, t)
      BY <3>1 DEF IsSumUpto
    <3>3. g[t] = f[t]
      BY <3>1, <3>2
    <3> QED
      BY <2>2, <3>3 DEF SumStep
  <2> QED
    BY <2>1, <2>2
<1>4. IsSumUpto(p, g, S, n + 1)
  BY <1>3 DEF IsSumUpto
<1> QED
  BY <1>2, <1>4

\* The sum exists: the least number of elements for which it did not would have a predecessor.
LEMMA SumExists ==
  ASSUME NEW S, IsFiniteSet(S), NEW p, \A j \in S : p[j] \in Nat
  PROVE  \E f \in [SUBSET S -> Nat] : IsSum(p, f, S)
<1> DEFINE T == {n \in Nat : ~ \E f \in [SUBSET S -> Nat] : IsSumUpto(p, f, S, n)}
<1>1. 0 \notin T
  BY SumBegins
<1>2. \A n \in Nat : n \notin T => n + 1 \notin T
  BY SumGoesOn
<1>3. T \in SUBSET Nat
  OBVIOUS
<1>4. T = {}
  <2> HIDE DEF T
  <2>1. ASSUME NEW n \in T, \A m \in T : n <= m PROVE FALSE
    <3>1. n \in Nat /\ n # 0
      BY <1>1, <1>3
    <3>2. n - 1 \in Nat /\ n - 1 \notin T
      BY <2>1, <3>1
    <3> QED
      BY <1>2, <3>1, <3>2
  <2> QED
    BY <1>3, <2>1, LeastNat
<1>5. Cardinality(S) \in Nat /\ \A s \in SUBSET S : Cardinality(s) <= Cardinality(S)
  BY FS_CardinalityType, FS_Subset
<1>6. PICK f \in [SUBSET S -> Nat] : IsSumUpto(p, f, S, Cardinality(S))
  BY <1>4, <1>5
<1>7. f = [s \in SUBSET S |-> SumStep(p, f, s)]
  BY <1>5, <1>6 DEF IsSumUpto
<1> QED
  BY <1>7 DEF IsSum

\* The sum over a set is the same whatever larger set it is part of.
LEMMA SumIsOne ==
  ASSUME NEW S, IsFiniteSet(S), NEW R \in SUBSET S, NEW p, NEW f, NEW g,
         IsSum(p, f, S), IsSum(p, g, R)
  PROVE  \A s \in SUBSET R : f[s] = g[s]
<1> DEFINE T == {Cardinality(s) : s \in {t \in SUBSET R : f[t] # g[t]}}
<1>1. \A s \in SUBSET R : f[s] = SumStep(p, f, s) /\ g[s] = SumStep(p, g, s)
  BY DEF IsSum
<1>2. T \in SUBSET Nat
  BY FS_Subset, FS_CardinalityType
<1>3. ASSUME NEW n \in T, \A m \in T : n <= m PROVE FALSE
  <2>1. PICK s \in SUBSET R : f[s] # g[s] /\ Cardinality(s) = n
    OBVIOUS
  <2>2. s # {}
    BY <1>1, <2>1 DEF SumStep
  <2> DEFINE t == s \ {Pick(s)}
  <2>3. t \in SUBSET R /\ Cardinality(t) < n
    BY <2>1, <2>2, PickShrinks
  <2>4. f[t] = g[t]
    BY <1>2, <1>3, <2>3
  <2> QED
    BY <1>1, <2>1, <2>2, <2>4 DEF SumStep
<1> HIDE DEF T
<1>4. T = {}
  BY <1>2, <1>3, LeastNat
<1> QED
  BY <1>4 DEF T

\* The sums of all subsets are one function.
Sums(p, f, S) == IsSum(p, f, S) /\ \A s \in SUBSET S : CostOf(p, s) = f[s]

LEMMA CostIsSum ==
  ASSUME NEW S, IsFiniteSet(S), NEW p, \A j \in S : p[j] \in Nat
  PROVE  \E f \in [SUBSET S -> Nat] : Sums(p, f, S)
<1>1. PICK f \in [SUBSET S -> Nat] : IsSum(p, f, S)
  BY SumExists
<1>2. ASSUME NEW s \in SUBSET S PROVE CostOf(p, s) = f[s]
  <2> DEFINE g == [t \in SUBSET s |-> f[t]]
  <2>1. IsSum(p, g, s)
    <3> SUFFICES ASSUME NEW t \in SUBSET s PROVE f[t] = SumStep(p, g, t)
      BY DEF IsSum
    <3>1. t \in SUBSET S /\ f[t] = SumStep(p, f, t)
      BY <1>1 DEF IsSum
    <3>2. t # {} => t \ {Pick(t)} \in SUBSET s
      OBVIOUS
    <3> QED
      BY <3>1, <3>2 DEF SumStep
  <2>2. IsSum(p, CHOOSE h : IsSum(p, h, s), s)
    BY <2>1
  <2>3. f[s] = (CHOOSE h : IsSum(p, h, s))[s]
    BY <1>1, <2>2, SumIsOne
  <2> QED
    BY <2>3, SumUnfolds
<1> QED
  BY <1>1, <1>2 DEF Sums

LEMMA CostIsNat ==
  ASSUME NEW S, IsFiniteSet(S), NEW p, \A j \in S : p[j] \in Nat
  PROVE  CostOf(p, S) \in Nat
<1>1. PICK f \in [SUBSET S -> Nat] : Sums(p, f, S)
  BY CostIsSum
<1> QED
  BY <1>1 DEF Sums

\* Any element may be the first: the sum does not depend on which ones are picked.
LEMMA SumAdds ==
  ASSUME NEW S, IsFiniteSet(S), NEW p, \A j \in S : p[j] \in Nat, NEW f \in [SUBSET S -> Nat], IsSum(p, f, S)
  PROVE  /\ f[{}] = 0
         /\ \A s \in SUBSET S : \A y \in s : f[s] = p[y] + f[s \ {y}]
<1> DEFINE Odd(s) == \E y \in s : f[s] # p[y] + f[s \ {y}]
           T == {Cardinality(s) : s \in {t \in SUBSET S : Odd(t)}}
<1>1. \A s \in SUBSET S : f[s] = SumStep(p, f, s)
  BY DEF IsSum
<1>2. T \in SUBSET Nat
  BY FS_Subset, FS_CardinalityType
<1>3. ASSUME NEW n \in T, \A m \in T : n <= m PROVE FALSE
  <2>0. PICK s \in SUBSET S : Odd(s) /\ Cardinality(s) = n
    OBVIOUS
  <2>1. PICK y \in s : f[s] # p[y] + f[s \ {y}] /\ Cardinality(s) = n
    BY <2>0
  <2> DEFINE x == Pick(s)
  <2>2. x \in s /\ f[s] = p[x] + f[s \ {x}]
    BY <1>1, PickShrinks DEF SumStep
  <2>3. x # y
    BY <2>1, <2>2
  <2>4. Cardinality(s \ {x}) < n /\ Cardinality(s \ {y}) < n
    <3>1. IsFiniteSet(s)
      BY FS_Subset
    <3>2. Cardinality(s) \in Nat
      BY <3>1, FS_CardinalityType
    <3>3. Cardinality(s \ {x}) = Cardinality(s) - 1
      BY <2>2, <3>1, FS_RemoveElement
    <3>4. Cardinality(s \ {y}) = Cardinality(s) - 1
      BY <3>1, FS_RemoveElement
    <3> QED
      BY <2>1, <3>2, <3>3, <3>4
  <2> HIDE DEF x
  <2>5. ~Odd(s \ {x}) /\ ~Odd(s \ {y})
    <3>1. Cardinality(s \ {x}) \notin T /\ Cardinality(s \ {y}) \notin T
      <4>1. n \in Nat
        BY <1>2
      <4> DEFINE c == Cardinality(s \ {x})
                 d == Cardinality(s \ {y})
      <4> HIDE DEF T, c, d
      <4>2. c < n /\ d < n
        BY <2>4 DEF c, d
      <4>3. c \notin T /\ d \notin T
        BY <1>2, <1>3, <4>1, <4>2
      <4> QED
        BY <4>3 DEF c, d
    <3>2. \A t \in SUBSET S : Cardinality(t) \notin T => ~Odd(t)
      <4> HIDE DEF Odd
      <4> QED
        OBVIOUS
    <3> HIDE DEF T, Odd
    <3> QED
      BY <3>1, <3>2
  <2>6. /\ f[s \ {x}] = p[y] + f[(s \ {x}) \ {y}]
        /\ f[s \ {y}] = p[x] + f[(s \ {y}) \ {x}]
    BY <2>2, <2>3, <2>5
  <2>7. (s \ {x}) \ {y} = (s \ {y}) \ {x}
    OBVIOUS
  <2>8. p[x] \in Nat /\ p[y] \in Nat /\ f[(s \ {x}) \ {y}] \in Nat
    BY <2>2
  <2> DEFINE rest == f[(s \ {x}) \ {y}]
  <2>9. f[s] = p[x] + (p[y] + rest) /\ f[s \ {y}] = p[x] + rest
    BY <2>2, <2>6, <2>7
  <2> HIDE DEF rest
  <2>10. rest \in Nat
    BY <2>8 DEF rest
  <2> QED
    BY <2>1, <2>8, <2>9, <2>10
<1> HIDE DEF T
<1>4. T = {}
  BY <1>2, <1>3, LeastNat
<1>5. f[{}] = 0
  BY <1>1 DEF SumStep
<1> QED
  BY <1>4, <1>5 DEF T

\* What the invariant needs: the cost of one more, of one less, and of a part.
LEMMA CostAdds ==
  ASSUME NEW S, IsFiniteSet(S), NEW p, \A j \in S : p[j] \in Nat, NEW x, p[x] \in Nat
  PROVE  /\ CostOf(p, S) \in Nat /\ CostOf(p, {}) = 0
         /\ x \notin S => CostOf(p, S \cup {x}) = CostOf(p, S) + p[x]
         /\ CostOf(p, S \ {x}) <= CostOf(p, S)
<1> DEFINE R == S \cup {x}
<1>1. IsFiniteSet(R) /\ \A j \in R : p[j] \in Nat
  BY FS_AddElement
<1> HIDE DEF R
<1>2. PICK f \in [SUBSET R -> Nat] : Sums(p, f, R)
  BY <1>1, CostIsSum
<1>3. f[{}] = 0 /\ \A s \in SUBSET R : \A y \in s : f[s] = p[y] + f[s \ {y}]
  BY <1>1, <1>2, SumAdds DEF Sums
<1> USE DEF R
<1>4. CostOf(p, S) = f[S] /\ CostOf(p, {}) = f[{}] /\ CostOf(p, S \cup {x}) = f[S \cup {x}]
      /\ CostOf(p, S \ {x}) = f[S \ {x}]
  BY <1>2 DEF Sums
<1>5. f[S] \in Nat /\ f[S \ {x}] \in Nat
  OBVIOUS
<1>6. x \notin S => f[S \cup {x}] = p[x] + f[S]
  <2>1. x \notin S => (S \cup {x}) \ {x} = S
    OBVIOUS
  <2> QED
    BY <1>3, <2>1
<1>7. f[S \ {x}] <= f[S]
  <2>1. x \notin S => S \ {x} = S
    OBVIOUS
  <2>2. x \in S => f[S] = p[x] + f[S \ {x}]
    BY <1>3
  <2> QED
    <3>1. CASE x \in S
      BY <1>5, <2>2, <3>1
    <3>2. CASE x \notin S
      <4>1. f[S \ {x}] = f[S]
        BY <2>1, <3>2
      <4> QED
        BY <1>5, <4>1
    <3> QED
      BY <3>1, <3>2
<1> QED
  BY <1>3, <1>4, <1>5, <1>6, <1>7

\* A part costs no more than the whole: the least whole that cost less would have an element to
\* spare.
LEMMA CostGrows ==
  ASSUME NEW S, IsFiniteSet(S), NEW p, \A j \in S : p[j] \in Nat, NEW A \in SUBSET S
  PROVE  CostOf(p, A) <= CostOf(p, S)
<1> DEFINE Less(s) == A \subseteq s /\ ~(CostOf(p, A) <= CostOf(p, s))
           T == {Cardinality(s) : s \in {t \in SUBSET S : Less(t)}}
<1>1. \A s \in SUBSET S : CostOf(p, s) \in Nat
  BY FS_Subset, CostIsNat
<1>2. T \in SUBSET Nat
  BY FS_Subset, FS_CardinalityType
<1>3. ASSUME NEW n \in T, \A m \in T : n <= m PROVE FALSE
  <2>1. PICK s \in SUBSET S : Less(s) /\ Cardinality(s) = n
    OBVIOUS
  <2>2. s # A
    BY <1>1, <2>1
  <2>3. PICK x \in s : x \notin A
    BY <2>1, <2>2
  <2> DEFINE t == s \ {x}
  <2>4. IsFiniteSet(s)
    BY FS_Subset
  <2>5. CostOf(p, t) <= CostOf(p, s)
    BY <2>4, CostAdds
  <2>6. Cardinality(t) = n - 1 /\ n \in Nat
    BY <2>1, <2>4, FS_RemoveElement, FS_CardinalityType
  <2>7. Less(t)
    BY <1>1, <2>1, <2>3, <2>5
  <2> DEFINE c == Cardinality(t)
  <2>8. c \in T
    BY <2>7
  <2>9. c = n - 1
    BY <2>6
  <2> HIDE DEF T, c
  <2> QED
    BY <1>3, <2>6, <2>8, <2>9
<1> HIDE DEF T
<1>4. T = {}
  BY <1>2, <1>3, LeastNat
<1>5. ~Less(S)
  BY <1>4 DEF T
<1> QED
  BY <1>5

(*****************************************************************************)
(* The budget of a session.                                                  *)
(*****************************************************************************)

\* The jobs that the budget holds: charged to the session, and not found over a limit so far.
Within ==
  {j \in Spenders : /\ stage[j] = "shared" \/ (stage[j] \in {"tracked", "called", "completed"} /\ checked[j])
                   /\ ~exceeded[j]}

\* No day is checked before its step, and no job over a limit is completed, but for the CLI's.
MarksFit ==
  \A j \in Spenders : /\ stage[j] \in {"running", "charged", "shared"} => ~checked[j]
                      /\ stage[j] = "completed" => ~exceeded[j] \/ j \in CliJobs

\* They are finitely many, and what they cost was charged to the session, whose sum was within
\* the limit when the last of them was.
BudgetFits ==
  /\ IsFiniteSet(Within) /\ CostOf(price, Within) <= sessionCost
  /\ SessionLimit > 0 => CostOf(price, Within) <= SessionLimit
  /\ MarksFit

LEMMA BudgetStarts == SpendInit => BudgetFits
<1> SUFFICES ASSUME SpendInit PROVE BudgetFits
  OBVIOUS
<1>1. Within = {}
  BY DEF SpendInit, Within
<1>2. IsFiniteSet({}) /\ CostOf(price, {}) = 0
  <2>1. IsFiniteSet({})
    BY FS_EmptySet
  <2>2. CostOf(price, {}) = (CHOOSE f : IsSum(price, f, {}))[{}]
    BY SumUnfolds
  <2>3. \E f \in [SUBSET {} -> Nat] : IsSum(price, f, {})
    BY <2>1, SumExists
  <2>4. IsSum(price, CHOOSE f : IsSum(price, f, {}), {})
    BY <2>3
  <2> QED
    BY <2>1, <2>2, <2>4 DEF IsSum, SumStep
<1> QED
  BY <1>1, <1>2, SpendingAssumption DEF SpendInit, BudgetFits, MarksFit

\* What leaves one job at most out of the budget.
LEMMA BudgetLeaves ==
  ASSUME SpendInv, BudgetFits, NEW j \in Spenders, UNCHANGED <<price, sessionCost>>,
         Within' = Within \/ Within' = Within \ {j}
  PROVE  /\ IsFiniteSet(Within') /\ CostOf(price', Within') <= sessionCost'
         /\ SessionLimit > 0 => CostOf(price', Within') <= SessionLimit
<1> DEFINE W == Within
           V == Within'
<1>1. IsFiniteSet(W) /\ W \subseteq Spenders /\ price \in [Spenders -> Nat] /\ sessionCost \in Nat
  BY DEF BudgetFits, Within, SpendInv, BooksKept
<1>2. V = W \/ V = W \ {j}
  OBVIOUS
<1>3. CostOf(price, W) <= sessionCost /\ (SessionLimit > 0 => CostOf(price, W) <= SessionLimit)
  BY DEF BudgetFits
<1> HIDE DEF W, V
<1>4. CostOf(price, W) \in Nat /\ CostOf(price, W \ {j}) \in Nat /\ IsFiniteSet(W \ {j})
  <2>1. IsFiniteSet(W \ {j})
    BY <1>1, FS_Subset
  <2>2. CostOf(price, W) \in Nat
    BY <1>1, CostIsNat
  <2>3. CostOf(price, W \ {j}) \in Nat
    BY <1>1, <2>1, CostIsNat
  <2> QED
    BY <2>1, <2>2, <2>3
<1>5. CostOf(price, W \ {j}) <= CostOf(price, W)
  BY <1>1, <1>4, CostGrows
<1>6. /\ IsFiniteSet(V) /\ CostOf(price, V) <= sessionCost
      /\ SessionLimit > 0 => CostOf(price, V) <= SessionLimit
  BY <1>1, <1>2, <1>3, <1>4, <1>5, SpendingAssumption
<1> QED
  BY <1>6 DEF V

\* So the budget is kept by a step that charges nothing and takes one job at most out of it.
LEMMA BudgetKept ==
  ASSUME SpendInv, BudgetFits, NEW j \in Spenders, UNCHANGED <<price, sessionCost>>,
         Within' = Within \/ Within' = Within \ {j}, MarksFit'
  PROVE  BudgetFits'
<1>1. /\ IsFiniteSet(Within') /\ CostOf(price', Within') <= sessionCost'
      /\ SessionLimit > 0 => CostOf(price', Within') <= SessionLimit
  BY BudgetLeaves
<1> QED
  BY <1>1 DEF BudgetFits

LEMMA BudgetSteps == SpendInv /\ BudgetFits /\ [SpendNext]_spendVars => BudgetFits'
<1> SUFFICES ASSUME SpendInv, BudgetFits, [SpendNext]_spendVars PROVE BudgetFits'
  OBVIOUS
<1>a. /\ stage \in [Spenders -> {"running", "charged", "shared", "tracked", "called", "completed", "cancelled",
                         "failed"}]
      /\ price \in [Spenders -> Nat] /\ sessionCost \in Nat
      /\ exceeded \in [Spenders -> BOOLEAN] /\ checked \in [Spenders -> BOOLEAN]
  BY DEF SpendInv, BooksKept
<1>b. \A j \in Spenders : /\ stage[j] \in {"running", "charged", "shared"} => ~checked[j]
                          /\ stage[j] = "completed" => ~exceeded[j] \/ j \in CliJobs
  BY DEF BudgetFits, MarksFit
<1>1. ASSUME NEW j \in Spenders, EndUncharged(j) \/ ChargeJob(j) PROVE BudgetFits'
  <2>1. PICK st \in {"failed", "charged"} :
          /\ stage[j] = "running" /\ stage' = [stage EXCEPT ![j] = st]
          /\ UNCHANGED <<price, sessionCost, exceeded, checked>>
    BY <1>1 DEF EndUncharged, ChargeJob
  <2>2. Within' = Within
    BY <1>a, <2>1 DEF Within
  <2>3. MarksFit'
    BY <1>a, <1>b, <2>1 DEF MarksFit
  <2> QED
    BY <2>1, <2>2, <2>3, BudgetKept
<1>2. ASSUME NEW j \in Spenders, RecordFails(j) PROVE BudgetFits'
  <2>1. /\ stage[j] \in {"running", "charged", "shared"} /\ stage' = [stage EXCEPT ![j] = "tracked"]
        /\ exceeded' = [exceeded EXCEPT ![j] = FALSE] /\ UNCHANGED <<price, sessionCost, checked>>
    BY <1>2 DEF RecordFails
  <2>2. Within' = Within \ {j}
    BY <1>a, <1>b, <2>1 DEF Within
  <2>3. MarksFit'
    BY <1>a, <1>b, <2>1 DEF MarksFit
  <2> QED
    BY <2>1, <2>2, <2>3, BudgetKept
<1>3. ASSUME NEW j \in Spenders, CheckDay(j) PROVE BudgetFits'
  <2>1. PICK x \in BOOLEAN :
          /\ stage[j] = "shared" /\ stage' = [stage EXCEPT ![j] = "tracked"]
          /\ exceeded' = [exceeded EXCEPT ![j] = x] /\ (~x => ~exceeded[j])
          /\ checked' = [checked EXCEPT ![j] = TRUE] /\ UNCHANGED <<price, sessionCost>>
    BY <1>3 DEF CheckDay
  <2>2. Within' = Within \/ Within' = Within \ {j}
    <3>1. CASE x
      BY <1>a, <2>1, <3>1 DEF Within
    <3>2. CASE ~x
      BY <1>a, <2>1, <3>2 DEF Within
    <3> QED
      BY <3>1, <3>2
  <2>3. MarksFit'
    BY <1>a, <1>b, <2>1 DEF MarksFit
  <2> QED
    BY <2>1, <2>2, <2>3, BudgetKept
<1>4. ASSUME NEW j \in Spenders, EndCall(j) PROVE BudgetFits'
  <2>1. /\ stage[j] = "tracked" /\ stage' = [stage EXCEPT ![j] = "called"]
        /\ UNCHANGED <<price, sessionCost, exceeded, checked>>
    BY <1>4 DEF EndCall
  <2>2. Within' = Within
    BY <1>a, <2>1 DEF Within
  <2>3. MarksFit'
    BY <1>a, <1>b, <2>1 DEF MarksFit
  <2> QED
    BY <2>1, <2>2, <2>3, BudgetKept
<1>8. ASSUME NEW j \in Spenders, EndJob(j) PROVE BudgetFits'
  <2>1. PICK st \in {"cancelled", "completed"} :
          /\ stage[j] = "called" /\ stage' = [stage EXCEPT ![j] = st]
          /\ IF exceeded[j] THEN st = "cancelled" \/ j \in CliJobs ELSE st = "completed"
          /\ UNCHANGED <<price, sessionCost, exceeded, checked>>
    BY <1>8 DEF EndJob
  <2>2. Within' = Within
    BY <1>a, <2>1 DEF Within
  <2>3. MarksFit'
    BY <1>a, <1>b, <2>1 DEF MarksFit
  <2> QED
    BY <2>1, <2>2, <2>3, BudgetKept
<1>5. ASSUME NEW j \in Spenders, ChargeSession(j) PROVE BudgetFits'
  <2>1. PICK x \in BOOLEAN :
          /\ stage[j] = "charged" /\ stage' = [stage EXCEPT ![j] = "shared"]
          /\ sessionCost' = sessionCost + price[j] /\ exceeded' = [exceeded EXCEPT ![j] = x]
          /\ (~x => ~Exceeds(sessionCost', SessionLimit))
          /\ UNCHANGED <<price, checked>>
    BY <1>5 DEF ChargeSession
  <2>2. MarksFit'
    BY <1>a, <1>b, <2>1 DEF MarksFit
  <2> DEFINE W == Within
             V == Within'
  <2>3. IsFiniteSet(W) /\ W \subseteq Spenders /\ j \notin W
    BY <2>1 DEF BudgetFits, Within
  <2>4. (x => V = W) /\ (~x => V = W \cup {j})
    <3>1. CASE x
      BY <1>a, <2>1, <3>1 DEF Within
    <3>2. CASE ~x
      BY <1>a, <2>1, <3>2 DEF Within
    <3> QED
      BY <3>1, <3>2
  <2>5. CostOf(price, W) <= sessionCost /\ (SessionLimit > 0 => CostOf(price, W) <= SessionLimit)
    BY DEF BudgetFits
  <2>6. ~x => (SessionLimit > 0 => sessionCost + price[j] <= SessionLimit)
    BY <1>a, <2>1, SpendingAssumption DEF Exceeds
  <2> HIDE DEF W, V
  <2>7. CostOf(price, W) \in Nat /\ IsFiniteSet(W \cup {j})
    BY <1>a, <2>3, CostIsNat, FS_AddElement
  <2>8. CostOf(price, W \cup {j}) = CostOf(price, W) + price[j]
    BY <1>a, <2>3, CostAdds
  <2>9. price[j] \in Nat
    BY <1>a
  <2>10. /\ IsFiniteSet(V) /\ CostOf(price, V) <= sessionCost + price[j]
         /\ SessionLimit > 0 => CostOf(price, V) <= SessionLimit
    <3>1. CASE x
      BY <1>a, <2>3, <2>4, <2>5, <2>7, <2>9, <3>1
    <3>2. CASE ~x
      <4>1. V = W \cup {j}
        BY <2>4, <3>2
      <4>2. CostOf(price, V) = CostOf(price, W) + price[j]
        BY <2>8, <4>1
      <4>3. CostOf(price, V) <= sessionCost + price[j]
        BY <1>a, <2>5, <2>7, <2>9, <4>2
      <4>4. SessionLimit > 0 => CostOf(price, V) <= SessionLimit
        BY <1>a, <2>6, <2>7, <2>9, <3>2, <4>2, <4>3, SpendingAssumption
      <4> QED
        BY <2>7, <4>1, <4>3, <4>4
    <3> QED
      BY <3>1, <3>2
  <2>11. /\ IsFiniteSet(Within') /\ CostOf(price', Within') <= sessionCost'
         /\ SessionLimit > 0 => CostOf(price', Within') <= SessionLimit
    BY <2>1, <2>10 DEF V
  <2> QED
    BY <2>2, <2>11 DEF BudgetFits
<1>6. CASE UNCHANGED books
  BY <1>6, <1>a DEF books, BudgetFits, MarksFit, Within
<1>7. CASE flush \/ InsertEnds \/ UNCHANGED spendVars
  BY <1>6, <1>7 DEF flush, InsertEnds, Insert, InsertFails, spendVars, books
<1> QED
  BY <1>1, <1>2, <1>3, <1>4, <1>5, <1>7, <1>8 DEF SpendNext

LEMMA BudgetSound == SpendInv /\ BudgetFits => SessionBudgetHolds
<1> SUFFICES ASSUME SpendInv, BudgetFits PROVE SessionBudgetHolds
  OBVIOUS
<1> DEFINE checkedJobs == {j \in Spenders : stage[j] = "completed" /\ checked[j]}
           late == {j \in checkedJobs \cap CliJobs : exceeded[j]}
           completed == checkedJobs \ late
<1>1. completed \subseteq Within /\ Within \subseteq Spenders
  BY DEF BudgetFits, MarksFit, Within
<1>2. IsFiniteSet(Within) /\ IsFiniteSet(completed) /\ price \in [Spenders -> Nat]
  BY <1>1, FS_Subset DEF BudgetFits, SpendInv, BooksKept
<1> HIDE DEF completed
<1>3. CostOf(price, completed) <= CostOf(price, Within)
  BY <1>1, <1>2, CostGrows
<1>4. CostOf(price, completed) \in Nat /\ CostOf(price, Within) \in Nat
  BY <1>1, <1>2, CostIsNat
<1>5. SessionLimit > 0 => CostOf(price, completed) <= SessionLimit
  BY <1>3, <1>4, SpendingAssumption DEF BudgetFits
<1> QED
  BY <1>5 DEF completed, CostOf, SessionBudgetHolds

(*****************************************************************************)
(* A browser and those who watch it: the calls under way, its traces and its *)
(* pages.                                                                    *)
(*****************************************************************************)

\* A navigation that is going, and the calls of traces, one at a time unless muddled.
GoingOn(o) == call[o].kind = "navigate" /\ call[o].step \in {"going", "loaded"}

TracesFit ==
  ~muddled =>
    /\ \A o, p \in ObsCalls : call[o].kind \in {"startTrace", "stopTrace"}
                              /\ call[p].kind \in {"startTrace", "stopTrace"} => o = p
    /\ \A o \in ObsCalls : /\ call[o].kind = "startTrace" => tracing = "idle"
                           /\ call[o].kind = "stopTrace" => tracing = "stopping"
    /\ tracing = "stopping" => \E o \in ObsCalls : call[o].kind = "stopTrace"

ObsInv ==
  /\ ObsTypeOK /\ ViewersAgree /\ TracesFit
  /\ browser = "connecting" => \E o \in ObsCalls : GoingOn(o)

Kinds == {"none", "navigate", "read", "startTrace", "stopTrace", "capture"}
Steps == {"none", "going", "loaded", "persisting", "looking", "collecting", "taken"}
ObsCall == [kind : Kinds, step : Steps, shot : 0 .. MaxPage]

LEMMA PagesAreNumbers == MaxPage \in Nat /\ 1 <= MaxPage /\ Away = MaxPage + 1 /\ Away \in Nat
BY ObsAssumption DEF Away

LEMMA ObsStarts == ObsInit => ObsInv
<1> SUFFICES ASSUME ObsInit PROVE ObsInv
  OBVIOUS
<1>1. NoCall \in ObsCall /\ NoCall.kind = "none"
  BY PagesAreNumbers DEF NoCall, ObsCall, Kinds, Steps
<1>2. ObsTypeOK
  <2>1. call \in [ObsCalls -> ObsCall]
    BY <1>1 DEF ObsInit
  <2>2. 1 \in 1 .. MaxPage /\ 0 \in 0 .. MaxPage /\ Away \in 0 .. Away
    BY PagesAreNumbers
  <2>3. frame \in [Viewers -> 0 .. Away]
    BY <2>2 DEF ObsInit
  <2> QED
    BY <2>1, <2>2, <2>3 DEF ObsInit, ObsTypeOK, ObsCall, Kinds, Steps
<1>3. ViewersAgree /\ TracesFit
  BY <1>1 DEF ObsInit, ViewersAgree, TracesFit
<1> QED
  BY <1>2, <1>3 DEF ObsInit, ObsInv

\* What a call of o becomes, the others resting.
LEMMA ObsMoves ==
  ASSUME call \in [ObsCalls -> ObsCall], NEW o \in ObsCalls,
         NEW x \in ObsCall, call' = [call EXCEPT ![o] = x]
  PROVE  /\ call' \in [ObsCalls -> ObsCall] /\ call'[o] = x
         /\ \A p \in ObsCalls : p # o => call'[p] = call[p]
OBVIOUS

LEMMA ObsShapes ==
  /\ NoCall \in ObsCall /\ NoCall.kind = "none"
  /\ \A k \in Kinds, s \in Steps : LET x == [kind |-> k, step |-> s, shot |-> 0]
                                   IN  x \in ObsCall /\ x.kind = k /\ x.step = s
  /\ \A x \in ObsCall, s \in Steps :
       LET y == [x EXCEPT !.step = s] IN y \in ObsCall /\ y.kind = x.kind /\ y.step = s
BY PagesAreNumbers DEF NoCall, ObsCall, Kinds, Steps

LEMMA LaunchedExists ==
  ASSUME NEW k \in Kinds, NEW s \in Steps
  PROVE  \E x \in ObsCall : x = [kind |-> k, step |-> s, shot |-> 0] /\ x.kind = k /\ x.step = s
<1>1. [kind |-> k, step |-> s, shot |-> 0] \in ObsCall
  BY ObsShapes
<1> QED
  BY <1>1

LEMMA MovedExists ==
  ASSUME NEW c \in ObsCall, NEW s \in Steps
  PROVE  \E x \in ObsCall : x = [c EXCEPT !.step = s] /\ x.kind = c.kind /\ x.step = s
<1>1. [c EXCEPT !.step = s] \in ObsCall
  BY ObsShapes
<1> QED
  BY <1>1, ObsShapes

\* A call that traces nothing and does not begin to.
LEMMA ObsUntraced ==
  ASSUME TracesFit, NEW o \in ObsCalls, tracing' = tracing, muddled' = muddled,
         \A p \in ObsCalls : p # o => call'[p] = call[p],
         call'[o].kind \in {"startTrace", "stopTrace"} => call'[o].kind = call[o].kind,
         call[o].kind \in {"startTrace", "stopTrace"} => call'[o].kind = call[o].kind
  PROVE  TracesFit'
BY DEF TracesFit

LEMMA ObsSteps == ObsInv /\ [ObsNext]_obsVars => ObsInv'
<1> SUFFICES ASSUME ObsInv, [ObsNext]_obsVars PROVE ObsInv'
  OBVIOUS
<1>0. /\ browser \in {"disconnected", "connecting", "connected", "error"}
      /\ tracing \in {"idle", "recording", "stopping"} /\ call \in [ObsCalls -> ObsCall]
      /\ page \in 1 .. MaxPage /\ lastHash \in 0 .. MaxPage /\ frame \in [Viewers -> 0 .. Away]
      /\ ticking \in BOOLEAN /\ muddled \in BOOLEAN
      /\ ViewersAgree /\ TracesFit
      /\ browser = "connecting" => \E o \in ObsCalls : GoingOn(o)
  BY DEF ObsInv, ObsTypeOK, ObsCall, Kinds, Steps
\* Only the calls and the browser's status: what becomes of o's call, and of the status.
<1>a. ASSUME NEW o \in ObsCalls, NEW x \in ObsCall, call' = [call EXCEPT ![o] = x],
             page' \in 1 .. MaxPage, UNCHANGED stream,
             tracing' \in {"idle", "recording", "stopping"}, muddled' \in BOOLEAN,
             browser' \in {"disconnected", "connecting", "connected", "error"},
             browser' = "connecting" =>
               \/ x.kind = "navigate" /\ x.step \in {"going", "loaded"}
               \/ browser = "connecting" /\ ~GoingOn(o),
             TracesFit'
      PROVE  ObsInv'
  <2>1. /\ call' \in [ObsCalls -> ObsCall] /\ call'[o] = x
        /\ \A p \in ObsCalls : p # o => call'[p] = call[p]
    BY <1>0, <1>a, ObsMoves
  <2>2. ticking' = ticking /\ lastHash' = lastHash /\ frame' = frame
    BY <1>a DEF stream
  <2>3. browser' = "connecting" => \E p \in ObsCalls : GoingOn(p)'
    <3>1. CASE x.kind = "navigate" /\ x.step \in {"going", "loaded"}
      BY <2>1, <3>1 DEF GoingOn
    <3>2. CASE browser = "connecting" /\ ~GoingOn(o)
      <4>1. PICK p \in ObsCalls : GoingOn(p)
        BY <1>0, <3>2
      <4>2. p # o
        BY <3>2, <4>1
      <4> QED
        BY <2>1, <4>1, <4>2 DEF GoingOn
    <3> QED
      BY <1>a, <3>1, <3>2
  <2>4. ObsTypeOK'
    BY <1>0, <1>a, <2>1, <2>2 DEF ObsTypeOK, ObsCall, Kinds, Steps
  <2>5. ViewersAgree'
    BY <1>0, <2>2 DEF ViewersAgree
  <2> QED
    BY <1>a, <2>3, <2>4, <2>5 DEF ObsInv
\* Calls that do not trace.
<1>b. ASSUME NEW o \in ObsCalls, NEW x \in ObsCall, call' = [call EXCEPT ![o] = x],
             page' \in 1 .. MaxPage, UNCHANGED <<stream, tracing, muddled>>,
             browser' \in {"disconnected", "connecting", "connected", "error"},
             browser' = "connecting" =>
               \/ x.kind = "navigate" /\ x.step \in {"going", "loaded"}
               \/ browser = "connecting" /\ ~GoingOn(o),
             x.kind \in {"startTrace", "stopTrace"} => x.kind = call[o].kind,
             call[o].kind \in {"startTrace", "stopTrace"} => x.kind = call[o].kind
      PROVE  ObsInv'
  <2>1. call'[o] = x /\ \A p \in ObsCalls : p # o => call'[p] = call[p]
    BY <1>0, <1>b, ObsMoves
  <2>2. TracesFit'
    BY <1>0, <1>b, <2>1, ObsUntraced
  <2> QED
    BY <1>0, <1>a, <1>b, <2>2
<1>1. ASSUME NEW o \in ObsCalls, navigate(o) PROVE ObsInv'
  <2>1. PICK x \in ObsCall : /\ x = [kind |-> "navigate", step |-> "going", shot |-> 0]
                             /\ x.kind = "navigate" /\ x.step = "going"
    <3>1. "navigate" \in Kinds /\ "going" \in Steps
      BY DEF Kinds, Steps
    <3> QED
      BY <3>1, LaunchedExists
  <2> QED
    BY <1>0, <1>1, <1>b, <2>1, ObsShapes DEF navigate, Launched, Free
<1>2. ASSUME NEW o \in ObsCalls, Loaded(o) PROVE ObsInv'
  <2>1. PICK x \in ObsCall : /\ x = [call[o] EXCEPT !.step = "loaded"]
                             /\ x.kind = "navigate" /\ x.step = "loaded"
    <3>1. call[o] \in ObsCall /\ call[o].kind = "navigate" /\ "loaded" \in Steps
      BY <1>0, <1>2 DEF Loaded, At, Steps
    <3> QED
      BY <3>1, MovedExists
  <2>2. page' \in 1 .. MaxPage
    BY <1>0, <1>2, PagesAreNumbers DEF Loaded
  <2> QED
    BY <1>0, <1>2, <1>b, <2>1, <2>2 DEF Loaded, Moved, At
<1>3. ASSUME NEW o \in ObsCalls, NavigateFails(o) PROVE ObsInv'
  BY <1>0, <1>3, <1>b, ObsShapes DEF NavigateFails, Ended
<1>4. ASSUME NEW o \in ObsCalls, Navigated(o) PROVE ObsInv'
  <2>1. PICK x \in ObsCall : /\ x = [call[o] EXCEPT !.step = "persisting"]
                             /\ x.kind = "navigate" /\ x.step = "persisting"
    <3>1. call[o] \in ObsCall /\ call[o].kind = "navigate" /\ "persisting" \in Steps
      BY <1>0, <1>4 DEF Navigated, At, Steps
    <3> QED
      BY <3>1, MovedExists
  <2> QED
    BY <1>0, <1>4, <1>b, <2>1 DEF Navigated, Moved, At
<1>5. ASSUME NEW o \in ObsCalls, Persisted(o) PROVE ObsInv'
  BY <1>0, <1>5, <1>b, ObsShapes DEF Persisted, Ended, At, GoingOn
<1>6. ASSUME NEW o \in ObsCalls, Read(o) PROVE ObsInv'
  <2>1. PICK x \in ObsCall : /\ x = [kind |-> "read", step |-> "going", shot |-> 0]
                             /\ x.kind = "read" /\ x.step = "going"
    <3>1. "read" \in Kinds /\ "going" \in Steps
      BY DEF Kinds, Steps
    <3> QED
      BY <3>1, LaunchedExists
  <2> QED
    BY <1>0, <1>6, <1>b, <2>1, ObsShapes DEF Read, Launched, Free, GoingOn
<1>7. ASSUME NEW o \in ObsCalls, ReadEnds(o) PROVE ObsInv'
  BY <1>0, <1>7, <1>b, ObsShapes DEF ReadEnds, Ended, At, GoingOn
<1>8. ASSUME NEW o \in ObsCalls, startTrace(o) PROVE ObsInv'
  <2>1. PICK x \in ObsCall : /\ x = [kind |-> "startTrace", step |-> "going", shot |-> 0]
                             /\ x.kind = "startTrace" /\ x.step = "going"
    <3>1. "startTrace" \in Kinds /\ "going" \in Steps
      BY DEF Kinds, Steps
    <3> QED
      BY <3>1, LaunchedExists
  <2>2. /\ call' = [call EXCEPT ![o] = x] /\ call[o].kind = "none" /\ tracing' = tracing /\ tracing # "recording"
        /\ muddled' = (muddled \/ Tracers # {}) /\ UNCHANGED <<browser, page, stream>>
    BY <1>8, <2>1, ObsShapes DEF startTrace, Launched, Free
  <2>3. call'[o] = x /\ \A p \in ObsCalls : p # o => call'[p] = call[p]
    BY <1>0, <2>2, ObsMoves
  <2>4. muddled' \in BOOLEAN
    BY <1>0, <2>2
  <2>5. TracesFit'
    <3> SUFFICES ASSUME ~muddled' PROVE TracesFit'
      BY DEF TracesFit
    <3>1. ~muddled /\ \A p \in ObsCalls : call[p].kind \notin {"startTrace", "stopTrace"}
      BY <2>2 DEF Tracers
    <3>2. tracing = "idle"
      BY <1>0, <2>2, <3>1 DEF TracesFit
    <3> QED
      BY <2>1, <2>2, <2>3, <3>1, <3>2 DEF TracesFit
  <2> QED
    BY <1>0, <1>a, <2>1, <2>2, <2>4, <2>5 DEF GoingOn
<1>9. ASSUME NEW o \in ObsCalls, TraceStarts(o) PROVE ObsInv'
  <2>1. /\ call' = [call EXCEPT ![o] = NoCall] /\ call[o].kind = "startTrace"
        /\ tracing' \in {tracing, "recording"} /\ UNCHANGED <<browser, page, stream, muddled>>
    BY <1>9 DEF TraceStarts, Ended, At
  <2>2. /\ call'[o].kind = "none" /\ \A p \in ObsCalls : p # o => call'[p] = call[p]
    BY <1>0, <2>1, ObsMoves, ObsShapes
  <2>3. TracesFit'
    BY <1>0, <2>1, <2>2 DEF TracesFit
  <2> QED
    BY <1>0, <1>a, <2>1, <2>3, ObsShapes DEF GoingOn
<1>10. ASSUME NEW o \in ObsCalls, stopTrace(o) PROVE ObsInv'
  <2>1. PICK x \in ObsCall : /\ x = [kind |-> "stopTrace", step |-> "looking", shot |-> 0]
                             /\ x.kind = "stopTrace" /\ x.step = "looking"
    <3>1. "stopTrace" \in Kinds /\ "looking" \in Steps
      BY DEF Kinds, Steps
    <3> QED
      BY <3>1, LaunchedExists
  <2>2. /\ call' = [call EXCEPT ![o] = x] /\ call[o].kind = "none" /\ tracing' = "stopping"
        /\ tracing = "recording" /\ UNCHANGED <<browser, page, stream, muddled>>
    BY <1>10, <2>1, ObsShapes DEF stopTrace, Launched, Free
  <2>3. call'[o] = x /\ \A p \in ObsCalls : p # o => call'[p] = call[p]
    BY <1>0, <2>2, ObsMoves
  <2>4. TracesFit'
    <3>1. ~muddled => \A p \in ObsCalls : call[p].kind \notin {"startTrace", "stopTrace"}
      BY <1>0, <2>2 DEF TracesFit
    <3> QED
      BY <2>1, <2>2, <2>3, <3>1 DEF TracesFit
  <2> QED
    BY <1>0, <1>a, <2>1, <2>2, <2>4 DEF GoingOn
<1>11. ASSUME NEW o \in ObsCalls, StopFails(o) PROVE ObsInv'
  <2>1. /\ call' = [call EXCEPT ![o] = NoCall] /\ call[o].kind = "stopTrace" /\ muddled' = TRUE
        /\ UNCHANGED <<browser, page, stream, tracing>>
    BY <1>11 DEF StopFails, Ended, At
  <2>2. TracesFit'
    BY <2>1 DEF TracesFit
  <2> QED
    BY <1>0, <1>a, <2>1, <2>2, ObsShapes DEF GoingOn
<1>12. ASSUME NEW o \in ObsCalls, StopFinds(o) PROVE ObsInv'
  <2>1. PICK x \in ObsCall : x = [call[o] EXCEPT !.step = "collecting"] /\ x.kind = "stopTrace"
    <3>1. call[o] \in ObsCall /\ call[o].kind = "stopTrace" /\ "collecting" \in Steps
      BY <1>0, <1>12 DEF StopFinds, At, Steps
    <3> QED
      BY <3>1, MovedExists
  <2>2. call' = [call EXCEPT ![o] = x] /\ call[o].kind = "stopTrace"
    BY <1>12, <2>1 DEF StopFinds, Moved, At
  <2> QED
    BY <1>0, <1>12, <1>b, <2>1, <2>2 DEF StopFinds, GoingOn
<1>13. ASSUME NEW o \in ObsCalls, TraceStops(o) PROVE ObsInv'
  <2>1. /\ call' = [call EXCEPT ![o] = NoCall] /\ call[o].kind = "stopTrace" /\ tracing' = "idle"
        /\ UNCHANGED <<browser, page, stream, muddled>>
    BY <1>13 DEF TraceStops, Ended, At
  <2>2. /\ call'[o].kind = "none" /\ \A p \in ObsCalls : p # o => call'[p] = call[p]
    BY <1>0, <2>1, ObsMoves, ObsShapes
  <2>3. TracesFit'
    BY <1>0, <2>1, <2>2 DEF TracesFit
  <2> QED
    BY <1>0, <1>a, <2>1, <2>3, ObsShapes DEF GoingOn
<1>14. ASSUME NEW o \in ObsCalls, Tick(o) PROVE ObsInv'
  <2>1. PICK x \in ObsCall : /\ x = [kind |-> "capture", step |-> "going", shot |-> 0]
                             /\ x.kind = "capture" /\ x.step = "going"
    <3>1. "capture" \in Kinds /\ "going" \in Steps
      BY DEF Kinds, Steps
    <3> QED
      BY <3>1, LaunchedExists
  <2> QED
    BY <1>0, <1>14, <1>b, <2>1, ObsShapes DEF Tick, Launched, Free, GoingOn
<1>15. ASSUME NEW o \in ObsCalls, Taken(o) PROVE ObsInv'
  <2>1. PICK x \in ObsCall : /\ call' = [call EXCEPT ![o] = x]
                             /\ x.kind = "capture" /\ call[o].kind = "capture"
    <3>1. PICK c \in ObsCall, n \in 0 .. MaxPage : c = call[o] /\ n = page
      BY <1>0
    <3>2. /\ [kind |-> c.kind, step |-> "taken", shot |-> n] \in ObsCall
          /\ [kind |-> c.kind, step |-> "taken", shot |-> n].kind = c.kind
      BY <3>1 DEF ObsCall, Steps
    <3>3. call' = [call EXCEPT ![o] = [kind |-> c.kind, step |-> "taken", shot |-> n]]
      <4>1. PICK d : d = [c EXCEPT !.step = "taken"]
        OBVIOUS
      <4>2. call' = [call EXCEPT ![o] = [d EXCEPT !.shot = n]]
        BY <1>0, <1>15, <3>1, <4>1 DEF Taken
      <4>3. d = [kind |-> c.kind, step |-> "taken", shot |-> c.shot]
        BY <3>1, <4>1 DEF ObsCall
      <4>4. [d EXCEPT !.shot = n] = [kind |-> c.kind, step |-> "taken", shot |-> n]
        BY <4>3
      <4> QED
        BY <4>2, <4>4
    <3> QED
      BY <1>15, <3>1, <3>2, <3>3 DEF Taken, At
  <2> QED
    BY <1>0, <1>15, <1>b, <2>1 DEF Taken, GoingOn
<1>16. ASSUME NEW o \in ObsCalls, Streamed(o) PROVE ObsInv'
  <2>1. PICK n \in 0 .. MaxPage : n = call[o].shot
    BY <1>0 DEF ObsCall
  <2>2. /\ call' = [call EXCEPT ![o] = NoCall] /\ call[o].kind = "capture" /\ browser' = "connected"
        /\ lastHash' = n /\ UNCHANGED <<tracing, page, ticking, muddled>>
        /\ frame' = IF n = lastHash THEN frame
                    ELSE [v \in Viewers |-> IF frame[v] = Away THEN Away ELSE n]
    BY <1>16, <2>1 DEF Streamed, Ended, At
  <2>3. /\ call' \in [ObsCalls -> ObsCall] /\ call'[o].kind = "none"
        /\ \A p \in ObsCalls : p # o => call'[p] = call[p]
    BY <1>0, <2>2, ObsMoves, ObsShapes
  <2>4. TracesFit'
    BY <1>0, <2>2, <2>3, ObsUntraced
  <2>5. n \in 0 .. Away /\ Away \in 0 .. Away
    BY PagesAreNumbers
  <2>6. frame' \in [Viewers -> 0 .. Away] /\ \A v \in Viewers : frame'[v] \in {Away, 0, n}
    <3>1. CASE n = lastHash
      BY <1>0, <2>2, <3>1 DEF ViewersAgree
    <3>2. CASE n # lastHash
      BY <2>2, <2>5, <3>2
    <3> QED
      BY <3>1, <3>2
  <2>7. ObsTypeOK'
    BY <1>0, <2>2, <2>3, <2>6 DEF ObsTypeOK, ObsCall, Kinds, Steps
  <2> QED
    BY <2>2, <2>4, <2>6, <2>7 DEF ObsInv, ViewersAgree
<1>17. ASSUME NEW o \in ObsCalls, CaptureFails(o) PROVE ObsInv'
  BY <1>0, <1>17, <1>b, ObsShapes DEF CaptureFails, Ended, GoingOn
<1>18. ASSUME NEW v \in Viewers, Watch(v) \/ Leave(v) PROVE ObsInv'
  <2>1. PICK f \in {0, Away} : frame' = [frame EXCEPT ![v] = f] /\ ticking' \in BOOLEAN
    BY <1>0, <1>18 DEF Watch, Leave
  <2>2. UNCHANGED <<browser, tracing, call, page, lastHash, muddled>>
    BY <1>18 DEF Watch, Leave
  <2>3. f \in 0 .. Away
    BY PagesAreNumbers
  <2>4. frame' \in [Viewers -> 0 .. Away] /\ \A w \in Viewers : frame'[w] \in {f, frame[w]}
    BY <1>0, <2>1, <2>3
  <2>5. ViewersAgree' /\ TracesFit' /\ (browser' = "connecting" => \E o \in ObsCalls : GoingOn(o)')
    BY <1>0, <2>1, <2>2, <2>4 DEF ViewersAgree, TracesFit, GoingOn
  <2>6. ObsTypeOK'
    BY <1>0, <2>1, <2>2, <2>4 DEF ObsTypeOK, ObsCall, Kinds, Steps
  <2> QED
    BY <2>5, <2>6 DEF ObsInv
<1>19. CASE UNCHANGED obsVars
  BY <1>0, <1>19 DEF obsVars, stream, ObsInv, ObsTypeOK, ViewersAgree, TracesFit, GoingOn
<1> QED
  BY <1>1, <1>2, <1>3, <1>4, <1>5, <1>6, <1>7, <1>8, <1>9, <1>10, <1>11, <1>12, <1>13, <1>14,
     <1>15, <1>16, <1>17, <1>18, <1>19 DEF ObsNext

LEMMA ObsSound == ObsInv => ObsTypeOK /\ ConnectingIsGoing /\ ViewersAgree /\ StoppingIsAStop
<1> SUFFICES ASSUME ObsInv PROVE ConnectingIsGoing /\ StoppingIsAStop
  BY DEF ObsInv
<1>1. ConnectingIsGoing
  BY DEF ObsInv, ConnectingIsGoing, GoingOn
<1>2. StoppingIsAStop
  BY DEF ObsInv, TracesFit, StoppingIsAStop
<1> QED
  BY <1>1, <1>2

(*****************************************************************************)
(* The stream of the jobs: its buffer, its numbers, and what a page shows of *)
(* it.                                                                       *)
(*****************************************************************************)

FeedInv ==
  /\ FeedTypeOK /\ EventsRefetch
  /\ counted = buffered
  /\ \A p \in Polls : poll[p] <= update
  /\ source # "none" \/ retrying \/ (hidden /\ wasConnected)

LEMMA FeedNumbers == MaxUpdate \in Nat /\ BufferSize \in Nat /\ 1 <= MaxUpdate /\ 1 <= BufferSize
BY FeedAssumption

LEMMA FeedStarts == FeedInit => FeedInv
<1> SUFFICES ASSUME FeedInit PROVE FeedInv
  OBVIOUS
<1>1. 1 \in 1 .. MaxUpdate /\ 0 \in 0 .. MaxUpdate /\ 0 \in 0 .. BufferSize /\ 0 <= 1
  BY FeedNumbers
<1>2. update \in 1 .. MaxUpdate /\ poll \in [Polls -> 0 .. MaxUpdate]
  BY <1>1 DEF FeedInit
<1>3. FeedTypeOK
  BY <1>1, <1>2 DEF FeedInit, FeedTypeOK
<1>4. refetched >= received
  BY DEF FeedInit
<1> QED
  BY <1>1, <1>3, <1>4 DEF FeedInit, FeedInv, EventsRefetch

LEMMA FeedSteps == FeedInv /\ [FeedNext]_feedVars => FeedInv'
<1> SUFFICES ASSUME FeedInv, [FeedNext]_feedVars PROVE FeedInv'
  OBVIOUS
<1> USE FeedNumbers DEF FeedInv, FeedTypeOK, EventsRefetch
<1>1. CASE UpdateJob
  BY <1>1 DEF UpdateJob, client, pageState
<1>2. ASSUME NEW p \in Polls, StartPoll(p) PROVE FeedInv'
  BY <1>2 DEF StartPoll, client, pageState
<1>3. ASSUME NEW p \in Polls, EndPoll(p) PROVE FeedInv'
  <2>1. /\ poll' = [poll EXCEPT ![p] = 0] /\ update' = update /\ source' = source
        /\ retrying' = retrying /\ hidden' = hidden /\ wasConnected' = wasConnected
    BY <1>3 DEF EndPoll, client
  <2>2. poll[p] \in 0 .. MaxUpdate /\ poll[p] <= update
    OBVIOUS
  <2>3. poll' \in [Polls -> 0 .. MaxUpdate] /\ \A q \in Polls : poll'[q] <= update'
    BY <2>1, <2>2
  <2>4. /\ {lastSeen, received, refetched}' \subseteq 0 .. MaxUpdate
        /\ {buffered, counted}' \subseteq 0 .. BufferSize /\ unheard' \in BOOLEAN
        /\ counted' = buffered' /\ (~unheard' => refetched' >= received')
    <3>1. CASE ~Differs(p)
      BY <1>3, <3>1 DEF EndPoll, pageState
    <3>2. CASE Differs(p)
      <4>1. lastSeen' = poll[p] /\ received' = poll[p] /\ Hear
        BY <1>3, <3>2 DEF EndPoll
      <4>2. PICK b \in 0 .. BufferSize : b = buffered
        OBVIOUS
      <4>3. CASE b < BufferSize
        <5>1. b + 1 \in 0 .. BufferSize /\ b + 1 > b /\ b + 1 # b
          BY <4>2, <4>3
        <5>2. buffered' = b + 1 /\ counted' = b + 1 /\ refetched' = update /\ unheard' = unheard
          BY <4>1, <4>2, <4>3, <5>1 DEF Hear
        <5> QED
          BY <2>2, <4>1, <5>1, <5>2
      <4>4. CASE ~(b < BufferSize)
        <5>1. b = BufferSize /\ ~(BufferSize > b) /\ b \in 0 .. BufferSize
          BY <4>2, <4>4
        <5>2. buffered' = b /\ counted' = counted /\ refetched' = refetched /\ unheard' = TRUE
          BY <4>1, <4>2, <4>4, <5>1 DEF Hear
        <5> QED
          BY <2>2, <4>1, <4>2, <5>1, <5>2
      <4> QED
        BY <4>3, <4>4
    <3> QED
      BY <3>1, <3>2
  <2> QED
    BY <2>1, <2>3, <2>4
<1>4. ASSUME NEW p \in Polls, PollFails(p) PROVE FeedInv'
  BY <1>4 DEF PollFails, client, pageState
<1>5. CASE Opened
  BY <1>5 DEF Opened, pageState
<1>6. CASE Fails
  BY <1>6 DEF Fails, Dropped, pageState
<1>7. CASE Retry
  BY <1>7 DEF Retry, pageState
<1>8. CASE Hide
  <2>1. /\ update' = update /\ received' = received /\ buffered' = buffered /\ counted' = counted
        /\ refetched' = refetched /\ unheard' = unheard /\ hidden' = TRUE
    BY <1>8 DEF Hide, pageState
  <2>2. CASE source # "none"
    <3>1. /\ source' = "none" /\ retrying' = FALSE /\ wasConnected' = TRUE /\ lastSeen' = 0
          /\ poll' = [p \in Polls |-> 0]
      BY <1>8, <2>2 DEF Hide, Dropped
    <3>2. 0 \in 0 .. MaxUpdate /\ 0 <= update
      OBVIOUS
    <3>3. poll' \in [Polls -> 0 .. MaxUpdate] /\ \A p \in Polls : poll'[p] <= update'
      BY <2>1, <3>1, <3>2
    <3>4. {lastSeen, received, refetched}' \subseteq 0 .. MaxUpdate
      BY <2>1, <3>1, <3>2
    <3> QED
      BY <2>1, <3>1, <3>3, <3>4
  <2>3. CASE source = "none"
    BY <1>8, <2>1, <2>3 DEF Hide
  <2> QED
    BY <2>2, <2>3
<1>9. CASE Show
  BY <1>9 DEF Show, pageState
<1>10. CASE UNCHANGED feedVars
  BY <1>10 DEF feedVars
<1> QED
  BY <1>1, <1>2, <1>3, <1>4, <1>5, <1>6, <1>7, <1>8, <1>9, <1>10 DEF FeedNext

LEMMA FeedSound == FeedInv => FeedTypeOK /\ ShownIsConnecting /\ EventsRefetch
BY DEF FeedInv, ShownIsConnecting

(*****************************************************************************)
(* The six together.                                                         *)
(*****************************************************************************)

\* A behaviour of the six is one of each.
LEMMA EachBehaves ==
  Spec => /\ LifecycleSpec
          /\ LoopInit /\ [][LoopNext]_loopVars
          /\ CliInit /\ [][CliNext]_cliVars
          /\ SpendInit /\ [][SpendNext]_spendVars
          /\ ObsInit /\ [][ObsNext]_obsVars
          /\ FeedInit /\ [][FeedNext]_feedVars
<1>1. Init => LifecycleInit /\ LoopInit /\ CliInit /\ SpendInit /\ ObsInit /\ FeedInit
  BY DEF Init
<1>2. [Next]_<<part, lifecycleVars, loopVars, cliVars, spendVars, feedVars, obsVars>> =>
        /\ [LifecycleNext]_lifecycleVars /\ [LoopNext]_loopVars /\ [CliNext]_cliVars
        /\ [SpendNext]_spendVars /\ [ObsNext]_obsVars /\ [FeedNext]_feedVars
  BY DEF Next
<1> QED
  BY <1>1, <1>2, PTL DEF Spec, Fairness, LifecycleSpec

\* A result says what the execution did, for a loop of a model and its tools and for the
\* process of a CLI: no conversation is sent with a call unanswered, the repetitions of turns
\* and the tools beyond the limit are bounded, a job that completes is within its budget and
\* was charged for every answer unless the charge failed, what ended by a signal is told as a
\* time-out and what told its result never is, and a process that outlives its execution is
\* ended by its time-out.
THEOREM ResultsStayEarned == Spec => []ResultsAreEarned
<1>1. Spec => []LoopInv
  BY EachBehaves, LoopStarts, LoopSteps, PTL
<1>2. Spec => []CliInv
  BY EachBehaves, CliStarts, CliSteps, PTL
<1>3. LoopInv /\ CliInv => ResultsAreEarned
  BY LoopSound, CliSound DEF ResultsAreEarned
<1> QED
  BY <1>1, <1>2, <1>3, PTL

\* The loop asks the model no more once its execution is cancelled, by whom and whenever.
THEOREM CancelledAskNoMore == Spec => NoRequestAfterCancel
<1>1. Spec => []LoopInv
  BY EachBehaves, LoopStarts, LoopSteps, PTL
<1> QED
  BY <1>1, EachBehaves, LoopAsksNoMore, PTL DEF NoRequestAfterCancel

\* The jobs of a session that completed with their costs checked cost together no more than its
\* limit, although each was checked by itself, all but those of the CLI whose cancel came behind
\* their result; and an event that AgentEventEmitter took is in one
\* place until it is in the table or lost with its batch, and never waits in the buffer
\* without a flush to come.
THEOREM SpendingStaysSound == Spec => []SpendingIsSound
<1>1. SpendInit => SpendInv /\ BudgetFits
  BY SpendStarts, BudgetStarts
<1>2. SpendInv /\ BudgetFits /\ [SpendNext]_spendVars => (SpendInv /\ BudgetFits)'
  BY SpendSteps, BudgetSteps
<1>3. SpendInv /\ BudgetFits => SpendingIsSound
  BY SpendSound, BudgetSound DEF SpendingIsSound
<1> QED
  BY EachBehaves, <1>1, <1>2, <1>3, PTL

\* What those who watch an agent see is what there is: its browser, its pictures, its jobs.
THEOREM ViewsStayTrue == Spec => []ViewsAreTrue
<1>1. Spec => []ObsInv
  BY EachBehaves, ObsStarts, ObsSteps, PTL
<1>2. Spec => []FeedInv
  BY EachBehaves, FeedStarts, FeedSteps, PTL
<1>3. ObsInv /\ FeedInv => ViewsAreTrue
  BY ObsSound, FeedSound DEF ViewsAreTrue
<1> QED
  BY <1>1, <1>2, <1>3, PTL
=============================================================================
