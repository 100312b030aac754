--------------------------- MODULE AgentLifecycle ---------------------------
(*****************************************************************************)
(* The AgentLifecycleManager of one control plane, for one agent: everything *)
(* the manager keeps is keyed by agent id and no operation on an agent reads *)
(* another's entry.  The map entry of the agent names a context; contexts    *)
(* that were replaced or removed live on as long as an operation that awaits *)
(* something holds them.                                                     *)
(*                                                                           *)
(* An asynchronous operation is two actions: up to its await, and the rest.  *)
(*****************************************************************************)
EXTENDS Naturals, FiniteSets

CONSTANTS
  Contexts,      \* the AgentContext objects that may be created
  NoContext,
  BootsOverlap   \* boot is called while the agent has a context or a
                 \* termination still awaits the deletion of the pod

ASSUME LifecycleAssumption ==
  /\ NoContext \notin Contexts
  /\ BootsOverlap \in BOOLEAN

VARIABLES
  agents,    \* AgentLifecycleManager.agents: the agent's context
  machine,   \* the state of each context's AgentLifecycleStateMachine
  awaiting,  \* the operations past their await, each with its context
  idle,      \* IdleDetector: a timer of the agent is set
  cooling    \* CrashLoopDetector.isInCooldown

lifecycleVars == <<agents, machine, awaiting, idle, cooling>>

VALID_TRANSITIONS ==
  [BOOTING     |-> {"HYDRATING", "TERMINATED", "SAFE_MODE"},
   HYDRATING   |-> {"READY", "TERMINATED"},
   READY       |-> {"EXECUTING", "DRAINING"},
   EXECUTING   |-> {"DRAINING", "TERMINATED", "DEGRADED", "QUARANTINED"},
   DRAINING    |-> {"TERMINATED"},
   TERMINATED  |-> {},
   DEGRADED    |-> {"EXECUTING", "QUARANTINED", "DRAINING", "TERMINATED"},
   QUARANTINED |-> {"DRAINING", "TERMINATED"},
   SAFE_MODE   |-> {"READY", "TERMINATED"}]

\* transition(to) does not throw.
Allowed(c, to) == to \in VALID_TRANSITIONS[machine[c]]

Managed  == agents # NoContext
State    == machine[agents]
Awaits(op, c) == <<op, c>> \in awaiting

LifecycleInit ==
  /\ agents = NoContext
  /\ machine = [c \in Contexts |-> "BOOTING"]
  /\ awaiting = {}
  /\ idle = FALSE
  /\ cooling = FALSE

\* An object that no operation has made yet.
Fresh(c) == machine[c] = "BOOTING"

\* cleanup(agentId): whatever context the map holds now.
cleanup == agents' = NoContext /\ idle' = FALSE

-----------------------------------------------------------------------------
\* Boot.

MayBoot == BootsOverlap \/ (~Managed /\ \A c \in Contexts : ~Awaits("terminate", c))

\* Mutant: the state machine is moved only once the agent is hydrated.
bootStaysBooting(c) ==
  /\ Fresh(c) /\ MayBoot /\ ~cooling
  /\ agents' = c
  /\ awaiting' = awaiting \cup {<<"boot", c>>}
  /\ UNCHANGED <<machine, idle, cooling>>

boot(c) ==
  /\ Fresh(c) /\ MayBoot
  /\ ~cooling
  /\ agents' = c
  /\ machine' = [machine EXCEPT ![c] = "HYDRATING"]
  /\ awaiting' = awaiting \cup {<<"boot", c>>}
  /\ UNCHANGED <<idle, cooling>>

\* The catch block of boot: if the context was terminated meanwhile, the
\* transition throws and agents.delete is not reached.
GiveUp(c) ==
  \/ /\ Allowed(c, "TERMINATED")
     /\ machine' = [machine EXCEPT ![c] = "TERMINATED"]
     /\ agents' = NoContext
  \/ ~Allowed(c, "TERMINATED") /\ UNCHANGED <<machine, agents>>

\* Mutant: a booted agent's idle timer is left to its first heartbeat.
HydratedUnwatched(c) ==
  /\ Awaits("boot", c)
  /\ awaiting' = awaiting \ {<<"boot", c>>}
  /\ \/ /\ Allowed(c, "READY")
        /\ machine' = [machine EXCEPT ![c] = "READY"]
        /\ UNCHANGED <<agents, idle>>
     \/ ~Allowed(c, "READY") /\ GiveUp(c) /\ UNCHANGED idle
  /\ UNCHANGED cooling

Hydrated(c) ==
  /\ Awaits("boot", c)
  /\ awaiting' = awaiting \ {<<"boot", c>>}
  /\ \/ /\ Allowed(c, "READY")
        /\ machine' = [machine EXCEPT ![c] = "READY"]
        /\ idle' = TRUE
        /\ UNCHANGED agents
     \/ ~Allowed(c, "READY") /\ GiveUp(c) /\ UNCHANGED idle
  /\ UNCHANGED cooling

HydrationFails(c) ==
  /\ Awaits("boot", c)
  /\ awaiting' = awaiting \ {<<"boot", c>>}
  /\ GiveUp(c)
  /\ UNCHANGED <<idle, cooling>>

\* The boot route refuses an agent that has a context.
bootSafeMode(c) ==
  /\ Fresh(c) /\ ~Managed /\ MayBoot
  /\ agents' = c
  /\ machine' = [machine EXCEPT ![c] = "SAFE_MODE"]
  /\ UNCHANGED <<awaiting, idle, cooling>>

-----------------------------------------------------------------------------
\* Work.

run ==
  /\ Managed /\ Allowed(agents, "EXECUTING")
  /\ machine' = [machine EXCEPT ![agents] = "EXECUTING"]
  /\ idle' = TRUE
  /\ UNCHANGED <<agents, awaiting, cooling>>

quarantine ==
  /\ Managed /\ Allowed(agents, "QUARANTINED")
  /\ machine' = [machine EXCEPT ![agents] = "QUARANTINED"]
  /\ UNCHANGED <<agents, awaiting, idle, cooling>>

release(resetCrashDetector) ==
  /\ Managed /\ State = "QUARANTINED"
  /\ machine' = [machine EXCEPT ![agents] = "DRAINING"]
  /\ cooling' = (cooling /\ ~resetCrashDetector)
  /\ UNCHANGED <<agents, awaiting, idle>>

\* A heartbeat, known agent or not; also what is left of pause, resume and
\* steer, whose other effects are on jobs and listeners.
recordActivity ==
  /\ idle' = TRUE
  /\ UNCHANGED <<agents, machine, awaiting, cooling>>

-----------------------------------------------------------------------------
\* The end of an agent.

\* drain, up to deleteAgent.
StartDrain ==
  /\ machine' = [machine EXCEPT ![agents] = "DRAINING"]
  /\ awaiting' = awaiting \cup {<<"drain", agents>>}

drain ==
  /\ Managed /\ State \in {"READY", "EXECUTING"}
  /\ StartDrain
  /\ UNCHANGED <<agents, idle, cooling>>

\* Mutant: cleanup runs in a finally block.
DrainedAlwaysCleans(c) ==
  /\ Awaits("drain", c)
  /\ awaiting' = awaiting \ {<<"drain", c>>}
  /\ machine' = [machine EXCEPT ![c] = "TERMINATED"]
  /\ cleanup
  /\ UNCHANGED cooling

\* Mutant: a drain leaves its context DRAINING.
DrainedOnlyCleans(c) ==
  /\ Awaits("drain", c)
  /\ awaiting' = awaiting \ {<<"drain", c>>}
  /\ cleanup
  /\ UNCHANGED <<machine, cooling>>

\* Who was terminated or crashed meanwhile makes the transition throw.
Drained(c) ==
  /\ Awaits("drain", c)
  /\ awaiting' = awaiting \ {<<"drain", c>>}
  /\ \/ /\ Allowed(c, "TERMINATED")
        /\ machine' = [machine EXCEPT ![c] = "TERMINATED"]
        /\ cleanup
     \/ ~Allowed(c, "TERMINATED") /\ UNCHANGED <<machine, agents, idle>>
  /\ UNCHANGED cooling

\* Mutant: only agents that run are scaled down.
IdleTimeoutSparesReady ==
  /\ idle /\ idle' = FALSE
  /\ \/ Managed /\ State = "EXECUTING" /\ StartDrain
     \/ ~(Managed /\ State = "EXECUTING") /\ UNCHANGED <<machine, awaiting>>
  /\ UNCHANGED <<agents, cooling>>

\* The timer forgets the agent and calls scaleToZero.
IdleTimeout ==
  /\ idle /\ idle' = FALSE
  /\ \/ Managed /\ State = "READY" /\ StartDrain
     \/ ~(Managed /\ State = "READY") /\ UNCHANGED <<machine, awaiting>>
  /\ UNCHANGED <<agents, cooling>>

\* terminate, up to deleteAgent.  READY and EXECUTING pass through DRAINING.
terminate ==
  /\ Managed /\ State # "TERMINATED"
  /\ machine' = [machine EXCEPT ![agents] = "TERMINATED"]
  /\ awaiting' = awaiting \cup {<<"terminate", agents>>}
  /\ UNCHANGED <<agents, idle, cooling>>

\* Mutant: a termination only stops the timer.
TerminatedKeepsEntry(c) ==
  /\ Awaits("terminate", c)
  /\ awaiting' = awaiting \ {<<"terminate", c>>}
  /\ idle' = FALSE
  /\ UNCHANGED <<agents, machine, cooling>>

Terminated(c) ==
  /\ Awaits("terminate", c)
  /\ awaiting' = awaiting \ {<<"terminate", c>>}
  /\ cleanup
  /\ UNCHANGED <<machine, cooling>>

CrashThrows == Managed /\ State # "TERMINATED" /\ ~Allowed(agents, "TERMINATED")

\* A crash of the agent is reported; from READY the transition throws, and
\* neither recordCrash nor cleanup is reached.
crash ==
  /\ \/ CrashThrows /\ UNCHANGED <<agents, machine, idle, cooling>>
     \/ /\ ~CrashThrows
        /\ machine' = [c \in Contexts |-> IF c = agents THEN "TERMINATED" ELSE machine[c]]
        /\ cooling' = TRUE
        /\ cleanup
  /\ UNCHANGED awaiting

CooldownEnds ==
  /\ cooling /\ cooling' = FALSE
  /\ UNCHANGED <<agents, machine, awaiting, idle>>

-----------------------------------------------------------------------------
Settles(c) == Hydrated(c) \/ HydrationFails(c) \/ Drained(c) \/ Terminated(c)

LifecycleNext ==
  \/ \E c \in Contexts : boot(c) \/ bootSafeMode(c) \/ Settles(c)
  \/ run \/ quarantine \/ \E reset \in BOOLEAN : release(reset)
  \/ recordActivity
  \/ drain \/ IdleTimeout \/ terminate \/ crash \/ CooldownEnds

LifecycleSpec == LifecycleInit /\ [][LifecycleNext]_lifecycleVars

(*****************************************************************************)
(* Fairness: awaited queries and pod deletions settle and timers run out (an *)
(* agent whose heartbeats keep restarting its timer is not idle).  Nobody is *)
(* assumed to boot, run, crash, terminate or quarantine an agent.            *)
(*****************************************************************************)
LifecycleFairness ==
  /\ \A c \in Contexts : WF_lifecycleVars(Settles(c))
  /\ WF_lifecycleVars(IdleTimeout) /\ WF_lifecycleVars(CooldownEnds)

-----------------------------------------------------------------------------
\* Types of the state; a context in the map or held by an operation was made,
\* it is not BOOTING any more.
LifecycleTypeOK ==
  /\ agents \in Contexts \cup {NoContext}
  /\ machine \in [Contexts -> DOMAIN VALID_TRANSITIONS]
  /\ awaiting \subseteq ({"boot", "drain", "terminate"} \X Contexts)
  /\ {idle, cooling} \subseteq BOOLEAN
  /\ Managed => ~Fresh(agents)
  /\ \A entry \in awaiting : ~Fresh(entry[2])

Live == {c \in Contexts : machine[c] \notin {"BOOTING", "TERMINATED"}}

\* The manager never loses sight of an agent that lives: no context in a state
\* other than TERMINATED is missing from the map, and so there is at most one,
\* although drain, terminate, crash, a failing hydration and the idle timer run
\* into each other and clean up by agent id.  It needs boots to wait until the
\* agent has no context and no termination awaits its pod: cleanup would remove
\* the newly booted context from the map (AgentLifecycleManager.cleanup).
LiveIsManaged == ~BootsOverlap => Live \subseteq {agents}

\* A terminated context stays in the map only while the termination that
\* removes it awaits the pod's deletion: the boot route answers "already
\* booted" as long as there is an entry.
TerminatedIsLeaving ==
  Managed /\ State = "TERMINATED" => Awaits("terminate", agents)

\* A managed agent that is ready has its idle timer set, also when timers of
\* its earlier contexts ran out, other operations cleaned up and boots overlap.
ReadyIsWatched ==
  Managed /\ State = "READY" => idle

\* The manager knows the agent that lives, and forgets the one that has ended.
AgentIsManaged == LifecycleTypeOK /\ LiveIsManaged /\ TerminatedIsLeaving /\ ReadyIsWatched

\* An agent that is ready does not stay so unused: it runs, is scaled to zero
\* or ends otherwise.
IdleIsScaledDown ==
  Managed /\ State = "READY" ~> ~(Managed /\ State = "READY")

\* Who begins to drain an agent ends it, whoever terminates, crashes or
\* quarantines it while its pod is being deleted (AgentLifecycleManager.drain).
DrainCompletes ==
  \A c \in Contexts : Awaits("drain", c) ~> machine[c] = "TERMINATED"

=============================================================================
