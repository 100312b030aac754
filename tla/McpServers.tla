------------------------------ MODULE McpServers ------------------------------
(*****************************************************************************)
(* One MCP server: its row, the operator's routes that write it and the      *)
(* health supervisor that probes it.  A tick of the supervisor reads the     *)
(* row, reconciles its own state object with it and starts a probe, which    *)
(* writes the status back by id; ticks come by an interval and overlap.      *)
(* Servers do not depend on one another.                                     *)
(*****************************************************************************)
EXTENDS Naturals

CONSTANTS
  Probes,              \* bound: the ticks and probes in flight at one time
  Health,              \* bound: the state objects that are ever made
  FailureThreshold, SuccessThreshold,   \* of DEFAULT_MCP_CB_CONFIG
  Unwatched            \* there is no state object for the server

ASSUME ServerAssumption ==
  /\ FailureThreshold \in Nat \ {0} /\ SuccessThreshold \in Nat \ {0}
  /\ Unwatched \notin Health

VARIABLES
  row,        \* mcp_server.status
  deploying,  \* the route that made the row awaits the deployer
  watched,    \* the supervisor's state object for the server
  health,     \* the state objects: status and circuit breaker of each
  probe       \* ticks and probes in flight

serverVars == <<row, deploying, watched, health, probe>>

Status == {"PENDING", "ACTIVE", "DEGRADED", "ERROR", "DISABLED"}

\* fresh: no probe of it has ended.
Object == [status: Status, fresh: BOOLEAN, breaker: {"CLOSED", "OPEN", "HALF_OPEN"},
           failures: 0..FailureThreshold, successes: 0..SuccessThreshold]

NoObject == [fresh |-> TRUE]
NoProbe  == [pc |-> "none"]

ServerInit ==
  /\ row = "absent" /\ deploying = FALSE
  /\ watched = Unwatched
  /\ health = [h \in Health |-> NoObject]
  /\ probe = [p \in Probes |-> NoProbe]

-----------------------------------------------------------------------------
\* The routes.  An in-cluster server's row is written again when its deployment ends.

POST ==
  /\ row = "absent" /\ ~deploying
  /\ row' = "PENDING" /\ deploying' \in BOOLEAN
  /\ UNCHANGED <<watched, health, probe>>

Deployed ==
  /\ deploying
  /\ deploying' = FALSE
  /\ row' \in IF row = "absent" THEN {"absent"} ELSE {"ACTIVE", "ERROR"}
  /\ UNCHANGED <<watched, health, probe>>

\* PUT writes any status, refresh PENDING, and DELETE DISABLED before it removes the row.
PUT ==
  /\ row # "absent"
  /\ row' \in Status \ {row}
  /\ UNCHANGED <<deploying, watched, health, probe>>

DELETE ==
  /\ row # "absent"
  /\ row' = "absent"
  /\ UNCHANGED <<deploying, watched, health, probe>>

-----------------------------------------------------------------------------
\* The circuit breaker of a state object.

Tripped(b)  == [b EXCEPT !.breaker = "OPEN"]
Reset(b)    == [b EXCEPT !.breaker = "CLOSED", !.failures = 0, !.successes = 0]
TryAgain(b) == [b EXCEPT !.breaker = "HALF_OPEN", !.successes = 0]

recordSuccess(b) ==
  IF b.breaker # "HALF_OPEN" THEN b
  ELSE IF b.successes + 1 >= SuccessThreshold THEN Reset(b)
       ELSE [b EXCEPT !.successes = @ + 1]

\* Mutant: the threshold does not trip.
recordFailureOnly(b) ==
  CASE b.breaker = "HALF_OPEN" -> Tripped([b EXCEPT !.successes = 0])
    [] b.breaker = "CLOSED" -> [b EXCEPT !.failures = @ + 1]
    [] OTHER -> b

\* In OPEN the failures go on being listed, which no one reads before they are pruned.
recordFailure(b) ==
  CASE b.breaker = "HALF_OPEN" -> Tripped([b EXCEPT !.successes = 0])
    [] b.breaker = "CLOSED" /\ b.failures + 1 >= FailureThreshold -> Tripped([b EXCEPT !.failures = FailureThreshold])
    [] b.breaker = "CLOSED" /\ b.failures + 1 < FailureThreshold -> [b EXCEPT !.failures = @ + 1]
    [] OTHER -> b

\* openDurationMs is over, or a failure has left the window.
OpenEnds(h) ==
  /\ health[h] # NoObject /\ health[h].breaker = "OPEN"
  /\ health' = [health EXCEPT ![h] = TryAgain(@)]
  /\ UNCHANGED <<row, deploying, watched, probe>>

FailureAges(h) ==
  /\ health[h] # NoObject /\ health[h].breaker = "CLOSED" /\ health[h].failures > 0
  /\ health' = [health EXCEPT ![h].failures = @ - 1]
  /\ UNCHANGED <<row, deploying, watched, probe>>

\* Mutant: a circuit that is tried again counts as healthy.
StatusOfTried(b) == CASE b.breaker \in {"CLOSED", "HALF_OPEN"} -> "ACTIVE"
                      [] b.breaker = "OPEN" -> "ERROR"

\* circuitStateToMcpStatus
StatusOf(b) == CASE b.breaker = "CLOSED" -> "ACTIVE"
                 [] b.breaker = "HALF_OPEN" -> "DEGRADED"
                 [] b.breaker = "OPEN" -> "ERROR"

\* Mutant: the query has no condition on the status.
TickAll(p) ==
  /\ probe[p] = NoProbe
  /\ probe' = [probe EXCEPT ![p] = [pc |-> "listed", status |-> row]]
  /\ UNCHANGED <<row, deploying, watched, health>>

-----------------------------------------------------------------------------
\* tick: the servers that are not disabled are read ...
Tick(p) ==
  /\ probe[p] = NoProbe
  /\ probe' = [probe EXCEPT ![p] =
       [pc |-> "listed", status |-> IF row = "DISABLED" THEN "absent" ELSE row]]
  /\ UNCHANGED <<row, deploying, watched, health>>

\* ... and reconcile drops the state object or makes one.
Reconciled(p) ==
  LET found == probe[p].status IN
    IF found = "absent" THEN watched' = Unwatched /\ health' = health
    ELSE IF watched # Unwatched THEN watched' = watched /\ health' = health
    ELSE \E h \in Health :
           /\ health[h] = NoObject
           /\ watched' = h
           /\ health' = [health EXCEPT ![h] = [status |-> found, fresh |-> TRUE,
                           breaker |-> "CLOSED", failures |-> 0, successes |-> 0]]

\* A probe starts unless the circuit is open or the interval has not passed.
Reconcile(p) ==
  /\ probe[p].pc = "listed"
  /\ Reconciled(p)
  /\ \/ probe' = [probe EXCEPT ![p] = NoProbe]
     \/ /\ watched' # Unwatched /\ health'[watched'].breaker # "OPEN"
        /\ probe' = [probe EXCEPT ![p] = [pc |-> "probing", object |-> watched']]
  /\ UNCHANGED <<row, deploying>>

\* The probe ends: the object is updated, whether it is still watched or not.  (A server
\* without a URL, stdio that is, always fails.)
ProbeEnds(p) ==
  LET h == probe[p].object IN
    /\ probe[p].pc = "probing"
    /\ \E b \in {recordSuccess(health[h]), recordFailure(health[h])} :
         /\ health' = [health EXCEPT ![h] = [b EXCEPT !.status = StatusOf(b), !.fresh = FALSE]]
         /\ probe' = [probe EXCEPT ![p] = [pc |-> "writing", status |-> StatusOf(b)]]
    /\ UNCHANGED <<row, deploying, watched>>

\* Mutant: the row is inserted if it is not there.
WriteStatusAnyway(p) ==
  /\ probe[p].pc = "writing"
  /\ row' = probe[p].status
  /\ probe' = [probe EXCEPT ![p] = NoProbe]
  /\ UNCHANGED <<deploying, watched, health>>

\* updateServerDb: an UPDATE by id, whose failure is swallowed.
WriteStatus(p) ==
  /\ probe[p].pc = "writing"
  /\ row' \in IF row = "absent" THEN {"absent"} ELSE {probe[p].status, row}
  /\ probe' = [probe EXCEPT ![p] = NoProbe]
  /\ UNCHANGED <<deploying, watched, health>>

ServerNext ==
  \/ POST \/ Deployed \/ PUT \/ DELETE
  \/ \E h \in Health : OpenEnds(h) \/ FailureAges(h)
  \/ \E p \in Probes : Tick(p) \/ Reconcile(p) \/ ProbeEnds(p) \/ WriteStatus(p)

ServerSpec == ServerInit /\ [][ServerNext]_serverVars

-----------------------------------------------------------------------------
\* Rows, state objects and probes are well formed, and what is watched or probed exists.
ServerTypeOK ==
  /\ row \in Status \cup {"absent"} /\ deploying \in BOOLEAN
  /\ watched \in Health \cup {Unwatched}
  /\ health \in [Health -> {NoObject} \cup Object]
  /\ probe \in [Probes -> {NoProbe} \cup [pc: {"listed", "writing"}, status: Status \cup {"absent"}]
                                    \cup [pc: {"probing"}, object: Health]]
  /\ watched # Unwatched => health[watched] # NoObject
  /\ \A p \in Probes : probe[p].pc = "probing" => health[probe[p].object] # NoObject

\* The status a probe reports is that of the circuit: ACTIVE exactly when it is closed,
\* and once it has been open only after the successes that close it, however probes
\* of one object overlap.
StatusFollowsBreaker ==
  \A h \in Health : ~health[h].fresh =>
    /\ (health[h].status = "ACTIVE") <=> (health[h].breaker = "CLOSED")
    /\ health[h].status = "DEGRADED" => health[h].breaker = "HALF_OPEN"

\* Types, and the status that follows its breaker.
HealthIsTrue == ServerTypeOK /\ StatusFollowsBreaker

\* The supervisor may still turn on a server that was disabled.
MayTurnOn(p) == \/ probe[p].pc \in {"probing", "writing"}
                \/ probe[p].pc = "listed" /\ probe[p].status # "absent"

\* A server that is disabled is turned on again by an operator, by its own deployment, or
\* by a probe that had found it before: once these have ended, no tick starts another.
DisabledStaysDisabled ==
  [][row = "DISABLED" /\ ~deploying /\ (\A p \in Probes : ~MayTurnOn(p)) =>
       /\ row' = "DISABLED" \/ PUT \/ DELETE
       /\ \A p \in Probes : ~MayTurnOn(p)']_serverVars

\* A server that was deleted comes back by its creation only, whatever probes and
\* deployments were still going on.
DeletedStaysDeleted == [][row = "absent" /\ row' # "absent" => POST]_serverVars
=============================================================================
