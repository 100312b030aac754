# Cortex Plane: TLA+ models, checks and proofs

Cortex Plane runs autonomous agents. A control plane (Fastify, PostgreSQL, Graphile
Worker) accepts messages and jobs, executes each job as a task of an LLM backend,
supervises agents, channels and tool servers, gates actions by human approval, and
serves a dashboard. This directory holds TLA+ models of its parts, TLC runs over small
instances, and TLAPS proofs of the properties that matter most.

Paths below are relative to `src/packages/`; `cp/` stands for `control-plane/src/`,
`sh/` for `shared/src/` and `da/` for `dashboard/src/`.

## 1. Inventory

| Part | State it keeps | Operations | Meets | Hard behaviour | What makes it correct |
|---|---|---|---|---|---|
| Job lifecycle (`cp/worker/tasks/agent-execute.ts`, `cp/routes/agents.ts`, `agent-control.ts`, `dashboard.ts`) | `job` rows, the Graphile queue, handlers in flight | create, take, start, gate, execute, persist, fail, retry, kill, dashboard retry | everything below | two entries for one job, statements of several handlers between one another, death of a worker, lost enqueues | no job is lost or runs past its gate; every statement obeys the trigger; every job comes to rest |
| Job state machine (migration 007) | `job.status` | a trigger on UPDATE | every writer of a job | rejects what a writer did not expect | the abstract specification of the status |
| Execution registry (`cp/observability/execution-registry.ts`) | a handle per job | register, unregister, cancel | handlers, kill route | two executions of one job | a kill reaches the execution of that job and no other |
| Approvals (`cp/approval/`, `da/app/approvals/`) | `approval_request` rows, their audit trail | create, approve, reject, expire | jobs, cron, the page | decision against expiry and against another decision | one decision; the job and the page follow it |
| Provider routing (`sh/backends/`) | breaker, semaphore, waiters per provider | route, acquire, release, record outcome | handlers | waiter time-out against hand-over, late outcomes, probes that never report | permits exact, slots not leaked, probing ends |
| Execution monitor (`cp/lifecycle/agent-circuit-breaker.ts`, the event loop of `agent-execute.ts`, steering in `manager.ts`) | windows and budgets of an execution, pending steering messages | record, check, steer, acknowledge | backends, operators | windows forget, refused calls are not recorded, two listeners of one agent | an execution that overruns is cancelled and no other; a turn names one place |
| Execution backends (`cp/backends/`) | a generator or a process per execution | events, result, cancel, time-out | handlers, tools, providers | cancel against a late event, exit against end of output | the result says what happened; nothing outlives the execution |
| Agent lifecycle (`cp/lifecycle/manager.ts`) | a context with a state machine per agent, idle timer, crash counts | boot, run, drain, terminate, crash, quarantine, release, safe mode | deployer, routes | every operation awaits and cleans up by agent id | no living context is lost, no dead one stays |
| Channel supervisor, registry, router, reloader (`sh/channels/`, `cp/channels/channel-reloader.ts`) | health status, recovery timer, circuit per channel | probe, recover, reload, stop | adapters, configuration routes | probes, recoveries and reloads of one adapter at a time | an adapter that failed is restarted; none after stop; messages go through the registered one |
| Channel authorisation (`cp/auth/pairing-service.ts`, `access-request-service.ts`, `channel-auth-guard.ts`) | codes, requests, grants | generate, redeem, request, approve, deny, resolve | message dispatch | read, then guarded write, then insert | a grant for every redeemed code and only for approved requests; what is revoked stays so |
| Message dispatch, sessions, chat (`cp/channels/message-dispatch.ts`, `cp/routes/chat.ts`, `cp/auth/user-rate-limiter.ts`, `da/hooks/use-chat-api.ts`) | sessions, messages, watches, the chat panel | dispatch, watch, relay, poll, close, resume | jobs, channels | a watch that ends before its job, reads before unguarded writes | every message answered or refused; one active session |
| Memory extraction (`cp/worker/memory-scheduler.ts`, `tasks/memory-extract.ts`) | messages, counters, queue | record, enqueue window, extract, mark | chat, queue | ids become visible out of order, windows overlap | every message extracted; none marked unseen |
| Event streaming (`cp/streaming/`, `da/lib/sse-client.ts`) | event counter, replay buffer, connections | broadcast, connect with last id, disconnect | dashboard | reconnection while events arrive, a full buffer, a restart | events in order, each once, none skipped that was kept |
| MCP (`cp/mcp/`) | connections, pending connections, breaker per server, tool caches | connect, call, reconnect, disconnect, tick, resolve | tools of a task | a map changed during awaits, overlapping ticks | connections bounded, leaks only where calls collide, status follows what was seen |
| Credentials, OAuth, sign-in (`cp/auth/`) | tokens, keys, accounts, identities, browser sessions | resolve, refresh, revoke, log in, log out | tasks, cron, providers | two refreshes of a rotating token, two logins at a time | a token that works is kept; a verifier is spent once |
| Spending, events (`cp/observability/`) | job and session costs, event buffer | charge, flush | handlers | check after charge, flush against enqueue | budgets hold between jobs; events once |
| Browser observation (`cp/observation/`, `cp/browser/`) | connections, traces, the screenshot stream | navigate, trace, stream | tool, routes | calls that overlap on one browser | viewers see the last page; states end |
| Operators' calls (`cp/routes/agent-control.ts`, `agents.ts`, `cp/lifecycle/`) | agent rows, sessions, checkpoints | archive, kill, quarantine, release, rollback, replay | jobs | count, then write | an archived agent has nothing left |
| Capabilities, skills, models (`cp/capabilities/`, `sh/skills/`, `cp/channels/preflight.ts`) | bindings, a skill index, model configuration | bind, guard, delegate, refresh, select, preflight | tasks | cached files, checks before use | a task may do what it was bound to, and runs on what it was checked for |
| Kubernetes deployers (`cp/mcp/k8s-deployer.ts`) | cluster objects | apply, wait, teardown | routes | half-made deployments | nothing of a failed deployment is left |
| Dashboard (`da/`) | queries, forms, dialogs, the picked row | load, poll, post, pick | all routes | answers out of order, retried requests, stale forms | a page shows what was picked and tells what became of a request |
| Session buffer, memory files, proactive detection, content, feedback, voice, wiring | | | | files and single statements | |

`PROJECT.json` lists each of these with its sources and says what is not modelled and
why, and lists the hazards at their lines with the properties that cover them.

## 2. Modules

| Module | Models |
|---|---|
| `JobStateMachine` | the database trigger: which status may follow which; abstract |
| `JobLifecycle` | jobs, queue, handlers, routes, approvals; implements `JobStateMachine` |
| `ProviderRouting` | circuit breakers, semaphores and the tasks that pass through them |
| `ExecutionMonitor` | limits of the executions of one agent, and the messages that steer them |
| `AccessGrants` | grants, pairing codes and access requests of one agent |
| `ChatSessions`, `ChatRelay`, `MemoryWindows`, `EventStream` | a user's sessions and rate limit; the answer to one message; extraction of a session's messages; the events of an agent on their way to a dashboard |
| `McpClient`, `McpServers` | the pool of connections and the tool router; one server's row under probes and operators |
| `Credentials`, `SignIn`, `ToolSecrets` | one provider credential; logins, accounts and browser sessions; API keys of tools |
| `AgentLifecycle` | the lifecycle manager, for one agent |
| `ChannelSupervisor` | one channel type: its adapter, the supervisor's probes and restarts, the reloader |
| `ToolLoop`, `CliProcess` | an execution by an HTTP backend with its tools; by the Claude Code process |
| `Spending`, `Observation`, `JobFeed` | costs and event batches; one browser and its viewers; the stream of jobs |
| `AgentAdmin`, `Capabilities`, `ModelContract`, `SkillIndex`, `McpDeploys` | operators' calls on an agent; bindings, guard and delegation; model selection and preflight; the skill index; deployed servers |
| `ApiClient`, `ChatView`, `ApprovalDesk`, `SettingsPage`, `AgentPages`, `JobPages` | requests, retries and shared queries; the pages of the dashboard with the routes they call |
| `MCJobLifecycle`, `MCProviderRouting`, `MCConversation`, `MCServices`, `MCWorkbench`, `MCConsole` | constant definitions, symmetry and composition for TLC |
| `JobLifecycleProofs`, `RoutingProofs`, `AccessGrantsProofs`, `ConversationProofs`, `ServicesProofs`, `WorkbenchProofs`, `ChannelSupervisorProofs`, `ConsoleProofs` | theorems |

A definition whose comment begins with "Mutant" is no part of a specification. It is a
definition as a plausible bug would have it; with it in place of the right one, a
property fails, so the property is known to say something about the code. There is one
for each part of a conjunction, and `PROJECT.json` pairs each checked property with one.

**Composition.** Node.js runs a handler from one `await` to the next without interruption,
and each `await` of a query is one statement of the database. So everywhere one action is
one statement or one answer that others can observe, with everything the code does up to
the next `await`. Where components share state they are one module (a job with its queue,
handlers, routes and approvals; a channel with its supervisor and reloader). Parts that
share none are composed by an MC module with a variable `part`: a behaviour picks a part
and only that part moves, since interleaving parts that never look at each other adds
states and no behaviour.

### JobLifecycle

* `job`, `agent`, `request` are rows: the columns that statements test (`status`,
  `attempt`, whether `completed_at` is set). `queue` holds the entries of Graphile
  Worker, modelled from how the code calls `addJob`: with the key `exec:<jobId>`
  (routes) or without a key and with one attempt (a retry). An entry is `delayed`,
  `queued` or `locked`; the handler's return deletes it, an error puts it back unless it
  was its last attempt, the lock of a dead worker is freed later.
* `worker[w].pc` is where a handler of `agent_execute` stands, in the order of the code:
  `loaded`, `started` (UPDATE to RUNNING, whose row count nobody looks at), `admitted`
  (agent checked), `unapproved`/`cleared` (gate), `tripped` (breaker), `executing`,
  `resulted`, and in the catch block `caught`, `failed`, `retrying`, `requeued`,
  `rethrow`. `attempt` is the number the handler read, which the retry decision uses.
* `creating`, `retry`, `kill` are the routes in flight, each in its own steps.
* The result of an execution, the class of an error, and whether the agent's breaker
  trips are free choices. Which failures trip it is abstracted.

### ProviderRouting and ExecutionMonitor

`breaker` is the `CircuitBreaker` of each provider with its window, its half-open slots
and `elapsed` for its cool-down; time is a free choice. `active` and `waiters` are the
`BackendSemaphore`, `task` is where each task stands. A permit that is released with a
waiter in the queue goes over to it in the same step: `release()` decrements and resolves
the waiter, whose continuation increments before any other task can acquire.
`RouterConfigured` is FALSE in the program as it stands: nothing in `src` calls
`configureRouter`, tasks look their backend up directly and an open breaker holds back
nothing. With TRUE the module shows what the router promises when it is used. The run
has both, and the router also with time-outs, throws and outcomes that do not count, as the
direct part has them. `probing`, `lost` and `late` of a breaker are histories: the probes in
flight, those that ended with no outcome that counts, and the outcomes of tasks that have no
slot.

`ExecutionMonitor` has a breaker per execution, as `agent_execute` builds one per job
(`agent-execute.ts:191`), and keeps beside it the whole history (`toolTimes`, `llmTimes`,
`tokensUsed`), which the code does not have: `CutIffOverrun` compares the two. `ack` is
what the sender of a steering message was told.

### AgentLifecycle

One agent, because the manager keys everything by agent id. `agents` is the map entry;
the contexts it does not name any more live on in `awaiting`, the operations past their
`await`. `machine` holds the state of each context; a transition that
`VALID_TRANSITIONS` does not allow throws, and what the operation would have done after
the throw does not happen. `BootsOverlap` says whether a boot may come while the agent
has a context or its termination awaits the pod: the manager itself does not refuse it.

### ChannelSupervisor

One channel type, because the registry, the router, the statuses and the timers are all
keyed by it. `registered` and `routed` are the entries of the registry and of the router,
`started` the adapters whose flag is set, whether or not anybody still knows them, and
`broken` those among them that lost their connection (or whose heartbeat is stale, which
`probeAdapter` treats alike). `status` and `timer` are what the supervisor keeps; the
failure count stops at the threshold, since only the comparison with it matters, and
`cooled` says that `circuitOpenUntil` has passed. Probes, recoveries and reloads are
operations in flight, cut at each `await`. They hold the adapter they began with and
the status object they began with: `own` is FALSE once `removeAdapter` has taken that
object out of the map, after which their success is written where nobody reads it and
their failure makes a new status. `emit()` makes statuses too, for registered adapters.
The back-off has no length: an armed timer fires at some time.

### Access, sign-in and credentials

In `AccessGrants` a message, a redemption and a review are records with a `pc`, one step
per statement: none of them runs in a transaction. The UNIQUE constraint on
(agent, user) leaves one grant per user, revoked or not, so `grant` is a function of users.
`SignIn` has the rows that a login reads and writes (identity, account by e-mail) and the
map of PKCE verifiers. `Credentials` numbers the tokens that a provider hands out: a
refresh spends one and returns the next, and what the row holds may already be spent. Each
statement may fail, also after the provider has answered. Two histories mark what is lost by
such overlaps and nothing else: `strayed`, the tokens that two refreshes sent at a time or
whose successor was not written, and `raced`, the keys made while another was being made.
The provider is taken to answer `invalid_grant`, 401 or 403 only for tokens it no longer
honours.

### Conversation

`ChatRelay` has the watch of one message, whose interval starts asynchronous polls, so a
slow query leaves several in flight, and the client's reads of the chat route. A job that
FAILED may be taken up again, as `JobLifecycle` has it, after the watch told of its failure;
queries, INSERTs and sends may fail, and a job may end with no text or lose its row.
In `MemoryWindows` an id is drawn at the INSERT and seen after the commit, so rows of two
executions appear in any order; a window is a set of ids read at one moment; `MarkRows`
marks by `id <= upTo`. `EventStream` numbers events, keeps the last `BufferSize` for
replay, and has a connection that loses what is under way. A client asks for what it missed
by the header, as an `EventSource` does that reconnects by itself, or by the query, as
`SSEClient` does and where the server does not look (`asksByHeader`), see section 4.

### Services, workbench and console

`McpClient` has the maps `connections` and `pendingConnections` and calls that await a
handshake, and the tool router with its queries in flight: what an answer tells is as old as
the moment the database was read; `McpServers` one row, the supervisor's state object and
overlapping probes.
`ToolLoop` joins a generator and its consumer in one location, since a generator runs
only while its consumer waits. `CliProcess` has the two events, exit and end of output,
that Node reports in either order; a process that dies of a signal, whoever sent it, has no
exit code, and reading its output may throw. In `Spending` a cancellation is asked for and
not awaited: an HTTP backend ends by it, a CLI job (`CliJobs`) may complete first. `ModelContract`
has the texts of failures by the words that the preflight looks for, whatever they were about,
and `Capabilities` the two ways of putting an agent's tools together, of a chat and of any
other job. The modules of the console pair what a page keeps in
React state with the requests in flight, whose answers come back in any order, and with
the rows that the routes write. What is a payload in the code is a number or a member of
a small set, and a page's copy of it is compared with the row it was read from.

## 3. Runs

| Run | Instance | Asks |
|---|---|---|
| `JobFaults` | 1 job of a gated agent, 2 workers, 2 entries, 1 request, 1 attempt; all faults on | do the gate, the queue's locks, the registry and the trigger survive deaths, lost enqueues, rejected statements, dashboard retries, kills and early retries? |
| `JobNoLoss` | 1 job, 2 workers, 3 entries, 1 request, 1 attempt; all faults on but dashboard retries; fair | does every job have somebody who goes on with it, and come to rest, unless one of the named failures stranded it; does an exhausted job stay so? |
| `JobTwice`, `JobApproved`, `JobRetried` | smaller still | section 4: each finds the violation |
| `Routing` | 3 tasks, 2 providers, 1 permit and 1 slot each, thresholds 2; 2 executions of an agent, 2 steering messages, 1 call per window | are permits exact, do slots add up, are breakers held open; does probing end and a waiter get its permit; are the executions cut off that overran, and only these? |
| `AccessRaces` | 2 users, 1 code, 2 requests, 2 messages and 2 operators' calls at a time, an agent with an approval queue or a team's | is a grant earned and what is revoked or decided left so, whatever interleaves? |
| `Conversation` | 2 polls and 1 read of one message, 2 texts; 2 ids, 1 flush, 2 extraction tasks; 4 events, 1 restart, 2 kept for replay | is a message answered, extracted, streamed? |
| `ChannelFaults` | 2 adapters, 2 probes, 2 recoveries, 1 reload at a time, threshold 2; fair | do timer, circuit, status, registry and router agree, and is a failure answered? |
| `Services` | per part 2 calls; 3 servers for 2 connections, 4 clients; 2 probes; 3 tool servers, a TTL of 2 and answers that take up to 1; 2 tokens; 2 identities, addresses and logins | what do overlapping calls break, and what not? |
| `Workbench` | 3 contexts; 3 turns of 2 calls; 2 jobs of prices 1 and 2, one of the CLI, with limits of 1 a job and 2 a session and a day; 2 browser calls and 2 viewers; 2 polls, 3 updates | does what surrounds an execution stay true to it, and end? |
| `Console` | per part one or two requests, rows and answers each | do pages, routes and rows fit together when answers overlap, get lost or repeat? |

Most checked properties are conjunctions of named parts, each a definition with a
comment of its own in the module of its component:

| Property | Parts |
|---|---|
| `SemaphoreIsExact` | `TypeOK`, `PermitsAreExact`, `WaitersAreQueued` |
| `RoutingGoesOn` | `OpenHoldsUntilCooldown`, `HalfOpenEnds`, `WaiterGetsPermit` |
| `GrantsAreEarned` | `TypeOK`, `SpentCodeIsPaid`, `ApprovedIsGranted`, `OriginIsReal`, `AdmittedHasGrant` |
| `RestartsAreDue` | `CircuitIsQuiet`, `StoppedIsQuiet` |
| `ChatIsAnswered` | `RelayTypeOK`, `FailureIsFinal`, `RepliesAreBounded`, `AnswersAreStored`, `WatchEndsWithReply` |
| `MemoryIsKept` | `MemoryTypeOK`, `MarkedIsExtracted`, `PendingFindsAll` |
| `StreamIsWhole` | `StreamTypeOK`, `ReceivedInOrder`, `ConnectionsAreWhole`, and `SkippedIsGone` of clients that ask by the header |
| `AllIsDelivered` | `UserHears`, `WindowsAreSettled`, `StreamComesBack` |
| `SessionsAreSound`, `PoolIsSound`, `ToolsAreOffered`, `CredentialsWork` | `ChatSessions`; `McpClient`'s pool; its tool router and `McpServers`; `Credentials` |
| `NothingComesBack` | `ClosedReopensByStaleRead`, `DisabledStaysDisabled`, `DeletedStaysDeleted`, `RevokedStaysForTask`, `OverStaysOver`, `SameAccountAgain` |
| `AgentIsManaged` | `LifecycleTypeOK`, `LiveIsManaged`, `TerminatedIsLeaving`, `ReadyIsWatched` |
| `ResultsAreEarned` | of `ToolLoop`: `CallsAreAnswered`, `RequestsBounded`, `ToolOvershoot`, `CompletedIsPaid`, `LastEventIsResult`; of `CliProcess`: `NoOrphan`, `CliLastEvent`, `ResultIsEarned` |
| `SpendingIsSound` | `SpendTypeOK`, `SessionBudgetHolds`, `EventsAreOnce`, `BufferHasFlush` |
| `ViewsAreTrue` | of `Observation`: `ConnectingIsGoing`, `ViewersAgree`, `StoppingIsAStop`; of `JobFeed`: `ShownIsConnecting`, `EventsRefetch` |
| `WorkEnds` | `IdleIsScaledDown`, `DrainCompletes`, `ExecutionEnds`, `CliEnds`, `EventsAreWritten`, `FeedCatchesUp` |
| `PagesAreCurrent`, `DialogsStand`, `OutcomesAreTold`, `RowsAreSound`, `OnlyAsAsked` | the five questions of `MCConsole`, each a conjunction over the parts of the console |

**Bounds.** Two workers are enough for every race of two handlers on a job; a third adds
interleavings of the same pairs. One job is enough because no statement names two jobs
and handlers of different jobs meet only in the agent's status, which the operator may
change at any moment anyway; the proofs cover any number. `Entries` bounds the queue:
two are the entry of the route and one that a retry or the dashboard adds, three hold one
more of the other worker. Where an action needs an unused entry it waits for one.
`Requests` bounds the approval requests that are opened. `MaxAttempts` is 1: the retry decision
only compares with it, and handlers that overlap still count past it. The constants that
switch faults off (`WorkersMayDie`, `RoutesMayFail`, `StatementsMayFail`, `DashboardRetries`,
`OperatorActs`, `BackoffOutlastsUpdate`) name, run by run, the environment in which a property
holds; the properties that need one say so in their own formula. `JobNoLoss` leaves out the
dashboard's retries, which the history `stranded` would excuse anyway; `NoJobIsLost` and
`ExhaustedStays` also hold with them on, without kills and requests (271,820 states).

Of the other runs: three tasks on one permit are a holder, the waiter that takes over and
one that comes between. In `ExecutionMonitor` two turns of one execution are looked at
while the other only listens, with windows of length 0 on a clock of two instants, so that
a call falls in or out of one. Two ids are one that commits late and one beyond it that a window
was read up to. Four events with two kept are one that is lost, two that are replayed and
one that comes meanwhile. Three contexts are one left behind, one managed and one being
booted. Two adapters are one and its replacement; two probes and two recoveries overlap
as the interval and a timer armed during a recovery make them. Four clients let a server
be connected twice while others are pending. Two tokens are the one that a refresh spends and its
successor; with three TLC met no violation in 12 million states, and did not finish. In
`Spending` a job of price 1 is within the limits and one of 2 exceeds its own, and two jobs
exceed the session's and the day's. In the console a list has two rows on
pages of one; a form, a row or a dialog is posted at most twice; the jobs page has one
job; the skill index two files with two lists, one job and one write while it runs; the
popup of an OAuth flow is opened twice; a chat holds two messages and at most two polls.
Each bound is a constant or a named definition of the module, and an action that reaches
it stops. Behaviours differ by the order of two or three steps, which all of these have.

`CHECK_DEADLOCK FALSE` stands where the system rests: when all jobs have settled, all
requests were answered or the parts of a composed run have ended.

**Fairness.** *Jobs:* a handler that can go on does (promises settle; the LLM call is
bounded by the task's time-out), Graphile polls, delays and locks end, routes go on, the
`approval_expire` cron fires each minute. Nothing is assumed of people. *Routing:* jobs
keep coming, tasks end, cool-downs end; permits are not assumed to time out nor
failures to age. *Conversation:* queries and statements settle, the watch's interval fires, Graphile
runs the extraction tasks, connections are made again; it is not assumed that an INSERT, a send, a flush or an
extraction succeeds, or that an execution ends and flushes; strong fairness for the connection
that is accepted and opened and for a window that is taken, since losses and other windows
may come between each time but not for ever. *Channels:* calls on
adapters settle, the probe interval and timers fire, the cool-down ends; connections are
not assumed to mend. *Workbench:* queries and pod deletions settle, idle timers and
time-outs run out, models and tools answer or fail, processes that got SIGTERM die, the
flush timer and the stream's polls fire (strong fairness for the answer of a poll).
Nothing is assumed of operators and users. All that is not named here is weak fairness:
none of these actions is disabled again and again by others in a way the code relies on.

`BackoffOutlastsUpdate` is a fact of the deployment and not of the code: the handler
adds its delayed entry (a second or more ahead) before it writes SCHEDULED; if that
UPDATE took longer than the delay, the entry would find RETRYING, be skipped and be
gone. `JobFaults` runs without the assumption, `JobNoLoss` needs it.

## 4. Where code and documents differ

Each of these has a run that expects the violation (`PROJECT.json`, "findings"):

* `JobTwice`: a job may be executed by two workers together. A failed attempt leaves two
  entries, the one it adds and the one Graphile retries because the error is thrown on,
  and the UPDATE to RUNNING does not look at its row count.
* `JobApproved`: an approved job is RUNNING and nobody works on it; the service has no
  queue to add an entry to, and an entry would be skipped.
* `JobRetried`: a job retried from the dashboard stays RETRYING, since the handler takes
  SCHEDULED jobs only (`cp/routes/dashboard.ts:616`).

Seen while modelling, without a run of their own; the models have each as the code does.

*Jobs.* The retry route updates a status it read before, and puts it back when the enqueue
fails, with an UPDATE that the trigger refuses (`cp/routes/dashboard.ts:616-641`), so the job
stays RETRYING then, too. The catch block moves FAILED to RETRYING, so a
job the kill route failed is taken up again (`cp/worker/tasks/agent-execute.ts:1104`). A
failed enqueue is swallowed because "the worker cron will pick it up"
(`cp/routes/agents.ts:962`) and no cron does; the reaper of jobs without heartbeat is
never called (`cp/worker/heartbeat.ts:36`). The number of attempts may exceed
`max_attempts`, by far when handlers overlap: a late start writes an old count back
(`agent-execute.ts:148`), so `ExhaustedStays` speaks of handlers that read a lower count.
An attempt to prove a bound on the attempts found this. A statement of the catch block that
is rejected ends the handler where it is, in FAILED without a completion, RETRYING or SCHEDULED
without an entry. `stranded` names the five ways in which a job is left to nobody. Kill finds one RUNNING job of an
agent, pause and resume check no status, QUARANTINED is shown as READY
(`cp/routes/agents.ts:128`), and a probe that throws keeps its half-open slot.

*Agents.* A crash of a READY agent throws before it is counted
(`cp/lifecycle/manager.ts:287`). `release()` moves a quarantined context to DRAINING,
which nothing moves on (`manager.ts:403`). Outside safe mode nothing boots a context, so
steering is refused. A terminate's cleanup deafens an execution that still streams. The
session's token budget is kept by a breaker that is made per job
(`agent-execute.ts:191`), as are the rate limits, so neither counts across jobs
(`docs/design/agent-lifecycle.md:245`).

*Channels.* A recovery in flight when the reloader removes the adapter starts it again
after its removal, so an adapter that is neither registered nor routed keeps running,
against "tear down the running adapter" (`cp/channels/channel-reloader.ts:42`); the same
after `stop`. A probe in flight then makes a status for a channel that is gone, which
the order in `syncChannelType` was meant to prevent (lines 50-52). A successful recovery
leaves a timer that a probe armed meanwhile, so a healthy adapter is restarted once
more. A circuit that opened never schedules a restart again: after the cool-down one
failed probe opens it anew, since the count was not reset. A reload whose `stop()` throws
leaves the adapter registered and out of the router. The success of a probe of the old
adapter cancels the restart of the new one; the next probe makes up for it
(`FailureIsAnswered`). Two reloads at a time each register an adapter, and `remove`
deletes by type, so it may delete the newer one.

*Access and sign-in.* A user who was revoked cannot get in again by a code or an approval;
one who was denied cannot be denied again; `approve` ignores its row count. An automatic
grant that meets an old row may return a read-only or expired one. A login with another
account's address fails on the UNIQUE constraint.

*Credentials.* Overlapping refreshes of a rotating token may mark a credential revoked that
was authorised again meanwhile; a lost answer of the provider leaves a spent token; two
first uses of a user's key make what the first sealed unreadable; a refresh has no
time-out; an UPDATE that fails after the provider's answer loses the rotated token and counts
as a failed refresh, an audit that fails marks the good new credential "error"
(`cp/auth/credential-service.ts:870-939`), and the periodic refresh of a row that was revoked
meanwhile drops the new token; a refusal that arrives after the user connected again revokes
the fresh credential; the check at `cp/auth/credential-service.ts:790` is never reached. An
administrator's tool secret is sealed with a key of the wrong user.

*Conversation.* Idling siblings may reopen a closed session. A job that waited for approval
ends unheard by its watch, and so does one whose answer could not be stored or sent: the
error is swallowed once the interval is cleared (`cp/channels/message-dispatch.ts:409-412`,
`437-443`). A user told of a failure is not told of the success of a job that was taken up
again. `createWorker` passes no extractor, so extraction does nothing
(`cp/worker/index.ts:98`); messages below the threshold are flushed only at the end of an
execution (`agent-execute.ts:1183-1188`), and no cron flushes the others
(`cp/worker/index.ts:111-122`); the flush at shutdown follows the release of its queue.
`SSEClient` promises "Automatic reconnection with Last-Event-ID" (`da/lib/sse-client.ts:2-6`)
and sends its last event id in the query (lines 83-87); the server reads the header
(`cp/routes/stream.ts:97`): what was sent during a break is not replayed to it.

*Executions.* Budgets are checked after the last turn only, and failed or cancelled
executions are never charged; a failing cost statement counts as "no budget exceeded"
(`agent-execute.ts:858`); one turn is counted per tool call; `shouldAbortJob` has no
caller. Tools of the current turn run after a cancel, and partial tool calls of an aborted
stream are executed. The CLI's SIGKILL is never sent after a SIGTERM; a CLI that dies of
any signal (out of memory, a segmentation fault) is reported as timed out
(`claude-code.ts:467-471`); when such an exit is reported before the output ends, `waitForExit`
waits for an event that has been and the job hangs (359-368); reading that throws leaves the
process to its time-out (276-292). A cancel for an exceeded budget is not awaited
(`agent-execute.ts:882-884`), so a CLI job over its budget completes. `getDailyCost` counts the
cost that a job reports twice, at each call and at the end of the session
(`cost-tracker.ts:248-261`); only Antigravity reports one. And the fallback of Antigravity discards a refreshed token.
A failed flush of events is an unhandled rejection (`cp/observability/event-emitter.ts:277`).

*MCP.* `disconnect` during a pending connection does nothing, overlapping ones leak a
client, `reconnect` does not close the old client, and the limit of connections may be
passed by calls in flight (`cp/mcp/client-pool.ts:104`; `PoolOvershoot` says by how many).
A probe in flight overwrites DISABLED; `acquireHalfOpenSlot` is called without looking at
its answer; qualified tool names ignore `agent_scope`; a listing may be two TTLs old. A
deployment awaits 120 s, is retried by the client and then meets its own slug; a teardown
by slug may hit a successor.

*Skills and tools.* Two skills with disjoint lists, or an agent without tools, widen what a
task may use, against "narrowing only" (`sh/skills/constraints.ts:4-6`,
`agent-execute.ts:1249`). Overlapping refreshes remove each other's new entries. Tools set
to "always_approve" can never run, those set to "conditional" without a condition run;
`validateDelegation` has no caller; an unbound provider passes the preflight. Only chat jobs
get their tools by the bindings: any other takes the legacy path
(`agent-execute.ts:625-684`), in which no binding, guard or rate limit is looked at. A
failure of a provider whose text has "credential" in it is told as a missing binding
(`preflight.ts:244-254`), be it a bad key or anything else. An operator may PUT a deployed
server to ACTIVE (`cp/routes/mcp-servers.ts:440`) when its deployment failed.

*Dashboard.* A shared query shows an old filter's answer; POSTs are retried; the jobs page
stops refreshing after 500 events; the screenshot stream's timer never stops and a late
viewer gets no first frame. The chat's first answer is wiped, histories of another session
are shown, and a slow poll of an older message stops the newer one's timer. Nothing
broadcasts to the approvals page; the loser of two decisions gets an error 500, and so
does a retry that the trigger refuses. A forced removal of a channel unbinds all channels
of its type; two overlapping changes of the default leave two. Edit forms are reset by each
load of their page.

## 5. Theorems

All are for any value of the constants that meets the named assumptions
(`ConstantsAssumption`, `NobodyIsNoRow`, `RoutingAssumption` and the like, at the head of
each module), which TLC evaluates in the runs. Theorems of composed modules are about
the components' own specifications; `EndedStaysEnded` and those of `ResultsAreEarned`,
`ViewsAreTrue` and the events are about their composition.

**Jobs** (`JobLifecycleProofs`). `TypesHold` and `ExclusionHolds` are proved together:
`Locked == TypeOK /\ EntriesAreExclusive` is inductive. Each needs the other: that a
return or an error of a handler frees the right entry needs the entry to be its own, and
to speak of `queue[worker[w].entry]` one needs the types. The lemmas first say what the
shared statements do (`MoveJobType`, `GotoType`, `ReturnType`, `AddKeyedType`, ...); then
`HandlerKeepsTypes` and `EnvironmentKeepsTypes`, and likewise for exclusion, take one
step per action. `GateAlwaysHolds` rests on `Locked` and on `ApprovalsStand`: an approved
request is never anything else again. `RegistryAlwaysAccurate` rests on `Locked` too: an
execution that ends removes the handle of its job, be it its own or another's.
`JobsAreNotLost` follows each statement from the job that is attended before it to the job
that is attended, or stranded, after it (`IsAttended`), and adds `RequeuedWaits`: between the
entry a failing handler added and its UPDATE to SCHEDULED, that entry waits for it. Deaths,
rejected statements and failing routes are among the steps.
`ExhaustionStays` is an action property over `Locked`. `TriggerIsObeyed`: `JobLifecycle`
implements `JobStateMachine` with the status column as refinement mapping.
`MoveJobObeys` treats the guarded UPDATE once; `HandlerMoves` and `EnvironmentMoves` show
that every action moves at most one job, along an edge of the trigger; the one unguarded
UPDATE, of a route that creates a job, needs the invariant `CreatingIsPending`. The
two statements of the dashboard's retry are the exception: they are issued whatever the
status is, and the trigger decides whether they do anything.

**Routing** (`RoutingProofs`). `SemaphoresHold`: `Semaphores`, the parts of
`SemaphoreIsExact` with the place of every task, is inductive; no induction on the queue is
needed, since a hand-over takes its head and a time-out removes one place (`RemovedAt`).
`SlotsStayCounted`: the slots of a half-open breaker and its probes differ by the probes that
were lost and the outcomes that had no slot, and by no more (`AddsUp`); each method of the
breaker keeps this (`SlotTaken`, `SlotLeft`), and a probe is in flight until it leaves
(`SlotsLeft`). `BreakersKeepOpen` is
an action property, with a router. `ExcessIsCut` compares the breaker, which forgets old
calls, with the whole history: `LimitsAreKept` says what of the history the window still
has, and the first call that overruns a window (`LeastNatural`, `FirstValid`) is the one at
which the breaker cancels. `TurnsAreOwn` adds that turns are counted and that a message
holds a turn of its listener (`TurnsAreCounted`, `ListenersRead`); `LiveAcknowledge` is an
action property of the same invariant.

**Access** (`AccessGrantsProofs`). `Earned` is inductive: it says of each call in flight what
it has done so far (`MessageOK`, `ReviewOK`: the code it marked, the request it decided),
and of each row where it came from or who is about to complete it (`CodeOK`, `RequestOK`,
`GrantOK`). `GrantsHold`, `RevokedStays` and `DecisionsStay` follow from it.

**Conversation** (`ConversationProofs`). `ChatsAreAnswered`: the inductive invariant bounds the
answers sent by the answers stored, minus those that polls in flight have stored and are
about to send, and says of a watch that is over that a reply is under way, was sent, failed,
or that there was nothing to tell (`ReplyIsUnderWay`). `MemoriesAreKept`: the count of
pending messages may run behind the rows, since marks are written before they are counted,
so the invariant gives each task between the two the set of messages it marked
(`Pledged`), disjoint from those of others; the count covers these and all unmarked ones. TLC checked that invariant before it was proved. `StreamsAreWhole`: buffer and
wire are ends of the numbered events, what was received is before the wire, and, of a client
that asks by the header, nothing between the last id and the wire is still kept.

**Services** (`ServicesProofs`), for any number of calls in flight. `SessionsStaySound`: the
invariant adds that the sessions a call has in its list exist and what it stores is a message
(`CallsAreReal`); the limit is kept because a message counts from the moment its limit was
checked until it is stored. `PoolStaysSound`: a server that is not contested has one entry
at a time, and whoever closes or calls its client holds that entry or a closed client
(`EntriesFit`), every client being opened is one operation's own (`OpeningsAreOwn`), and what
is pending fits beside what is connected and not contested (`PoolFits`); TLC checked this
invariant first. `CredentialsKeepWorking`, however operations overlap: a token about to be stored is good and in
no other hands, two operations that send one token have marked it, one that was refused is
withdrawn or marked (`InHand`), and the row's token is spent only if an operation is to
replace it, or it is marked (`InRow`); the keys need an invariant of their own (`KeysInv`).
`ToolsStayOffered` joins `HealthStaysTrue` and `StaleToolsExpire` (what is served is as old
as what it was made of, and the time its answer took), inductive with little more than their types, and
`ConflictsAreResolved`: the candidate that the first matching preference names has the least
rank, since the servers of the rows differ (`PreferredIsBest`), and without one the order of
the query decides (`EarliestIsBest`). `SignInHolds` and `VerifiersAreSpentOnce`
are over one invariant: rows are unique, what a login found exists, and a verifier that is
being exchanged is no longer in the map. `EndedStaysEnded` joins six action properties, one
of sessions, two of servers, one of credentials and two of sign-in: the behaviours of the
run are behaviours of each part (`PartsBehave`).

**Agents** (`WorkbenchProofs`). `TypesHold`; `LivingAreManaged` through the
inductive `InSight`: all living contexts are the managed one, and an operation that will
clean up holds the managed context or one that is dead (`Alone`). Without the second part
the invariant is not inductive, since a clean-up removes whatever the map holds.
`TerminatedLeave`: a terminated context is in the map only while its termination awaits
the pod. `ReadyAreWatched`; `AgentsAreManaged` is their conjunction.

**Around one execution** (`WorkbenchProofs`). `ResultsStayEarned` joins two inductive
invariants. `LoopInv` bounds the requests by the turn the loop is in, the endpoints left
behind and whether this turn was refreshed (`RequestsFit`), the tools run by those the
limit counted, or, once the execution is cancelled, by those and the rest of the turn
(`ToolsFit`), and says where the accounts of units may differ (`BooksFit`) and what is
settled before the generator is over (`OutcomeFits`). `CliInv` says what the reader of the
process knows of its end (`ReaderFits`), also when it died of a signal or the reader threw. `CancelledAskNoMore` is an action property of the
loop that no run lists. `SpendingStaysSound` joins two arguments. What was emitted of a job tells how far its
handling is (`EventsFit`), so an event that is put into the buffer is new, and a batch
moves from place to place whole (`EnqueueKeeps`, `FlushKeeps`, `InsertKeeps`). And the jobs
charged to a session and not found over a limit (`Within`) cost together no more than was
charged to it, which was within the limit when the last of them was (`BudgetFits`); jobs
whose charge failed, or that completed before their cancellation, are not among them. The sum
is a fold that takes the elements of a set one by one: `SumExists`, `SumIsOne` and `SumAdds`
show by the least number of elements that would refute it (`LeastNat`) that the sum exists,
is the same within any larger set, and does not depend on the order.
`ViewsStayTrue` joins `ObsInv`, in which the calls on traces come one at a time unless a
trace was started beside a stop (`TracesFit`), and `FeedInv`. The assumptions on constants
(at least one turn, endpoint, page, update and place in the buffer) are needed for the
types. `EachBehaves`: the run's behaviours are behaviours of each part.

**Channels** (`ChannelSupervisorProofs`). `TypesHold` through `Typed`: `started` stays
within `made` only because what recoveries and reloads hold was made (`Known`).
`RestartsStayDue` and `RecoveriesAreReal` are inductive together with `Typed`, for any
number of reloads at a time, where the run has one. `RoutesAreRegistered` needs the
place of a reload: the router is empty from the moment a reload takes the old adapter out
until it puts the new one in, which was registered before (`Routes`).
`RestartsAreScheduled` needs `FirstIsAlone`: as long as one adapter was made, every
operation in flight holds it and its own status. The lemmas on the status
(`FailureCounts`, `SuccessIsOldOrHealthy`, `ProbeBegins`) say what an operation may write,
and the step lemmas ask of each action which of these it does.

**Console** (`ConsoleProofs`). One invariant per part, joined at the end of the module
(`EachBehaves`: the run's behaviours are behaviours of each part). *Rows:* `AdminInv`: a
job that judged its agent with no reset since it read it has counted failures that are the
agent's still. A first attempt at it failed for a good reason: the history variable `kept`
of a job that had judged went on growing with a later reset, which two jobs never show and
three do; a judged job now keeps the threshold it met. `DecisionsInv` follows each decider
from its read over the guarded UPDATE to the line of the trail. `ClusterInv` says how much of
what a deployment writes bears its server (`WrittenSoFar`), that a server that overlapped
with no other's request is alone at work, and that what a deleted server left is being torn
down. `GuardInv` counts, for the limit of a tool, the calls that passed the check together
with those written, whatever order they end in. `SkillInv` compares a line of the index with
the file it was read from through the time of writing, which every write of the file moves
on, and says where in its pass a refresh has met a settled skill (`MeetsSkill`). *Pages:*
`QueryInv`: unless requests crossed (`blurred`), a page that loads awaits exactly the request
of its last change, which asks for its filter and reads after that change. `ChatInv`: as long
as no poll of an older message came back late, one message is under way and the input is
empty until it is posted, so the text a failure puts back overwrites nothing; a poll that
read an answer stored it first. `PageInv` and `McpPageInv` relate a form that was not touched
to what its page shows; `JobDrawerInv` and `JobsDeskInv` an open dialog, and a told outcome,
to the job it is for.
The theorems are `RowsStaySound`, `PagesStayCurrent`, `DialogsKeepStanding`,
`OutcomesStayTold` and, for the action properties, `AskedOnly`.

**Model-checked only.** Liveness (`EveryJobSettles`, `AllIsDelivered`, `FailureIsAnswered`,
`WorkEnds`, and `HalfOpenEnds` and `WaiterGetsPermit` of `RoutingGoesOn`), which the proof
system does not do under fairness. Every other property that a passing run lists is stated
by a theorem.

## 6. Plan

Next proofs: refinements of abstract specifications beside that of the trigger, and more
facts about the models' operators.

Next models: the memory files (synchronisation of a directory with vectors); a second
reload at a time in `ChannelFaults`; the shutdown order of the process.

## 7. Not modelled

The text of prompts, replies and logs; layout and styles; what models, tools, pages and
providers answer beyond success and failure; tracing; the session buffer (only tests use
it); memory files; proactive detection and correction strengthening; content, feedback and
voice, which are single statements; application wiring, which fixes the constants. Of the
modelled parts, `PROJECT.json` says under "components" what is left out of each.

## 8. Reproducing

`tlc -config X.cfg M` with `JobFaults`, `JobNoLoss`, `JobTwice`, `JobApproved` and
`JobRetried` of `MCJobLifecycle`, `Routing` of `MCProviderRouting`, `AccessRaces` of
`AccessGrants`, `Conversation`, `Services`, `Workbench` and `Console` of the modules
`MC...` of the same name, and `ChannelFaults` of `ChannelSupervisor`;
`tlapm JobLifecycleProofs.tla` and likewise for the other `...Proofs` modules.
