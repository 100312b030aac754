---------------------------- MODULE Capabilities ----------------------------
(*****************************************************************************)
(* What tools an agent may use: the rows that bind them and the guard around *)
(* their calls, the narrowing of a delegation, and the forms in which an     *)
(* operator edits the rows. The parts share no state.                        *)
(*****************************************************************************)
EXTENDS Naturals, FiniteSets

(*****************************************************************************)
(* The tools an agent may use: the bindings operators make, the set a job    *)
(* assembles from them when it starts and the guard around each call.  Only  *)
(* answers of the chat, and every job under CAPABILITY_MODEL_V2, are bound   *)
(* by the rows; other jobs get the tools of the router and their own lists,  *)
(* without a guard.                                                          *)
(*****************************************************************************)

CONSTANTS
  Tools,     \* tool references
  NoRow,     \* the value of a binding that isn't there
  GuardJobs, \* jobs of the agent that assemble a set of tools
  MaxCalls   \* the rate limit of a limited binding

ASSUME GuardAssumption == MaxCalls \in Nat \ {0} /\ IsFiniteSet(GuardJobs)

VARIABLES
  rowOf,     \* agent_tool_binding: the row of a tool
  inserting, \* create requests that have found no such row yet
  dropping,  \* remove requests that have found the row
  toolset,   \* effective tools of a job: a row or NoRow per tool; {} before it starts
  legacy,    \* jobs that took the legacy path
  callOf,    \* the call a job makes: its tool and how far it is
  invoked,   \* tool_invoked entries of a tool in the window
  barred,    \* history: tools that were unbound, disabled or for approval when the job started
  ran,       \* history: tools a job has run
  unmetered  \* history: tools that ran without a limit, and were counted, in the window

guardVars == <<rowOf, inserting, dropping, toolset, legacy, callOf, invoked, barred, ran, unmetered>>

Policies == {"auto", "always_approve", "conditional"}
BindingRows == [policy : Policies, limited : BOOLEAN, enabled : BOOLEAN]
Idle == [at |-> "idle", tool |-> NoRow]

GuardInit ==
  /\ rowOf = [t \in Tools |-> NoRow] /\ inserting = {} /\ dropping = {}
  /\ toolset = [j \in GuardJobs |-> {}] /\ callOf = [j \in GuardJobs |-> Idle]
  /\ invoked = [t \in Tools |-> 0] /\ unmetered = {} /\ legacy = {}
  /\ barred = [j \in GuardJobs |-> {}] /\ ran = [j \in GuardJobs |-> {}]

--------------------------------------------------------------------------------
\* The routes.

rowVars == <<toolset, legacy, callOf, invoked, barred, ran, unmetered>>
NewRow(policy, limited) == [policy |-> policy, limited |-> limited, enabled |-> TRUE]

CreateToolBinding(t) ==
  /\ rowOf[t] = NoRow /\ inserting' = inserting \cup {t} /\ UNCHANGED <<rowOf, dropping, rowVars>>

\* The insert; a row that was bound meanwhile makes it fail.
InsertToolBinding(t) ==
  /\ t \in inserting /\ inserting' = inserting \ {t}
  /\ \E policy \in Policies, limited \in BOOLEAN :
       rowOf' = IF rowOf[t] = NoRow THEN [rowOf EXCEPT ![t] = NewRow(policy, limited)] ELSE rowOf
  /\ UNCHANGED <<dropping, rowVars>>

UpdateToolBinding(t) ==
  /\ rowOf[t] # NoRow /\ (\E r \in BindingRows : rowOf' = [rowOf EXCEPT ![t] = r])
  /\ UNCHANGED <<inserting, dropping, rowVars>>

RemoveToolBinding(t) ==
  /\ rowOf[t] # NoRow /\ dropping' = dropping \cup {t} /\ UNCHANGED <<rowOf, inserting, rowVars>>

DeleteToolBinding(t) ==
  /\ t \in dropping /\ dropping' = dropping \ {t} /\ rowOf' = [rowOf EXCEPT ![t] = NoRow]
  /\ UNCHANGED <<inserting, rowVars>>

\* The tools named, or all of a server, with one policy; those already bound are passed over.
BulkBind(ts, policy) ==
  /\ rowOf' = [t \in Tools |-> IF t \in ts /\ rowOf[t] = NoRow THEN NewRow(policy, FALSE) ELSE rowOf[t]]
  /\ UNCHANGED <<inserting, dropping, rowVars>>

--------------------------------------------------------------------------------
\* A job.

\* Mutant: disabled bindings count.
resolveEveryTool == [t \in Tools |-> rowOf[t]]

\* The enabled bindings whose tool can be found: a builtin one always, another if its server answers.
resolveEffectiveTools == [t \in Tools |-> IF rowOf[t] # NoRow /\ rowOf[t].enabled THEN rowOf[t] ELSE NoRow]

\* What the rows keep from a job that starts now.
Barred == {t \in Tools : rowOf[t] = NoRow \/ ~rowOf[t].enabled \/ rowOf[t].policy = "always_approve"}

\* Tools as the legacy path has them: nobody is asked, nothing is counted.
Unguarded(offered) == [t \in Tools |-> IF t \in offered THEN NewRow("auto", FALSE) ELSE NoRow]

EffectiveSet(j) ==
  /\ toolset' = [toolset EXCEPT ![j] = {resolveEffectiveTools}]
  /\ barred' = [barred EXCEPT ![j] = Barred] /\ UNCHANGED legacy

LegacySet(j) ==
  /\ \E offered \in SUBSET Tools : toolset' = [toolset EXCEPT ![j] = {Unguarded(offered)}]
  /\ legacy' = legacy \cup {j} /\ UNCHANGED barred

\* The set of a job: the effective tools, or those of the router and of the job's own lists.
Assemble(j) ==
  /\ toolset[j] = {} /\ (EffectiveSet(j) \/ LegacySet(j))
  /\ UNCHANGED <<rowOf, inserting, dropping, callOf, invoked, ran, unmetered>>

ToolOf(j, t) == CHOOSE r \in {tools[t] : tools \in toolset[j]} : TRUE
Offers(j, t) == \E tools \in toolset[j] : tools[t] # NoRow

\* Mutant: one call too many.
WithinLimitLate(t) == invoked[t] =< MaxCalls

WithinLimit(t) == invoked[t] < MaxCalls

\* The count of the recent calls; above the limit the call is an error for the model.
CountCalls(j, t) ==
  /\ callOf[j] = Idle /\ Offers(j, t) /\ (ToolOf(j, t).limited => WithinLimit(t))
  /\ invoked[t] < MaxCalls + Cardinality(GuardJobs)
  /\ callOf' = [callOf EXCEPT ![j] = [at |-> "counted", tool |-> t]]
  /\ UNCHANGED <<rowOf, inserting, dropping, toolset, legacy, invoked, barred, ran, unmetered>>

\* A condition on a field: hit, the value fits; typed, it is of the type the operator asks for.
evaluateCondition(operator, hit, typed) ==
  CASE operator = "equals" -> hit
    [] operator = "not_equals" -> ~hit
    [] operator \in {"matches", "in"} -> typed /\ hit
    [] operator \in {"not_matches", "not_in"} -> typed /\ ~hit
    [] OTHER -> FALSE

Operators == {"equals", "not_equals", "matches", "not_matches", "in", "not_in", "other"}

requiresApproval(policy, operator, hit, typed) ==
  policy = "always_approve" \/ (policy = "conditional" /\ evaluateCondition(operator, hit, typed))

\* The guard asks for an approval and the call is an error, or the tool runs.
GuardCall(j) ==
  /\ callOf[j].at = "counted"
  /\ LET t == callOf[j].tool
         answers == {requiresApproval(ToolOf(j, t).policy, o, hit, typed) :
                       o \in Operators, hit \in BOOLEAN, typed \in BOOLEAN}
     IN \E needsApproval \in answers :
          IF needsApproval THEN callOf' = [callOf EXCEPT ![j] = Idle] /\ UNCHANGED <<ran, unmetered>>
          ELSE /\ callOf' = [callOf EXCEPT ![j].at = "running"]
               /\ ran' = [ran EXCEPT ![j] = @ \cup {t}]
               /\ unmetered' = IF ToolOf(j, t).limited \/ j \in legacy THEN unmetered ELSE unmetered \cup {t}
  /\ UNCHANGED <<rowOf, inserting, dropping, toolset, legacy, invoked, barred>>

\* The tool returns and the guard writes the call down; it doesn't if the tool or the write fails.
ToolReturns(j, written) ==
  /\ callOf[j].at = "running" /\ (written => j \notin legacy) /\ callOf' = [callOf EXCEPT ![j] = Idle]
  /\ invoked' = IF written THEN [invoked EXCEPT ![callOf[j].tool] = @ + 1] ELSE invoked
  /\ UNCHANGED <<rowOf, inserting, dropping, toolset, legacy, barred, ran, unmetered>>

\* The window has moved past the calls that have ended; one in flight may still be unmetered.
WindowPasses ==
  /\ invoked' = [t \in Tools |-> 0]
  /\ unmetered' = {t \in unmetered : \E j \in GuardJobs : callOf[j] = [at |-> "running", tool |-> t]}
  /\ UNCHANGED <<rowOf, inserting, dropping, toolset, legacy, callOf, barred, ran>>

GuardNext ==
  \/ \E t \in Tools :
       \/ CreateToolBinding(t) \/ InsertToolBinding(t) \/ UpdateToolBinding(t)
       \/ RemoveToolBinding(t) \/ DeleteToolBinding(t)
  \/ \E ts \in SUBSET Tools, policy \in Policies : BulkBind(ts, policy)
  \/ \E j \in GuardJobs :
       \/ Assemble(j) \/ GuardCall(j) \/ (\E t \in Tools : CountCalls(j, t))
       \/ (\E written \in BOOLEAN : ToolReturns(j, written))
  \/ WindowPasses

--------------------------------------------------------------------------------
\* A tool that was unbound, disabled or reserved for approval when a job started is never run by
\* that job, whatever is bound, updated or removed while it goes on; a job on the legacy path is
\* bound by no row.
BarredNeverRuns == \A j \in GuardJobs \ legacy : ran[j] \cap barred[j] = {}

\* The limit of a tool is exceeded by the calls that overlap at most: the count is read before a
\* call runs and written after it, so each other job may add one.
OverrunIsBounded ==
  \A t \in Tools \ unmetered : invoked[t] =< MaxCalls + Cardinality(GuardJobs) - 1

-----------------------------------------------------------------------------

(*****************************************************************************)
(* What an agent hands on to a subagent: the tools among those asked for     *)
(* that it has itself, each with its scope narrowed to what was asked.       *)
(*****************************************************************************)

CONSTANTS
  ToolRefs,  \* tool references
  ScopeKeys, \* keys of a data scope
  ScopeVals  \* values in a data scope

VARIABLES
  parentTools, \* tools of the parent that resolve
  parentScope, \* the scope of the parent's bindings
  given        \* what the subagents got: their tools, what was denied, their scope

delegationVars == <<parentTools, parentScope, given>>

\* An entry of a scope is missing, a list of values or one value.
Missing == [kind |-> "none"]
ScopeEntries == {Missing} \cup [kind : {"list"}, list : SUBSET ScopeVals] \cup [kind : {"one"}, one : ScopeVals]
Scopes == [ScopeKeys -> ScopeEntries]

DelegationInit == parentTools \in SUBSET ToolRefs /\ parentScope \in Scopes /\ given = {}

\* Mutant: what isn't a list is taken as it was asked for.
narrowEntryLoose(parent, asked) ==
  IF parent = Missing THEN Missing
  ELSE IF asked = Missing THEN parent
  ELSE IF parent.kind = "list" /\ asked.kind = "list" THEN [kind |-> "list", list |-> asked.list \cap parent.list]
  ELSE asked

\* Lists are intersected; anything else stays as the parent has it.
narrowEntry(parent, asked) ==
  IF parent # Missing /\ parent.kind = "list" /\ asked.kind = "list"
  THEN [kind |-> "list", list |-> asked.list \cap parent.list]
  ELSE parent

narrowDataScope(parent, asked) == [k \in ScopeKeys |-> narrowEntry(parent[k], asked[k])]

validateDelegation(asked, scope) ==
  /\ given = {}
  /\ given' = {[tools |-> asked \cap parentTools, denied |-> asked \ parentTools,
                scope |-> narrowDataScope(parentScope, scope)]}
  /\ UNCHANGED <<parentTools, parentScope>>

\* The parent loses or gets a tool before the next request.
ParentChanges ==
  /\ given' = {} /\ parentTools' \in SUBSET ToolRefs /\ UNCHANGED parentScope

DelegationNext == ParentChanges \/ (\E asked \in SUBSET ToolRefs, scope \in Scopes : validateDelegation(asked, scope))

Narrower(entry, parent) ==
  IF parent # Missing /\ parent.kind = "list"
  THEN entry.kind = "list" /\ entry.list \subseteq parent.list
  ELSE entry = parent

\* A subagent gets no tool its parent lacks, and at every key of the parent's scope a value, or
\* values, the parent may use: no request widens a scope, drops a key or adds one.
DelegatedIsOwned ==
  \A g \in given :
    g.tools \subseteq parentTools /\ (\A k \in ScopeKeys : Narrower(g.scope[k], parentScope[k]))

-----------------------------------------------------------------------------

(*****************************************************************************)
(* The page of an agent's capabilities: the form that binds one tool, the    *)
(* form that binds the tools of an MCP server, the dialog that removes a     *)
(* binding and the audit log, page by page and filtered.                     *)
(*****************************************************************************)

CONSTANTS
  McpHosts,   \* MCP servers the form offers
  NoHost,     \* no server is selected
  BoundTools, \* bindings the page may list
  NoTool,     \* no binding is to be removed
  AuditPages  \* pages of the longest log

VARIABLES
  selectedServer, \* the server the bulk form has selected
  loads,          \* tool lists under way, by server
  tools,          \* the server whose tools are listed; NoHost: none
  selectedTools,  \* ticked tools, by the server they are of
  submitting,     \* the form has posted what it holds
  tickedUnder,    \* history: servers that were selected when the present ticks were made
  listedTools,    \* bindings the page knows
  effective,      \* effective tools the page knows
  deleteTarget,   \* the binding the dialog asks about
  deleting,       \* delete requests under way
  auditFilter,    \* the filter of the log
  auditOffset,    \* the page of the log that is asked for
  auditTotal,     \* pages of the log, as last answered
  pagedUnder      \* history: the filter under which the page was last turned

bulkVars == <<selectedServer, loads, tools, selectedTools, submitting, tickedUnder>>
removeVars == <<listedTools, effective, deleteTarget, deleting>>
auditVars == <<auditFilter, auditOffset, auditTotal, pagedUnder>>
formVars == <<bulkVars, removeVars, auditVars>>

FormsInit ==
  /\ selectedServer = NoHost /\ loads = {} /\ tools = NoHost /\ selectedTools = {} /\ submitting = FALSE
  /\ tickedUnder = {} /\ listedTools = BoundTools /\ effective = BoundTools /\ deleteTarget = NoTool
  /\ deleting = {} /\ auditFilter = "" /\ auditOffset = 0 /\ auditTotal = AuditPages
  /\ pagedUnder = ""

--------------------------------------------------------------------------------
\* The bulk form; its fields rest while it submits, but not the list of its tools.

\* Mutant: what was ticked stays ticked.
handleServerKeeps(s) ==
  /\ ~submitting /\ selectedServer' = s /\ tools' = NoHost
  /\ loads' = IF s = NoHost THEN loads ELSE loads \cup {s}
  /\ UNCHANGED <<selectedTools, submitting, tickedUnder, removeVars, auditVars>>

handleServerChange(s) ==
  /\ ~submitting /\ selectedServer' = s /\ tools' = NoHost /\ selectedTools' = {} /\ tickedUnder' = {}
  /\ loads' = IF s = NoHost THEN loads ELSE loads \cup {s}
  /\ UNCHANGED <<submitting, removeVars, auditVars>>

\* A list arrives, for whatever server is selected by now, or fails.
ToolsLoaded(s) ==
  /\ s \in loads /\ loads' = loads \ {s} /\ tools' \in {s, tools}
  /\ UNCHANGED <<selectedServer, selectedTools, submitting, tickedUnder, removeVars, auditVars>>

toggleTool ==
  /\ tools # NoHost
  /\ selectedTools' \in {selectedTools \cup {tools}, selectedTools \ {tools}}
  /\ tickedUnder' = IF selectedTools' = {} THEN {} ELSE tickedUnder \cup {selectedServer}
  /\ UNCHANGED <<selectedServer, loads, tools, submitting, removeVars, auditVars>>

\* Nothing ticked means every tool of the server.
SubmitBulk ==
  /\ ~submitting /\ selectedServer # NoHost /\ submitting' = TRUE
  /\ UNCHANGED <<selectedServer, loads, tools, selectedTools, tickedUnder, removeVars, auditVars>>

BulkDone ==
  /\ submitting /\ submitting' = FALSE /\ selectedServer' = NoHost /\ tools' = NoHost
  /\ selectedTools' = {} /\ tickedUnder' = {} /\ effective' \in {effective, listedTools, BoundTools}
  /\ UNCHANGED <<loads, listedTools, deleteTarget, deleting, auditVars>>

BulkFails ==
  /\ submitting /\ submitting' = FALSE
  /\ UNCHANGED <<selectedServer, loads, tools, selectedTools, tickedUnder, removeVars, auditVars>>

--------------------------------------------------------------------------------
\* Bindings: made by the single form, removed through the dialog.

\* Both lists are fetched again after each change; each answer may be late.
BindingsArrive ==
  /\ listedTools' \in SUBSET BoundTools
  /\ UNCHANGED <<bulkVars, effective, deleteTarget, deleting, auditVars>>

EffectiveArrives ==
  /\ effective' \in SUBSET BoundTools
  /\ UNCHANGED <<bulkVars, listedTools, deleteTarget, deleting, auditVars>>

\* The row of an effective tool opens the dialog if its binding is in the other list.
ToolRow(t) ==
  /\ t \in effective /\ t \in listedTools /\ deleteTarget = NoTool /\ deleteTarget' = t
  /\ UNCHANGED <<bulkVars, listedTools, effective, deleting, auditVars>>

CancelRemoval ==
  /\ deleteTarget # NoTool /\ deleteTarget' = NoTool
  /\ UNCHANGED <<bulkVars, listedTools, effective, deleting, auditVars>>

ConfirmRemoval ==
  /\ deleteTarget # NoTool /\ deleting' = deleting \cup {deleteTarget}
  /\ UNCHANGED <<bulkVars, listedTools, effective, deleteTarget, auditVars>>

\* The removal has succeeded and the dialog, of whichever binding, closes; a failed one leaves it.
RemovalDone(t, ok) ==
  /\ t \in deleting /\ deleting' = deleting \ {t}
  /\ deleteTarget' = IF ok THEN NoTool ELSE deleteTarget
  /\ UNCHANGED <<bulkVars, listedTools, effective, auditVars>>

--------------------------------------------------------------------------------
\* The audit log.

\* Mutant: another filter, the same page.
applyFiltersOnly(f) ==
  /\ auditFilter' = f /\ UNCHANGED <<bulkVars, removeVars, auditOffset, auditTotal, pagedUnder>>

\* Another filter starts at the first page; the answer to the last one is shown until its own comes.
applyFilters(f) ==
  /\ auditFilter' = f /\ auditOffset' = 0 /\ UNCHANGED <<bulkVars, removeVars, auditTotal, pagedUnder>>

AuditAnswered ==
  /\ auditTotal' \in 1 .. AuditPages /\ UNCHANGED <<bulkVars, removeVars, auditFilter, auditOffset, pagedUnder>>

PageForward ==
  /\ auditOffset + 1 < auditTotal /\ auditOffset' = auditOffset + 1
  /\ pagedUnder' = auditFilter /\ UNCHANGED <<bulkVars, removeVars, auditFilter, auditTotal>>

PageBack ==
  /\ auditTotal > 1 /\ auditOffset > 0 /\ auditOffset' = auditOffset - 1
  /\ pagedUnder' = auditFilter /\ UNCHANGED <<bulkVars, removeVars, auditFilter, auditTotal>>

FormsNext ==
  \/ \E s \in McpHosts \cup {NoHost} : handleServerChange(s)
  \/ \E s \in McpHosts : ToolsLoaded(s)
  \/ toggleTool \/ SubmitBulk \/ BulkDone \/ BulkFails
  \/ BindingsArrive \/ EffectiveArrives \/ CancelRemoval \/ ConfirmRemoval
  \/ \E t \in BoundTools : ToolRow(t) \/ (\E ok \in BOOLEAN : RemovalDone(t, ok))
  \/ \E f \in {"", "invoked"} : applyFilters(f)
  \/ AuditAnswered \/ PageForward \/ PageBack

--------------------------------------------------------------------------------
\* What is ticked was ticked while the server that will be posted was selected, though lists of
\* other servers may arrive late and another submission may have failed in between.
TickedUnderServer == tickedUnder \subseteq {selectedServer}

\* A page other than the first was turned to under the very filter it is asked for with, however
\* the answers to this filter and to earlier ones come in.
PagedUnderFilter == auditOffset > 0 => pagedUnder = auditFilter
=============================================================================
