----------------------------- MODULE ApiClient -----------------------------
(*****************************************************************************)
(* What a page of the dashboard asks the control plane: one request with its *)
(* retries (api-client.ts), and the query that shares and refreshes its      *)
(* answer (use-api.ts).                                                      *)
(*****************************************************************************)
EXTENDS Naturals, FiniteSets

(*****************************************************************************)
(* One call of the dashboard's client: apiFetch sends the request up to      *)
(* three times, also one that writes; a request that was given up may still  *)
(* arrive.                                                                   *)
(*****************************************************************************)

MaxRetries == 2

Attempts == 0 .. MaxRetries

\* The endpoints, in the order of the file; those that write and those that read.
AgentWrites == {"createAgent", "updateAgent", "deleteAgent", "createAgentJob", "steerAgent",
                "pauseAgent", "resumeAgent"}
AgentReads == {"listAgents", "getAgent"}
JobWrites == {"approveRequest", "retryJob", "syncMemory"}
JobReads == {"listApprovals", "getApprovalDetail", "getApprovalAudit", "listJobs", "getJob",
             "getDashboardSummary", "getDashboardActivity", "searchMemory"}
ContentWrites == {"publishContent", "archiveContent", "captureScreenshot", "startTrace", "stopTrace"}
ContentReads == {"listContent", "getAgentBrowser", "getAgentScreenshots", "getAgentBrowserEvents",
                 "getTraceState", "listModels"}
BindingWrites == {"exchangeOAuthConnect", "saveProviderApiKey", "deleteCredential", "testCredential",
                  "bindAgentChannel", "unbindAgentChannel", "bindAgentCredential", "unbindAgentCredential"}
BindingReads == {"listProviders", "listCredentials", "initOAuthConnect", "listAgentChannels",
                 "listChannelBindings", "listAgentCredentials"}
AccessWrites == {"createMcpServer", "updateMcpServer", "deleteMcpServer", "refreshMcpServer",
                 "revokeUserGrant", "createAgentUserGrant", "generatePairingCode",
                 "revokePairingCode", "resolveAccessRequest"}
AccessReads == {"listMcpServers", "getMcpServer", "getUser", "getUserUsage", "listAgentUsers",
                "listPairingCodes", "listAccessRequests", "getPendingCounts"}
ChatWrites == {"resumeSession", "sendChatMessage", "clearSession", "killAgent", "dryRunAgent",
               "replayAgent", "quarantineAgent", "releaseAgent"}
ChatReads == {"listAgentSessions", "getSessionMessages", "getSession", "getChatJobStatus",
              "getAgentEvents", "getAgentCost"}
ToolWrites == {"createChannelConfig", "updateChannelConfig", "deleteChannelConfig",
               "createToolBinding", "updateToolBinding", "deleteToolBinding", "bulkBindTools"}
ToolReads == {"listChannelConfigs", "getChannelConfig", "listToolBindings", "getEffectiveTools",
              "getCapabilityAudit"}

Writes == UNION {AgentWrites, JobWrites, ContentWrites, BindingWrites, AccessWrites, ChatWrites,
                 ToolWrites}
Reads == UNION {AgentReads, JobReads, ContentReads, BindingReads, AccessReads, ChatReads, ToolReads}

VARIABLES
  endpoint,
  attempt,
  awaits,    \* "start", "answer", "body", "delay" or, at the end, "nothing"
  request,   \* per attempt "none", "going", "served" or "refused" by the server
  aborted,   \* the caller's signal
  result     \* "none", "ok", "REFUSED" (4xx), or a code of ApiErrorCode

callVars == <<endpoint, attempt, awaits, request, aborted, result>>

CallInit ==
  /\ endpoint \in Writes \cup Reads /\ attempt = 0 /\ awaits = "start"
  /\ request = [n \in Attempts |-> "none"] /\ aborted = FALSE /\ result = "none"

Ends(r) == awaits' = "nothing" /\ result' = r

--------------------------------------------------------------------------------
\* The server handles a request that reached it, also one that the client has given up.
Serve(n) ==
  /\ request[n] = "going"
  /\ \E how \in {"served", "refused"} : request' = [request EXCEPT ![n] = how]
  /\ UNCHANGED <<endpoint, attempt, awaits, aborted, result>>

\* Mutant: a signal that fired between two attempts is not looked at.
AttemptDeaf ==
  /\ awaits = "start"
  /\ awaits' = "answer" /\ request' = [request EXCEPT ![attempt] = "going"] /\ UNCHANGED result
  /\ UNCHANGED <<endpoint, attempt, aborted>>

\* The head of the loop: the caller's signal, then fetch.
Attempt ==
  /\ awaits = "start"
  /\ IF aborted THEN Ends("TIMEOUT") /\ UNCHANGED request
     ELSE awaits' = "answer" /\ request' = [request EXCEPT ![attempt] = "going"] /\ UNCHANGED result
  /\ UNCHANGED <<endpoint, attempt, aborted>>

\* Mutant: attempts are not limited.
RetryAlways(code) == awaits' = "delay" /\ attempt' = attempt + 1 /\ UNCHANGED result

\* A transient failure is tried again while attempts are left.
RetryOr(code) ==
  IF attempt < MaxRetries THEN awaits' = "delay" /\ attempt' = attempt + 1 /\ UNCHANGED result
  ELSE Ends(code) /\ UNCHANGED attempt

Delayed ==
  /\ awaits = "delay" /\ awaits' = "start"
  /\ UNCHANGED <<endpoint, attempt, request, aborted, result>>

Refused ==
  /\ awaits = "answer" /\ request[attempt] = "refused" /\ Ends("REFUSED")
  /\ UNCHANGED <<endpoint, attempt, request, aborted>>

\* 502, 503 or 504: of the server or of a proxy that waits no longer, whatever the server does.
Unavailable ==
  /\ awaits = "answer" /\ RetryOr("TRANSIENT") /\ UNCHANGED <<endpoint, request, aborted>>

\* The connection fails or is never made.
Unreachable ==
  /\ awaits = "answer" /\ RetryOr("CONNECTION_REFUSED") /\ UNCHANGED <<endpoint, request, aborted>>

\* The timer of this attempt, or the caller's signal, aborts the fetch.
TimesOut ==
  /\ awaits = "answer" /\ RetryOr("TIMEOUT") /\ UNCHANGED <<endpoint, request, aborted>>

\* A good status clears the timer, so nothing limits the wait for the body.
Headers ==
  /\ awaits = "answer" /\ request[attempt] = "served" /\ awaits' = "body"
  /\ UNCHANGED <<endpoint, attempt, request, aborted, result>>

\* Mutant: an answer that was cut off is an answer.
CutOffAnyway ==
  /\ awaits \in {"answer", "body"} /\ Ends("ok")
  /\ UNCHANGED <<endpoint, attempt, request, aborted>>

\* The body breaks off: a network error again, after the server did its work.
CutOff ==
  /\ awaits = "body" /\ RetryOr("CONNECTION_REFUSED") /\ UNCHANGED <<endpoint, request, aborted>>

\* The body is parsed and validated; text that is no JSON counts as no connection.
Body ==
  /\ awaits = "body" /\ \E r \in {"ok", "SCHEMA_MISMATCH", "CONNECTION_REFUSED"} : Ends(r)
  /\ UNCHANGED <<endpoint, attempt, request, aborted>>

Abort ==
  /\ ~aborted /\ awaits # "nothing" /\ aborted' = TRUE
  /\ UNCHANGED <<endpoint, attempt, awaits, request, result>>

CallNext ==
  \/ \E n \in Attempts : Serve(n)
  \/ Attempt \/ Delayed \/ Refused \/ Unavailable \/ Unreachable \/ TimesOut
  \/ Headers \/ CutOff \/ Body \/ Abort

--------------------------------------------------------------------------------
\* How often the call took effect.
Effects ==
  IF endpoint \in Writes THEN Cardinality({n \in Attempts : request[n] = "served"}) ELSE 0

\* The types of the variables; no attempt is ahead of the loop.
CallTypeOK ==
  /\ endpoint \in Writes \cup Reads /\ attempt \in Attempts /\ aborted \in BOOLEAN
  /\ awaits \in {"start", "answer", "body", "delay", "nothing"}
  /\ request \in [Attempts -> {"none", "going", "served", "refused"}]
  /\ \A n \in Attempts : n > attempt => request[n] = "none"
  /\ (awaits = "nothing") = (result # "none")

\* What the caller is told of a call that writes: success means that it took effect, and a
\* first refusal that it did not.  Only a retry may write twice, or be refused for what the
\* attempt before has done.
OutcomeIsTrue ==
  endpoint \in Writes =>
    /\ result = "ok" => Effects > 0
    /\ result = "REFUSED" /\ Effects > 0 => attempt > 0
    /\ Effects > 1 => attempt > 0

\* A caller that gave up sends nothing more.
NothingAfterAbort == [][aborted => \A n \in Attempts : request[n] = "none" => request'[n] = "none"]_callVars

-----------------------------------------------------------------------------

(*****************************************************************************)
(* The data of a page: useApiQuery fetches when a filter changes, refetches  *)
(* after the operator's own changes and shares a request that is younger     *)
(* than two seconds.  The key of the cache does not tell what the request    *)
(* asks for.                                                                 *)
(*****************************************************************************)

CONSTANTS
  Fetches,     \* requests a page makes
  Filters,     \* what a page may ask for
  MaxVersion   \* changes of the rows

ASSUME QueryAssumption == MaxVersion \in Nat \ {0}

VARIABLES
  filter,      \* of the page
  version,     \* of the rows
  fetch,       \* per request what it asks for, what it read, and the order it was sent in
  cached,      \* the set of the entry: {} or the request it holds
  young,       \* the entry is younger than DEDUP_WINDOW_MS
  awaited,     \* requests that an execute() awaits
  settled,     \* requests whose timer will remove the entry
  shown,       \* what the page shows: [asked, read]
  isLoading, failed,
  wanted,      \* the version that the last execute() came after
  blurred      \* history: an execute() was given another's request, or two were under way

queryVars == <<filter, version, fetch, cached, young, awaited, settled, shown, isLoading, failed,
               wanted, blurred>>

NoFetch == [asked |-> 0, read |-> 0]

QueryInit ==
  /\ filter \in Filters /\ version = 1 /\ fetch = [f \in Fetches |-> NoFetch]
  /\ cached = {} /\ young = FALSE /\ awaited = {} /\ settled = {} /\ shown = NoFetch
  /\ isLoading = FALSE /\ failed = FALSE /\ wanted = 0 /\ blurred = FALSE

--------------------------------------------------------------------------------
\* The request that deduped() hands out, if any.
Shared == IF young THEN cached ELSE {}

\* Mutant: the cache keeps every request.
ExecuteKeeping(asked, now) ==
  /\ isLoading' = TRUE /\ failed' = FALSE /\ wanted' = now
  /\ \E f \in Fetches \ (awaited \cup settled \cup cached) :
       /\ fetch' = [fetch EXCEPT ![f] = [asked |-> asked, read |-> 0]]
       /\ cached' = cached \cup {f} /\ young' = TRUE /\ awaited' = awaited \cup {f}
       /\ blurred' = (awaited # {} \/ (blurred /\ isLoading)) /\ UNCHANGED settled
  /\ UNCHANGED shown

\* execute(): the state of the page loads, the request of the entry or a new one is awaited.
Execute(asked, now) ==
  /\ isLoading' = TRUE /\ failed' = FALSE /\ wanted' = now
  /\ IF Shared # {}
     THEN /\ awaited' = awaited \cup Shared /\ blurred' = TRUE
          /\ UNCHANGED <<fetch, cached, young, settled>>
     ELSE \E f \in Fetches \ (awaited \cup settled \cup cached) :
            /\ fetch' = [fetch EXCEPT ![f] = [asked |-> asked, read |-> 0]]
            /\ cached' = {f} /\ young' = TRUE /\ awaited' = awaited \cup {f}
            /\ blurred' = (awaited # {} \/ (blurred /\ isLoading)) /\ UNCHANGED settled
  /\ UNCHANGED shown

\* Mutant: a dependency is missing from the effect, the filter alone changes.
AskLater(f) ==
  /\ filter' = f /\ (IF wanted = 0 THEN Execute(f, version)
     ELSE UNCHANGED <<fetch, cached, young, awaited, settled, shown, isLoading, failed, wanted, blurred>>)
  /\ UNCHANGED version

\* The page is opened or its filter changes.
Ask(f) ==
  /\ (f # filter \/ wanted = 0) /\ filter' = f /\ Execute(f, version) /\ UNCHANGED version

\* The operator's own change was answered, and the page calls refetch().
Refetch ==
  /\ version < MaxVersion /\ version' = version + 1 /\ Execute(filter, version + 1)
  /\ UNCHANGED filter

OthersChange ==
  /\ version < MaxVersion /\ version' = version + 1
  /\ UNCHANGED <<filter, fetch, cached, young, awaited, settled, shown, isLoading, failed, wanted, blurred>>

ReadRows(f) ==
  /\ f \in awaited /\ fetch[f].read = 0 /\ fetch' = [fetch EXCEPT ![f].read = version]
  /\ UNCHANGED <<filter, version, cached, young, awaited, settled, shown, isLoading, failed, wanted, blurred>>

\* Mutant: the page stops loading with the first of its requests and awaits the others.
SettleEarly(f) ==
  /\ f \in awaited /\ fetch[f].read > 0 /\ shown' = fetch[f]
  /\ isLoading' = TRUE /\ failed' = FALSE
  /\ awaited' = awaited \ {f} /\ settled' = settled \cup {f}
  /\ UNCHANGED <<filter, version, fetch, cached, young, wanted, blurred>>

\* The answer of any request is shown, in the order they come.
Settle(f) ==
  /\ f \in awaited /\ fetch[f].read > 0 /\ shown' = fetch[f]
  /\ isLoading' = FALSE /\ failed' = FALSE
  /\ awaited' = awaited \ {f} /\ settled' = settled \cup {f}
  /\ UNCHANGED <<filter, version, fetch, cached, young, wanted, blurred>>

\* A failure keeps the data that was shown.
FetchFails(f) ==
  /\ f \in awaited /\ isLoading' = FALSE /\ failed' = TRUE
  /\ awaited' = awaited \ {f} /\ settled' = settled \cup {f}
  /\ UNCHANGED <<filter, version, fetch, cached, young, shown, wanted, blurred>>

Expire ==
  /\ young /\ young' = FALSE
  /\ UNCHANGED <<filter, version, fetch, cached, awaited, settled, shown, isLoading, failed, wanted, blurred>>

\* Two seconds after its end a request removes the entry of the key, be it its own or a later one's.
Evict(f) ==
  /\ f \in settled /\ (f \in cached => ~young) /\ settled' = settled \ {f}
  /\ cached' = {} /\ young' = FALSE /\ fetch' = [fetch EXCEPT ![f] = NoFetch]
  /\ UNCHANGED <<filter, version, awaited, shown, isLoading, failed, wanted, blurred>>

QueryNext ==
  \/ \E f \in Filters : Ask(f)
  \/ Refetch \/ OthersChange \/ Expire
  \/ \E f \in Fetches : ReadRows(f) \/ Settle(f) \/ FetchFails(f) \/ Evict(f)

--------------------------------------------------------------------------------
\* The types of the variables.
QueryTypeOK ==
  /\ filter \in Filters /\ version \in 1 .. MaxVersion /\ wanted \in 0 .. MaxVersion
  /\ fetch \in [Fetches -> [asked : Filters \cup {0}, read : 0 .. MaxVersion]]
  /\ {cached, awaited, settled} \subseteq SUBSET Fetches /\ Cardinality(cached) <= 1
  /\ {young, isLoading, failed, blurred} \subseteq BOOLEAN

\* A page that loads awaits something: no order of answers leaves it loading for ever.
LoadingAwaits == isLoading => awaited # {}

\* Unless it was handed a request sent before, or two were under way, the page that has
\* loaded shows what its filter asks for, and what its own last change made of it.
ShownIsWanted ==
  wanted > 0 /\ ~isLoading /\ ~failed /\ ~blurred => shown.asked = filter /\ shown.read >= wanted
=============================================================================
