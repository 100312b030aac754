---------------------------- MODULE ModelContract ----------------------------
(*****************************************************************************)
(* Which provider and model an agent runs on: the selection that the routes  *)
(* normalise and save, the credentials bound to the agent, the check before  *)
(* a dispatch becomes a job and the same question asked again when the job   *)
(* starts.                                                                   *)
(*****************************************************************************)
EXTENDS Naturals, FiniteSets

CONSTANTS
  LlmProviders, \* providers of the catalogue
  Models,       \* models of the catalogue
  Unknown       \* a provider or a model that is in no catalogue

ASSUME ContractAssumption == Unknown \notin LlmProviders \cup Models /\ "" \notin LlmProviders \cup Models

VARIABLES
  capable,   \* the catalogue: pairs of a provider and one of its models
  apiKeyEnv, \* LLM_API_KEY is set
  modelConfig, \* agent.model_config: provider and model, "" where there is none
  boundProviders, \* providers with an active credential bound to the agent
  dispatch,  \* a message: "none", "ready", "refused", then how its job starts and ends
  explained, \* what the user is told of the job's failure: "" before
  altered    \* history: configuration or bindings changed since the message was checked

contractVars == <<capable, apiKeyEnv, modelConfig, boundProviders, dispatch, explained, altered>>

NoSelection == [provider |-> "", model |-> ""]
AskedConfigs == [provider : LlmProviders \cup {"", Unknown}, model : Models \cup {"", Unknown}]

ContractInit ==
  /\ capable \in SUBSET (LlmProviders \X Models) /\ apiKeyEnv \in BOOLEAN
  /\ modelConfig = NoSelection /\ boundProviders = {} /\ dispatch = "none" /\ explained = "" /\ altered = FALSE

--------------------------------------------------------------------------------
\* The selection.

listCompatibleProvidersForModel(m) == {p \in LlmProviders : <<p, m>> \in capable}

Mismatch(code) == [ok |-> FALSE, code |-> code, selection |-> NoSelection]
Resolved(p, m) == [ok |-> TRUE, code |-> "ok", selection |-> [provider |-> p, model |-> m]]

\* A provider that is named must know the model and, if any is allowed, be allowed.
validateNamed(p, m, allowed) ==
  IF p \notin LlmProviders THEN Mismatch("provider_unknown")
  ELSE IF <<p, m>> \notin capable THEN Mismatch("provider_model_invalid")
  ELSE IF allowed # {} /\ p \notin allowed THEN Mismatch("provider_unbound")
  ELSE Resolved(p, m)

\* A model alone must have one provider, among the allowed ones if one of them has it.
validateModel(m, allowed) ==
  LET providers == listCompatibleProvidersForModel(m)
      resolved == IF allowed \cap providers # {} THEN allowed \cap providers ELSE providers
  IN IF providers = {} THEN Mismatch("model_unknown")
     ELSE IF Cardinality(resolved) # 1 THEN Mismatch("model_provider_ambiguous")
     ELSE Resolved(CHOOSE p \in resolved : TRUE, m)

validateProviderModelSelection(c, allowed) ==
  IF c = NoSelection THEN Resolved("", "")
  ELSE IF c.model = "" THEN Mismatch("model_unknown")
  ELSE IF c.provider # "" THEN validateNamed(c.provider, c.model, allowed)
  ELSE validateModel(c.model, allowed)

\* Mutant: the configuration is kept as it was asked for.
normalizeNot(c, allowed) == [validateProviderModelSelection(c, allowed) EXCEPT !.selection = c]

\* The configuration with the provider that was found in it.
normalizeModelConfigSelection(c, allowed) == validateProviderModelSelection(c, allowed)

--------------------------------------------------------------------------------
\* Operators.

PutConfig(c) ==
  /\ normalizeModelConfigSelection(c, {}).ok
  /\ modelConfig' = normalizeModelConfigSelection(c, {}).selection /\ altered' = TRUE
  /\ UNCHANGED <<capable, apiKeyEnv, boundProviders, dispatch, explained>>

\* A credential may be bound if the configuration is valid with its provider alone.
BindLlm(p) ==
  /\ p \notin boundProviders /\ normalizeModelConfigSelection(modelConfig, {p}).ok
  /\ boundProviders' = boundProviders \cup {p} /\ altered' = TRUE /\ UNCHANGED <<capable, apiKeyEnv, modelConfig, dispatch, explained>>

\* It is unbound, deleted, expires or is revoked.
LoseLlm(p) ==
  /\ p \in boundProviders /\ boundProviders' = boundProviders \ {p} /\ altered' = TRUE
  /\ UNCHANGED <<capable, apiKeyEnv, modelConfig, dispatch, explained>>

--------------------------------------------------------------------------------
\* A message and its job.

resolveProviderModelContract == normalizeModelConfigSelection(modelConfig, boundProviders)
bindingRequired == modelConfig # NoSelection

\* Mutant: whether anything is bound is not asked.
PreflightLax(active) ==
  IF ~active THEN "refused"
  ELSE IF apiKeyEnv /\ ~bindingRequired THEN "ready"
  ELSE IF ~resolveProviderModelContract.ok THEN "refused"
  ELSE "ready"

\* What the check before the job says of an agent that is, or is not, active.
Preflight(active) ==
  IF ~active THEN "refused"
  ELSE IF apiKeyEnv /\ ~bindingRequired THEN "ready"
  ELSE IF ~resolveProviderModelContract.ok \/ boundProviders = {} THEN "refused"
  ELSE "ready"

runPreflight ==
  /\ dispatch = "none" /\ (\E active \in BOOLEAN : dispatch' = Preflight(active)) /\ altered' = FALSE
  /\ UNCHANGED <<capable, apiKeyEnv, modelConfig, boundProviders, explained>>

\* The bindings the job may use: of the provider that was resolved, or any.
SelectedBinding ==
  LET p == resolveProviderModelContract.selection.provider
  IN IF p = "" THEN boundProviders ELSE boundProviders \cap {p}

\* Mutant: no binding is asked for.
ResolveContractLax ==
  /\ dispatch = "ready"
  /\ dispatch' = IF ~resolveProviderModelContract.ok THEN "mismatch" ELSE "resolved"
  /\ UNCHANGED <<capable, apiKeyEnv, modelConfig, boundProviders, explained, altered>>

\* The job asks again when it starts.
ResolveContract ==
  /\ dispatch = "ready"
  /\ dispatch' = IF ~resolveProviderModelContract.ok THEN "mismatch"
                 ELSE IF bindingRequired /\ SelectedBinding = {} THEN "unbound" ELSE "resolved"
  /\ UNCHANGED <<capable, apiKeyEnv, modelConfig, boundProviders, explained, altered>>

\* The credential's token is resolved, or it isn't; then the job fails, or, with no configured
\* provider and an API key for a credential, goes on without it.
ResolveToken ==
  /\ dispatch = "resolved" /\ boundProviders # {} /\ dispatch' \in {"running", "unusable"}
  /\ UNCHANGED <<capable, apiKeyEnv, modelConfig, boundProviders, explained, altered>>

RunUnbound ==
  /\ dispatch = "resolved" /\ ~bindingRequired /\ boundProviders = {} /\ dispatch' = "running"
  /\ UNCHANGED <<capable, apiKeyEnv, modelConfig, boundProviders, explained, altered>>

\* What a job's error may hold: a code, a category, and words the text is searched for.
Failures ==
  [code : {"", "model_unavailable", "rate_limit", "timeout"},
   category : {"PERMANENT", "TRANSIENT", "QUARANTINED"},
   words : SUBSET {"credential", "401", "404", "429"}]

\* Those of a job that ended so: only an execution has codes and categories of its own, and the
\* answer of a provider may hold any word ("Bad credentials" with its 401 is one).
FailureOf(how) ==
  CASE how = "running" -> Failures
    [] how = "mismatch" -> {f \in Failures : f.code = "" /\ f.category = "PERMANENT" /\ f.words = {}}
    [] OTHER -> {f \in Failures : f.code = "" /\ f.category = "PERMANENT" /\ "credential" \in f.words}

\* Mutant: the status in the text is looked for first.
mapJobErrorByStatus(f) ==
  IF f.code = "model_unavailable" \/ "404" \in f.words THEN "check the model"
  ELSE IF f.code = "rate_limit" \/ "429" \in f.words THEN "later"
  ELSE IF f.code = "timeout" THEN "again"
  ELSE IF f.category = "QUARANTINED" THEN "reset the agent"
  ELSE IF "credential" \in f.words THEN "bind a credential"
  ELSE "again"

mapJobErrorToUserMessage(f) ==
  IF f.code = "model_unavailable" THEN "check the model"
  ELSE IF f.code = "rate_limit" THEN "later"
  ELSE IF f.code = "timeout" THEN "again"
  ELSE IF f.category = "QUARANTINED" THEN "reset the agent"
  ELSE IF "credential" \in f.words THEN "bind a credential"
  ELSE IF f.category = "PERMANENT" /\ "401" \in f.words THEN "update the credential"
  ELSE IF "404" \in f.words THEN "check the model"
  ELSE IF "429" \in f.words THEN "later"
  ELSE "again"

\* The job has failed and its user is told why.
Tell ==
  /\ dispatch \in {"mismatch", "unbound", "unusable", "running"} /\ explained = ""
  /\ \E f \in FailureOf(dispatch) : explained' = mapJobErrorToUserMessage(f)
  /\ UNCHANGED <<capable, apiKeyEnv, modelConfig, boundProviders, dispatch, altered>>

ContractNext ==
  \/ \E c \in AskedConfigs : PutConfig(c)
  \/ \E p \in LlmProviders : BindLlm(p) \/ LoseLlm(p)
  \/ runPreflight \/ ResolveContract \/ ResolveToken \/ RunUnbound \/ Tell

--------------------------------------------------------------------------------
\* What the routes save is a pair of the catalogue, or nothing.
ConfigIsCapable == modelConfig = NoSelection \/ <<modelConfig.provider, modelConfig.model>> \in capable

\* A message that was found ready does not fail for its provider or its binding unless they
\* changed meanwhile: the check and the job agree on every configuration the routes save.
ReadyRuns == dispatch \in {"mismatch", "unbound"} => altered

\* A job with a configured provider goes on only with a credential of that very provider, also
\* if bindings were taken away after the message was found ready.
ResolvesBound ==
  dispatch = "ready" /\ dispatch' = "resolved" /\ bindingRequired => modelConfig.provider \in boundProviders

ResolvedIsBound == [][ResolvesBound]_contractVars

\* A user whose job had no usable credential is told to have one bound, whatever status the
\* provider's answer in the error's text mentions; one whose job ran with a credential that was
\* refused may be told so too, if the answer names it; and a user whose configuration is what
\* failed is sent to no credential.
KeysAreAskedFor ==
  explained # "" =>
    /\ dispatch \in {"unbound", "unusable"} => explained = "bind a credential"
    /\ explained = "update the credential" => dispatch = "running"
    /\ explained = "bind a credential" => dispatch \in {"unbound", "unusable", "running"}
================================================================================
