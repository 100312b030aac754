------------------------------ MODULE Credentials -----------------------------
(*****************************************************************************)
(* One provider credential of a user: how it is stored, refreshed (when it   *)
(* is needed, by the periodic task, after a provider's 401), tested and      *)
(* deleted, while the provider rotates its refresh tokens.  Every operation  *)
(* reads the row, awaits the provider, and writes to the row by its id.      *)
(*****************************************************************************)
EXTENDS Naturals, FiniteSets

CONSTANTS
  CredOps,       \* bound: the operations in flight at one time
  MaxTokens,     \* bound: the refresh tokens the provider ever issues
  MaxRows        \* bound: the rows that are ever inserted

ASSUME CredAssumption == MaxTokens \in Nat /\ MaxRows \in Nat /\ IsFiniteSet(CredOps)

VARIABLES
  authType,      \* how its provider is authenticated to: a row's type never changes
  accountKey,    \* encryption_key_enc of the user, numbered; 0 when there is none
  credential,           \* the row of provider_credential
  rowsMade,
  token,         \* external: the provider's refresh tokens
  op,            \* the operations in flight
  strayed,       \* history: the refresh tokens that two refreshes sent at a time, and those
                 \* whose successor was not written to the row
  raced          \* history: the keys of the user made while another one was being made

credVars == <<authType, accountKey, credential, rowsMade, token, op, strayed, raced>>

Keys   == 1..Cardinality(CredOps)
Tokens == 1..MaxTokens

NoRow == [id |-> 0]

\* token 0: no refresh token.  due: token_expires_at is far, within the margins before
\* which a refresh is tried (5 and 30 minutes), or over.  refused (history): the token by
\* whose refusal it was revoked, 0 when it is not.
Credential == [id: 1..MaxRows,
        status: {"active", "expired", "revoked", "error"},
        token: 0..MaxTokens, due: {"later", "soon", "past"}, errors: 0..3, key: Keys,
        refused: 0..MaxTokens]

NoOp == [pc |-> "none"]

Store  == [pc: {"keying", "making", "looking", "inserting"}, token: 0..MaxTokens,
           key: 0..Cardinality(CredOps)]
          \cup [pc: {"updating"}, token: 0..MaxTokens, key: Keys, id: 1..MaxRows]

\* What a refresh or a test read of the row, and the refresh token in the provider's
\* answer, 0 for none; both tokens are forgotten with the refresh.
Attempt == [pc: {"expiring", "refreshing", "accepted", "rejected", "failed", "pinging"},
            kind: {"request", "task", "test"}, id: 1..MaxRows, token: 0..MaxTokens,
            errors: 0..3, given: 0..MaxTokens]

Verify == [pc: {"verifying"}]

CredInit ==
  /\ authType \in {"oauth", "api_key"}
  /\ accountKey = 0 /\ credential = NoRow /\ rowsMade = 0
  /\ token = [t \in Tokens |-> "unissued"]
  /\ op = [o \in CredOps |-> NoOp]
  /\ strayed = {}  /\ raced = {}

-----------------------------------------------------------------------------
Idle(o)    == op[o] = NoOp
At(o, pc)  == op[o].pc = pc
To(o, pc)  == op' = [op EXCEPT ![o].pc = pc]
Finish(o)  == op' = [op EXCEPT ![o] = NoOp]
Stored     == credential # NoRow
TheRow(o)  == Stored /\ credential.id = op[o].id
MoreErrors(n) == IF n < 3 THEN n + 1 ELSE 3

\* The provider issues t, the next token, in place of the tokens in old.
Issue(t, old) ==
  /\ token[t] = "unissued" /\ \A u \in Tokens : token[u] = "unissued" => t <= u
  /\ token' = [u \in Tokens |-> IF u = t THEN "live" ELSE IF u \in old THEN "spent" ELSE token[u]]

\* A callback with an authorisation code, exchanged for tokens with or without a refresh
\* token: the start of storeOAuthCredential.
storeOAuth(o) ==
  /\ Idle(o) /\ authType = "oauth"
  /\ \E t \in 0..MaxTokens :
       /\ IF t = 0 THEN token' = token ELSE Issue(t, {})
       /\ op' = [op EXCEPT ![o] = [pc |-> "keying", token |-> t, key |-> 0]]
  /\ UNCHANGED <<authType, accountKey, credential, rowsMade, strayed, raced>>

\* POST /credentials/api-key; an admin's tool secrets and their rotation are stored the same way.
storeApiKey(o) ==
  /\ Idle(o) /\ authType = "api_key"
  /\ op' = [op EXCEPT ![o] = [pc |-> "keying", token |-> 0, key |-> 0]]
  /\ UNCHANGED <<authType, accountKey, credential, rowsMade, token, strayed, raced>>

\* ensureUserKey: the key of the account is read; one is made when there is none.
\* Mutant: one is made in any case.
ensureUserKeyAnew(o) ==
  /\ At(o, "keying") /\ To(o, "making")
  /\ UNCHANGED <<authType, accountKey, credential, rowsMade, token, strayed, raced>>

ensureUserKey(o) ==
  /\ At(o, "keying")
  /\ IF accountKey = 0 THEN To(o, "making")
     ELSE op' = [op EXCEPT ![o] = [@ EXCEPT !.pc = "looking", !.key = accountKey]]
  /\ UNCHANGED <<authType, accountKey, credential, rowsMade, token, strayed, raced>>

MakeKey(o) ==
  /\ At(o, "making")
  /\ accountKey < Cardinality(CredOps)
  /\ accountKey' = accountKey + 1
  /\ op' = [op EXCEPT ![o] = [@ EXCEPT !.pc = "looking", !.key = accountKey + 1]]
  /\ raced' = IF \E p \in CredOps \ {o} : At(p, "making") THEN raced \cup {accountKey + 1} ELSE raced
  /\ UNCHANGED <<authType, credential, rowsMade, token, strayed>>

\* The SELECT by user, provider and label.
LookForRow(o) ==
  /\ At(o, "looking")
  /\ IF Stored
     THEN op' = [op EXCEPT ![o] = [pc |-> "updating", token |-> @.token, key |-> @.key,
                                   id |-> credential.id]]
     ELSE To(o, "inserting")
  /\ UNCHANGED <<authType, accountKey, credential, rowsMade, token, strayed, raced>>

\* The routes test the tokens they stored.
AfterStore(o) ==
  IF authType = "oauth" THEN op' = [op EXCEPT ![o] = [pc |-> "verifying"]] ELSE Finish(o)

\* UPDATE by id; it may throw, and does when the row was deleted.
UpdateRow(o) ==
  /\ At(o, "updating")
  /\ \/ /\ TheRow(o) /\ AfterStore(o)
        /\ credential' = [credential EXCEPT !.status = "active", !.token = op[o].token,
                            !.due = "later", !.errors = 0, !.key = op[o].key, !.refused = 0]
     \/ credential' = credential /\ Finish(o)
  /\ UNCHANGED <<authType, accountKey, rowsMade, token, strayed, raced>>

\* INSERT; it may throw, and does when another one was first (UNIQUE).
InsertRow(o) ==
  /\ At(o, "inserting")
  /\ \/ /\ ~Stored /\ rowsMade < MaxRows /\ rowsMade' = rowsMade + 1 /\ AfterStore(o)
        /\ credential' = [id |-> rowsMade + 1, status |-> "active", token |-> op[o].token,
                   due |-> "later", errors |-> 0, key |-> op[o].key, refused |-> 0]
     \/ UNCHANGED <<credential, rowsMade>> /\ Finish(o)
  /\ UNCHANGED <<authType, accountKey, token, strayed, raced>>

deleteCredential ==
  /\ Stored /\ credential' = NoRow
  /\ UNCHANGED <<authType, accountKey, rowsMade, token, op, strayed, raced>>

-----------------------------------------------------------------------------
Tries(o, kind, pc, t) ==
  op' = [op EXCEPT ![o] = [pc |-> pc, kind |-> kind, id |-> credential.id, token |-> t,
                           errors |-> credential.errors, given |-> 0]]

\* The refresh token of the row is with the provider, or its answer is still to be written.
Sent(o) == op[o].pc \in {"refreshing", "accepted"}

\* The token is sent; that another refresh has sent it too is marked.
Sends(o, kind) ==
  /\ Tries(o, kind, "refreshing", credential.token)
  /\ strayed' = IF \E p \in CredOps \ {o} : Sent(p) /\ op[p].token = credential.token
                THEN strayed \cup {credential.token} ELSE strayed

\* getAccessToken, resolveCredentialAccessToken, by which a job gets its token: near its
\* end, when it is forced to (the provider's 401), and with the latter also when the row
\* is not active.  No refresh token: the row expires (but getAccessToken uses it as it is).
getAccessToken(o) ==
  /\ Idle(o) /\ Stored /\ authType = "oauth" /\ credential.key = accountKey
  /\ IF credential.token = 0 THEN Tries(o, "request", "expiring", 0) /\ strayed' = strayed
     ELSE Sends(o, "request")
  /\ UNCHANGED <<authType, accountKey, credential, rowsMade, token, raced>>

\* refreshExpiring, for a row near its end.  A row that cannot be read is a failure too.
refreshExpiring(o) ==
  /\ Idle(o) /\ Stored
  /\ authType = "oauth" /\ credential.status = "active" /\ credential.token # 0 /\ credential.due # "later"
  /\ IF credential.key = accountKey THEN Sends(o, "task")
     ELSE Tries(o, "task", "failed", 0) /\ strayed' = strayed
  /\ UNCHANGED <<authType, accountKey, credential, rowsMade, token, raced>>

\* testCredential: tokens that have expired are refreshed first, if they can be.
testCredential(o) ==
  /\ Idle(o) \/ At(o, "verifying")
  /\ IF Stored /\ credential.key = accountKey /\ ~(authType = "oauth" /\ credential.due = "past" /\ credential.token = 0)
     THEN IF authType = "oauth" /\ credential.due = "past" THEN Sends(o, "test")
          ELSE Tries(o, "test", "pinging", 0) /\ strayed' = strayed
     ELSE At(o, "verifying") /\ Finish(o) /\ strayed' = strayed
  /\ UNCHANGED <<authType, accountKey, credential, rowsMade, token, raced>>

\* The refresh is over.
Leaves(o, pc) == op' = [op EXCEPT ![o] = [@ EXCEPT !.pc = pc, !.token = 0, !.given = 0]]

\* External: the provider takes the refresh token, and may issue another in its place ...
Accepts(o) ==
  /\ At(o, "refreshing") /\ token[op[o].token] = "live"
  /\ \/ To(o, "accepted") /\ token' = token
     \/ \E t \in Tokens :
          /\ Issue(t, {op[o].token})
          /\ op' = [op EXCEPT ![o] = [@ EXCEPT !.pc = "accepted", !.given = t]]
  /\ UNCHANGED <<authType, accountKey, credential, rowsMade, strayed, raced>>

\* ... refuses one that is spent or withdrawn (invalid_grant) ...
Rejects(o) ==
  /\ At(o, "refreshing") /\ token[op[o].token] # "live"
  /\ To(o, "rejected")
  /\ UNCHANGED <<authType, accountKey, credential, rowsMade, token, strayed, raced>>

\* ... or no answer arrives, before or after the token was spent.
Unanswered(o) ==
  /\ At(o, "refreshing") /\ Leaves(o, "failed")
  /\ \/ UNCHANGED <<token, strayed>>
     \/ /\ token[op[o].token] = "live" /\ strayed' = strayed \cup {op[o].token}
        /\ \E t \in Tokens : Issue(t, {op[o].token})
  /\ UNCHANGED <<authType, accountKey, credential, rowsMade, raced>>

\* Mutant: the new refresh token is not kept.
RefreshedKeepsOld(o) == [credential EXCEPT !.due = "later", !.status = "active", !.errors = 0,
                                    !.key = accountKey, !.refused = 0]

\* The success of a refresh is written by id: the token in the answer, or else the one
\* that was sent.
Refreshed(o) ==
  [credential EXCEPT !.token = IF op[o].given = 0 THEN op[o].token ELSE op[o].given,
              !.due = "later", !.status = "active", !.errors = 0, !.key = accountKey, !.refused = 0]

\* Mutant: the periodic task, too, writes whatever the status is by now.
MayWriteAny(o) == TheRow(o)

\* The periodic task leaves a row alone that is no longer active.
MayWrite(o) == TheRow(o) /\ (op[o].kind = "task" => credential.status = "active")

\* The new token is not written: the one that was sent has no successor in the row.
Strays(o) == strayed' = IF op[o].given = 0 THEN strayed ELSE strayed \cup {op[o].token}

\* The UPDATE, and the audit, which is in the same try: when it throws the refresh has
\* failed, with the new tokens in the row.  A test goes on to try the token.
RefreshSucceeds(o) ==
  /\ At(o, "accepted")
  /\ IF MayWrite(o) THEN credential' = Refreshed(o) /\ strayed' = strayed
     ELSE credential' = credential /\ Strays(o)
  /\ \/ IF op[o].kind = "test" THEN Leaves(o, "pinging") ELSE Finish(o)
     \/ Leaves(o, "failed")
  /\ UNCHANGED <<authType, accountKey, rowsMade, token, raced>>

\* The UPDATE throws: the refresh has failed, and the tokens of the answer are lost.
RefreshUnwritten(o) ==
  /\ At(o, "accepted") /\ Leaves(o, "failed") /\ Strays(o)
  /\ UNCHANGED <<authType, accountKey, credential, rowsMade, token, raced>>

\* Mutant: the code of the failure is stored as the status.
StatusAfterCode(o) ==
  IF op[o].kind = "task" THEN "refresh_failed"
  ELSE IF At(o, "expiring") THEN "reauth_required" ELSE "credential_unavailable"

\* What a failed attempt makes of the row: classifyRefreshFailure, and the task's three
\* strikes.  Mutant: every failure is taken for a withdrawn token.
StatusAfterAny(o) ==
  IF op[o].kind = "task" THEN IF op[o].errors + 1 >= 3 THEN "error" ELSE "active"
  ELSE IF At(o, "expiring") THEN "expired" ELSE "revoked"

StatusAfter(o) ==
  IF op[o].kind = "task" THEN IF op[o].errors + 1 >= 3 THEN "error" ELSE "active"
  ELSE IF At(o, "expiring") THEN "expired"
  ELSE IF At(o, "rejected") THEN "revoked" ELSE "error"

\* The UPDATE of the failure, which may throw itself.
RefreshFails(o) ==
  /\ At(o, "rejected") \/ At(o, "failed") \/ At(o, "expiring")
  /\ \/ /\ MayWrite(o)
        /\ credential' = [credential EXCEPT !.status = StatusAfter(o),
                   !.errors = MoreErrors(op[o].errors),
                   !.refused = IF StatusAfter(o) = "revoked" THEN op[o].token ELSE 0]
     \/ credential' = credential
  /\ Finish(o)
  /\ UNCHANGED <<authType, accountKey, rowsMade, token, strayed, raced>>

\* pingProvider: connected; or refused or unreachable; or rate limited.
Pinged(o) ==
  /\ At(o, "pinging")
  /\ \/ /\ TheRow(o)
        /\ \/ credential' = [credential EXCEPT !.status = "active", !.errors = 0, !.refused = 0]
           \/ credential' = [credential EXCEPT !.status = "error", !.refused = 0,
                                          !.errors = MoreErrors(op[o].errors)]
     \/ credential' = credential
  /\ Finish(o)
  /\ UNCHANGED <<authType, accountKey, rowsMade, token, strayed, raced>>

-----------------------------------------------------------------------------
\* The access token ages; the user withdraws the consent at the provider.
Ages ==
  /\ Stored /\ authType = "oauth" /\ credential.due # "past"
  /\ credential' = [credential EXCEPT !.due = IF @ = "later" THEN "soon" ELSE "past"]
  /\ UNCHANGED <<authType, accountKey, rowsMade, token, op, strayed, raced>>

Withdraw ==
  /\ \E t \in Tokens : token[t] = "live" /\ token' = [token EXCEPT ![t] = "withdrawn"]
  /\ UNCHANGED <<authType, accountKey, credential, rowsMade, op, strayed, raced>>

CredNext ==
  \/ \E o \in CredOps :
       \/ storeOAuth(o) \/ storeApiKey(o) \/ ensureUserKey(o) \/ MakeKey(o) \/ LookForRow(o)
       \/ UpdateRow(o) \/ InsertRow(o)
       \/ getAccessToken(o) \/ refreshExpiring(o) \/ testCredential(o)
       \/ Accepts(o) \/ Rejects(o) \/ Unanswered(o)
       \/ RefreshSucceeds(o) \/ RefreshUnwritten(o) \/ RefreshFails(o) \/ Pinged(o)
  \/ deleteCredential \/ Ages \/ Withdraw

CredSpec == CredInit /\ [][CredNext]_credVars

-----------------------------------------------------------------------------
\* The row, the provider's tokens and the operations are well formed.
CredTypeOK ==
  /\ authType \in {"oauth", "api_key"}
  /\ accountKey \in 0..Cardinality(CredOps)
  /\ credential \in Credential \cup {NoRow}
  /\ rowsMade \in 0..MaxRows
  /\ token \in [Tokens -> {"unissued", "live", "spent", "withdrawn"}]
  /\ op \in [CredOps -> Store \cup Attempt \cup Verify \cup {NoOp}]
  /\ strayed \subseteq Tokens /\ raced \subseteq Keys

\* The refresh token that is stored is one the provider has taken back in exchange for
\* another only while the refresh that is to replace it has not written, unless that very
\* token was sent by two refreshes at a time or its successor was not written (its answer
\* lost, its UPDATE failed, its row no longer active): every refresh keeps the token it is
\* given (credential-service.ts:877), and no other operation writes an older one over it.
StoredTokenIsUnspent ==
  Stored /\ credential.token # 0 /\ token[credential.token] = "spent"
    => \/ credential.token \in strayed
       \/ \E o \in CredOps : At(o, "accepted") /\ op[o].token = credential.token

\* A credential is called revoked ("Re-authenticate this provider") only if the token that
\* was refused had been withdrawn at the provider, or was one of those.
RevokedIsWithdrawn ==
  Stored /\ credential.status = "revoked"
    => /\ credential.refused # 0
       /\ token[credential.refused] = "withdrawn" \/ credential.refused \in strayed

\* A revoked credential comes back only by what the user or a job did about it: it was
\* stored again, or the provider accepted its tokens.  The periodic task, which may have
\* read it before it was revoked, never brings it back.
RevokedStaysForTask ==
  [][Stored /\ credential.status = "revoked" /\ credential' # NoRow /\ credential'.status = "active"
       => \E o \in CredOps : \/ At(o, "updating")
                             \/ op[o].pc \in {"accepted", "pinging"} /\ op[o].kind # "task"]_credVars

\* What is stored can be decrypted with the user's key, unless its own key was made while
\* another operation was making one: the later key replaces the other.
KeyOpensRow == Stored /\ credential.key \notin raced => credential.key = accountKey

\* Operations that overlap spoil a credential in no other way than the one of their own
\* race: its token is of use, its revocation was the provider's, its key is the user's.
CredentialsWork == CredTypeOK /\ StoredTokenIsUnspent /\ RevokedIsWithdrawn /\ KeyOpensRow
=============================================================================
