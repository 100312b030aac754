----------------------------- MODULE ToolSecrets -----------------------------
(*****************************************************************************)
(* API keys of tools: administrators store, rotate, bind and delete them     *)
(* statement by statement, jobs are handed them, and the panel of an agent   *)
(* shows what is bound.  A key is what it opens with: the key of the user it *)
(* was sealed for.                                                           *)
(*****************************************************************************)
EXTENDS Naturals

CONSTANTS
  Secrets,   \* rows of provider_credential for one tool
  NoSecret,
  Admins,
  NoAdmin,
  Takers     \* jobs that ask for the tool's key

ASSUME SecretAssumption == NoSecret \notin Secrets /\ NoAdmin \notin Admins

VARIABLES
  owner,     \* per row user_account_id; NoAdmin when there is no row
  sealed,    \* whose key api_key_enc was encrypted with
  revoked,   \* rows whose status isn't "active", and the deleted ones, whose ids are not used again
  bound,     \* rows bound to the agent
  entries,   \* the audit log's entries of accesses: by which job, to which row
  change,    \* per administrator the change under way: what, to which row, the next statement
  take,      \* per job the row it is reading and the next statement
  handed     \* per job the row whose key it was given

secretVars == <<owner, sealed, revoked, bound, entries, change, take, handed>>

rows == <<owner, sealed, revoked>>

NoChange == <<"none", NoSecret, "none">>
NoTake == <<NoSecret, "none">>

SecretsInit ==
  /\ owner = [s \in Secrets |-> NoAdmin] /\ sealed = owner /\ revoked = {} /\ bound = {} /\ entries = {}
  /\ change = [a \in Admins |-> NoChange] /\ take = [j \in Takers |-> NoTake] /\ handed = [j \in Takers |-> NoSecret]

Exists(s) == s \in Secrets /\ owner[s] # NoAdmin
Active(s) == Exists(s) /\ s \notin revoked

Begins(a, what, s, at) == change[a] = NoChange /\ change' = [change EXCEPT ![a] = <<what, s, at>>]
Continues(a, at) == change' = [change EXCEPT ![a][3] = at]
Finishes(a) == change' = [change EXCEPT ![a] = NoChange]

\* An entry refers to the row: its insertion throws when the row is gone, and the deletion
\* of the row keeps the entry.
auditLog(j, s) == entries' = entries \cup {<<j, s>>}

--------------------------------------------------------------------------------
\* Changes.

\* POST /credentials/tool-secret: the row of this tool and provider is looked for.
storeToolSecret(a) ==
  /\ \/ \E s \in Secrets : Exists(s) /\ Begins(a, "update", s, "write")
     \/ (\A s \in Secrets : ~Exists(s)) /\ Begins(a, "create", NoSecret, "write")
  /\ UNCHANGED <<rows, bound, entries, take, handed>>

\* No constraint keeps two administrators from creating two rows.
InsertSecret(a) ==
  /\ change[a][1] = "create" /\ change[a][3] = "write"
  /\ \E s \in Secrets :
       /\ ~Exists(s) /\ s \notin revoked /\ owner' = [owner EXCEPT ![s] = a] /\ sealed' = [sealed EXCEPT ![s] = a]
       /\ change' = [change EXCEPT ![a] = <<"create", s, "audit">>]
  /\ UNCHANGED <<revoked, bound, entries, take, handed>>

\* The row found is given a key sealed for the caller; whose row it is does not change.
UpdateSecret(a) ==
  /\ change[a][1] = "update" /\ change[a][3] = "write"
  /\ IF Exists(change[a][2])
     THEN /\ sealed' = [sealed EXCEPT ![change[a][2]] = a] /\ revoked' = revoked \ {change[a][2]}
          /\ Continues(a, "audit")
     ELSE Finishes(a) /\ UNCHANGED <<sealed, revoked>>
  /\ UNCHANGED <<owner, bound, entries, take, handed>>

\* PUT /credentials/:id/rotate: the same, with the key of the row's owner.
rotateToolSecret(a, s) ==
  /\ Exists(s) /\ Begins(a, "rotate", s, "write") /\ UNCHANGED <<rows, bound, entries, take, handed>>

RotateSecret(a) ==
  /\ change[a][1] = "rotate" /\ change[a][3] = "write"
  /\ IF Exists(change[a][2])
     THEN /\ sealed' = [sealed EXCEPT ![change[a][2]] = owner[change[a][2]]] /\ revoked' = revoked \ {change[a][2]}
          /\ Continues(a, "audit")
     ELSE Finishes(a) /\ UNCHANGED <<sealed, revoked>>
  /\ UNCHANGED <<owner, bound, entries, take, handed>>

\* DELETE /credentials/:id by the owner: the entry first, then the row, and its bindings with it.
deleteCredential(a, s) ==
  /\ Exists(s) /\ owner[s] = a /\ Begins(a, "delete", s, "audit")
  /\ UNCHANGED <<rows, bound, entries, take, handed>>

DeleteRow(a) ==
  /\ change[a][1] = "delete" /\ change[a][3] = "write" /\ Finishes(a)
  /\ owner' = [owner EXCEPT ![change[a][2]] = NoAdmin] /\ sealed' = [sealed EXCEPT ![change[a][2]] = NoAdmin]
  /\ revoked' = revoked \cup {change[a][2]} /\ bound' = bound \ {change[a][2]}
  /\ UNCHANGED <<entries, take, handed>>

\* Mutant: the binding is written without another look at the row, which nothing refers to.
InsertBindingLoose(a) ==
  /\ change[a][1] = "bind" /\ change[a][3] = "write"
  /\ bound' = bound \cup {change[a][2]} /\ Continues(a, "audit")
  /\ UNCHANGED <<rows, entries, take, handed>>

\* POST /agents/:agentId/credentials, from the picker or by another caller: an active row,
\* not bound yet.  A binding refers to its row and is there once.
BindCredential(a, s) ==
  /\ Active(s) /\ s \notin bound /\ Begins(a, "bind", s, "write")
  /\ UNCHANGED <<rows, bound, entries, take, handed>>

InsertBinding(a) ==
  /\ change[a][1] = "bind" /\ change[a][3] = "write"
  /\ IF Exists(change[a][2]) /\ change[a][2] \notin bound
     THEN bound' = bound \cup {change[a][2]} /\ Continues(a, "audit")
     ELSE Finishes(a) /\ UNCHANGED bound
  /\ UNCHANGED <<rows, entries, take, handed>>

\* DELETE /agents/:agentId/credentials/:credentialId
UnbindCredential(a, s) ==
  /\ s \in bound /\ Begins(a, "unbind", s, "write") /\ UNCHANGED <<rows, bound, entries, take, handed>>

DeleteBinding(a) ==
  /\ change[a][1] = "unbind" /\ change[a][3] = "write"
  /\ bound' = bound \ {change[a][2]} /\ Continues(a, "audit") /\ UNCHANGED <<rows, entries, take, handed>>

\* The entry of a change; a row that is gone makes it fail, after what was changed.
WriteEntry(a) ==
  /\ change[a][3] = "audit"
  /\ IF Exists(change[a][2]) /\ change[a][1] = "delete" THEN Continues(a, "write") ELSE Finishes(a)
  /\ UNCHANGED <<rows, bound, entries, take, handed>>

--------------------------------------------------------------------------------
\* A job that asks for the key.

\* Any active row of the tool, and its key if it opens with the owner's.
getToolSecret(j) ==
  /\ take[j] = NoTake /\ handed[j] = NoSecret
  /\ \E s \in Secrets : Active(s) /\ sealed[s] = owner[s] /\ take' = [take EXCEPT ![j] = <<s, "audit">>]
  /\ UNCHANGED <<rows, bound, entries, change, handed>>

\* Mutant: the log is written at best effort.
WriteAccessLoose(j) ==
  /\ take[j][2] = "audit" /\ take' = [take EXCEPT ![j][2] = "return"]
  /\ IF Exists(take[j][1]) THEN auditLog(j, take[j][1]) ELSE UNCHANGED entries
  /\ UNCHANGED <<rows, bound, change, handed>>

\* The access is logged before the key is returned; if it can't be, the key is not.
WriteAccess(j) ==
  /\ take[j][2] = "audit"
  /\ IF Exists(take[j][1])
     THEN auditLog(j, take[j][1]) /\ take' = [take EXCEPT ![j][2] = "return"]
     ELSE take' = [take EXCEPT ![j] = NoTake] /\ UNCHANGED entries
  /\ UNCHANGED <<rows, bound, change, handed>>

markUsed(j) ==
  /\ take[j][2] = "return" /\ handed' = [handed EXCEPT ![j] = take[j][1]] /\ take' = [take EXCEPT ![j] = NoTake]
  /\ UNCHANGED <<rows, bound, entries, change>>

--------------------------------------------------------------------------------
\* The panel of the agent.

Revoke(s) == Active(s) /\ revoked' = revoked \cup {s} /\ UNCHANGED <<owner, sealed, bound, entries, change, take, handed>>

\* The picker offers every credential of the user, active or not; what is bound can't be picked.
PickerModal == {s \in Secrets : Exists(s)} \ bound

PanelBind(a) == \E s \in PickerModal : BindCredential(a, s)

PanelUnbind(a) == \E s \in bound : UnbindCredential(a, s)

SecretsNext ==
  \/ \E a \in Admins :
       \/ storeToolSecret(a) \/ InsertSecret(a) \/ UpdateSecret(a) \/ RotateSecret(a) \/ DeleteRow(a)
       \/ InsertBinding(a) \/ DeleteBinding(a) \/ WriteEntry(a) \/ PanelBind(a) \/ PanelUnbind(a)
       \/ \E s \in Secrets : rotateToolSecret(a, s) \/ deleteCredential(a, s)
  \/ \E j \in Takers : getToolSecret(j) \/ WriteAccess(j) \/ markUsed(j)
  \/ \E s \in Secrets : Revoke(s)

--------------------------------------------------------------------------------
\* No key leaves without its entry in the log, though its row may be deleted at any moment.
AccessIsLogged == \A j \in Takers : handed[j] # NoSecret => <<j, handed[j]>> \in entries

\* What is bound exists, whoever deletes it between the checks of a binding and its insertion.
BoundExists == \A s \in bound : Exists(s)
================================================================================
