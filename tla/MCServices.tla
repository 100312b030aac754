----------------------------- MODULE MCServices ------------------------------
(*****************************************************************************)
(* The instance of six services of the control plane for TLC.  They share no *)
(* state: a behaviour moves one of them, its part, and the others rest where *)
(* they start.                                                               *)
(*****************************************************************************)
EXTENDS ChatSessions, McpServers, McpClient, Credentials, SignIn, TLC

VARIABLE part

Init ==
  /\ part \in {"chat", "pool", "server", "tools", "credentials", "signIn"}
  /\ ChatInit /\ PoolInit /\ ServerInit /\ ToolInit /\ CredInit /\ SignInInit
  /\ part # "tools" => question = <<>>
  /\ part # "credentials" => authType = "oauth"
  /\ part # "signIn" => emailAt = [i \in Identities |-> CHOOSE e \in Emails : TRUE]

Next ==
  /\ part' = part
  /\ \/ part = "chat" /\ ChatNext
        /\ UNCHANGED <<poolVars, serverVars, toolVars, credVars, signInVars>>
     \/ part = "pool" /\ PoolNext
        /\ UNCHANGED <<chatVars, serverVars, toolVars, credVars, signInVars>>
     \/ part = "server" /\ ServerNext
        /\ UNCHANGED <<chatVars, poolVars, toolVars, credVars, signInVars>>
     \/ part = "tools" /\ ToolNext
        /\ UNCHANGED <<chatVars, poolVars, serverVars, credVars, signInVars>>
     \/ part = "credentials" /\ CredNext
        /\ UNCHANGED <<chatVars, poolVars, serverVars, toolVars, signInVars>>
     \/ part = "signIn" /\ SignInNext
        /\ UNCHANGED <<chatVars, poolVars, serverVars, toolVars, credVars>>

Spec ==
  Init /\ [][Next]_<<part, chatVars, poolVars, serverVars, toolVars, credVars, signInVars>>

\* Calls in flight are interchangeable.
Symmetry == Permutations(CredOps) \cup Permutations(Logins)

\* What is told of an MCP server and of the tools it offers follows what they are.
ToolsAreOffered == HealthIsTrue /\ ServedWasOffered /\ ConflictIsResolved

\* What was ended comes back only on purpose: a closed session, a disabled or deleted
\* server, a revoked credential, a session of a browser that is over, an account that an
\* identity has left, whatever stale reads are still to write.
NothingComesBack ==
  /\ ClosedReopensByStaleRead /\ DisabledStaysDisabled /\ DeletedStaysDeleted
  /\ RevokedStaysForTask /\ OverStaysOver /\ SameAccountAgain
=============================================================================
