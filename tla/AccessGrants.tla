---------------------------- MODULE AccessGrants -----------------------------
(*****************************************************************************)
(* Who may talk to an agent: the grants of its users, the pairing codes and  *)
(* access requests that lead to a grant, and the messages that are admitted  *)
(* by one.  One agent, since every row is keyed by it; the UNIQUE constraint *)
(* on (agent, user) leaves one grant per user, revoked or not.               *)
(*                                                                           *)
(* A message, a redemption and a review take several statements.  None runs  *)
(* in a transaction, so the statements of all of them interleave.            *)
(*****************************************************************************)
EXTENDS TLC

CONSTANTS
  Users, Codes, Requests,
  Messages,         \* bound: the messages dispatched at one time
  Reviews,          \* bound: the operators' calls in flight at one time
  AuthModels,       \* the values of agent.auth_model considered
  None

ASSUME AccessAssumption ==
  /\ AuthModels \subseteq {"allowlist", "approval_queue", "team", "open"}
  /\ None \notin Users

VARIABLES
  authModel,  \* agent.auth_model, which no route changes
  grant,      \* agent_user_grant
  code,       \* pairing_code
  request,    \* access_request
  message, review   \* what is in flight

rows == <<grant, code, request>>
vars == <<authModel, rows, message, review>>

NoGrant == [state |-> "none", origin |-> "none"]

\* The access level is part of the state of a valid grant, and of no other: what is
\* written again gets a level of its own.
Valid == {"read", "write"}

Grant == [state: Valid \cup {"expired", "revoked"},
          origin: {"pairing_code", "dashboard_invite", "auto", "approval"}]
         \cup {NoGrant}

Code == [state: {"absent", "open", "expired", "redeemed", "revoked"}, by: Users \cup {None}]

Request == [status: {"absent", "pending", "approved", "denied"}, user: Users \cup {None}]

Idle == [pc |-> "idle"]

Message == [pc: {"resolved", "requesting", "granting", "regranting", "admitted"}, user: Users]
           \cup [pc: {"reading", "redeeming", "inserting"}, user: Users, code: Codes]

Review == [pc: {"approving", "approved", "denying"}, request: Requests, user: Users]
          \cup [pc: {"inviting", "reactivating"}, user: Users]

Init ==
  /\ authModel \in AuthModels
  /\ grant = [u \in Users |-> NoGrant]
  /\ code = [c \in Codes |-> [state |-> "absent", by |-> None]]
  /\ request = [r \in Requests |-> [status |-> "absent", user |-> None]]
  /\ message = [m \in Messages |-> Idle]
  /\ review = [o \in Reviews |-> Idle]

-----------------------------------------------------------------------------
\* Steps of a message and of a review.

GoOn(m, pc) == message' = [message EXCEPT ![m].pc = pc]

\* The message is answered, or its dispatch throws.
Finish(m) == message' = [message EXCEPT ![m] = Idle]

Close(o) == review' = [review EXCEPT ![o] = Idle]

\* Mutant: a grant is inserted over whatever there is.
UpsertGrant(u, origin) ==
  grant' = [grant EXCEPT ![u] = [state |-> "write", origin |-> origin]]

\* INSERT of a grant: the UNIQUE constraint makes it throw when there is a row.
InsertGrant(u, origin) ==
  IF grant[u].state = "none"
  THEN grant' = [grant EXCEPT ![u] = [state |-> "write", origin |-> origin]]
  ELSE grant' = grant

-----------------------------------------------------------------------------
\* A message on its way through createMessageDispatch.

\* The chat is bound to an agent that passed its preflight, the channel's allowlist
\* lets the user in, and the text is no code.
Receive(m, u) ==
  /\ message[m] = Idle
  /\ message' = [message EXCEPT ![m] = [pc |-> "resolved", user |-> u]]
  /\ UNCHANGED <<authModel, rows, review>>

\* authorize, once the grant is read: an active grant decides; without any grant
\* the agent's model does.  A team agent asks whether it is bound to the chat.
Decide(m) ==
  LET g == grant[message[m].user] IN
    \/ g.state = "write" /\ GoOn(m, "admitted")
    \/ g.state \in {"read", "expired", "revoked"} /\ Finish(m)
    \/ g.state = "none" /\ authModel = "approval_queue" /\ GoOn(m, "requesting")
    \/ g.state = "none" /\ authModel \in {"team", "open"} /\ GoOn(m, "granting")
    \/ g.state = "none" /\ authModel \in {"team", "allowlist"} /\ Finish(m)

authorize(m) ==
  /\ message[m].pc = "resolved"
  /\ Decide(m)
  /\ UNCHANGED <<authModel, rows, review>>

Pending(u) == \E r \in Requests : request[r] = [status |-> "pending", user |-> u]

\* AccessRequestService.create: with a pending request, the INSERT violates the
\* constraint and the request there is answers it.
CreateRequest(m) ==
  /\ message[m].pc = "requesting"
  /\ \/ Pending(message[m].user) /\ request' = request
     \/ /\ ~Pending(message[m].user)
        /\ \E r \in Requests :
             /\ request[r].status = "absent"
             /\ request' = [request EXCEPT ![r] = [status |-> "pending", user |-> message[m].user]]
  /\ Finish(m)
  /\ UNCHANGED <<authModel, grant, code, review>>

\* Mutant: the message is let in and its grant is left for later.
AutoInsertLater(m) ==
  /\ message[m].pc = "granting"
  /\ GoOn(m, "admitted")
  /\ UNCHANGED <<authModel, rows, review>>

\* upsertAutoGrant: INSERT, and after a conflict SELECT of a grant not revoked.
AutoInsert(m) ==
  /\ message[m].pc = "granting"
  /\ InsertGrant(message[m].user, "auto")
  /\ GoOn(m, IF grant[message[m].user].state = "none" THEN "admitted" ELSE "regranting")
  /\ UNCHANGED <<authModel, code, request, review>>

AutoSelect(m) ==
  /\ message[m].pc = "regranting"
  /\ IF grant[message[m].user].state # "revoked" THEN GoOn(m, "admitted") ELSE Finish(m)
  /\ UNCHANGED <<authModel, rows, review>>

\* The rest of the dispatch, in ChatSessions.
Continue(m) ==
  /\ message[m].pc = "admitted"
  /\ Finish(m)
  /\ UNCHANGED <<authModel, rows, review>>

-----------------------------------------------------------------------------
\* PairingService.redeem, of a message that is a code or of POST /pair.

Redeem(m, u, c) ==
  /\ message[m] = Idle
  /\ message' = [message EXCEPT ![m] = [pc |-> "reading", user |-> u, code |-> c]]
  /\ UNCHANGED <<authModel, rows, review>>

ReadCode(m) ==
  /\ message[m].pc = "reading"
  /\ IF code[message[m].code].state = "open" THEN GoOn(m, "redeeming") ELSE Finish(m)
  /\ UNCHANGED <<authModel, rows, review>>

\* Mutant: the redeemer is not written.
MarkRedeemedUnnamed(m) ==
  LET c == message[m].code IN
    /\ message[m].pc = "redeeming"
    /\ IF code[c].state \in {"open", "expired"}
       THEN /\ code' = [code EXCEPT ![c].state = "redeemed"]
            /\ GoOn(m, "inserting")
       ELSE /\ code' = code
            /\ Finish(m)
    /\ UNCHANGED <<authModel, grant, request, review>>

\* Mutant: whoever finds the code marked is granted too.
MarkRedeemedUnchecked(m) ==
  LET c == message[m].code IN
    /\ message[m].pc = "redeeming"
    /\ code' = IF code[c].state \in {"open", "expired"}
               THEN [code EXCEPT ![c] = [state |-> "redeemed", by |-> message[m].user]] ELSE code
    /\ GoOn(m, "inserting")
    /\ UNCHANGED <<authModel, grant, request, review>>

\* The UPDATE asks for redeemed_at and revoked_at only.
MarkRedeemed(m) ==
  LET c == message[m].code IN
    /\ message[m].pc = "redeeming"
    /\ IF code[c].state \in {"open", "expired"}
       THEN /\ code' = [code EXCEPT ![c] = [state |-> "redeemed", by |-> message[m].user]]
            /\ GoOn(m, "inserting")
       ELSE /\ code' = code
            /\ Finish(m)
    /\ UNCHANGED <<authModel, grant, request, review>>

\* Mutant: a redemption ends with the code.
InsertPairedNot(m) ==
  /\ message[m].pc = "inserting"
  /\ Finish(m)
  /\ UNCHANGED <<authModel, rows, review>>

InsertPaired(m) ==
  /\ message[m].pc = "inserting"
  /\ InsertGrant(message[m].user, "pairing_code")
  /\ Finish(m)
  /\ UNCHANGED <<authModel, code, request, review>>

\* generate: a code that exists already is drawn again.
generate(c) ==
  /\ code[c].state = "absent"
  /\ code' = [code EXCEPT ![c].state = "open"]
  /\ UNCHANGED <<authModel, grant, request, message, review>>

revoke(c) ==
  /\ code[c].state \in {"open", "expired"}
  /\ code' = [code EXCEPT ![c].state = "revoked"]
  /\ UNCHANGED <<authModel, grant, request, message, review>>

\* expires_at of a code, or of an operator's grant, has passed.  No other has one.
CodeExpires(c) ==
  /\ code[c].state = "open"
  /\ code' = [code EXCEPT ![c].state = "expired"]
  /\ UNCHANGED <<authModel, grant, request, message, review>>

GrantExpires(u) ==
  /\ grant[u].state \in Valid /\ grant[u].origin = "dashboard_invite"
  /\ grant' = [grant EXCEPT ![u].state = "expired"]
  /\ UNCHANGED <<authModel, code, request, message, review>>

-----------------------------------------------------------------------------
\* AccessRequestService.approve and deny.

\* SELECT and its check: the request is pending.
BeginReview(o, r, pc) ==
  /\ review[o] = Idle /\ request[r].status = "pending"
  /\ review' = [review EXCEPT ![o] = [pc |-> pc, request |-> r, user |-> request[r].user]]
  /\ UNCHANGED <<authModel, rows, message>>

\* UNIQUE (agent, user, status)
Taken(u, status) == \E r \in Requests : request[r] = [status |-> status, user |-> u]

\* Mutant: the UPDATE has no condition on the status.
DecidedAnyway(o, status) ==
  LET r == review[o].request IN
    request' = IF ~Taken(review[o].user, status)
               THEN [request EXCEPT ![r].status = status] ELSE request

\* The UPDATE ... WHERE status = 'pending'.  Its row count is not looked at.
Decided(o, status) ==
  LET r == review[o].request IN
    request' = IF request[r].status = "pending" /\ ~Taken(review[o].user, status)
               THEN [request EXCEPT ![r].status = status] ELSE request

\* It throws when it would make the second decision of its kind for the user.
MarkApproved(o) ==
  LET r == review[o].request IN
    /\ review[o].pc = "approving"
    /\ Decided(o, "approved")
    /\ IF request[r].status = "pending" /\ Taken(review[o].user, "approved")
       THEN Close(o) ELSE review' = [review EXCEPT ![o].pc = "approved"]
    /\ UNCHANGED <<authModel, grant, code, message>>

\* Mutant: an approval makes no grant.
InsertApprovedNot(o) ==
  /\ review[o].pc = "approved"
  /\ Close(o)
  /\ UNCHANGED <<authModel, rows, message>>

InsertApproved(o) ==
  /\ review[o].pc = "approved"
  /\ InsertGrant(review[o].user, "approval")
  /\ Close(o)
  /\ UNCHANGED <<authModel, code, request, message>>

deny(o) ==
  /\ review[o].pc = "denying"
  /\ Decided(o, "denied")
  /\ Close(o)
  /\ UNCHANGED <<authModel, grant, code, message>>

-----------------------------------------------------------------------------
\* The operator's routes on grants.

\* POST: 409 for an active (or expired) grant.
BeginGrant(o, u) ==
  /\ review[o] = Idle /\ grant[u].state \in {"none", "revoked"}
  /\ review' = [review EXCEPT ![o] =
       [pc |-> IF grant[u].state = "none" THEN "inviting" ELSE "reactivating", user |-> u]]
  /\ UNCHANGED <<authModel, rows, message>>

Invitations == [state: Valid, origin: {"dashboard_invite"}]

\* The INSERT throws when there is a grant by now; the UPDATE is by id.
WriteGrant(o) ==
  LET u == review[o].user IN
    /\ review[o].pc \in {"inviting", "reactivating"}
    /\ IF review[o].pc = "inviting" /\ grant[u].state # "none"
       THEN grant' = grant
       ELSE \E g \in Invitations : grant' = [grant EXCEPT ![u] = g]
    /\ Close(o)
    /\ UNCHANGED <<authModel, code, request, message>>

\* PATCH of an access level and DELETE, each one guarded statement.
SetLevel(u, level) ==
  /\ grant[u].state \in Valid \ {level}
  /\ grant' = [grant EXCEPT ![u].state = level]
  /\ UNCHANGED <<authModel, code, request, message, review>>

RevokeGrant(u) ==
  /\ grant[u].state \in Valid \cup {"expired"}
  /\ grant' = [grant EXCEPT ![u].state = "revoked"]
  /\ UNCHANGED <<authModel, code, request, message, review>>

-----------------------------------------------------------------------------
MessageStep(m) ==
  \/ authorize(m) \/ CreateRequest(m) \/ AutoInsert(m) \/ AutoSelect(m) \/ Continue(m)
  \/ ReadCode(m) \/ MarkRedeemed(m) \/ InsertPaired(m)

ReviewStep(o) == MarkApproved(o) \/ InsertApproved(o) \/ deny(o) \/ WriteGrant(o)

Next ==
  \/ \E m \in Messages : \/ MessageStep(m)
                         \/ \E u \in Users : Receive(m, u) \/ \E c \in Codes : Redeem(m, u, c)
  \/ \E o \in Reviews : \/ ReviewStep(o)
                        \/ \E r \in Requests : BeginReview(o, r, "approving") \/ BeginReview(o, r, "denying")
                        \/ \E u \in Users : BeginGrant(o, u)
  \/ \E c \in Codes : generate(c) \/ revoke(c) \/ CodeExpires(c)
  \/ \E u \in Users : \/ GrantExpires(u) \/ RevokeGrant(u)
                      \/ \E l \in Valid : SetLevel(u, l)

Spec == Init /\ [][Next]_vars

-----------------------------------------------------------------------------
\* Every row and every call in flight is well formed, and a code names its redeemer
\* exactly when it is redeemed.
TypeOK ==
  /\ authModel \in AuthModels
  /\ grant \in [Users -> Grant]
  /\ code \in [Codes -> Code]
  /\ request \in [Requests -> Request]
  /\ message \in [Messages -> Message \cup {Idle}]
  /\ review \in [Reviews -> Review \cup {Idle}]
  /\ \A c \in Codes : (code[c].state = "redeemed") <=> (code[c].by # None)

\* A code that is used up was used for something: its user has a grant, if not by this
\* code then another, or the statement that makes it is still to come.  redeem marks the
\* code first and inserts the grant afterwards.
SpentCodeIsPaid ==
  \A c \in Codes : code[c].state = "redeemed" =>
    \/ grant[code[c].by].state # "none"
    \/ \E m \in Messages : message[m] = [pc |-> "inserting", user |-> code[c].by, code |-> c]

\* Nobody is approved without a grant: likewise for approve.
ApprovedIsGranted ==
  \A r \in Requests : request[r].status = "approved" =>
    \/ grant[request[r].user].state # "none"
    \/ \E o \in Reviews : review[o] = [pc |-> "approved", request |-> r, user |-> request[r].user]

\* A grant has the origin it says: a pairing grant belongs to the one user who redeemed
\* a code, however many tried it together; an approval belongs to a reviewed request.
OriginIsReal ==
  \A u \in Users :
    /\ grant[u].origin = "pairing_code" =>
         \E c \in Codes : code[c] = [state |-> "redeemed", by |-> u]
    /\ grant[u].origin = "approval" =>
         \E r \in Requests : request[r].user = u /\ request[r].status \in {"approved", "denied"}
    /\ grant[u].origin = "auto" => authModel \in {"team", "open"}

\* A message that passed the guard belongs to a user with a grant, which the limits of
\* the rest of the dispatch are read from.  The grant need not be valid any more.
AdmittedHasGrant ==
  \A m \in Messages : message[m].pc = "admitted" => grant[message[m].user].state # "none"

\* Nobody is let in for nothing, and nobody has paid for nothing: codes, approvals, grants
\* and messages agree at every moment of the calls that are under way.
GrantsAreEarned ==
  TypeOK /\ SpentCodeIsPaid /\ ApprovedIsGranted /\ OriginIsReal /\ AdmittedHasGrant

\* A grant that an operator revoked comes back by an operator's reactivation only, never
\* by a code, an approval or a message that found no grant when it looked.
RevocationHolds ==
  [][\A u \in Users : grant[u].state = "revoked" /\ grant'[u].state # "revoked" =>
       \E o \in Reviews : review[o] = [pc |-> "reactivating", user |-> u]]_vars

\* What a reviewer decided stays decided, and a code that is used or withdrawn stays so,
\* with the same redeemer.
DecisionsAreFinal ==
  [][/\ \A r \in Requests : request[r].status \in {"approved", "denied"} => request'[r] = request[r]
     /\ \A c \in Codes : code[c].state \in {"redeemed", "revoked"} => code'[c] = code[c]]_vars

--------------------------------------------------------------------------------
\* For TLC: the members of these sets can be exchanged.
Symmetry == Permutations(Messages) \cup Permutations(Reviews) \cup Permutations(Users)
            \cup Permutations(Requests)
=============================================================================
