----------------------------- MODULE AgentPages -----------------------------
(*****************************************************************************)
(* The pages of one agent and the forms around them: its settings and        *)
(* controls, the dialogs that deploy, pair and bind it, and the tab of its   *)
(* users. The parts share no state.                                          *)
(*****************************************************************************)
EXTENDS Integers, FiniteSets, FiniteSetsExt

(*****************************************************************************)
(* One agent's page of the dashboard: its header and dialogs, the settings   *)
(* form, the control panel and the steering inputs.  While the agent is      *)
(* being loaded again the page is a skeleton: its panels, with what was      *)
(* typed in them, are gone, and the answers they were waiting for find them  *)
(* no more.                                                                  *)
(*****************************************************************************)

CONSTANTS
  Prompts,      \* the values of the one setting that is modelled
  Lives,        \* the lifecycle states the stream tells
  MaxPosts      \* bound: how many requests of the page are under way

VARIABLES
  agentRow,     \* the agent as the server has it: status and prompt
  agentShown,   \* the agent as it was last loaded
  skeleton,     \* the agent is being loaded
  liveState,    \* the lifecycle state last streamed, "none" before the first
  editor,       \* the settings form: at "view", "edit" or "saving", prompt, touched
  control,      \* the control panel's dialog, "none" when none is open
  removal,      \* the delete dialog is open
  posts         \* the requests under way; mine: the panel that waits is there still

pageVars == <<agentRow, agentShown, skeleton, liveState, editor, control, removal, posts>>

Viewing(a) == [at |-> "view", prompt |-> a.prompt, touched |-> FALSE]

PageInit ==
  /\ agentRow = [status |-> "ACTIVE", prompt |-> CHOOSE p \in Prompts : TRUE]
  /\ agentShown = agentRow /\ skeleton = TRUE
  /\ liveState = "none" /\ editor = Viewing(agentRow) /\ control = "none"
  /\ removal = FALSE /\ posts = {}

\* Mutant: the panels stay while the agent is loaded again
ReloadInPlace == skeleton' = TRUE /\ UNCHANGED <<editor, control>>

Reload ==
  /\ skeleton' = TRUE
  /\ editor' = Viewing(agentShown) /\ control' = "none"

\* what these do at the server is no part of the row
Elsewhere == {"pause", "resume", "steer", "dry-run"}

\* a request leaves; one that is answered, to the panel p.mine or to nobody
Sends(op, prompt) ==
  LET p == [op |-> op, prompt |-> prompt, mine |-> TRUE, done |-> op \in Elsewhere]
  IN Cardinality(posts) < MaxPosts /\ p \notin posts /\ posts' = posts \cup {p}

Orphans(ps) == {[p EXCEPT !.mine = FALSE] : p \in ps}

Answers(p) == posts' = posts \ {p}

\* the load ends; a failing one leaves the agent it had (and its panels start anew)
Loaded(ok) ==
  /\ skeleton /\ skeleton' = FALSE
  /\ agentShown' = IF ok THEN agentRow ELSE agentShown
  /\ editor' = Viewing(agentShown')
  /\ UNCHANGED <<agentRow, liveState, control, removal, posts>>

\* the page reads the stream: the state it last told stands before the loaded one
Streamed(s) ==
  /\ liveState' = s
  /\ UNCHANGED <<agentRow, agentShown, skeleton, editor, control, removal, posts>>

\* the operations tab loads the agent again for every activity or approval it hears of
RefreshOnActivity ==
  /\ ~skeleton /\ Reload /\ posts' = Orphans(posts)
  /\ UNCHANGED <<agentRow, agentShown, liveState, removal>>

Idles == UNCHANGED <<agentRow, agentShown, skeleton, liveState>>

\* The settings form

\* Mutant: the form opens with what it held when it was cancelled
EditKeeping ==
  /\ ~skeleton /\ editor.at = "view" /\ editor' = [editor EXCEPT !.at = "edit", !.touched = FALSE]
  /\ Idles /\ UNCHANGED <<control, removal, posts>>

handleEdit ==
  /\ ~skeleton /\ editor.at = "view"
  /\ editor' = [at |-> "edit", prompt |-> agentShown.prompt, touched |-> FALSE]
  /\ Idles /\ UNCHANGED <<control, removal, posts>>

TypeSetting(p) ==
  /\ ~skeleton /\ editor.at = "edit"
  /\ editor' = [editor EXCEPT !.prompt = p, !.touched = TRUE]
  /\ Idles /\ UNCHANGED <<control, removal, posts>>

handleCancel ==
  /\ ~skeleton /\ editor.at = "edit" /\ editor' = [editor EXCEPT !.at = "view"]
  /\ Idles /\ UNCHANGED <<control, removal, posts>>

handleSave ==
  /\ ~skeleton /\ editor.at = "edit"
  /\ Sends("save", editor.prompt) /\ editor' = [editor EXCEPT !.at = "saving"]
  /\ Idles /\ UNCHANGED <<control, removal>>

\* The control panel

\* what it offers over an agent of that status
ControlsFor(s) == IF s = "QUARANTINED" THEN {"release"} ELSE {"kill", "quarantine", "dry-run"}

AskControl(d) ==
  /\ ~skeleton /\ control = "none" /\ d \in ControlsFor(agentShown.status)
  /\ control' = d
  /\ Idles /\ UNCHANGED <<editor, removal, posts>>

CloseControl ==
  /\ ~skeleton /\ control # "none" /\ control' = "none"
  /\ Idles /\ UNCHANGED <<editor, removal, posts>>

\* a second confirmation is stopped for the dry run only
ConfirmControl ==
  /\ ~skeleton /\ control # "none" /\ Sends(control, "none")
  /\ Idles /\ UNCHANGED <<editor, control, removal>>

\* The header, the banner, the delete dialog and the steering inputs

\* what the server makes of a row: a quarantined agent is told as ready
deriveLifecycleState(s) == IF s = "ARCHIVED" THEN "TERMINATED" ELSE "READY"

currentState == IF liveState = "none" THEN deriveLifecycleState(agentShown.status) ELSE liveState

ResumeBanner == currentState \in {"DRAINING", "TERMINATED"}

handlePause ==
  /\ ~skeleton /\ Sends("pause", "none")
  /\ Idles /\ UNCHANGED <<editor, control, removal>>

handleResume ==
  /\ ~skeleton /\ ResumeBanner /\ Sends("resume", "none")
  /\ Idles /\ UNCHANGED <<editor, control, removal>>

AskDelete ==
  /\ ~skeleton /\ ~removal /\ removal' = TRUE
  /\ Idles /\ UNCHANGED <<editor, control, posts>>

CancelDelete ==
  /\ ~skeleton /\ removal /\ removal' = FALSE
  /\ Idles /\ UNCHANGED <<editor, control, posts>>

ConfirmDelete ==
  /\ ~skeleton /\ removal /\ Sends("delete", "none")
  /\ Idles /\ UNCHANGED <<editor, control, removal>>

\* an input does not send again before its instruction was answered
Steer ==
  /\ ~skeleton /\ \A p \in posts : p.op = "steer" => ~p.mine
  /\ Sends("steer", "none")
  /\ Idles /\ UNCHANGED <<editor, control, removal>>

\* the server's side of a request, which the answer may not reach
Effect(p) ==
  /\ p \in posts /\ ~p.done /\ posts' = (posts \ {p}) \cup {[p EXCEPT !.done = TRUE]}
  /\ agentRow' = CASE p.op = "save" -> [agentRow EXCEPT !.prompt = p.prompt]
                   [] p.op \in {"kill", "quarantine"} -> [agentRow EXCEPT !.status = "QUARANTINED"]
                   [] p.op = "release" /\ agentRow.status = "QUARANTINED" -> [agentRow EXCEPT !.status = "ACTIVE"]
                   [] p.op = "delete" -> [agentRow EXCEPT !.status = "ARCHIVED"]
                   [] OTHER -> agentRow
  /\ UNCHANGED <<agentShown, skeleton, liveState, editor, control, removal>>

\* a change has been answered: the page loads the agent again
Succeeds(p) ==
  /\ p \in posts /\ p.done /\ p.op \notin {"dry-run", "steer", "delete"}
  /\ posts' = Orphans(posts \ {p}) /\ Reload
  /\ UNCHANGED <<agentRow, agentShown, liveState, removal>>

\* the answer to a dry run, or to an instruction, is shown where it was asked
Reported(p) ==
  /\ p \in posts /\ p.done /\ p.op \in {"dry-run", "steer"} /\ Answers(p)
  /\ UNCHANGED <<agentRow, agentShown, skeleton, liveState, editor, control, removal>>

\* the agent is gone: the browser leaves the page, which starts again on another
Leaves(p) ==
  /\ p \in posts /\ p.done /\ p.op = "delete"
  /\ posts' = {} /\ removal' = FALSE /\ agentRow' = [agentRow EXCEPT !.status = "ACTIVE"]
  /\ Reload /\ liveState' = "none" /\ UNCHANGED agentShown

\* a request fails, before or after the server did it
AnswerFails(p) ==
  /\ p \in posts /\ Answers(p)
  /\ editor' = IF p.op = "save" /\ p.mine THEN [editor EXCEPT !.at = "edit"] ELSE editor
  /\ Idles /\ UNCHANGED <<control, removal>>

\* another operator changes the agent
OthersEdit(a) ==
  /\ agentRow' = a
  /\ UNCHANGED <<agentShown, skeleton, liveState, editor, control, removal, posts>>

PageNext ==
  \/ \E ok \in BOOLEAN : Loaded(ok)
  \/ \E s \in Lives : Streamed(s)
  \/ RefreshOnActivity \/ handleEdit \/ handleCancel \/ handleSave
  \/ \E p \in Prompts : TypeSetting(p)
  \/ \E d \in {"kill", "quarantine", "dry-run", "release"} : AskControl(d)
  \/ CloseControl \/ ConfirmControl
  \/ handlePause \/ handleResume \/ AskDelete \/ CancelDelete \/ ConfirmDelete \/ Steer
  \/ \E p \in posts : Effect(p) \/ Succeeds(p) \/ Reported(p) \/ Leaves(p) \/ AnswerFails(p)
  \/ \E s \in {"ACTIVE", "QUARANTINED"}, p \in Prompts : OthersEdit([status |-> s, prompt |-> p])

\* An operator who changes nothing saves nothing but what the page shows: until it is
\* touched the form holds the agent as shown, whatever was loaded, typed or cancelled before.
UntouchedIsShown == editor.at # "view" /\ ~editor.touched => editor.prompt = agentShown.prompt

\* A dialog of the control panel stands over an agent it fits: no kill is confirmed over an
\* agent shown as quarantined, no release over one that is not, however the agent changes.
DialogFitsStatus == ~skeleton /\ control # "none" => control \in ControlsFor(agentShown.status)

-----------------------------------------------------------------------------

(*****************************************************************************)
(* The forms of the agents' pages: the modal that deploys an agent and binds *)
(* its credential, the one that makes a pairing code, and the one that binds *)
(* a channel. The first stands until its request is answered; the others may *)
(* be closed, opened again, and then meet an answer that was meant for what  *)
(* they were before.                                                         *)
(*****************************************************************************)

VARIABLES
  deployOpen, deployAt,   \* the deploy modal, and its request: "none", "creating" or "binding"
  agents,       \* the agents with the name on the form (the slug is unique): 0 or 1
  wished,       \* the credential is to be bound to the agent
  credBound, toast,       \* it is; what the operator was told last
  statusFilter, inventory, matching,   \* the list: its filter, the agents it loaded, those it shows
  pairOpen, pairCode, generating,      \* the pairing modal, the code it shows, its request
  bindOpen, chatId, binding, boundChats  \* the channel form, its text, its request, what is bound

listVars == <<statusFilter, inventory, matching>>
pairVars == <<pairOpen, pairCode, generating>>
bindVars == <<bindOpen, chatId, binding, boundChats>>
deployVars == <<deployOpen, deployAt, agents, wished, credBound, toast>>
agentFormVars == <<deployOpen, deployAt, agents, wished, credBound, toast, statusFilter, inventory,
                   matching, pairOpen, pairCode, generating, bindOpen, chatId, binding, boundChats>>

AgentFormsInit ==
  /\ deployOpen = FALSE /\ deployAt = "none" /\ agents = 0 /\ wished = FALSE /\ credBound = FALSE
  /\ toast = "none" /\ statusFilter = "ALL" /\ inventory = 0 /\ matching = 0
  /\ pairOpen = FALSE /\ pairCode = FALSE /\ generating = FALSE
  /\ bindOpen = FALSE /\ chatId = "" /\ binding = "" /\ boundChats = {}

-----------------------------------------------------------------------------
(* The deploy form of the list, and the list                                 *)

OpenDeploy ==
  /\ ~deployOpen /\ deployOpen' = TRUE /\ UNCHANGED <<deployAt, agents, wished, credBound, toast>>

\* Mutant: the modal closes although its request is under way
CloseAnyway ==
  /\ deployOpen /\ deployOpen' = FALSE /\ UNCHANGED <<deployAt, agents, wished, credBound, toast>>

handleClose ==
  /\ deployOpen /\ deployAt = "none" /\ deployOpen' = FALSE
  /\ UNCHANGED <<deployAt, agents, wished, credBound, toast>>

handleSubmit(bind) ==
  /\ deployOpen /\ deployAt = "none" /\ deployAt' = "creating" /\ wished' = bind
  /\ UNCHANGED <<deployOpen, agents, credBound, toast>>

\* the insert; a name that is taken is refused by the slug's index
InsertAgent ==
  /\ deployAt = "creating" /\ agents = 0 /\ agents' = 1
  /\ UNCHANGED <<deployOpen, deployAt, wished, credBound, toast>>

\* the agent was made, and no credential was chosen
Deployed ==
  /\ deployAt = "creating" /\ agents = 1 /\ ~wished
  /\ deployAt' = "none" /\ deployOpen' = FALSE /\ toast' = "deployed"
  /\ UNCHANGED <<agents, wished, credBound>>

GoesBinding ==
  /\ deployAt = "creating" /\ agents = 1 /\ wished /\ deployAt' = "binding"
  /\ UNCHANGED <<deployOpen, agents, wished, credBound, toast>>

\* no answer or a refusal, though the agent may exist: a retry meets the name it took
CreateFails ==
  /\ deployAt = "creating" /\ deployAt' = "none" /\ toast' = "refused"
  /\ UNCHANGED <<deployOpen, agents, wished, credBound>>

\* Mutant: whatever became of the binding, the agent is told as deployed
BindQuietly(done, ok) ==
  /\ deployAt = "binding" /\ (ok => done)
  /\ deployAt' = "none" /\ deployOpen' = FALSE /\ credBound' = done /\ toast' = "deployed"
  /\ UNCHANGED <<agents, wished>>

\* a binding that failed, or whose answer was lost, still counts, with a warning
BindAgent(done, ok) ==
  /\ deployAt = "binding" /\ (ok => done)
  /\ deployAt' = "none" /\ deployOpen' = FALSE /\ credBound' = done
  /\ toast' = IF ok THEN "deployed" ELSE "unbound"
  /\ UNCHANGED <<agents, wished>>

\* the operator turns to another agent
NextName ==
  /\ ~deployOpen /\ agents' = 0 /\ credBound' = FALSE /\ wished' = FALSE /\ toast' = "none"
  /\ UNCHANGED <<deployOpen, deployAt>>

\* the list is loaded when the page opens, on its button and after a deployment
ListAgents ==
  /\ inventory' = agents /\ matching' = IF statusFilter \in {"ALL", "ACTIVE"} THEN agents ELSE 0
  /\ UNCHANGED statusFilter

\* what the filter leaves of what was loaded
FilterAgents(s) ==
  /\ statusFilter' = s /\ matching' = IF s \in {"ALL", "ACTIVE"} THEN inventory ELSE 0
  /\ UNCHANGED inventory

-----------------------------------------------------------------------------
(* The pairing modal and the channel form                                    *)

OpenPairing == ~pairOpen /\ pairOpen' = TRUE /\ UNCHANGED <<pairCode, generating>>

\* closing forgets the code, but not the request
ClosePairing ==
  /\ pairOpen /\ pairOpen' = FALSE /\ pairCode' = FALSE /\ UNCHANGED generating

handleGenerate ==
  /\ pairOpen /\ ~pairCode /\ ~generating /\ generating' = TRUE /\ UNCHANGED <<pairOpen, pairCode>>

Generated(ok) ==
  /\ generating /\ generating' = FALSE /\ pairCode' = (pairCode \/ ok) /\ UNCHANGED pairOpen

OpenBind == ~bindOpen /\ bindOpen' = TRUE /\ UNCHANGED <<chatId, binding, boundChats>>

TypeChat(c) == bindOpen /\ chatId' = c /\ UNCHANGED <<bindOpen, binding, boundChats>>

CancelBind == bindOpen /\ bindOpen' = FALSE /\ chatId' = "" /\ UNCHANGED <<binding, boundChats>>

handleBindChat ==
  /\ bindOpen /\ chatId # "" /\ binding = "" /\ binding' = chatId
  /\ UNCHANGED <<bindOpen, chatId, boundChats>>

\* the form is emptied and closed, even if it was opened again for another chat
BoundChat ==
  /\ binding # "" /\ boundChats' = boundChats \cup {binding} /\ binding' = ""
  /\ bindOpen' = FALSE /\ chatId' = ""

BindChatFails == binding # "" /\ binding' = "" /\ UNCHANGED <<bindOpen, chatId, boundChats>>

handleUnbindChat(c) ==
  /\ c \in boundChats /\ boundChats' = boundChats \ {c} /\ UNCHANGED <<bindOpen, chatId, binding>>

AgentFormsNext ==
  \/ /\ UNCHANGED listVars /\ UNCHANGED pairVars /\ UNCHANGED bindVars
     /\ \/ OpenDeploy \/ handleClose \/ InsertAgent \/ Deployed \/ GoesBinding \/ CreateFails
        \/ NextName
        \/ \E b \in BOOLEAN : handleSubmit(b)
        \/ \E done, ok \in BOOLEAN : BindAgent(done, ok)
  \/ /\ UNCHANGED deployVars /\ UNCHANGED pairVars /\ UNCHANGED bindVars
     /\ (ListAgents \/ \E s \in {"ALL", "ACTIVE", "ARCHIVED"} : FilterAgents(s))
  \/ /\ UNCHANGED deployVars /\ UNCHANGED listVars /\ UNCHANGED bindVars
     /\ (OpenPairing \/ ClosePairing \/ handleGenerate \/ \E ok \in BOOLEAN : Generated(ok))
  \/ /\ UNCHANGED deployVars /\ UNCHANGED listVars /\ UNCHANGED pairVars
     /\ \/ OpenBind \/ CancelBind \/ handleBindChat \/ BoundChat \/ BindChatFails
        \/ \E c \in {"a", "b"} : TypeChat(c) \/ handleUnbindChat(c)

\* An operator sees what became of a deployment: the modal is not closed while the server
\* may still make the agent it asked for.
ModalStands == deployAt # "none" => deployOpen

\* An agent told as deployed without a warning has the credential its form named, although
\* the two are made by two requests and the second may fail or lose its answer.
BoundOrTold == deployAt = "none" /\ toast = "deployed" /\ wished => credBound

-----------------------------------------------------------------------------

(*****************************************************************************)
(* The users of an agent: the page's table of grants, page by page, with its *)
(* row buttons, the modal that invites, the queue of access requests, and    *)
(* the routes that serve them.  The table may be a listing of another page   *)
(* than the one asked for: useApiQuery() hands out the answer of its last    *)
(* two seconds.                                                              *)
(*****************************************************************************)

CONSTANTS
  Users, NoUser,  \* who may have a grant, and nobody
  PageSize        \* grants on a page

ASSUME TableAssumption == PageSize \in Nat \ {0} /\ NoUser \notin Users

VARIABLES
  grant,        \* of each user: "none", "active" or "revoked"
  asking,       \* who has a pending request for access
  userPage, table,        \* the page of the table, from 0, and what was loaded: [rows, total]
  fetching, loadingUsers, \* the pages whose listing is under way; the table waits
  confirming,   \* the row that asks "Confirm?", NoUser for none
  revoking, marked,       \* the revocations under way, and the one the page remembers
  inviteOpen, inviting,   \* the invite modal, and its request
  resolving, answering    \* the decisions under way, and the one the queue remembers

tableVars == <<userPage, table, fetching, loadingUsers>>
buttonVars == <<confirming, revoking, marked>>
inviteVars == <<inviteOpen, inviting>>
queueVars == <<asking, resolving, answering>>
usersVars == <<grant, asking, userPage, table, fetching, loadingUsers, confirming, revoking,
               marked, inviteOpen, inviting, resolving, answering>>

Granted == {u \in Users : grant[u] = "active"}

UsersInit ==
  /\ grant \in [Users -> {"none", "active"}] /\ asking = Users \ Granted
  /\ userPage = 0 /\ table = [rows |-> {}, total |-> 0] /\ fetching = {0} /\ loadingUsers = TRUE
  /\ confirming = NoUser /\ revoking = {} /\ marked = NoUser
  /\ inviteOpen = FALSE /\ inviting = FALSE /\ resolving = {} /\ answering = NoUser

-----------------------------------------------------------------------------
(* The table of users                                                        *)

\* execute() asks for the page, or is given the answer of the last two seconds: the rows shown
RefetchUsers(p) ==
  \/ fetching' = fetching \cup {p} /\ loadingUsers' = TRUE
  \/ UNCHANGED <<fetching, loadingUsers>>

\* the slice of the active grants and their number
ListUsers(p) ==
  LET left == Cardinality(Granted) - p * PageSize
      n == IF left < 0 THEN 0 ELSE IF left > PageSize THEN PageSize ELSE left
  IN  \E rows \in kSubset(n, Granted) : table' = [rows |-> rows, total |-> Cardinality(Granted)]

UsersArrive(p) ==
  /\ p \in fetching /\ fetching' = fetching \ {p} /\ loadingUsers' = FALSE /\ ListUsers(p)
  /\ UNCHANGED <<userPage, grant>> /\ UNCHANGED buttonVars

UsersFail(p) ==
  /\ p \in fetching /\ fetching' = fetching \ {p} /\ loadingUsers' = FALSE
  /\ UNCHANGED <<userPage, table, grant>> /\ UNCHANGED buttonVars

\* the rows that are on the page; the pager stands under them
Shown == IF loadingUsers THEN {} ELSE table.rows

TotalPages == IF table.total = 0 THEN 1 ELSE (table.total + PageSize - 1) \div PageSize

TurnPage(p) ==
  /\ Shown # {} /\ TotalPages > 1
  /\ p \in {userPage - 1, userPage + 1} /\ p \in 0 .. TotalPages - 1
  /\ userPage' = p /\ RefetchUsers(p) /\ UNCHANGED <<table, grant>> /\ UNCHANGED buttonVars

AskRevoke(u) ==
  /\ u \in Shown /\ confirming' = u
  /\ UNCHANGED <<revoking, marked, grant>> /\ UNCHANGED tableVars

CancelRevoke ==
  /\ confirming \in Shown /\ confirming' = NoUser
  /\ UNCHANGED <<revoking, marked, grant>> /\ UNCHANGED tableVars

handleRevoke(u) ==
  /\ u \in Shown /\ confirming = u /\ marked # u /\ marked' = u /\ revoking' = revoking \cup {u}
  /\ UNCHANGED <<confirming, grant>> /\ UNCHANGED tableVars

\* the grant ends, the open confirmation with it, whosever it is, and the page is read again
Revoked(u) ==
  /\ u \in revoking /\ revoking' = revoking \ {u} /\ marked' = NoUser /\ confirming' = NoUser
  /\ grant' = [grant EXCEPT ![u] = "revoked"]
  /\ RefetchUsers(userPage) /\ UNCHANGED <<userPage, table>>

RevokeFails(u) ==
  /\ u \in revoking /\ revoking' = revoking \ {u} /\ marked' = NoUser
  /\ UNCHANGED <<confirming, grant>> /\ UNCHANGED tableVars

-----------------------------------------------------------------------------
(* The invite modal and the queue of access requests                         *)

\* Mutant: the modal closes although its invitation is under way
CloseInviteAnyway ==
  /\ inviteOpen /\ inviteOpen' = FALSE
  /\ UNCHANGED <<inviting, grant>> /\ UNCHANGED tableVars

CloseInvite ==
  /\ inviteOpen /\ ~inviting /\ inviteOpen' = FALSE
  /\ UNCHANGED <<inviting, grant>> /\ UNCHANGED tableVars

OpenInvite ==
  /\ ~inviteOpen /\ inviteOpen' = TRUE /\ UNCHANGED <<inviting, grant>> /\ UNCHANGED tableVars

SendInvite ==
  /\ inviteOpen /\ ~inviting /\ inviting' = TRUE
  /\ UNCHANGED <<inviteOpen, grant>> /\ UNCHANGED tableVars

\* a row that exists, revoked or not, bars another for that user
Invited(u) ==
  /\ inviting /\ grant[u] = "none" /\ grant' = [grant EXCEPT ![u] = "active"]
  /\ inviting' = FALSE /\ inviteOpen' = FALSE
  /\ RefetchUsers(userPage) /\ UNCHANGED <<userPage, table>>

InviteFails ==
  /\ inviting /\ inviting' = FALSE /\ UNCHANGED <<inviteOpen, grant>> /\ UNCHANGED tableVars

\* the buttons of the request last answered are dead
handleResolve(u) ==
  /\ u \in asking /\ answering # u /\ answering' = u /\ resolving' = resolving \cup {u}
  /\ UNCHANGED <<asking, grant>> /\ UNCHANGED tableVars

\* Mutant: an approval gives a withdrawn grant back
PatchAgain(u, approve) ==
  /\ u \in resolving \cap asking /\ resolving' = resolving \ {u} /\ answering' = NoUser
  /\ asking' = asking \ {u}
  /\ grant' = IF approve THEN [grant EXCEPT ![u] = "active"] ELSE grant
  /\ RefetchUsers(userPage) /\ UNCHANGED <<userPage, table>>

\* a request that was answered meanwhile, or a user who had a grant, is a conflict
PatchRequest(u, approve) ==
  /\ u \in resolving \cap asking /\ resolving' = resolving \ {u} /\ answering' = NoUser
  /\ ~approve \/ grant[u] = "none"
  /\ asking' = asking \ {u}
  /\ grant' = IF approve THEN [grant EXCEPT ![u] = "active"] ELSE grant
  /\ RefetchUsers(userPage) /\ UNCHANGED <<userPage, table>>

ResolveFails(u) ==
  /\ u \in resolving /\ resolving' = resolving \ {u} /\ answering' = NoUser
  /\ UNCHANGED <<asking, grant>> /\ UNCHANGED tableVars

UsersNext ==
  \/ /\ UNCHANGED inviteVars /\ UNCHANGED queueVars
     /\ \/ \E p \in fetching : UsersArrive(p) \/ UsersFail(p)
        \/ \E p \in 0 .. Cardinality(Users) : TurnPage(p)
        \/ \E u \in Users : AskRevoke(u) \/ handleRevoke(u) \/ Revoked(u) \/ RevokeFails(u)
        \/ CancelRevoke
  \/ /\ UNCHANGED buttonVars /\ UNCHANGED queueVars
     /\ (OpenInvite \/ CloseInvite \/ SendInvite \/ InviteFails \/ \E u \in Users : Invited(u))
  \/ /\ UNCHANGED buttonVars /\ UNCHANGED inviteVars
     /\ \E u \in Users : \/ handleResolve(u) \/ ResolveFails(u)
                         \/ \E a \in BOOLEAN : PatchRequest(u, a)

\* The invite modal is not closed while the server may still make the grant it asked for.
InviteStands == inviting => inviteOpen

\* Access that an operator withdrew is not given back by a request or an invitation that
\* was on another operator's screen, or under way, when it was withdrawn.
WithdrawnStays == [][\A u \in Users : grant[u] = "revoked" => grant'[u] = "revoked"]_usersVars
=============================================================================
