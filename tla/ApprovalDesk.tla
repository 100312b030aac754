---------------------------- MODULE ApprovalDesk -----------------------------
(*****************************************************************************)
(* The approvals page and the service behind it: decisions by the page, by   *)
(* others and by the expiry sweep, and the audit trail that is written after *)
(* each of them, on its own and at best effort.                              *)
(*****************************************************************************)
EXTENDS Naturals

CONSTANTS
  Cards,     \* approval requests on the page
  Requests,  \* those of them that are decided
  NoRequest,
  Deciders   \* "page", and others who decide by id or by token

ASSUME DeskAssumption == NoRequest \notin Cards /\ Requests \subseteq Cards /\ "page" \in Deciders

VARIABLES
  approval,  \* per request its status
  overdue,   \* requests whose expires_at has passed
  trail,     \* per request the kinds of its audit entries
  sweep,     \* requests that the expiry sweep has read and not handled yet
  decision,  \* per decider and request the decision under way and how far it is
  desk,      \* the page's copy of the statuses
  picked,    \* selectedId
  drawer,    \* whose audit entries the drawer shows
  auditing,  \* requests whose trail is being read for the drawer, not cancelled
  dialog,    \* the decision asked to be confirmed
  bulk,      \* bulkSelectedIds
  told       \* per request the decision that the page reported as taken

deskVars == <<approval, overdue, trail, sweep, decision, desk, picked, drawer, auditing,
              dialog, bulk, told>>

stored == <<approval, overdue, trail, sweep>>
drawn == <<picked, drawer, auditing>>
asked == <<dialog, bulk>>

Decisions == {"APPROVED", "REJECTED"}
NoDecision == <<"none", "none">>

DeskInit ==
  /\ approval = [r \in Requests |-> "PENDING"]
  /\ overdue = {} /\ sweep = {} /\ trail = [r \in Requests |-> {"created"}]
  /\ decision = [d \in Deciders |-> [r \in Requests |-> NoDecision]]
  /\ desk = approval /\ picked = NoRequest /\ drawer = NoRequest /\ auditing = {}
  /\ dialog = NoRequest /\ bulk = {} /\ told = [r \in Requests |-> "none"]

--------------------------------------------------------------------------------
\* What the page shows.

\* A card offers its buttons, its box and the mobile bar while it is pending.
Offered(r) == desk[r] = "PENDING"

\* The bar of bulk decisions is there while some requests are selected.
BulkBar == bulk # {}

\* The drawer shows entries unless it is loading.
AuditDrawer == IF auditing = {} THEN drawer ELSE NoRequest

\* GET /approvals
ListApprovals == approval

\* What comes through the approvals' stream: nothing in the control plane writes to it.
StreamEvents == {}

\* Events of the stream go over the list.
Merge(list, events) ==
  [r \in Requests |-> IF \E e \in events : e[1] = r THEN (CHOOSE e \in events : e[1] = r)[2] ELSE list[r]]

\* The page's copy follows when it asks again.
ListArrives ==
  /\ desk # approval /\ desk' = Merge(ListApprovals, StreamEvents) /\ UNCHANGED <<stored, decision, drawn, asked, told>>

\* Mutant: a trail that was asked for earlier is not cancelled.
PickKeeping(r) ==
  /\ picked' = r /\ picked # r /\ auditing' = auditing \cup {r}
  /\ UNCHANGED <<stored, decision, desk, asked, told, drawer>>

\* A selection cancels the read before it.
Pick(r) ==
  /\ picked' = r /\ picked # r /\ auditing' = {r} /\ UNCHANGED <<stored, decision, desk, asked, told, drawer>>

Unpick ==
  /\ picked # NoRequest /\ picked' = NoRequest /\ drawer' = NoRequest /\ auditing' = {}
  /\ UNCHANGED <<stored, decision, desk, asked, told>>

\* The trail, or nothing if it could not be read.
AuditArrives(r) ==
  /\ r \in auditing /\ auditing' = auditing \ {r} /\ drawer' \in {r, NoRequest}
  /\ UNCHANGED <<stored, decision, desk, picked, asked, told>>

OpenDialog(r) ==
  /\ Offered(r) /\ dialog = NoRequest /\ dialog' = r
  /\ UNCHANGED <<stored, decision, desk, drawn, bulk, told>>

CancelDialog ==
  /\ dialog # NoRequest /\ dialog' = NoRequest /\ UNCHANGED <<stored, decision, desk, drawn, bulk, told>>

handleBulkToggle(r) ==
  /\ Offered(r) /\ bulk' = IF r \in bulk THEN bulk \ {r} ELSE bulk \cup {r}
  /\ UNCHANGED <<stored, decision, desk, drawn, dialog, told>>

--------------------------------------------------------------------------------
\* Decisions.

Goto(d, r, at) == decision' = [decision EXCEPT ![d][r][2] = at]

\* A confirmed dialog.
handleConfirmDecision(r, how) ==
  /\ dialog = r /\ decision["page"][r] = NoDecision
  /\ decision' = [decision EXCEPT !["page"][r] = <<how, "read">>]
  /\ UNCHANGED <<stored, desk, drawn, asked, told>>

\* Another decider, by the token that was sent to a chat.
DecideByToken(d, r, how) ==
  /\ d # "page" /\ decision[d][r] = NoDecision
  /\ decision' = [decision EXCEPT ![d][r] = <<how, "read">>]
  /\ UNCHANGED <<stored, desk, drawn, asked, told>>

\* "Approve All": all that are selected, also those decided meanwhile.
handleBulkDecision(how) ==
  /\ BulkBar /\ \A r \in Requests : decision["page"][r] = NoDecision
  /\ decision' = [decision EXCEPT !["page"] =
       [r \in Requests |-> IF r \in bulk THEN <<how, "read">> ELSE @[r]]]
  /\ bulk' = {} /\ UNCHANGED <<stored, desk, drawn, dialog, told>>

\* The request is read first; what has ended, or is overdue, is refused.
ReadRequest(d, r) ==
  /\ decision[d][r][2] = "read"
  /\ IF approval[r] = "PENDING" /\ r \notin overdue THEN Goto(d, r, "write") ELSE Goto(d, r, "refused")
  /\ UNCHANGED <<stored, desk, drawn, asked, told>>

\* Mutant: the row is written whatever its status is by now.
WriteAnyDecision(d, r) ==
  /\ decision[d][r][2] = "write" /\ approval' = [approval EXCEPT ![r] = decision[d][r][1]]
  /\ Goto(d, r, "audit") /\ UNCHANGED <<overdue, trail, sweep, desk, drawn, asked, told>>

\* The row is written while it is PENDING, in one transaction with the job's; else it throws.
WriteDecision(d, r) ==
  /\ decision[d][r][2] = "write"
  /\ IF approval[r] = "PENDING"
     THEN approval' = [approval EXCEPT ![r] = decision[d][r][1]] /\ Goto(d, r, "audit")
     ELSE Goto(d, r, "refused") /\ UNCHANGED approval
  /\ UNCHANGED <<overdue, trail, sweep, desk, drawn, asked, told>>

\* The entry is added to the trail unless that fails; the caller is not told.
WriteAudit(d, r) ==
  /\ decision[d][r][2] = "audit" /\ Goto(d, r, "done")
  /\ trail' \in {trail, [trail EXCEPT ![r] = @ \cup {decision[d][r][1]}]}
  /\ UNCHANGED <<approval, overdue, sweep, desk, drawn, asked, told>>

\* Mutant: a refusal is taken for a decision.
AnswerBlind(d, r) ==
  /\ decision[d][r][2] \in {"done", "refused"} /\ decision' = [decision EXCEPT ![d][r] = NoDecision]
  /\ told' = IF d = "page" THEN [told EXCEPT ![r] = decision[d][r][1]] ELSE told
  /\ dialog' = IF d = "page" /\ dialog = r THEN NoRequest ELSE dialog
  /\ UNCHANGED <<stored, desk, drawn, bulk>>

\* The answer: success closes the dialog, a refusal or a lost answer leaves it open.
Answer(d, r) ==
  /\ decision[d][r][2] \in {"done", "refused"} /\ decision' = [decision EXCEPT ![d][r] = NoDecision]
  /\ \/ /\ d = "page" /\ decision[d][r][2] = "done"
        /\ told' = [told EXCEPT ![r] = decision[d][r][1]]
        /\ dialog' = NoRequest
     \/ UNCHANGED <<told, dialog>>
  /\ UNCHANGED <<stored, desk, drawn, bulk>>

--------------------------------------------------------------------------------
\* Expiry.

Overdue(r) ==
  /\ r \notin overdue /\ overdue' = overdue \cup {r}
  /\ UNCHANGED <<approval, trail, sweep, decision, desk, drawn, asked, told>>

ReadStale ==
  /\ sweep = {} /\ sweep' = {r \in overdue : approval[r] = "PENDING"} /\ sweep' # {}
  /\ UNCHANGED <<approval, overdue, trail, decision, desk, drawn, asked, told>>

\* One by one; the trail says "expired" even if a decision came first.
ExpireOne(r) ==
  /\ r \in sweep /\ sweep' = sweep \ {r}
  /\ approval' = [approval EXCEPT ![r] = IF @ = "PENDING" THEN "EXPIRED" ELSE @]
  /\ trail' = [trail EXCEPT ![r] = @ \cup {"expired"}]
  /\ UNCHANGED <<overdue, decision, desk, drawn, asked, told>>

DeskNext ==
  \/ ListArrives \/ Unpick \/ CancelDialog \/ ReadStale
  \/ \E r \in Cards : Pick(r) \/ AuditArrives(r)
  \/ \E r \in Requests : OpenDialog(r) \/ handleBulkToggle(r) \/ Overdue(r) \/ ExpireOne(r)
  \/ \E how \in Decisions : \/ handleBulkDecision(how)
                           \/ \E r \in Requests : handleConfirmDecision(r, how) \/ \E d \in Deciders : DecideByToken(d, r, how)
  \/ \E d \in Deciders, r \in Requests :
       ReadRequest(d, r) \/ WriteDecision(d, r) \/ WriteAudit(d, r) \/ Answer(d, r)

--------------------------------------------------------------------------------
\* A decision in the trail is the one that stands, and no other is beside it; that a request
\* is said to have expired may be wrong.
TrailIsTrue == \A r \in Requests : trail[r] \cap Decisions \subseteq {approval[r]}

\* What the page reported as decided is decided so, whoever else decided at the same time.
ToldIsDecided == \A r \in Requests : told[r] \in {"none", approval[r]}

\* The trail in the drawer is that of the selected request once it is loaded.
DrawerIsOfPicked == AuditDrawer \in {picked, NoRequest}
================================================================================
