----------------------------- MODULE McpDeploys -----------------------------
(*****************************************************************************)
(* The page of one MCP server, and the objects that the cluster holds for    *)
(* deployed servers. The parts share no state.                               *)
(*****************************************************************************)
EXTENDS Integers

(*****************************************************************************)
(* The page of an MCP server: its edit form, its dialog of deletion, Refresh *)
(* Tools, and the routes they call.  The form takes over what every load of  *)
(* the server brings, and is kept, with what was typed, while it is closed.  *)
(* Other operators write the same row.                                       *)
(*****************************************************************************)
CONSTANT Contents   \* what the fields of a server may hold

ASSUME ContentsAssumption == Contents \cap {"none", "gone"} = {}

VARIABLES
  mcpRow,       \* the fields of the server's row; "gone" after its deletion
  mcpShown,     \* the server as it was loaded; "none" before
  mcpLoading, mcpError,   \* the page waits for a load; the last load failed
  mcpLoads,     \* loads under way: none, one or more
  mcpForm,      \* the edit form [open, fields, typed, saving, told]: typed once touched; the
                \* fields that are being saved, or "none"; told of an error
  refreshing,   \* Refresh Tools: "no", "posting" or "loading"
  deletion,     \* "no", "asking" or "deleting"
  toldDeletion, \* history: a toast told that a deletion failed
  leftPage      \* the page is left for the list

loadVars == <<mcpShown, mcpLoading, mcpError, mcpLoads>>
deletionVars == <<deletion, toldDeletion, leftPage>>
mcpPageVars == <<mcpRow, mcpShown, mcpLoading, mcpError, mcpLoads, mcpForm, refreshing,
                 deletion, toldDeletion, leftPage>>

NoFields == "none"
GoneRow == "gone"

initialState(fields) ==
  [open |-> FALSE, fields |-> fields, typed |-> FALSE, saving |-> NoFields, told |-> FALSE]

McpPageInit ==
  /\ mcpRow \in Contents /\ mcpShown = NoFields /\ mcpLoading = TRUE /\ mcpError = FALSE
  /\ mcpLoads = TRUE /\ mcpForm = initialState(NoFields)
  /\ refreshing = "no" /\ deletion = "no" /\ toldDeletion = FALSE
  /\ leftPage = FALSE

\* the page of the server, rather than its skeleton or its error
ServerOnPage == ~leftPage /\ ~mcpError /\ mcpShown # NoFields

-----------------------------------------------------------------------------
(* Loading                                                                   *)

\* execute(): a request, or the answer of the last two seconds, by which nothing changes
LoadServer == mcpLoads' = TRUE /\ mcpLoading' = TRUE /\ mcpError' = FALSE

\* Mutant: the form keeps the fields it was opened with
TakeOverNot(fields) ==
  mcpForm' = IF mcpShown = NoFields THEN [mcpForm EXCEPT !.fields = fields] ELSE mcpForm

\* whatever was typed, the form of the page is reset to the server that arrived
TakeOver(fields) ==
  mcpForm' = [mcpForm EXCEPT !.fields = fields, !.typed = FALSE, !.told = FALSE]

\* GET /mcp-servers/:id
ServerArrives ==
  /\ mcpLoads /\ mcpRow # GoneRow /\ mcpLoads' \in BOOLEAN
  /\ mcpShown' = mcpRow /\ mcpLoading' = FALSE /\ mcpError' = FALSE /\ TakeOver(mcpRow)
  /\ refreshing' = IF refreshing = "loading" THEN "no" ELSE refreshing
  /\ UNCHANGED <<mcpRow, deletionVars>>

\* the form goes with the page: a new one starts from the server that is loaded still (bound:
\* it is not saved before the save of the one before has ended)
ServerFails ==
  /\ mcpLoads /\ mcpLoads' \in BOOLEAN /\ mcpLoading' = FALSE /\ mcpError' = TRUE
  /\ mcpForm' = [initialState(mcpShown) EXCEPT !.open = mcpForm.open, !.saving = mcpForm.saving]
  /\ refreshing' = IF refreshing = "loading" THEN "no" ELSE refreshing
  /\ UNCHANGED <<mcpRow, mcpShown, deletionVars>>

\* the banner's Retry
RetryLoad ==
  /\ mcpError /\ ~leftPage /\ LoadServer
  /\ UNCHANGED <<mcpRow, mcpShown, mcpForm, refreshing, deletionVars>>

-----------------------------------------------------------------------------
(* The edit form: it may be closed at any time, its request goes on          *)

\* of the page's buttons, none works under the form or the dialog
Buttons == ServerOnPage /\ ~mcpForm.open /\ deletion = "no"

EditForm(f) == mcpForm' = f /\ UNCHANGED <<mcpRow, loadVars, refreshing, deletionVars>>

OpenEdit == Buttons /\ EditForm([mcpForm EXCEPT !.open = TRUE])

CloseEdit == ServerOnPage /\ mcpForm.open /\ EditForm([mcpForm EXCEPT !.open = FALSE])

updateField(fields) ==
  /\ ServerOnPage /\ mcpForm.open
  /\ EditForm([mcpForm EXCEPT !.fields = fields, !.typed = TRUE])

\* the whole form is posted; what it lacks is told of first
SaveEdit ==
  /\ ServerOnPage /\ mcpForm.open /\ mcpForm.saving = NoFields
  /\ \/ EditForm([mcpForm EXCEPT !.saving = mcpForm.fields, !.told = FALSE])
     \/ mcpForm.typed /\ EditForm([mcpForm EXCEPT !.told = TRUE])

\* PUT /mcp-servers/:id; the answer closes the form, also one that was opened meanwhile
EditSaved ==
  /\ mcpForm.saving # NoFields /\ mcpRow # GoneRow /\ mcpRow' = mcpForm.saving
  /\ mcpForm' = [mcpForm EXCEPT !.saving = NoFields, !.open = FALSE]
  /\ \/ LoadServer \/ UNCHANGED <<mcpLoads, mcpLoading, mcpError>>
  /\ UNCHANGED <<mcpShown, refreshing, deletionVars>>

EditFails ==
  /\ mcpForm.saving # NoFields
  /\ EditForm([mcpForm EXCEPT !.saving = NoFields, !.told = TRUE])

-----------------------------------------------------------------------------
(* Refresh Tools and the deletion                                            *)

handleRefreshTools ==
  /\ Buttons /\ refreshing = "no" /\ refreshing' = "posting"
  /\ UNCHANGED <<mcpRow, loadVars, mcpForm, deletionVars>>

RefreshPosted ==
  /\ refreshing = "posting" /\ mcpRow # GoneRow
  /\ refreshing' = "loading" /\ LoadServer /\ UNCHANGED <<mcpRow, mcpShown, mcpForm, deletionVars>>

RefreshFails ==
  /\ refreshing = "posting" /\ refreshing' = "no"
  /\ UNCHANGED <<mcpRow, loadVars, mcpForm, deletionVars>>

DeletionIs(d, row, away) ==
  /\ deletion' = d /\ mcpRow' = row /\ leftPage' = away
  /\ UNCHANGED <<loadVars, mcpForm, refreshing>>

Untold == UNCHANGED toldDeletion

AskDeletion == Buttons /\ DeletionIs("asking", mcpRow, leftPage) /\ Untold

\* Mutant: the dialog is closed although the deletion is under way
CancelDeletionAlways ==
  ServerOnPage /\ deletion # "no" /\ DeletionIs("no", mcpRow, leftPage) /\ Untold

CancelDeletion ==
  ServerOnPage /\ deletion = "asking" /\ DeletionIs("no", mcpRow, leftPage) /\ Untold

ConfirmDeletion ==
  ServerOnPage /\ deletion = "asking" /\ DeletionIs("deleting", mcpRow, leftPage) /\ Untold

\* the row goes, with its tools; then the page is left
DeletedRow ==
  deletion = "deleting" /\ mcpRow # GoneRow /\ DeletionIs("deleting", GoneRow, leftPage) /\ Untold

\* the dialog stays until the list is there
DeletionAnswered ==
  deletion = "deleting" /\ mcpRow = GoneRow /\ DeletionIs("deleting", mcpRow, TRUE) /\ Untold

DeletionFails ==
  deletion = "deleting" /\ ~leftPage /\ DeletionIs("no", mcpRow, leftPage) /\ toldDeletion' = TRUE

OthersWrite ==
  /\ mcpRow # GoneRow /\ mcpRow' \in Contents \ {mcpRow}
  /\ UNCHANGED <<loadVars, mcpForm, refreshing, deletionVars>>

McpPageNext ==
  \/ ServerArrives \/ ServerFails \/ RetryLoad \/ OpenEdit \/ CloseEdit \/ SaveEdit
  \/ EditSaved \/ EditFails \/ handleRefreshTools \/ RefreshPosted \/ RefreshFails
  \/ AskDeletion \/ CancelDeletion \/ ConfirmDeletion \/ DeletedRow \/ DeletionAnswered
  \/ DeletionFails \/ OthersWrite
  \/ \E c \in Contents : updateField(c)

\* A form nobody typed into shows the server as the page does, so that its Save writes back
\* nothing that the operator has not seen: a load that ends while the form is open, or closed
\* with text in it, puts the loaded server into it.
UntouchedFollows == ServerOnPage /\ ~mcpForm.typed => mcpForm.fields = mcpShown

\* A server disappears under its own page only while the page waits for the deletion that the
\* operator confirmed there, is left for the list, or told that a deletion failed (whose answer
\* was lost): never behind a dialog that was dismissed.
DeletionStands == mcpRow = GoneRow => deletion = "deleting" \/ toldDeletion

-----------------------------------------------------------------------------

(*****************************************************************************)
(* The in-cluster deployments of the MCP servers that were registered, one   *)
(* after the other, under one slug.  Their rows are told apart by id; the    *)
(* ServiceAccount, the Deployment and the Service bear the slug's name.      *)
(* POST deploys and waits in its request, DELETE removes the row and tears   *)
(* down, PUT may rewrite the connection and the status; calls of the cluster *)
(* may fail, and the control plane may restart.                              *)
(*****************************************************************************)

CONSTANTS
  InCluster, NoServer   \* the servers of the slug, numbered as they come, and none of them

ASSUME InClusterAssumption == InCluster \subseteq Nat /\ NoServer \notin InCluster

VARIABLES
  registered,   \* per server: "no", "present" or "deleted"
  mcpActive,    \* the servers whose status is ACTIVE, as these requests write it
  asserted,     \* history: those of them that an operator has put so
  hasImage,     \* per server: its row is there and its connection names an image
  cluster,      \* per kind of resource: the server it was last written for
  podsReady,    \* the Deployment has a ready replica
  deployment,   \* per server, what its POST does: [step, kind]
  deletions,    \* the servers whose DELETE has disabled them
  teardowns,    \* the deletions of resources under way: <<server, kind>>
  excused,      \* history: the servers whose teardown was partial, or could not be complete
  overlapped    \* history: the servers that shared the slug's names with another request

clusterVars == <<registered, mcpActive, asserted, hasImage, cluster, podsReady, deployment,
                 deletions, teardowns, excused, overlapped>>

Kinds == {"account", "deployment", "service"}
NextKind == [account |-> "deployment", deployment |-> "service", service |-> "none"]
Ended == [step |-> "ended", kind |-> "none"]

ClusterInit ==
  /\ registered = [s \in InCluster |-> "no"] /\ mcpActive = {} /\ asserted = {}
  /\ hasImage = [s \in InCluster |-> FALSE]
  /\ cluster = [k \in Kinds |-> NoServer] /\ podsReady = FALSE
  /\ deployment = [s \in InCluster |-> Ended]
  /\ deletions = {} /\ teardowns = {} /\ excused = {} /\ overlapped = {}

\* the servers whose request works on the slug's resources
AtWork ==
  {s \in InCluster : deployment[s] # Ended \/ \E k \in Kinds : <<s, k>> \in teardowns}

-----------------------------------------------------------------------------
(* POST /mcp-servers                                                         *)

\* the slug is UNIQUE; an image makes the server one of the cluster
Register(s) ==
  /\ registered[s] = "no" /\ \A o \in InCluster : registered[o] # "present"
  /\ \A o \in InCluster : o < s => registered[o] = "deleted"
  /\ registered' = [registered EXCEPT ![s] = "present"]
  /\ deployment' = [deployment EXCEPT ![s] = [step |-> "replace", kind |-> "account"]]
  /\ overlapped' = IF AtWork = {} THEN overlapped ELSE overlapped \cup {s}
  /\ hasImage' = [hasImage EXCEPT ![s] = TRUE]
  /\ UNCHANGED <<mcpActive, asserted, cluster, podsReady, deletions, teardowns, excused>>

Deploys(s, step, kind) ==
  /\ deployment' = [deployment EXCEPT ![s] = [step |-> step, kind |-> kind]]
  /\ UNCHANGED <<registered, mcpActive, asserted, hasImage, deletions, teardowns, excused>>
  /\ UNCHANGED overlapped

Written(s, k) ==
  /\ cluster' = [cluster EXCEPT ![k] = s]
  /\ IF NextKind[k] = "none" THEN Deploys(s, "wait", "none")
     ELSE Deploys(s, "replace", NextKind[k])

\* what is there is read and replaced; one that is not, or for which a call fails, is created
ReplaceResource(s) ==
  /\ deployment[s].step = "replace" /\ UNCHANGED podsReady
  /\ LET k == deployment[s].kind IN
     \/ cluster[k] # NoServer /\ Written(s, k)
     \/ Deploys(s, "create", k) /\ UNCHANGED cluster

\* Mutant: a resource that is there already is taken for the one to create
CreateOrTake(s) ==
  /\ deployment[s].step = "create" /\ UNCHANGED podsReady
  /\ LET k == deployment[s].kind IN
     /\ cluster' = [cluster EXCEPT ![k] = IF @ = NoServer THEN s ELSE @]
     /\ IF NextKind[k] = "none" THEN Deploys(s, "wait", "none")
        ELSE Deploys(s, "replace", NextKind[k])

CreateResource(s) ==
  /\ deployment[s].step = "create" /\ UNCHANGED podsReady
  /\ LET k == deployment[s].kind IN
     \/ cluster[k] = NoServer /\ Written(s, k)
     \/ Deploys(s, "failed", k) /\ UNCHANGED cluster

\* of any Deployment of the name: a replaced one's earlier pods are ready pods as well
waitForReady(s) ==
  /\ deployment[s].step = "wait" /\ UNCHANGED <<cluster, podsReady>>
  /\ \/ podsReady /\ Deploys(s, "ready", "none")
     \/ Deploys(s, "failed", "none")

\* the row is written by id: ACTIVE with the connection of the POST, its image with it, or ERROR
MarkDeployed(s) ==
  /\ deployment[s].step \in {"ready", "failed"}
  /\ deployment' = [deployment EXCEPT ![s] = Ended]
  /\ LET ok == deployment[s].step = "ready" IN
     IF registered[s] = "present"
     THEN /\ mcpActive' = IF ok THEN mcpActive \cup {s} ELSE mcpActive \ {s}
          /\ hasImage' = [hasImage EXCEPT ![s] = @ \/ ok] /\ asserted' = asserted \ {s}
     ELSE UNCHANGED <<mcpActive, hasImage, asserted>>
  /\ UNCHANGED <<registered, cluster, podsReady, deletions, teardowns, excused, overlapped>>

-----------------------------------------------------------------------------
(* PUT and DELETE /mcp-servers/:id                                           *)

\* the page's form writes a connection of an URL and headers; a caller of the API writes any
\* connection, and any status, whatever the deployment has come to
PutServer(s) ==
  /\ registered[s] = "present"
  /\ \E image \in BOOLEAN : hasImage' = [hasImage EXCEPT ![s] = image]
  /\ \/ UNCHANGED <<mcpActive, asserted>>
     \/ \E active \in SUBSET {s} :
          /\ mcpActive' = (mcpActive \ {s}) \cup active
          /\ asserted' = (asserted \ {s}) \cup active
  /\ UNCHANGED <<registered, cluster, podsReady, deployment, deletions, teardowns>>
  /\ UNCHANGED <<excused, overlapped>>

DisableServer(s) ==
  /\ registered[s] = "present" /\ s \notin deletions /\ deletions' = deletions \cup {s}
  /\ mcpActive' = mcpActive \ {s} /\ asserted' = asserted \ {s}
  /\ UNCHANGED <<registered, hasImage, cluster, podsReady, deployment, teardowns, excused>>
  /\ UNCHANGED overlapped

\* Mutant: the ServiceAccount is not torn down
SomeKinds == {"deployment", "service"}

AllKinds == Kinds

\* the row goes, and with it, if it names an image still, what bears the slug's name
DeleteServer(s) ==
  /\ s \in deletions /\ deletions' = deletions \ {s}
  /\ registered' = [registered EXCEPT ![s] = "deleted"]
  /\ teardowns' = teardowns \cup IF hasImage[s] THEN {s} \X AllKinds ELSE {}
  /\ excused' = IF hasImage[s] /\ deployment[s] = Ended THEN excused ELSE excused \cup {s}
  /\ mcpActive' = mcpActive \ {s} /\ asserted' = asserted \ {s}
  /\ hasImage' = [hasImage EXCEPT ![s] = FALSE]
  /\ UNCHANGED <<cluster, podsReady, deployment, overlapped>>

\* the three calls run together; one that fails is logged and forgotten
TearDown(s, k) ==
  /\ <<s, k>> \in teardowns /\ teardowns' = teardowns \ {<<s, k>>}
  /\ \/ /\ cluster' = [cluster EXCEPT ![k] = NoServer]
        /\ podsReady' = (podsReady /\ k # "deployment") /\ UNCHANGED excused
     \/ excused' = excused \cup {s} /\ UNCHANGED <<cluster, podsReady>>
  /\ UNCHANGED <<registered, mcpActive, asserted, hasImage, deployment, deletions, overlapped>>

-----------------------------------------------------------------------------
(* The cluster and the control plane                                         *)

\* pods that fail again are as good as a wait that is over
PodsReady ==
  /\ cluster["deployment"] # NoServer /\ ~podsReady /\ podsReady' = TRUE
  /\ UNCHANGED <<registered, mcpActive, asserted, hasImage, cluster, deployment, deletions>>
  /\ UNCHANGED <<teardowns, excused, overlapped>>

\* nothing takes up again what a restart cut off
Restart ==
  /\ deployment' = [s \in InCluster |-> Ended] /\ deletions' = {} /\ teardowns' = {}
  /\ excused' = excused \cup {s \in AtWork : registered[s] = "deleted"}
  /\ UNCHANGED <<registered, mcpActive, asserted, hasImage, cluster, podsReady, overlapped>>

ClusterNext ==
  \/ PodsReady \/ Restart
  \/ \E s \in InCluster :
       \/ Register(s) \/ ReplaceResource(s) \/ CreateResource(s)
       \/ waitForReady(s) \/ MarkDeployed(s) \/ PutServer(s) \/ DisableServer(s)
       \/ DeleteServer(s) \/ \E k \in Kinds : TearDown(s, k)

\* A server that its deployment made ACTIVE runs what was written for it, although the server
\* before it under the slug may have left its resources behind: only a request of that server
\* which was still at work when this one was registered can have replaced or removed them.  A
\* status that an operator has put since says nothing of the cluster.
ActiveIsItsOwn ==
  \A s \in InCluster : registered[s] = "present" /\ s \in mcpActive \ asserted =>
    s \in overlapped \/ \A k \in Kinds : cluster[k] = s

\* Nothing of a deleted server stays in the cluster once its requests are over, unless a call of
\* the teardown failed or was cut off, the deletion overtook the deployment, or the row had lost
\* its image to an edit.
NothingIsLeft ==
  \A s \in InCluster : registered[s] = "deleted" /\ s \notin AtWork =>
    s \in excused \/ \A k \in Kinds : cluster[k] # s
=============================================================================
