------------------------------ MODULE JobPages ------------------------------
(*****************************************************************************)
(* The jobs page: its table with the filters and the retries of rows, and    *)
(* the drawer with the details of one job. The two parts share no state.     *)
(*****************************************************************************)
EXTENDS Integers

(*****************************************************************************)
(* The page of jobs: the listing under its status filter, the row of one job *)
(* and its Retry button, and the routes behind them.  A row shows what its   *)
(* listing read; the button asks, posts and tells its outcome, and goes with *)
(* its row, not with its post. The listing has one page: GET /jobs answers   *)
(* with the number of jobs it sent as the total, so the pager of the table   *)
(* has never a second page to turn to.                                       *)
(*****************************************************************************)

CONSTANTS
  RowStatuses,  \* the statuses that the job takes
  StatusFilters,      \* the filters of the listing: "ALL" and statuses
  Posts         \* retries that may be under way

VARIABLES
  jobStatus,    \* the status of the job, as the database holds it
  queued,       \* history: the posts that put it in the queue
  jobFilter,    \* the status filter: "ALL" or a status
  rowStatus,    \* the status on the row; "none" when the listing does not have the job
  jobRequests,  \* the filters whose listing is under way
  listing, failing,       \* the page waits for a listing; the last one failed
  exportMenu,   \* the export menu is open
  button,       \* the row's Retry: "idle", "asking", "busy", "refused" or "done"
  ofButton,     \* the post that the button waits for, or that it tells of
  retryPosts    \* of each post: "none", "sent", "marked", "accepted" or "lost"

Job == "job"
Trigger == INSTANCE JobStateMachine WITH Jobs <- {Job}, status <- [j \in {Job} |-> jobStatus]

jobsDesk == <<jobFilter, rowStatus, jobRequests, listing, failing, exportMenu>>
retryButton == <<button, ofButton>>
jobsDeskVars == <<jobStatus, queued, jobFilter, rowStatus, jobRequests, listing, failing,
                  exportMenu, button, ofButton, retryPosts>>

Failed == {"FAILED", "TIMED_OUT", "DEAD_LETTER"}
NoPost == "none"

JobsDeskInit ==
  /\ jobStatus \in RowStatuses /\ queued = {} /\ jobFilter = "ALL" /\ rowStatus = "none"
  /\ jobRequests = {"ALL"} /\ listing = TRUE /\ failing = FALSE /\ exportMenu = FALSE
  /\ button = "idle" /\ ofButton = NoPost /\ retryPosts = [p \in Posts |-> "none"]

-----------------------------------------------------------------------------
(* The listing                                                               *)

\* GET /jobs, under the status of the filter it was asked with
ListJobs(f) == IF f = "ALL" \/ f = jobStatus THEN jobStatus ELSE "none"

\* execute() sends a request, or is handed the answer of the last two seconds
RefetchJobs(f) ==
  \/ jobRequests' = jobRequests \cup {f} /\ listing' = TRUE /\ failing' = FALSE
  \/ UNCHANGED <<jobRequests, listing, failing>>

\* the skeleton stands for a page with no row whose request is under way
Skeleton == listing /\ rowStatus = "none"

\* with neither rows nor a filter, the page and the table offer the agents instead
EmptyOffered == ~Skeleton /\ rowStatus = "none" /\ jobFilter = "ALL"

\* the toolbar of the table, and with it the filters
Toolbar == ~Skeleton /\ ~EmptyOffered

\* what the row offers: a job that failed may be retried
canRetry == rowStatus \in Failed

\* Mutant: a row keeps its button whatever the listing says of its job
ShowRowKeeping(s) == rowStatus' = s /\ UNCHANGED retryButton

\* a row that no longer offers the button drops it, its question with it
ShowRow(s) ==
  /\ rowStatus' = s
  /\ IF s \in Failed THEN UNCHANGED retryButton ELSE button' = "idle" /\ ofButton' = NoPost

\* the answer of a request, also of one of another filter that was still under way
JobsArrive(f) ==
  /\ f \in jobRequests /\ jobRequests' = jobRequests \ {f} /\ listing' = FALSE /\ failing' = FALSE
  /\ ShowRow(ListJobs(f)) /\ UNCHANGED <<jobFilter, exportMenu, jobStatus, queued, retryPosts>>

JobsFail(f) ==
  /\ f \in jobRequests /\ jobRequests' = jobRequests \ {f} /\ listing' = FALSE /\ failing' = TRUE
  /\ UNCHANGED <<jobFilter, rowStatus, exportMenu, jobStatus, queued, retryPosts>>
  /\ UNCHANGED retryButton

handleStatusFilter(f) ==
  /\ Toolbar /\ f # jobFilter /\ jobFilter' = f /\ RefetchJobs(f)
  /\ UNCHANGED <<rowStatus, exportMenu, jobStatus, queued, retryPosts>> /\ UNCHANGED retryButton

\* the header's button waits for the request before; the banner and an event of the stream do not
handleRefresh ==
  /\ RefetchJobs(jobFilter)
  /\ UNCHANGED <<jobFilter, rowStatus, exportMenu, jobStatus, queued, retryPosts>>
  /\ UNCHANGED retryButton

ToggleExport ==
  /\ ~Skeleton /\ exportMenu' = ~exportMenu
  /\ UNCHANGED <<jobFilter, rowStatus, jobRequests, listing, failing, jobStatus, queued, retryPosts>>
  /\ UNCHANGED retryButton

-----------------------------------------------------------------------------
(* The row's button                                                          *)

AskRetry ==
  /\ canRetry /\ button = "idle" /\ button' = "asking" /\ UNCHANGED ofButton
  /\ UNCHANGED <<jobStatus, queued, retryPosts>> /\ UNCHANGED jobsDesk

CancelRetry ==
  /\ canRetry /\ button \in {"asking", "refused"} /\ button' = "idle" /\ ofButton' = NoPost
  /\ UNCHANGED <<jobStatus, queued, retryPosts>> /\ UNCHANGED jobsDesk

\* a post of its own; right after a refusal, that refusal is handed out again instead
RetryRow(p) ==
  /\ canRetry /\ button \in {"asking", "refused"} /\ retryPosts[p] = "none"
  /\ retryPosts' = [retryPosts EXCEPT ![p] = "sent"] /\ button' = "busy" /\ ofButton' = p
  /\ queued' = queued \ {p} /\ UNCHANGED jobStatus /\ UNCHANGED jobsDesk

TellRow(p, what) ==
  IF ofButton = p /\ button = "busy" THEN button' = what /\ UNCHANGED ofButton
  ELSE UNCHANGED retryButton

\* onRetried lists the jobs again, although the button may be gone
RetryAnswered(p) ==
  /\ retryPosts[p] = "accepted" /\ retryPosts' = [retryPosts EXCEPT ![p] = "none"]
  /\ TellRow(p, "done") /\ RefetchJobs(jobFilter)
  /\ UNCHANGED <<jobFilter, rowStatus, exportMenu, jobStatus, queued>>

\* the two seconds of "Retried" are over
MarkFades ==
  /\ button = "done" /\ button' = "idle" /\ ofButton' = NoPost
  /\ UNCHANGED <<jobStatus, queued, retryPosts>> /\ UNCHANGED jobsDesk

-----------------------------------------------------------------------------
(* POST /jobs/:jobId/retry, and the job                                      *)

\* Mutant: any answer is taken as the retry's success
RefusedAsDone(p) ==
  /\ retryPosts[p] # "none" /\ retryPosts' = [retryPosts EXCEPT ![p] = "none"]
  /\ TellRow(p, "done") /\ UNCHANGED <<jobStatus, queued>> /\ UNCHANGED jobsDesk

\* the trigger bars the status, the queue does, or the answer is lost: an error, and no more
RetryRefused(p) ==
  /\ retryPosts[p] # "none" /\ retryPosts' = [retryPosts EXCEPT ![p] = "none"]
  /\ TellRow(p, "refused") /\ UNCHANGED <<jobStatus, queued>> /\ UNCHANGED jobsDesk

MarkRetry(p) ==
  /\ retryPosts[p] = "sent" /\ jobStatus \in {"FAILED", "TIMED_OUT", "RETRYING"}
  /\ retryPosts' = [retryPosts EXCEPT ![p] = "marked"] /\ jobStatus' = "RETRYING"
  /\ UNCHANGED queued /\ UNCHANGED retryButton /\ UNCHANGED jobsDesk

EnqueueRetry(p) ==
  /\ retryPosts[p] = "marked" /\ retryPosts' = [retryPosts EXCEPT ![p] = "accepted"]
  /\ queued' = queued \cup {p} /\ UNCHANGED jobStatus /\ UNCHANGED retryButton /\ UNCHANGED jobsDesk

\* handlers, operators and approvals move the job along the transitions of the trigger
JobMoves ==
  /\ \E s \in RowStatuses : Trigger!ValidTransition(jobStatus, s) /\ jobStatus' = s
  /\ UNCHANGED <<queued, retryPosts>> /\ UNCHANGED retryButton /\ UNCHANGED jobsDesk

JobsDeskNext ==
  \/ handleRefresh \/ ToggleExport \/ AskRetry \/ CancelRetry
  \/ MarkFades \/ JobMoves
  \/ \E f \in StatusFilters : JobsArrive(f) \/ JobsFail(f) \/ handleStatusFilter(f)
  \/ \E p \in Posts : \/ RetryRow(p) \/ RetryAnswered(p) \/ RetryRefused(p)
                      \/ MarkRetry(p) \/ EnqueueRetry(p)

\* A retry is asked for, under way on a row or told of only where the row shows a failure,
\* however listings, the stream's refetches and the operator's clicks interleave: the button
\* of a row whose job moved on is gone, a question that was open on it too.
ConfirmStands == button # "idle" => rowStatus \in Failed

\* "Retried" is said of a job that this very click put in the queue: neither another post of
\* the same row nor a refusal is taken for it.
RetriedIsQueued == button = "done" => ofButton \in queued

-----------------------------------------------------------------------------

(*****************************************************************************)
(* The drawer with the details of a job: what useApiQuery() loads when jobs  *)
(* are picked, closed and retried, what the route makes of the job's row,    *)
(* and what agent_execute leaves there when an attempt ends.  The drawer     *)
(* keeps the details it has until others arrive, and offers Retry by them,   *)
(* for the job that is picked.                                               *)
(*****************************************************************************)
CONSTANTS
  DrawerJobs, NoJob   \* the jobs, and none of them

VARIABLES
  row,          \* per job [status, error, result]: error and result are "none" or "told"
  pickedJob,    \* the job of the drawer, NoJob when it is closed
  details,      \* what was loaded: [of, status, reason]; of = NoJob for nothing
  loadingJobs,  \* the jobs whose details are on their way
  handedOver,   \* history: since it was picked, the job was given another request's answer
  retryAt,      \* the drawer's Retry: "idle", "asking" or "busy"
  retryOf       \* the jobs whose retry is on its way to the route

drawerVars == <<row, pickedJob, details, loadingJobs, handedOver, retryAt, retryOf>>

TriggerOf(j) == INSTANCE JobStateMachine WITH Jobs <- DrawerJobs, status <- [i \in DrawerJobs |-> row[i].status]

FailedRows == {"FAILED", "TIMED_OUT"}
NoDetails == [of |-> NoJob, status |-> "none", reason |-> "none"]

DrawerInit ==
  /\ row = [j \in DrawerJobs |-> [status |-> "SCHEDULED", error |-> "none", result |-> "none"]]
  /\ pickedJob = NoJob /\ details = NoDetails /\ loadingJobs = {} /\ handedOver = FALSE
  /\ retryAt = "idle" /\ retryOf = {}

-----------------------------------------------------------------------------
(* The job's row                                                             *)

Write(j, s, error, result) ==
  /\ TriggerOf(j)!ValidTransition(row[j].status, s)
  /\ row' = [row EXCEPT ![j] = [status |-> s, error |-> error, result |-> result]]
  /\ UNCHANGED <<pickedJob, details, loadingJobs, handedOver, retryAt, retryOf>>

\* SCHEDULED to RUNNING, and RETRYING to SCHEDULED, leave what an earlier attempt wrote
Proceeds(j) ==
  \E s \in {"SCHEDULED", "RUNNING"} : Write(j, s, row[j].error, row[j].result)

mapExecutionStatus ==
  [completed |-> "COMPLETED", failed |-> "FAILED", cancelled |-> "FAILED",
   timed_out |-> "TIMED_OUT"]

\* Mutant: only a result with an error of its own explains the failure
ResultErrorOnly(outcome, hasError) == IF hasError THEN "told" ELSE "none"

\* a result that is no success is told of, by its error, its summary, stderr or a fixed text
executionErrorToJobError(outcome, hasError) == IF outcome = "completed" THEN "none" ELSE "told"

executionResultToJson(hasError) == IF hasError THEN "told" ELSE "none"

\* the attempt ends with a result; a result that completed has no error
Settles(j, outcome, hasError) ==
  /\ row[j].status = "RUNNING" /\ ~(outcome = "completed" /\ hasError)
  /\ Write(j, mapExecutionStatus[outcome], executionErrorToJobError(outcome, hasError),
           executionResultToJson(hasError))

\* the attempt throws or is refused, an operator kills the job, an approval is denied
FailsWith(j, s) == row[j].status = "RUNNING" /\ Write(j, s, "told", row[j].result)

\* the route of the retry clears the error and the dates; a refusal leaves the mark
MarkedRetrying(j) ==
  /\ j \in retryOf /\ row[j].status \in FailedRows \cup {"RETRYING"}
  /\ row' = [row EXCEPT ![j] = [@ EXCEPT !.status = "RETRYING", !.error = "none"]]
  /\ UNCHANGED <<pickedJob, details, loadingJobs, handedOver, retryAt, retryOf>>

-----------------------------------------------------------------------------
(* The drawer                                                                *)

\* GET /jobs/:jobId: the reason is the row's error, or else its result's
JobDetails(j) ==
  [of |-> j, status |-> row[j].status,
   reason |-> IF row[j].error # "none" THEN row[j].error ELSE row[j].result]

\* the drawer's button goes when the details no longer offer it, or the drawer closes
ButtonFor(d, picked) ==
  retryAt' = IF d.status \in FailedRows /\ picked # NoJob THEN retryAt ELSE "idle"

\* what is handed over within two seconds of the last request is that request's answer, of
\* another job or of none
PickJob(j) ==
  /\ pickedJob = NoJob /\ pickedJob' = j
  /\ \/ loadingJobs' = loadingJobs \cup {j} /\ handedOver' = FALSE
     \/ handedOver' = TRUE /\ UNCHANGED loadingJobs
  /\ UNCHANGED <<row, details, retryAt, retryOf>>

\* Escape, the backdrop or the cross; without a job the query fails, and the details stay
CloseDrawer ==
  /\ pickedJob # NoJob /\ pickedJob' = NoJob /\ handedOver' = FALSE
  /\ ButtonFor(details, NoJob) /\ UNCHANGED <<row, details, loadingJobs, retryOf>>

DetailsArrive(j) ==
  /\ j \in loadingJobs /\ loadingJobs' = loadingJobs \ {j}
  /\ details' = JobDetails(j) /\ ButtonFor(JobDetails(j), pickedJob)
  /\ handedOver' = (handedOver \/ (j # pickedJob /\ pickedJob # NoJob))
  /\ UNCHANGED <<row, pickedJob, retryOf>>

\* an answer that fails leaves the details that were loaded before
DetailsFail(j) ==
  /\ j \in loadingJobs /\ loadingJobs' = loadingJobs \ {j}
  /\ handedOver' = (handedOver \/ pickedJob = j)
  /\ UNCHANGED <<row, pickedJob, details, retryAt, retryOf>>

\* Mutant: the button is there whatever the details say
canRetryAlways == pickedJob # NoJob

canRetryPicked == pickedJob # NoJob /\ details.status \in FailedRows

AskDrawerRetry ==
  /\ canRetryPicked /\ retryAt = "idle" /\ retryAt' = "asking"
  /\ UNCHANGED <<row, pickedJob, details, loadingJobs, handedOver, retryOf>>

CancelDrawerRetry ==
  /\ canRetryPicked /\ retryAt = "asking" /\ retryAt' = "idle"
  /\ UNCHANGED <<row, pickedJob, details, loadingJobs, handedOver, retryOf>>

\* the retry is of the job that is picked, whosever the details are
ConfirmDrawerRetry ==
  /\ canRetryPicked /\ retryAt = "asking" /\ pickedJob \notin retryOf
  /\ retryAt' = "busy" /\ retryOf' = retryOf \cup {pickedJob}
  /\ UNCHANGED <<row, pickedJob, details, loadingJobs, handedOver>>

\* success or not, the details are not loaded again: "Retried" fades and Retry is back
RetryEnds(j) ==
  /\ j \in retryOf /\ retryOf' = retryOf \ {j}
  /\ retryAt' = IF retryAt = "busy" THEN "idle" ELSE retryAt
  /\ UNCHANGED <<row, pickedJob, details, loadingJobs, handedOver>>

DrawerNext ==
  \/ \E j \in DrawerJobs : \/ Proceeds(j) \/ MarkedRetrying(j) \/ PickJob(j) \/ DetailsArrive(j)
                     \/ DetailsFail(j) \/ RetryEnds(j)
                     \/ \E s \in FailedRows : FailsWith(j, s)
                     \/ \E o \in DOMAIN mapExecutionStatus, e \in BOOLEAN : Settles(j, o, e)
  \/ CloseDrawer \/ AskDrawerRetry \/ CancelDrawerRetry \/ ConfirmDrawerRetry

\* A failure in the drawer has a reason: every end of an attempt that is no success, of any
\* backend and by any route, leaves one in the row, and a retry never leaves the status of a
\* failure without it.
FailureIsExplained == details.status \in FailedRows => details.reason # "none"

\* The drawer asks about the retry of a job only when it saw that job fail; the details of
\* another job decide only while its own are on their way, or where an answer of another
\* request was handed over.
RetryIsOfFailed ==
  retryAt = "asking" =>
    \/ details.of = pickedJob /\ details.status \in FailedRows
    \/ pickedJob \in loadingJobs \/ handedOver
=============================================================================
