------------------------- MODULE JobLifecycleProofs -------------------------
(*****************************************************************************)
(* Theorems of JobLifecycle, for any number of jobs, workers, queue entries  *)
(* and requests, any max_attempts and any setting of the fault constants.    *)
(*****************************************************************************)
EXTENDS JobLifecycle, TLAPS

-----------------------------------------------------------------------------
\* The statements the handlers share keep the rows and records well formed.

LEMMA MoveJobType ==
  ASSUME job \in [Jobs -> JobRow], NEW j, NEW from, NEW to \in JobStatus,
         NEW closes \in BOOLEAN, MoveJob(j, from, to, closes)
  PROVE  /\ job' \in [Jobs -> JobRow]
         /\ stranded \in SUBSET Jobs => stranded' \in SUBSET Jobs
<1>1. job' \in [Jobs -> JobRow]
  BY DEF MoveJob, UpdateJob, JobRow
<1> QED
  BY <1>1 DEF MoveJob

\* A handler that stands at one of its points holds a job and an entry.
LEMMA BusyAt ==
  ASSUME worker \in [Workers -> HandlerState], NEW w \in Workers,
         NEW pc, pc # "idle", At(w, pc)
  PROVE  worker[w] \in BusyHandler
  BY DEF At, HandlerState, Idle

LEMMA GotoType ==
  ASSUME worker \in [Workers -> HandlerState], NEW w \in Workers,
         worker[w] \in BusyHandler, NEW pc \in Points, Goto(w, pc)
  PROVE  worker' \in [Workers -> HandlerState]
<1>1. [worker[w] EXCEPT !.pc = pc] \in BusyHandler
  BY DEF BusyHandler
<1> QED
  BY <1>1 DEF Goto, HandlerState

LEMMA GotoWithType ==
  ASSUME worker \in [Workers -> HandlerState], NEW w \in Workers,
         worker[w] \in BusyHandler,
         NEW pc \in Points, NEW note \in Notes, GotoWith(w, pc, note)
  PROVE  worker' \in [Workers -> HandlerState]
<1>1. [worker[w] EXCEPT !.pc = pc, !.note = note] \in BusyHandler
  BY DEF BusyHandler
<1> QED
  BY <1>1 DEF GotoWith, HandlerState

LEMMA IdleType ==
  ASSUME worker \in [Workers -> HandlerState], NEW w \in Workers,
         worker' = [worker EXCEPT ![w] = Idle]
  PROVE  worker' \in [Workers -> HandlerState]
  BY DEF HandlerState

LEMMA ReturnType ==
  ASSUME worker \in [Workers -> HandlerState],
         queue \in [Entries -> Entry \cup {Nobody}],
         NEW w \in Workers, Return(w)
  PROVE  /\ worker' \in [Workers -> HandlerState]
         /\ queue' \in [Entries -> Entry \cup {Nobody}]
  BY IdleType DEF Return

LEMMA AddDelayedType ==
  ASSUME queue \in [Entries -> Entry \cup {Nobody}], NEW j \in Jobs, AddDelayed(j)
  PROVE  queue' \in [Entries -> Entry \cup {Nobody}]
  BY DEF AddDelayed, Entry

LEMMA AddKeyedType ==
  ASSUME queue \in [Entries -> Entry \cup {Nobody}], NEW j \in Jobs, AddKeyed(j)
  PROVE  queue' \in [Entries -> Entry \cup {Nobody}]
<1>1. CASE UNCHANGED queue
  BY <1>1
<1>2. ASSUME NEW q \in [Entries -> Entry \cup {Nobody}],
             NEW e \in Entries, q[e] # Nobody
      PROVE  [q[e] EXCEPT !.keyed = FALSE, !.once = TRUE] \in Entry
  BY <1>2 DEF Entry
<1>3. [job |-> j, keyed |-> TRUE, once |-> FALSE, st |-> "queued"] \in Entry
  BY DEF Entry
<1> QED
  BY <1>1, <1>2, <1>3 DEF AddKeyed, KeyedEntries
-----------------------------------------------------------------------------
\* Every step of a handler keeps the types.

LEMMA HandlerKeepsTypes ==
  ASSUME TypeOK, EntriesAreExclusive, NEW w \in Workers, Handler(w)
  PROVE  TypeOK'
<1> USE DEF TypeOK
<1>a. ASSUME NEW j \in Jobs PROVE AgentOf[j] \in Agents
  BY ConstantsAssumption
<1>b. ASSUME NEW pc, pc # "idle", At(w, pc)
      PROVE  worker[w] \in BusyHandler /\ worker[w].job \in Jobs
  BY <1>b, BusyAt DEF BusyHandler
<1>c. /\ Points = {"loaded", "started", "admitted", "unapproved", "cleared",
                   "tripped", "executing", "resulted", "caught", "failed",
                   "retrying", "requeued", "rethrow"}
      /\ {"none", "cancelled", "inactive"} \cup Results \cup Errors \subseteq Notes
      /\ {"FAILED", "WAITING_FOR_APPROVAL", "RETRYING", "SCHEDULED", "TIMED_OUT",
          "RUNNING", "COMPLETED"} \subseteq JobStatus
  BY DEF Points, Running, Catching, Notes, Results, Errors, JobStatus
<1>1. CASE Start(w)
  <2>1. worker[w].attempt + 1 \in Nat
    BY <1>1, <1>b DEF Start, BusyHandler
  <2>2. ASSUME NEW row \in JobRow
        PROVE  [row EXCEPT !.status = "RUNNING", !.attempt = worker[w].attempt + 1] \in JobRow
    BY <2>1 DEF JobRow, JobStatus
  <2>3. job' \in [Jobs -> JobRow]
    BY <1>1, <1>b, <2>2 DEF Start
  <2>4. stranded' \in SUBSET Jobs
    BY <1>1 DEF Start
  <2> QED
    BY <1>1, <1>b, <1>c, <2>3, <2>4, GotoType DEF Start
<1>2. CASE LoadAgent(w)
  BY <1>2, <1>b, <1>c, GotoType, GotoWithType DEF LoadAgent
<1>3. CASE TripBeforeRun(w)
  BY <1>3, <1>a, <1>b, <1>c, GotoType DEF TripBeforeRun
<1>4. CASE CloseTripped(w)
  BY <1>4, <1>c, MoveJobType, ReturnType DEF CloseTripped
<1>5. CASE ReadGate(w)
  BY <1>5, <1>b, <1>c, GotoType DEF ReadGate
<1>6. CASE Park(w)
  BY <1>6, <1>c, MoveJobType, ReturnType DEF Park
<1>7. CASE Refuse(w)
  BY <1>7, <1>c, MoveJobType, ReturnType DEF Refuse
<1>8. CASE Dispatch(w)
  BY <1>8, <1>b, <1>c, GotoType DEF Dispatch
<1>9. ASSUME NEW err \in Errors, DispatchThrows(w, err) \/ ExecutionThrows(w, err)
      PROVE  TypeOK'
  BY <1>9, <1>b, <1>c, GotoWithType DEF DispatchThrows, ExecutionThrows
<1>10. CASE CancelCheck(w)
  <2>1. worker[w] \in BusyHandler
    BY <1>10, <1>b DEF CancelCheck
  <2>2. [worker[w] EXCEPT !.note = "cancelled"] \in BusyHandler
    BY <2>1, <1>c DEF BusyHandler
  <2> QED
    BY <1>10, <2>2 DEF CancelCheck, HandlerState
<1>11. ASSUME NEW result \in Results, ResultArrives(w, result)
       PROVE  TypeOK'
  BY <1>11, <1>a, <1>b, <1>c, GotoWithType DEF ResultArrives
<1>12. CASE Persist(w)
  <2>1. mapExecutionStatus(worker[w].note) \in JobStatus
    BY <1>c DEF mapExecutionStatus
  <2> QED
    BY <1>12, <2>1, MoveJobType, ReturnType DEF Persist
<1>13. CASE FailForRetry(w)
  BY <1>13, <1>b, <1>c, MoveJobType, GotoType DEF FailForRetry
<1>14. CASE MarkRetrying(w)
  BY <1>14, <1>b, <1>c, MoveJobType, GotoType DEF MarkRetrying
<1>15. CASE AddRetry(w)
  BY <1>15, <1>b, <1>c, AddDelayedType, GotoType DEF AddRetry
<1>16. CASE Reschedule(w)
  BY <1>16, <1>b, <1>c, MoveJobType, GotoType DEF Reschedule
<1>17. CASE CloseFailed(w)
  BY <1>17, <1>b, <1>c, MoveJobType, GotoType DEF CloseFailed
<1>d. ASSUME NEW p, p # "idle", At(w, p), HandBack(w)
      PROVE  /\ worker' \in [Workers -> HandlerState]
             /\ queue' \in [Entries -> Entry \cup {Nobody}]
  <2>1. worker' \in [Workers -> HandlerState]
    BY <1>d, IdleType DEF HandBack
  <2>2. queue[worker[w].entry] \in Entry
    BY <1>d, <1>b DEF EntriesAreExclusive, At, BusyHandler
  <2>3. ASSUME NEW q \in Entry PROVE [q EXCEPT !.st = "queued"] \in Entry
    BY DEF Entry
  <2> QED
    BY <1>d, <2>1, <2>2, <2>3 DEF HandBack
<1>18. CASE Rethrow(w)
  BY <1>18, <1>a, <1>b, <1>d DEF Rethrow
<1>19. CASE Falter(w)
  BY <1>19, <1>b, <1>d DEF Falter, Strand, At
<1>20. ASSUME NEW err \in Errors, StepThrows(w, err) PROVE TypeOK'
  <2>1. /\ worker[w] \in BusyHandler /\ registry' \in [Jobs -> Workers \cup {Nobody}]
    BY <1>20, <1>b DEF StepThrows, At
  <2> QED
    BY <1>20, <1>c, <2>1, GotoWithType DEF StepThrows
<1> QED
  BY <1>1, <1>2, <1>3, <1>4, <1>5, <1>6, <1>7, <1>8, <1>9, <1>10, <1>11, <1>12,
     <1>13, <1>14, <1>15, <1>16, <1>17, <1>18, <1>19, <1>20 DEF Handler

\* The routes, the queue, the clock and the operators keep the types.
LEMMA EnvironmentKeepsTypes ==
  ASSUME TypeOK, EntriesAreExclusive, [Next]_vars,
         \A w \in Workers : ~Handler(w)
  PROVE  TypeOK'
<1> USE DEF TypeOK
<1>a. ASSUME NEW q \in Entry, NEW st \in {"delayed", "queued", "locked"}
      PROVE  [q EXCEPT !.st = st] \in Entry
  BY DEF Entry
<1>b. ASSUME NEW row \in JobRow, NEW s \in JobStatus, NEW c \in BOOLEAN
      PROVE  /\ [row EXCEPT !.status = s] \in JobRow
             /\ [row EXCEPT !.completed = c] \in JobRow
             /\ [row EXCEPT !.status = s, !.completed = c] \in JobRow
  BY DEF JobRow
<1>c. {"PENDING", "SCHEDULED", "RUNNING", "RETRYING", "FAILED",
       "WAITING_FOR_APPROVAL"} \subseteq JobStatus
  BY DEF JobStatus
<1>d. ASSUME NEW k \in KillState, NEW pc \in {"none", "cancel", "fail", "quarantine"},
             NEW j \in Jobs \cup {Nobody}
      PROVE  [k EXCEPT !.pc = pc] \in KillState /\ [pc |-> pc, job |-> j] \in KillState
  BY DEF KillState
<1>1. ASSUME NEW w \in Workers, Die(w) PROVE TypeOK'
  <2>1. worker[w].job \in Jobs
    BY <1>1, BusyAt DEF Die, At, HandlerState, BusyHandler, Idle
  <2> QED
    BY <1>1, <2>1, IdleType DEF Die, Strand
<1>2. ASSUME NEW e \in Entries, Take(e) PROVE TypeOK'
  <2>1. ASSUME NEW w \in Workers, TakeAndSkip(w, e) PROVE TypeOK'
    BY <2>1 DEF TakeAndSkip
  <2>2. ASSUME NEW w \in Workers, TakeAndLoad(w, e) PROVE TypeOK'
    <3>1. queue[e] \in Entry
      BY <2>2 DEF TakeAndLoad
    <3>2. [pc |-> "loaded", job |-> queue[e].job, entry |-> e,
           attempt |-> job[queue[e].job].attempt, note |-> "none"] \in HandlerState
      BY <3>1 DEF HandlerState, BusyHandler, Points, Notes, Entry, JobRow
    <3> QED
      BY <2>2, <3>1, <3>2, <1>a DEF TakeAndLoad
  <2> QED
    BY <1>2, <2>1, <2>2 DEF Take
<1>3. ASSUME NEW e \in Entries, LockExpires(e) \/ BecomesDue(e) PROVE TypeOK'
  <2>1. CASE LockExpires(e)
    <3>1. queue[e] \in Entry
      BY <2>1 DEF LockExpires
    <3> QED
      BY <2>1, <3>1, <1>a DEF LockExpires
  <2>2. CASE BecomesDue(e)
    <3>1. queue[e] \in Entry
      BY <2>2 DEF BecomesDue
    <3> QED
      BY <2>2, <3>1, <1>a DEF BecomesDue
  <2> QED
    BY <1>3, <2>1, <2>2
<1>4. ASSUME NEW j \in Jobs, CreateInsert(j) \/ CreationGoesOn(j) PROVE TypeOK'
  <2>1. CASE CreateInsert(j)
    BY <2>1, <1>b, <1>c DEF CreateInsert
  <2>2. CASE CreateSchedule(j)
    BY <2>2, <1>b, <1>c DEF CreateSchedule
  <2>3. CASE CreateEnqueue(j)
    BY <2>3, AddKeyedType DEF CreateEnqueue
  <2>4. CASE CreateAbandoned(j)
    BY <2>4 DEF CreateAbandoned, Strand
  <2> QED
    BY <1>4, <2>1, <2>2, <2>3, <2>4 DEF CreationGoesOn
<1>5. ASSUME NEW j \in Jobs, RetryRead(j) \/ RetryGoesOn(j) PROVE TypeOK'
  <2>a. retry[j] # Nobody => retry[j] \in RetryRoute
    OBVIOUS
  <2>b. ASSUME NEW k \in RetryRoute PROVE [k EXCEPT !.pc = "marked"] \in RetryRoute
    BY DEF RetryRoute
  <2>1. CASE RetryRead(j)
    <3>1. job[j].status \in JobStatus /\ job[j].completed \in BOOLEAN
      BY <2>1 DEF RetryRead, JobRow
    <3>2. [pc |-> "read", status |-> job[j].status, completed |-> job[j].completed]
            \in RetryRoute
      BY <3>1 DEF RetryRoute
    <3> QED
      BY <2>1, <3>2 DEF RetryRead
  <2>2. CASE RetryMark(j)
    <3>1. [retry[j] EXCEPT !.pc = "marked"] \in RetryRoute
      BY <2>2, <2>a, <2>b DEF RetryMark, InRetry
    <3>2. stranded' \in SUBSET Jobs
      BY <2>2 DEF RetryMark, Strand
    <3>3. job' \in [Jobs -> JobRow]
      BY <2>2, <1>b, <1>c DEF RetryMark
    <3> QED
      BY <2>2, <3>1, <3>2, <3>3 DEF RetryMark
  <2>3. CASE RetryEnqueue(j)
    BY <2>3, AddKeyedType DEF RetryEnqueue
  <2>4. CASE RetryRevert(j)
    <3>1. retry[j].status \in JobStatus /\ retry[j].completed \in BOOLEAN
      BY <2>4, <2>a DEF RetryRevert, InRetry, RetryRoute
    <3>2. [job[j] EXCEPT !.status = retry[j].status, !.completed = retry[j].completed]
            \in JobRow
      BY <3>1, <1>b
    <3> QED
      BY <2>4, <3>2 DEF RetryRevert, Strand
  <2>5. CASE RetryEnds(j)
    BY <2>5 DEF RetryEnds
  <2> QED
    BY <1>5, <2>1, <2>2, <2>3, <2>4, <2>5 DEF RetryGoesOn
<1>6. ASSUME NEW a \in Agents, KillFind(a) \/ KillGoesOn(a) \/ Quarantine(a) \/ Release(a)
      PROVE  TypeOK'
  <2>1. CASE KillFind(a)
    <3>1. \E k \in KillState : kill' = [kill EXCEPT ![a] = k]
      BY <2>1, <1>d DEF KillFind
    <3> QED
      BY <2>1, <3>1 DEF KillFind
  <2>2. CASE KillCancel(a)
    <3>1. ASSUME NEW b \in BusyHandler
          PROVE  [b EXCEPT !.note = "cancelled"] \in BusyHandler
      BY DEF BusyHandler, Notes
    <3>2. worker' \in [Workers -> HandlerState]
      <4>1. ASSUME NEW x \in Workers
            PROVE  worker'[x] \in HandlerState
        <5>1. CASE At(x, "executing") /\ registry[kill[a].job] = x
          <6>1. worker[x] \in BusyHandler
            BY <5>1, BusyAt
          <6>2. worker'[x] = [worker[x] EXCEPT !.note = "cancelled"]
            BY <2>2, <5>1 DEF KillCancel
          <6> QED
            BY <6>1, <6>2, <3>1 DEF HandlerState
        <5>2. CASE ~(At(x, "executing") /\ registry[kill[a].job] = x)
          BY <2>2, <5>2 DEF KillCancel
        <5> QED
          BY <5>1, <5>2
      <4>2. DOMAIN worker' = Workers /\ worker' = [x \in Workers |-> worker'[x]]
        BY <2>2 DEF KillCancel
      <4> QED
        BY <4>1, <4>2
    <3>3. [kill[a] EXCEPT !.pc = "fail"] \in KillState
      BY <1>d
    <3> QED
      BY <2>2, <3>2, <3>3 DEF KillCancel
  <2>3. CASE KillFail(a)
    <3>1. [kill[a] EXCEPT !.pc = "quarantine"] \in KillState
      BY <1>d
    <3>2. job' \in [Jobs -> JobRow] /\ stranded' \in SUBSET Jobs
      BY <2>3, <1>c, MoveJobType DEF KillFail
    <3> QED
      BY <2>3, <3>1, <3>2 DEF KillFail
  <2>4. CASE KillQuarantine(a) \/ KillAbandoned(a)
    <3>1. [pc |-> "none", job |-> Nobody] \in KillState
      BY DEF KillState
    <3> QED
      BY <2>4, <3>1 DEF KillQuarantine, KillAbandoned
  <2>5. CASE Quarantine(a) \/ Release(a)
    BY <2>5 DEF Quarantine, Release
  <2> QED
    BY <1>6, <2>1, <2>2, <2>3, <2>4, <2>5 DEF KillGoesOn
<1>7. ASSUME NEW r \in Requests, NEW j \in Jobs, CreateRequest(r, j) \/ CreateApproved(r, j)
      PROVE  TypeOK'
  <2>1. /\ [job |-> j, status |-> "PENDING", stale |-> FALSE] \in RequestRow
        /\ [job |-> j, status |-> "APPROVED", stale |-> FALSE] \in RequestRow
    BY DEF RequestRow
  <2>2. CASE CreateRequest(r, j)
    BY <2>1, <2>2, <1>c, MoveJobType DEF CreateRequest
  <2>3. CASE CreateApproved(r, j)
    BY <2>1, <2>3 DEF CreateApproved
  <2> QED
    BY <1>7, <2>2, <2>3
<1>8. ASSUME NEW r \in Requests,
             Approve(r) \/ Reject(r) \/ GrowStale(r) \/ Expire(r)
      PROVE  TypeOK'
  <2>0. request[r] \in RequestRow
    BY <1>8 DEF Approve, Reject, GrowStale, Expire, Open
  <2>1. ASSUME NEW q \in RequestRow, NEW s \in {"APPROVED", "REJECTED", "EXPIRED"}
        PROVE  /\ [q EXCEPT !.status = s] \in RequestRow
               /\ [q EXCEPT !.stale = TRUE] \in RequestRow
    BY DEF RequestRow
  <2>2. request' \in [Requests -> RequestRow \cup {Nobody}]
    BY <1>8, <2>0, <2>1 DEF Approve, Reject, GrowStale, Expire
  <2>3. job' \in [Jobs -> JobRow] /\ stranded' \in SUBSET Jobs
    <3>1. CASE Approve(r)
      <4>1. request[r].job \in Jobs
        BY <2>0 DEF RequestRow
      <4> QED
        BY <3>1, <4>1, <1>b, <1>c DEF Approve, UpdateJob, Strand
    <3>2. CASE Reject(r) \/ GrowStale(r) \/ Expire(r)
      BY <3>2, <1>c, MoveJobType DEF Reject, GrowStale, Expire
    <3> QED
      BY <1>8, <3>1, <3>2
  <2> QED
    BY <1>8, <2>2, <2>3 DEF Approve, Reject, GrowStale, Expire
<1>9. CASE UNCHANGED vars
  BY <1>9 DEF vars
<1> QED
  BY <1>1, <1>2, <1>3, <1>4, <1>5, <1>6, <1>7, <1>8, <1>9 DEF Next

-----------------------------------------------------------------------------
\* The locks of the queue.  A step that moves no handler on or off an entry
\* and keeps the locked entries preserves the exclusion.

SameHolders ==
  \A x \in Workers :
    /\ worker'[x].entry = worker[x].entry
    /\ worker'[x].job = worker[x].job
    /\ worker[x].pc = "idle" => worker'[x].pc = "idle"

LocksKept ==
  \A e \in Entries :
    queue[e] # Nobody /\ queue[e].st = "locked" =>
      queue'[e] # Nobody /\ queue'[e].st = "locked" /\ queue'[e].job = queue[e].job

LEMMA ExclusionFrame ==
  ASSUME TypeOK, EntriesAreExclusive, SameHolders, LocksKept
  PROVE  EntriesAreExclusive'
<1>1. \A x \in Workers : worker[x].pc # "idle" => worker[x].entry \in Entries
  BY DEF TypeOK, HandlerState, BusyHandler, Idle
<1> QED
  BY <1>1 DEF EntriesAreExclusive, SameHolders, LocksKept

\* What a handler keeps, and what the others keep, when it goes to its next
\* point.
LEMMA GotoEffect ==
  ASSUME TypeOK, NEW w \in Workers, NEW p, p # "idle", At(w, p), NEW pc,
         Goto(w, pc) \/ \E note : GotoWith(w, pc, note)
  PROVE  /\ worker'[w].pc = pc
         /\ worker'[w].entry = worker[w].entry
         /\ worker'[w].job = worker[w].job
         /\ worker'[w].attempt = worker[w].attempt
         /\ \A x \in Workers : x # w => worker'[x] = worker[x]
<1>1. worker[w] \in BusyHandler
  BY BusyAt DEF TypeOK
<1>2. \A x \in Workers : x # w => worker'[x] = worker[x]
  BY DEF Goto, GotoWith, TypeOK
<1>3. CASE Goto(w, pc)
  <2>1. worker'[w] = [worker[w] EXCEPT !.pc = pc]
    BY <1>3 DEF Goto, TypeOK
  <2> QED
    BY <1>1, <1>2, <2>1 DEF BusyHandler
<1>4. ASSUME NEW note, GotoWith(w, pc, note)
      PROVE  /\ worker'[w].pc = pc
             /\ worker'[w].entry = worker[w].entry /\ worker'[w].job = worker[w].job
             /\ worker'[w].attempt = worker[w].attempt
  <2>1. worker'[w] = [worker[w] EXCEPT !.pc = pc, !.note = note]
    BY <1>4 DEF GotoWith, TypeOK
  <2> QED
    BY <1>1, <2>1 DEF BusyHandler
<1> QED
  BY <1>2, <1>3, <1>4

LEMMA GotoHolds ==
  ASSUME TypeOK, NEW w \in Workers, NEW p, p # "idle", At(w, p), NEW pc, pc # "idle",
         Goto(w, pc) \/ \E note : GotoWith(w, pc, note)
  PROVE  SameHolders
  BY GotoEffect DEF SameHolders, At

\* A cancel, the checker's or a kill's, leaves a note and nothing else.
LEMMA CancelOnlyNotes ==
  ASSUME TypeOK, (\E w \in Workers : CancelCheck(w)) \/ (\E a \in Agents : KillCancel(a))
  PROVE  \A x \in Workers : /\ worker'[x].pc = worker[x].pc
                            /\ worker'[x].entry = worker[x].entry
                            /\ worker'[x].job = worker[x].job
                            /\ worker'[x].attempt = worker[x].attempt
<1> SUFFICES ASSUME NEW x \in Workers
             PROVE  /\ worker'[x].pc = worker[x].pc
                    /\ worker'[x].entry = worker[x].entry
                    /\ worker'[x].job = worker[x].job
                    /\ worker'[x].attempt = worker[x].attempt
  OBVIOUS
<1>1. CASE worker'[x] = worker[x]
  BY <1>1
<1>2. CASE At(x, "executing") /\ worker'[x] = [worker[x] EXCEPT !.note = "cancelled"]
  <2>1. worker[x] \in BusyHandler
    BY <1>2, BusyAt DEF TypeOK
  <2> QED
    BY <1>2, <2>1 DEF BusyHandler
<1> QED
  BY <1>1, <1>2 DEF CancelCheck, KillCancel, TypeOK

LEMMA ReturnKeepsExclusion ==
  ASSUME TypeOK, EntriesAreExclusive, NEW w \in Workers, worker[w].pc # "idle",
         worker' = [worker EXCEPT ![w] = Idle],
         \A e \in Entries : e # worker[w].entry => queue'[e] = queue[e]
  PROVE  EntriesAreExclusive'
<1>1. \A x \in Workers : worker[x].pc # "idle" => worker[x].entry \in Entries
  BY DEF TypeOK, HandlerState, BusyHandler, Idle
<1>2. Idle.pc = "idle" /\ Idle.entry = Nobody /\ Nobody \notin Entries
  BY ConstantsAssumption DEF Idle
<1> QED
  BY <1>1, <1>2 DEF EntriesAreExclusive, TypeOK

\* Adding an entry leaves the locked ones locked.
LEMMA AddKeepsLocks ==
  ASSUME TypeOK, NEW j \in Jobs, AddKeyed(j) \/ AddDelayed(j)
  PROVE  LocksKept
<1>1. ASSUME Unused # {} PROVE NewEntry \in Entries /\ queue[NewEntry] = Nobody
  BY <1>1 DEF NewEntry, Unused
<1>2. ASSUME NEW e \in Entries, queue[e] # Nobody
      PROVE  /\ [queue[e] EXCEPT !.keyed = FALSE, !.once = TRUE] \in Entry
             /\ [queue[e] EXCEPT !.keyed = FALSE, !.once = TRUE].st = queue[e].st
             /\ [queue[e] EXCEPT !.keyed = FALSE, !.once = TRUE].job = queue[e].job
  <2>1. queue[e] \in Entry
    BY <1>2 DEF TypeOK
  <2> QED
    BY <2>1 DEF Entry
<1>3. CASE UNCHANGED queue
  BY <1>3 DEF LocksKept
<1>4. CASE AddDelayed(j)
  BY <1>1, <1>4 DEF AddDelayed, LocksKept, TypeOK
<1>5. CASE AddKeyed(j) /\ ~UNCHANGED queue
  BY <1>1, <1>2, <1>5, NobodyIsNoRow DEF AddKeyed, LocksKept, KeyedEntries
<1> QED
  BY <1>3, <1>4, <1>5

LEMMA HandlerKeepsExclusion ==
  ASSUME TypeOK, EntriesAreExclusive, NEW w \in Workers, Handler(w)
  PROVE  EntriesAreExclusive'
<1>1. ASSUME UNCHANGED queue PROVE LocksKept
  BY <1>1 DEF LocksKept
<1>2. CASE Start(w)
  BY <1>2, <1>1, GotoHolds, ExclusionFrame DEF Start
<1>3. CASE LoadAgent(w)
  BY <1>3, <1>1, GotoHolds, ExclusionFrame DEF LoadAgent
<1>4. CASE TripBeforeRun(w)
  BY <1>4, <1>1, GotoHolds, ExclusionFrame DEF TripBeforeRun
<1>5. CASE ReadGate(w)
  BY <1>5, <1>1, GotoHolds, ExclusionFrame DEF ReadGate
<1>6. CASE Dispatch(w)
  BY <1>6, <1>1, GotoHolds, ExclusionFrame DEF Dispatch
<1>7. ASSUME NEW err \in Errors, DispatchThrows(w, err) \/ ExecutionThrows(w, err)
      PROVE  EntriesAreExclusive'
  BY <1>7, <1>1, GotoHolds, ExclusionFrame DEF DispatchThrows, ExecutionThrows
<1>8. ASSUME NEW result \in Results, ResultArrives(w, result)
      PROVE  EntriesAreExclusive'
  BY <1>8, <1>1, GotoHolds, ExclusionFrame DEF ResultArrives
<1>9. CASE FailForRetry(w) \/ MarkRetrying(w) \/ Reschedule(w) \/ CloseFailed(w)
  BY <1>9, <1>1, GotoHolds, ExclusionFrame
     DEF FailForRetry, MarkRetrying, Reschedule, CloseFailed
<1>10. CASE AddRetry(w)
  <2>1. worker[w].job \in Jobs
    BY <1>10, BusyAt DEF AddRetry, TypeOK, BusyHandler
  <2> QED
    BY <1>10, <2>1, AddKeepsLocks, GotoHolds, ExclusionFrame DEF AddRetry
<1>11. CASE CancelCheck(w)
  BY <1>11, <1>1, CancelOnlyNotes, ExclusionFrame DEF CancelCheck, SameHolders
<1>12. CASE CloseTripped(w) \/ Park(w) \/ Refuse(w) \/ Persist(w)
  BY <1>12, ReturnKeepsExclusion
     DEF CloseTripped, Park, Refuse, Persist, Return, At, TypeOK
<1>13. CASE Rethrow(w) \/ Falter(w)
  <2>1. worker[w].pc # "idle" /\ HandBack(w)
    BY <1>13 DEF Rethrow, Falter, At
  <2> QED
    BY <2>1, ReturnKeepsExclusion DEF HandBack, TypeOK
<1>14. ASSUME NEW err \in Errors, StepThrows(w, err) PROVE EntriesAreExclusive'
  BY <1>14, <1>1, GotoHolds, ExclusionFrame DEF StepThrows, At
<1> QED
  BY <1>2, <1>3, <1>4, <1>5, <1>6, <1>7, <1>8, <1>9, <1>10, <1>11, <1>12, <1>13, <1>14
     DEF Handler

LEMMA EnvironmentKeepsExclusion ==
  ASSUME TypeOK, EntriesAreExclusive, [Next]_vars,
         \A w \in Workers : ~Handler(w)
  PROVE  EntriesAreExclusive'
<1>a. ASSUME UNCHANGED worker, LocksKept PROVE EntriesAreExclusive'
  BY <1>a, ExclusionFrame DEF SameHolders
<1>b. ASSUME UNCHANGED <<worker, queue>> PROVE EntriesAreExclusive'
  BY <1>b, <1>a DEF LocksKept
<1>1. ASSUME NEW w \in Workers, Die(w) PROVE EntriesAreExclusive'
  BY <1>1, ReturnKeepsExclusion DEF Die, At
<1>2. ASSUME NEW e \in Entries, NEW w \in Workers, TakeAndSkip(w, e)
      PROVE  EntriesAreExclusive'
  BY <1>2, <1>a DEF TakeAndSkip, LocksKept, TypeOK
<1>3. ASSUME NEW e \in Entries, NEW w \in Workers, TakeAndLoad(w, e)
      PROVE  EntriesAreExclusive'
  <2>1. queue[e] \in Entry
    BY <1>3 DEF TakeAndLoad, TypeOK
  <2>2. /\ queue'[e] # Nobody
        /\ queue'[e].st = "locked" /\ queue'[e].job = queue[e].job
    <3>1. queue'[e] = [queue[e] EXCEPT !.st = "locked"]
      BY <1>3 DEF TakeAndLoad, TypeOK
    <3>2. queue'[e] \in Entry
      BY <2>1, <3>1 DEF Entry
    <3> QED
      BY <2>1, <3>1, <3>2, NobodyIsNoRow DEF Entry
  <2>3. /\ worker'[w].pc = "loaded" /\ worker'[w].entry = e
        /\ worker'[w].job = queue[e].job
    BY <1>3 DEF TakeAndLoad, TypeOK
  <2>4. \A x \in Workers : x # w => worker'[x] = worker[x]
    BY <1>3 DEF TakeAndLoad, TypeOK
  <2>5. \A d \in Entries : d # e => queue'[d] = queue[d]
    BY <1>3 DEF TakeAndLoad, TypeOK
  <2>6. \A x \in Workers : worker[x].pc # "idle" =>
          worker[x].entry \in Entries /\ worker[x].entry # e
    BY <1>3 DEF TakeAndLoad, EntriesAreExclusive, TypeOK, HandlerState, BusyHandler, Idle
  <2>7. \A x \in Workers : worker[x].pc = "idle" => worker[x].entry = Nobody
    BY DEF TypeOK, HandlerState, BusyHandler, Points, Running, Catching, Idle
  <2>8. Nobody \notin Entries
    BY ConstantsAssumption
  <2> QED
    BY <2>2, <2>3, <2>4, <2>5, <2>6, <2>7, <2>8 DEF EntriesAreExclusive
<1>4. ASSUME NEW e \in Entries, LockExpires(e) PROVE EntriesAreExclusive'
  <2>1. \A d \in Entries : d # e => queue'[d] = queue[d]
    BY <1>4 DEF LockExpires, TypeOK
  <2>2. \A x \in Workers : worker[x].pc # "idle" =>
          worker[x].entry \in Entries /\ worker[x].entry # e
    BY <1>4 DEF LockExpires, TypeOK, HandlerState, BusyHandler, Idle
  <2>3. UNCHANGED worker
    BY <1>4 DEF LockExpires
  <2> QED
    BY <2>1, <2>2, <2>3 DEF EntriesAreExclusive
<1>5. ASSUME NEW e \in Entries, BecomesDue(e) PROVE EntriesAreExclusive'
  BY <1>5, <1>a DEF BecomesDue, LocksKept, TypeOK
<1>6. ASSUME NEW j \in Jobs,
             CreateInsert(j) \/ CreationGoesOn(j) \/ RetryRead(j) \/ RetryGoesOn(j)
      PROVE  EntriesAreExclusive'
  <2>1. CASE CreateEnqueue(j) \/ RetryEnqueue(j)
    BY <2>1, <1>a, AddKeepsLocks DEF CreateEnqueue, RetryEnqueue
  <2> QED
    BY <1>6, <2>1, <1>b
       DEF CreateInsert, CreationGoesOn, CreateSchedule, CreateAbandoned,
           RetryRead, RetryMark, RetryGoesOn, RetryRevert, RetryEnds
<1>7. ASSUME NEW a \in Agents, KillCancel(a) PROVE EntriesAreExclusive'
  BY <1>7, CancelOnlyNotes, ExclusionFrame DEF KillCancel, SameHolders, LocksKept
<1>8. ASSUME NEW a \in Agents,
             \/ KillFind(a) \/ KillFail(a) \/ KillQuarantine(a) \/ KillAbandoned(a)
             \/ Quarantine(a) \/ Release(a)
      PROVE  EntriesAreExclusive'
  BY <1>8, <1>b DEF KillFind, KillFail, KillQuarantine, KillAbandoned, Quarantine, Release
<1>9. ASSUME NEW r \in Requests,
             \/ \E j \in Jobs : CreateRequest(r, j) \/ CreateApproved(r, j)
             \/ Approve(r) \/ Reject(r) \/ GrowStale(r) \/ Expire(r)
      PROVE  EntriesAreExclusive'
  BY <1>9, <1>b DEF CreateRequest, CreateApproved, Approve, Reject, GrowStale, Expire
<1>10. CASE UNCHANGED vars
  BY <1>10, <1>b DEF vars
<1> QED
  BY <1>1, <1>2, <1>3, <1>4, <1>5, <1>6, <1>7, <1>8, <1>9, <1>10
     DEF Next, Take, KillGoesOn

\* TypeOK alone is not inductive: rethrowing unlocks the handler's entry, which
\* has to be there.  Together with the exclusion it is.
Locked == TypeOK /\ EntriesAreExclusive

LEMMA InitLocked == Init => Locked
<1> SUFFICES ASSUME Init PROVE Locked
  OBVIOUS
<1>1. [status |-> Absent, attempt |-> 0, completed |-> FALSE] \in JobRow
  BY DEF JobRow
<1>2. [pc |-> "none", job |-> Nobody] \in KillState
  BY DEF KillState
<1>3. TypeOK
  BY <1>1, <1>2 DEF Init, TypeOK, HandlerState
<1>4. EntriesAreExclusive
  BY DEF Init, EntriesAreExclusive, Idle
<1> QED
  BY <1>3, <1>4 DEF Locked

LEMMA NextLocked == Locked /\ [Next]_vars => Locked'
<1> SUFFICES ASSUME Locked, [Next]_vars PROVE Locked'
  OBVIOUS
<1>1. ASSUME NEW w \in Workers, Handler(w) PROVE Locked'
  BY <1>1, HandlerKeepsTypes, HandlerKeepsExclusion DEF Locked
<1>2. CASE \A w \in Workers : ~Handler(w)
  BY <1>2, EnvironmentKeepsTypes, EnvironmentKeepsExclusion DEF Locked
<1> QED
  BY <1>1, <1>2

\* Whatever the handlers, the routes and the queue do, rows, entries and
\* handlers keep their shape, and each entry has one handler at most, which
\* works on the entry's job.
THEOREM AlwaysLocked == Spec => []Locked
  BY InitLocked, NextLocked, PTL DEF Spec

\* The state keeps its types.
THEOREM TypesHold == Spec => []TypeOK
<1>1. Locked => TypeOK
  BY DEF Locked
<1> QED
  BY AlwaysLocked, <1>1, PTL

\* Two handlers never share a queue entry: Graphile's lock, the replacement of
\* keyed entries, expired locks and deaths never hand one entry to two workers.
THEOREM ExclusionHolds == Spec => []EntriesAreExclusive
<1>1. Locked => EntriesAreExclusive
  BY DEF Locked
<1> QED
  BY AlwaysLocked, <1>1, PTL

-----------------------------------------------------------------------------
\* The approval gate.

PastGate == {"cleared", "executing", "resulted"}

\* Handlers past the gate were there before, on the same job.
NobodyPasses ==
  \A x \in Workers :
    worker'[x].pc \in PastGate =>
      worker[x].pc \in PastGate /\ worker'[x].job = worker[x].job

LEMMA ApprovalsStand ==
  ASSUME TypeOK, [Next]_vars, NEW j, Approved(j)
  PROVE  Approved(j)'
<1>1. PICK r \in Requests :
        request[r] # Nobody /\ request[r].job = j /\ request[r].status = "APPROVED"
  BY DEF Approved
<1>2. UNCHANGED request \/ \E q \in Requests :
        \/ Approve(q) \/ Reject(q) \/ GrowStale(q) \/ Expire(q)
        \/ \E k \in Jobs : CreateRequest(q, k) \/ CreateApproved(q, k)
  BY DEF Next, vars, Handler, Start, LoadAgent, TripBeforeRun, CloseTripped, ReadGate,
         Park, Refuse, Dispatch, DispatchThrows, ExecutionThrows, CancelCheck,
         ResultArrives, Persist, FailForRetry, MarkRetrying, AddRetry, Reschedule,
         CloseFailed, Rethrow, Falter, StepThrows, Die, Take, TakeAndSkip, TakeAndLoad, LockExpires,
         BecomesDue, CreateInsert, CreationGoesOn, CreateSchedule, CreateEnqueue,
         CreateAbandoned, RetryRead, RetryMark, RetryEnds, RetryGoesOn, RetryEnqueue, RetryRevert, KillFind,
         KillGoesOn, KillCancel, KillFail, KillQuarantine, KillAbandoned, Quarantine,
         Release
<1>3. request'[r] = request[r]
  BY <1>1, <1>2 DEF Approve, Reject, GrowStale, Expire, CreateRequest, CreateApproved, Open, TypeOK
<1> QED
  BY <1>1, <1>3 DEF Approved

LEMMA GateFrame ==
  ASSUME TypeOK, GateHolds, [Next]_vars, NobodyPasses
  PROVE  GateHolds'
  BY ApprovalsStand DEF GateHolds, NobodyPasses, PastGate

\* A handler that goes to a point before the gate, or stays past it.
LEMMA GotoPasses ==
  ASSUME TypeOK, NEW w \in Workers, NEW p, p # "idle", At(w, p), NEW pc,
         pc \in PastGate => p \in PastGate,
         Goto(w, pc) \/ \E note : GotoWith(w, pc, note)
  PROVE  NobodyPasses
<1>1. /\ worker'[w].pc = pc /\ worker'[w].job = worker[w].job
      /\ \A x \in Workers : x # w => worker'[x] = worker[x]
  BY GotoEffect
<1>2. worker'[w].pc \in PastGate => worker[w].pc \in PastGate
  BY <1>1 DEF At
<1> QED
  BY <1>1, <1>2 DEF NobodyPasses

LEMMA IdlePasses ==
  ASSUME TypeOK, NEW w \in Workers, worker' = [worker EXCEPT ![w] = Idle]
  PROVE  NobodyPasses
  BY DEF NobodyPasses, PastGate, Idle, TypeOK

LEMMA HandlerKeepsGate ==
  ASSUME TypeOK, GateHolds, NEW w \in Workers, Handler(w)
  PROVE  GateHolds'
<1> USE DEF PastGate
<1>0. [Next]_vars
  BY DEF Next
<1>1. CASE Start(w)
  BY <1>0, <1>1, GotoPasses, GateFrame DEF Start
<1>2. CASE LoadAgent(w)
  BY <1>0, <1>2, GotoPasses, GateFrame DEF LoadAgent
<1>3. CASE TripBeforeRun(w)
  BY <1>0, <1>3, GotoPasses, GateFrame DEF TripBeforeRun
<1>4. CASE ReadGate(w)
  <2>1. CASE Goto(w, "unapproved")
    BY <1>0, <1>4, <2>1, GotoPasses, GateFrame DEF ReadGate
  <2>2. CASE ~Goto(w, "unapproved")
    <3>1. /\ AgentOf[worker[w].job] \in Gated => Approved(worker[w].job)
          /\ worker'[w].job = worker[w].job
          /\ \A x \in Workers : x # w => worker'[x] = worker[x]
      BY <1>4, <2>2, GotoEffect DEF ReadGate
    <3>2. \A j : Approved(j) => Approved(j)'
      BY <1>0, ApprovalsStand
    <3> QED
      BY <3>1, <3>2 DEF GateHolds
  <2> QED
    BY <2>1, <2>2
<1>5. CASE Dispatch(w)
  BY <1>0, <1>5, GotoPasses, GateFrame DEF Dispatch
<1>6. ASSUME NEW err \in Errors, DispatchThrows(w, err) \/ ExecutionThrows(w, err)
      PROVE  GateHolds'
  <2>1. CASE DispatchThrows(w, err)
    BY <1>0, <2>1, GotoPasses, GateFrame DEF DispatchThrows
  <2>2. CASE ExecutionThrows(w, err)
    BY <1>0, <2>2, GotoPasses, GateFrame DEF ExecutionThrows
  <2> QED
    BY <1>6, <2>1, <2>2
<1>7. ASSUME NEW result \in Results, ResultArrives(w, result)
      PROVE  GateHolds'
  BY <1>0, <1>7, GotoPasses, GateFrame DEF ResultArrives
<1>8. CASE CancelCheck(w)
  BY <1>0, <1>8, CancelOnlyNotes, GateFrame DEF NobodyPasses
<1>9. CASE FailForRetry(w) \/ MarkRetrying(w) \/ AddRetry(w) \/ Reschedule(w) \/ CloseFailed(w)
  <2>1. PICK p \in {"caught", "failed", "retrying", "requeued"},
             pc \in {"failed", "retrying", "requeued", "rethrow"} : At(w, p) /\ Goto(w, pc)
    BY <1>9 DEF FailForRetry, MarkRetrying, AddRetry, Reschedule, CloseFailed
  <2> QED
    BY <1>0, <2>1, GotoPasses, GateFrame
<1>10. CASE CloseTripped(w) \/ Park(w) \/ Refuse(w) \/ Persist(w) \/ Rethrow(w) \/ Falter(w)
  BY <1>0, <1>10, IdlePasses, GateFrame
     DEF CloseTripped, Park, Refuse, Persist, Rethrow, Falter, HandBack, Return
<1>11. ASSUME NEW err \in Errors, StepThrows(w, err) PROVE GateHolds'
  <2>1. GotoWith(w, "caught", err) /\ worker[w].pc # "idle" /\ At(w, worker[w].pc)
    BY <1>11 DEF StepThrows, At
  <2>2. NobodyPasses
    BY <2>1, GotoPasses
  <2> QED
    BY <1>0, <2>2, GateFrame
<1> QED
  BY <1>1, <1>2, <1>3, <1>4, <1>5, <1>6, <1>7, <1>8, <1>9, <1>10, <1>11 DEF Handler

LEMMA EnvironmentKeepsGate ==
  ASSUME TypeOK, GateHolds, [Next]_vars, \A w \in Workers : ~Handler(w)
  PROVE  GateHolds'
<1>a. ASSUME UNCHANGED worker PROVE GateHolds'
  BY <1>a, GateFrame DEF NobodyPasses
<1>1. ASSUME NEW w \in Workers, Die(w) PROVE GateHolds'
  BY <1>1, IdlePasses, GateFrame DEF Die
<1>2. ASSUME NEW e \in Entries, NEW w \in Workers, TakeAndLoad(w, e) PROVE GateHolds'
  <2>1. worker'[w].pc = "loaded" /\ \A x \in Workers : x # w => worker'[x] = worker[x]
    BY <1>2 DEF TakeAndLoad, TypeOK
  <2> QED
    BY <2>1, GateFrame DEF NobodyPasses, PastGate
<1>3. ASSUME NEW a \in Agents, KillCancel(a) PROVE GateHolds'
  BY <1>3, CancelOnlyNotes, GateFrame DEF NobodyPasses
<1>4. UNCHANGED worker
      \/ (\E w \in Workers : Die(w) \/ \E e \in Entries : TakeAndLoad(w, e))
      \/ \E a \in Agents : KillCancel(a)
  BY DEF Next, vars, Take, TakeAndSkip, LockExpires, BecomesDue, CreateInsert,
         CreationGoesOn, CreateSchedule, CreateEnqueue, CreateAbandoned, RetryRead, RetryMark,
         RetryEnds, RetryGoesOn, RetryEnqueue, RetryRevert, KillFind, KillGoesOn, KillFail,
         KillQuarantine, KillAbandoned, Quarantine, Release, CreateRequest, CreateApproved, Approve,
         Reject, GrowStale, Expire
<1> QED
  BY <1>a, <1>1, <1>2, <1>3, <1>4

\* Whatever duplicates, deaths, retries, kills and late decisions happen, no
\* handler goes past the gate of an agent that requires approval without an
\* approved request for its job.
THEOREM GateAlwaysHolds == Spec => []GateHolds
<1>1. Init => GateHolds
  BY DEF Init, GateHolds, Idle
<1>2. TypeOK /\ GateHolds /\ [Next]_vars => GateHolds'
  BY HandlerKeepsGate, EnvironmentKeepsGate
<1> QED
  BY <1>1, <1>2, TypesHold, PTL DEF Spec

-----------------------------------------------------------------------------
\* The registry of executions.

\* Handlers that are executing a job stay on it, still executing it.
ExecutionsGoOn(w) ==
  \A x \in Workers \ {w} :
    worker[x].pc \in {"executing", "resulted"} =>
      worker'[x].pc \in {"executing", "resulted"} /\ worker'[x].job = worker[x].job

LEMMA RegistryFrame ==
  ASSUME TypeOK, RegistryIsAccurate, NEW w, ExecutionsGoOn(w),
         \A j \in Jobs : registry'[j] \in {registry[j], Nobody},
         \A j \in Jobs : registry'[j] # w
  PROVE  RegistryIsAccurate'
  BY DEF RegistryIsAccurate, ExecutionsGoOn, TypeOK

\* A handler in no execution is in no slot of the registry.
LEMMA Unregistered ==
  ASSUME TypeOK, RegistryIsAccurate, NEW w \in Workers,
         worker[w].pc \notin {"executing", "resulted"}
  PROVE  \A j \in Jobs : registry[j] # w
  BY ConstantsAssumption DEF RegistryIsAccurate, TypeOK

LEMMA HandlerKeepsRegistry ==
  ASSUME TypeOK, RegistryIsAccurate, NEW w \in Workers, Handler(w)
  PROVE  RegistryIsAccurate'
<1>a. w # Nobody
  BY ConstantsAssumption
<1>1. CASE Start(w) \/ LoadAgent(w) \/ TripBeforeRun(w) \/ ReadGate(w)
           \/ FailForRetry(w) \/ MarkRetrying(w) \/ AddRetry(w) \/ Reschedule(w)
           \/ CloseFailed(w)
  <2>1. PICK p \in {"loaded", "started", "admitted", "caught", "failed", "retrying",
                    "requeued"} :
          At(w, p) /\ \E pc : pc # "idle" /\ (Goto(w, pc) \/ \E note : GotoWith(w, pc, note))
    <3>1. CASE Start(w)
      BY <3>1 DEF Start
    <3>2. CASE LoadAgent(w)
      BY <3>2 DEF LoadAgent
    <3>3. CASE TripBeforeRun(w)
      BY <3>3 DEF TripBeforeRun
    <3>4. CASE ReadGate(w)
      BY <3>4 DEF ReadGate
    <3>5. CASE FailForRetry(w) \/ MarkRetrying(w) \/ AddRetry(w) \/ Reschedule(w) \/ CloseFailed(w)
      BY <3>5 DEF FailForRetry, MarkRetrying, AddRetry, Reschedule, CloseFailed
    <3> QED
      BY <1>1, <3>1, <3>2, <3>3, <3>4, <3>5
  <2>2. \A x \in Workers : x # w => worker'[x] = worker[x]
    BY <2>1, GotoEffect
  <2>3. UNCHANGED registry
    BY <1>1 DEF Start, LoadAgent, TripBeforeRun, ReadGate, FailForRetry, MarkRetrying,
                AddRetry, Reschedule, CloseFailed
  <2>4. \A j \in Jobs : registry[j] # w
    BY <2>1, Unregistered DEF At
  <2> QED
    BY <2>2, <2>3, <2>4, RegistryFrame DEF ExecutionsGoOn
<1>2. CASE CloseTripped(w) \/ Park(w) \/ Refuse(w) \/ Rethrow(w) \/ Falter(w)
  <2>1. worker' = [worker EXCEPT ![w] = Idle] /\ UNCHANGED registry
    BY <1>2 DEF CloseTripped, Park, Refuse, Rethrow, Falter, HandBack, Return
  <2>2. \A j \in Jobs : registry[j] # w
    BY <1>2, Unregistered DEF CloseTripped, Park, Refuse, Rethrow, Falter, At
  <2> QED
    BY <2>1, <2>2, RegistryFrame DEF ExecutionsGoOn, TypeOK
<1>3. CASE Dispatch(w)
  <2>1. /\ worker'[w].pc = "executing" /\ worker'[w].job = worker[w].job
        /\ \A x \in Workers : x # w => worker'[x] = worker[x]
    BY <1>3, GotoEffect DEF Dispatch
  <2>2. \A j \in Jobs : registry[j] # w
    BY <1>3, Unregistered DEF Dispatch, At
  <2>3. registry' = [registry EXCEPT ![worker[w].job] = w]
    BY <1>3 DEF Dispatch
  <2> QED
    BY <2>1, <2>2, <2>3 DEF RegistryIsAccurate, TypeOK
<1>4. ASSUME NEW err \in Errors, DispatchThrows(w, err) PROVE RegistryIsAccurate'
  <2>1. \A x \in Workers : x # w => worker'[x] = worker[x]
    BY <1>4, GotoEffect DEF DispatchThrows
  <2>2. \A j \in Jobs : registry[j] # w
    BY <1>4, Unregistered DEF DispatchThrows, At
  <2>3. \A j \in Jobs : registry'[j] \in {registry[j], Nobody}
    BY <1>4 DEF DispatchThrows, TypeOK
  <2> QED
    BY <1>a, <2>1, <2>2, <2>3, RegistryFrame DEF ExecutionsGoOn
<1>5. ASSUME NEW j \in Jobs, registry[j] = w PROVE j = worker[w].job
  BY <1>a, <1>5 DEF RegistryIsAccurate
<1>6. ASSUME registry' = [registry EXCEPT ![worker[w].job] = Nobody]
      PROVE  /\ \A j \in Jobs : registry'[j] \in {registry[j], Nobody}
             /\ \A j \in Jobs : registry'[j] # w
  BY <1>a, <1>5, <1>6 DEF TypeOK
<1>7. ASSUME NEW err \in Errors, ExecutionThrows(w, err) PROVE RegistryIsAccurate'
  <2>1. \A x \in Workers : x # w => worker'[x] = worker[x]
    BY <1>7, GotoEffect DEF ExecutionThrows
  <2> QED
    BY <1>6, <1>7, <2>1, RegistryFrame DEF ExecutionThrows, ExecutionsGoOn
<1>8. CASE Persist(w)
  BY <1>6, <1>8, RegistryFrame DEF Persist, Return, ExecutionsGoOn, TypeOK
<1>9. ASSUME NEW result \in Results, ResultArrives(w, result) PROVE RegistryIsAccurate'
  <2>1. /\ worker'[w].pc = "resulted" /\ worker'[w].job = worker[w].job
        /\ \A x \in Workers : x # w => worker'[x] = worker[x]
    BY <1>9, GotoEffect DEF ResultArrives
  <2>2. UNCHANGED registry
    BY <1>9 DEF ResultArrives
  <2> QED
    BY <2>1, <2>2 DEF RegistryIsAccurate, TypeOK
<1>10. CASE CancelCheck(w)
  <2>1. UNCHANGED registry
    BY <1>10 DEF CancelCheck
  <2> QED
    BY <1>10, <2>1, CancelOnlyNotes DEF RegistryIsAccurate, TypeOK
<1>11. ASSUME NEW err \in Errors, StepThrows(w, err) PROVE RegistryIsAccurate'
  <2>1. \A x \in Workers : x # w => worker'[x] = worker[x]
    BY <1>11, GotoEffect DEF StepThrows, At
  <2>2. \A j \in Jobs : registry'[j] \in {registry[j], Nobody}
    BY <1>11 DEF StepThrows, TypeOK
  <2>3. \A j \in Jobs : registry'[j] # w
    <3>1. CASE At(w, "resulted")
      BY <1>11, <1>6, <3>1 DEF StepThrows
    <3>2. CASE ~At(w, "resulted")
      BY <1>a, <1>11, <2>2, <3>2, Unregistered DEF StepThrows, At
    <3> QED
      BY <3>1, <3>2
  <2> QED
    BY <2>1, <2>2, <2>3, RegistryFrame DEF ExecutionsGoOn
<1> QED
  BY <1>1, <1>2, <1>3, <1>4, <1>7, <1>8, <1>9, <1>10, <1>11 DEF Handler

LEMMA EnvironmentKeepsRegistry ==
  ASSUME TypeOK, RegistryIsAccurate, [Next]_vars, \A w \in Workers : ~Handler(w)
  PROVE  RegistryIsAccurate'
<1>1. ASSUME NEW w \in Workers, Die(w) PROVE RegistryIsAccurate'
  <2>1. w # Nobody
    BY ConstantsAssumption
  <2> QED
    BY <1>1, <2>1, RegistryFrame DEF Die, ExecutionsGoOn, TypeOK
<1>2. ASSUME NEW e \in Entries, NEW w \in Workers, TakeAndLoad(w, e)
      PROVE  RegistryIsAccurate'
  <2>1. \A x \in Workers : x # w => worker'[x] = worker[x]
    BY <1>2 DEF TakeAndLoad, TypeOK
  <2>2. \A j \in Jobs : registry[j] # w
    BY <1>2, Unregistered DEF TakeAndLoad, At
  <2>3. UNCHANGED registry
    BY <1>2 DEF TakeAndLoad
  <2> QED
    BY <2>1, <2>2, <2>3, RegistryFrame DEF ExecutionsGoOn
<1>3. ASSUME NEW a \in Agents, KillCancel(a) PROVE RegistryIsAccurate'
  <2>1. UNCHANGED registry
    BY <1>3 DEF KillCancel
  <2> QED
    BY <1>3, <2>1, CancelOnlyNotes DEF RegistryIsAccurate, TypeOK
<1>4. UNCHANGED <<worker, registry>>
      \/ (\E w \in Workers : Die(w) \/ \E e \in Entries : TakeAndLoad(w, e))
      \/ \E a \in Agents : KillCancel(a)
  BY DEF Next, vars, Take, TakeAndSkip, LockExpires, BecomesDue, CreateInsert,
         CreationGoesOn, CreateSchedule, CreateEnqueue, CreateAbandoned, RetryRead, RetryMark,
         RetryEnds, RetryGoesOn, RetryEnqueue, RetryRevert, KillFind, KillGoesOn, KillFail,
         KillQuarantine, KillAbandoned, Quarantine, Release, CreateRequest, CreateApproved, Approve,
         Reject, GrowStale, Expire
<1>5. CASE UNCHANGED <<worker, registry>>
  BY <1>5 DEF RegistryIsAccurate
<1> QED
  BY <1>1, <1>2, <1>3, <1>4, <1>5

\* A kill that looks a job up in the registry finds a handler executing that
\* very job, after any duplicate execution, retry or death.
THEOREM RegistryAlwaysAccurate == Spec => []RegistryIsAccurate
<1>1. Init => RegistryIsAccurate
  BY DEF Init, RegistryIsAccurate
<1>2. TypeOK /\ RegistryIsAccurate /\ [Next]_vars => RegistryIsAccurate'
  BY HandlerKeepsRegistry, EnvironmentKeepsRegistry
<1> QED
  BY <1>1, <1>2, TypesHold, PTL DEF Spec

-----------------------------------------------------------------------------
(*****************************************************************************)
(* JobLifecycle implements JobStateMachine: for any number of handlers, in   *)
(* any interleaving and after any failure, every statement that changes      *)
(* job.status asks for a transition the database trigger lets through.  The  *)
(* trigger itself is in two of them only, those of the dashboard's retry.    *)
(*****************************************************************************)

\* Between the INSERT and the UPDATE of the creating route, nothing else moves
\* the job.
CreatingIsPending ==
  \A j \in Jobs : creating[j] = "inserted" => job[j].status = "PENDING"

\* A retry that has written RETRYING deals with a job that was scheduled before.
MarkedIsPast ==
  \A j \in Jobs : InRetry(j, "marked") => job[j].status \notin {Absent, "PENDING"}

status == [j \in Jobs |-> job[j].status]

\* What a conditional UPDATE may do to the statuses.
LEMMA UpdateJobObeys ==
  ASSUME job \in [Jobs -> JobRow], NEW j \in Jobs, NEW from, NEW to,
         NEW closes \in BOOLEAN, UpdateJob(j, from, to, closes),
         StateMachine!ValidTransition(from, to), to \in StateMachine!Statuses
  PROVE  StateMachine!Next \/ UNCHANGED status
<1>1. CASE job[j].status = from
  <2>1. job' = [job EXCEPT ![j] = [job[j] EXCEPT !.status = to,
                                                !.completed = closes \/ job[j].completed]]
    BY <1>1 DEF UpdateJob
  <2>2. job'[j].status = to /\ \A k \in Jobs \ {j} : job'[k] = job[k]
    BY <2>1 DEF JobRow
  <2>3. status' = [status EXCEPT ![j] = to]
    BY <2>2 DEF status
  <2>4. StateMachine!Update(j, to)
    BY <1>1, <2>3 DEF StateMachine!Update, status
  <2> QED
    BY <2>4 DEF StateMachine!Next
<1>2. CASE job[j].status # from
  BY <1>2 DEF UpdateJob, status
<1> QED
  BY <1>1, <1>2

\* A conditional UPDATE that no trigger rejects and that no row between its
\* INSERT and its first UPDATE matches.
SafeMove ==
  /\ UNCHANGED creating
  /\ \E j \in Jobs, from \in JobStatus \ {"PENDING"}, to \in StateMachine!Statuses,
        closes \in BOOLEAN :
       UpdateJob(j, from, to, closes) /\ StateMachine!ValidTransition(from, to)

NoMove ==
  UNCHANGED job /\ \A j \in Jobs : creating'[j] = "inserted" => creating[j] = "inserted"

LEMMA HandlerMoves ==
  ASSUME TypeOK, NEW w \in Workers, Handler(w)
  PROVE  NoMove \/ SafeMove \/ Start(w)
<1> USE DEF MoveJob, StateMachine!ValidTransition, StateMachine!Statuses, JobStatus
<1>a. ASSUME NEW pc, pc # "idle", At(w, pc) PROVE worker[w].job \in Jobs
  BY <1>a, BusyAt DEF TypeOK, BusyHandler
<1>1. CASE LoadAgent(w) \/ TripBeforeRun(w) \/ ReadGate(w) \/ Dispatch(w)
           \/ CancelCheck(w) \/ AddRetry(w) \/ Rethrow(w) \/ Falter(w)
  BY <1>1 DEF LoadAgent, TripBeforeRun, ReadGate, Dispatch, CancelCheck, AddRetry,
              Rethrow, Falter, NoMove
<1>2. ASSUME NEW err \in Errors,
             DispatchThrows(w, err) \/ ExecutionThrows(w, err) \/ StepThrows(w, err)
      PROVE  NoMove
  BY <1>2 DEF DispatchThrows, ExecutionThrows, StepThrows, NoMove
<1>3. ASSUME NEW result \in Results, ResultArrives(w, result) PROVE NoMove
  BY <1>3 DEF ResultArrives, NoMove
<1>4. CASE CloseTripped(w) \/ Refuse(w)
  BY <1>4, <1>a DEF CloseTripped, Refuse, SafeMove
<1>5. CASE Park(w)
  BY <1>5, <1>a DEF Park, SafeMove
<1>6. CASE Persist(w)
  <2>1. mapExecutionStatus(worker[w].note) \in {"COMPLETED", "TIMED_OUT", "FAILED"}
    BY DEF mapExecutionStatus
  <2> QED
    BY <1>6, <1>a, <2>1 DEF Persist, SafeMove
<1>7. CASE FailForRetry(w)
  BY <1>7, <1>a DEF FailForRetry, SafeMove
<1>8. CASE MarkRetrying(w)
  BY <1>8, <1>a DEF MarkRetrying, SafeMove
<1>9. CASE Reschedule(w)
  BY <1>9, <1>a DEF Reschedule, SafeMove
<1>10. CASE CloseFailed(w)
  BY <1>10, <1>a DEF CloseFailed, SafeMove
<1> QED
  BY <1>1, <1>2, <1>3, <1>4, <1>5, <1>6, <1>7, <1>8, <1>9, <1>10 DEF Handler

LEMMA EnvironmentMoves ==
  ASSUME TypeOK, [Next]_vars, \A w \in Workers : ~Handler(w)
  PROVE  \/ NoMove \/ SafeMove
         \/ \E j \in Jobs :
              CreateInsert(j) \/ CreateSchedule(j) \/ RetryMark(j) \/ RetryRevert(j)
<1> USE DEF MoveJob, StateMachine!ValidTransition, StateMachine!Statuses, JobStatus
<1>1. ASSUME NEW w \in Workers, Die(w) PROVE NoMove
  BY <1>1 DEF Die, NoMove
<1>2. ASSUME NEW e \in Entries, Take(e) \/ LockExpires(e) \/ BecomesDue(e) PROVE NoMove
  BY <1>2 DEF Take, TakeAndSkip, TakeAndLoad, LockExpires, BecomesDue, NoMove
<1>3. ASSUME NEW j \in Jobs,
             \/ CreateEnqueue(j) \/ CreateAbandoned(j)
             \/ RetryRead(j) \/ RetryEnqueue(j) \/ RetryEnds(j)
      PROVE  NoMove
  BY <1>3 DEF CreateEnqueue, CreateAbandoned, RetryRead, RetryEnqueue, RetryEnds, NoMove,
              TypeOK
<1>4. ASSUME NEW a \in Agents,
             \/ KillFind(a) \/ KillCancel(a) \/ KillQuarantine(a) \/ KillAbandoned(a)
             \/ Quarantine(a) \/ Release(a)
      PROVE  NoMove
  BY <1>4 DEF KillFind, KillCancel, KillQuarantine, KillAbandoned, Quarantine, Release,
              NoMove
<1>5. ASSUME NEW a \in Agents, KillFail(a) PROVE NoMove \/ SafeMove
  <2>1. CASE kill[a].job \in Jobs
    BY <1>5, <2>1 DEF KillFail, SafeMove
  <2>2. CASE kill[a].job \notin Jobs
    BY <1>5, <2>2 DEF KillFail, UpdateJob, NoMove, TypeOK
  <2> QED
    BY <2>1, <2>2
<1>6. ASSUME NEW r \in Requests, NEW j \in Jobs, CreateRequest(r, j) \/ CreateApproved(r, j)
      PROVE  NoMove \/ SafeMove
  BY <1>6 DEF CreateRequest, CreateApproved, SafeMove, NoMove
<1>7. ASSUME NEW r \in Requests, Approve(r) \/ Reject(r) \/ GrowStale(r) \/ Expire(r)
      PROVE  NoMove \/ SafeMove
  <2>1. request[r].job \in Jobs
    BY <1>7 DEF Approve, Reject, GrowStale, Expire, Open, TypeOK, RequestRow
  <2>2. CASE Approve(r)
    BY <2>1, <2>2 DEF Approve, SafeMove
  <2>3. CASE Reject(r) \/ Expire(r)
    BY <2>1, <2>3 DEF Reject, Expire, SafeMove
  <2>4. CASE GrowStale(r)
    BY <2>4 DEF GrowStale, NoMove
  <2> QED
    BY <1>7, <2>2, <2>3, <2>4
<1>8. CASE UNCHANGED vars
  BY <1>8 DEF vars, NoMove
<1> QED
  BY <1>1, <1>2, <1>3, <1>4, <1>5, <1>6, <1>7, <1>8
     DEF Next, CreationGoesOn, RetryGoesOn, KillGoesOn

LEMMA Moves ==
  ASSUME TypeOK, [Next]_vars
  PROVE  \/ NoMove \/ SafeMove
         \/ \E w \in Workers : Start(w)
         \/ \E j \in Jobs :
              CreateInsert(j) \/ CreateSchedule(j) \/ RetryMark(j) \/ RetryRevert(j)
  BY HandlerMoves, EnvironmentMoves

LEMMA PendingIsKept ==
  ASSUME TypeOK, CreatingIsPending, MarkedIsPast, [Next]_vars
  PROVE  CreatingIsPending'
<1>1. CASE NoMove
  BY <1>1 DEF NoMove, CreatingIsPending
<1>2. CASE SafeMove
  BY <1>2 DEF SafeMove, UpdateJob, CreatingIsPending, TypeOK
<1>3. ASSUME NEW w \in Workers, Start(w) PROVE CreatingIsPending'
  BY <1>3 DEF Start, CreatingIsPending, TypeOK
<1>4. ASSUME NEW j \in Jobs, CreateInsert(j) PROVE CreatingIsPending'
  BY <1>4 DEF CreateInsert, CreatingIsPending, TypeOK, JobRow
<1>5. ASSUME NEW j \in Jobs, CreateSchedule(j) PROVE CreatingIsPending'
  BY <1>5 DEF CreateSchedule, CreatingIsPending, TypeOK
<1>6. ASSUME NEW j \in Jobs, RetryMark(j) PROVE CreatingIsPending'
  BY <1>6 DEF RetryMark, TriggerPasses, StateMachine!ValidTransition, CreatingIsPending, TypeOK
<1>7. ASSUME NEW j \in Jobs, RetryRevert(j) PROVE CreatingIsPending'
  BY <1>7 DEF RetryRevert, MarkedIsPast, CreatingIsPending, TypeOK
<1> QED
  BY <1>1, <1>2, <1>3, <1>4, <1>5, <1>6, <1>7, Moves

\* The retry route of a job stands still, or goes on by a step of its own.
LEMMA RetryGoes ==
  ASSUME TypeOK, [Next]_vars, NEW j \in Jobs
  PROVE  \/ retry'[j] = retry[j]
         \/ RetryRead(j) \/ RetryMark(j) \/ RetryEnqueue(j) \/ RetryRevert(j) \/ RetryEnds(j)
<1>1. ASSUME NEW k \in Jobs, k # j, RetryRead(k) \/ RetryGoesOn(k)
      PROVE  retry'[j] = retry[j]
  BY <1>1 DEF RetryRead, RetryGoesOn, RetryMark, RetryEnqueue, RetryRevert, RetryEnds, TypeOK
<1>2. UNCHANGED retry \/ \E k \in Jobs : RetryRead(k) \/ RetryGoesOn(k)
  BY DEF Next, vars, Handler, Start, LoadAgent, TripBeforeRun, CloseTripped, ReadGate,
     Park, Refuse, Dispatch, DispatchThrows, ExecutionThrows, CancelCheck,
     ResultArrives, Persist, FailForRetry, MarkRetrying, AddRetry, Reschedule,
     CloseFailed, Rethrow, Falter, StepThrows, Die, Take, TakeAndSkip, TakeAndLoad,
     LockExpires, BecomesDue, CreateInsert, CreationGoesOn, CreateSchedule,
     CreateEnqueue, CreateAbandoned, KillFind, KillGoesOn, KillCancel, KillFail,
     KillQuarantine, KillAbandoned, Quarantine, Release, CreateRequest, CreateApproved,
     Approve, Reject, GrowStale, Expire
<1> QED
  BY <1>1, <1>2 DEF RetryGoesOn

LEMMA PastIsKept ==
  ASSUME TypeOK, MarkedIsPast, [Next]_vars
  PROVE  MarkedIsPast'
<1> SUFFICES ASSUME NEW j \in Jobs, InRetry(j, "marked")'
             PROVE  job'[j].status \notin {Absent, "PENDING"}
  BY DEF MarkedIsPast
<1>1. InRetry(j, "marked") \/ RetryMark(j)
  <2>1. RetryRead(j) => ~InRetry(j, "marked")'
    BY DEF RetryRead, InRetry, TypeOK
  <2>2. RetryEnqueue(j) \/ RetryRevert(j) \/ RetryEnds(j) => ~InRetry(j, "marked")'
    BY DEF RetryEnqueue, RetryRevert, RetryEnds, InRetry, TypeOK
  <2> QED
    BY <2>1, <2>2, RetryGoes DEF InRetry
<1>2. CASE RetryMark(j)
  BY <1>2 DEF RetryMark, Absent, TypeOK, JobRow
<1> USE DEF MarkedIsPast
<1>3. CASE NoMove
  BY <1>1, <1>2, <1>3 DEF NoMove
<1>4. CASE SafeMove
  BY <1>1, <1>2, <1>4 DEF SafeMove, UpdateJob, StateMachine!Statuses, Absent, TypeOK, JobRow
<1>5. ASSUME NEW w \in Workers, Start(w) PROVE job'[j].status \notin {Absent, "PENDING"}
  BY <1>1, <1>2, <1>5 DEF Start, Absent, TypeOK, JobRow
<1>6. ASSUME NEW k \in Jobs, CreateInsert(k) \/ CreateSchedule(k)
      PROVE  job'[j].status \notin {Absent, "PENDING"}
  BY <1>1, <1>2, <1>6 DEF CreateInsert, CreateSchedule, Absent, TypeOK, JobRow
<1>7. ASSUME NEW k \in Jobs, RetryMark(k) \/ RetryRevert(k)
      PROVE  job'[j].status \notin {Absent, "PENDING"}
  <2>1. CASE k = j
    BY <1>2, <1>7, <2>1 DEF RetryRevert, InRetry, TypeOK
  <2>2. CASE k # j
    <3>1. retry'[j] = retry[j] /\ job'[j] = job[j]
      BY <1>7, <2>2 DEF RetryMark, RetryRevert, TypeOK
    <3> QED
      BY <1>1, <1>2, <3>1
  <2> QED
    BY <2>1, <2>2
<1> QED
  BY <1>3, <1>4, <1>5, <1>6, <1>7, Moves

LEMMA EveryStepObeys ==
  ASSUME TypeOK, CreatingIsPending, [Next]_vars
  PROVE  StateMachine!Next \/ UNCHANGED status
<1>1. CASE NoMove
  BY <1>1 DEF NoMove, status
<1>2. CASE SafeMove
  BY <1>2, UpdateJobObeys DEF SafeMove, TypeOK
<1>3. ASSUME NEW j \in Jobs, NEW to \in StateMachine!Statuses,
             StateMachine!ValidTransition(job[j].status, to),
             job'[j].status = to, \A k \in Jobs \ {j} : job'[k] = job[k]
      PROVE  StateMachine!Next
  <2>1. status' = [status EXCEPT ![j] = to]
    BY <1>3 DEF status
  <2>2. StateMachine!Update(j, to)
    BY <1>3, <2>1 DEF StateMachine!Update, status
  <2> QED
    BY <2>2 DEF StateMachine!Next
<1> USE DEF StateMachine!ValidTransition, StateMachine!Statuses
<1>4. ASSUME NEW w \in Workers, Start(w) PROVE StateMachine!Next \/ UNCHANGED status
  <2> DEFINE j == worker[w].job
  <2>1. j \in Jobs
    BY <1>4, BusyAt DEF Start, TypeOK, BusyHandler
  <2>2. CASE job[j].status = "SCHEDULED"
    <3>1. job'[j].status = "RUNNING" /\ \A k \in Jobs \ {j} : job'[k] = job[k]
      BY <1>4, <2>1, <2>2 DEF Start, TypeOK, JobRow
    <3> QED
      BY <1>3, <2>1, <2>2, <3>1
  <2>3. CASE job[j].status # "SCHEDULED"
    BY <1>4, <2>1, <2>3 DEF Start, TypeOK, status
  <2> QED
    BY <2>2, <2>3
<1>5. ASSUME NEW j \in Jobs, CreateInsert(j) PROVE StateMachine!Next
  <2>1. job'[j].status = "PENDING" /\ \A k \in Jobs \ {j} : job'[k] = job[k]
    BY <1>5 DEF CreateInsert, TypeOK, JobRow
  <2>2. status' = [status EXCEPT ![j] = "PENDING"]
    BY <2>1 DEF status
  <2>3. StateMachine!Insert(j)
    BY <1>5, <2>2 DEF CreateInsert, StateMachine!Insert, StateMachine!Absent, status, Absent
  <2> QED
    BY <2>3 DEF StateMachine!Next
<1>6. ASSUME NEW j \in Jobs, CreateSchedule(j) PROVE StateMachine!Next
  <2>1. /\ job[j].status = "PENDING" /\ job'[j].status = "SCHEDULED"
        /\ \A k \in Jobs \ {j} : job'[k] = job[k]
    BY <1>6 DEF CreateSchedule, CreatingIsPending, TypeOK, JobRow
  <2> QED
    BY <1>3, <2>1
<1>7. ASSUME NEW j \in Jobs, RetryMark(j) PROVE StateMachine!Next \/ UNCHANGED status
  <2>1. job'[j].status = "RETRYING" /\ \A k \in Jobs \ {j} : job'[k] = job[k]
    BY <1>7 DEF RetryMark, TypeOK, JobRow
  <2>2. CASE job[j].status = "RETRYING"
    BY <2>1, <2>2 DEF status
  <2> QED
    BY <1>3, <1>7, <2>1, <2>2 DEF RetryMark, TriggerPasses
<1>8. ASSUME NEW j \in Jobs, RetryRevert(j) PROVE StateMachine!Next \/ UNCHANGED status
  <2> DEFINE to == retry[j].status
  <2>1. job'[j].status = to /\ \A k \in Jobs \ {j} : job'[k] = job[k]
    BY <1>8 DEF RetryRevert, TypeOK, JobRow
  <2>2. CASE job[j].status = to
    BY <2>1, <2>2 DEF status
  <2>3. CASE StateMachine!ValidTransition(job[j].status, to)
    <3>1. to \in StateMachine!Statuses
      BY <2>3
    <3> QED
      BY <1>3, <2>1, <2>3, <3>1
  <2> QED
    BY <1>8, <2>2, <2>3 DEF RetryRevert, TriggerPasses
<1> QED
  BY <1>1, <1>2, <1>4, <1>5, <1>6, <1>7, <1>8, Moves

\* Apart from the two statements of the dashboard's retry, which the trigger
\* guards, no handler, route or decision issues a statement that the trigger
\* refuses, whatever that retry has written over the job meanwhile.
THEOREM TriggerIsObeyed == Spec => ObeysTrigger
<1>1. Init => StateMachine!Init /\ CreatingIsPending /\ MarkedIsPast
  BY DEF Init, StateMachine!Init, StateMachine!Absent, Absent, CreatingIsPending,
         MarkedIsPast, InRetry
<1>2. TypeOK /\ CreatingIsPending /\ MarkedIsPast /\ [Next]_vars
        => CreatingIsPending' /\ MarkedIsPast'
  BY PendingIsKept, PastIsKept
<1>3. TypeOK /\ CreatingIsPending /\ [Next]_vars => [StateMachine!Next]_status
  BY EveryStepObeys
<1> QED
  BY <1>1, <1>2, <1>3, TypesHold, PTL DEF Spec, ObeysTrigger, StateMachine!Spec, status

-----------------------------------------------------------------------------
(*****************************************************************************)
(* What a step may do to one job and to one handler.  These lemmas are all   *)
(* that the proofs below need to know of the actions.                        *)
(*****************************************************************************)

LEMMA MoveJobEffect ==
  ASSUME job \in [Jobs -> JobRow], NEW j \in Jobs, NEW from, NEW to, NEW closes,
         MoveJob(j, from, to, closes)
  PROVE  /\ job[j].status = from => job'[j].status = to
         /\ job[j].status # from => job'[j].status = job[j].status
         /\ job[j].status = from /\ closes => job'[j].completed
         /\ \A k \in Jobs \ {j} : job'[k] = job[k]
  BY DEF MoveJob, UpdateJob, JobRow

\* The statuses from which a job is not worked on any more.
Parked == {"WAITING_FOR_APPROVAL", "COMPLETED", "FAILED", "TIMED_OUT"}

\* Who gives job j another status, unless a handler, a kill, a request or a
\* decision parks or ends it.
Works(j, A(_)) == \E w \in Workers : worker[w].job = j /\ A(w)

Revives(j) ==
  \/ job'[j].status = "PENDING" /\ CreateInsert(j)
  \/ job'[j].status = "SCHEDULED" /\ (CreateSchedule(j) \/ Works(j, Reschedule))
  \/ job'[j].status = "RETRYING" /\ (RetryMark(j) \/ Works(j, MarkRetrying))
  \/ /\ job'[j].status = "RUNNING"
     /\ \/ job[j].status = "SCHEDULED" /\ Works(j, Start)
        \/ \E r \in Requests : Approve(r) /\ request[r].job = j
  \/ RetryRevert(j)

\* What parks or ends job j, leaving no handler to finish it.
Parks(j) ==
  /\ job'[j].status \in Parked
  /\ job'[j].status = "FAILED" =>
       job'[j].completed \/ Works(j, FailForRetry)

LEMMA HandlerWrites ==
  ASSUME TypeOK, NEW w \in Workers, Handler(w),
         NEW j \in Jobs, job'[j].status # job[j].status
  PROVE  Revives(j) \/ Parks(j)
<1> USE DEF Revives, Parks, Works, Parked
<1>a. ASSUME NEW pc, pc # "idle", At(w, pc) PROVE worker[w].job \in Jobs
  BY <1>a, BusyAt DEF TypeOK, BusyHandler
<1>1. CASE LoadAgent(w) \/ TripBeforeRun(w) \/ ReadGate(w) \/ Dispatch(w)
           \/ CancelCheck(w) \/ AddRetry(w) \/ Rethrow(w) \/ Falter(w)
  BY <1>1 DEF LoadAgent, TripBeforeRun, ReadGate, Dispatch, CancelCheck, AddRetry, Rethrow,
              Falter
<1>2. ASSUME NEW err \in Errors,
             DispatchThrows(w, err) \/ ExecutionThrows(w, err) \/ StepThrows(w, err)
      PROVE  FALSE
  BY <1>2 DEF DispatchThrows, ExecutionThrows, StepThrows
<1>3. ASSUME NEW result \in Results, ResultArrives(w, result) PROVE FALSE
  BY <1>3 DEF ResultArrives
<1>4. CASE Start(w)
  <2>1. worker[w].job = j /\ job[j].status = "SCHEDULED"
    BY <1>4, <1>a DEF Start, TypeOK
  <2>2. job'[j] = [job[j] EXCEPT !.status = "RUNNING", !.attempt = worker[w].attempt + 1]
    BY <1>4, <2>1 DEF Start, TypeOK
  <2>3. job'[j].status = "RUNNING"
    BY <2>2 DEF TypeOK, JobRow
  <2> QED
    BY <1>4, <2>1, <2>3
<1>b. job \in [Jobs -> JobRow]
  BY DEF TypeOK
<1>5. CASE CloseTripped(w) \/ Refuse(w) \/ Park(w) \/ FailForRetry(w)
  <2>1. CASE CloseTripped(w) \/ Refuse(w)
    BY <1>a, <1>b, <2>1, MoveJobEffect DEF CloseTripped, Refuse
  <2>2. CASE Park(w)
    <3>1. worker[w].job \in Jobs /\ MoveJob(worker[w].job, "RUNNING", "WAITING_FOR_APPROVAL", FALSE)
      BY <1>a, <2>2 DEF Park
    <3>2. job'[j].status = "WAITING_FOR_APPROVAL"
      BY <1>b, <3>1, MoveJobEffect
    <3> QED
      BY <3>2
  <2>3. CASE FailForRetry(w)
    BY <1>a, <1>b, <2>3, MoveJobEffect DEF FailForRetry
  <2> QED
    BY <1>5, <2>1, <2>2, <2>3
<1>6. CASE Persist(w)
  <2>1. mapExecutionStatus(worker[w].note) \in {"COMPLETED", "TIMED_OUT", "FAILED"}
    BY DEF mapExecutionStatus
  <2> QED
    BY <1>6, <1>a, <2>1, MoveJobEffect DEF Persist, TypeOK
<1>7. CASE MarkRetrying(w)
  BY <1>7, <1>a, MoveJobEffect DEF MarkRetrying, TypeOK
<1>8. CASE Reschedule(w)
  BY <1>8, <1>a, MoveJobEffect DEF Reschedule, TypeOK
<1>9. CASE CloseFailed(w)
  BY <1>9, <1>a, MoveJobEffect DEF CloseFailed, TypeOK
<1> QED
  BY <1>1, <1>2, <1>3, <1>4, <1>5, <1>6, <1>7, <1>8, <1>9 DEF Handler

LEMMA WhoWrites ==
  ASSUME TypeOK, [Next]_vars, NEW j \in Jobs, job'[j].status # job[j].status
  PROVE  Revives(j) \/ Parks(j)
<1>1. ASSUME NEW w \in Workers, Handler(w) PROVE Revives(j) \/ Parks(j)
  BY <1>1, HandlerWrites
<1>2. ASSUME NEW k \in Jobs, CreateInsert(k) \/ CreateSchedule(k) \/ RetryMark(k)
      PROVE  Revives(j)
  <2>1. k = j
    BY <1>2 DEF CreateInsert, CreateSchedule, RetryMark, TypeOK
  <2>2. CASE CreateInsert(k) \/ CreateSchedule(k)
    BY <2>1, <2>2 DEF CreateInsert, CreateSchedule, Revives, TypeOK, JobRow
  <2>3. CASE RetryMark(k)
    <3>1. job'[j].status = "RETRYING"
      BY <2>1, <2>3 DEF RetryMark, TypeOK, JobRow
    <3> QED
      BY <2>1, <2>3, <3>1 DEF Revives
  <2> QED
    BY <1>2, <2>2, <2>3
<1>3. ASSUME NEW k \in Jobs, RetryRevert(k) PROVE Revives(j)
  <2>1. k = j
    BY <1>3 DEF RetryRevert, TypeOK
  <2> QED
    BY <1>3, <2>1 DEF Revives
<1>4. ASSUME NEW a \in Agents, KillFail(a) PROVE Parks(j)
  <2>1. kill[a].job \in Jobs
    BY <1>4 DEF KillFail, MoveJob, UpdateJob, TypeOK
  <2>2. MoveJob(kill[a].job, "RUNNING", "FAILED", TRUE)
    BY <1>4 DEF KillFail
  <2>3. job[kill[a].job].status # "RUNNING" => UNCHANGED job
    BY <2>1, <2>2 DEF MoveJob, UpdateJob, TypeOK
  <2> QED
    <3>1. job \in [Jobs -> JobRow]
      BY DEF TypeOK
    <3>2. kill[a].job = j /\ job[j].status = "RUNNING"
      BY <2>1, <2>2, <2>3, <3>1, MoveJobEffect
    <3>3. job'[j].status = "FAILED" /\ job'[j].completed
      BY <2>1, <2>2, <3>1, <3>2, MoveJobEffect
    <3> QED
      BY <3>3 DEF Parked, Parks
<1>5. ASSUME NEW r \in Requests, NEW k \in Jobs, CreateRequest(r, k)
      PROVE  Parks(j)
  <2>1. job \in [Jobs -> JobRow] /\ MoveJob(k, "RUNNING", "WAITING_FOR_APPROVAL", FALSE)
    BY <1>5 DEF CreateRequest, TypeOK
  <2>2. job'[j].status = "WAITING_FOR_APPROVAL"
    BY <2>1, MoveJobEffect
  <2> QED
    BY <2>2 DEF Parked, Parks
<1>6. ASSUME NEW r \in Requests, Approve(r) \/ Reject(r) \/ Expire(r)
      PROVE  Revives(j) \/ Parks(j)
  <2>1. request[r].job \in Jobs
    BY <1>6 DEF Approve, Reject, Expire, Open, TypeOK, RequestRow
  <2>2. CASE Approve(r)
    BY <2>1, <2>2 DEF Approve, UpdateJob, Revives, TypeOK, JobRow
  <2>3. CASE Reject(r) \/ Expire(r)
    BY <2>1, <2>3, MoveJobEffect DEF Reject, Expire, Parked, Parks, TypeOK
  <2> QED
    BY <1>6, <2>2, <2>3
<1>7. \/ \E w \in Workers : Handler(w)
      \/ UNCHANGED job
      \/ \E k \in Jobs : CreateInsert(k) \/ CreateSchedule(k) \/ RetryMark(k) \/ RetryRevert(k)
      \/ \E a \in Agents : KillFail(a)
      \/ \E r \in Requests : (\E k \in Jobs : CreateRequest(r, k))
                             \/ Approve(r) \/ Reject(r) \/ Expire(r)
  BY DEF Next, vars, Die, Take, TakeAndSkip, TakeAndLoad, LockExpires, BecomesDue,
         CreationGoesOn, CreateEnqueue, CreateAbandoned, RetryGoesOn, RetryRead,
         RetryEnqueue, RetryEnds, CreateApproved, KillFind, KillGoesOn, KillCancel, KillQuarantine, KillAbandoned, Quarantine,
         Release, GrowStale
<1> QED
  BY <1>1, <1>2, <1>3, <1>4, <1>5, <1>6, <1>7
-----------------------------------------------------------------------------
\* A handler keeps its job and the attempt it read, until it is done with both.

Keeps(x) ==
  /\ worker'[x].job = worker[x].job
  /\ worker'[x].attempt = worker[x].attempt
  /\ worker'[x].entry = worker[x].entry

LEMMA HandlerGoes ==
  ASSUME TypeOK, NEW w \in Workers, Handler(w)
  PROVE  /\ worker[w] \in BusyHandler
         /\ \A x \in Workers : x # w => worker'[x] = worker[x]
         /\ Keeps(w) \/ worker'[w] = Idle
<1> DEFINE Goes == /\ worker[w] \in BusyHandler
                   /\ \A x \in Workers : x # w => worker'[x] = worker[x]
                   /\ Keeps(w) \/ worker'[w] = Idle
<1>a. ASSUME NEW p, p # "idle", At(w, p), NEW pc,
             Goto(w, pc) \/ \E note : GotoWith(w, pc, note)
      PROVE  Goes
  BY <1>a, BusyAt, GotoEffect DEF Keeps, TypeOK
<1>b. ASSUME NEW p, p # "idle", At(w, p), worker' = [worker EXCEPT ![w] = Idle]
      PROVE  Goes
  BY <1>b, BusyAt DEF TypeOK
<1> SUFFICES Goes
  OBVIOUS
<1> HIDE DEF Goes
<1>1. CASE Start(w) \/ LoadAgent(w) \/ TripBeforeRun(w) \/ ReadGate(w) \/ Dispatch(w)
  <2>1. CASE Start(w)
    BY <2>1, <1>a DEF Start
  <2>2. CASE LoadAgent(w)
    BY <2>2, <1>a DEF LoadAgent
  <2>3. CASE TripBeforeRun(w) \/ Dispatch(w)
    BY <2>3, <1>a DEF TripBeforeRun, Dispatch
  <2>4. CASE ReadGate(w)
    BY <2>4, <1>a DEF ReadGate
  <2> QED
    BY <1>1, <2>1, <2>2, <2>3, <2>4
<1>2. ASSUME NEW err \in Errors,
             DispatchThrows(w, err) \/ ExecutionThrows(w, err) \/ StepThrows(w, err)
      PROVE  Goes
  BY <1>2, <1>a DEF DispatchThrows, ExecutionThrows, StepThrows, At
<1>3. ASSUME NEW result \in Results, ResultArrives(w, result) PROVE Goes
  BY <1>3, <1>a DEF ResultArrives
<1>4. CASE FailForRetry(w) \/ MarkRetrying(w) \/ AddRetry(w) \/ Reschedule(w) \/ CloseFailed(w)
  <2>1. CASE FailForRetry(w) \/ CloseFailed(w)
    BY <2>1, <1>a DEF FailForRetry, CloseFailed
  <2>2. CASE MarkRetrying(w)
    BY <2>2, <1>a DEF MarkRetrying
  <2>3. CASE AddRetry(w)
    BY <2>3, <1>a DEF AddRetry
  <2>4. CASE Reschedule(w)
    BY <2>4, <1>a DEF Reschedule
  <2> QED
    BY <1>4, <2>1, <2>2, <2>3, <2>4
<1>5. CASE CloseTripped(w) \/ Park(w) \/ Refuse(w) \/ Persist(w) \/ Rethrow(w) \/ Falter(w)
  <2>1. CASE CloseTripped(w) \/ Rethrow(w)
    BY <2>1, <1>b DEF CloseTripped, Rethrow, HandBack, Return
  <2>4. CASE Falter(w)
    BY <2>4, <1>b DEF Falter, HandBack, At
  <2>2. CASE Park(w)
    BY <2>2, <1>b DEF Park, Return
  <2>3. CASE Refuse(w) \/ Persist(w)
    BY <2>3, <1>b DEF Refuse, Persist, Return
  <2> QED
    BY <1>5, <2>1, <2>2, <2>3, <2>4
<1>6. CASE CancelCheck(w)
  BY <1>6, BusyAt, CancelOnlyNotes DEF CancelCheck, TypeOK, Goes, Keeps
<1> QED
  BY <1>1, <1>2, <1>3, <1>4, <1>5, <1>6 DEF Handler

\* What happens to a handler in a step: its own, a death, a new entry, or nothing.
LEMMA WorkerGoes ==
  ASSUME TypeOK, [Next]_vars, NEW x \in Workers
  PROVE  \/ Handler(x)
         \/ Die(x) /\ worker'[x] = Idle
         \/ \E e \in Entries : TakeAndLoad(x, e)
         \/ worker'[x].pc = worker[x].pc /\ Keeps(x)
<1>1. ASSUME NEW w \in Workers, w # x, Handler(w) PROVE worker'[x] = worker[x]
  BY <1>1, HandlerGoes
<1>2. ASSUME NEW w \in Workers, Die(w)
      PROVE  worker'[x] = worker[x] \/ (Die(x) /\ worker'[x] = Idle)
  BY <1>2 DEF Die, TypeOK
<1>3. ASSUME NEW w \in Workers, w # x, NEW e \in Entries, TakeAndLoad(w, e)
      PROVE  worker'[x] = worker[x]
  BY <1>3 DEF TakeAndLoad, TypeOK
<1>4. ASSUME NEW a \in Agents, KillCancel(a) PROVE worker'[x].pc = worker[x].pc /\ Keeps(x)
  BY <1>4, CancelOnlyNotes DEF Keeps
<1>5. \/ UNCHANGED worker
      \/ \E w \in Workers : Handler(w) \/ Die(w) \/ \E e \in Entries : TakeAndLoad(w, e)
      \/ \E a \in Agents : KillCancel(a)
  BY DEF Next, vars, Take, TakeAndSkip, LockExpires, BecomesDue, CreateInsert,
         CreationGoesOn, CreateSchedule, CreateEnqueue, CreateAbandoned, RetryRead, RetryMark,
         RetryEnds, RetryGoesOn, RetryEnqueue, RetryRevert, KillFind, KillGoesOn, KillFail,
         KillQuarantine, KillAbandoned, Quarantine, Release, CreateRequest, CreateApproved, Approve,
         Reject, GrowStale, Expire
<1> QED
  BY <1>1, <1>2, <1>3, <1>4, <1>5 DEF Keeps

\* A handler that can still write its outcome stays so until it has written it.
LEMMA RunnerCloses ==
  ASSUME TypeOK, NEW w \in Workers, Handler(w), worker[w].pc \in Running
  PROVE  \/ worker'[w].pc \in Running \/ job'[worker[w].job].status # "RUNNING"
         \/ worker[w].job \in stranded'
<1>a. worker[w].job \in Jobs
  BY HandlerGoes DEF BusyHandler
<1>b. ASSUME NEW to, to # "RUNNING", NEW closes,
             MoveJob(worker[w].job, "RUNNING", to, closes)
      PROVE  job'[worker[w].job].status # "RUNNING"
  BY <1>a, <1>b, MoveJobEffect DEF TypeOK
<1>1. CASE Start(w) \/ MarkRetrying(w) \/ AddRetry(w) \/ Reschedule(w) \/ Rethrow(w) \/ Falter(w)
  BY <1>1 DEF Start, MarkRetrying, AddRetry, Reschedule, Rethrow, Falter, Strand, At, Running
<1>2. CASE LoadAgent(w) \/ TripBeforeRun(w) \/ ReadGate(w) \/ Dispatch(w)
  <2>1. PICK p \in Running, pc \in Running :
          At(w, p) /\ (Goto(w, pc) \/ \E note : GotoWith(w, pc, note))
    BY <1>2 DEF LoadAgent, TripBeforeRun, ReadGate, Dispatch, Running
  <2> QED
    BY <2>1, GotoEffect DEF Running
<1>3. ASSUME NEW err \in Errors,
             DispatchThrows(w, err) \/ ExecutionThrows(w, err) \/ StepThrows(w, err)
      PROVE  worker'[w].pc \in Running
  BY <1>3, GotoEffect DEF DispatchThrows, ExecutionThrows, StepThrows, At, Running
<1>4. ASSUME NEW result \in Results, ResultArrives(w, result)
      PROVE  worker'[w].pc \in Running
  BY <1>4, GotoEffect DEF ResultArrives, Running
<1>5. CASE CancelCheck(w)
  BY <1>5, CancelOnlyNotes
<1>6. CASE CloseTripped(w) \/ Refuse(w) \/ Park(w) \/ FailForRetry(w)
  BY <1>6, <1>b DEF CloseTripped, Refuse, Park, FailForRetry
<1>7. CASE Persist(w)
  BY <1>7, <1>b DEF Persist, mapExecutionStatus
<1>8. CASE CloseFailed(w)
  BY <1>8, <1>b DEF CloseFailed
<1> QED
  BY <1>1, <1>2, <1>3, <1>4, <1>5, <1>6, <1>7, <1>8 DEF Handler
\* The points of the catch block are passed one after the other.
LEMMA Catches ==
  ASSUME TypeOK, NEW w \in Workers, Handler(w)
  PROVE  /\ worker[w].pc = "loaded" => Start(w) \/ Falter(w)
         /\ worker[w].pc = "failed" => MarkRetrying(w) \/ Falter(w)
         /\ worker[w].pc = "retrying" => AddRetry(w) \/ Falter(w)
         /\ worker[w].pc = "requeued" => Reschedule(w) \/ Falter(w)
         /\ worker[w].pc = "rethrow" => Rethrow(w)
         /\ worker'[w].pc = "failed" => FailForRetry(w)
         /\ worker'[w].pc = "retrying" => MarkRetrying(w)
         /\ worker'[w].pc = "requeued" => AddRetry(w)
<1>1. /\ worker[w].pc = "loaded" => Start(w) \/ Falter(w)
      /\ worker[w].pc = "failed" => MarkRetrying(w) \/ Falter(w)
      /\ worker[w].pc = "retrying" => AddRetry(w) \/ Falter(w)
      /\ worker[w].pc = "requeued" => Reschedule(w) \/ Falter(w)
      /\ worker[w].pc = "rethrow" => Rethrow(w)
  <2> SUFFICES ASSUME worker[w].pc \in {"loaded", "failed", "retrying", "requeued", "rethrow"}
               PROVE  \/ worker[w].pc = "loaded" /\ Start(w)
                      \/ worker[w].pc = "failed" /\ MarkRetrying(w)
                      \/ worker[w].pc = "retrying" /\ AddRetry(w)
                      \/ worker[w].pc = "requeued" /\ Reschedule(w)
                      \/ worker[w].pc = "rethrow" /\ Rethrow(w)
                      \/ worker[w].pc # "rethrow" /\ Falter(w)
    OBVIOUS
  <2>1. /\ Start(w) => worker[w].pc = "loaded"
        /\ MarkRetrying(w) => worker[w].pc = "failed"
        /\ AddRetry(w) => worker[w].pc = "retrying"
        /\ Reschedule(w) => worker[w].pc = "requeued"
        /\ Rethrow(w) => worker[w].pc = "rethrow"
        /\ Falter(w) => worker[w].pc # "rethrow"
    BY DEF At, Start, MarkRetrying, AddRetry, Reschedule, Rethrow, Falter
  <2>2. ~(LoadAgent(w) \/ TripBeforeRun(w) \/ CloseTripped(w) \/ ReadGate(w) \/ Park(w)
          \/ Refuse(w) \/ Dispatch(w) \/ CancelCheck(w) \/ Persist(w) \/ FailForRetry(w)
          \/ CloseFailed(w))
    BY DEF At, LoadAgent, TripBeforeRun, CloseTripped, ReadGate, Park, Refuse, Dispatch,
           CancelCheck, Persist, FailForRetry, CloseFailed
  <2>3. ~(\E err \in Errors : DispatchThrows(w, err) \/ ExecutionThrows(w, err)
                               \/ StepThrows(w, err))
    BY DEF At, DispatchThrows, ExecutionThrows, StepThrows
  <2>4. ~(\E result \in Results : ResultArrives(w, result))
    BY DEF At, ResultArrives
  <2> QED
    BY <2>1, <2>2, <2>3, <2>4 DEF Handler
<1> DEFINE Early == worker'[w].pc \notin {"failed", "retrying", "requeued"}
<1>a. ASSUME NEW p, p # "idle", At(w, p), NEW pc, pc \notin {"failed", "retrying", "requeued"},
             Goto(w, pc) \/ \E note : GotoWith(w, pc, note)
      PROVE  Early
  BY <1>a, GotoEffect
<1>b. ASSUME worker' = [worker EXCEPT ![w] = Idle] PROVE Early
  BY <1>b DEF TypeOK, Idle
<1>2. ASSUME Start(w) \/ LoadAgent(w) \/ TripBeforeRun(w) \/ ReadGate(w) \/ Dispatch(w)
      PROVE  Early
  <2> HIDE DEF Early
  <2>1. CASE Start(w)
    BY <2>1, <1>a DEF Start
  <2>2. CASE LoadAgent(w)
    BY <2>2, <1>a DEF LoadAgent
  <2>3. CASE TripBeforeRun(w) \/ Dispatch(w)
    BY <2>3, <1>a DEF TripBeforeRun, Dispatch
  <2>4. CASE ReadGate(w)
    BY <2>4, <1>a DEF ReadGate
  <2> QED
    BY <1>2, <2>1, <2>2, <2>3, <2>4
<1>3. ASSUME NEW err \in Errors,
             DispatchThrows(w, err) \/ ExecutionThrows(w, err) \/ StepThrows(w, err)
      PROVE  Early
  <2> HIDE DEF Early
  <2> QED
    BY <1>3, <1>a DEF DispatchThrows, ExecutionThrows, StepThrows, At
<1>4. ASSUME NEW result \in Results, ResultArrives(w, result) PROVE Early
  BY <1>4, <1>a DEF ResultArrives
<1>5. ASSUME CloseTripped(w) \/ Park(w) \/ Refuse(w) \/ Persist(w) \/ Rethrow(w) \/ Falter(w)
      PROVE  Early
  BY <1>5, <1>b DEF CloseTripped, Park, Refuse, Persist, Rethrow, Falter, HandBack, Return
<1>6. ASSUME CancelCheck(w) PROVE Early
  BY <1>6, CancelOnlyNotes DEF CancelCheck, At
<1>7. ASSUME Reschedule(w) \/ CloseFailed(w) PROVE Early
  <2> HIDE DEF Early
  <2>1. CASE Reschedule(w)
    BY <2>1, <1>a DEF Reschedule
  <2>2. CASE CloseFailed(w)
    BY <2>2, <1>a DEF CloseFailed
  <2> QED
    BY <1>7, <2>1, <2>2
<1>8. FailForRetry(w) => worker'[w].pc = "failed"
  BY GotoEffect DEF FailForRetry
<1>9. MarkRetrying(w) => worker'[w].pc = "retrying"
  BY GotoEffect DEF MarkRetrying
<1>10. AddRetry(w) => worker'[w].pc = "requeued"
  BY GotoEffect DEF AddRetry
<1> QED
  BY <1>1, <1>2, <1>3, <1>4, <1>5, <1>6, <1>7, <1>8, <1>9, <1>10 DEF Handler

-----------------------------------------------------------------------------
\* No job is lost.

\* An entry that waits stays as it is until it is due or taken.
LEMMA WaitingStays ==
  ASSUME TypeOK, EntriesAreExclusive, [Next]_vars,
         NEW e \in Entries, queue[e] # Nobody, queue[e].st # "locked"
  PROVE  \/ queue'[e] = queue[e]
         \/ BecomesDue(e)
         \/ \E w \in Workers : TakeAndSkip(w, e) \/ TakeAndLoad(w, e)
<1>1. ASSUME NEW w \in Workers, worker[w].pc # "idle" PROVE worker[w].entry # e
  BY <1>1 DEF EntriesAreExclusive
<1>2. ASSUME NEW w \in Workers,
             \/ CloseTripped(w) \/ Park(w) \/ Refuse(w) \/ Persist(w)
             \/ Rethrow(w) \/ Falter(w)
      PROVE  queue'[e] = queue[e]
  BY <1>1, <1>2 DEF CloseTripped, Park, Refuse, Persist, Rethrow, Falter, HandBack, Return, At,
                    TypeOK
<1>3. ASSUME NEW j \in Jobs, AddKeyed(j) \/ AddDelayed(j) PROVE queue'[e] = queue[e]
  <2>1. Unused # {} => NewEntry # e
    BY DEF NewEntry, Unused
  <2>2. CASE AddDelayed(j)
    BY <2>1, <2>2 DEF AddDelayed, TypeOK
  <2>3. CASE AddKeyed(j)
    BY <2>1, <2>3 DEF AddKeyed
  <2> QED
    BY <1>3, <2>2, <2>3
<1>4. ASSUME NEW w \in Workers, AddRetry(w) PROVE queue'[e] = queue[e]
  BY <1>3, <1>4, BusyAt DEF AddRetry, TypeOK, BusyHandler
<1>5. ASSUME NEW d \in Entries, d # e,
             \/ LockExpires(d) \/ BecomesDue(d)
             \/ \E w \in Workers : TakeAndSkip(w, d) \/ TakeAndLoad(w, d)
      PROVE  queue'[e] = queue[e]
  BY <1>5 DEF LockExpires, BecomesDue, TakeAndSkip, TakeAndLoad, TypeOK
<1>6. ~LockExpires(e)
  BY DEF LockExpires
<1>7. \/ UNCHANGED queue
      \/ \E w \in Workers : \/ CloseTripped(w) \/ Park(w) \/ Refuse(w) \/ Persist(w)
                            \/ Rethrow(w) \/ Falter(w) \/ AddRetry(w)
      \/ \E d \in Entries : Take(d) \/ LockExpires(d) \/ BecomesDue(d)
      \/ \E j \in Jobs : AddKeyed(j)
  BY DEF Next, vars, Handler, Start, LoadAgent, TripBeforeRun, ReadGate, Dispatch,
         DispatchThrows, ExecutionThrows, CancelCheck, ResultArrives, FailForRetry,
         MarkRetrying, Reschedule, CloseFailed, StepThrows, Die, CreateInsert,
         CreationGoesOn, CreateSchedule, CreateEnqueue, CreateAbandoned, RetryRead, RetryMark,
         RetryEnds, RetryGoesOn, RetryEnqueue, RetryRevert, KillFind, KillGoesOn, KillCancel, KillFail,
         KillQuarantine, KillAbandoned, Quarantine, Release, CreateRequest, CreateApproved, Approve,
         Reject, GrowStale, Expire
<1> QED
  BY <1>2, <1>3, <1>4, <1>5, <1>6, <1>7 DEF Take

\* Both ways of adding an entry leave one that waits.
LEMMA AddDelayedWaits ==
  ASSUME TypeOK, NEW j \in Jobs, AddDelayed(j)
  PROVE  \E e \in Entries : queue'[e] # Nobody /\ queue'[e].job = j /\ queue'[e].st = "delayed"
<1>1. NewEntry \in Entries
  BY DEF AddDelayed, NewEntry, Unused
<1>2. [job |-> j, keyed |-> FALSE, once |-> TRUE, st |-> "delayed"] \in Entry
  BY DEF Entry
<1> QED
  BY <1>1, <1>2, NobodyIsNoRow DEF AddDelayed, TypeOK

LEMMA AddKeyedWaits ==
  ASSUME TypeOK, NEW j \in Jobs, AddKeyed(j)
  PROVE  Waiting(j)'
<1>1. CASE \E e \in KeyedEntries(j) : queue[e].st # "locked" /\ UNCHANGED queue
  BY <1>1 DEF KeyedEntries, Waiting
<1>2. CASE Unused # {} /\ queue'[NewEntry] = [job |-> j, keyed |-> TRUE, once |-> FALSE,
                                              st |-> "queued"]
  <2>1. NewEntry \in Entries
    BY <1>2 DEF NewEntry, Unused
  <2>2. [job |-> j, keyed |-> TRUE, once |-> FALSE, st |-> "queued"] \in Entry
    BY DEF Entry
  <2> QED
    BY <1>2, <2>1, <2>2, NobodyIsNoRow DEF Waiting
<1>3. CASE /\ Unused # {}
           /\ queue' = [e \in Entries |->
                CASE e = NewEntry          -> [job |-> j, keyed |-> TRUE, once |-> FALSE,
                                               st |-> "queued"]
                  [] e \in KeyedEntries(j) -> [queue[e] EXCEPT !.keyed = FALSE, !.once = TRUE]
                  [] OTHER                 -> queue[e]]
  <2>1. NewEntry \in Entries /\ NewEntry \notin KeyedEntries(j)
    BY <1>3 DEF NewEntry, Unused, KeyedEntries
  <2> QED
    BY <1>2, <1>3, <2>1
<1> QED
  BY <1>1, <1>3 DEF AddKeyed
LEMMA TakenIsLoaded ==
  ASSUME TypeOK, NEW w \in Workers, NEW e \in Entries, TakeAndLoad(w, e)
  PROVE  /\ worker'[w].pc = "loaded" /\ worker'[w].job = queue[e].job
         /\ worker[w].pc = "idle"
         /\ job[queue[e].job].status = "SCHEDULED"
         /\ queue[e] # Nobody /\ queue[e].st = "queued"
         /\ UNCHANGED job
  BY DEF TakeAndLoad, TypeOK, At

\* A stranded job stays so while its status does, and what strands it shows.
LEMMA Stranding ==
  ASSUME TypeOK, [Next]_vars, NEW j \in Jobs
  PROVE  /\ j \in stranded /\ job'[j].status = job[j].status => j \in stranded'
         /\ \A w \in Workers : worker[w].job = j /\ (Die(w) \/ Falter(w)) => j \in stranded'
         /\ RetryMark(j) /\ job[j].status # "RETRYING" => j \in stranded'
         /\ RetryRevert(j) \/ CreateAbandoned(j) => j \in stranded'
<1>a. ASSUME NEW k \in Jobs, NEW from, NEW to, to # from, NEW closes, MoveJob(k, from, to, closes),
             j \in stranded, job'[j].status = job[j].status
      PROVE  j \in stranded'
  <2>1. CASE k = j /\ job[j].status = from
    BY <1>a, <2>1, MoveJobEffect DEF TypeOK
  <2> QED
    BY <1>a, <2>1 DEF MoveJob
<1>b. ASSUME NEW w \in Workers, NEW pc, pc # "idle", At(w, pc) PROVE worker[w].job \in Jobs
  BY <1>b, BusyAt DEF TypeOK, BusyHandler
<1>1. ASSUME j \in stranded, job'[j].status = job[j].status PROVE j \in stranded'
  <2>1. ASSUME NEW w \in Workers, Handler(w) PROVE j \in stranded'
    <3>1. CASE CloseTripped(w) \/ Park(w) \/ Refuse(w) \/ FailForRetry(w)
      BY <1>1, <1>a, <1>b, <3>1 DEF CloseTripped, Park, Refuse, FailForRetry
    <3>2. CASE MarkRetrying(w) \/ Reschedule(w) \/ CloseFailed(w)
      BY <1>1, <1>a, <1>b, <3>2 DEF MarkRetrying, Reschedule, CloseFailed
    <3>3. CASE Persist(w)
      <4>1. mapExecutionStatus(worker[w].note) # "RUNNING"
        BY DEF mapExecutionStatus
      <4> QED
        BY <1>1, <1>a, <1>b, <3>3, <4>1 DEF Persist
    <3>4. CASE Start(w)
      BY <1>1, <3>4 DEF Start
    <3>5. CASE Falter(w)
      BY <1>1, <3>5 DEF Falter, Strand
    <3>6. CASE UNCHANGED stranded
      BY <1>1, <3>6
    <3> QED
      BY <2>1, <3>1, <3>2, <3>3, <3>4, <3>5, <3>6
         DEF Handler, LoadAgent, TripBeforeRun, ReadGate, Dispatch, DispatchThrows,
             ExecutionThrows, StepThrows, CancelCheck, ResultArrives, AddRetry, Rethrow
  <2>2. ASSUME NEW k \in Jobs, CreateInsert(k) \/ CreateSchedule(k) PROVE j \in stranded'
    <3>1. CASE k # j /\ CreateInsert(k)
      BY <1>1, <3>1 DEF CreateInsert
    <3>2. CASE k = j /\ CreateInsert(j)
      BY <1>1, <3>2 DEF CreateInsert, Absent, TypeOK, JobRow
    <3>3. CASE CreateSchedule(k)
      BY <1>1, <3>3 DEF CreateSchedule
    <3> QED
      BY <2>2, <3>1, <3>2, <3>3
  <2>3. ASSUME NEW a \in Agents, KillFail(a) PROVE j \in stranded'
    <3>1. kill[a].job \in Jobs \/ kill[a].job = Nobody
      BY DEF TypeOK, KillState
    <3>2. CASE kill[a].job \in Jobs
      BY <1>1, <1>a, <2>3, <3>2 DEF KillFail
    <3>3. CASE kill[a].job = Nobody
      BY <1>1, <2>3, <3>3, ConstantsAssumption DEF KillFail, MoveJob
    <3> QED
      BY <3>1, <3>2, <3>3
  <2>4. ASSUME NEW r \in Requests, NEW k \in Jobs, CreateRequest(r, k) PROVE j \in stranded'
    BY <1>1, <1>a, <2>4 DEF CreateRequest
  <2>5. ASSUME NEW r \in Requests, Approve(r) \/ Reject(r) \/ Expire(r) PROVE j \in stranded'
    <3>1. request[r].job \in Jobs
      BY <2>5 DEF Approve, Reject, Expire, Open, TypeOK, RequestRow
    <3>2. CASE Approve(r)
      BY <1>1, <3>2 DEF Approve, Strand
    <3>3. CASE Reject(r) \/ Expire(r)
      BY <1>1, <1>a, <3>1, <3>3 DEF Reject, Expire
    <3> QED
      BY <2>5, <3>2, <3>3
  <2>6. CASE \/ UNCHANGED stranded
             \/ \E w \in Workers : Die(w)
             \/ \E k \in Jobs : CreateAbandoned(k) \/ RetryMark(k) \/ RetryRevert(k)
    BY <1>1, <2>6 DEF Die, CreateAbandoned, RetryMark, RetryRevert, Strand
  <2> QED
    BY <2>1, <2>2, <2>3, <2>4, <2>5, <2>6
       DEF Next, vars, Take, TakeAndSkip, TakeAndLoad, LockExpires, BecomesDue,
           CreationGoesOn, CreateEnqueue, RetryGoesOn, RetryRead, RetryEnqueue, RetryEnds,
           KillFind, KillGoesOn, KillCancel, KillQuarantine, KillAbandoned, Quarantine,
           Release, CreateApproved, GrowStale
<1>2. ASSUME NEW w \in Workers, worker[w].job = j, Die(w) \/ Falter(w) PROVE j \in stranded'
  BY <1>2 DEF Die, Falter, Strand
<1>3. ASSUME RetryMark(j), job[j].status # "RETRYING" PROVE j \in stranded'
  BY <1>3 DEF RetryMark, Strand
<1>4. ASSUME RetryRevert(j) \/ CreateAbandoned(j) PROVE j \in stranded'
  BY <1>4 DEF RetryRevert, CreateAbandoned, Strand
<1> QED
  BY <1>1, <1>2, <1>3, <1>4

\* An approval that resumes a job strands it.
LEMMA ResumedIsStranded ==
  ASSUME TypeOK, NEW r \in Requests, Approve(r), job'[request[r].job].status # job[request[r].job].status
  PROVE  request[r].job \in stranded'
  BY DEF Approve, UpdateJob, Strand, Open, TypeOK, RequestRow

LEMMA RunningIsKept ==
  ASSUME TypeOK, [Next]_vars, NEW j \in Jobs, j \notin stranded',
         job[j].status = "RUNNING" /\ j \notin stranded => WorkingOn(j, Running),
         job'[j].status = "RUNNING"
  PROVE  WorkingOn(j, Running)'
<1>1. CASE job[j].status = "RUNNING"
  <2>1. PICK x \in Workers : worker[x].job = j /\ worker[x].pc \in Running
    BY <1>1, Stranding DEF WorkingOn
  <2>2. CASE Handler(x)
    <3>1. worker'[x].pc \in Running
      BY <2>1, <2>2, RunnerCloses
    <3>2. worker'[x] # Idle
      BY <3>1 DEF Idle, Running
    <3> QED
      BY <2>1, <2>2, <3>1, <3>2, HandlerGoes DEF Keeps, WorkingOn
  <2>3. CASE worker'[x].pc = worker[x].pc /\ Keeps(x)
    BY <2>1, <2>3 DEF Keeps, WorkingOn
  <2>4. ~Die(x)
    BY <2>1, Stranding
  <2> QED
    BY <2>1, <2>2, <2>3, <2>4, WorkerGoes, TakenIsLoaded DEF Running
<1>2. CASE job[j].status # "RUNNING"
  <2>1. Revives(j)
    BY <1>2, WhoWrites DEF Parked, Parks
  <2>2. ASSUME NEW w \in Workers, worker[w].job = j, Start(w)
        PROVE  WorkingOn(j, Running)'
    BY <2>2, GotoEffect DEF Start, WorkingOn, Running
  <2> QED
    BY <1>2, <2>1, <2>2, Stranding, ResumedIsStranded DEF Revives, Works
<1> QED
  BY <1>1, <1>2

\* Only the dashboard's retry clears completed_at.
LEMMA CompletionStays ==
  ASSUME TypeOK, [Next]_vars, NEW j \in Jobs, job[j].completed,
         ~RetryMark(j), ~RetryRevert(j)
  PROVE  job'[j].completed
<1>1. CASE NoMove
  BY <1>1 DEF NoMove
<1>2. CASE SafeMove
  BY <1>2 DEF SafeMove, UpdateJob, TypeOK, JobRow
<1>3. ASSUME NEW w \in Workers, Start(w) PROVE job'[j].completed
  BY <1>3 DEF Start, TypeOK, JobRow
<1>4. ASSUME NEW k \in Jobs, CreateInsert(k) \/ CreateSchedule(k) PROVE job'[j].completed
  BY <1>4 DEF CreateInsert, CreateSchedule, TypeOK, JobRow
<1>5. ASSUME NEW k \in Jobs, RetryMark(k) \/ RetryRevert(k) PROVE job'[j].completed
  BY <1>5 DEF RetryMark, RetryRevert, TypeOK
<1> QED
  BY <1>1, <1>2, <1>3, <1>4, <1>5, Moves

LEMMA FailedIsKept ==
  ASSUME TypeOK, [Next]_vars, NEW j \in Jobs, j \notin stranded',
         job[j].status = "FAILED" /\ ~job[j].completed /\ j \notin stranded
           => WorkingOn(j, {"failed"}),
         job'[j].status = "FAILED", ~job'[j].completed
  PROVE  WorkingOn(j, {"failed"})'
<1>1. CASE job[j].status = "FAILED"
  <2>1. ~job[j].completed
    BY <1>1, CompletionStays, Stranding
  <2>2. PICK x \in Workers : worker[x].job = j /\ worker[x].pc = "failed"
    BY <1>1, <2>1, Stranding DEF WorkingOn
  <2>3. ~Handler(x)
    <3>1. CASE MarkRetrying(x)
      <4>1. MoveJob(j, "FAILED", "RETRYING", FALSE)
        BY <2>2, <3>1 DEF MarkRetrying
      <4>2. job \in [Jobs -> JobRow]
        BY DEF TypeOK
      <4>3. job'[j].status = "RETRYING"
        BY <1>1, <4>1, <4>2, MoveJobEffect
      <4> QED
        BY <4>3
    <3> QED
      BY <2>2, <3>1, Catches, Stranding
  <2>4. CASE worker'[x].pc = worker[x].pc /\ Keeps(x)
    BY <2>2, <2>4 DEF Keeps, WorkingOn
  <2> QED
    BY <2>2, <2>3, <2>4, Stranding, WorkerGoes, TakenIsLoaded
<1>2. CASE job[j].status # "FAILED"
  <2>1. Parks(j)
    BY <1>2, WhoWrites, Stranding DEF Revives
  <2>2. ASSUME NEW w \in Workers, worker[w].job = j, FailForRetry(w)
        PROVE  WorkingOn(j, {"failed"})'
    BY <2>2, GotoEffect DEF FailForRetry, WorkingOn
  <2> QED
    BY <2>1, <2>2 DEF Parks, Works
<1> QED
  BY <1>1, <1>2

LEMMA RetryingIsKept ==
  ASSUME TypeOK, [Next]_vars, NEW j \in Jobs, j \notin stranded',
         job[j].status = "RETRYING" /\ j \notin stranded
           => WorkingOn(j, {"retrying", "requeued"}),
         job'[j].status = "RETRYING"
  PROVE  WorkingOn(j, {"retrying", "requeued"})'
<1>1. CASE job[j].status = "RETRYING"
  <2>1. PICK x \in Workers : worker[x].job = j /\ worker[x].pc \in {"retrying", "requeued"}
    BY <1>1, Stranding DEF WorkingOn
  <2>2. CASE Handler(x) /\ worker[x].pc = "retrying"
    BY <2>1, <2>2, Catches, GotoEffect, Stranding DEF AddRetry, WorkingOn
  <2>3. CASE Handler(x) /\ worker[x].pc = "requeued"
    <3>1. MoveJob(j, "RETRYING", "SCHEDULED", FALSE)
      BY <2>1, <2>3, Catches, Stranding DEF Reschedule
    <3>2. job'[j].status = "SCHEDULED"
      BY <1>1, <3>1, MoveJobEffect DEF TypeOK
    <3> QED
      BY <3>2
  <2>4. CASE worker'[x].pc = worker[x].pc /\ Keeps(x)
    BY <2>1, <2>4 DEF Keeps, WorkingOn
  <2> QED
    BY <2>1, <2>2, <2>3, <2>4, Stranding, WorkerGoes, TakenIsLoaded
<1>2. CASE job[j].status # "RETRYING"
  <2>1. Revives(j)
    BY <1>2, WhoWrites DEF Parked, Parks
  <2>2. ASSUME NEW w \in Workers, worker[w].job = j, MarkRetrying(w)
        PROVE  WorkingOn(j, {"retrying", "requeued"})'
    BY <2>2, GotoEffect DEF MarkRetrying, WorkingOn
  <2> QED
    BY <1>2, <2>1, <2>2, Stranding DEF Revives, Works
<1> QED
  BY <1>1, <1>2

\* Between adding the delayed entry and the UPDATE to SCHEDULED, the entry is
\* still there: that is what BackoffOutlastsUpdate grants.
RequeuedWaits ==
  BackoffOutlastsUpdate =>
    \A w \in Workers : At(w, "requeued") =>
      \E e \in Entries :
        queue[e] # Nobody /\ queue[e].job = worker[w].job /\ queue[e].st = "delayed"

LEMMA RequeuedIsKept ==
  ASSUME TypeOK, EntriesAreExclusive, RequeuedWaits, [Next]_vars
  PROVE  RequeuedWaits'
<1> DEFINE Delayed(j) ==
      \E e \in Entries : queue[e] # Nobody /\ queue[e].job = j /\ queue[e].st = "delayed"
<1> SUFFICES ASSUME BackoffOutlastsUpdate, NEW w \in Workers, worker'[w].pc = "requeued"
             PROVE  Delayed(worker[w].job)' /\ worker'[w].job = worker[w].job
  BY DEF RequeuedWaits, At
<1>1. CASE Handler(w)
  <2>1. AddRetry(w)
    BY <1>1, Catches
  <2>2. worker[w].job \in Jobs
    BY <1>1, HandlerGoes DEF BusyHandler
  <2>3. worker'[w].job = worker[w].job
    BY <2>1, GotoEffect DEF AddRetry
  <2> QED
    BY <2>1, <2>2, <2>3, AddDelayedWaits DEF AddRetry
<1>2. CASE worker'[w].pc = worker[w].pc /\ Keeps(w)
  <2>1. PICK e \in Entries :
          queue[e] # Nobody /\ queue[e].job = worker[w].job /\ queue[e].st = "delayed"
    BY <1>2 DEF RequeuedWaits, At
  <2>2. ~BecomesDue(e)
    BY <1>2, <2>1 DEF BecomesDue, At
  <2>3. \A x \in Workers : ~TakeAndSkip(x, e) /\ ~TakeAndLoad(x, e)
    BY <2>1 DEF TakeAndSkip, TakeAndLoad
  <2>4. queue'[e] = queue[e]
    BY <2>1, <2>2, <2>3, WaitingStays
  <2> QED
    BY <1>2, <2>1, <2>4 DEF Keeps
<1> QED
  BY <1>1, <1>2, WorkerGoes, TakenIsLoaded DEF Idle

\* The creating route goes on with a job, or leaves it stranded.
LEMMA CreatingGoes ==
  ASSUME TypeOK, [Next]_vars, NEW j \in Jobs
  PROVE  \/ creating'[j] = creating[j]
         \/ CreateInsert(j) \/ CreateSchedule(j) \/ CreateEnqueue(j) \/ CreateAbandoned(j)
<1>1. ASSUME NEW k \in Jobs, k # j, CreateInsert(k) \/ CreationGoesOn(k)
      PROVE  creating'[j] = creating[j]
  BY <1>1 DEF CreateInsert, CreationGoesOn, CreateSchedule, CreateEnqueue,
              CreateAbandoned, TypeOK
<1>2. (\A k \in Jobs : ~CreateInsert(k) /\ ~CreationGoesOn(k)) => UNCHANGED creating
  BY DEF Next, vars, Handler, Start, LoadAgent, TripBeforeRun, CloseTripped, ReadGate,
     Park, Refuse, Dispatch, DispatchThrows, ExecutionThrows, CancelCheck,
     ResultArrives, Persist, FailForRetry, MarkRetrying, AddRetry, Reschedule,
     CloseFailed, Rethrow, Falter, StepThrows, Die, Take, TakeAndSkip, TakeAndLoad,
     LockExpires, BecomesDue, RetryRead, RetryMark, RetryEnds, RetryGoesOn, RetryEnqueue,
     RetryRevert, KillFind, KillGoesOn, KillCancel, KillFail, KillQuarantine,
     KillAbandoned, Quarantine, Release, CreateRequest, CreateApproved, Approve, Reject,
     GrowStale, Expire
<1> QED
  BY <1>1, <1>2 DEF CreationGoesOn

LEMMA PendingIsAttended ==
  ASSUME TypeOK, [Next]_vars, NEW j \in Jobs, j \notin stranded',
         job[j].status = "PENDING" /\ j \notin stranded => creating[j] = "inserted",
         job'[j].status = "PENDING"
  PROVE  creating'[j] = "inserted"
<1>1. CASE CreateInsert(j)
  BY <1>1 DEF CreateInsert, TypeOK
<1>2. CASE job[j].status = "PENDING"
  <2>1. creating[j] = "inserted"
    BY <1>2, Stranding
  <2>2. CreateSchedule(j) => job'[j].status = "SCHEDULED"
    BY DEF CreateSchedule, TypeOK, JobRow
  <2>3. ~CreateEnqueue(j)
    BY <2>1 DEF CreateEnqueue
  <2> QED
    BY <1>1, <2>1, <2>2, <2>3, CreatingGoes, Stranding
<1>3. CASE job[j].status # "PENDING" /\ ~CreateInsert(j)
  BY <1>3, WhoWrites, Stranding DEF Revives, Parks, Parked
<1> QED
  BY <1>1, <1>2, <1>3

IsQueued(j) == Waiting(j) \/ WorkingOn(j, {"loaded"}) \/ creating[j] = "scheduled"

LEMMA ScheduledIsKept ==
  ASSUME TypeOK, EntriesAreExclusive, RequeuedWaits, BackoffOutlastsUpdate, [Next]_vars,
         NEW j \in Jobs, j \notin stranded',
         job[j].status = "SCHEDULED" /\ j \notin stranded => IsQueued(j),
         job'[j].status = "SCHEDULED"
  PROVE  IsQueued(j)'
<1>a. ASSUME NEW e \in Entries, queue[e] # Nobody, queue[e].job = j, queue[e].st # "locked",
             job[j].status = "SCHEDULED"
      PROVE  Waiting(j)' \/ WorkingOn(j, {"loaded"})'
  <2>1. CASE queue'[e] = queue[e]
    BY <1>a, <2>1 DEF Waiting
  <2>2. CASE BecomesDue(e)
    <3>1. queue'[e] = [queue[e] EXCEPT !.st = "queued"] /\ queue[e] \in Entry
      BY <1>a, <2>2 DEF BecomesDue, TypeOK
    <3>2. queue'[e] \in Entry /\ queue'[e].job = j /\ queue'[e].st = "queued"
      BY <1>a, <3>1 DEF Entry
    <3> QED
      BY <3>2, NobodyIsNoRow DEF Waiting
  <2>3. ASSUME NEW w \in Workers, TakeAndLoad(w, e) PROVE WorkingOn(j, {"loaded"})'
    BY <1>a, <2>3, TakenIsLoaded DEF WorkingOn
  <2>4. ASSUME NEW w \in Workers, TakeAndSkip(w, e) PROVE FALSE
    BY <1>a, <2>4 DEF TakeAndSkip
  <2> QED
    BY <1>a, <2>1, <2>2, <2>3, <2>4, WaitingStays
<1>1. CASE job[j].status = "SCHEDULED"
  <2>1. CASE Waiting(j)
    BY <1>1, <1>a, <2>1 DEF Waiting, IsQueued
  <2>2. ASSUME NEW x \in Workers, worker[x].job = j, worker[x].pc = "loaded"
        PROVE  WorkingOn(j, {"loaded"})'
    <3>1. ~Handler(x)
      <4>1. Start(x) => job'[j].status = "RUNNING"
        BY <1>1, <2>2 DEF Start, TypeOK, JobRow
      <4> QED
        BY <2>2, <4>1, Catches, Stranding
    <3>2. CASE worker'[x].pc = worker[x].pc /\ Keeps(x)
      BY <2>2, <3>2 DEF Keeps, WorkingOn
    <3> QED
      BY <2>2, <3>1, <3>2, WorkerGoes, TakenIsLoaded, Stranding
  <2>3. CASE creating[j] = "scheduled"
    <3>1. CASE CreateEnqueue(j)
      BY <3>1, AddKeyedWaits DEF CreateEnqueue, IsQueued
    <3>2. ~CreateSchedule(j) /\ ~CreateInsert(j)
      BY <1>1, <2>3 DEF CreateSchedule, CreateInsert, Absent
    <3> QED
      BY <2>3, <3>1, <3>2, CreatingGoes, Stranding DEF IsQueued
  <2> QED
    BY <1>1, <2>1, <2>2, <2>3, Stranding DEF IsQueued, WorkingOn
<1>2. CASE job[j].status # "SCHEDULED"
  <2>1. Revives(j)
    BY <1>2, WhoWrites DEF Parked, Parks
  <2>2. CreateSchedule(j) => creating'[j] = "scheduled"
    BY DEF CreateSchedule, TypeOK
  <2>3. ASSUME NEW w \in Workers, worker[w].job = j, Reschedule(w) PROVE Waiting(j)'
    <3>1. PICK e \in Entries : queue[e] # Nobody /\ queue[e].job = j /\ queue[e].st = "delayed"
      BY <2>3 DEF RequeuedWaits, Reschedule
    <3>2. UNCHANGED queue
      BY <2>3 DEF Reschedule
    <3> QED
      BY <3>1, <3>2 DEF Waiting
  <2> QED
    BY <2>1, <2>2, <2>3, Stranding DEF Revives, Works, IsQueued
<1> QED
  BY <1>1, <1>2

LEMMA AttendanceIsKept ==
  ASSUME TypeOK, EntriesAreExclusive, RequeuedWaits, NoJobIsLost, [Next]_vars
  PROVE  NoJobIsLost'
<1> SUFFICES ASSUME NEW j \in Jobs, j \notin stranded' PROVE IsAttended(j)'
  BY DEF NoJobIsLost
<1>0. j \notin stranded => IsAttended(j)
  BY DEF NoJobIsLost
<1>1. job'[j].status = "PENDING" => creating'[j] = "inserted"
  BY <1>0, PendingIsAttended DEF IsAttended
<1>2. ASSUME job'[j].status = "SCHEDULED", BackoffOutlastsUpdate PROVE IsQueued(j)'
  <2>1. job[j].status = "SCHEDULED" /\ j \notin stranded => IsQueued(j)
    BY <1>0, <1>2 DEF IsAttended, IsQueued
  <2> QED
    BY <1>2, <2>1, ScheduledIsKept
<1>3. job'[j].status = "RUNNING" => WorkingOn(j, Running)'
  BY <1>0, RunningIsKept DEF IsAttended
<1>4. job'[j].status = "FAILED" /\ ~job'[j].completed => WorkingOn(j, {"failed"})'
  BY <1>0, FailedIsKept DEF IsAttended
<1>5. job'[j].status = "RETRYING" => WorkingOn(j, {"retrying", "requeued"})'
  BY <1>0, RetryingIsKept DEF IsAttended
<1> QED
  BY <1>1, <1>2, <1>3, <1>4, <1>5 DEF IsAttended, IsQueued

\* Workers die, statements are rejected, routes fail, executions overlap and are
\* killed: a job is left with nobody to go on with it only by the five things
\* that strand it, in the very status it had then.
THEOREM JobsAreNotLost == Spec => []NoJobIsLost
<1>1. Init => RequeuedWaits /\ NoJobIsLost
  BY DEF Init, RequeuedWaits, NoJobIsLost, IsAttended, Absent, At, Idle
<1>2. TypeOK /\ EntriesAreExclusive /\ RequeuedWaits /\ NoJobIsLost /\ [Next]_vars
        => RequeuedWaits' /\ NoJobIsLost'
  BY RequeuedIsKept, AttendanceIsKept
<1> QED
  BY <1>1, <1>2, TypesHold, ExclusionHolds, PTL DEF Spec
-----------------------------------------------------------------------------
\* Jobs that have used up their attempts.

\* A handler that is rescheduling its job read a count below max_attempts.
ReschedulesYoung ==
  \A w \in Workers :
    worker[w].pc \in {"failed", "retrying", "requeued"} => worker[w].attempt < MaxAttempts

LEMMA ReschedulesYoungIsKept ==
  ASSUME TypeOK, ReschedulesYoung, [Next]_vars
  PROVE  ReschedulesYoung'
<1> SUFFICES ASSUME NEW w \in Workers, worker'[w].pc \in {"failed", "retrying", "requeued"}
             PROVE  worker'[w].attempt < MaxAttempts
  BY DEF ReschedulesYoung
<1>1. CASE Handler(w)
  <2>1. FailForRetry(w) \/ MarkRetrying(w) \/ AddRetry(w)
    BY <1>1, Catches
  <2>2. worker[w].attempt < MaxAttempts
    BY <2>1 DEF FailForRetry, WillRetry, MarkRetrying, AddRetry, At, ReschedulesYoung
  <2>3. worker'[w].attempt = worker[w].attempt
    BY <2>1, GotoEffect DEF FailForRetry, MarkRetrying, AddRetry
  <2> QED
    BY <2>2, <2>3
<1>2. CASE worker'[w].pc = worker[w].pc /\ Keeps(w)
  BY <1>2 DEF Keeps, ReschedulesYoung
<1> QED
  BY <1>1, <1>2, WorkerGoes, TakenIsLoaded DEF Idle

\* Only the UPDATE to RUNNING of a SCHEDULED job counts an attempt.
LEMMA AttemptIsKept ==
  ASSUME TypeOK, [Next]_vars, NEW j \in Jobs, job[j].status # "SCHEDULED"
  PROVE  job'[j].attempt = job[j].attempt
<1>1. CASE NoMove
  BY <1>1 DEF NoMove
<1>2. CASE SafeMove
  BY <1>2 DEF SafeMove, UpdateJob, TypeOK, JobRow
<1>3. ASSUME NEW w \in Workers, Start(w) PROVE job'[j].attempt = job[j].attempt
  BY <1>3 DEF Start, TypeOK
<1>4. ASSUME NEW k \in Jobs, CreateInsert(k) \/ CreateSchedule(k)
      PROVE  job'[j].attempt = job[j].attempt
  BY <1>4 DEF CreateInsert, CreateSchedule, TypeOK, JobRow
<1>5. ASSUME NEW k \in Jobs, RetryMark(k) \/ RetryRevert(k)
      PROVE  job'[j].attempt = job[j].attempt
  <2>1. job[j] \in JobRow /\ job \in [Jobs -> JobRow]
    BY DEF TypeOK
  <2>2. CASE RetryMark(k)
    BY <2>1, <2>2 DEF RetryMark, JobRow
  <2>3. CASE RetryRevert(k)
    BY <2>1, <2>3 DEF RetryRevert, JobRow
  <2> QED
    BY <1>5, <2>2, <2>3
<1> QED
  BY <1>1, <1>2, <1>3, <1>4, <1>5, Moves

LEMMA ExhaustedIsKept ==
  ASSUME TypeOK, CreatingIsPending, ReschedulesYoung, [Next]_vars,
         NEW j \in Jobs, Exhausted(j)
  PROVE  Exhausted(j)'
<1>1. ASSUME NEW w \in Workers, worker[w].job = j PROVE ~Reschedule(w)
  BY <1>1 DEF Exhausted, ReschedulesYoung, Reschedule, At
<1>2. job'[j].status \notin {Absent, "PENDING", "SCHEDULED"}
  <2>1. ~CreateInsert(j) /\ ~CreateSchedule(j)
    BY DEF CreateInsert, CreateSchedule, CreatingIsPending, Exhausted
  <2>2. CASE job'[j].status = job[j].status
    BY <2>2 DEF Exhausted
  <2>3. CASE Revives(j)
    <3>1. CASE RetryRevert(j)
      <4>1. job'[j].status = retry[j].status /\ retry[j].status # "SCHEDULED"
        BY <3>1 DEF RetryRevert, InRetry, Exhausted, TypeOK, JobRow
      <4>2. retry[j].status \in JobStatus /\ retry[j].status # "PENDING"
        BY <3>1 DEF RetryRevert, InRetry, TypeOK, RetryRoute, TriggerPasses, Exhausted,
                    StateMachine!ValidTransition
      <4> QED
        BY <4>1, <4>2 DEF Absent, JobStatus
    <3> QED
      BY <1>1, <2>1, <2>3, <3>1 DEF Revives, Works, Absent
  <2> QED
    BY <2>2, <2>3, WhoWrites DEF Parked, Parks, Absent
<1>3. job'[j].attempt = job[j].attempt
  BY AttemptIsKept DEF Exhausted
<1>4. ASSUME NEW w \in Workers, worker'[w].job = j, worker'[w].attempt < MaxAttempts
      PROVE  At(w, "rethrow")'
  <2>1. worker'[w] # Idle
    BY <1>4, ConstantsAssumption DEF Idle
  <2>2. CASE Keeps(w) /\ (Handler(w) \/ worker'[w].pc = worker[w].pc)
    <3>1. worker[w].pc = "rethrow"
      BY <1>4, <2>2 DEF Keeps, Exhausted, At
    <3>2. ~Rethrow(w)
      BY <2>1 DEF Rethrow, HandBack, TypeOK
    <3> QED
      BY <2>2, <3>1, <3>2, Catches DEF At
  <2>3. ASSUME NEW e \in Entries, TakeAndLoad(w, e) PROVE FALSE
    BY <1>4, <2>3, TakenIsLoaded DEF Exhausted
  <2> QED
    BY <2>1, <2>2, <2>3, WorkerGoes, HandlerGoes
<1>5. ASSUME retry'[j] # Nobody PROVE retry'[j].status # "SCHEDULED"
  <2>1. CASE retry'[j] = retry[j]
    BY <1>5, <2>1 DEF Exhausted
  <2>2. ASSUME RetryRead(j) PROVE retry'[j].status # "SCHEDULED"
    BY <2>2 DEF RetryRead, Exhausted, TypeOK
  <2>3. ASSUME RetryMark(j) PROVE retry'[j].status # "SCHEDULED"
    BY <2>3 DEF RetryMark, InRetry, Exhausted, TypeOK, RetryRoute
  <2>4. ASSUME RetryEnqueue(j) \/ RetryRevert(j) \/ RetryEnds(j) PROVE FALSE
    BY <1>5, <2>4 DEF RetryEnqueue, RetryRevert, RetryEnds, TypeOK
  <2> QED
    BY <2>1, <2>2, <2>3, <2>4, RetryGoes
<1> QED
  BY <1>2, <1>3, <1>4, <1>5 DEF Exhausted

\* Once a job has used up its attempts and every handler that read a lower
\* count is past its reschedule, nothing schedules the job again.
THEOREM ExhaustionStays == Spec => ExhaustedStays
<1>1. Init => CreatingIsPending /\ MarkedIsPast /\ ReschedulesYoung
  BY DEF Init, CreatingIsPending, MarkedIsPast, InRetry, ReschedulesYoung, Idle
<1>2. TypeOK /\ CreatingIsPending /\ MarkedIsPast /\ ReschedulesYoung /\ [Next]_vars
        => CreatingIsPending' /\ MarkedIsPast' /\ ReschedulesYoung'
  BY PendingIsKept, PastIsKept, ReschedulesYoungIsKept
<1>3. TypeOK /\ CreatingIsPending /\ ReschedulesYoung /\ [Next]_vars
        => [\A j \in Jobs : Exhausted(j) => Exhausted(j)']_vars
  BY ExhaustedIsKept
<1> QED
  BY <1>1, <1>2, <1>3, TypesHold, PTL DEF Spec, ExhaustedStays
=============================================================================
