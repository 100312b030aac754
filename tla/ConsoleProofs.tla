---------------------------- MODULE ConsoleProofs ----------------------------
(*****************************************************************************)
(* Theorems of the parts of the console, for any number of calls, jobs,      *)
(* cards, secrets, channels, models, tools, users, servers and skills, and   *)
(* what follows of them together.                                            *)
(*****************************************************************************)
EXTENDS MCConsole, TLAPS, FiniteSetTheorems

(*****************************************************************************)
(* The data of a page.                                                       *)
(*****************************************************************************)

QueryRows ==
  /\ filter \in Filters /\ version \in 1 .. MaxVersion /\ wanted \in 0 .. version
  /\ fetch \in [Fetches -> [asked : Filters \cup {0}, read : 0 .. MaxVersion]]

QuerySets ==
  /\ cached = {} \/ \E f \in Fetches : cached = {f}
  /\ awaited \subseteq Fetches /\ settled \subseteq Fetches

QueryFlags ==
  /\ young \in BOOLEAN /\ isLoading \in BOOLEAN /\ failed \in BOOLEAN /\ blurred \in BOOLEAN

\* A page that is not blurred awaits the request of its last execute(), or none.
AwaitsItsOwn ==
  /\ ~blurred /\ isLoading =>
       \E f \in Fetches : /\ awaited = {f} /\ f \notin settled /\ fetch[f].asked = filter
                          /\ fetch[f].read = 0 \/ fetch[f].read >= wanted
  /\ ~blurred /\ ~isLoading => awaited = {}

QueryInv == QueryRows /\ QuerySets /\ QueryFlags /\ LoadingAwaits /\ AwaitsItsOwn /\ ShownIsWanted

LEMMA QueryStarts == QueryInit => QueryInv
<1> SUFFICES ASSUME QueryInit PROVE QueryInv
  OBVIOUS
<1>1. QueryRows
  <2>1. NoFetch \in [asked : Filters \cup {0}, read : 0 .. MaxVersion]
    BY QueryAssumption DEF NoFetch
  <2> QED
    BY <2>1, QueryAssumption DEF QueryInit, QueryRows
<1>2. QuerySets /\ QueryFlags
  BY DEF QueryInit, QuerySets, QueryFlags
<1> QED
  BY <1>1, <1>2 DEF QueryInit, QueryInv, LoadingAwaits, AwaitsItsOwn, ShownIsWanted

LEMMA ExecuteKeeps ==
  ASSUME QueryInv, NEW f \in Filters, NEW now \in 1 .. MaxVersion, Execute(f, now),
         filter' = f, version' = now
  PROVE  QueryInv'
<1>0. isLoading' = TRUE /\ failed' = FALSE /\ wanted' = now /\ shown' = shown
  BY DEF Execute
<1>1. CASE Shared # {}
  <2>1. /\ awaited' = awaited \cup Shared /\ blurred' = TRUE
        /\ UNCHANGED <<fetch, cached, young, settled>>
    BY <1>1 DEF Execute
  <2>2. Shared \subseteq Fetches
    BY DEF Shared, QueryInv, QuerySets
  <2>3. QueryRows'
    BY <1>0, <2>1 DEF QueryInv, QueryRows
  <2>4. QuerySets' /\ QueryFlags'
    BY <1>0, <2>1, <2>2 DEF QueryInv, QuerySets, QueryFlags
  <2> QED
    BY <1>0, <1>1, <2>1, <2>3, <2>4 DEF QueryInv, LoadingAwaits, AwaitsItsOwn, ShownIsWanted
<1>2. CASE Shared = {}
  <2>1. PICK g \in Fetches \ (awaited \cup settled \cup cached) :
          /\ fetch' = [fetch EXCEPT ![g] = [asked |-> f, read |-> 0]]
          /\ cached' = {g} /\ young' = TRUE /\ awaited' = awaited \cup {g}
          /\ blurred' = (awaited # {} \/ (blurred /\ isLoading)) /\ UNCHANGED settled
    BY <1>2 DEF Execute
  <2>2. blurred' \in BOOLEAN /\ (~blurred' => awaited = {})
    BY <2>1
  <2>3. QueryRows'
    BY <1>0, <2>1, QueryAssumption DEF QueryInv, QueryRows
  <2>4. QuerySets'
    BY <2>1 DEF QueryInv, QuerySets
  <2>5. QueryFlags'
    BY <1>0, <2>1, <2>2 DEF QueryFlags
  <2>6. fetch'[g].asked = f /\ fetch'[g].read = 0
    BY <2>1 DEF QueryInv, QueryRows
  <2>7. LoadingAwaits'
    BY <2>1 DEF LoadingAwaits
  <2>8. AwaitsItsOwn'
    BY <1>0, <2>1, <2>2, <2>6 DEF AwaitsItsOwn
  <2> QED
    BY <1>0, <2>3, <2>4, <2>5, <2>7, <2>8 DEF QueryInv, ShownIsWanted
<1> QED
  BY <1>1, <1>2

LEMMA QuerySteps == QueryInv /\ [QueryNext]_queryVars => QueryInv'
<1> SUFFICES ASSUME QueryInv, [QueryNext]_queryVars PROVE QueryInv'
  OBVIOUS
<1>1. ASSUME NEW f \in Filters, Ask(f) PROVE QueryInv'
  BY <1>1, ExecuteKeeps DEF Ask, QueryInv, QueryRows
<1>2. CASE Refetch
  <2>1. version + 1 \in 1 .. MaxVersion
    BY <1>2, QueryAssumption DEF Refetch, QueryInv, QueryRows
  <2> QED
    BY <1>2, <2>1, ExecuteKeeps DEF Refetch, QueryInv, QueryRows
<1>3. CASE OthersChange
  BY <1>3, QueryAssumption
     DEF OthersChange, QueryInv, QueryRows, QuerySets, QueryFlags, LoadingAwaits, AwaitsItsOwn,
         ShownIsWanted
<1>4. CASE Expire
  BY <1>4 DEF Expire, QueryInv, QueryRows, QuerySets, QueryFlags, LoadingAwaits, AwaitsItsOwn,
              ShownIsWanted
<1>5. ASSUME NEW f \in Fetches, ReadRows(f) PROVE QueryInv'
  <2>1. /\ fetch' = [fetch EXCEPT ![f].read = version]
        /\ version \in 1 .. MaxVersion /\ wanted <= version
    BY <1>5 DEF ReadRows, QueryInv, QueryRows
  <2>2. fetch' \in [Fetches -> [asked : Filters \cup {0}, read : 0 .. MaxVersion]]
    BY <2>1, QueryAssumption DEF QueryInv, QueryRows
  <2>3. \A g \in Fetches : /\ fetch'[g].asked = fetch[g].asked
                           /\ fetch'[g].read = IF g = f THEN version ELSE fetch[g].read
    BY <2>1 DEF QueryInv, QueryRows
  <2> QED
    BY <1>5, <2>1, <2>2, <2>3
       DEF ReadRows, QueryInv, QueryRows, QuerySets, QueryFlags, LoadingAwaits, AwaitsItsOwn,
           ShownIsWanted
<1>6. ASSUME NEW f \in Fetches, Settle(f) PROVE QueryInv'
  <2>1. /\ f \in awaited /\ fetch[f].read > 0 /\ shown' = fetch[f]
        /\ isLoading' = FALSE /\ failed' = FALSE
        /\ awaited' = awaited \ {f} /\ settled' = settled \cup {f}
        /\ UNCHANGED <<filter, version, fetch, cached, young, wanted, blurred>>
    BY <1>6 DEF Settle
  <2>2. QueryRows' /\ QuerySets' /\ QueryFlags' /\ LoadingAwaits'
    BY <2>1 DEF QueryInv, QueryRows, QuerySets, QueryFlags, LoadingAwaits
  <2>3. ASSUME ~blurred
        PROVE  awaited' = {} /\ fetch[f].asked = filter /\ fetch[f].read >= wanted
    BY <2>1, <2>3 DEF QueryInv, QueryRows, AwaitsItsOwn
  <2> QED
    BY <2>1, <2>2, <2>3 DEF QueryInv, AwaitsItsOwn, ShownIsWanted
<1>7. ASSUME NEW f \in Fetches, FetchFails(f) PROVE QueryInv'
  BY <1>7 DEF FetchFails, QueryInv, QueryRows, QuerySets, QueryFlags, LoadingAwaits, AwaitsItsOwn,
              ShownIsWanted
<1>8. ASSUME NEW f \in Fetches, Evict(f) PROVE QueryInv'
  <2>1. /\ f \in settled /\ settled' = settled \ {f}
        /\ cached' = {} /\ young' = FALSE /\ fetch' = [fetch EXCEPT ![f] = NoFetch]
        /\ UNCHANGED <<filter, version, awaited, shown, isLoading, failed, wanted, blurred>>
    BY <1>8 DEF Evict
  <2>2. NoFetch \in [asked : Filters \cup {0}, read : 0 .. MaxVersion]
    BY QueryAssumption DEF NoFetch
  <2>3. QueryRows'
    BY <2>1, <2>2 DEF QueryInv, QueryRows
  <2>4. QuerySets' /\ QueryFlags' /\ LoadingAwaits' /\ ShownIsWanted'
    BY <2>1 DEF QueryInv, QuerySets, QueryFlags, LoadingAwaits, ShownIsWanted
  <2>5. \A g \in Fetches \ settled : fetch'[g] = fetch[g]
    BY <2>1 DEF QueryInv, QueryRows
  <2>6. AwaitsItsOwn'
    BY <2>1, <2>5 DEF QueryInv, AwaitsItsOwn
  <2> QED
    BY <2>3, <2>4, <2>6 DEF QueryInv
<1>9. CASE UNCHANGED queryVars
  BY <1>9 DEF queryVars, QueryInv, QueryRows, QuerySets, QueryFlags, LoadingAwaits, AwaitsItsOwn,
              ShownIsWanted
<1> QED
  BY <1>1, <1>2, <1>3, <1>4, <1>5, <1>6, <1>7, <1>8, <1>9 DEF QueryNext

LEMMA QuerySound == QueryInv => QueryTypeOK /\ LoadingAwaits /\ ShownIsWanted
<1> SUFFICES ASSUME QueryInv PROVE QueryTypeOK
  BY DEF QueryInv
<1>1. Cardinality(cached) <= 1
  <2>1. CASE cached = {}
    BY <2>1, FS_EmptySet
  <2>2. ASSUME NEW f \in Fetches, cached = {f} PROVE Cardinality(cached) <= 1
    <3>1. Cardinality({f}) = 1
      BY FS_Singleton
    <3> QED
      BY <2>2, <3>1
  <2> QED
    BY <2>1, <2>2 DEF QueryInv, QuerySets
<1>2. wanted \in 0 .. MaxVersion
  BY QueryAssumption DEF QueryInv, QueryRows
<1>3. {cached, awaited, settled} \subseteq SUBSET Fetches
  BY DEF QueryInv, QuerySets
<1>4. {young, isLoading, failed, blurred} \subseteq BOOLEAN
  BY DEF QueryInv, QueryFlags
<1> QED
  BY <1>1, <1>2, <1>3, <1>4 DEF QueryInv, QueryRows, QueryTypeOK

(*****************************************************************************)
(* A request and its retries.                                                *)
(*****************************************************************************)

\* No attempt is ahead of the loop, and what the caller was told is what the attempt met.
CallInv ==
  /\ CallTypeOK
  /\ awaits \in {"start", "delay"} => request[attempt] = "none"
  /\ awaits = "body" => request[attempt] = "served"
  /\ result = "ok" => request[attempt] = "served"
  /\ result = "REFUSED" => request[attempt] = "refused"

LEMMA CallStarts == CallInit => CallInv
<1>1. 0 \in Attempts
  BY DEF Attempts, MaxRetries
<1> QED
  BY <1>1 DEF CallInit, CallInv, CallTypeOK

\* Another attempt starts with nothing sent; the last one ends the call.
LEMMA RetryKeeps ==
  ASSUME CallInv, NEW code \in {"TRANSIENT", "CONNECTION_REFUSED", "TIMEOUT"},
         awaits \in {"answer", "body"}, RetryOr(code), UNCHANGED <<endpoint, request, aborted>>
  PROVE  CallInv'
<1>1. CASE attempt < MaxRetries
  BY <1>1 DEF CallInv, CallTypeOK, RetryOr, Attempts, MaxRetries
<1>2. CASE ~(attempt < MaxRetries)
  BY <1>2 DEF CallInv, CallTypeOK, RetryOr, Ends, Attempts, MaxRetries
<1> QED
  BY <1>1, <1>2

LEMMA CallSteps == CallInv /\ [CallNext]_callVars => CallInv'
<1> SUFFICES ASSUME CallInv, [CallNext]_callVars PROVE CallInv'
  OBVIOUS
<1>1. CASE \E n \in Attempts : Serve(n)
  BY <1>1 DEF CallInv, CallTypeOK, Serve
<1>2. CASE Attempt
  BY <1>2 DEF CallInv, CallTypeOK, Attempt, Ends, Attempts, MaxRetries
<1>3. CASE Delayed
  BY <1>3 DEF CallInv, CallTypeOK, Delayed
<1>4. CASE Refused
  BY <1>4 DEF CallInv, CallTypeOK, Refused, Ends
<1>5. CASE Unavailable
  BY <1>5, RetryKeeps DEF Unavailable
<1>6. CASE Unreachable
  BY <1>6, RetryKeeps DEF Unreachable
<1>7. CASE TimesOut
  BY <1>7, RetryKeeps DEF TimesOut
<1>8. CASE Headers
  BY <1>8 DEF CallInv, CallTypeOK, Headers
<1>9. CASE CutOff
  BY <1>9, RetryKeeps DEF CutOff
<1>10. CASE Body
  BY <1>10 DEF CallInv, CallTypeOK, Body, Ends
<1>11. CASE Abort
  BY <1>11 DEF CallInv, CallTypeOK, Abort
<1>12. CASE UNCHANGED callVars
  BY <1>12 DEF CallInv, CallTypeOK, callVars
<1> QED
  BY <1>1, <1>2, <1>3, <1>4, <1>5, <1>6, <1>7, <1>8, <1>9, <1>10, <1>11, <1>12 DEF CallNext

LEMMA CallSound == CallInv => CallTypeOK /\ OutcomeIsTrue
<1> SUFFICES ASSUME CallInv, endpoint \in Writes
             PROVE  /\ result = "ok" => Effects > 0
                    /\ result = "REFUSED" /\ Effects > 0 => attempt > 0
                    /\ Effects > 1 => attempt > 0
  BY DEF CallInv, OutcomeIsTrue
<1> DEFINE arrived == {n \in Attempts : request[n] = "served"}
<1>1. IsFiniteSet(Attempts)
  <2>1. MaxRetries \in Int /\ 0 \in Int
    BY DEF MaxRetries
  <2> QED
    BY <2>1, FS_Interval DEF Attempts
<1>2. IsFiniteSet(arrived) /\ Cardinality(arrived) \in Nat
  BY <1>1, FS_Subset, FS_CardinalityType
<1>3. Effects = Cardinality(arrived)
  BY DEF Effects
<1>4. ASSUME result = "ok" PROVE Effects > 0
  <2>1. attempt \in arrived
    BY <1>4 DEF CallInv, CallTypeOK
  <2>2. Cardinality(arrived) # 0
    BY <1>2, <2>1, FS_EmptySet
  <2> QED
    BY <1>2, <1>3, <2>2
<1>5. ASSUME attempt = 0 PROVE arrived \subseteq {0}
  BY <1>5 DEF CallInv, CallTypeOK, Attempts
<1>6. ASSUME attempt = 0 PROVE Effects <= 1
  <2>1. IsFiniteSet({0}) /\ Cardinality({0}) = 1
    BY FS_Singleton
  <2>2. Cardinality(arrived) <= 1
    BY <1>5, <1>6, <2>1, FS_Subset
  <2> QED
    BY <1>3, <2>2
<1>7. ASSUME attempt = 0, result = "REFUSED" PROVE Effects = 0
  <2>1. arrived = {}
    BY <1>5, <1>7 DEF CallInv
  <2> QED
    BY <1>3, <2>1, FS_EmptySet
<1>8. attempt = 0 \/ attempt > 0
  BY DEF CallInv, CallTypeOK, Attempts
<1> QED
  BY <1>2, <1>3, <1>4, <1>6, <1>7, <1>8

\* Only the head of the loop sends, and it looks at the signal.
LEMMA GivenUpSendsNothing ==
  CallInv /\ [CallNext]_callVars =>
    [aborted => \A n \in Attempts : request[n] = "none" => request'[n] = "none"]_callVars
<1> SUFFICES ASSUME CallInv, CallNext, aborted, NEW n \in Attempts, request[n] = "none"
             PROVE  request'[n] = "none"
  OBVIOUS
<1>1. CASE \E m \in Attempts : Serve(m)
  BY <1>1 DEF Serve, CallInv, CallTypeOK
<1>2. CASE Attempt
  BY <1>2 DEF Attempt
<1>3. CASE UNCHANGED request
  BY <1>3
<1> QED
  BY <1>1, <1>2, <1>3
     DEF CallNext, Delayed, Refused, Unavailable, Unreachable, TimesOut, Headers, CutOff, Body,
         Abort

(*****************************************************************************)
(* Operators' calls on an agent, while its jobs start, end and judge it.     *)
(*****************************************************************************)

AdminCallStates ==
  {"none", "update", "reset", "release", "quarantine", "kill", "archive", "create", "replay",
   "rollback", "pause", "resume"} \X {"none", "read", "failed", "counted"}

\* The calls go their ways; the agent that is archived, or about to be, has no session.
AdminCallsInv ==
  /\ call \in [AdminCalls -> AdminCallStates]
  /\ status \in {"ACTIVE", "DISABLED", "ARCHIVED", "QUARANTINED"} /\ sessions \in 0 .. 1
  /\ \A c \in AdminCalls : call[c] = <<"archive", "counted">> /\ ~unchecked => sessions = 0
  /\ ArchivedIsEmpty

\* What is counted: a job that has judged the agent, without a reset since it read it, has
\* counted failures that are the agent's still.
AdminJobsInv ==
  /\ streak \in Nat /\ failures \in Nat /\ streak <= failures /\ failures <= Threshold
  /\ condemned = Threshold
  /\ adminJob \in [AdminJobs -> {"none", "SCHEDULED", "RUNNING", "loaded", "judged", "executing",
                                 "paused", "pausedOver", "stranded", "COMPLETED", "FAILED"}]
  /\ kept \in [AdminJobs -> Nat]
  /\ \A j \in AdminJobs : adminJob[j] = "judged" /\ kept[j] = 0 => failures = Threshold

AdminInv == AdminCallsInv /\ AdminJobsInv

LEMMA AdminStarts == AdminInit => AdminInv
<1> SUFFICES ASSUME AdminInit PROVE AdminInv
  OBVIOUS
<1>1. AdminJobsInv
  BY AdminAssumption DEF AdminInit, AdminJobsInv
<1>2. NoAdminCall \in AdminCallStates /\ NoAdminCall # <<"archive", "counted">>
  BY DEF NoAdminCall, AdminCallStates
<1>3. AdminCallsInv
  BY <1>2 DEF AdminInit, AdminCallsInv, ArchivedIsEmpty
<1> QED
  BY <1>1, <1>3 DEF AdminInv

\* A failure is counted up to the threshold.
LEMMA FailKeeps ==
  ASSUME AdminJobsInv, NEW j \in AdminJobs, Fail(j), UNCHANGED kept,
         condemned' = Threshold
  PROVE  AdminJobsInv'
  BY AdminAssumption DEF AdminJobsInv, Fail

\* A reset leaves to a job that has judged what it counted.
LEMMA ResetKeeps ==
  ASSUME AdminJobsInv, ResetHealth, UNCHANGED adminJob
  PROVE  AdminJobsInv'
<1>1. kept' \in [AdminJobs -> Nat]
  BY AdminAssumption DEF AdminJobsInv, ResetHealth
<1>2. \A j \in AdminJobs : adminJob[j] = "judged" => kept'[j] = Threshold
  BY DEF ResetHealth
<1> QED
  BY <1>1, <1>2, AdminAssumption DEF AdminJobsInv, ResetHealth

LEMMA AdminSteps == AdminInv /\ [AdminNext]_adminVars => AdminInv'
<1> SUFFICES ASSUME AdminInv, [AdminNext]_adminVars PROVE AdminInv'
  OBVIOUS
<1> USE AdminAssumption
<1>1. ASSUME NEW c \in AdminCalls, NEW op \in {"update", "reset", "release", "quarantine", "kill",
               "archive", "create", "replay", "rollback", "pause", "resume"}, Read(c, op)
      PROVE  AdminInv'
  BY <1>1 DEF AdminInv, AdminCallsInv, AdminJobsInv, AdminCallStates, ArchivedIsEmpty, Read, Goes,
     judging, NoAdminCall
<1>2. ASSUME NEW c \in AdminCalls, NEW s \in {"ACTIVE", "DISABLED", "ARCHIVED"}, UpdateStatus(c, s)
      PROVE  AdminInv'
  <2>1. AdminCallsInv'
    <3>1. /\ call' \in [AdminCalls -> AdminCallStates]
          /\ \A d \in AdminCalls : call'[d] # <<"archive", "counted">> \/ call'[d] = call[d]
      BY <1>2 DEF AdminInv, AdminCallsInv, AdminCallStates, UpdateStatus, Returns, NoAdminCall
    <3>2. CASE s = "ARCHIVED"
      <4>1. sessions # 0 => sessions > 0
        BY DEF AdminInv, AdminCallsInv
      <4>2. sessions > 0 => unchecked'
        BY <1>2, <3>2, Zenon DEF UpdateStatus
      <4>3. status' = s /\ sessions' = sessions
        BY <1>2 DEF UpdateStatus
      <4> QED
        BY <3>1, <3>2, <4>1, <4>2, <4>3 DEF AdminInv, AdminCallsInv, ArchivedIsEmpty
    <3>3. CASE s # "ARCHIVED"
      BY <1>2, <3>1, <3>3 DEF AdminInv, AdminCallsInv, ArchivedIsEmpty, UpdateStatus
    <3> QED
      BY <3>2, <3>3
  <2>2. CASE s = "ACTIVE"
    BY <1>2, <2>1, <2>2, ResetKeeps DEF AdminInv, UpdateStatus
  <2>3. CASE s # "ACTIVE"
    BY <1>2, <2>1, <2>3 DEF AdminInv, AdminJobsInv, UpdateStatus, judging
  <2> QED
    BY <2>2, <2>3
<1>3. ASSUME NEW c \in AdminCalls, resetHealth(c) \/ Release(c)
      PROVE  AdminInv'
  <2>1. AdminCallsInv'
    BY <1>3 DEF AdminInv, AdminCallsInv, AdminCallStates, ArchivedIsEmpty, resetHealth, Release,
       Returns, NoAdminCall
  <2> QED
    BY <1>3, <2>1, ResetKeeps DEF AdminInv, resetHealth, Release
<1>4. ASSUME NEW c \in AdminCalls, Quarantine(c)
      PROVE  AdminInv'
  BY <1>4 DEF AdminInv, AdminCallsInv, AdminJobsInv, AdminCallStates, ArchivedIsEmpty, Quarantine,
     Returns, judging, NoAdminCall
<1>5. ASSUME NEW c \in AdminCalls, Kill(c)
      PROVE  AdminInv'
  <2>1. AdminCallsInv'
    BY <1>5 DEF AdminInv, AdminCallsInv, AdminCallStates, ArchivedIsEmpty, Kill, Goes
  <2>2. CASE Running = {}
    BY <1>5, <2>1, <2>2 DEF AdminInv, AdminJobsInv, Kill
  <2>3. CASE Running # {}
    <3>1. PICK j \in Running : Fail(j)
      BY <1>5, <2>3 DEF Kill
    <3>2. j \in AdminJobs
      BY DEF Running
    <3> QED
      BY <1>5, <2>1, <3>1, <3>2, FailKeeps DEF AdminInv, AdminJobsInv, Kill
  <2> QED
    BY <2>2, <2>3
<1>6. ASSUME NEW c \in AdminCalls, CountSessions(c) \/ Archive(c)
      PROVE  AdminInv'
  BY <1>6 DEF AdminInv, AdminCallsInv, AdminJobsInv, AdminCallStates, ArchivedIsEmpty,
     CountSessions, Archive, Returns, Goes, judging, NoAdminCall
<1>7. ASSUME NEW c \in AdminCalls, NEW j \in AdminJobs,
             InsertJob(c, j) \/ Pause(c, j) \/ Resume(c, j)
      PROVE  AdminInv'
  <2>1. AdminCallsInv'
    BY <1>7 DEF AdminInv, AdminCallsInv, AdminCallStates, ArchivedIsEmpty, InsertJob, Pause, Resume,
       Returns, NoAdminCall
  <2>2. AdminJobsInv'
    BY <1>7 DEF AdminInv, AdminJobsInv, InsertJob, Pause, Resume, judging
  <2> QED
    BY <2>1, <2>2 DEF AdminInv
<1>8. ASSUME OpenSession \/ EndSession
      PROVE  AdminInv'
  <2>1. AdminJobsInv'
    BY <1>8 DEF AdminInv, AdminJobsInv, OpenSession, EndSession, judging
  <2>2. CASE OpenSession
    <3>1. /\ status = "ARCHIVED" => unchecked'
          /\ \A c \in AdminCalls : call[c] = <<"archive", "counted">> => unchecked'
      BY <2>2, Zenon DEF OpenSession
    <3>2. sessions' = 1 /\ UNCHANGED <<status, call>>
      BY <2>2 DEF OpenSession
    <3> QED
      BY <2>1, <3>1, <3>2 DEF AdminInv, AdminCallsInv, ArchivedIsEmpty
  <2>3. CASE EndSession
    BY <2>1, <2>3 DEF AdminInv, AdminCallsInv, ArchivedIsEmpty, EndSession
  <2> QED
    BY <1>8, <2>2, <2>3
<1>9. ASSUME NEW j \in AdminJobs,
             \/ StartJob(j) \/ LoadAgent(j) \/ Judge(j) \/ Condemn(j) \/ EndJob(j) \/ EndPaused(j)
      PROVE  AdminInv'
  <2>1. AdminCallsInv'
    BY <1>9 DEF AdminInv, AdminCallsInv, ArchivedIsEmpty, StartJob, LoadAgent, Judge, Condemn,
       EndJob, EndPaused
  <2>2. CASE StartJob(j) \/ EndPaused(j) \/ Judge(j)
    BY <2>1, <2>2 DEF AdminInv, AdminJobsInv, StartJob, EndPaused, Judge, judging
  <2>3. CASE LoadAgent(j)
    BY <2>1, <2>3 DEF AdminInv, AdminJobsInv, LoadAgent, Fail
  <2>4. CASE Condemn(j)
    <3>1. condemned' = Threshold
      BY <2>4 DEF AdminInv, AdminJobsInv, Condemn
    <3> QED
      BY <2>1, <2>4, <3>1, FailKeeps DEF AdminInv, Condemn
  <2>5. CASE EndJob(j)
    <3>1. CASE Fail(j) /\ UNCHANGED kept
      BY <2>1, <2>5, <3>1, FailKeeps DEF AdminInv, AdminJobsInv, EndJob
    <3>2. CASE ~(Fail(j) /\ UNCHANGED kept)
      BY <2>1, <2>5, <3>2 DEF AdminInv, AdminJobsInv, EndJob
    <3> QED
      BY <3>1, <3>2
  <2> QED
    BY <1>9, <2>2, <2>3, <2>4, <2>5
<1>10. CASE UNCHANGED adminVars
  BY <1>10 DEF AdminInv, AdminCallsInv, AdminJobsInv, ArchivedIsEmpty, adminVars
<1> QED
  BY <1>1, <1>2, <1>3, <1>4, <1>5, <1>6, <1>7, <1>8, <1>9, <1>10 DEF AdminNext

LEMMA AdminSound == AdminInv => AdminTypeOK /\ CondemnedAfresh /\ ArchivedIsEmpty
  BY AdminAssumption DEF AdminInv, AdminCallsInv, AdminJobsInv, AdminTypeOK, CondemnedAfresh

(*****************************************************************************)
(* The chat of the agent page.                                               *)
(*****************************************************************************)

ChatOrNone == ChatIds \cup {NoChat}

Sent == [text : Nat, asked : ChatOrNone, at : {"none", "posting", "posted", "failed"}]

PolledJob == [status : {"none", "live", "answered", "failed", "waiting"}, of : ChatOrNone]

\* What a poll under way may have read: an answer only after it was stored.
PollReadings ==
  {q \in Messages \X {"asked", "none", "live", "answered", "failed", "waiting"} :
     q[2] = "answered" => q[1] \in saved}

Posting(n) == send[n].at = "posting"

ChatTypes ==
  /\ selected \in ChatOrNone /\ input \in Nat /\ texts \in Nat /\ timer \in Nat
  /\ send \in [Messages -> Sent] /\ chatJob \in [Messages -> PolledJob]
  /\ timer # 0 => timer \in Messages

\* The text in the input is the only one while none is under way, and one message is at a time,
\* unless a poll of an older message enabled the input.
OneAtATime ==
  ~crossed => /\ sending => input = 0
              /\ timer # 0 => sending /\ \A n \in Messages : ~Posting(n)
              /\ \A n \in Messages : Posting(n) => sending
              /\ \A n, k \in Messages : Posting(n) /\ Posting(k) => n = k

ChatInv ==
  /\ ChatTypes /\ viewPoll \in Seq(PollReadings)
  /\ \A n \in Messages : send[n].at = "none" => chatJob[n].status = "none"
  /\ OneAtATime /\ InputIsFreed /\ AnswerIsSaved /\ TextIsKept

\* An element less leaves the others.
LEMMA RemovedStays ==
  ASSUME NEW S, NEW s \in Seq(S), NEW i \in DOMAIN s
  PROVE  RemoveAt(s, i) \in Seq(S)
<1>1. i \in 1 .. Len(s) /\ Len(s) \in Nat
  OBVIOUS
<1>2. SubSeq(s, 1, i - 1) \in Seq(S) /\ SubSeq(s, i + 1, Len(s)) \in Seq(S)
  BY <1>1
<1> QED
  BY <1>2 DEF RemoveAt

\* What was stored stays stored.
LEMMA ReadingsGrow ==
  ASSUME viewPoll \in Seq(PollReadings), saved \subseteq saved'
  PROVE  viewPoll \in Seq(PollReadings')
<1> DEFINE A == PollReadings
           B == PollReadings'
<1>1. A \subseteq B
  BY DEF PollReadings
<1>2. viewPoll \in Seq(A)
  OBVIOUS
<1> HIDE DEF A, B
<1>3. viewPoll \in Seq(B)
  BY <1>1, <1>2
<1> QED
  BY <1>3 DEF B

LEMMA SelectStays ==
  ASSUME NEW s \in ChatOrNone, NEW list, Select(s, list)
  PROVE  selected' \in ChatOrNone
BY DEF Select, Selection, ChatOrNone

LEMMA ChatStarts == ChatViewInit => ChatInv
<1> SUFFICES ASSUME ChatViewInit PROVE ChatInv
  OBVIOUS
<1>1. ChatTypes
  BY DEF ChatViewInit, ChatTypes, ChatOrNone, Sent, PolledJob
<1>2. viewPoll \in Seq(PollReadings)
  BY DEF ChatViewInit
<1>3. /\ \A n \in Messages : ~Posting(n) /\ chatJob[n].status = "none"
      /\ sending = FALSE /\ bubbles = {} /\ texts = 0 /\ timer = 0
  BY DEF ChatViewInit, Posting
<1> QED
  BY <1>1, <1>2, <1>3 DEF ChatInv, OneAtATime, InputIsFreed, AnswerIsSaved, TextIsKept

\* What leaves the messages alone.
LEMMA PanelKeeps ==
  ASSUME ChatInv, selected' \in ChatOrNone, saved \subseteq saved',
         UNCHANGED <<input, texts, send, sending, chatJob, timer, crossed>>,
         viewPoll' \in Seq(PollReadings'), AnswerIsSaved'
  PROVE  ChatInv'
<1>1. ChatTypes'
  BY DEF ChatInv, ChatTypes
<1>2. OneAtATime' /\ InputIsFreed'
  BY DEF ChatInv, OneAtATime, Posting, InputIsFreed
<1>3. TextIsKept'
  BY DEF ChatInv, TextIsKept
<1> QED
  BY <1>1, <1>2, <1>3 DEF ChatInv

LEMMA MessageKeeps == ASSUME ChatInv, NEW n \in Messages, sendMessage(n) PROVE ChatInv'
<1>1. /\ input # 0 /\ ~sending /\ send[n].at = "none" /\ input' = 0 /\ sending' = TRUE
      /\ bubbles' = bubbles \cup {<<"user", n>>}
      /\ send' = [send EXCEPT ![n] = [text |-> input, asked |-> selected, at |-> "posting"]]
      /\ UNCHANGED <<texts, chatJob, saved, selected, timer, viewPoll, crossed>>
  BY DEF sendMessage, InputEnabled, served, panel, polling
<1>2. ChatTypes'
  BY <1>1 DEF ChatInv, ChatTypes, Sent
<1>3. /\ send'[n].at = "posting" /\ send'[n].text = input
      /\ \A k \in Messages \ {n} : send'[k] = send[k]
  BY <1>1 DEF ChatInv, ChatTypes
<1>4. viewPoll' \in Seq(PollReadings')
  BY <1>1 DEF ChatInv, PollReadings
<1>5. OneAtATime'
  BY <1>1, <1>3 DEF ChatInv, OneAtATime, Posting
<1>6. InputIsFreed' /\ AnswerIsSaved'
  BY <1>1, <1>3 DEF ChatInv, InputIsFreed, AnswerIsSaved
<1>7. TextIsKept'
  BY <1>1, <1>3 DEF ChatInv, TextIsKept
<1> QED
  BY <1>1, <1>2, <1>3, <1>4, <1>5, <1>6, <1>7 DEF ChatInv

LEMMA PollingKeeps == ASSUME ChatInv, NEW n \in Messages, startJobPolling(n) PROVE ChatInv'
<1>1. /\ Posting(n) /\ chatJob[n].status # "none"
      /\ send' = [send EXCEPT ![n].at = "posted"] /\ timer' = n
      /\ bubbles' = bubbles \cup {<<"pending", n>>}
      /\ UNCHANGED <<saved, chatJob, input, texts, sending, viewPoll, crossed>>
  BY DEF startJobPolling, Posting, served
<1>2. selected' \in ChatOrNone
  BY SelectStays DEF startJobPolling, ChatInv, ChatTypes, PolledJob
<1>3. ChatTypes'
  BY <1>1, <1>2 DEF ChatInv, ChatTypes, Sent, Messages
<1>4. /\ send'[n].at = "posted" /\ send'[n].text = send[n].text
      /\ \A k \in Messages \ {n} : send'[k] = send[k]
  BY <1>1 DEF ChatInv, ChatTypes, Sent
<1>5. viewPoll' \in Seq(PollReadings')
  BY <1>1 DEF ChatInv, PollReadings
<1>6. n # 0
  BY DEF Messages
<1>7. OneAtATime'
  BY <1>1, <1>4 DEF ChatInv, OneAtATime, Posting
<1>8. InputIsFreed' /\ AnswerIsSaved'
  BY <1>1, <1>4, <1>6 DEF ChatInv, InputIsFreed, AnswerIsSaved
<1>9. TextIsKept'
  BY <1>1, <1>4 DEF ChatInv, TextIsKept
<1> QED
  BY <1>1, <1>3, <1>4, <1>5, <1>7, <1>8, <1>9 DEF ChatInv

LEMMA FailingKeeps == ASSUME ChatInv, NEW n \in Messages, PostFails(n) PROVE ChatInv'
<1>1. /\ Posting(n) /\ send' = [send EXCEPT ![n].at = "failed"]
      /\ sending' = FALSE /\ bubbles' = bubbles \ {<<"user", n>>} /\ input' = send[n].text
      /\ UNCHANGED <<saved, chatJob, texts, selected, timer, viewPoll, crossed>>
  BY DEF PostFails, Posting, served, panel, polling
<1>2. ChatTypes'
  BY <1>1 DEF ChatInv, ChatTypes, Sent
<1>3. /\ send'[n].at = "failed" /\ send'[n].text = send[n].text
      /\ \A k \in Messages \ {n} : send'[k] = send[k]
  BY <1>1 DEF ChatInv, ChatTypes, Sent
<1>4. viewPoll' \in Seq(PollReadings')
  BY <1>1 DEF ChatInv, PollReadings
<1>5. ~crossed => sending /\ input = 0 /\ timer = 0 /\ \A k \in Messages : Posting(k) => k = n
  BY <1>1 DEF ChatInv, OneAtATime
<1>6. OneAtATime'
  BY <1>1, <1>3, <1>5 DEF OneAtATime, Posting
<1>7. InputIsFreed' /\ AnswerIsSaved'
  BY <1>1 DEF ChatInv, InputIsFreed, AnswerIsSaved
<1>8. TextIsKept'
  BY <1>1, <1>3, <1>5 DEF ChatInv, TextIsKept
<1> QED
  BY <1>1, <1>2, <1>3, <1>4, <1>6, <1>7, <1>8 DEF ChatInv

\* What changes only the jobs, none of which becomes unknown again.
LEMMA JobsKeep ==
  ASSUME ChatInv, NEW n \in Messages, NEW j \in PolledJob, j.status # "none",
         chatJob' = [chatJob EXCEPT ![n] = j], send[n].at # "none",
         UNCHANGED <<saved, input, texts, send, sending, selected, timer, viewPoll, crossed,
                     bubbles>>
  PROVE  ChatInv'
<1>1. ChatTypes'
  BY DEF ChatInv, ChatTypes
<1>2. chatJob'[n].status # "none" /\ \A k \in Messages \ {n} : chatJob'[k] = chatJob[k]
  BY DEF ChatInv, ChatTypes
<1>3. viewPoll' \in Seq(PollReadings')
  BY DEF ChatInv, PollReadings
<1>4. OneAtATime' /\ InputIsFreed' /\ AnswerIsSaved'
  BY DEF ChatInv, OneAtATime, Posting, InputIsFreed, AnswerIsSaved
<1>5. TextIsKept'
  BY <1>2 DEF ChatInv, TextIsKept
<1> QED
  BY <1>1, <1>2, <1>3, <1>4, <1>5 DEF ChatInv

LEMMA ReadKeeps == ASSUME ChatInv, NEW p \in DOMAIN viewPoll, ReadChatJob(p) PROVE ChatInv'
<1> DEFINE R == {"asked", "none", "live", "answered", "failed", "waiting"}
<1>1. viewPoll[p] \in PollReadings
  BY DEF ChatInv
<1>2. PICK n \in Messages, x \in R : viewPoll[p] = <<n, x>>
  BY <1>1 DEF PollReadings
<1>3. /\ viewPoll' = [viewPoll EXCEPT ![p][2] = chatJob[n].status]
      /\ saved' = IF chatJob[n].status = "answered" THEN saved \cup {n} ELSE saved
      /\ UNCHANGED <<chatJob, input, texts, send, sending, selected, timer, crossed, bubbles>>
  BY <1>2 DEF ReadChatJob, typing, panel
<1>4. viewPoll' = [viewPoll EXCEPT ![p] = <<n, chatJob[n].status>>]
  <2> DEFINE c == chatJob[n].status
  <2>1. viewPoll' = [viewPoll EXCEPT ![p] = [viewPoll[p] EXCEPT ![2] = c]]
    BY <1>3
  <2> HIDE DEF c
  <2>2. [<<n, x>> EXCEPT ![2] = c] = <<n, c>>
    OBVIOUS
  <2>3. viewPoll' = [viewPoll EXCEPT ![p] = <<n, c>>]
    BY <1>2, <2>1, <2>2
  <2> QED
    BY <2>3 DEF c
<1>5. saved \subseteq saved'
  BY <1>3
<1>6. <<n, chatJob[n].status>> \in PollReadings'
  <2>1. chatJob[n].status \in R
    BY DEF ChatInv, ChatTypes, PolledJob
  <2> QED
    BY <1>3, <2>1 DEF PollReadings
<1>7. viewPoll' \in Seq(PollReadings')
  <2> DEFINE B == PollReadings'
  <2>1. viewPoll \in Seq(B) /\ <<n, chatJob[n].status>> \in B
    BY <1>5, <1>6, ReadingsGrow DEF ChatInv
  <2> HIDE DEF B
  <2>2. viewPoll' \in Seq(B)
    BY <1>4, <2>1
  <2> QED
    BY <2>2 DEF B
<1>8. AnswerIsSaved'
  BY <1>3, <1>5 DEF ChatInv, AnswerIsSaved
<1> QED
  BY <1>3, <1>5, <1>7, <1>8, PanelKeeps DEF ChatInv, ChatTypes

LEMMA EndingKeeps == ASSUME ChatInv, NEW p \in DOMAIN viewPoll, PollEnds(p) PROVE ChatInv'
<1> DEFINE R == {"asked", "none", "live", "answered", "failed", "waiting"}
<1>1. viewPoll[p] \in PollReadings
  BY DEF ChatInv
<1>2. PICK n \in Messages, x \in R : viewPoll[p] = <<n, x>> /\ (x = "answered" => n \in saved)
  BY <1>1 DEF PollReadings
<1>3. /\ x \in DOMAIN Bubble /\ viewPoll' = RemoveAt(viewPoll, p)
      /\ timer' = 0 /\ sending' = FALSE /\ crossed' = (crossed \/ timer # n)
      /\ bubbles' = IF <<"pending", n>> \in bubbles
                    THEN (bubbles \ {<<"pending", n>>}) \cup {<<Bubble[x], n>>} ELSE bubbles
      /\ UNCHANGED <<saved, chatJob, input, texts, send, selected>>
  BY <1>2 DEF PollEnds, served, panel
<1>4. ChatTypes'
  BY <1>3 DEF ChatInv, ChatTypes
<1>5. viewPoll' \in Seq(PollReadings')
  <2>1. viewPoll' \in Seq(PollReadings)
    BY <1>3, RemovedStays DEF ChatInv
  <2> QED
    BY <1>3, <2>1 DEF PollReadings
<1>6. AnswerIsSaved'
  <2>1. Bubble[x] = "answer" => n \in saved
    BY <1>2, <1>3 DEF Bubble
  <2> QED
    BY <1>3, <2>1 DEF ChatInv, AnswerIsSaved
<1>7. ~crossed' => ~crossed /\ timer = n /\ n # 0
  <2>1. n # 0
    BY DEF Messages
  <2> QED
    BY <1>3, <2>1, Zenon
<1>8. OneAtATime'
  BY <1>3, <1>7 DEF ChatInv, OneAtATime, Posting
<1>9. TextIsKept'
  BY <1>3, <1>7 DEF ChatInv, TextIsKept
<1> QED
  BY <1>3, <1>4, <1>5, <1>6, <1>8, <1>9 DEF ChatInv, InputIsFreed

LEMMA ChatSteps == ChatInv /\ [ChatViewNext]_viewVars => ChatInv'
<1> SUFFICES ASSUME ChatInv, [ChatViewNext]_viewVars PROVE ChatInv'
  OBVIOUS
<1>0. selected \in ChatOrNone /\ NoChat \in ChatOrNone
  BY DEF ChatInv, ChatTypes, ChatOrNone
<1>00. ASSUME UNCHANGED <<saved, viewPoll>> PROVE viewPoll' \in Seq(PollReadings')
  BY <1>00 DEF ChatInv, PollReadings
<1>1. CASE handleNewSession
  <2>1. /\ selected' \in ChatOrNone /\ bubbles' = {}
        /\ UNCHANGED <<saved, input, texts, send, sending, chatJob, timer, crossed, viewPoll>>
    BY <1>0, <1>1, SelectStays DEF handleNewSession, served, typing, polling
  <2> QED
    BY <1>00, <2>1, PanelKeeps DEF AnswerIsSaved
<1>2. ASSUME NEW s \in ChatIds, handleSelectSession(s) PROVE ChatInv'
  <2>1. /\ selected' \in ChatOrNone
        /\ UNCHANGED <<saved, input, texts, send, sending, chatJob, timer, crossed, viewPoll,
                       bubbles>>
    BY <1>2, SelectStays DEF handleSelectSession, served, typing, polling, ChatOrNone
  <2> QED
    BY <1>00, <2>1, PanelKeeps DEF ChatInv, AnswerIsSaved
<1>3. ASSUME NEW s \in ChatIds, handleClearSession(s) PROVE ChatInv'
  <2>1. /\ selected' \in ChatOrNone /\ (bubbles' = {} \/ bubbles' = bubbles)
        /\ UNCHANGED <<saved, input, texts, send, sending, chatJob, timer, crossed, viewPoll>>
    BY <1>0, <1>3, SelectStays DEF handleClearSession, typing, polling
  <2> QED
    BY <1>00, <2>1, PanelKeeps DEF ChatInv, AnswerIsSaved
<1>4. CASE SessionsArrive
  <2>1. /\ selected' \in ChatOrNone
        /\ UNCHANGED <<saved, input, texts, send, sending, chatJob, timer, crossed, viewPoll,
                       bubbles>>
    BY <1>0, <1>4, SelectStays DEF SessionsArrive, served, typing, polling
  <2> QED
    BY <1>00, <2>1, PanelKeeps DEF ChatInv, AnswerIsSaved
<1>5. ASSUME NEW s \in ChatIds, HistoryArrives(s) PROVE ChatInv'
  <2>1. UNCHANGED <<saved, input, texts, send, sending, chatJob, timer, crossed, viewPoll,
                    selected>>
    BY <1>5 DEF HistoryArrives, served, typing, polling
  <2>2. AnswerIsSaved'
    BY <1>5, <2>1 DEF HistoryArrives, AnswerIsSaved
  <2> QED
    BY <1>0, <1>00, <2>1, <2>2, PanelKeeps
<1>6. CASE Type
  <2>1. /\ input = 0 /\ ~sending /\ texts' = texts + 1 /\ input' = texts + 1
        /\ UNCHANGED <<saved, send, sending, chatJob, timer, crossed, viewPoll, selected, bubbles>>
    BY <1>6 DEF Type, InputEnabled, served, panel, polling
  <2>2. ChatTypes'
    BY <2>1 DEF ChatInv, ChatTypes
  <2>3. OneAtATime' /\ InputIsFreed' /\ AnswerIsSaved'
    BY <2>1 DEF ChatInv, OneAtATime, Posting, InputIsFreed, AnswerIsSaved
  <2>4. TextIsKept'
    BY <2>1 DEF ChatInv, ChatTypes, TextIsKept
  <2> QED
    BY <1>00, <2>1, <2>2, <2>3, <2>4 DEF ChatInv
<1>7. ASSUME NEW n \in Messages, Accept(n) PROVE ChatInv'
  <2>1. PICK s \in ChatIds : chatJob' = [chatJob EXCEPT ![n] = [status |-> "live", of |-> s]]
    BY <1>7 DEF Accept
  <2>2. [status |-> "live", of |-> s] \in PolledJob
    BY DEF PolledJob, ChatOrNone
  <2>3. /\ send[n].at # "none"
        /\ UNCHANGED <<saved, input, texts, send, sending, selected, timer, viewPoll, crossed,
                       bubbles>>
    BY <1>7 DEF Accept, typing, panel, polling
  <2> QED
    BY <2>1, <2>2, <2>3, JobsKeep
<1>8. ASSUME NEW n \in Messages, JobGoesOn(n) PROVE ChatInv'
  <2>1. PICK st \in {"live", "answered", "failed", "waiting"} :
          chatJob' = [chatJob EXCEPT ![n].status = st] /\ chatJob[n].status # "none"
    BY <1>8 DEF JobGoesOn
  <2> DEFINE j == [chatJob[n] EXCEPT !.status = st]
  <2>2. j \in PolledJob /\ j.status # "none"
    BY DEF ChatInv, ChatTypes, PolledJob
  <2>3. chatJob' = [chatJob EXCEPT ![n] = j]
    BY <2>1
  <2>4. /\ send[n].at # "none"
        /\ UNCHANGED <<saved, input, texts, send, sending, selected, timer, viewPoll, crossed,
                       bubbles>>
    BY <1>8, <2>1 DEF JobGoesOn, typing, panel, polling, ChatInv
  <2> HIDE DEF j
  <2> QED
    BY <2>2, <2>3, <2>4, JobsKeep
<1>9. ASSUME NEW n \in Messages, handleRetry(n) PROVE ChatInv'
  <2>1. /\ input = 0 /\ ~sending /\ bubbles' = bubbles \ {<<"error", n>>} /\ input' = send[n].text
        /\ UNCHANGED <<saved, texts, send, sending, chatJob, timer, crossed, viewPoll, selected>>
    BY <1>9 DEF handleRetry, InputEnabled, served, panel, polling
  <2>2. ChatTypes'
    BY <2>1 DEF ChatInv, ChatTypes, Sent
  <2>3. OneAtATime' /\ InputIsFreed' /\ AnswerIsSaved'
    BY <2>1 DEF ChatInv, OneAtATime, Posting, InputIsFreed, AnswerIsSaved
  <2>4. TextIsKept'
    BY <2>1 DEF ChatInv, ChatTypes, TextIsKept
  <2> QED
    BY <1>00, <2>1, <2>2, <2>3, <2>4 DEF ChatInv
<1>10. CASE Poll
  <2>1. /\ timer # 0 /\ viewPoll' = Append(viewPoll, <<timer, "asked">>)
        /\ UNCHANGED <<saved, input, texts, send, sending, chatJob, timer, crossed, selected,
                       bubbles>>
    BY <1>10 DEF Poll, served, typing, panel
  <2>2. <<timer, "asked">> \in PollReadings
    BY <2>1 DEF ChatInv, ChatTypes, PollReadings
  <2>3. viewPoll' \in Seq(PollReadings)
    BY <2>1, <2>2 DEF ChatInv
  <2>4. viewPoll' \in Seq(PollReadings')
    BY <2>1, <2>3 DEF PollReadings
  <2> QED
    BY <1>0, <2>1, <2>4, PanelKeeps DEF ChatInv, AnswerIsSaved
<1>11. ASSUME NEW p \in DOMAIN viewPoll, PollAgain(p) PROVE ChatInv'
  <2>1. /\ viewPoll' = RemoveAt(viewPoll, p)
        /\ UNCHANGED <<saved, input, texts, send, sending, chatJob, timer, crossed, selected,
                       bubbles>>
    BY <1>11 DEF PollAgain, served, typing, panel
  <2>2. viewPoll' \in Seq(PollReadings)
    BY <2>1, RemovedStays DEF ChatInv
  <2>3. viewPoll' \in Seq(PollReadings')
    BY <2>1, <2>2 DEF PollReadings
  <2> QED
    BY <1>0, <2>1, <2>3, PanelKeeps DEF ChatInv, AnswerIsSaved
<1>12. CASE UNCHANGED viewVars
  <2>1. UNCHANGED <<saved, input, texts, send, sending, chatJob, timer, crossed, viewPoll,
                    selected, bubbles>>
    BY <1>12 DEF viewVars
  <2> QED
    BY <1>0, <1>00, <2>1, PanelKeeps DEF ChatInv, AnswerIsSaved
<1> QED
  BY <1>1, <1>2, <1>3, <1>4, <1>5, <1>6, <1>7, <1>8, <1>9, <1>10, <1>11, <1>12, MessageKeeps,
     PollingKeeps, FailingKeeps, ReadKeeps, EndingKeeps DEF ChatViewNext

(*****************************************************************************)
(* Approvals: what is decided, written down and told.                        *)
(*****************************************************************************)

DecisionStates ==
  ({"none"} \cup Decisions) \X {"none", "read", "write", "refused", "audit", "done"}

\* A decision that was written is the request's, by whomever; one of a request that is pending
\* still is neither in the trail nor told.
DecisionsInv ==
  /\ approval \in [Requests -> {"PENDING", "EXPIRED"} \cup Decisions]
  /\ decision \in [Deciders -> [Requests -> DecisionStates]]
  /\ trail \in [Requests -> SUBSET ({"created", "expired"} \cup Decisions)]
  /\ told \in [Requests -> {"none"} \cup Decisions]
  /\ \A d \in Deciders, r \in Requests :
       decision[d][r][2] \in {"audit", "done"} =>
         approval[r] \in Decisions /\ approval[r] = decision[d][r][1]
  /\ \A d \in Deciders, r \in Requests : decision[d][r][2] = "write"
       => decision[d][r][1] \in Decisions
  /\ \A d \in Deciders, r \in Requests : decision[d][r][2] = "read"
       => decision[d][r][1] \in Decisions
  /\ \A r \in Requests, how \in Decisions : how \in trail[r] => approval[r] = how
  /\ ToldIsDecided

\* What is read for the drawer is the trail of the request that is selected.
DrawerInv ==
  /\ \A r \in auditing : r = picked
  /\ auditing = {} => drawer \in {picked, NoRequest}

DeskInv == DecisionsInv /\ DrawerInv

LEMMA DeskStarts == DeskInit => DeskInv
<1> SUFFICES ASSUME DeskInit PROVE DeskInv
  OBVIOUS
<1>1. NoDecision \in DecisionStates /\ NoDecision[2] = "none"
  BY DEF NoDecision, DecisionStates
<1>2. DecisionsInv
  BY <1>1 DEF DeskInit, DecisionsInv, ToldIsDecided, Decisions
<1> QED
  BY <1>2 DEF DeskInit, DeskInv, DrawerInv

\* One decision goes on, and nothing else of the stored state.
LEMMA DecisionMoves ==
  ASSUME DecisionsInv, NEW d \in Deciders, NEW r \in Requests, NEW new \in DecisionStates,
         decision' = [decision EXCEPT ![d][r] = new]
  PROVE  /\ decision' \in [Deciders -> [Requests -> DecisionStates]]
         /\ \A e \in Deciders, q \in Requests :
              decision'[e][q] = IF e = d /\ q = r THEN new ELSE decision[e][q]
  BY DEF DecisionsInv

LEMMA DecisionGoes ==
  ASSUME DecisionsInv, NEW d \in Deciders, NEW r \in Requests,
         NEW at \in {"refused", "write", "audit", "done"}, Goto(d, r, at)
  PROVE  \E new \in DecisionStates :
           /\ new[1] = decision[d][r][1] /\ new[2] = at
           /\ decision' = [decision EXCEPT ![d][r] = new]
<1>1. PICK how \in {"none"} \cup Decisions,
           from \in {"none", "read", "write", "refused", "audit", "done"} :
             decision[d][r] = <<how, from>>
  <2>1. decision[d][r] \in DecisionStates
    BY DEF DecisionsInv
  <2> QED
    BY <2>1 DEF DecisionStates
<1>2. [decision[d][r] EXCEPT ![2] = at] = <<how, at>>
  BY <1>1
<1>3. decision' = [decision EXCEPT ![d][r] = <<how, at>>]
  BY <1>2 DEF Goto
<1>4. <<how, at>> \in DecisionStates
  BY DEF DecisionStates
<1>5. <<how, at>>[1] = how /\ <<how, at>>[2] = at /\ decision[d][r][1] = how
  BY <1>1
<1> QED
  BY <1>3, <1>4, <1>5

LEMMA DeskSteps == DeskInv /\ [DeskNext]_deskVars => DeskInv'
<1> SUFFICES ASSUME DeskInv, [DeskNext]_deskVars PROVE DeskInv'
  OBVIOUS
<1> USE DEF DeskInv
<1>1. ASSUME DrawerInv', UNCHANGED <<stored, decision, told>>
      PROVE  DeskInv'
  BY <1>1 DEF DecisionsInv, ToldIsDecided, stored
<1>2. ASSUME DecisionsInv', UNCHANGED drawn
      PROVE  DeskInv'
  BY <1>2 DEF DrawerInv, drawn
<1>3. CASE ListArrives \/ CancelDialog
  BY <1>1, <1>3 DEF ListArrives, CancelDialog, DrawerInv, drawn
<1>4. CASE Unpick
  BY <1>1, <1>4 DEF Unpick, DrawerInv
<1>5. CASE ReadStale
  BY <1>2, <1>5 DEF ReadStale, DecisionsInv, ToldIsDecided
<1>6. ASSUME NEW r \in Cards, Pick(r) \/ AuditArrives(r)
      PROVE  DeskInv'
  <2>1. CASE Pick(r)
    BY <1>1, <2>1 DEF Pick, DrawerInv
  <2>2. CASE AuditArrives(r)
    BY <1>1, <2>2 DEF AuditArrives, DrawerInv
  <2> QED
    BY <1>6, <2>1, <2>2
<1>7. ASSUME NEW r \in Requests, OpenDialog(r) \/ handleBulkToggle(r)
      PROVE  DeskInv'
  BY <1>1, <1>7 DEF OpenDialog, handleBulkToggle, DrawerInv, drawn
<1>8. ASSUME NEW r \in Requests, Overdue(r)
      PROVE  DeskInv'
  BY <1>2, <1>8 DEF Overdue, DecisionsInv, ToldIsDecided
<1>9. ASSUME NEW r \in Requests, ExpireOne(r)
      PROVE  DeskInv'
  <2>1. /\ approval' \in [Requests -> {"PENDING", "EXPIRED"} \cup Decisions]
        /\ \A q \in Requests :
             /\ approval'[q] # approval[q] => approval[q] = "PENDING" /\ approval'[q] = "EXPIRED"
             /\ approval[q] \in Decisions => approval'[q] = approval[q]
    BY <1>9 DEF ExpireOne, DecisionsInv, Decisions
  <2>2. /\ trail' \in [Requests -> SUBSET ({"created", "expired"} \cup Decisions)]
        /\ \A q \in Requests, how \in Decisions : how \in trail'[q] => how \in trail[q]
    BY <1>9 DEF ExpireOne, DecisionsInv, Decisions
  <2>3. DecisionsInv'
    BY <1>9, <2>1, <2>2 DEF ExpireOne, DecisionsInv, ToldIsDecided
  <2> QED
    BY <1>2, <1>9, <2>3 DEF ExpireOne
<1>10. ASSUME NEW d \in Deciders, NEW r \in Requests, NEW new \in DecisionStates,
              decision' = [decision EXCEPT ![d][r] = new],
              new[2] \notin {"audit", "done"}, new[2] \in {"read", "write"} => new[1] \in Decisions,
              told' = told \/ /\ decision[d][r][2] = "done"
                              /\ told' = [told EXCEPT ![r] = decision[d][r][1]],
              UNCHANGED stored
       PROVE  DecisionsInv'
  <2>1. told' \in [Requests -> {"none"} \cup Decisions] /\ ToldIsDecided'
    BY <1>10 DEF DecisionsInv, ToldIsDecided, stored
  <2> QED
    BY <1>10, <2>1, DecisionMoves DEF DecisionsInv, stored
<1>11. ASSUME NEW how \in Decisions, handleBulkDecision(how)
       PROVE  DeskInv'
  <2>1. <<how, "read">> \in DecisionStates
    BY DEF DecisionStates
  <2>2. /\ decision' \in [Deciders -> [Requests -> DecisionStates]]
        /\ \A e \in Deciders, q \in Requests : decision'[e][q] \in {decision[e][q], <<how, "read">>}
    BY <1>11, <2>1, DeskAssumption DEF handleBulkDecision, DecisionsInv
  <2>3. DecisionsInv'
    <3>1. UNCHANGED <<approval, trail, told>>
      BY <1>11 DEF handleBulkDecision, stored
    <3>2. \A e \in Deciders, q \in Requests :
            \/ decision'[e][q] = decision[e][q]
            \/ decision'[e][q][2] = "read" /\ decision'[e][q][1] = how
      BY <2>2
    <3>3. \A e \in Deciders, q \in Requests :
            /\ decision'[e][q][2] \in {"audit", "done"} => decision'[e][q] = decision[e][q]
            /\ decision'[e][q][2] = "write" => decision'[e][q] = decision[e][q]
            /\ decision'[e][q][2] = "read" => decision'[e][q][1] = how
                 \/ decision'[e][q] = decision[e][q]
      BY <3>2
    <3>4. /\ \A e \in Deciders, q \in Requests :
               decision'[e][q][2] \in {"audit", "done"} =>
                 approval'[q] \in Decisions /\ approval'[q] = decision'[e][q][1]
          /\ \A e \in Deciders, q \in Requests :
               decision'[e][q][2] = "write" => decision'[e][q][1] \in Decisions
          /\ \A e \in Deciders, q \in Requests :
               decision'[e][q][2] = "read" => decision'[e][q][1] \in Decisions
      BY <3>1, <3>3 DEF DecisionsInv
    <3> QED
      BY <2>2, <3>1, <3>4 DEF DecisionsInv, ToldIsDecided
  <2> QED
    BY <1>2, <1>11, <2>3 DEF handleBulkDecision
<1>12. ASSUME NEW how \in Decisions, NEW r \in Requests,
              \/ handleConfirmDecision(r, how)
              \/ \E d \in Deciders : DecideByToken(d, r, how)
       PROVE  DeskInv'
  <2>1. <<how, "read">> \in DecisionStates
    BY DEF DecisionStates
  <2>2. PICK d \in Deciders : decision' = [decision EXCEPT ![d][r] = <<how, "read">>]
    BY <1>12, DeskAssumption DEF handleConfirmDecision, DecideByToken
  <2>3. UNCHANGED <<stored, drawn, told>>
    BY <1>12 DEF handleConfirmDecision, DecideByToken
  <2>4. DecisionsInv'
    BY <1>10, <2>1, <2>2, <2>3
  <2> QED
    BY <1>2, <2>3, <2>4
<1>13. ASSUME NEW d \in Deciders, NEW r \in Requests, ReadRequest(d, r)
       PROVE  DeskInv'
  <2>1. PICK at \in {"write", "refused"} : Goto(d, r, at)
    BY <1>13 DEF ReadRequest
  <2>2. DecisionsInv'
    <3>1. PICK new \in DecisionStates :
            /\ new[1] = decision[d][r][1] /\ new[2] = at
            /\ decision' = [decision EXCEPT ![d][r] = new]
      BY <2>1, DecisionGoes
    <3>2. decision[d][r][1] \in Decisions
      BY <1>13 DEF ReadRequest, DecisionsInv
    <3>3. UNCHANGED <<stored, told>>
      BY <1>13 DEF ReadRequest
    <3> QED
      BY <1>10, <3>1, <3>2, <3>3
  <2> QED
    BY <1>2, <1>13, <2>2 DEF ReadRequest
<1>14. ASSUME NEW d \in Deciders, NEW r \in Requests, WriteDecision(d, r)
       PROVE  DeskInv'
  <2>1. CASE approval[r] # "PENDING"
    <3>1. DecisionsInv'
      <4>1. Goto(d, r, "refused") /\ UNCHANGED <<stored, told>>
        BY <1>14, <2>1 DEF WriteDecision, stored
      <4>2. PICK new \in DecisionStates :
              new[2] = "refused" /\ decision' = [decision EXCEPT ![d][r] = new]
        BY <4>1, DecisionGoes
      <4> QED
        BY <1>10, <4>1, <4>2
    <3> QED
      BY <1>2, <1>14, <3>1 DEF WriteDecision
  <2>2. CASE approval[r] = "PENDING"
    <3>1. Goto(d, r, "audit") /\ decision[d][r][1] \in Decisions /\ "PENDING" \notin Decisions
      BY <1>14, <2>2 DEF WriteDecision, DecisionsInv, Decisions
    <3>2. PICK new \in DecisionStates :
            /\ new[1] = decision[d][r][1] /\ new[2] = "audit"
            /\ decision' = [decision EXCEPT ![d][r] = new]
      BY <3>1, DecisionGoes
    <3>3. /\ decision' \in [Deciders -> [Requests -> DecisionStates]]
          /\ \A e \in Deciders, q \in Requests :
               decision'[e][q] = IF e = d /\ q = r THEN new ELSE decision[e][q]
      BY <3>2, DecisionMoves
    <3>4. /\ approval' \in [Requests -> {"PENDING", "EXPIRED"} \cup Decisions]
          /\ \A q \in Requests : approval'[q] = IF q = r THEN decision[d][r][1] ELSE approval[q]
      BY <1>14, <2>2, <3>1 DEF WriteDecision, DecisionsInv
    <3>5. /\ \A how \in Decisions : how \notin trail[r]
          /\ told[r] = "none"
          /\ \A e \in Deciders : decision[e][r][2] \notin {"audit", "done"}
      BY <2>2, <3>1 DEF DecisionsInv, ToldIsDecided
    <3>6. UNCHANGED <<trail, told, drawn>>
      BY <1>14 DEF WriteDecision
    <3>7. DecisionsInv'
      BY <3>1, <3>2, <3>3, <3>4, <3>5, <3>6 DEF DecisionsInv, ToldIsDecided
    <3> QED
      BY <1>2, <3>6, <3>7
  <2> QED
    BY <2>1, <2>2
<1>15. ASSUME NEW d \in Deciders, NEW r \in Requests, WriteAudit(d, r)
       PROVE  DeskInv'
  <2>0. PICK new \in DecisionStates :
          /\ new[1] = decision[d][r][1] /\ new[2] = "done"
          /\ decision' = [decision EXCEPT ![d][r] = new]
    BY <1>15, DecisionGoes DEF WriteAudit
  <2>1. /\ decision' \in [Deciders -> [Requests -> DecisionStates]]
        /\ \A e \in Deciders, q \in Requests :
             decision'[e][q] = IF e = d /\ q = r THEN new ELSE decision[e][q]
    BY <2>0, DecisionMoves
  <2>2. /\ trail' \in [Requests -> SUBSET ({"created", "expired"} \cup Decisions)]
        /\ \A q \in Requests, how \in Decisions :
             how \in trail'[q] => how \in trail[q] \/ (q = r /\ how = decision[d][r][1])
    BY <1>15 DEF WriteAudit, DecisionsInv
  <2>3. /\ decision[d][r][2] = "audit" /\ UNCHANGED <<approval, told, drawn>>
    BY <1>15 DEF WriteAudit
  <2>4. DecisionsInv'
    BY <2>0, <2>1, <2>2, <2>3 DEF DecisionsInv, ToldIsDecided
  <2> QED
    BY <1>2, <2>3, <2>4
<1>16. ASSUME NEW d \in Deciders, NEW r \in Requests, Answer(d, r)
       PROVE  DeskInv'
  <2>1. NoDecision \in DecisionStates /\ NoDecision[2] = "none"
    BY DEF NoDecision, DecisionStates
  <2>2. DecisionsInv'
    BY <1>10, <1>16, <2>1 DEF Answer
  <2> QED
    BY <1>2, <1>16, <2>2 DEF Answer
<1>17. CASE UNCHANGED deskVars
  BY <1>1, <1>17 DEF deskVars, DrawerInv, stored
<1> QED
  BY <1>3, <1>4, <1>5, <1>6, <1>7, <1>8, <1>9, <1>11, <1>12, <1>13, <1>14, <1>15, <1>16, <1>17
  DEF DeskNext

LEMMA DeskSound == DeskInv => TrailIsTrue /\ ToldIsDecided /\ DrawerIsOfPicked
  BY DEF DeskInv, DecisionsInv, DrawerInv, TrailIsTrue, DrawerIsOfPicked, AuditDrawer

(*****************************************************************************)
(* The popup windows of the settings page.                                   *)
(*****************************************************************************)

FlowStates == {"none", "init", "open", "exchange", "mismatch", "over"} \X ({"none"} \cup Providers)

PopupInv == stage \in [Flows -> FlowStates] /\ WaitingIsAwaited

LEMMA PopupStarts == PopupInit => PopupInv
BY DEF PopupInit, PopupInv, WaitingIsAwaited, FlowStates

\* A step after which the page does not wait, or waits for a flow that has just moved.
LEMMA PopupMoves ==
  ASSUME stage \in [Flows -> FlowStates], NEW f \in Flows,
         NEW s \in {"exchange", "mismatch", "open", "over"}, Move(f, s)
  PROVE  stage' \in [Flows -> FlowStates] /\ stage'[f][1] = s
<1>1. stage[f] \in FlowStates
  OBVIOUS
<1> DEFINE A == {"none", "init", "open", "exchange", "mismatch", "over"}
           B == {"none"} \cup Providers
<1>2. PICK a \in A, p \in B : stage[f] = <<a, p>>
  <2>1. stage[f] \in A \X B
    BY <1>1 DEF FlowStates
  <2> HIDE DEF A, B
  <2> QED
    BY <2>1
<1>3. stage' = [stage EXCEPT ![f] = [<<a, p>> EXCEPT ![1] = s]]
  BY <1>2 DEF Move
<1>4. [<<a, p>> EXCEPT ![1] = s] = <<s, p>>
  OBVIOUS
<1> QED
  BY <1>3, <1>4 DEF FlowStates

LEMMA PopupSteps == PopupInv /\ [PopupNext]_popupVars => PopupInv'
<1> SUFFICES ASSUME PopupInv, [PopupNext]_popupVars PROVE PopupInv'
  OBVIOUS
<1> USE DEF PopupInv
<1>1. CASE UserCloses
  BY <1>1 DEF UserCloses, WaitingIsAwaited, timers
<1>2. CASE Cancel
  BY <1>2 DEF Cancel, Cancelled, WaitingIsAwaited
<1>3. CASE submitCodePaste
  BY <1>3 DEF submitCodePaste, WaitingIsAwaited, timers
<1>4. CASE PasteAnswered
  BY <1>4 DEF PasteAnswered, Cancelled, WaitingIsAwaited, timers
<1>5. CASE fetchData \/ handleDeleteCredential
  BY <1>5 DEF fetchData, handleDeleteCredential, WaitingIsAwaited, timers
<1>6. ASSUME NEW p \in Providers, AskDisconnect(p) PROVE PopupInv'
  BY <1>6 DEF AskDisconnect, WaitingIsAwaited, timers
<1>7. ASSUME NEW p \in Providers, NEW f \in Flows, startFlow(f, p) PROVE PopupInv'
  <2>1. stage' = [stage EXCEPT ![f] = <<"init", p>>]
    BY <1>7 DEF startFlow
  <2>2. stage' \in [Flows -> FlowStates] /\ stage'[f][1] = "init"
    BY <2>1 DEF FlowStates
  <2> QED
    BY <2>1, <2>2 DEF WaitingIsAwaited
<1>8. ASSUME NEW f \in Flows, InitFails(f) \/ ToPaste(f) PROVE PopupInv'
  BY <1>8, PopupMoves DEF InitFails, ToPaste, WaitingIsAwaited
<1>9. ASSUME NEW f \in Flows, OpenPopup(f) PROVE PopupInv'
  BY <1>9, PopupMoves DEF OpenPopup, WaitingIsAwaited
<1>10. ASSUME NEW f \in Flows, Redirected(f) PROVE PopupInv'
  BY <1>10 DEF Redirected, WaitingIsAwaited, timers
<1>11. ASSUME NEW f \in Flows, TickClosed(f) \/ TickTimedOut(f) \/ SafetyNet(f) PROVE PopupInv'
  <2>1. UNCHANGED stage /\ popupStatus' # "waiting"
    BY <1>11 DEF TickClosed, TickTimedOut, SafetyNet, FallBack
  <2> QED
    BY <2>1 DEF WaitingIsAwaited
<1>12. ASSUME NEW f \in Flows, TickLanded(f) PROVE PopupInv'
  <2>1. PICK s \in {"exchange", "mismatch"} : Move(f, s)
    BY <1>12 DEF TickLanded
  <2> QED
    BY <2>1, PopupMoves DEF WaitingIsAwaited
<1>13. ASSUME NEW f \in Flows, Exchanged(f) \/ ExchangeFails(f) PROVE PopupInv'
  BY <1>13, PopupMoves DEF Exchanged, ExchangeFails, WaitingIsAwaited
<1>14. CASE UNCHANGED popupVars
  BY <1>14 DEF popupVars, WaitingIsAwaited
<1> QED
  BY <1>1, <1>2, <1>3, <1>4, <1>5, <1>6, <1>7, <1>8, <1>9, <1>10, <1>11, <1>12, <1>13, <1>14
     DEF PopupNext

(*****************************************************************************)
(* Keys of tools: their rows, bindings and log.                              *)
(*****************************************************************************)

TakeStates == (Secrets \cup {NoSecret}) \X {"none", "audit", "return"}

\* A key about to be returned is in the log, like those that were.
AccessInv ==
  /\ take \in [Takers -> TakeStates] /\ handed \in [Takers -> Secrets \cup {NoSecret}]
  /\ \A j \in Takers : take[j][2] = "return" => <<j, take[j][1]>> \in entries
  /\ AccessIsLogged

RowsInv == owner \in [Secrets -> Admins \cup {NoAdmin}] /\ BoundExists

SecretsInv == AccessInv /\ RowsInv

LEMMA SecretsStart == SecretsInit => SecretsInv
<1> SUFFICES ASSUME SecretsInit PROVE SecretsInv
  OBVIOUS
<1>1. NoTake \in TakeStates /\ NoTake[2] = "none"
  BY DEF NoTake, TakeStates
<1> QED
  BY <1>1 DEF SecretsInit, SecretsInv, AccessInv, AccessIsLogged, RowsInv, BoundExists

LEMMA SecretsStep == SecretsInv /\ [SecretsNext]_secretVars => SecretsInv'
<1> SUFFICES ASSUME SecretsInv, [SecretsNext]_secretVars PROVE SecretsInv'
  OBVIOUS
<1> USE DEF SecretsInv
<1>1. ASSUME RowsInv', UNCHANGED <<entries, take, handed>>
      PROVE  SecretsInv'
  BY <1>1 DEF AccessInv, AccessIsLogged
<1>2. ASSUME AccessInv', UNCHANGED <<rows, bound>>
      PROVE  SecretsInv'
  BY <1>2 DEF RowsInv, BoundExists, Exists, rows
<1>3. ASSUME NEW a \in Admins,
             \/ storeToolSecret(a) \/ PanelBind(a) \/ PanelUnbind(a) \/ WriteEntry(a)
             \/ \E s \in Secrets : rotateToolSecret(a, s) \/ deleteCredential(a, s)
      PROVE  SecretsInv'
  <2>1. UNCHANGED <<rows, bound, entries, take, handed>>
    BY <1>3 DEF storeToolSecret, PanelBind, BindCredential, PanelUnbind, UnbindCredential,
       WriteEntry, rotateToolSecret, deleteCredential
  <2> QED
    BY <1>1, <2>1 DEF RowsInv, BoundExists, Exists, rows
<1>4. ASSUME NEW a \in Admins, InsertSecret(a)
      PROVE  SecretsInv'
  BY <1>1, <1>4, SecretAssumption DEF InsertSecret, RowsInv, BoundExists, Exists
<1>5. ASSUME NEW a \in Admins, UpdateSecret(a) \/ RotateSecret(a)
      PROVE  SecretsInv'
  <2>1. UNCHANGED <<owner, bound, entries, take, handed>>
    BY <1>5 DEF UpdateSecret, RotateSecret
  <2> QED
    BY <1>1, <2>1 DEF RowsInv, BoundExists, Exists
<1>6. ASSUME NEW a \in Admins, DeleteRow(a)
      PROVE  SecretsInv'
  <2>1. owner' \in [Secrets -> Admins \cup {NoAdmin}]
    BY <1>6 DEF DeleteRow, RowsInv
  <2>2. \A s \in bound' : s \in bound /\ owner'[s] = owner[s]
    BY <1>6 DEF DeleteRow, RowsInv, BoundExists, Exists
  <2>3. RowsInv'
    BY <2>1, <2>2 DEF RowsInv, BoundExists, Exists
  <2> QED
    BY <1>1, <1>6, <2>3 DEF DeleteRow
<1>7. ASSUME NEW a \in Admins, InsertBinding(a) \/ DeleteBinding(a)
      PROVE  SecretsInv'
  <2>1. UNCHANGED owner /\ \A s \in bound' : s \in bound \/ Exists(s)
    BY <1>7 DEF InsertBinding, DeleteBinding, rows
  <2>2. RowsInv'
    BY <2>1 DEF RowsInv, BoundExists, Exists
  <2> QED
    BY <1>1, <1>7, <2>2 DEF InsertBinding, DeleteBinding
<1>8. ASSUME NEW j \in Takers, getToolSecret(j)
      PROVE  SecretsInv'
  <2>1. PICK s \in Secrets : take' = [take EXCEPT ![j] = <<s, "audit">>]
    BY <1>8 DEF getToolSecret
  <2>2. <<s, "audit">> \in TakeStates /\ <<s, "audit">>[2] # "return"
    BY DEF TakeStates
  <2>3. UNCHANGED <<entries, handed, rows, bound>>
    BY <1>8 DEF getToolSecret
  <2>4. AccessInv'
    BY <2>1, <2>2, <2>3 DEF AccessInv, AccessIsLogged
  <2> QED
    BY <1>2, <2>3, <2>4
<1>9. ASSUME NEW j \in Takers, WriteAccess(j)
      PROVE  SecretsInv'
  <2>1. NoTake \in TakeStates /\ NoTake[2] # "return"
    BY DEF NoTake, TakeStates
  <2>2. PICK s \in Secrets \cup {NoSecret} : take[j] = <<s, "audit">>
    <3>1. take[j] \in TakeStates /\ take[j][2] = "audit"
      BY <1>9 DEF AccessInv, WriteAccess
    <3> QED
      BY <3>1 DEF TakeStates
  <2>3. <<s, "return">> \in TakeStates /\ [take[j] EXCEPT ![2] = "return"] = <<s, "return">>
    BY <2>2 DEF TakeStates
  <2>4. UNCHANGED <<handed, rows, bound>>
    BY <1>9 DEF WriteAccess
  <2>5. CASE Exists(take[j][1])
    <3>1. take' = [take EXCEPT ![j] = <<s, "return">>] /\ entries' = entries \cup {<<j, s>>}
      BY <1>9, <2>2, <2>3, <2>5 DEF WriteAccess, auditLog
    <3>2. AccessInv'
      BY <2>3, <2>4, <3>1 DEF AccessInv, AccessIsLogged
    <3> QED
      BY <1>2, <2>4, <3>2
  <2>6. CASE ~Exists(take[j][1])
    <3>1. take' = [take EXCEPT ![j] = NoTake] /\ entries' = entries
      BY <1>9, <2>6 DEF WriteAccess
    <3>2. AccessInv'
      BY <2>1, <2>4, <3>1 DEF AccessInv, AccessIsLogged
    <3> QED
      BY <1>2, <2>4, <3>2
  <2> QED
    BY <2>5, <2>6
<1>10. ASSUME NEW j \in Takers, markUsed(j)
       PROVE  SecretsInv'
  <2>1. NoTake \in TakeStates /\ NoTake[2] # "return"
    BY DEF NoTake, TakeStates
  <2>2. take[j][1] \in Secrets \cup {NoSecret}
    BY DEF AccessInv, TakeStates
  <2>3. AccessInv'
    BY <1>10, <2>1, <2>2 DEF markUsed, AccessInv, AccessIsLogged
  <2> QED
    BY <1>2, <1>10, <2>3 DEF markUsed
<1>11. ASSUME NEW s \in Secrets, Revoke(s)
       PROVE  SecretsInv'
  BY <1>1, <1>11 DEF Revoke, RowsInv, BoundExists, Exists
<1>12. CASE UNCHANGED secretVars
  BY <1>1, <1>12 DEF secretVars, RowsInv, BoundExists, Exists
<1> QED
  BY <1>3, <1>4, <1>5, <1>6, <1>7, <1>8, <1>9, <1>10, <1>11, <1>12 DEF SecretsNext

LEMMA SecretsSound == SecretsInv => AccessIsLogged /\ BoundExists
  BY DEF SecretsInv, AccessInv, RowsInv

(*****************************************************************************)
(* Channels of one type, their names and the chats they lose.                *)
(*****************************************************************************)

ChannelsInv ==
  /\ named \in [Channels -> Names \cup {"none", "gone"}]
  /\ making \in [Creators -> Names \cup {"none"}]
  /\ \A c, d \in Rows : named[c] = named[d] => c = d

\* The deletion under way is that of the dialog, which stays open, and is forced only by the
\* dialog that shows the conflict.
RemovalInv ==
  /\ removing # NotRemoving => confirm = <<removing[1], removing[2]>> /\ confirm # NoConfirm
  /\ removing[3] = "unbind" => removing[2] = TRUE
  /\ removing = <<removing[1], removing[2], removing[3]>>
  /\ confirm = <<confirm[1], confirm[2]>>

LEMMA NothingIsRemoved == NotRemoving[3] = "none"
  BY DEF NotRemoving

LEMMA DialogShapes ==
  /\ NoConfirm = <<NoConfirm[1], NoConfirm[2]>>
  /\ \A c : <<c, TRUE>> = <<<<c, TRUE>>[1], <<c, TRUE>>[2]>>
<1>1. \A a, b : <<a, b>>[1] = a /\ <<a, b>>[2] = b
  OBVIOUS
<1> QED
  BY <1>1 DEF NoConfirm

LEMMA ChannelsStart == ChannelsInit => ChannelsInv /\ RemovalInv
  BY ChannelAssumption DEF ChannelsInit, ChannelsInv, RemovalInv, Rows, NotRemoving, NoConfirm

\* A row that leaves the table leaves no name twice.
LEMMA RowGoes ==
  ASSUME ChannelsInv, NEW c \in Channels, named' = [named EXCEPT ![c] = "gone"], UNCHANGED making
  PROVE  ChannelsInv'
<1>1. \A d \in Rows' : d \in Rows /\ named'[d] = named[d]
  BY ChannelAssumption DEF ChannelsInv, Rows
<1> QED
  BY <1>1 DEF ChannelsInv

LEMMA ChannelsStep == ChannelsInv /\ [ChannelsNext]_deskOfChannels => ChannelsInv'
<1> SUFFICES ASSUME ChannelsInv, [ChannelsNext]_deskOfChannels PROVE ChannelsInv'
  OBVIOUS
<1>1. ASSUME UNCHANGED named, making' \in [Creators -> Names \cup {"none"}]
      PROVE  ChannelsInv'
  BY <1>1 DEF ChannelsInv, Rows
<1>2. CASE \/ fetchChannels \/ LeaveDialog \/ handleDelete \/ CheckRemoval \/ RemovalAnswered
           \/ removeBindingsByChannelType
  BY <1>1, <1>2 DEF ChannelsInv, fetchChannels, LeaveDialog, handleDelete, CheckRemoval,
     RemovalAnswered, removeBindingsByChannelType, chanRows
<1>3. CASE DeleteChannel
  <2>1. CASE removing[1] \in Rows
    BY <1>3, <2>1, RowGoes DEF DeleteChannel, Rows
  <2>2. CASE removing[1] \notin Rows
    BY <1>1, <1>3, <2>2 DEF DeleteChannel, chanRows, ChannelsInv
  <2> QED
    BY <2>1, <2>2
<1>4. ASSUME NEW c \in Channels, AskRemove(c) \/ handleToggle(c)
      PROVE  ChannelsInv'
  BY <1>1, <1>4 DEF AskRemove, handleToggle, chanRows, ChannelsInv
<1>5. ASSUME NEW c \in Channels, OthersRemove(c)
      PROVE  ChannelsInv'
  BY <1>5, RowGoes DEF OthersRemove
<1>6. ASSUME NEW h \in Chats,
             \/ handleBind(h) \/ handleUnbindFromChannel(h) \/ BindAnyChat(h) \/ UnbindAnyChat(h)
      PROVE  ChannelsInv'
  BY <1>1, <1>6 DEF handleBind, handleUnbindFromChannel, BindAnyChat, UnbindAnyChat, bindChannel,
     unbindById, chanRows, ChannelsInv
<1>7. ASSUME NEW o \in Creators, InsertChannel(o)
      PROVE  ChannelsInv'
  <2>1. making' \in [Creators -> Names \cup {"none"}]
    BY <1>7 DEF InsertChannel, ChannelsInv
  <2>2. CASE findByTypeName(making[o]) = {}
    <3>1. PICK c \in Channels : named[c] = "none" /\ named' = [named EXCEPT ![c] = making[o]]
      BY <1>7, <2>2 DEF InsertChannel
    <3>2. making[o] \in Names
      BY <1>7 DEF InsertChannel, ChannelsInv
    <3>3. \A d \in Rows : d # c /\ named[d] # making[o]
      BY <2>2, <3>1, <3>2, ChannelAssumption DEF findByTypeName, Rows
    <3>4. /\ named' \in [Channels -> Names \cup {"none", "gone"}]
          /\ \A d \in Channels : named'[d] = IF d = c THEN making[o] ELSE named[d]
      BY <3>1, <3>2 DEF ChannelsInv
    <3>5. \A d \in Rows' : d # c => d \in Rows
      BY <3>4 DEF Rows
    <3>6. Rows' \subseteq Channels
      BY DEF Rows
    <3> QED
      BY <2>1, <3>3, <3>4, <3>5, <3>6 DEF ChannelsInv
  <2>3. CASE findByTypeName(making[o]) # {}
    BY <1>1, <1>7, <2>1, <2>3 DEF InsertChannel, chanRows
  <2> QED
    BY <2>2, <2>3
<1>8. ASSUME NEW o \in Creators, NEW n \in Names, CreateChannel(o, n)
      PROVE  ChannelsInv'
  BY <1>1, <1>8 DEF CreateChannel, chanRows, ChannelsInv
<1>9. CASE UNCHANGED deskOfChannels
  BY <1>1, <1>9 DEF deskOfChannels, ChannelsInv
<1> QED
  BY <1>2, <1>3, <1>4, <1>5, <1>6, <1>7, <1>8, <1>9 DEF ChannelsNext

LEMMA RemovalStep == RemovalInv /\ [ChannelsNext]_deskOfChannels => RemovalInv'
<1> SUFFICES ASSUME RemovalInv, [ChannelsNext]_deskOfChannels PROVE RemovalInv'
  OBVIOUS
<1>1. ASSUME UNCHANGED <<removing, confirm>>
      PROVE  RemovalInv'
  BY <1>1 DEF RemovalInv
<1>2. CASE fetchChannels
  BY <1>1, <1>2 DEF fetchChannels
<1>3. CASE LeaveDialog
  BY <1>3 DEF LeaveDialog, ConfirmDialog, RemovalInv, NotRemoving, NoConfirm
<1>4. CASE handleDelete
  BY <1>4 DEF handleDelete, ConfirmDialog, RemovalInv, NotRemoving, NoConfirm
<1>5. ASSUME NEW at \in {"not_found", "delete", "unbind", "conflict", "deleted"},
             RemovalGoes(at), removing[3] # "none", at = "unbind" => removing[2] = TRUE,
             UNCHANGED confirm
      PROVE  RemovalInv'
  <2>1. removing' = <<removing[1], removing[2], at>>
    BY <1>5 DEF RemovalInv, RemovalGoes
  <2>2. removing # NotRemoving
    BY <1>5, NothingIsRemoved
  <2>3. removing'[1] = removing[1] /\ removing'[2] = removing[2] /\ removing'[3] = at
    BY <2>1
  <2> QED
    BY <1>5, <2>1, <2>2, <2>3 DEF RemovalInv
<1>6. CASE CheckRemoval
  BY <1>5, <1>6 DEF CheckRemoval
<1>7. CASE removeBindingsByChannelType \/ DeleteChannel
  BY <1>5, <1>7 DEF removeBindingsByChannelType, DeleteChannel
<1>8. CASE RemovalAnswered
  <2>1. removing' = NotRemoving
    BY <1>8 DEF RemovalAnswered
  <2>2. confirm' \in {<<removing[1], TRUE>>, NoConfirm, confirm}
    BY <1>8 DEF RemovalAnswered
  <2>3. /\ removing'[3] = "none" /\ removing' = <<removing'[1], removing'[2], removing'[3]>>
    BY <2>1 DEF NotRemoving
  <2>4. confirm' = <<confirm'[1], confirm'[2]>>
    BY <2>2, DialogShapes DEF RemovalInv
  <2> QED
    BY <2>1, <2>3, <2>4 DEF RemovalInv
<1>9. ASSUME NEW c \in Channels, AskRemove(c) \/ handleToggle(c) \/ OthersRemove(c)
      PROVE  RemovalInv'
  <2>1. CASE AskRemove(c)
    BY <2>1 DEF AskRemove, Card, RemovalInv
  <2> QED
    BY <1>1, <1>9, <2>1 DEF handleToggle, OthersRemove
<1>10. ASSUME NEW h \in Chats,
              \/ handleBind(h) \/ handleUnbindFromChannel(h) \/ BindAnyChat(h) \/ UnbindAnyChat(h)
       PROVE  RemovalInv'
  BY <1>1, <1>10 DEF handleBind, handleUnbindFromChannel, BindAnyChat, UnbindAnyChat, bindChannel,
     unbindById
<1>11. ASSUME NEW o \in Creators, InsertChannel(o) \/ \E n \in Names : CreateChannel(o, n)
       PROVE  RemovalInv'
  BY <1>1, <1>11 DEF InsertChannel, CreateChannel
<1>12. CASE UNCHANGED deskOfChannels
  BY <1>1, <1>12 DEF deskOfChannels
<1> QED
  BY <1>2, <1>3, <1>4, <1>6, <1>7, <1>8, <1>9, <1>10, <1>11, <1>12 DEF ChannelsNext

LEMMA ChannelsSound == ChannelsInv => OneOfAName
<1> SUFFICES ASSUME ChannelsInv, NEW n \in Names
             PROVE  Cardinality(findByTypeName(n)) <= 1
  BY DEF OneOfAName
<1>1. CASE findByTypeName(n) = {}
  BY <1>1, FS_EmptySet
<1>2. CASE findByTypeName(n) # {}
  <2>1. PICK c : findByTypeName(n) = {c}
    BY <1>2 DEF findByTypeName, ChannelsInv
  <2> QED
    BY <2>1, FS_Singleton
<1> QED
  BY <1>1, <1>2

\* Of the steps one takes more than one chat away.
LEMMA DetachedWarned ==
  RemovalInv /\ [ChannelsNext]_deskOfChannels =>
    (Cardinality(bindings \ bindings') > 1 => confirm = <<removing[1], TRUE>>)
<1> SUFFICES ASSUME RemovalInv, [ChannelsNext]_deskOfChannels,
                    Cardinality(bindings \ bindings') > 1
             PROVE  confirm = <<removing[1], TRUE>>
  OBVIOUS
<1>1. bindings \ bindings' # {} /\ \A h \in Chats : bindings \ bindings' # {h}
  <2>1. Cardinality({}) = 0 /\ \A h \in Chats : Cardinality({h}) = 1
    BY FS_EmptySet, FS_Singleton
  <2> QED
    BY <2>1
<1>2. CASE removeBindingsByChannelType
  <2>1. removing[3] = "unbind" /\ removing # NotRemoving
    BY <1>2, NothingIsRemoved DEF removeBindingsByChannelType
  <2> QED
    BY <2>1 DEF RemovalInv
<1>3. CASE ~removeBindingsByChannelType
  <2>1. \/ UNCHANGED bindings
        \/ \E h \in Chats : bindings' \in {bindings \cup {h}, bindings \ {h}}
    BY <1>3 DEF ChannelsNext, fetchChannels, LeaveDialog, handleDelete, CheckRemoval, DeleteChannel,
       RemovalAnswered, AskRemove, handleToggle, OthersRemove, handleBind, handleUnbindFromChannel,
       BindAnyChat, UnbindAnyChat, bindChannel, unbindById, InsertChannel, CreateChannel,
       deskOfChannels
  <2> QED
    BY <1>1, <2>1
<1> QED
  BY <1>2, <1>3

(*****************************************************************************)
(* Which provider and model an agent runs on, and what its user is told.     *)
(*****************************************************************************)

\* A saved configuration names a provider and a model it has.
SavedConfig(c) ==
  \/ c = NoSelection
  \/ /\ c.provider \in LlmProviders /\ c.model \in Models /\ <<c.provider, c.model>> \in capable
     /\ c = [provider |-> c.provider, model |-> c.model]

\* What the check found the job finds again, unless something changed.
JobFinds ==
  /\ resolveProviderModelContract.ok
  /\ bindingRequired => modelConfig.provider \in boundProviders

ContractInv ==
  /\ capable \subseteq LlmProviders \X Models
  /\ SavedConfig(modelConfig)
  /\ boundProviders \subseteq LlmProviders
  /\ dispatch \in {"none", "refused", "ready", "mismatch", "unbound", "resolved", "running",
       "unusable"}
  /\ dispatch = "ready" => altered \/ JobFinds
  /\ ReadyRuns
  /\ KeysAreAskedFor
  /\ explained # "" => dispatch \in {"mismatch", "unbound", "running", "unusable"}

\* A provider that is named with a model is resolved to itself, or to nothing.
LEMMA NamedResolves ==
  ASSUME NEW p, NEW m, NEW allowed,
         validateNamed(p, m, allowed).ok
  PROVE  /\ p \in LlmProviders /\ <<p, m>> \in capable
         /\ allowed # {} => p \in allowed
         /\ validateNamed(p, m, allowed).selection = [provider |-> p, model |-> m]
  BY DEF validateNamed, Mismatch, Resolved

LEMMA ModelResolves ==
  ASSUME NEW m, NEW allowed, validateModel(m, allowed).ok
  PROVE  \E p \in LlmProviders :
           /\ <<p, m>> \in capable
           /\ validateModel(m, allowed).selection = [provider |-> p, model |-> m]
<1> DEFINE providers == listCompatibleProvidersForModel(m)
           resolved == IF allowed \cap providers # {} THEN allowed \cap providers ELSE providers
           p == CHOOSE q \in resolved : TRUE
<1>1. providers # {} /\ Cardinality(resolved) = 1
  BY DEF validateModel, Mismatch
<1>2. resolved # {} /\ resolved \subseteq providers
  BY <1>1
<1>3. p \in providers
  BY <1>2
<1>4. validateModel(m, allowed).selection = [provider |-> p, model |-> m]
  BY <1>1 DEF validateModel, Resolved
<1> QED
  BY <1>3, <1>4 DEF listCompatibleProvidersForModel

\* What is saved is a pair of the catalogue, or nothing.
LEMMA NormalizedIsSaved ==
  ASSUME capable \subseteq LlmProviders \X Models,
         NEW c \in AskedConfigs, NEW allowed, normalizeModelConfigSelection(c, allowed).ok
  PROVE  SavedConfig(normalizeModelConfigSelection(c, allowed).selection)
<1>1. CASE c = NoSelection
  BY <1>1 DEF normalizeModelConfigSelection, validateProviderModelSelection, Resolved, SavedConfig,
     NoSelection
<1>2. CASE c # NoSelection /\ c.provider # ""
  <2>1. /\ validateNamed(c.provider, c.model, allowed).ok
        /\ normalizeModelConfigSelection(c, allowed) = validateNamed(c.provider, c.model, allowed)
    BY <1>2 DEF normalizeModelConfigSelection, validateProviderModelSelection, Mismatch
  <2> QED
    <3>1. /\ <<c.provider, c.model>> \in capable
          /\ validateNamed(c.provider, c.model, allowed).selection =
               [provider |-> c.provider, model |-> c.model]
      BY <2>1, NamedResolves
    <3> QED
      BY <2>1, <3>1 DEF SavedConfig
<1>3. CASE c # NoSelection /\ c.provider = ""
  <2>1. /\ validateModel(c.model, allowed).ok
        /\ normalizeModelConfigSelection(c, allowed) = validateModel(c.model, allowed)
    BY <1>3 DEF normalizeModelConfigSelection, validateProviderModelSelection, Mismatch
  <2> QED
    <3>1. PICK p \in LlmProviders :
            /\ <<p, c.model>> \in capable
            /\ validateModel(c.model, allowed).selection = [provider |-> p, model |-> c.model]
      BY <2>1, ModelResolves
    <3> QED
      BY <2>1, <3>1 DEF SavedConfig
<1> QED
  BY <1>1, <1>2, <1>3

\* A saved configuration is asked for again with its provider.
LEMMA SavedIsNamed ==
  ASSUME SavedConfig(modelConfig), modelConfig # NoSelection, NEW allowed
  PROVE  normalizeModelConfigSelection(modelConfig, allowed) =
           validateNamed(modelConfig.provider, modelConfig.model, allowed)
  BY ContractAssumption
  DEF SavedConfig, normalizeModelConfigSelection, validateProviderModelSelection

LEMMA UnsetResolves ==
  ASSUME modelConfig = NoSelection
  PROVE  resolveProviderModelContract.ok
  BY DEF resolveProviderModelContract, normalizeModelConfigSelection,
     validateProviderModelSelection, Resolved

\* What a job may use is a binding of the provider of its configuration.
LEMMA BindingOfProvider ==
  ASSUME SavedConfig(modelConfig), resolveProviderModelContract.ok, bindingRequired
  PROVE  /\ SelectedBinding = boundProviders \cap {modelConfig.provider}
         /\ boundProviders # {} => modelConfig.provider \in boundProviders
<1>1. resolveProviderModelContract =
        validateNamed(modelConfig.provider, modelConfig.model, boundProviders)
  BY SavedIsNamed DEF resolveProviderModelContract, bindingRequired
<1>2. modelConfig.provider # ""
  BY ContractAssumption DEF SavedConfig, bindingRequired
<1>3. validateNamed(modelConfig.provider, modelConfig.model, boundProviders).ok
  BY <1>1
<1>4. resolveProviderModelContract.selection.provider = modelConfig.provider
  <2>1. validateNamed(modelConfig.provider, modelConfig.model, boundProviders).selection =
          [provider |-> modelConfig.provider, model |-> modelConfig.model]
    BY <1>3, NamedResolves
  <2> QED
    BY <1>1, <2>1
<1> QED
  BY <1>2, <1>3, <1>4, NamedResolves DEF SelectedBinding

LEMMA ContractStarts == ContractInit => ContractInv
  BY DEF ContractInit, ContractInv, SavedConfig, ReadyRuns, KeysAreAskedFor

\* Each failure is told as what it is.
LEMMA FailuresAreTold ==
  ASSUME NEW f \in FailureOf(dispatch),
         dispatch \in {"mismatch", "unbound", "unusable", "running"}
  PROVE  /\ dispatch \in {"unbound", "unusable"} => mapJobErrorToUserMessage(f) = "bind a credential"
         /\ mapJobErrorToUserMessage(f) = "update the credential" => dispatch = "running"
         /\ mapJobErrorToUserMessage(f) = "bind a credential" =>
              dispatch \in {"unbound", "unusable", "running"}
<1>1. CASE dispatch = "running"
  BY <1>1 DEF FailureOf, mapJobErrorToUserMessage
<1>2. CASE dispatch = "mismatch"
  BY <1>2 DEF FailureOf, mapJobErrorToUserMessage
<1>3. CASE dispatch \in {"unbound", "unusable"}
  <2>1. f.code = "" /\ f.category = "PERMANENT" /\ "credential" \in f.words
    BY <1>3 DEF FailureOf
  <2> QED
    BY <1>3, <2>1 DEF mapJobErrorToUserMessage
<1> QED
  BY <1>1, <1>2, <1>3

LEMMA ContractSteps == ContractInv /\ [ContractNext]_contractVars => ContractInv'
<1> SUFFICES ASSUME ContractInv, [ContractNext]_contractVars PROVE ContractInv'
  OBVIOUS
<1>1. ASSUME NEW c \in AskedConfigs, PutConfig(c)
      PROVE  ContractInv'
  <2>1. SavedConfig(modelConfig')
    BY <1>1, NormalizedIsSaved DEF PutConfig, ContractInv
  <2> QED
    BY <1>1, <2>1 DEF PutConfig, ContractInv, SavedConfig, ReadyRuns, KeysAreAskedFor
<1>2. ASSUME NEW p \in LlmProviders, BindLlm(p) \/ LoseLlm(p)
      PROVE  ContractInv'
  BY <1>2 DEF BindLlm, LoseLlm, ContractInv, SavedConfig, ReadyRuns, KeysAreAskedFor
<1>3. CASE runPreflight
  <2>1. dispatch' \in {"refused", "ready"}
          /\ UNCHANGED <<capable, modelConfig, boundProviders, explained>>
    BY <1>3 DEF runPreflight, Preflight
  <2>2. ASSUME dispatch' = "ready" PROVE JobFinds
    <3>1. \/ ~bindingRequired
          \/ resolveProviderModelContract.ok /\ boundProviders # {}
      BY <1>3, <2>2 DEF runPreflight, Preflight
    <3>2. CASE ~bindingRequired
      BY <3>2, UnsetResolves DEF bindingRequired, JobFinds
    <3>3. CASE bindingRequired
      BY <3>1, <3>3, BindingOfProvider DEF ContractInv, JobFinds
    <3> QED
      BY <3>2, <3>3
  <2>3. JobFinds' = JobFinds
    BY <2>1 DEF JobFinds, resolveProviderModelContract, bindingRequired,
       normalizeModelConfigSelection, validateProviderModelSelection, validateNamed, validateModel,
       listCompatibleProvidersForModel
  <2>4. explained = ""
    BY <1>3 DEF runPreflight, ContractInv
  <2> QED
    BY <2>1, <2>2, <2>3, <2>4 DEF ContractInv, SavedConfig, ReadyRuns, KeysAreAskedFor
<1>4. CASE ResolveContract
  <2>1. /\ dispatch = "ready" /\ dispatch' \in {"mismatch", "unbound", "resolved"}
        /\ UNCHANGED <<capable, modelConfig, boundProviders, explained, altered>>
    BY <1>4 DEF ResolveContract
  <2>2. CASE altered
    BY <2>1, <2>2 DEF ContractInv, SavedConfig, ReadyRuns, KeysAreAskedFor
  <2>3. CASE ~altered
    <3>1. JobFinds
      BY <2>1, <2>3 DEF ContractInv
    <3>2. bindingRequired => SelectedBinding # {}
      BY <3>1, BindingOfProvider DEF ContractInv, JobFinds
    <3>3. dispatch' = "resolved"
      BY <1>4, <3>1, <3>2 DEF ResolveContract, JobFinds
    <3> QED
      BY <2>1, <3>3 DEF ContractInv, SavedConfig, ReadyRuns, KeysAreAskedFor
  <2> QED
    BY <2>2, <2>3
<1>5. CASE ResolveToken \/ RunUnbound
  BY <1>5 DEF ResolveToken, RunUnbound, ContractInv, SavedConfig, ReadyRuns, KeysAreAskedFor
<1>6. CASE Tell
  <2>1. /\ dispatch \in {"mismatch", "unbound", "unusable", "running"}
        /\ UNCHANGED <<capable, apiKeyEnv, modelConfig, boundProviders, dispatch, altered>>
        /\ dispatch \in {"unbound", "unusable"} => explained' = "bind a credential"
        /\ explained' = "update the credential" => dispatch = "running"
        /\ explained' = "bind a credential" => dispatch \in {"unbound", "unusable", "running"}
    BY <1>6, FailuresAreTold DEF Tell
  <2> QED
    BY <2>1 DEF ContractInv, SavedConfig, ReadyRuns, KeysAreAskedFor
<1>7. CASE UNCHANGED contractVars
  <2>1. JobFinds' = JobFinds
    BY <1>7 DEF contractVars, JobFinds, resolveProviderModelContract, bindingRequired,
       normalizeModelConfigSelection, validateProviderModelSelection, validateNamed, validateModel,
       listCompatibleProvidersForModel
  <2> QED
    BY <1>7, <2>1 DEF contractVars, ContractInv, SavedConfig, ReadyRuns, KeysAreAskedFor
<1> QED
  BY <1>1, <1>2, <1>3, <1>4, <1>5, <1>6, <1>7 DEF ContractNext

LEMMA ContractSound == ContractInv => ConfigIsCapable /\ ReadyRuns /\ KeysAreAskedFor
  BY DEF ContractInv, SavedConfig, ConfigIsCapable

LEMMA ResolvedBound == ContractInv /\ [ContractNext]_contractVars => [ResolvesBound]_contractVars
<1> SUFFICES ASSUME ContractInv, ContractNext, dispatch = "ready", dispatch' = "resolved",
                    bindingRequired
             PROVE  modelConfig.provider \in boundProviders
  BY DEF ResolvesBound
<1>1. ResolveContract
  BY DEF ContractNext, PutConfig, BindLlm, LoseLlm, runPreflight, ResolveToken, RunUnbound, Tell
<1>2. resolveProviderModelContract.ok /\ SelectedBinding # {}
  BY <1>1 DEF ResolveContract
<1> QED
  BY <1>2, BindingOfProvider DEF ContractInv

(*****************************************************************************)
(* The tools a job may call, and how often; what a subagent is given.        *)
(*****************************************************************************)

CallStates == {Idle} \cup [at : {"counted", "running"}, tool : Tools]

\* The tools of a job are those of one moment; one that was barred then is not offered, or waits
\* for an approval.
BarInv ==
  /\ callOf \in [GuardJobs -> CallStates]
  /\ barred \in [GuardJobs -> SUBSET Tools] /\ ran \in [GuardJobs -> SUBSET Tools]
  /\ BarredNeverRuns
  /\ DOMAIN toolset = GuardJobs /\ toolset = [j \in GuardJobs |-> toolset[j]]
  /\ \A j \in GuardJobs : toolset[j] = {} => ran[j] = {} /\ callOf[j] = Idle
  /\ \A j \in GuardJobs : \A f, g \in toolset[j] : f = g
  /\ \A j \in GuardJobs \ legacy : \A f \in toolset[j], t \in barred[j] :
       f[t] = NoRow \/ f[t].policy = "always_approve"
  /\ \A j \in GuardJobs : callOf[j] # Idle => Offers(j, callOf[j].tool)

Metered(j, t) == ToolOf(j, t).limited

\* The calls of a tool that count, or will when they end.
CallsOf(t) ==
  {j \in GuardJobs \ legacy :
     /\ callOf[j] # Idle /\ callOf[j].tool = t
     /\ callOf[j].at = "running" \/ Metered(j, t)}

MeterInv ==
  /\ invoked \in [Tools -> Nat]
  /\ \A t \in Tools \ unmetered :
       invoked[t] + Cardinality(CallsOf(t)) <= MaxCalls + Cardinality(GuardJobs) - 1
  /\ \A j \in GuardJobs \ legacy, t \in Tools \ unmetered :
       callOf[j] # Idle /\ callOf[j].at = "running" /\ callOf[j].tool = t => Metered(j, t)

GuardInv == BarInv /\ MeterInv

LEMMA GuardNumbers ==
  /\ Cardinality(GuardJobs) \in Nat /\ MaxCalls \in Nat /\ MaxCalls >= 1
  /\ Cardinality({}) = 0
  BY GuardAssumption, FS_CardinalityType, FS_EmptySet

LEMMA CallsAreJobs ==
  \A t \in Tools : /\ IsFiniteSet(CallsOf(t)) /\ Cardinality(CallsOf(t)) \in Nat
                   /\ Cardinality(CallsOf(t)) <= Cardinality(GuardJobs)
<1> TAKE t \in Tools
<1>1. CallsOf(t) \in SUBSET GuardJobs
  BY DEF CallsOf
<1> QED
  BY <1>1, GuardAssumption, FS_Subset, FS_CardinalityType

LEMMA CallsAreJobsNext ==
  \A t \in Tools : /\ IsFiniteSet(CallsOf(t)') /\ Cardinality(CallsOf(t)') \in Nat
                   /\ Cardinality(CallsOf(t)') <= Cardinality(GuardJobs)
<1> TAKE t \in Tools
<1>1. CallsOf(t)' \in SUBSET GuardJobs
  BY DEF CallsOf
<1> QED
  BY <1>1, GuardAssumption, FS_Subset, FS_CardinalityType

\* The tool of a job's call is the row of its one set.
LEMMA ToolOfJob ==
  ASSUME BarInv, NEW j \in GuardJobs, NEW f \in toolset[j], NEW t
  PROVE  ToolOf(j, t) = f[t]
<1>1. {g[t] : g \in toolset[j]} = {f[t]}
  BY DEF BarInv
<1> QED
  BY <1>1 DEF ToolOf

LEMMA GuardStarts == GuardInit => GuardInv
<1> SUFFICES ASSUME GuardInit PROVE GuardInv
  OBVIOUS
<1>1. BarInv
  BY DEF GuardInit, BarInv, BarredNeverRuns, CallStates
<1>2. \A t \in Tools : CallsOf(t) = {}
  BY DEF GuardInit, CallsOf
<1>3. MeterInv
  BY <1>2, GuardNumbers DEF GuardInit, MeterInv
<1> QED
  BY <1>1, <1>3 DEF GuardInv

\* A job's tools do not change while it calls one.
LEMMA MetersStay ==
  ASSUME BarInv, \A k \in GuardJobs : callOf[k] # Idle => toolset'[k] = toolset[k]
  PROVE  \A k \in GuardJobs : callOf[k] # Idle => \A t \in Tools : Metered(k, t)' = Metered(k, t)
  BY DEF Metered, ToolOf

LEMMA RoutesRest ==
  ASSUME GuardInv, UNCHANGED rowVars
  PROVE  GuardInv'
<1>1. BarInv'
  BY DEF GuardInv, BarInv, BarredNeverRuns, Offers, rowVars
<1>2. \A t \in Tools : CallsOf(t)' = CallsOf(t)
  BY DEF CallsOf, Metered, ToolOf, rowVars
<1>3. \A j \in GuardJobs, t \in Tools : Metered(j, t)' = Metered(j, t)
  BY DEF Metered, ToolOf, rowVars
<1>4. \A j \in GuardJobs : callOf[j] # Idle => callOf[j].tool \in Tools
  BY DEF GuardInv, BarInv, CallStates
<1>5. MeterInv'
  BY <1>2, <1>3, <1>4 DEF GuardInv, MeterInv, rowVars
<1> QED
  BY <1>1, <1>5 DEF GuardInv

LEMMA BarSteps ==
  ASSUME BarInv, NEW j \in GuardJobs,
         \/ Assemble(j) \/ GuardCall(j) \/ (\E t \in Tools : CountCalls(j, t))
         \/ (\E written \in BOOLEAN : ToolReturns(j, written))
  PROVE  BarInv'
<1>1. CASE Assemble(j)
  <2>1. PICK new : /\ toolset' = [toolset EXCEPT ![j] = {new}]
                   /\ j \in legacy' \/ (new = resolveEffectiveTools /\ EffectiveSet(j))
                   /\ legacy \subseteq legacy'
    BY <1>1 DEF Assemble, EffectiveSet, LegacySet
  <2>a. toolset[j] = {} /\ ran[j] = {} /\ callOf[j] = Idle /\ UNCHANGED <<ran, callOf>>
    BY <1>1 DEF Assemble, BarInv
  <2>2. PICK out \in SUBSET Tools :
          /\ barred' = [barred EXCEPT ![j] = out]
          /\ j \notin legacy' => \A t \in out : rowOf[t] = NoRow \/ ~rowOf[t].enabled
               \/ rowOf[t].policy = "always_approve"
    <3>1. CASE EffectiveSet(j)
      <4>1. barred' = [barred EXCEPT ![j] = Barred]
        BY <3>1 DEF EffectiveSet
      <4>2. Barred \in SUBSET Tools
        BY DEF Barred
      <4>3. \A t \in Barred : rowOf[t] = NoRow \/ ~rowOf[t].enabled
                              \/ rowOf[t].policy = "always_approve"
        BY DEF Barred
      <4> HIDE DEF Barred
      <4> QED
        BY <4>1, <4>2, <4>3
    <3>2. CASE LegacySet(j)
      BY <3>2 DEF LegacySet, BarInv
    <3> QED
      BY <1>1, <3>1, <3>2 DEF Assemble
  <2>3. j \notin legacy' => \A t \in out : new[t] = NoRow \/ new[t].policy = "always_approve"
    BY <2>1, <2>2 DEF resolveEffectiveTools
  <2>4. /\ \A k \in GuardJobs : toolset'[k] = IF k = j THEN {new} ELSE toolset[k]
        /\ \A k \in GuardJobs : barred'[k] = IF k = j THEN out ELSE barred[k]
        /\ DOMAIN toolset' = GuardJobs /\ toolset' = [k \in GuardJobs |-> toolset'[k]]
        /\ barred' \in [GuardJobs -> SUBSET Tools]
    BY <2>1, <2>2 DEF BarInv
  <2>5. \A k \in GuardJobs : callOf'[k] # Idle => k # j /\ Offers(k, callOf[k].tool)
    BY <2>a DEF BarInv
  <2>6. \A k \in GuardJobs : callOf'[k] # Idle => Offers(k, callOf[k].tool)'
    BY <2>a, <2>4, <2>5 DEF Offers
  <2> QED
    BY <2>a, <2>1, <2>3, <2>4, <2>6 DEF BarInv, BarredNeverRuns
<1>2. ASSUME NEW t \in Tools, CountCalls(j, t)
      PROVE  BarInv'
  <2>1. PICK new \in CallStates : new # Idle /\ new.tool = t /\ callOf' = [callOf EXCEPT ![j] = new]
    <3>1. [at |-> "counted", tool |-> t] # Idle
      BY DEF Idle
    <3> QED
      BY <1>2, <3>1 DEF CountCalls, CallStates
  <2>2. /\ UNCHANGED <<toolset, legacy, barred, ran>> /\ Offers(j, t) /\ toolset[j] # {}
    BY <1>2 DEF CountCalls, Offers
  <2>3. /\ callOf' \in [GuardJobs -> CallStates]
        /\ \A k \in GuardJobs : callOf'[k] = IF k = j THEN new ELSE callOf[k]
    BY <2>1 DEF BarInv
  <2>4. \A k \in GuardJobs : callOf'[k] # Idle => Offers(k, callOf'[k].tool)
    BY <2>1, <2>2, <2>3 DEF BarInv
  <2>5. \A k \in GuardJobs : callOf'[k] # Idle => Offers(k, callOf[k].tool)'
    BY <2>2, <2>4 DEF Offers
  <2> QED
    BY <2>2, <2>3, <2>5 DEF BarInv, BarredNeverRuns
<1>3. CASE GuardCall(j)
  <2> DEFINE t == callOf[j].tool
  <2>1. callOf[j].at = "counted" /\ callOf[j] # Idle /\ t \in Tools /\ Offers(j, t)
    <3>1. callOf[j].at = "counted" /\ callOf[j] # Idle
      BY <1>3 DEF GuardCall, Idle
    <3> QED
      BY <3>1 DEF BarInv, CallStates
  <2>2. UNCHANGED <<toolset, legacy, barred>>
    BY <1>3 DEF GuardCall
  <2>3. CASE callOf' = [callOf EXCEPT ![j] = Idle] /\ UNCHANGED ran
    BY <2>2, <2>3 DEF BarInv, BarredNeverRuns, CallStates, Offers
  <2>4. CASE ~(callOf' = [callOf EXCEPT ![j] = Idle] /\ UNCHANGED ran)
    <3>1. PICK o \in Operators, hit \in BOOLEAN, typed \in BOOLEAN :
            ~requiresApproval(ToolOf(j, t).policy, o, hit, typed)
      BY <1>3, <2>4 DEF GuardCall
    <3>2. ToolOf(j, t).policy # "always_approve"
      BY <3>1, Zenon DEF requiresApproval
    <3>3. PICK f \in toolset[j] : f[t] # NoRow
      BY <2>1 DEF Offers
    <3>4. ToolOf(j, t) = f[t]
      BY <3>3, ToolOfJob
    <3>5. t \notin barred[j] \/ j \in legacy
      BY <3>2, <3>3, <3>4 DEF BarInv
    <3>6. callOf' = [callOf EXCEPT ![j].at = "running"] /\ ran' = [ran EXCEPT ![j] = @ \cup {t}]
      BY <1>3, <2>4 DEF GuardCall
    <3>7. /\ callOf' \in [GuardJobs -> CallStates]
          /\ \A k \in GuardJobs : callOf'[k] # Idle => callOf[k] # Idle
               /\ callOf'[k].tool = callOf[k].tool
          /\ \A k \in GuardJobs : callOf[k] = Idle => callOf'[k] = Idle
      <4>1. PICK new \in CallStates : new.tool = t /\ callOf' = [callOf EXCEPT ![j] = new]
        <5>1. callOf[j] \in [at : {"counted", "running"}, tool : Tools]
          BY <2>1 DEF BarInv, CallStates
        <5>2. [callOf[j] EXCEPT !.at = "running"] \in [at : {"counted", "running"}, tool : Tools]
          BY <5>1
        <5>3. [callOf[j] EXCEPT !.at = "running"].tool = t
          BY <5>1
        <5> QED
          BY <3>6, <5>2, <5>3 DEF CallStates
      <4> QED
        BY <2>1, <4>1 DEF BarInv
    <3>8. /\ ran' \in [GuardJobs -> SUBSET Tools]
          /\ \A k \in GuardJobs : \A u \in ran'[k] : u \in ran[k] \/ (k = j /\ u = t)
      BY <2>1, <3>6 DEF BarInv
    <3>9. BarredNeverRuns'
      BY <2>2, <3>5, <3>8 DEF BarInv, BarredNeverRuns
    <3>10. \A k \in GuardJobs : callOf'[k] # Idle => Offers(k, callOf[k].tool)'
      BY <2>2, <3>7 DEF BarInv, Offers
    <3>11. toolset[j] # {}
      BY <3>3
    <3>12. \A k \in GuardJobs : toolset'[k] = {} => ran'[k] = {} /\ callOf'[k] = Idle
      BY <2>2, <3>7, <3>8, <3>11 DEF BarInv
    <3> QED
      BY <2>2, <3>7, <3>8, <3>9, <3>10, <3>12 DEF BarInv
  <2> QED
    BY <2>3, <2>4
<1>4. ASSUME NEW written \in BOOLEAN, ToolReturns(j, written)
      PROVE  BarInv'
  BY <1>4 DEF ToolReturns, BarInv, BarredNeverRuns, CallStates, Offers
<1> QED
  BY <1>1, <1>2, <1>3, <1>4

LEMMA MeterSteps ==
  ASSUME BarInv, MeterInv, NEW j \in GuardJobs,
         \/ Assemble(j) \/ GuardCall(j) \/ (\E t \in Tools : CountCalls(j, t))
         \/ (\E written \in BOOLEAN : ToolReturns(j, written))
  PROVE  MeterInv'
<1> DEFINE N == Cardinality(GuardJobs)
<1>b. \/ toolset[j] = {} /\ callOf[j] = Idle /\ UNCHANGED callOf
         /\ \E new : toolset' = [toolset EXCEPT ![j] = new]
         /\ legacy' \in {legacy, legacy \cup {j}} /\ Assemble(j)
      \/ UNCHANGED <<toolset, legacy>>
  <2>1. CASE Assemble(j)
    BY <2>1 DEF BarInv, Assemble, EffectiveSet, LegacySet
  <2> QED
    BY <2>1 DEF GuardCall, CountCalls, ToolReturns
<1>1. \A k \in GuardJobs : callOf[k] # Idle => toolset'[k] = toolset[k]
  BY <1>b DEF BarInv
<1>2. \A k \in GuardJobs : callOf[k] # Idle => \A t \in Tools : Metered(k, t)' = Metered(k, t)
  BY <1>1, MetersStay
<1>3. \A k \in GuardJobs : callOf[k] # Idle => callOf[k].tool \in Tools
  BY DEF BarInv, CallStates
<1>a. /\ ~Assemble(j) => legacy' = legacy
      /\ \A k \in GuardJobs : callOf[k] # Idle => (k \in legacy' <=> k \in legacy)
  BY <1>b
<1>4. CASE Assemble(j)
  <2>1. UNCHANGED <<callOf, invoked, unmetered>>
    BY <1>4 DEF Assemble
  <2>2. \A t \in Tools : CallsOf(t)' = CallsOf(t)
    BY <1>2, <1>a, <2>1 DEF CallsOf
  <2> QED
    BY <1>2, <1>3, <1>a, <2>1, <2>2 DEF MeterInv
<1>5. ASSUME NEW t \in Tools, CountCalls(j, t)
      PROVE  MeterInv'
  <2>1. PICK new : /\ new # Idle /\ new.tool = t /\ new.at = "counted"
                   /\ callOf' = [callOf EXCEPT ![j] = new]
    <3>1. [at |-> "counted", tool |-> t] # Idle
      BY DEF Idle
    <3> QED
      BY <1>5, <3>1 DEF CountCalls
  <2>2. /\ UNCHANGED <<invoked, unmetered, toolset, legacy>> /\ callOf[j] = Idle
        /\ Metered(j, t) => invoked[t] < MaxCalls
    BY <1>5 DEF CountCalls, WithinLimit, Metered
  <2>3. \A k \in GuardJobs : callOf'[k] = IF k = j THEN new ELSE callOf[k]
    BY <2>1 DEF BarInv
  <2>4. \A u \in Tools : Metered(j, u)' = Metered(j, u)
    BY <2>2 DEF Metered, ToolOf
  <2>5. \A u \in Tools : u # t \/ ~Metered(j, t) => CallsOf(u)' = CallsOf(u)
    BY <1>2, <2>1, <2>2, <2>3, <2>4 DEF CallsOf
  <2>6. ASSUME NEW u \in Tools \ unmetered'
        PROVE  invoked'[u] + Cardinality(CallsOf(u)') <= MaxCalls + N - 1
    <3>1. CASE u # t \/ ~Metered(j, t)
      BY <2>2, <2>5, <2>6, <3>1 DEF MeterInv
    <3>2. CASE u = t /\ Metered(j, t)
      <4> HIDE DEF N
      <4>1. invoked'[u] < MaxCalls /\ invoked'[u] \in Nat
        BY <2>2, <3>2 DEF MeterInv
      <4>2. Cardinality(CallsOf(u)') \in Nat /\ Cardinality(CallsOf(u)') <= N /\ N \in Nat
        BY CallsAreJobsNext, GuardNumbers DEF N
      <4> QED
        BY <4>1, <4>2, GuardNumbers
    <3> QED
      BY <3>1, <3>2
  <2>7. \A k \in GuardJobs \ legacy', u \in Tools \ unmetered' :
          callOf'[k] # Idle /\ callOf'[k].at = "running" /\ callOf'[k].tool = u => Metered(k, u)'
    BY <1>2, <1>3, <2>1, <2>2, <2>3 DEF MeterInv
  <2>8. invoked' \in [Tools -> Nat]
    BY <2>2 DEF MeterInv
  <2> QED
    BY <2>6, <2>7, <2>8 DEF MeterInv
<1>6. CASE GuardCall(j)
  <2> DEFINE t == callOf[j].tool
  <2>1. callOf[j].at = "counted" /\ callOf[j] # Idle /\ t \in Tools
          /\ UNCHANGED <<invoked, toolset, legacy>>
    <3>1. callOf[j].at = "counted" /\ callOf[j] # Idle
      BY <1>6 DEF GuardCall, Idle
    <3> QED
      BY <1>3, <1>6, <3>1 DEF GuardCall
  <2>2. \A k \in GuardJobs : k # j => callOf'[k] = callOf[k]
    BY <1>6 DEF GuardCall, BarInv
  <2>3. unmetered \subseteq unmetered'
    BY <1>6 DEF GuardCall
  <2>4. \/ callOf'[j] = Idle
        \/ /\ callOf'[j] # Idle /\ callOf'[j].at = "running" /\ callOf'[j].tool = t
           /\ Metered(j, t) \/ t \in unmetered' \/ j \in legacy
    <3>1. CASE callOf' = [callOf EXCEPT ![j] = Idle]
      BY <3>1 DEF BarInv
    <3>2. CASE callOf' # [callOf EXCEPT ![j] = Idle]
      <4>1. /\ callOf' = [callOf EXCEPT ![j].at = "running"]
            /\ Metered(j, t) \/ t \in unmetered' \/ j \in legacy
        BY <1>6, <3>2 DEF GuardCall, Metered
      <4>2. PICK old \in [at : {"counted", "running"}, tool : Tools] : callOf[j] = old
        BY <2>1 DEF BarInv, CallStates
      <4>3. callOf'[j] = [old EXCEPT !.at = "running"]
        BY <4>1, <4>2 DEF BarInv
      <4>4. callOf'[j].at = "running" /\ callOf'[j].tool = t
        BY <4>2, <4>3
      <4>5. callOf'[j] # Idle
        BY <4>4 DEF Idle
      <4> QED
        BY <4>1, <4>4, <4>5
    <3> QED
      BY <3>1, <3>2
  <2>5. ASSUME NEW u \in Tools \ unmetered'
        PROVE  CallsOf(u)' \subseteq CallsOf(u)
    <3>1. \A k \in GuardJobs : k # j => (k \in CallsOf(u)' <=> k \in CallsOf(u))
      BY <1>2, <2>1, <2>2 DEF CallsOf
    <3>2. j \in CallsOf(u)' => j \in CallsOf(u)
      BY <2>1, <2>4, <2>5 DEF CallsOf
    <3> QED
      BY <3>1, <3>2 DEF CallsOf
  <2>6. ASSUME NEW u \in Tools \ unmetered'
        PROVE  invoked'[u] + Cardinality(CallsOf(u)') <= MaxCalls + N - 1
    <3> HIDE DEF N
    <3>1. invoked[u] + Cardinality(CallsOf(u)) <= MaxCalls + N - 1 /\ invoked[u] \in Nat
      BY <2>3, <2>6 DEF MeterInv, N
    <3>2. Cardinality(CallsOf(u)') <= Cardinality(CallsOf(u))
      BY <2>5, <2>6, CallsAreJobs, FS_Subset
    <3>3. Cardinality(CallsOf(u)') \in Nat /\ Cardinality(CallsOf(u)) \in Nat /\ N \in Nat
      BY <2>6, CallsAreJobs, CallsAreJobsNext, GuardNumbers DEF N
    <3>4. invoked'[u] = invoked[u]
      BY <2>1
    <3> QED
      BY <3>1, <3>2, <3>3, <3>4, GuardNumbers
  <2>7. \A k \in GuardJobs \ legacy', u \in Tools \ unmetered' :
          callOf'[k] # Idle /\ callOf'[k].at = "running" /\ callOf'[k].tool = u => Metered(k, u)'
    <3>1. \A k \in GuardJobs \ legacy', u \in Tools \ unmetered' : k # j =>
          (callOf'[k] # Idle /\ callOf'[k].at = "running" /\ callOf'[k].tool = u => Metered(k, u)')
      BY <1>2, <1>3, <2>1, <2>2, <2>3 DEF MeterInv
    <3>2. j \notin legacy =>
            \A u \in Tools \ unmetered' : callOf'[j] # Idle /\ callOf'[j].tool = u => Metered(j, u)'
      BY <1>2, <2>1, <2>4
    <3> QED
      BY <2>1, <3>1, <3>2
  <2>8. invoked' \in [Tools -> Nat]
    BY <2>1 DEF MeterInv
  <2> QED
    BY <2>6, <2>7, <2>8 DEF MeterInv
<1>7. ASSUME NEW written \in BOOLEAN, ToolReturns(j, written)
      PROVE  MeterInv'
  <2> DEFINE t == callOf[j].tool
  <2>1. callOf[j].at = "running" /\ callOf[j] # Idle /\ t \in Tools
          /\ UNCHANGED <<unmetered, toolset, legacy>>
    <3>1. callOf[j].at = "running" /\ callOf[j] # Idle
      BY <1>7 DEF ToolReturns, Idle
    <3> QED
      BY <1>3, <1>7, <3>1 DEF ToolReturns
  <2>2. \A k \in GuardJobs : callOf'[k] = IF k = j THEN Idle ELSE callOf[k]
    BY <1>7 DEF ToolReturns, BarInv
  <2>3. /\ invoked' \in [Tools -> Nat]
        /\ \A u \in Tools : u # t => invoked'[u] = invoked[u]
        /\ invoked'[t] <= invoked[t] + 1
    BY <1>7, <2>1 DEF ToolReturns, MeterInv
  <2>4. \A u \in Tools : CallsOf(u)' = CallsOf(u) \ {j}
    BY <1>2, <2>1, <2>2 DEF CallsOf
  <2>5. /\ j \in CallsOf(t) \/ (j \in legacy /\ j \notin CallsOf(t) /\ invoked' = invoked)
        /\ \A u \in Tools : u # t => j \notin CallsOf(u)
    BY <1>7, <2>1 DEF CallsOf, ToolReturns
  <2>6. ASSUME NEW u \in Tools \ unmetered'
        PROVE  invoked'[u] + Cardinality(CallsOf(u)') <= MaxCalls + N - 1
    <3> HIDE DEF N, t
    <3>1. invoked[u] + Cardinality(CallsOf(u)) <= MaxCalls + N - 1 /\ invoked[u] \in Nat
      BY <2>1, <2>6 DEF MeterInv, N
    <3>2. Cardinality(CallsOf(u)) \in Nat /\ N \in Nat /\ IsFiniteSet(CallsOf(u))
      BY <2>6, CallsAreJobs, GuardNumbers DEF N
    <3>3. CASE u # t
      <4>1. CallsOf(u)' = CallsOf(u) /\ invoked'[u] = invoked[u]
        BY <2>3, <2>4, <2>5, <3>3
      <4> QED
        BY <3>1, <4>1
    <3>5. CASE u = t /\ j \notin CallsOf(t)
      <4>1. CallsOf(u)' = CallsOf(u) /\ invoked'[u] = invoked[u]
        BY <2>4, <2>5, <3>5
      <4> QED
        BY <3>1, <4>1
    <3>4. CASE u = t /\ j \in CallsOf(t)
      <4>1. Cardinality(CallsOf(u)') = Cardinality(CallsOf(u)) - 1
        BY <2>4, <2>5, <3>2, <3>4, FS_RemoveElement
      <4>2. invoked'[u] <= invoked[u] + 1 /\ invoked'[u] \in Nat
        BY <2>3, <3>4
      <4> QED
        BY <3>1, <3>2, <4>1, <4>2, GuardNumbers
    <3> QED
      BY <3>3, <3>4, <3>5
  <2>7. \A k \in GuardJobs \ legacy', u \in Tools \ unmetered' :
          callOf'[k] # Idle /\ callOf'[k].at = "running" /\ callOf'[k].tool = u => Metered(k, u)'
    BY <1>2, <1>3, <2>1, <2>2 DEF MeterInv
  <2> QED
    BY <2>3, <2>6, <2>7 DEF MeterInv
<1> QED
  BY <1>4, <1>5, <1>6, <1>7

LEMMA WindowKeeps ==
  ASSUME BarInv, MeterInv, WindowPasses
  PROVE  GuardInv'
<1>1. UNCHANGED <<toolset, legacy, callOf, barred, ran>> /\ invoked' = [t \in Tools |-> 0]
  BY DEF WindowPasses
<1>2. BarInv'
  BY <1>1 DEF BarInv, BarredNeverRuns, Offers
<1>3. \A t \in Tools :
        invoked'[t] + Cardinality(CallsOf(t)') <= MaxCalls + Cardinality(GuardJobs) - 1
  <2> TAKE t \in Tools
  <2>1. Cardinality(CallsOf(t)') \in Nat /\ Cardinality(CallsOf(t)') <= Cardinality(GuardJobs)
    BY CallsAreJobsNext
  <2>2. invoked'[t] = 0
    BY <1>1
  <2> QED
    BY <2>1, <2>2, GuardNumbers
<1>4. \A j \in GuardJobs : \A t \in Tools : Metered(j, t)' = Metered(j, t)
  BY <1>1 DEF Metered, ToolOf
<1>5. ASSUME NEW j \in GuardJobs \ legacy, NEW t \in Tools \ unmetered', callOf[j] # Idle,
             callOf[j].at = "running", callOf[j].tool = t
      PROVE  Metered(j, t)'
  <2>1. callOf[j] = [at |-> "running", tool |-> t]
    BY <1>5 DEF BarInv, CallStates
  <2>2. t \notin unmetered
    BY <1>5, <2>1 DEF WindowPasses
  <2> QED
    BY <1>4, <1>5, <2>1, <2>2 DEF MeterInv
<1>6. MeterInv'
  <2>1. invoked' \in [Tools -> Nat]
    BY <1>1
  <2> QED
    BY <1>1, <1>3, <1>5, <2>1 DEF MeterInv
<1> QED
  BY <1>2, <1>6 DEF GuardInv

LEMMA GuardSteps == GuardInv /\ [GuardNext]_guardVars => GuardInv'
<1> SUFFICES ASSUME GuardInv, [GuardNext]_guardVars PROVE GuardInv'
  OBVIOUS
<1>1. ASSUME NEW j \in GuardJobs,
             \/ Assemble(j) \/ GuardCall(j) \/ (\E t \in Tools : CountCalls(j, t))
             \/ (\E written \in BOOLEAN : ToolReturns(j, written))
      PROVE  GuardInv'
  BY <1>1, BarSteps, MeterSteps DEF GuardInv
<1>2. CASE WindowPasses
  BY <1>2, WindowKeeps DEF GuardInv
<1>3. CASE \/ UNCHANGED guardVars
           \/ \E t \in Tools :
                \/ CreateToolBinding(t) \/ InsertToolBinding(t) \/ UpdateToolBinding(t)
                \/ RemoveToolBinding(t) \/ DeleteToolBinding(t)
           \/ \E ts \in SUBSET Tools, policy \in Policies : BulkBind(ts, policy)
  <2>1. UNCHANGED rowVars
    BY <1>3 DEF CreateToolBinding, InsertToolBinding, UpdateToolBinding, RemoveToolBinding,
       DeleteToolBinding, BulkBind, guardVars, rowVars
  <2> QED
    BY <2>1, RoutesRest
<1> QED
  BY <1>1, <1>2, <1>3 DEF GuardNext

LEMMA GuardSound == GuardInv => BarredNeverRuns /\ OverrunIsBounded
<1> SUFFICES ASSUME GuardInv PROVE OverrunIsBounded
  BY DEF GuardInv, BarInv
<1> SUFFICES ASSUME NEW t \in Tools \ unmetered
             PROVE  invoked[t] =< MaxCalls + Cardinality(GuardJobs) - 1
  BY DEF OverrunIsBounded
<1>1. invoked[t] \in Nat /\ Cardinality(CallsOf(t)) \in Nat
  BY CallsAreJobs DEF GuardInv, MeterInv
<1>2. invoked[t] + Cardinality(CallsOf(t)) <= MaxCalls + Cardinality(GuardJobs) - 1
  BY DEF GuardInv, MeterInv
<1> QED
  BY <1>1, <1>2, GuardNumbers

\* A subagent's tools and scope are within its parent's.
LEMMA DelegationStarts == DelegationInit => DelegatedIsOwned
  BY DEF DelegationInit, DelegatedIsOwned

LEMMA DelegationSteps == DelegatedIsOwned /\ [DelegationNext]_delegationVars => DelegatedIsOwned'
<1> SUFFICES ASSUME DelegatedIsOwned, [DelegationNext]_delegationVars PROVE DelegatedIsOwned'
  OBVIOUS
<1>1. CASE ParentChanges
  BY <1>1 DEF ParentChanges, DelegatedIsOwned
<1>2. ASSUME NEW wish \in SUBSET ToolRefs, NEW scope \in Scopes, validateDelegation(wish, scope)
      PROVE  DelegatedIsOwned'
  <2>1. \A k \in ScopeKeys : Narrower(narrowEntry(parentScope[k], scope[k]), parentScope[k])
    BY DEF Narrower, narrowEntry
  <2> QED
    BY <1>2, <2>1 DEF validateDelegation, DelegatedIsOwned, narrowDataScope
<1>3. CASE UNCHANGED delegationVars
  BY <1>3 DEF delegationVars, DelegatedIsOwned
<1> QED
  BY <1>1, <1>2, <1>3 DEF DelegationNext

(*****************************************************************************)
(* The forms of an agent's capabilities.                                     *)
(*****************************************************************************)

LEMMA FormsStart == FormsInit => TickedUnderServer /\ PagedUnderFilter
BY DEF FormsInit, TickedUnderServer, PagedUnderFilter

\* Another filter starts at the first page.
LEMMA FilterStarts ==
  ASSUME TickedUnderServer, NEW f, applyFilters(f)
  PROVE  TickedUnderServer' /\ PagedUnderFilter'
BY DEF applyFilters, bulkVars, TickedUnderServer, PagedUnderFilter

\* Ticks go with the server they are under; a page with the filter.
LEMMA FormsStep ==
  TickedUnderServer /\ PagedUnderFilter /\ [FormsNext]_formVars =>
    TickedUnderServer' /\ PagedUnderFilter'
<1> SUFFICES ASSUME TickedUnderServer, PagedUnderFilter, [FormsNext]_formVars
             PROVE  TickedUnderServer' /\ PagedUnderFilter'
  OBVIOUS
<1>1. ASSUME NEW s \in McpHosts \cup {NoHost}, handleServerChange(s)
      PROVE  TickedUnderServer' /\ PagedUnderFilter'
  BY <1>1 DEF handleServerChange, auditVars, TickedUnderServer, PagedUnderFilter
<1>2. ASSUME NEW s \in McpHosts, ToolsLoaded(s)
      PROVE  TickedUnderServer' /\ PagedUnderFilter'
  BY <1>2 DEF ToolsLoaded, auditVars, TickedUnderServer, PagedUnderFilter
<1>3. CASE toggleTool
  BY <1>3 DEF toggleTool, auditVars, TickedUnderServer, PagedUnderFilter
<1>4. CASE SubmitBulk \/ BulkFails
  BY <1>4 DEF SubmitBulk, BulkFails, auditVars, TickedUnderServer, PagedUnderFilter
<1>5. CASE BulkDone
  BY <1>5 DEF BulkDone, auditVars, TickedUnderServer, PagedUnderFilter
<1>6. CASE BindingsArrive \/ EffectiveArrives \/ CancelRemoval \/ ConfirmRemoval
  BY <1>6 DEF BindingsArrive, EffectiveArrives, CancelRemoval, ConfirmRemoval, bulkVars, auditVars,
       TickedUnderServer, PagedUnderFilter
<1>7. ASSUME NEW t \in BoundTools, ToolRow(t) \/ \E ok \in BOOLEAN : RemovalDone(t, ok)
      PROVE  TickedUnderServer' /\ PagedUnderFilter'
  BY <1>7 DEF ToolRow, RemovalDone, bulkVars, auditVars, TickedUnderServer, PagedUnderFilter
<1>8. ASSUME NEW f \in {"", "invoked"}, applyFilters(f)
      PROVE  TickedUnderServer' /\ PagedUnderFilter'
  BY <1>8, FilterStarts
<1>9. CASE AuditAnswered \/ PageForward \/ PageBack
  BY <1>9 DEF AuditAnswered, PageForward, PageBack, bulkVars, TickedUnderServer, PagedUnderFilter
<1>10. CASE UNCHANGED formVars
  BY <1>10 DEF formVars, bulkVars, auditVars, TickedUnderServer, PagedUnderFilter
<1> QED
  BY <1>1, <1>2, <1>3, <1>4, <1>5, <1>6, <1>7, <1>8, <1>9, <1>10 DEF FormsNext

(*****************************************************************************)
(* One agent's page.                                                         *)
(*****************************************************************************)

\* The requests whose panel waits for them still, and those of the settings form.
Minded == {p \in posts : p.mine}
MindedSaves == {p \in posts : p.mine /\ p.op = "save"}

\* The skeleton has no panels; the form that saves has one request under way.
PageInv ==
  /\ DOMAIN editor = {"at", "prompt", "touched"}
  /\ \A p \in posts : DOMAIN p = {"op", "prompt", "mine", "done"}
  /\ skeleton => Minded = {} /\ control = "none"
  /\ MindedSaves # {} => editor.at = "saving"
  /\ \A p, q \in MindedSaves : p = q
  /\ UntouchedIsShown /\ DialogFitsStatus

LEMMA PageStarts == PageInit => PageInv
BY DEF PageInit, PageInv, Viewing, Minded, MindedSaves, UntouchedIsShown, DialogFitsStatus

\* Where the page starts anew, all requests are orphans.
LEMMA OrphansAreNotMinded ==
  ASSUME NEW ps, \A p \in ps : DOMAIN p = {"op", "prompt", "mine", "done"}
  PROVE  \A p \in Orphans(ps) : ~p.mine /\ DOMAIN p = {"op", "prompt", "mine", "done"}
BY DEF Orphans

LEMMA ReloadKeeps ==
  ASSUME PageInv, Reload, UNCHANGED agentShown,
         \A p \in posts' : ~p.mine /\ DOMAIN p = {"op", "prompt", "mine", "done"}
  PROVE  PageInv'
BY DEF PageInv, Reload, Viewing, Minded, MindedSaves, UntouchedIsShown, DialogFitsStatus

\* A request of anything but the form leaves, or an input sends one.
LEMMA SendKeeps ==
  ASSUME PageInv, ~skeleton, NEW op, op # "save", NEW prompt, Sends(op, prompt),
         Idles, UNCHANGED <<editor, control, removal>>
  PROVE  PageInv'
<1> DEFINE p == [op |-> op, prompt |-> prompt, mine |-> TRUE, done |-> op \in Elsewhere]
<1>1. posts' = posts \cup {p}
  BY DEF Sends
<1>2. DOMAIN p = {"op", "prompt", "mine", "done"} /\ p.op # "save"
  OBVIOUS
<1> HIDE DEF p
<1>3. MindedSaves' = MindedSaves
  BY <1>1, <1>2 DEF MindedSaves
<1> QED
  BY <1>1, <1>2, <1>3 DEF PageInv, Idles, UntouchedIsShown, DialogFitsStatus

\* An answer takes one request away.
LEMMA AnswerKeeps ==
  ASSUME PageInv, NEW p \in posts, Answers(p), Idles,
         UNCHANGED <<editor, control>>
  PROVE  PageInv'
<1>1. MindedSaves' \subseteq MindedSaves /\ Minded' \subseteq Minded /\ posts' \subseteq posts
  BY DEF Answers, MindedSaves, Minded
<1> QED
  BY <1>1 DEF PageInv, Idles, UntouchedIsShown, DialogFitsStatus

LEMMA PageSteps == PageInv /\ [PageNext]_pageVars => PageInv'
<1> SUFFICES ASSUME PageInv, [PageNext]_pageVars PROVE PageInv'
  OBVIOUS
<1>1. ASSUME NEW ok \in BOOLEAN, Loaded(ok) PROVE PageInv'
  <2>1. UNCHANGED posts /\ control = "none" /\ Minded = {} /\ control' = "none"
    BY <1>1 DEF Loaded, PageInv
  <2>2. Minded' = {} /\ MindedSaves' = {}
    BY <2>1 DEF Minded, MindedSaves
  <2> QED
    BY <1>1, <2>1, <2>2 DEF Loaded, PageInv, Viewing, UntouchedIsShown, DialogFitsStatus
<1>2. ASSUME NEW s \in Lives, Streamed(s) PROVE PageInv'
  BY <1>2 DEF Streamed, PageInv, Minded, MindedSaves, UntouchedIsShown, DialogFitsStatus
<1>3. CASE RefreshOnActivity
  BY <1>3, OrphansAreNotMinded, ReloadKeeps DEF RefreshOnActivity, PageInv
<1>4. CASE handleEdit
  BY <1>4 DEF handleEdit, Idles, PageInv, Minded, MindedSaves, UntouchedIsShown, DialogFitsStatus
<1>5. CASE handleCancel
  BY <1>5 DEF handleCancel, Idles, PageInv, Minded, MindedSaves, UntouchedIsShown, DialogFitsStatus
<1>6. CASE handleSave
  <2> DEFINE p == [op |-> "save", prompt |-> editor.prompt, mine |-> TRUE,
                   done |-> "save" \in Elsewhere]
  <2>1. posts' = posts \cup {p} /\ editor.at = "edit" /\ ~skeleton
    BY <1>6 DEF handleSave, Sends
  <2>2. MindedSaves = {}
    BY <2>1 DEF PageInv
  <2>3. MindedSaves' \subseteq {p}
    BY <2>1, <2>2 DEF MindedSaves
  <2>4. DOMAIN p = {"op", "prompt", "mine", "done"}
    OBVIOUS
  <2> HIDE DEF p
  <2> QED
    BY <1>6, <2>1, <2>3, <2>4 DEF handleSave, Idles, PageInv, UntouchedIsShown, DialogFitsStatus
<1>7. ASSUME NEW p \in Prompts, TypeSetting(p) PROVE PageInv'
  BY <1>7 DEF TypeSetting, Idles, PageInv, Minded, MindedSaves, UntouchedIsShown, DialogFitsStatus
<1>8. ASSUME NEW d \in {"kill", "quarantine", "dry-run", "release"}, AskControl(d) PROVE PageInv'
  BY <1>8 DEF AskControl, Idles, PageInv, Minded, MindedSaves, UntouchedIsShown, DialogFitsStatus
<1>9. CASE CloseControl
  BY <1>9 DEF CloseControl, Idles, PageInv, Minded, MindedSaves, UntouchedIsShown, DialogFitsStatus
<1>10. CASE ConfirmControl
  <2>1. ~skeleton /\ control \in ControlsFor(agentShown.status)
    BY <1>10 DEF ConfirmControl, PageInv, DialogFitsStatus
  <2>2. control # "save"
    BY <2>1 DEF ControlsFor
  <2> QED
    BY <1>10, <2>1, <2>2, SendKeeps DEF ConfirmControl
<1>11. CASE handlePause \/ handleResume \/ ConfirmDelete \/ Steer
  BY <1>11, SendKeeps DEF handlePause, handleResume, ConfirmDelete, Steer
<1>12. CASE AskDelete \/ CancelDelete
  BY <1>12 DEF AskDelete, CancelDelete, Idles, PageInv, Minded, MindedSaves, UntouchedIsShown,
       DialogFitsStatus
<1>13. ASSUME NEW p \in posts, Effect(p) PROVE PageInv'
  <2> DEFINE q == [p EXCEPT !.done = TRUE]
  <2>1. /\ posts' = (posts \ {p}) \cup {q}
        /\ UNCHANGED <<agentShown, skeleton, liveState, editor, control, removal>>
    BY <1>13 DEF Effect
  <2>2. DOMAIN q = {"op", "prompt", "mine", "done"} /\ q.mine = p.mine /\ q.op = p.op
    BY DEF PageInv
  <2> HIDE DEF q
  <2>3. Minded = {} => Minded' = {}
    BY <2>1, <2>2 DEF Minded
  <2>4. MindedSaves' # {} => MindedSaves # {}
    BY <2>1, <2>2 DEF MindedSaves
  <2>5. \A a, b \in MindedSaves' : a = b
    BY <2>1, <2>2 DEF MindedSaves, PageInv
  <2> QED
    BY <2>1, <2>2, <2>3, <2>4, <2>5 DEF PageInv, UntouchedIsShown, DialogFitsStatus
<1>14. ASSUME NEW p \in posts, Succeeds(p) PROVE PageInv'
  BY <1>14, OrphansAreNotMinded, ReloadKeeps DEF Succeeds, PageInv
<1>15. ASSUME NEW p \in posts, Reported(p) PROVE PageInv'
  BY <1>15, AnswerKeeps DEF Reported, Idles
<1>16. ASSUME NEW p \in posts, Leaves(p) PROVE PageInv'
  BY <1>16, ReloadKeeps DEF Leaves
<1>17. ASSUME NEW p \in posts, AnswerFails(p) PROVE PageInv'
  <2>1. CASE ~(p.op = "save" /\ p.mine)
    BY <1>17, <2>1, AnswerKeeps DEF AnswerFails
  <2>2. CASE p.op = "save" /\ p.mine
    <3>1. p \in MindedSaves /\ Minded # {}
      BY <2>2 DEF MindedSaves, Minded
    <3>2. /\ posts' = posts \ {p} /\ editor' = [editor EXCEPT !.at = "edit"] /\ Idles
          /\ UNCHANGED control /\ editor.at = "saving" /\ ~skeleton
      BY <1>17, <2>2, <3>1 DEF AnswerFails, Answers, PageInv
    <3>3. MindedSaves' = {}
      BY <3>1, <3>2 DEF MindedSaves, PageInv
    <3> QED
      BY <3>2, <3>3 DEF PageInv, Idles, UntouchedIsShown, DialogFitsStatus
  <2> QED
    BY <2>1, <2>2
<1>18. ASSUME NEW a, OthersEdit(a) PROVE PageInv'
  BY <1>18 DEF OthersEdit, PageInv, Minded, MindedSaves, UntouchedIsShown, DialogFitsStatus
<1>19. CASE UNCHANGED pageVars
  BY <1>19 DEF pageVars, PageInv, Minded, MindedSaves, UntouchedIsShown, DialogFitsStatus
<1> QED
  BY <1>1, <1>2, <1>3, <1>4, <1>5, <1>6, <1>7, <1>8, <1>9, <1>10, <1>11, <1>12, <1>13, <1>14,
     <1>15, <1>16, <1>17, <1>18, <1>19 DEF PageNext

LEMMA PageSound == PageInv => UntouchedIsShown /\ DialogFitsStatus
BY DEF PageInv

(*****************************************************************************)
(* The modal that deploys an agent.                                          *)
(*****************************************************************************)

LEMMA AgentFormsStart == AgentFormsInit => ModalStands /\ BoundOrTold
BY DEF AgentFormsInit, ModalStands, BoundOrTold

LEMMA AgentFormsStep ==
  ModalStands /\ BoundOrTold /\ [AgentFormsNext]_agentFormVars => ModalStands' /\ BoundOrTold'
<1> SUFFICES ASSUME ModalStands, BoundOrTold, [AgentFormsNext]_agentFormVars
             PROVE  ModalStands' /\ BoundOrTold'
  OBVIOUS
<1>1. CASE OpenDeploy \/ handleClose \/ InsertAgent \/ GoesBinding \/ NextName
  BY <1>1 DEF OpenDeploy, handleClose, InsertAgent, GoesBinding, NextName, ModalStands, BoundOrTold
<1>2. CASE Deployed \/ CreateFails
  BY <1>2 DEF Deployed, CreateFails, ModalStands, BoundOrTold
<1>3. ASSUME NEW b \in BOOLEAN, handleSubmit(b) PROVE ModalStands' /\ BoundOrTold'
  BY <1>3 DEF handleSubmit, ModalStands, BoundOrTold
<1>4. ASSUME NEW done \in BOOLEAN, NEW ok \in BOOLEAN, BindAgent(done, ok)
      PROVE  ModalStands' /\ BoundOrTold'
  BY <1>4 DEF BindAgent, ModalStands, BoundOrTold
<1>5. CASE UNCHANGED deployVars
  BY <1>5 DEF deployVars, ModalStands, BoundOrTold
<1>6. UNCHANGED agentFormVars => UNCHANGED deployVars
  BY DEF agentFormVars, deployVars
<1> QED
  BY <1>1, <1>2, <1>3, <1>4, <1>5, <1>6 DEF AgentFormsNext

(*****************************************************************************)
(* The users of an agent.                                                    *)
(*****************************************************************************)

\* A grant is made only where none was, and taken back only where one is.
GrantsInv == grant \in [Users -> {"none", "active", "revoked"}]

LEMMA UsersStart == UsersInit => GrantsInv
BY DEF UsersInit, GrantsInv

\* What each step does to the grants.
LEMMA GrantsMove ==
  ASSUME UsersNext
  PROVE  \/ UNCHANGED grant
         \/ \E u \in Users : grant' = [grant EXCEPT ![u] = "revoked"]
         \/ \E u \in Users : grant[u] = "none" /\ grant' = [grant EXCEPT ![u] = "active"]
<1>1. ASSUME NEW p \in fetching, UsersArrive(p) \/ UsersFail(p) PROVE UNCHANGED grant
  BY <1>1 DEF UsersArrive, UsersFail
<1>2. ASSUME NEW p \in 0 .. Cardinality(Users), TurnPage(p) PROVE UNCHANGED grant
  BY <1>2 DEF TurnPage
<1>3. ASSUME NEW u \in Users, AskRevoke(u) \/ handleRevoke(u) \/ RevokeFails(u)
        PROVE UNCHANGED grant
  BY <1>3 DEF AskRevoke, handleRevoke, RevokeFails
<1>4. ASSUME NEW u \in Users, Revoked(u) PROVE grant' = [grant EXCEPT ![u] = "revoked"]
  BY <1>4 DEF Revoked
<1>5. ASSUME CancelRevoke \/ OpenInvite \/ CloseInvite \/ SendInvite \/ InviteFails
      PROVE  UNCHANGED grant
  BY <1>5 DEF CancelRevoke, OpenInvite, CloseInvite, SendInvite, InviteFails
<1>6. ASSUME NEW u \in Users, Invited(u)
      PROVE  grant[u] = "none" /\ grant' = [grant EXCEPT ![u] = "active"]
  BY <1>6 DEF Invited
<1>7. ASSUME NEW u \in Users, handleResolve(u) \/ ResolveFails(u) PROVE UNCHANGED grant
  BY <1>7 DEF handleResolve, ResolveFails
<1>8. ASSUME NEW u \in Users, NEW a \in BOOLEAN, PatchRequest(u, a)
      PROVE  \/ UNCHANGED grant
             \/ grant[u] = "none" /\ grant' = [grant EXCEPT ![u] = "active"]
  BY <1>8 DEF PatchRequest
<1> QED
  BY <1>1, <1>2, <1>3, <1>4, <1>5, <1>6, <1>7, <1>8 DEF UsersNext

LEMMA UsersStep == GrantsInv /\ [UsersNext]_usersVars => GrantsInv'
<1> SUFFICES ASSUME GrantsInv, [UsersNext]_usersVars PROVE GrantsInv'
  OBVIOUS
<1>1. CASE UsersNext
  BY <1>1, GrantsMove DEF GrantsInv
<1>2. CASE UNCHANGED usersVars
  BY <1>2 DEF usersVars, GrantsInv
<1> QED
  BY <1>1, <1>2

LEMMA WithdrawnIsKept ==
  GrantsInv /\ [UsersNext]_usersVars =>
    [\A u \in Users : grant[u] = "revoked" => grant'[u] = "revoked"]_usersVars
BY GrantsMove DEF GrantsInv

LEMMA InviteStarts == UsersInit => InviteStands
BY DEF UsersInit, InviteStands

LEMMA InviteSteps == InviteStands /\ [UsersNext]_usersVars => InviteStands'
<1> SUFFICES ASSUME InviteStands, [UsersNext]_usersVars PROVE InviteStands'
  OBVIOUS
<1>1. CASE UNCHANGED inviteVars
  BY <1>1 DEF inviteVars, InviteStands
<1>2. CASE OpenInvite \/ CloseInvite \/ SendInvite \/ InviteFails
  BY <1>2 DEF OpenInvite, CloseInvite, SendInvite, InviteFails, InviteStands
<1>3. ASSUME NEW u \in Users, Invited(u) PROVE InviteStands'
  BY <1>3 DEF Invited, InviteStands
<1>4. UNCHANGED usersVars => UNCHANGED inviteVars
  BY DEF usersVars, inviteVars
<1> QED
  BY <1>1, <1>2, <1>3, <1>4 DEF UsersNext

(*****************************************************************************)
(* The drawer with the details of a job, and the jobs page.                  *)
(*****************************************************************************)

\* A row tells why it failed, so what the drawer loaded does; the drawer has the details of its
\* job, or awaits them, or was given others.
JobDrawerInv ==
  /\ DOMAIN row = DrawerJobs
  /\ \A j \in DrawerJobs : DOMAIN row[j] = {"status", "error", "result"}
  /\ \A j \in DrawerJobs : row[j].status \in FailedRows => row[j].error # "none"
  /\ FailureIsExplained
  /\ pickedJob # NoJob => details.of = pickedJob \/ pickedJob \in loadingJobs \/ handedOver
  /\ retryAt = "asking" => pickedJob # NoJob /\ details.status \in FailedRows

LEMMA JobDrawerStarts == DrawerInit => JobDrawerInv
BY DEF DrawerInit, JobDrawerInv, FailureIsExplained, NoDetails, FailedRows

\* A statement on a row writes an error with a failure.
LEMMA WriteExplains ==
  ASSUME JobDrawerInv, NEW j \in DrawerJobs, NEW s, NEW e, NEW r, Write(j, s, e, r),
         s \in FailedRows => e # "none"
  PROVE  JobDrawerInv'
<1>1. /\ row' = [row EXCEPT ![j] = [status |-> s, error |-> e, result |-> r]]
      /\ UNCHANGED <<pickedJob, details, loadingJobs, handedOver, retryAt, retryOf>>
  BY DEF Write
<1> QED
  BY <1>1 DEF JobDrawerInv, FailureIsExplained

LEMMA JobDrawerSteps == JobDrawerInv /\ [DrawerNext]_drawerVars => JobDrawerInv'
<1> SUFFICES ASSUME JobDrawerInv, [DrawerNext]_drawerVars PROVE JobDrawerInv'
  OBVIOUS
<1>1. ASSUME NEW j \in DrawerJobs, Proceeds(j) PROVE JobDrawerInv'
  BY <1>1, WriteExplains DEF Proceeds, FailedRows
<1>2. ASSUME NEW j \in DrawerJobs, NEW s \in FailedRows, FailsWith(j, s) PROVE JobDrawerInv'
  BY <1>2, WriteExplains DEF FailsWith
<1>3. ASSUME NEW j \in DrawerJobs, NEW o \in DOMAIN mapExecutionStatus, NEW e \in BOOLEAN,
             Settles(j, o, e)
      PROVE  JobDrawerInv'
  <2>1. mapExecutionStatus[o] \in FailedRows => executionErrorToJobError(o, e) # "none"
    BY DEF mapExecutionStatus, FailedRows, executionErrorToJobError
  <2> QED
    BY <1>3, <2>1, WriteExplains DEF Settles
<1>4. ASSUME NEW j \in DrawerJobs, MarkedRetrying(j) PROVE JobDrawerInv'
  BY <1>4 DEF MarkedRetrying, JobDrawerInv, FailureIsExplained, FailedRows
<1>5. ASSUME NEW j \in DrawerJobs, PickJob(j) PROVE JobDrawerInv'
  BY <1>5 DEF PickJob, JobDrawerInv, FailureIsExplained
<1>6. ASSUME NEW j \in DrawerJobs, DetailsArrive(j) PROVE JobDrawerInv'
  BY <1>6 DEF DetailsArrive, JobDetails, ButtonFor, JobDrawerInv, FailureIsExplained
<1>7. ASSUME NEW j \in DrawerJobs, DetailsFail(j) PROVE JobDrawerInv'
  BY <1>7 DEF DetailsFail, JobDrawerInv, FailureIsExplained
<1>8. ASSUME NEW j \in DrawerJobs, RetryEnds(j) PROVE JobDrawerInv'
  BY <1>8 DEF RetryEnds, JobDrawerInv, FailureIsExplained
<1>9. CASE CloseDrawer
  BY <1>9 DEF CloseDrawer, ButtonFor, JobDrawerInv, FailureIsExplained
<1>10. CASE AskDrawerRetry \/ CancelDrawerRetry \/ ConfirmDrawerRetry
  BY <1>10 DEF AskDrawerRetry, CancelDrawerRetry, ConfirmDrawerRetry, canRetryPicked, JobDrawerInv,
       FailureIsExplained
<1>11. CASE UNCHANGED drawerVars
  BY <1>11 DEF drawerVars, JobDrawerInv, FailureIsExplained
<1> QED
  BY <1>1, <1>2, <1>3, <1>4, <1>5, <1>6, <1>7, <1>8, <1>9, <1>10, <1>11 DEF DrawerNext

LEMMA JobDrawerSound == JobDrawerInv => FailureIsExplained /\ RetryIsOfFailed
BY DEF JobDrawerInv, RetryIsOfFailed

\* The row's button stands over a failure, and an accepted retry is in the queue.
JobsDeskInv ==
  /\ retryPosts \in [Posts -> {"none", "sent", "marked", "accepted", "lost"}]
  /\ \A p \in Posts : retryPosts[p] = "accepted" => p \in queued
  /\ ConfirmStands /\ RetriedIsQueued

LEMMA JobsDeskStarts == JobsDeskInit => JobsDeskInv
BY DEF JobsDeskInit, JobsDeskInv, ConfirmStands, RetriedIsQueued

LEMMA JobsDeskSteps == JobsDeskInv /\ [JobsDeskNext]_jobsDeskVars => JobsDeskInv'
<1> SUFFICES ASSUME JobsDeskInv, [JobsDeskNext]_jobsDeskVars PROVE JobsDeskInv'
  OBVIOUS
<1> USE DEF JobsDeskInv, ConfirmStands, RetriedIsQueued, retryButton, jobsDesk
<1>1. CASE handleRefresh \/ ToggleExport
  BY <1>1 DEF handleRefresh, ToggleExport
<1>2. CASE AskRetry \/ CancelRetry \/ MarkFades
  BY <1>2 DEF AskRetry, CancelRetry, MarkFades, canRetry
<1>3. CASE JobMoves
  BY <1>3 DEF JobMoves
<1>4. ASSUME NEW f \in StatusFilters, JobsArrive(f) PROVE JobsDeskInv'
  BY <1>4 DEF JobsArrive, ShowRow
<1>5. ASSUME NEW f \in StatusFilters, JobsFail(f) \/ handleStatusFilter(f) PROVE JobsDeskInv'
  BY <1>5 DEF JobsFail, handleStatusFilter
<1>6. ASSUME NEW p \in Posts, RetryRow(p) PROVE JobsDeskInv'
  BY <1>6 DEF RetryRow, canRetry
<1>7. ASSUME NEW p \in Posts, RetryAnswered(p) PROVE JobsDeskInv'
  BY <1>7 DEF RetryAnswered, TellRow
<1>8. ASSUME NEW p \in Posts, RetryRefused(p) PROVE JobsDeskInv'
  BY <1>8 DEF RetryRefused, TellRow
<1>9. ASSUME NEW p \in Posts, MarkRetry(p) \/ EnqueueRetry(p) PROVE JobsDeskInv'
  BY <1>9 DEF MarkRetry, EnqueueRetry
<1>10. CASE UNCHANGED jobsDeskVars
  BY <1>10 DEF jobsDeskVars
<1> QED
  BY <1>1, <1>2, <1>3, <1>4, <1>5, <1>6, <1>7, <1>8, <1>9, <1>10 DEF JobsDeskNext

(*****************************************************************************)
(* The page of an MCP server.                                                *)
(*****************************************************************************)

\* What a form holds, or saves, is no deleted row; a form that was not touched follows the page,
\* also while the page shows an error.
McpPageInv ==
  /\ mcpForm \in [open : BOOLEAN, fields : {NoFields} \cup Contents, typed : BOOLEAN,
                  saving : {NoFields} \cup Contents, told : BOOLEAN]
  /\ mcpRow \in {GoneRow} \cup Contents /\ mcpShown \in {NoFields} \cup Contents
  /\ ~mcpForm.typed => mcpForm.fields = mcpShown
  /\ DeletionStands

LEMMA McpPageStarts == McpPageInit => McpPageInv
BY ContentsAssumption DEF McpPageInit, McpPageInv, initialState, NoFields, GoneRow, DeletionStands

LEMMA McpPageSteps == McpPageInv /\ [McpPageNext]_mcpPageVars => McpPageInv'
<1> SUFFICES ASSUME McpPageInv, [McpPageNext]_mcpPageVars PROVE McpPageInv'
  OBVIOUS
<1> USE DEF McpPageInv, DeletionStands, deletionVars
<1>1. CASE ServerArrives
  BY <1>1 DEF ServerArrives, TakeOver
<1>2. CASE ServerFails
  BY <1>2 DEF ServerFails, initialState
<1>3. CASE RetryLoad
  BY <1>3 DEF RetryLoad
<1>4. CASE OpenEdit
  BY <1>4 DEF OpenEdit, EditForm, loadVars
<1>5. CASE CloseEdit
  BY <1>5 DEF CloseEdit, EditForm, loadVars
<1>6. CASE SaveEdit
  <2>1. \/ mcpForm' = [mcpForm EXCEPT !.saving = mcpForm.fields, !.told = FALSE]
        \/ mcpForm' = [mcpForm EXCEPT !.told = TRUE]
    BY <1>6 DEF SaveEdit, EditForm
  <2>2. UNCHANGED <<mcpRow, mcpShown, deletion, toldDeletion>>
    BY <1>6 DEF SaveEdit, EditForm, loadVars
  <2> QED
    BY <2>1, <2>2
<1>7. CASE EditSaved
  BY <1>7, ContentsAssumption DEF EditSaved, NoFields, GoneRow
<1>8. CASE EditFails
  BY <1>8 DEF EditFails, EditForm, loadVars
<1>9. CASE handleRefreshTools \/ RefreshPosted \/ RefreshFails
  BY <1>9 DEF handleRefreshTools, RefreshPosted, RefreshFails, loadVars
<1>10. CASE AskDeletion \/ CancelDeletion \/ ConfirmDeletion
  BY <1>10 DEF AskDeletion, CancelDeletion, ConfirmDeletion, Buttons, DeletionIs, Untold, loadVars
<1>11. CASE DeletedRow \/ DeletionAnswered \/ DeletionFails
  BY <1>11 DEF DeletedRow, DeletionAnswered, DeletionFails, DeletionIs, Untold, loadVars
<1>12. CASE OthersWrite
  BY <1>12, ContentsAssumption DEF OthersWrite, loadVars, GoneRow
<1>13. ASSUME NEW c \in Contents, updateField(c) PROVE McpPageInv'
  BY <1>13 DEF updateField, EditForm, loadVars
<1>14. CASE UNCHANGED mcpPageVars
  BY <1>14 DEF mcpPageVars
<1> QED
  BY <1>1, <1>2, <1>3, <1>4, <1>5, <1>6, <1>7, <1>8, <1>9, <1>10, <1>11, <1>12, <1>13, <1>14
     DEF McpPageNext

LEMMA McpPageSound == McpPageInv => UntouchedFollows /\ DeletionStands
BY DEF McpPageInv, UntouchedFollows

(*****************************************************************************)
(* What the cluster holds for the servers of one slug.                       *)
(*****************************************************************************)

DeployStates ==
  {Ended} \cup [step : {"replace", "create"}, kind : Kinds]
          \cup [step : {"wait", "ready", "failed"}, kind : Kinds \cup {"none"}]

\* The servers that their own deployments made ACTIVE.
OwnActive == mcpActive \ asserted

\* One server of the slug is registered at a time, and is deployed once; only of deleted ones
\* resources are torn down.
SlugInv ==
  /\ registered \in [InCluster -> {"no", "present", "deleted"}]
  /\ deployment \in [InCluster -> DeployStates]
  /\ cluster \in [Kinds -> InCluster \cup {NoServer}]
  /\ \A s, o \in InCluster : registered[s] = "present" /\ registered[o] = "present" => s = o
  /\ \A s \in InCluster : s \in deletions => registered[s] = "present"
  /\ \A s \in InCluster : deployment[s] # Ended => registered[s] # "no"
  /\ \A s \in InCluster : s \in OwnActive => registered[s] # "no" /\ deployment[s] = Ended
  /\ \A s \in InCluster, k \in Kinds : <<s, k>> \in teardowns => registered[s] = "deleted"

Earlier(k) ==
  IF k = "account" THEN {} ELSE IF k = "deployment" THEN {"account"} ELSE {"account", "deployment"}

\* How much of what a server's deployment has to write bears the server.
WrittenSoFar(s) ==
  /\ s \in OwnActive \/ deployment[s].step \in {"wait", "ready"} => \A k \in Kinds : cluster[k] = s
  /\ deployment[s].step \in {"replace", "create"} =>
       \A k \in Earlier(deployment[s].kind) : cluster[k] = s

\* While a server is there that overlapped with no other's request, it is alone at work.
AloneInv ==
  \A s \in InCluster : registered[s] = "present" /\ s \notin overlapped =>
    /\ \A o \in InCluster : o # s => deployment[o] = Ended
         /\ \A k \in Kinds : <<o, k>> \notin teardowns
    /\ WrittenSoFar(s)

\* What a deleted server has left is being torn down, unless its deletion is excused.
LeftInv ==
  \A s \in InCluster : registered[s] = "deleted" /\ s \notin excused =>
    deployment[s] = Ended /\ \A k \in Kinds : cluster[k] = s => <<s, k>> \in teardowns

ClusterInv == SlugInv /\ AloneInv /\ LeftInv

LEMMA ClusterStarts == ClusterInit => ClusterInv
  BY InClusterAssumption
  DEF ClusterInit, ClusterInv, SlugInv, AloneInv, LeftInv, DeployStates, Ended, OwnActive

\* What is read of a deployment.
LEMMA DeploymentReads ==
  ASSUME SlugInv, NEW s \in InCluster
  PROVE  /\ deployment[s].step # "ended" => deployment[s] # Ended /\ registered[s] # "no"
         /\ deployment[s].step \in {"replace", "create"} => deployment[s].kind \in Kinds
         /\ deployment[s] \in DeployStates
<1>1. deployment[s] \in DeployStates
  BY DEF SlugInv
<1>2. deployment[s].step # "ended" => deployment[s] # Ended
  BY DEF Ended
<1>3. deployment[s].step \in {"replace", "create"} => deployment[s].kind \in Kinds
  BY <1>1 DEF DeployStates, Ended
<1> QED
  BY <1>1, <1>2, <1>3 DEF SlugInv

\* A deployment moves on from a step that is not its end, and writes at most one resource, its own.
LEMMA DeploymentMoves ==
  ASSUME ClusterInv, NEW s \in InCluster, deployment[s] # Ended,
         NEW new \in DeployStates, deployment' = [deployment EXCEPT ![s] = new],
         \/ cluster' = cluster
         \/ \E k \in Kinds : cluster' = [cluster EXCEPT ![k] = s],
         UNCHANGED <<registered, deletions, teardowns, excused, overlapped>>,
         \/ OwnActive' \in {OwnActive, OwnActive \ {s}}
         \/ new = Ended /\ OwnActive' = OwnActive \cup {s},
         registered[s] = "present" /\ s \notin overlapped => WrittenSoFar(s)'
  PROVE  ClusterInv'
<1>1. \A o \in InCluster : deployment'[o] = IF o = s THEN new ELSE deployment[o]
  BY DEF ClusterInv, SlugInv
<1>2. cluster' \in [Kinds -> InCluster \cup {NoServer}]
      /\ \A k \in Kinds : cluster'[k] = cluster[k] \/ cluster'[k] = s
  BY DEF ClusterInv, SlugInv
<1>3. registered[s] # "no"
  BY DEF ClusterInv, SlugInv
<1>4. SlugInv'
  <2>1. deployment' \in [InCluster -> DeployStates]
    BY DEF ClusterInv, SlugInv
  <2>2. \A o \in InCluster : o \in OwnActive' => registered'[o] # "no" /\ deployment'[o] = Ended
    BY <1>1, <1>3 DEF ClusterInv, SlugInv
  <2>3. \A o \in InCluster : deployment'[o] # Ended => registered'[o] # "no"
    BY <1>1, <1>3 DEF ClusterInv, SlugInv
  <2> QED
    BY <1>2, <2>1, <2>2, <2>3 DEF ClusterInv, SlugInv
<1>5. AloneInv'
  <2> SUFFICES ASSUME NEW o \in InCluster, registered[o] = "present", o \notin overlapped
               PROVE  /\ \A p \in InCluster : p # o =>
                           deployment'[p] = Ended /\ \A k \in Kinds : <<p, k>> \notin teardowns'
                      /\ WrittenSoFar(o)'
    BY DEF AloneInv
  <2>1. o = s
    BY DEF ClusterInv, AloneInv
  <2> QED
    BY <1>1, <2>1 DEF ClusterInv, AloneInv
<1>6. LeftInv'
  BY <1>1, <1>2 DEF ClusterInv, LeftInv
<1> QED
  BY <1>4, <1>5, <1>6 DEF ClusterInv

\* A resource is written, and the deployment goes on with the next one.
LEMMA WrittenKeeps ==
  ASSUME ClusterInv, NEW s \in InCluster, deployment[s].step \in {"replace", "create"},
         Written(s, deployment[s].kind)
  PROVE  ClusterInv'
<1> DEFINE k == deployment[s].kind
<1>1. /\ k \in Kinds /\ deployment[s] # Ended
      /\ registered[s] = "present" /\ s \notin overlapped => \A e \in Earlier(k) : cluster[e] = s
  BY DeploymentReads DEF ClusterInv, AloneInv, WrittenSoFar
<1>2. /\ cluster' = [cluster EXCEPT ![k] = s]
      /\ UNCHANGED <<registered, OwnActive, deletions, teardowns, excused, overlapped>>
  BY DEF Written, Deploys, OwnActive
<1>3. cluster'[k] = s /\ \A e \in Kinds : e # k => cluster'[e] = cluster[e]
  BY <1>1, <1>2 DEF ClusterInv, SlugInv
<1>4. s \notin OwnActive
  BY <1>1 DEF ClusterInv, SlugInv
<1>5. CASE k = "service"
  <2>1. NextKind[k] = "none"
    BY <1>5 DEF NextKind
  <2>2. PICK new : /\ new = [step |-> "wait", kind |-> "none"]
                   /\ deployment' = [deployment EXCEPT ![s] = new]
    BY <2>1 DEF Written, Deploys
  <2>3. new \in DeployStates /\ new.step = "wait"
    BY <2>2 DEF DeployStates
  <2>4. deployment'[s] = new
    BY <2>2 DEF ClusterInv, SlugInv
  <2>5. registered[s] = "present" /\ s \notin overlapped => WrittenSoFar(s)'
    BY <1>1, <1>3, <1>5, <2>3, <2>4 DEF WrittenSoFar, Earlier, Kinds
  <2> QED
    BY <1>1, <1>2, <2>2, <2>3, <2>5, DeploymentMoves
<1>6. CASE k # "service"
  <2>1. /\ NextKind[k] \in Kinds /\ NextKind[k] # "none"
        /\ \A e \in Earlier(NextKind[k]) : e \in Kinds /\ (e \in Earlier(k) \/ e = k)
    BY <1>1, <1>6 DEF NextKind, Kinds, Earlier
  <2>2. PICK new : /\ new = [step |-> "replace", kind |-> NextKind[k]]
                   /\ deployment' = [deployment EXCEPT ![s] = new]
    BY <2>1 DEF Written, Deploys
  <2>3. new \in DeployStates /\ new.step = "replace" /\ new.kind = NextKind[k]
    BY <2>1, <2>2 DEF DeployStates
  <2>4. deployment'[s] = new
    BY <2>2 DEF ClusterInv, SlugInv
  <2>5. registered[s] = "present" /\ s \notin overlapped => WrittenSoFar(s)'
    BY <1>1, <1>2, <1>3, <1>4, <2>1, <2>3, <2>4 DEF WrittenSoFar
  <2> QED
    BY <1>1, <1>2, <2>2, <2>3, <2>5, DeploymentMoves
<1> QED
  BY <1>5, <1>6

\* Nothing is written, and the deployment fails, or goes on with as much as there is.
LEMMA DeploysKeeps ==
  ASSUME ClusterInv, NEW s \in InCluster, NEW step, NEW kind, Deploys(s, step, kind),
         UNCHANGED cluster,
         \/ step = "failed" /\ kind \in Kinds \cup {"none"} /\ deployment[s].step # "ended"
         \/ step = "create" /\ deployment[s].step = "replace" /\ kind = deployment[s].kind
         \/ step = "ready" /\ deployment[s].step = "wait" /\ kind = "none"
  PROVE  ClusterInv'
<1>1. PICK new : /\ new = [step |-> step, kind |-> kind]
                 /\ deployment' = [deployment EXCEPT ![s] = new]
  BY DEF Deploys
<1>2. /\ deployment[s] # Ended /\ (deployment[s].step = "replace" => deployment[s].kind \in Kinds)
  BY DeploymentReads DEF ClusterInv
<1>3. new \in DeployStates /\ new.step = step /\ new.kind = kind
  BY <1>1, <1>2 DEF DeployStates
<1>4. deployment'[s] = new /\ s \notin OwnActive
  BY <1>1, <1>2 DEF ClusterInv, SlugInv
<1>5. UNCHANGED <<registered, OwnActive, deletions, teardowns, excused, overlapped>>
  BY DEF Deploys, OwnActive
<1>6. registered[s] = "present" /\ s \notin overlapped => WrittenSoFar(s)'
  BY <1>3, <1>4, <1>5 DEF ClusterInv, AloneInv, WrittenSoFar
<1> QED
  BY <1>1, <1>2, <1>3, <1>5, <1>6, DeploymentMoves

LEMMA DeploymentSteps ==
  ASSUME ClusterInv, NEW s \in InCluster,
         ReplaceResource(s) \/ CreateResource(s) \/ waitForReady(s) \/ MarkDeployed(s)
  PROVE  ClusterInv'
<1>1. deployment[s].step \in {"replace", "create"} => deployment[s].kind \in Kinds
  BY DeploymentReads DEF ClusterInv
<1>2. CASE ReplaceResource(s)
  BY <1>2, WrittenKeeps, DeploysKeeps DEF ReplaceResource
<1>3. CASE CreateResource(s)
  BY <1>1, <1>3, WrittenKeeps, DeploysKeeps DEF CreateResource
<1>4. CASE waitForReady(s)
  BY <1>4, DeploysKeeps DEF waitForReady
<1>5. CASE MarkDeployed(s)
  <2>1. deployment[s] # Ended /\ Ended \in DeployStates /\ Ended.step = "ended"
    BY <1>5, DeploymentReads DEF ClusterInv, MarkDeployed, DeployStates, Ended
  <2>2. /\ deployment' = [deployment EXCEPT ![s] = Ended]
        /\ UNCHANGED <<registered, cluster, deletions, teardowns, excused, overlapped>>
    BY <1>5 DEF MarkDeployed
  <2>3. \/ OwnActive' \in {OwnActive, OwnActive \ {s}}
        \/ OwnActive' = OwnActive \cup {s} /\ deployment[s].step = "ready"
    BY <1>5 DEF MarkDeployed, OwnActive
  <2>4. registered[s] = "present" /\ s \notin overlapped => WrittenSoFar(s)'
    <3>1. deployment'[s] = Ended
      BY <2>2 DEF ClusterInv, SlugInv
    <3> QED
      BY <2>1, <2>2, <2>3, <3>1 DEF ClusterInv, AloneInv, WrittenSoFar
  <2> QED
    BY <2>1, <2>2, <2>3, <2>4, DeploymentMoves
<1> QED
  BY <1>2, <1>3, <1>4, <1>5

LEMMA RegisterKeeps ==
  ASSUME ClusterInv, NEW s \in InCluster, Register(s)
  PROVE  ClusterInv'
<1>1. PICK new : /\ new = [step |-> "replace", kind |-> "account"]
                 /\ deployment' = [deployment EXCEPT ![s] = new]
  BY DEF Register
<1>2. new \in DeployStates /\ new.step = "replace" /\ new.kind = "account" /\ new # Ended
  BY <1>1 DEF DeployStates, Kinds, Ended
<1>3. /\ registered[s] = "no" /\ \A o \in InCluster : registered[o] # "present"
      /\ registered' = [registered EXCEPT ![s] = "present"]
      /\ UNCHANGED <<OwnActive, cluster, deletions, teardowns, excused>>
      /\ overlapped \subseteq overlapped' /\ (s \notin overlapped' => AtWork = {})
  BY DEF Register, OwnActive
<1>4. /\ \A o \in InCluster : registered'[o] = IF o = s THEN "present" ELSE registered[o]
      /\ \A o \in InCluster : deployment'[o] = IF o = s THEN new ELSE deployment[o]
      /\ registered' \in [InCluster -> {"no", "present", "deleted"}]
      /\ deployment' \in [InCluster -> DeployStates]
  BY <1>1, <1>2, <1>3 DEF ClusterInv, SlugInv
<1>5. s \notin OwnActive /\ \A k \in Kinds : <<s, k>> \notin teardowns
  BY <1>3 DEF ClusterInv, SlugInv
<1>6. SlugInv'
  BY <1>3, <1>4, <1>5 DEF ClusterInv, SlugInv
<1>7. AloneInv'
  <2> SUFFICES ASSUME NEW o \in InCluster, registered'[o] = "present", o \notin overlapped'
               PROVE  /\ \A p \in InCluster : p # o =>
                           deployment'[p] = Ended /\ \A k \in Kinds : <<p, k>> \notin teardowns'
                      /\ WrittenSoFar(o)'
    BY DEF AloneInv
  <2>1. o = s
    BY <1>3, <1>4
  <2>2. \A p \in InCluster : deployment[p] = Ended /\ \A k \in Kinds : <<p, k>> \notin teardowns
    BY <1>3, <2>1 DEF AtWork
  <2>3. WrittenSoFar(s)'
    BY <1>2, <1>3, <1>4, <1>5 DEF WrittenSoFar, Earlier
  <2> QED
    BY <1>3, <1>4, <2>1, <2>2, <2>3
<1>8. LeftInv'
  BY <1>3, <1>4 DEF ClusterInv, LeftInv
<1> QED
  BY <1>6, <1>7, <1>8 DEF ClusterInv

LEMMA DeleteKeeps ==
  ASSUME ClusterInv, NEW s \in InCluster, DeleteServer(s)
  PROVE  ClusterInv'
<1>1. /\ registered[s] = "present" /\ registered' = [registered EXCEPT ![s] = "deleted"]
      /\ UNCHANGED <<cluster, deployment, overlapped>> /\ OwnActive' \subseteq OwnActive
      /\ deletions' = deletions \ {s}
      /\ \A o \in InCluster, k \in Kinds :
           <<o, k>> \in teardowns' => <<o, k>> \in teardowns \/ o = s
      /\ teardowns \subseteq teardowns' /\ excused \subseteq excused'
  BY DEF DeleteServer, ClusterInv, SlugInv, OwnActive
<1>2. /\ \A o \in InCluster : registered'[o] = IF o = s THEN "deleted" ELSE registered[o]
      /\ registered' \in [InCluster -> {"no", "present", "deleted"}]
  BY <1>1 DEF ClusterInv, SlugInv
<1>3. s \notin excused' => deployment[s] = Ended /\ \A k \in Kinds : <<s, k>> \in teardowns'
  BY DEF DeleteServer, AllKinds
<1>4. SlugInv'
  BY <1>1, <1>2 DEF ClusterInv, SlugInv
<1>5. AloneInv'
  BY <1>1, <1>2 DEF ClusterInv, SlugInv, AloneInv
<1>6. LeftInv'
  BY <1>1, <1>2, <1>3 DEF ClusterInv, LeftInv
<1> QED
  BY <1>4, <1>5, <1>6 DEF ClusterInv

LEMMA TearDownKeeps ==
  ASSUME ClusterInv, NEW s \in InCluster, NEW k \in Kinds, TearDown(s, k)
  PROVE  ClusterInv'
<1>1. /\ <<s, k>> \in teardowns /\ registered[s] = "deleted"
      /\ UNCHANGED <<registered, OwnActive, deployment, deletions, overlapped>>
      /\ teardowns' = teardowns \ {<<s, k>>} /\ excused \subseteq excused'
  BY DEF TearDown, ClusterInv, SlugInv, OwnActive
<1>2. /\ cluster' \in [Kinds -> InCluster \cup {NoServer}]
      /\ \A e \in Kinds : cluster'[e] = IF e = k /\ s \notin excused' THEN NoServer
                                        ELSE IF e = k THEN cluster'[k] ELSE cluster[e]
      /\ s \in excused' \/ cluster'[k] = NoServer
      /\ cluster'[k] \in {NoServer, cluster[k]}
  BY DEF TearDown, ClusterInv, SlugInv
<1>3. SlugInv'
  BY <1>1, <1>2 DEF ClusterInv, SlugInv
<1>4. AloneInv'
  <2> SUFFICES ASSUME NEW o \in InCluster, registered[o] = "present", o \notin overlapped
               PROVE  FALSE
    BY <1>1 DEF AloneInv
  <2>1. o # s
    BY <1>1
  <2> QED
    BY <1>1, <2>1 DEF ClusterInv, AloneInv
<1>5. LeftInv'
  <2> SUFFICES ASSUME NEW o \in InCluster, registered[o] = "deleted", o \notin excused',
                      NEW e \in Kinds, cluster'[e] = o
               PROVE  deployment[o] = Ended /\ <<o, e>> \in teardowns'
    BY <1>1 DEF ClusterInv, LeftInv
  <2>1. cluster[e] = o
    BY <1>2, InClusterAssumption
  <2>2. <<o, e>> \in teardowns /\ deployment[o] = Ended
    BY <1>1, <2>1 DEF ClusterInv, LeftInv
  <2>3. <<o, e>> # <<s, k>>
    BY <1>2, InClusterAssumption
  <2> QED
    BY <1>1, <2>2, <2>3
<1> QED
  BY <1>3, <1>4, <1>5 DEF ClusterInv

LEMMA RestartKeeps ==
  ASSUME ClusterInv, Restart
  PROVE  ClusterInv'
<1>1. /\ \A s \in InCluster : deployment'[s] = Ended
      /\ deployment' \in [InCluster -> DeployStates]
      /\ deletions' = {} /\ teardowns' = {} /\ excused \subseteq excused'
      /\ UNCHANGED <<registered, OwnActive, cluster, overlapped>>
  BY DEF Restart, DeployStates, OwnActive
<1>2. SlugInv'
  BY <1>1 DEF ClusterInv, SlugInv
<1>3. AloneInv'
  <2>1. Ended.step = "ended"
    BY DEF Ended
  <2> QED
    BY <1>1, <2>1 DEF ClusterInv, AloneInv, WrittenSoFar
<1>4. LeftInv'
  <2> SUFFICES ASSUME NEW s \in InCluster, registered[s] = "deleted", s \notin excused',
                      NEW k \in Kinds, cluster[k] = s
               PROVE  FALSE
    BY <1>1 DEF LeftInv
  <2>1. <<s, k>> \in teardowns
    BY <1>1 DEF ClusterInv, LeftInv
  <2>2. s \in AtWork
    BY <2>1 DEF AtWork
  <2> QED
    BY <2>2 DEF Restart
<1> QED
  BY <1>2, <1>3, <1>4 DEF ClusterInv

LEMMA ClusterSteps == ClusterInv /\ [ClusterNext]_clusterVars => ClusterInv'
<1> SUFFICES ASSUME ClusterInv, [ClusterNext]_clusterVars PROVE ClusterInv'
  OBVIOUS
<1>1. ASSUME UNCHANGED <<registered, cluster, deployment, teardowns, excused, overlapped>>,
             OwnActive' \subseteq OwnActive,
             \A s \in InCluster : s \in deletions' => s \in deletions \/ registered[s] = "present"
      PROVE  ClusterInv'
  <2>1. SlugInv'
    BY <1>1 DEF ClusterInv, SlugInv
  <2>2. AloneInv'
    BY <1>1 DEF ClusterInv, AloneInv, WrittenSoFar
  <2>3. LeftInv'
    BY <1>1 DEF ClusterInv, LeftInv
  <2> QED
    BY <2>1, <2>2, <2>3 DEF ClusterInv
<1>2. CASE PodsReady \/ UNCHANGED clusterVars
  BY <1>1, <1>2 DEF PodsReady, clusterVars, OwnActive
<1>3. ASSUME NEW s \in InCluster, PutServer(s) \/ DisableServer(s)
      PROVE  ClusterInv'
  BY <1>1, <1>3 DEF PutServer, DisableServer, OwnActive
<1> QED
  BY <1>2, <1>3, RestartKeeps, RegisterKeeps, DeploymentSteps, DeleteKeeps, TearDownKeeps
  DEF ClusterNext

LEMMA ClusterSound == ClusterInv => ActiveIsItsOwn /\ NothingIsLeft
<1> SUFFICES ASSUME ClusterInv PROVE ActiveIsItsOwn /\ NothingIsLeft
  OBVIOUS
<1>1. ActiveIsItsOwn
  BY DEF ClusterInv, AloneInv, WrittenSoFar, ActiveIsItsOwn, OwnActive
<1>2. NothingIsLeft
  BY DEF ClusterInv, LeftInv, NothingIsLeft, AtWork
<1> QED
  BY <1>1, <1>2

(*****************************************************************************)
(* The index of skills and the jobs that take them up.                       *)
(*****************************************************************************)

SkillRows == [mtime : Nat, list : SkillLists]

\* The instructions and the constraints of one reading.
Readings == {r \in [text : SkillLists, constraints : SkillLists] : r.text = r.constraints}

TakingStates ==
  [step : {"idle", "scan", "load", "choose", "resolve", "taken"},
   todo : SUBSET SkillFiles, seen : SUBSET SkillFiles, at : SUBSET SkillFiles,
   list : {NoFile} \cup SkillLists, mtime : {NoFile} \cup Nat,
   offered : SUBSET SkillFiles, loaded : Seq(Readings)]

SkillTypeInv ==
  /\ writes \in Nat
  /\ skillFile \in [SkillFiles -> {NoFile} \cup SkillRows]
  /\ skillEntries \in [SkillFiles -> {NoFile} \cup SkillRows]
  /\ taking \in [SkillJobs -> TakingStates]
  /\ \A j \in SkillJobs : taking[j].step # "load" =>
       taking[j].at = {} /\ taking[j].list = NoFile /\ taking[j].mtime = NoFile
  /\ DOMAIN taskTools = SkillJobs

\* What a load has read of the file of k is what the file says, or was overwritten.
ReadsOf(k, pass) ==
  /\ pass.mtime # NoFile /\ pass.list = NoFile =>
       skillFile[k] # NoFile /\ pass.mtime = skillFile[k].mtime
  /\ pass.mtime = NoFile /\ pass.list # NoFile =>
       skillFile[k] # NoFile /\ pass.list = skillFile[k].list
  /\ /\ pass.mtime # NoFile /\ pass.list # NoFile /\ skillFile[k] # NoFile
     /\ pass.mtime = skillFile[k].mtime
     => pass.list = skillFile[k].list

\* No time of writing is ahead of the clock, so a file that is written again has another.
FreshInv ==
  /\ \A k \in SkillFiles : skillFile[k] # NoFile => skillFile[k].mtime <= writes
  /\ \A k \in SkillFiles : skillEntries[k] # NoFile => skillEntries[k].mtime <= writes
  /\ \A j \in SkillJobs : taking[j].mtime # NoFile => taking[j].mtime <= writes
  /\ \A j \in SkillJobs, k \in SkillFiles \ torn : taking[j].at = {k} => ReadsOf(k, taking[j])
  /\ FreshIsTrue

\* A refresh has every settled skill before it, or has seen it, and then has its entry unless
\* it is loading it.
MeetsSkill(k, pass) ==
  /\ pass.step \in {"scan", "load"} =>
       k \in pass.todo \/ (k \in pass.seen /\ (skillEntries[k] # NoFile \/ pass.at = {k}))
  /\ pass.step = "choose" => skillEntries[k] # NoFile

OfferInv ==
  \A k \in SkillFiles \ unsettled, j \in SkillJobs : skillFile[k] # NoFile =>
    MeetsSkill(k, taking[j])

\* A task has the tools that its agent and the skills it was given leave it.
NarrowInv ==
  \A j \in SkillJobs : taking[j].step = "taken" =>
    taskTools[j] = applySkillConstraints(mergeSkillConstraints(taking[j].loaded))

SkillInv == SkillTypeInv /\ FreshInv /\ OfferInv /\ NarrowInv

LEMMA SkillsStart == SkillInit => SkillInv
<1> SUFFICES ASSUME SkillInit PROVE SkillInv
  OBVIOUS
<1>1. NotTaking \in TakingStates
  BY DEF NotTaking, TakingStates
<1>2. SkillTypeInv
  <2>1. [mtime : {0}, list : SkillLists] \subseteq SkillRows
    BY DEF SkillRows
  <2>2. skillFile \in [SkillFiles -> {NoFile} \cup SkillRows]
    BY <2>1 DEF SkillInit
  <2> QED
    BY <1>1, <2>2 DEF SkillInit, SkillTypeInv, NotTaking
<1>3. FreshInv
  BY DEF SkillInit, FreshInv, FreshIsTrue, UpToDate, ReadsOf, NotTaking
<1>4. OfferInv
  BY DEF SkillInit, OfferInv, MeetsSkill, NotTaking
<1>5. NarrowInv
  BY DEF SkillInit, NarrowInv, NotTaking
<1> QED
  BY <1>2, <1>3, <1>4, <1>5 DEF SkillInv

\* A file that is written has a time of its own; what was read of it before is torn or old.
LEMMA WriteKeeps ==
  ASSUME SkillInv, NEW k \in SkillFiles, WriteSkill(k) \/ DeleteSkill(k)
  PROVE  SkillInv'
<1>1. PICK line \in {NoFile} \cup SkillRows :
        /\ skillFile' = [skillFile EXCEPT ![k] = line]
        /\ line # NoFile => line.mtime = writes + 1
        /\ SkillWritten(k)
  <2>1. CASE WriteSkill(k)
    <3>1. PICK list \in SkillLists :
            /\ skillFile' = [skillFile EXCEPT ![k] = [mtime |-> writes + 1, list |-> list]]
            /\ SkillWritten(k)
      BY <2>1 DEF WriteSkill
    <3>2. [mtime |-> writes + 1, list |-> list] \in SkillRows
      BY DEF SkillRows, SkillInv, SkillTypeInv
    <3> QED
      BY <3>1, <3>2
  <2>2. CASE DeleteSkill(k)
    BY <2>2 DEF DeleteSkill
  <2> QED
    BY <2>1, <2>2
<1>2. SkillTypeInv'
  BY <1>1 DEF SkillInv, SkillTypeInv, SkillWritten
<1>3. FreshInv'
  <2>1. /\ writes' = writes + 1 /\ writes \in Nat
        /\ UNCHANGED <<skillEntries, taking>>
        /\ torn \subseteq torn'
        /\ k \in TornNow => k \in torn'
    BY <1>1 DEF SkillInv, SkillTypeInv, SkillWritten
  <2>2. /\ \A l \in SkillFiles : skillFile'[l] # NoFile => skillFile'[l].mtime <= writes'
        /\ \A l \in SkillFiles : skillEntries'[l] # NoFile => skillEntries'[l].mtime <= writes'
        /\ \A j \in SkillJobs : taking'[j].mtime # NoFile => taking'[j].mtime <= writes'
    BY <1>1, <2>1 DEF SkillInv, FreshInv, SkillTypeInv, SkillRows, TakingStates
  <2>3. ASSUME NEW l \in SkillFiles \ torn', l # k
        PROVE  skillFile'[l] = skillFile[l] /\ l \in SkillFiles \ torn
    BY <1>1, <2>1, <2>3 DEF SkillInv, SkillTypeInv
  <2>4. ASSUME NEW j \in SkillJobs, k \notin torn', taking'[j].at = {k} PROVE ReadsOf(k, taking[j])'
    <3>1. taking[j] \in TakingStates /\ taking[j].step = "load" /\ taking[j].at = {k}
      BY <2>1, <2>4 DEF SkillInv, SkillTypeInv
    <3>2. (taking[j].list = NoFile) <=> (taking[j].mtime = NoFile)
      BY <2>1, <2>4, <3>1 DEF TornNow
    <3>3. taking[j].mtime # NoFile => taking[j].mtime <= writes
      BY DEF SkillInv, FreshInv
    <3>4. skillFile'[k] = line
      BY <1>1 DEF SkillInv, SkillTypeInv
    <3> QED
      BY <1>1, <2>1, <3>1, <3>2, <3>3, <3>4 DEF ReadsOf, TakingStates
  <2>5. ASSUME NEW j \in SkillJobs, NEW l \in SkillFiles \ torn', taking'[j].at = {l}
        PROVE  ReadsOf(l, taking[j])'
    <3>1. CASE l = k
      BY <2>4, <2>5, <3>1
    <3>2. CASE l # k
      BY <2>1, <2>3, <2>5, <3>2 DEF SkillInv, FreshInv, ReadsOf
    <3> QED
      BY <3>1, <3>2
  <2>6. FreshIsTrue'
    <3> SUFFICES ASSUME NEW l \in SkillFiles \ torn', UpToDate(l)'
                 PROVE  skillEntries'[l].list = skillFile'[l].list
      BY DEF FreshIsTrue
    <3>1. CASE l = k
      <4>1. skillFile'[k] = line /\ line # NoFile /\ skillEntries[k] # NoFile
        BY <1>1, <2>1, <3>1 DEF SkillInv, SkillTypeInv, UpToDate
      <4>2. skillEntries[k].mtime <= writes /\ skillEntries[k].mtime \in Nat
        BY <4>1 DEF SkillInv, FreshInv, SkillTypeInv, SkillRows
      <4> QED
        BY <1>1, <2>1, <3>1, <4>1, <4>2 DEF UpToDate
    <3>2. CASE l # k
      BY <2>1, <2>3, <3>2 DEF SkillInv, FreshInv, FreshIsTrue, UpToDate
    <3> QED
      BY <3>1, <3>2
  <2> QED
    BY <2>2, <2>5, <2>6 DEF FreshInv
<1>4. OfferInv'
  <2> SUFFICES ASSUME NEW l \in SkillFiles \ unsettled', NEW j \in SkillJobs, skillFile'[l] # NoFile
               PROVE  MeetsSkill(l, taking[j])'
    BY DEF OfferInv
  <2>1. CASE Refreshing = {}
    <3>1. taking[j].step \notin {"scan", "load", "choose"} /\ UNCHANGED taking
      BY <1>1, <2>1 DEF Refreshing, SkillWritten
    <3> QED
      BY <3>1 DEF MeetsSkill
  <2>2. CASE Refreshing # {}
    <3>1. l # k /\ l \in SkillFiles \ unsettled /\ UNCHANGED <<taking, skillEntries>>
      BY <1>1, <2>2 DEF SkillWritten
    <3>2. skillFile'[l] = skillFile[l]
      BY <1>1, <3>1 DEF SkillInv, SkillTypeInv
    <3> QED
      BY <3>1, <3>2 DEF SkillInv, OfferInv, MeetsSkill
  <2> QED
    BY <2>1, <2>2
<1>5. NarrowInv'
  BY <1>1 DEF SkillInv, NarrowInv, SkillWritten, applySkillConstraints
<1> QED
  BY <1>2, <1>3, <1>4, <1>5 DEF SkillInv

\* A job that moves, while the files and the index rest, keeps what holds of the others.
LEMMA TakingKeeps ==
  ASSUME SkillInv, FilesRest, UNCHANGED <<skillEntries, taskTools>>,
         NEW j \in SkillJobs, NEW new \in TakingStates, TakeTo(j, new),
         new.step # "load" => new.at = {} /\ new.list = NoFile /\ new.mtime = NoFile,
         new.step # "taken",
         new.mtime # NoFile => new.mtime <= writes,
         \A k \in SkillFiles \ torn : new.at = {k} => ReadsOf(k, new),
         \A k \in SkillFiles \ unsettled : skillFile[k] # NoFile => MeetsSkill(k, new)
  PROVE  SkillInv'
<1>1. taking' = [taking EXCEPT ![j] = new] /\ taking \in [SkillJobs -> TakingStates]
  BY DEF TakeTo, SkillInv, SkillTypeInv
<1>2. \A i \in SkillJobs : taking'[i] = IF i = j THEN new ELSE taking[i]
  BY <1>1
<1>3. UNCHANGED <<writes, skillFile, agentTools, torn, unsettled>>
  BY DEF FilesRest
<1>4. SkillTypeInv'
  BY <1>1, <1>2, <1>3 DEF SkillInv, SkillTypeInv
<1>5. FreshInv'
  <2>1. \A i \in SkillJobs : taking'[i].mtime # NoFile => taking'[i].mtime <= writes
    BY <1>2 DEF SkillInv, FreshInv
  <2>2. ASSUME NEW i \in SkillJobs, NEW k \in SkillFiles \ torn, taking'[i].at = {k}
        PROVE  ReadsOf(k, taking'[i])
    BY <1>2, <2>2 DEF SkillInv, FreshInv
  <2>3. ASSUME NEW i \in SkillJobs, NEW k \in SkillFiles \ torn', taking'[i].at = {k}
        PROVE  ReadsOf(k, taking[i])'
    BY <1>3, <2>2, <2>3 DEF ReadsOf
  <2>4. FreshIsTrue'
    BY <1>3 DEF SkillInv, FreshInv, FreshIsTrue, UpToDate
  <2> QED
    BY <1>3, <2>1, <2>3, <2>4 DEF SkillInv, FreshInv
<1>6. OfferInv'
  <2> SUFFICES ASSUME NEW k \in SkillFiles \ unsettled', NEW i \in SkillJobs, skillFile'[k] # NoFile
               PROVE  MeetsSkill(k, taking[i])'
    BY DEF OfferInv
  <2>1. MeetsSkill(k, taking'[i])
    BY <1>2, <1>3 DEF SkillInv, OfferInv
  <2> QED
    BY <1>3, <2>1 DEF MeetsSkill
<1>7. NarrowInv'
  BY <1>2, <1>3 DEF SkillInv, NarrowInv, applySkillConstraints
<1> QED
  BY <1>4, <1>5, <1>6, <1>7 DEF SkillInv

\* What is not being read is read of no file.
LEMMA AbandonedStands ==
  ASSUME SkillInv, NEW j \in SkillJobs
  PROVE  /\ Abandoned(j) \in TakingStates /\ Abandoned(j).step = "scan" /\ Abandoned(j).at = {}
         /\ Abandoned(j).list = NoFile /\ Abandoned(j).mtime = NoFile
         /\ Abandoned(j).todo = taking[j].todo /\ Abandoned(j).seen = taking[j].seen
BY DEF Abandoned, SkillInv, SkillTypeInv, TakingStates

LEMMA StatKeeps ==
  ASSUME SkillInv, NEW j \in SkillJobs, NEW k \in SkillFiles, statSkill(j, k)
  PROVE  SkillInv'
<1> DEFINE pass == taking[j]
           passed == [pass EXCEPT !.todo = @ \ {k}]
           known == [pass EXCEPT !.todo = @ \ {k}, !.seen = @ \cup {k}]
           toLoad == [known EXCEPT !.step = "load", !.at = {k}]
           new == IF skillFile[k] = NoFile THEN passed ELSE IF UpToDate(k) THEN known ELSE toLoad
<1>1. /\ pass \in TakingStates /\ pass.step = "scan" /\ k \in pass.todo /\ pass.at = {}
      /\ pass.list = NoFile /\ pass.mtime = NoFile
  BY DEF SkillInv, SkillTypeInv, statSkill
<1>2. TakeTo(j, new) /\ FilesRest /\ UNCHANGED <<skillEntries, taskTools>>
  BY DEF statSkill
<1>3. /\ passed \in TakingStates /\ passed.step = "scan" /\ passed.todo = pass.todo \ {k}
      /\ passed.seen = pass.seen /\ passed.at = {} /\ passed.list = NoFile /\ passed.mtime = NoFile
  BY <1>1 DEF TakingStates
<1>4. /\ known \in TakingStates /\ known.step = "scan" /\ known.todo = pass.todo \ {k}
      /\ known.seen = pass.seen \cup {k} /\ known.at = {}
      /\ known.list = NoFile /\ known.mtime = NoFile
  BY <1>1 DEF TakingStates
<1>5. /\ toLoad \in TakingStates /\ toLoad.step = "load" /\ toLoad.todo = pass.todo \ {k}
      /\ toLoad.seen = pass.seen \cup {k} /\ toLoad.at = {k}
      /\ toLoad.list = NoFile /\ toLoad.mtime = NoFile
  BY <1>1 DEF TakingStates
<1>6. ASSUME NEW l \in SkillFiles \ unsettled, skillFile[l] # NoFile
      PROVE  l \in pass.todo \/ (l \in pass.seen /\ skillEntries[l] # NoFile)
  BY <1>1, <1>6 DEF SkillInv, OfferInv, MeetsSkill
<1> HIDE DEF passed, known, toLoad
<1>7. CASE skillFile[k] = NoFile
  <2>1. \A l \in SkillFiles \ unsettled : skillFile[l] # NoFile => MeetsSkill(l, passed)
    BY <1>3, <1>6, <1>7 DEF MeetsSkill
  <2>2. TakeTo(j, passed)
    BY <1>2, <1>7
  <2> QED
    BY <1>2, <1>3, <2>1, <2>2, TakingKeeps
<1>8. CASE skillFile[k] # NoFile /\ UpToDate(k)
  <2>1. \A l \in SkillFiles \ unsettled : skillFile[l] # NoFile => MeetsSkill(l, known)
    BY <1>4, <1>6, <1>8 DEF MeetsSkill, UpToDate
  <2>2. TakeTo(j, known)
    BY <1>2, <1>8
  <2> QED
    BY <1>2, <1>4, <2>1, <2>2, TakingKeeps
<1>9. CASE skillFile[k] # NoFile /\ ~UpToDate(k)
  <2>1. \A l \in SkillFiles \ unsettled : skillFile[l] # NoFile => MeetsSkill(l, toLoad)
    BY <1>5, <1>6 DEF MeetsSkill
  <2>2. TakeTo(j, toLoad)
    BY <1>2, <1>9
  <2>3. \A l \in SkillFiles \ torn : toLoad.at = {l} => ReadsOf(l, toLoad)
    BY <1>5 DEF ReadsOf
  <2> QED
    BY <1>2, <1>5, <2>1, <2>2, <2>3, TakingKeeps
<1> QED
  BY <1>7, <1>8, <1>9

\* Each half of a load is what the file says when it is read.
LEMMA LoadKeeps ==
  ASSUME SkillInv, NEW j \in SkillJobs, NEW k \in SkillFiles, readFile(j, k) \/ statLoaded(j, k)
  PROVE  SkillInv'
<1> DEFINE pass == taking[j]
           reads == [pass EXCEPT !.list = skillFile[k].list]
           times == [pass EXCEPT !.mtime = skillFile[k].mtime]
<1>1. /\ pass \in TakingStates /\ pass.step = "load" /\ pass.at = {k}
      /\ FilesRest /\ UNCHANGED <<skillEntries, taskTools>>
  BY DEF SkillInv, SkillTypeInv, readFile, statLoaded
<1>2. ASSUME NEW l \in SkillFiles \ unsettled, skillFile[l] # NoFile
      PROVE  l \in pass.todo \/ (l \in pass.seen /\ (skillEntries[l] # NoFile \/ l = k))
  BY <1>1, <1>2 DEF SkillInv, OfferInv, MeetsSkill
<1>3. k \notin torn => ReadsOf(k, pass)
  BY <1>1 DEF SkillInv, FreshInv
<1>4. CASE skillFile[k] = NoFile
  <2>1. TakeTo(j, Abandoned(j))
    BY <1>4 DEF readFile, statLoaded
  <2>2. \A l \in SkillFiles \ unsettled : skillFile[l] # NoFile => MeetsSkill(l, Abandoned(j))
    BY <1>2, <1>4, AbandonedStands DEF MeetsSkill
  <2> QED
    BY <1>1, <2>1, <2>2, AbandonedStands, TakingKeeps
<1>5. CASE skillFile[k] # NoFile /\ readFile(j, k)
  <2>1. TakeTo(j, reads) /\ pass.list = NoFile
    BY <1>5 DEF readFile
  <2>2. skillFile[k].list \in SkillLists
    BY <1>5 DEF SkillInv, SkillTypeInv, SkillRows
  <2>3. /\ reads \in TakingStates /\ reads.step = "load" /\ reads.at = {k}
        /\ reads.todo = pass.todo /\ reads.seen = pass.seen
        /\ reads.list = skillFile[k].list /\ reads.mtime = pass.mtime
    BY <1>1, <2>2 DEF TakingStates
  <2>4. reads.mtime # NoFile => reads.mtime <= writes
    BY <2>3 DEF SkillInv, FreshInv
  <2>5. \A l \in SkillFiles \ torn : reads.at = {l} => ReadsOf(l, reads)
    BY <1>3, <1>5, <2>1, <2>2, <2>3 DEF ReadsOf
  <2>6. \A l \in SkillFiles \ unsettled : skillFile[l] # NoFile => MeetsSkill(l, reads)
    BY <1>2, <2>3 DEF MeetsSkill
  <2> HIDE DEF reads
  <2> QED
    BY <1>1, <2>1, <2>3, <2>4, <2>5, <2>6, TakingKeeps
<1>6. CASE skillFile[k] # NoFile /\ statLoaded(j, k)
  <2>1. TakeTo(j, times) /\ pass.mtime = NoFile
    BY <1>6 DEF statLoaded
  <2>2. skillFile[k].mtime \in Nat /\ skillFile[k].mtime <= writes
    BY <1>6 DEF SkillInv, SkillTypeInv, SkillRows, FreshInv
  <2>3. /\ times \in TakingStates /\ times.step = "load" /\ times.at = {k}
        /\ times.todo = pass.todo /\ times.seen = pass.seen
        /\ times.list = pass.list /\ times.mtime = skillFile[k].mtime
    BY <1>1, <2>2 DEF TakingStates
  <2>4. \A l \in SkillFiles \ torn : times.at = {l} => ReadsOf(l, times)
    BY <1>3, <1>6, <2>1, <2>2, <2>3 DEF ReadsOf
  <2>5. \A l \in SkillFiles \ unsettled : skillFile[l] # NoFile => MeetsSkill(l, times)
    BY <1>2, <2>3 DEF MeetsSkill
  <2> HIDE DEF times
  <2> QED
    BY <1>1, <2>1, <2>2, <2>3, <2>4, <2>5, TakingKeeps
<1> QED
  BY <1>4, <1>5, <1>6

LEMMA ReaddirKeeps ==
  ASSUME SkillInv, NEW j \in SkillJobs, readdir(j)
  PROVE  SkillInv'
<1>1. PICK dirs \in SUBSET SkillFiles :
        /\ {k \in SkillFiles : skillFile[k] # NoFile} \subseteq dirs
        /\ TakeTo(j, [NotTaking EXCEPT !.step = "scan", !.todo = dirs])
  BY DEF readdir
<1> DEFINE new == [NotTaking EXCEPT !.step = "scan", !.todo = dirs]
<1>2. /\ new \in TakingStates /\ new.step = "scan" /\ new.todo = dirs /\ new.at = {}
      /\ new.list = NoFile /\ new.mtime = NoFile
  <2>1. NotTaking \in TakingStates /\ NotTaking.at = {} /\ NotTaking.list = NoFile
        /\ NotTaking.mtime = NoFile
    BY DEF NotTaking, TakingStates
  <2> QED
    BY <2>1 DEF TakingStates
<1> HIDE DEF new
<1>3. taking \in [SkillJobs -> TakingStates] /\ taking' = [taking EXCEPT ![j] = new]
  BY <1>1 DEF TakeTo, SkillInv, SkillTypeInv, new
<1>4. \A i \in SkillJobs : taking'[i] = IF i = j THEN new ELSE taking[i]
  BY <1>3
<1>5. UNCHANGED <<writes, skillFile, skillEntries, agentTools, taskTools, torn>>
  BY DEF readdir
<1>6. SkillTypeInv'
  BY <1>2, <1>3, <1>4, <1>5 DEF SkillInv, SkillTypeInv
<1>7. FreshInv'
  <2>1. \A i \in SkillJobs : taking'[i].mtime # NoFile => taking'[i].mtime <= writes
    BY <1>2, <1>4 DEF SkillInv, FreshInv
  <2>2. \A i \in SkillJobs, k \in SkillFiles \ torn : taking'[i].at = {k} => ReadsOf(k, taking'[i])
    BY <1>2, <1>4 DEF SkillInv, FreshInv
  <2>3. \A i \in SkillJobs, k \in SkillFiles \ torn' : taking'[i].at = {k} => ReadsOf(k, taking[i])'
    BY <1>5, <2>2 DEF ReadsOf
  <2> QED
    BY <1>5, <2>1, <2>3 DEF SkillInv, FreshInv, FreshIsTrue, UpToDate
<1>8. OfferInv'
  <2> SUFFICES ASSUME NEW k \in SkillFiles \ unsettled', NEW i \in SkillJobs, skillFile'[k] # NoFile
               PROVE  MeetsSkill(k, taking[i])'
    BY DEF OfferInv
  <2>1. CASE i = j
    BY <1>1, <1>2, <1>4, <1>5, <2>1 DEF MeetsSkill
  <2>2. CASE i # j
    <3>1. taking'[i] = taking[i]
      BY <1>4, <2>2
    <3>2. CASE Refreshing = {}
      BY <3>1, <3>2 DEF Refreshing, MeetsSkill
    <3>3. CASE Refreshing # {}
      <4>1. unsettled' = unsettled
        BY <3>3 DEF readdir
      <4> QED
        BY <1>5, <3>1, <4>1 DEF SkillInv, OfferInv, MeetsSkill
    <3> QED
      BY <3>2, <3>3
  <2> QED
    BY <2>1, <2>2
<1>9. NarrowInv'
  BY <1>2, <1>4, <1>5 DEF SkillInv, NarrowInv, applySkillConstraints
<1> QED
  BY <1>6, <1>7, <1>8, <1>9 DEF SkillInv

LEMMA ChooseKeeps ==
  ASSUME SkillInv, NEW j \in SkillJobs, chooseSkills(j)
  PROVE  SkillInv'
<1> DEFINE offered == {k \in SkillFiles : skillEntries[k] # NoFile}
<1>1. PICK choice \in SUBSET SkillFiles :
        TakeTo(j, [taking[j] EXCEPT !.step = "resolve", !.offered = offered,
                                    !.todo = choice \cap offered])
  BY DEF chooseSkills
<1> DEFINE new == [taking[j] EXCEPT !.step = "resolve", !.offered = offered,
                                    !.todo = choice \cap offered]
<1>2. /\ taking[j] \in TakingStates /\ taking[j].at = {} /\ taking[j].list = NoFile
      /\ taking[j].mtime = NoFile
  BY DEF SkillInv, SkillTypeInv, chooseSkills
<1>3. /\ new \in TakingStates /\ new.step = "resolve" /\ new.at = {} /\ new.list = NoFile
      /\ new.mtime = NoFile
  BY <1>2 DEF TakingStates
<1>4. TakeTo(j, new) /\ FilesRest /\ UNCHANGED <<skillEntries, taskTools>>
  BY <1>1 DEF chooseSkills
<1>5. \A k \in SkillFiles \ unsettled : MeetsSkill(k, new)
  BY <1>3 DEF MeetsSkill
<1> HIDE DEF new
<1> QED
  BY <1>3, <1>4, <1>5, TakingKeeps

LEMMA ResolveKeeps ==
  ASSUME SkillInv, NEW j \in SkillJobs, NEW k \in SkillFiles, resolveSkill(j, k)
  PROVE  SkillInv'
<1> DEFINE loaded == IF NoFile \in {skillEntries[k], skillFile[k]} THEN taking[j].loaded
                     ELSE Append(taking[j].loaded, FullSkill(k))
           new == [taking[j] EXCEPT !.todo = @ \ {k}, !.loaded = loaded]
<1>1. /\ taking[j] \in TakingStates /\ taking[j].step = "resolve" /\ taking[j].at = {}
      /\ taking[j].list = NoFile /\ taking[j].mtime = NoFile
  BY DEF SkillInv, SkillTypeInv, resolveSkill
<1>2. loaded \in Seq(Readings)
  <2>1. taking[j].loaded \in Seq(Readings)
    BY <1>1 DEF TakingStates
  <2>2. skillFile[k] # NoFile => FullSkill(k) \in Readings
    BY DEF SkillInv, SkillTypeInv, SkillRows, FullSkill, Readings
  <2> QED
    BY <2>1, <2>2
<1>3. TakeTo(j, new) /\ FilesRest /\ UNCHANGED <<skillEntries, taskTools>>
  BY DEF resolveSkill
<1> HIDE DEF loaded
<1>4. /\ new \in TakingStates /\ new.step = "resolve" /\ new.at = {} /\ new.list = NoFile
      /\ new.mtime = NoFile
  BY <1>1, <1>2 DEF TakingStates
<1>5. \A l \in SkillFiles \ unsettled : MeetsSkill(l, new)
  BY <1>4 DEF MeetsSkill
<1> HIDE DEF new
<1> QED
  BY <1>3, <1>4, <1>5, TakingKeeps

\* An entry is what its file said, or is not of its time.
LEMMA SetKeeps ==
  ASSUME SkillInv, NEW j \in SkillJobs, NEW k \in SkillFiles, setEntry(j, k)
  PROVE  SkillInv'
<1> DEFINE new == Abandoned(j)
           line == LoadedEntry(j, k)
<1>1. /\ taking[j] \in TakingStates /\ taking[j].step = "load" /\ taking[j].at = {k}
      /\ taking[j].list \in SkillLists /\ taking[j].mtime \in Nat
      /\ skillEntries' = [skillEntries EXCEPT ![k] = line]
      /\ taking' = [taking EXCEPT ![j] = new] /\ FilesRest /\ UNCHANGED taskTools
  BY DEF SkillInv, SkillTypeInv, setEntry, TakeTo, TakingStates
<1>2. line \in SkillRows /\ line # NoFile /\ line.mtime = taking[j].mtime
        /\ line.list = taking[j].list
  BY <1>1, SkillAssumption DEF LoadedEntry, SkillRows
<1> HIDE DEF line
<1>3. \A l \in SkillFiles : skillEntries'[l] = IF l = k THEN line ELSE skillEntries[l]
  BY <1>1 DEF SkillInv, SkillTypeInv
<1>4. \A i \in SkillJobs : taking'[i] = IF i = j THEN new ELSE taking[i]
  BY <1>1 DEF SkillInv, SkillTypeInv
<1>5. /\ new \in TakingStates /\ new.step = "scan" /\ new.at = {} /\ new.list = NoFile
      /\ new.mtime = NoFile /\ new.todo = taking[j].todo /\ new.seen = taking[j].seen
  BY AbandonedStands
<1> HIDE DEF new
<1>6. UNCHANGED <<writes, skillFile, agentTools, torn, unsettled>>
  BY <1>1 DEF FilesRest
<1>7. SkillTypeInv'
  <2>1. skillEntries' \in [SkillFiles -> {NoFile} \cup SkillRows]
    BY <1>1, <1>2 DEF SkillInv, SkillTypeInv
  <2>2. taking' \in [SkillJobs -> TakingStates]
    BY <1>1, <1>5 DEF SkillInv, SkillTypeInv
  <2> QED
    BY <1>1, <1>4, <1>5, <1>6, <2>1, <2>2 DEF SkillInv, SkillTypeInv
<1>8. FreshInv'
  <2>1. \A i \in SkillJobs : taking'[i].mtime # NoFile => taking'[i].mtime <= writes
    BY <1>4, <1>5 DEF SkillInv, FreshInv
  <2>2. \A i \in SkillJobs, l \in SkillFiles \ torn : taking'[i].at = {l} => ReadsOf(l, taking'[i])
    BY <1>4, <1>5 DEF SkillInv, FreshInv
  <2>3. \A i \in SkillJobs, l \in SkillFiles \ torn' : taking'[i].at = {l} => ReadsOf(l, taking[i])'
    BY <1>6, <2>2 DEF ReadsOf
  <2>4. \A l \in SkillFiles : skillEntries'[l] # NoFile => skillEntries'[l].mtime <= writes
    BY <1>1, <1>2, <1>3, SkillAssumption DEF SkillInv, FreshInv
  <2>5. k \notin torn => ReadsOf(k, taking[j])
    BY <1>1 DEF SkillInv, FreshInv
  <2>6. taking[j].mtime # NoFile /\ taking[j].list # NoFile
    BY DEF setEntry
  <2>7. FreshIsTrue'
    <3> SUFFICES ASSUME NEW l \in SkillFiles \ torn', UpToDate(l)'
                 PROVE  skillEntries'[l].list = skillFile'[l].list
      BY DEF FreshIsTrue
    <3>1. CASE l = k
      BY <1>2, <1>3, <1>6, <2>5, <2>6, <3>1 DEF ReadsOf, UpToDate
    <3>2. CASE l # k
      BY <1>3, <1>6, <3>2 DEF SkillInv, FreshInv, FreshIsTrue, UpToDate
    <3> QED
      BY <3>1, <3>2
  <2> QED
    BY <1>6, <2>1, <2>3, <2>4, <2>7 DEF SkillInv, FreshInv
<1>9. OfferInv'
  <2> SUFFICES ASSUME NEW l \in SkillFiles \ unsettled', NEW i \in SkillJobs, skillFile'[l] # NoFile
               PROVE  MeetsSkill(l, taking[i])'
    BY DEF OfferInv
  <2>1. MeetsSkill(l, taking[i])
    BY <1>6 DEF SkillInv, OfferInv
  <2>2. skillEntries'[l] = skillEntries[l] \/ (l = k /\ skillEntries'[l] # NoFile)
    BY <1>2, <1>3
  <2>3. CASE i = j
    <3>1. l \in taking[j].todo \/ (l \in taking[j].seen /\ (skillEntries[l] # NoFile \/ l = k))
      BY <1>1, <2>1, <2>3 DEF MeetsSkill
    <3>2. skillEntries[l] # NoFile \/ l = k => skillEntries'[l] # NoFile
      BY <1>2, <1>3
    <3> QED
      BY <1>4, <1>5, <2>3, <3>1, <3>2 DEF MeetsSkill
  <2>4. CASE i # j
    BY <1>4, <2>1, <2>2, <2>4 DEF MeetsSkill
  <2> QED
    BY <2>3, <2>4
<1>10. NarrowInv'
  BY <1>1, <1>4, <1>5, <1>6 DEF SkillInv, NarrowInv, applySkillConstraints
<1> QED
  BY <1>7, <1>8, <1>9, <1>10 DEF SkillInv

\* What a refresh has not seen goes: a settled skill it has seen.
LEMMA EndKeeps ==
  ASSUME SkillInv, NEW j \in SkillJobs, endRefresh(j)
  PROVE  SkillInv'
<1> DEFINE new == [taking[j] EXCEPT !.step = "choose"]
<1>1. /\ taking[j] \in TakingStates /\ taking[j].step = "scan" /\ taking[j].todo = {}
      /\ taking[j].at = {} /\ taking[j].list = NoFile /\ taking[j].mtime = NoFile
  BY DEF SkillInv, SkillTypeInv, endRefresh
<1>2. /\ new \in TakingStates /\ new.step = "choose" /\ new.at = {} /\ new.list = NoFile
      /\ new.mtime = NoFile
  BY <1>1 DEF TakingStates
<1>3. /\ taking' = [taking EXCEPT ![j] = new] /\ UNCHANGED taskTools
      /\ UNCHANGED <<writes, skillFile, agentTools, torn, unsettled>>
      /\ skillEntries' = [k \in SkillFiles |->
                            IF k \in taking[j].seen THEN skillEntries[k] ELSE NoFile]
  BY DEF endRefresh, TakeTo, FilesRest
<1> HIDE DEF new
<1>4. \A i \in SkillJobs : taking'[i] = IF i = j THEN new ELSE taking[i]
  BY <1>3 DEF SkillInv, SkillTypeInv
<1>5. \A k \in SkillFiles :
        skillEntries'[k] = IF k \in taking[j].seen THEN skillEntries[k] ELSE NoFile
  BY <1>3
<1>6. SkillTypeInv'
  BY <1>2, <1>3, <1>4 DEF SkillInv, SkillTypeInv
<1>7. FreshInv'
  <2>1. \A i \in SkillJobs : taking'[i].mtime # NoFile => taking'[i].mtime <= writes
    BY <1>2, <1>4 DEF SkillInv, FreshInv
  <2>2. \A i \in SkillJobs, k \in SkillFiles \ torn : taking'[i].at = {k} => ReadsOf(k, taking'[i])
    BY <1>2, <1>4 DEF SkillInv, FreshInv
  <2>3. \A i \in SkillJobs, k \in SkillFiles \ torn' : taking'[i].at = {k} => ReadsOf(k, taking[i])'
    BY <1>3, <2>2 DEF ReadsOf
  <2>4. \A k \in SkillFiles : skillEntries'[k] # NoFile => skillEntries'[k].mtime <= writes
    BY <1>5 DEF SkillInv, FreshInv
  <2>5. FreshIsTrue'
    BY <1>3, <1>5 DEF SkillInv, FreshInv, FreshIsTrue, UpToDate
  <2> QED
    BY <1>3, <2>1, <2>3, <2>4, <2>5 DEF SkillInv, FreshInv
<1>8. OfferInv'
  <2> SUFFICES ASSUME NEW k \in SkillFiles \ unsettled', NEW i \in SkillJobs, skillFile'[k] # NoFile
               PROVE  MeetsSkill(k, taking[i])'
    BY DEF OfferInv
  <2>1. MeetsSkill(k, taking[i]) /\ MeetsSkill(k, taking[j])
    BY <1>3 DEF SkillInv, OfferInv
  <2>2. k \in taking[j].seen /\ skillEntries[k] # NoFile
    BY <1>1, <2>1 DEF MeetsSkill
  <2>3. skillEntries'[k] = skillEntries[k]
    BY <1>5, <2>2
  <2> QED
    BY <1>2, <1>4, <2>1, <2>2, <2>3 DEF MeetsSkill
<1>9. NarrowInv'
  BY <1>2, <1>3, <1>4 DEF SkillInv, NarrowInv, applySkillConstraints
<1> QED
  BY <1>6, <1>7, <1>8, <1>9 DEF SkillInv

LEMMA BuildKeeps ==
  ASSUME SkillInv, NEW j \in SkillJobs, buildTask(j)
  PROVE  SkillInv'
<1> DEFINE withinBudget == selectWithinBudget(taking[j].loaded)
           new == [NotTaking EXCEPT !.step = "taken", !.loaded = withinBudget,
                                    !.offered = taking[j].offered]
           rest == applySkillConstraints(mergeSkillConstraints(withinBudget))
<1>1. taking[j] \in TakingStates
  BY DEF SkillInv, SkillTypeInv
<1>2. withinBudget \in Seq(Readings)
  BY <1>1, SkillAssumption DEF TakingStates, selectWithinBudget
<1>3. /\ taskTools' = [taskTools EXCEPT ![j] = rest] /\ taking' = [taking EXCEPT ![j] = new]
      /\ UNCHANGED <<writes, skillFile, skillEntries, agentTools, torn, unsettled>>
  BY DEF buildTask, TakeTo, FilesRest
<1> HIDE DEF withinBudget
<1>4. /\ new \in TakingStates /\ new.step = "taken" /\ new.at = {} /\ new.list = NoFile
      /\ new.mtime = NoFile /\ new.loaded = withinBudget
  <2>1. NotTaking \in TakingStates /\ NotTaking.at = {} /\ NotTaking.list = NoFile
        /\ NotTaking.mtime = NoFile
    BY DEF NotTaking, TakingStates
  <2> QED
    BY <1>1, <1>2, <2>1 DEF TakingStates
<1>5. rest = applySkillConstraints(mergeSkillConstraints(new.loaded))
  BY <1>4
<1> HIDE DEF new, rest
<1>6. \A i \in SkillJobs : taking'[i] = IF i = j THEN new ELSE taking[i]
  BY <1>3 DEF SkillInv, SkillTypeInv
<1>7. SkillTypeInv'
  BY <1>3, <1>4, <1>6 DEF SkillInv, SkillTypeInv
<1>8. FreshInv'
  <2>1. \A i \in SkillJobs : taking'[i].mtime # NoFile => taking'[i].mtime <= writes
    BY <1>4, <1>6 DEF SkillInv, FreshInv
  <2>2. \A i \in SkillJobs, k \in SkillFiles \ torn : taking'[i].at = {k} => ReadsOf(k, taking'[i])
    BY <1>4, <1>6 DEF SkillInv, FreshInv
  <2>3. \A i \in SkillJobs, k \in SkillFiles \ torn' : taking'[i].at = {k} => ReadsOf(k, taking[i])'
    BY <1>3, <2>2 DEF ReadsOf
  <2> QED
    BY <1>3, <2>1, <2>3 DEF SkillInv, FreshInv, FreshIsTrue, UpToDate
<1>9. OfferInv'
  <2> SUFFICES ASSUME NEW k \in SkillFiles \ unsettled', NEW i \in SkillJobs, skillFile'[k] # NoFile
               PROVE  MeetsSkill(k, taking[i])'
    BY DEF OfferInv
  <2>1. MeetsSkill(k, taking[i])
    BY <1>3 DEF SkillInv, OfferInv
  <2> QED
    BY <1>3, <1>4, <1>6, <2>1 DEF MeetsSkill
<1>10. NarrowInv'
  <2> SUFFICES ASSUME NEW i \in SkillJobs, taking'[i].step = "taken"
                PROVE  taskTools'[i] =
                         applySkillConstraints(mergeSkillConstraints(taking'[i].loaded))
    BY <1>3 DEF NarrowInv, applySkillConstraints
  <2>1. CASE i = j
    BY <1>3, <1>5, <1>6, <2>1 DEF SkillInv, SkillTypeInv
  <2>2. CASE i # j
    BY <1>3, <1>6, <2>2 DEF SkillInv, SkillTypeInv, NarrowInv
  <2> QED
    BY <2>1, <2>2
<1> QED
  BY <1>7, <1>8, <1>9, <1>10 DEF SkillInv

LEMMA SkillsStep == SkillInv /\ [SkillNext]_skillVars => SkillInv'
<1> SUFFICES ASSUME SkillInv, [SkillNext]_skillVars PROVE SkillInv'
  OBVIOUS
<1>1. CASE \E k \in SkillFiles : WriteSkill(k) \/ DeleteSkill(k)
  BY <1>1, WriteKeeps
<1>2. ASSUME NEW j \in SkillJobs, readdir(j) \/ endRefresh(j) \/ chooseSkills(j) \/ buildTask(j)
      PROVE  SkillInv'
  BY <1>2, ReaddirKeeps, EndKeeps, ChooseKeeps, BuildKeeps
<1>3. ASSUME NEW j \in SkillJobs, NEW k \in SkillFiles,
             \/ statSkill(j, k) \/ readFile(j, k) \/ statLoaded(j, k)
             \/ setEntry(j, k) \/ resolveSkill(j, k)
      PROVE  SkillInv'
  BY <1>3, StatKeeps, LoadKeeps, SetKeeps, ResolveKeeps
<1>4. CASE UNCHANGED skillVars
  <2>1. /\ UNCHANGED <<writes, skillFile, skillEntries, taking>>
        /\ UNCHANGED <<agentTools, taskTools, torn, unsettled>>
    BY <1>4 DEF skillVars
  <2>2. SkillTypeInv'
    BY <2>1 DEF SkillInv, SkillTypeInv
  <2>3. FreshInv'
    BY <2>1 DEF SkillInv, FreshInv, FreshIsTrue, UpToDate, ReadsOf
  <2>4. OfferInv'
    BY <2>1 DEF SkillInv, OfferInv, MeetsSkill
  <2>5. NarrowInv'
    BY <2>1 DEF SkillInv, NarrowInv, applySkillConstraints
  <2> QED
    BY <2>2, <2>3, <2>4, <2>5 DEF SkillInv
<1> QED
  BY <1>1, <1>2, <1>3, <1>4 DEF SkillNext

\* The tools that are merged are in every list, or no tool is.
LEMMA SkillsSound == SkillInv => FreshIsTrue /\ TaskIsNarrowed
<1> SUFFICES ASSUME SkillInv PROVE TaskIsNarrowed
  BY DEF SkillInv, FreshInv
<1> SUFFICES ASSUME NEW j \in SkillJobs, taking[j].step = "taken"
             PROVE  LET lists == {s.text : s \in Range(taking[j].loaded)} \ {{}} IN
                    /\ agentTools # {} => taskTools[j] \subseteq agentTools
                    /\ (\E t \in SkillTools : \A l \in lists : t \in l) =>
                         \A l \in lists : taskTools[j] \subseteq l
  BY DEF TaskIsNarrowed
<1> DEFINE loaded == taking[j].loaded
           instructions == {s.text : s \in Range(loaded)} \ {{}}
           lists == {s.constraints : s \in Range(loaded)} \ {{}}
           merged == {t \in UNION lists : \A l \in lists : t \in l}
<1>1. loaded \in Seq(Readings)
  BY DEF SkillInv, SkillTypeInv, TakingStates
<1>2. \A s \in Range(loaded) : s.text = s.constraints
  <2>1. \A s \in Range(loaded) : s \in Readings
    BY <1>1 DEF Range
  <2> QED
    BY <2>1 DEF Readings
<1>3. instructions = lists
  BY <1>2
<1>4. taskTools[j] = applySkillConstraints(merged)
  BY DEF SkillInv, NarrowInv, mergeSkillConstraints
<1>5. agentTools # {} => taskTools[j] \subseteq agentTools
  BY <1>4 DEF applySkillConstraints
<1>6. ASSUME NEW t \in SkillTools, \A l \in lists : t \in l, NEW l \in lists
      PROVE  taskTools[j] \subseteq l
  <2>1. t \in merged
    BY <1>6
  <2>2. merged \subseteq l
    BY <1>6
  <2> HIDE DEF merged
  <2>3. taskTools[j] \subseteq merged
    BY <1>4, <2>1 DEF applySkillConstraints
  <2> QED
    BY <2>2, <2>3
<1> QED
  BY <1>3, <1>5, <1>6

\* A job chooses with every settled skill before it.
LEMMA SettledOffered ==
  SkillInv /\ [SkillNext]_skillVars =>
    [\A j \in SkillJobs : taking[j].step = "choose" /\ taking'[j].step = "resolve" =>
       \A k \in SkillFiles \ unsettled :
         skillFile[k] # NoFile => k \in taking'[j].offered]_skillVars
<1> SUFFICES ASSUME SkillInv, SkillNext, NEW j \in SkillJobs,
                    taking[j].step = "choose", taking'[j].step = "resolve",
                    NEW k \in SkillFiles \ unsettled, skillFile[k] # NoFile
             PROVE  k \in taking'[j].offered
  OBVIOUS
<1>1. skillEntries[k] # NoFile
  BY DEF SkillInv, OfferInv, MeetsSkill
<1>2. taking \in [SkillJobs -> TakingStates]
  BY DEF SkillInv, SkillTypeInv
<1>3. ~ UNCHANGED taking /\ taking'[j] # taking[j]
  OBVIOUS
<1>4. ASSUME NEW i \in SkillJobs, NEW new, TakeTo(i, new) PROVE i = j
  BY <1>2, <1>3, <1>4 DEF TakeTo
<1>5. chooseSkills(j)
  <2>1. ASSUME NEW l \in SkillFiles, WriteSkill(l) \/ DeleteSkill(l) PROVE FALSE
    BY <1>3, <2>1 DEF WriteSkill, DeleteSkill, SkillWritten
  <2>2. ASSUME NEW i \in SkillJobs, readdir(i) \/ endRefresh(i) \/ buildTask(i) PROVE FALSE
    BY <1>4, <2>2 DEF readdir, endRefresh, buildTask
  <2>3. ASSUME NEW i \in SkillJobs, NEW l \in SkillFiles,
               \/ statSkill(i, l) \/ readFile(i, l) \/ statLoaded(i, l)
               \/ setEntry(i, l) \/ resolveSkill(i, l)
        PROVE  FALSE
    BY <1>4, <2>3 DEF statSkill, readFile, statLoaded, setEntry, resolveSkill
  <2>4. ASSUME NEW i \in SkillJobs, chooseSkills(i) PROVE i = j
    BY <1>4, <2>4 DEF chooseSkills
  <2> QED
    BY <2>1, <2>2, <2>3, <2>4 DEF SkillNext
<1>6. PICK choice \in SUBSET SkillFiles :
        taking'[j] = [taking[j] EXCEPT !.step = "resolve",
                                       !.offered = {l \in SkillFiles : skillEntries[l] # NoFile},
                                        !.todo =
                                           choice \cap {l \in SkillFiles : skillEntries[l] # NoFile}]
  BY <1>2, <1>5 DEF chooseSkills, TakeTo
<1>7. taking[j] \in TakingStates
  BY <1>2
<1> QED
  BY <1>1, <1>6, <1>7 DEF TakingStates

(*****************************************************************************)
(* The parts together.                                                       *)
(*****************************************************************************)

\* A behaviour of the console is one of each part.
LEMMA EachBehaves ==
  Spec => /\ CallInit /\ [][CallNext]_callVars
          /\ QueryInit /\ [][QueryNext]_queryVars
          /\ AdminInit /\ [][AdminNext]_adminVars
          /\ ChatViewInit /\ [][ChatViewNext]_viewVars
          /\ DeskInit /\ [][DeskNext]_deskVars
          /\ PopupInit /\ [][PopupNext]_popupVars
          /\ SecretsInit /\ [][SecretsNext]_secretVars
          /\ ChannelsInit /\ [][ChannelsNext]_deskOfChannels
          /\ ContractInit /\ [][ContractNext]_contractVars
          /\ GuardInit /\ [][GuardNext]_guardVars
          /\ DelegationInit /\ [][DelegationNext]_delegationVars
          /\ FormsInit /\ [][FormsNext]_formVars
          /\ PageInit /\ [][PageNext]_pageVars
          /\ AgentFormsInit /\ [][AgentFormsNext]_agentFormVars
          /\ UsersInit /\ [][UsersNext]_usersVars
          /\ JobsDeskInit /\ [][JobsDeskNext]_jobsDeskVars
          /\ DrawerInit /\ [][DrawerNext]_drawerVars
          /\ McpPageInit /\ [][McpPageNext]_mcpPageVars
          /\ ClusterInit /\ [][ClusterNext]_clusterVars
          /\ SkillInit /\ [][SkillNext]_skillVars
<1>1. Init => /\ CallInit /\ QueryInit /\ AdminInit /\ ChatViewInit /\ DeskInit
              /\ PopupInit /\ SecretsInit /\ ChannelsInit /\ ContractInit /\ GuardInit
              /\ DelegationInit /\ FormsInit /\ PageInit /\ AgentFormsInit /\ UsersInit
              /\ JobsDeskInit /\ DrawerInit /\ McpPageInit /\ ClusterInit /\ SkillInit
  BY DEF Init
<1>2. [Next]_<<part, queryVars, callVars, adminVars, viewVars, deskVars, popupVars, secretVars,
               deskOfChannels, contractVars, guardVars, delegationVars, formVars, pageVars,
               agentFormVars, usersVars, jobsDeskVars, drawerVars, mcpPageVars, clusterVars,
               skillVars>> =>
        /\ [CallNext]_callVars /\ [QueryNext]_queryVars /\ [AdminNext]_adminVars
        /\ [ChatViewNext]_viewVars /\ [DeskNext]_deskVars /\ [PopupNext]_popupVars
        /\ [SecretsNext]_secretVars /\ [ChannelsNext]_deskOfChannels /\ [ContractNext]_contractVars
        /\ [GuardNext]_guardVars /\ [DelegationNext]_delegationVars /\ [FormsNext]_formVars
        /\ [PageNext]_pageVars /\ [AgentFormsNext]_agentFormVars /\ [UsersNext]_usersVars
        /\ [JobsDeskNext]_jobsDeskVars /\ [DrawerNext]_drawerVars /\ [McpPageNext]_mcpPageVars
        /\ [ClusterNext]_clusterVars /\ [SkillNext]_skillVars
  BY DEF Next
<1> QED
  BY <1>1, <1>2, PTL DEF Spec

\* What the routes and services leave behind fits together, whoever calls them meanwhile: agents
\* and their sessions, decisions and their trail, secrets and their log, the channels of a name,
\* the models a configuration names, bound tools and their limits, delegations, deployed servers,
\* the index of skills and the tools of a task.
THEOREM RowsStaySound == Spec => []RowsAreSound
<1>1. Spec => []AdminInv
  BY EachBehaves, AdminStarts, AdminSteps, PTL
<1>2. Spec => []DeskInv
  BY EachBehaves, DeskStarts, DeskSteps, PTL
<1>3. Spec => []SecretsInv
  BY EachBehaves, SecretsStart, SecretsStep, PTL
<1>4. Spec => []ChannelsInv
  BY EachBehaves, ChannelsStart, ChannelsStep, PTL
<1>5. Spec => []ContractInv
  BY EachBehaves, ContractStarts, ContractSteps, PTL
<1>6. Spec => []GuardInv
  BY EachBehaves, GuardStarts, GuardSteps, PTL
<1>7. Spec => []DelegatedIsOwned
  BY EachBehaves, DelegationStarts, DelegationSteps, PTL
<1>8. Spec => []ClusterInv
  BY EachBehaves, ClusterStarts, ClusterSteps, PTL
<1>9. Spec => []SkillInv
  BY EachBehaves, SkillsStart, SkillsStep, PTL
<1>10. /\ AdminInv /\ DeskInv /\ SecretsInv /\ ChannelsInv /\ ContractInv /\ GuardInv
       /\ DelegatedIsOwned /\ ClusterInv /\ SkillInv
       => RowsAreSound
  BY AdminSound, DeskSound, SecretsSound, ChannelsSound, ContractSound, GuardSound, ClusterSound,
     SkillsSound DEF RowsAreSound
<1> QED
  BY <1>1, <1>2, <1>3, <1>4, <1>5, <1>6, <1>7, <1>8, <1>9, <1>10, PTL

\* Nothing happens behind a user's back: a caller that gave up sends nothing, chats are detached
\* after a warning, access withdrawn stays so, a job runs on what is bound and is offered the
\* skills there are.
THEOREM AskedOnly == Spec => OnlyAsAsked
<1>1. Spec => []CallInv
  BY EachBehaves, CallStarts, CallSteps, PTL
<1>2. Spec => []RemovalInv
  BY EachBehaves, ChannelsStart, RemovalStep, PTL
<1>3. Spec => []ContractInv
  BY EachBehaves, ContractStarts, ContractSteps, PTL
<1>4. Spec => []GrantsInv
  BY EachBehaves, UsersStart, UsersStep, PTL
<1>5. Spec => []SkillInv
  BY EachBehaves, SkillsStart, SkillsStep, PTL
<1>6. Spec => NothingAfterAbort
  BY <1>1, EachBehaves, GivenUpSendsNothing, PTL DEF NothingAfterAbort
<1>7. Spec => DetachedAreWarned
  BY <1>2, EachBehaves, DetachedWarned, PTL DEF DetachedAreWarned
<1>8. Spec => ResolvedIsBound
  BY <1>3, EachBehaves, ResolvedBound, PTL DEF ResolvedIsBound
<1>9. Spec => WithdrawnStays
  BY <1>4, EachBehaves, WithdrawnIsKept, PTL DEF WithdrawnStays
<1>10. Spec => SettledIsOffered
  BY <1>5, EachBehaves, SettledOffered, PTL DEF SettledIsOffered
<1> QED
  BY <1>6, <1>7, <1>8, <1>9, <1>10 DEF OnlyAsAsked

\* A page shows what its user picked, and no page waits for what will not come, in whatever order
\* the answers of requests, polls and loads arrive: lists, the chat, the drawer of an approval,
\* the window of a sign-in, boxes that are ticked, and forms that follow what others write.
THEOREM PagesStayCurrent == Spec => []PagesAreCurrent
<1>1. Spec => []QueryInv
  BY EachBehaves, QueryStarts, QuerySteps, PTL
<1>2. Spec => []ChatInv
  BY EachBehaves, ChatStarts, ChatSteps, PTL
<1>3. Spec => []DeskInv
  BY EachBehaves, DeskStarts, DeskSteps, PTL
<1>4. Spec => []PopupInv
  BY EachBehaves, PopupStarts, PopupSteps, PTL
<1>5. Spec => [](TickedUnderServer /\ PagedUnderFilter)
  BY EachBehaves, FormsStart, FormsStep, PTL
<1>6. Spec => []PageInv
  BY EachBehaves, PageStarts, PageSteps, PTL
<1>7. Spec => []McpPageInv
  BY EachBehaves, McpPageStarts, McpPageSteps, PTL
<1>8. /\ QueryInv /\ ChatInv /\ DeskInv /\ PopupInv /\ PageInv /\ McpPageInv
      /\ TickedUnderServer /\ PagedUnderFilter
      => PagesAreCurrent
  BY QuerySound, DeskSound, PageSound, McpPageSound DEF ChatInv, PopupInv, PagesAreCurrent
<1> QED
  BY <1>1, <1>2, <1>3, <1>4, <1>5, <1>6, <1>7, <1>8, PTL

\* A dialog that asks for a decision stands as long as the decision is open, over what it was
\* opened for, whatever the others of the page and the refreshes do meanwhile.
THEOREM DialogsKeepStanding == Spec => []DialogsStand
<1>1. Spec => []PageInv
  BY EachBehaves, PageStarts, PageSteps, PTL
<1>2. Spec => []ModalStands
  BY EachBehaves, AgentFormsStart, AgentFormsStep, PTL
<1>3. Spec => []InviteStands
  BY EachBehaves, InviteStarts, InviteSteps, PTL
<1>4. Spec => []JobsDeskInv
  BY EachBehaves, JobsDeskStarts, JobsDeskSteps, PTL
<1>5. Spec => []McpPageInv
  BY EachBehaves, McpPageStarts, McpPageSteps, PTL
<1>6. Spec => []JobDrawerInv
  BY EachBehaves, JobDrawerStarts, JobDrawerSteps, PTL
<1>7. /\ PageInv /\ ModalStands /\ InviteStands /\ JobsDeskInv /\ McpPageInv /\ JobDrawerInv
      => DialogsStand
  BY PageSound, McpPageSound, JobDrawerSound DEF JobsDeskInv, DialogsStand
<1> QED
  BY <1>1, <1>2, <1>3, <1>4, <1>5, <1>6, <1>7, PTL

\* What a user is told of a request is what became of it, although requests are repeated, cut
\* off, overtaken and decided by others: of a call that writes, an answer in the chat, a decision,
\* a binding, a retried job, a failed one, and the keys a model wants.
THEOREM OutcomesStayTold == Spec => []OutcomesAreTold
<1>1. Spec => []CallInv
  BY EachBehaves, CallStarts, CallSteps, PTL
<1>2. Spec => []ChatInv
  BY EachBehaves, ChatStarts, ChatSteps, PTL
<1>3. Spec => []DeskInv
  BY EachBehaves, DeskStarts, DeskSteps, PTL
<1>4. Spec => [](ModalStands /\ BoundOrTold)
  BY EachBehaves, AgentFormsStart, AgentFormsStep, PTL
<1>5. Spec => []JobsDeskInv
  BY EachBehaves, JobsDeskStarts, JobsDeskSteps, PTL
<1>6. Spec => []JobDrawerInv
  BY EachBehaves, JobDrawerStarts, JobDrawerSteps, PTL
<1>7. Spec => []ContractInv
  BY EachBehaves, ContractStarts, ContractSteps, PTL
<1>8. /\ CallInv /\ ChatInv /\ DeskInv /\ BoundOrTold /\ JobsDeskInv /\ JobDrawerInv
      /\ ContractInv
      => OutcomesAreTold
  BY CallSound, DeskSound, JobDrawerSound, ContractSound
     DEF ChatInv, JobsDeskInv, OutcomesAreTold
<1> QED
  BY <1>1, <1>2, <1>3, <1>4, <1>5, <1>6, <1>7, <1>8, PTL
=============================================================================
