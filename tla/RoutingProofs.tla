--------------------------- MODULE RoutingProofs -----------------------------
(*****************************************************************************)
(* Theorems of ProviderRouting, for any number of tasks and providers and    *)
(* all limits and thresholds, and of ExecutionMonitor, for any number of     *)
(* executions and steering messages, all limits, windows and budgets.        *)
(* Tasks need not be finite: the tasks that hold a permit, or probe, are,    *)
(* which the invariants say of them.                                         *)
(*****************************************************************************)
EXTENDS ProviderRouting, ExecutionMonitor, FiniteSetTheorems, SequenceTheorems,
        WellFoundedInduction, TLAPS

-----------------------------------------------------------------------------
(* Providers, semaphores and breakers.                                       *)

LEMMA Thresholds ==
  /\ MaxConcurrent \in Nat \ {0} /\ FailureThreshold \in Nat \ {0}
  /\ HalfOpenMaxAttempts \in Nat \ {0} /\ SuccessThresholdToClose \in Nat \ {0}
  BY RoutingAssumption

\* The methods of a breaker keep its counters within the thresholds.
LEMMA BreakerSteps ==
  ASSUME NEW b \in Breaker, NEW t \in Tasks
  PROVE  /\ maybeTransition(b) \in Breaker
         /\ canExecute(b) => acquireHalfOpenSlot(b, t) \in Breaker
         /\ recordSuccess(b, t) \in Breaker
         /\ \A counted \in BOOLEAN : recordFailure(b, t, counted) \in Breaker
         /\ Lose(b, t) \in Breaker
<1>1. ASSUME NEW c \in Breaker
      PROVE  /\ maybeTransition(c) \in Breaker
             /\ Trip(c) \in Breaker /\ Closed \in Breaker
             /\ Told(c, t) \in Breaker /\ Lose(c, t) \in Breaker
             /\ FreeSlot(c) \in Breaker
             /\ Told(c, t).successes = c.successes /\ FreeSlot(c).successes = c.successes
  <2>1. Closed \in Breaker
    BY Thresholds DEF Closed, Breaker
  <2>2. ASSUME NEW d \in Breaker, NEW s \in {"CLOSED", "OPEN", "HALF_OPEN"}
        PROVE  /\ [d EXCEPT !.state = s] \in Breaker /\ [d EXCEPT !.elapsed = FALSE] \in Breaker
               /\ [d EXCEPT !.failures = 0] \in Breaker /\ [d EXCEPT !.successes = 0] \in Breaker
               /\ [d EXCEPT !.halfOpenActive = 0] \in Breaker
    <3>1. [d EXCEPT !.state = s] \in Breaker
      BY DEF Breaker
    <3>2. [d EXCEPT !.elapsed = FALSE] \in Breaker
      BY DEF Breaker
    <3>3. [d EXCEPT !.failures = 0] \in Breaker
      BY Thresholds DEF Breaker
    <3>4. [d EXCEPT !.successes = 0] \in Breaker
      BY Thresholds DEF Breaker
    <3>5. [d EXCEPT !.halfOpenActive = 0] \in Breaker
      BY Thresholds DEF Breaker
    <3> QED
      BY <3>1, <3>2, <3>3, <3>4, <3>5
  <2>3. Forgotten(c) \in Breaker
    BY DEF Forgotten, Breaker
  <2>4. Trip(c) \in Breaker
    BY <2>2, <2>3 DEF Trip
  <2>5. FreeSlot(c) \in Breaker /\ FreeSlot(c).successes = c.successes
    BY Thresholds DEF FreeSlot, Breaker
  <2>6. maybeTransition(c) \in Breaker
    BY <2>2, <2>3 DEF maybeTransition
  <2>7. Told(c, t) \in Breaker /\ Told(c, t).successes = c.successes
    BY DEF Told, Breaker
  <2>8. Lose(c, t) \in Breaker
    <3> DEFINE left == [c EXCEPT !.probing = @ \ {t}]
    <3>1. left \in Breaker /\ left.lost = c.lost
      BY DEF Breaker
    <3>2. [c EXCEPT !.probing = @ \ {t}, !.lost = @ + 1] = [left EXCEPT !.lost = @ + 1]
      BY DEF Breaker
    <3> HIDE DEF left
    <3>3. [left EXCEPT !.lost = @ + 1] \in Breaker
      BY <3>1 DEF Breaker
    <3> QED
      BY <3>2, <3>3 DEF Lose
  <2> QED
    BY <2>1, <2>4, <2>5, <2>6, <2>7, <2>8
<1>2. canExecute(b) => acquireHalfOpenSlot(b, t) \in Breaker
  <2> DEFINE one == [b EXCEPT !.probing = @ \cup {t}]
  <2>1. one \in Breaker /\ one.halfOpenActive = b.halfOpenActive
    BY DEF Breaker
  <2>2. [b EXCEPT !.halfOpenActive = @ + 1, !.probing = @ \cup {t}] = [one EXCEPT !.halfOpenActive = @ + 1]
    BY DEF Breaker
  <2> HIDE DEF one
  <2>3. one.halfOpenActive < HalfOpenMaxAttempts => [one EXCEPT !.halfOpenActive = @ + 1] \in Breaker
    BY <2>1, Thresholds DEF Breaker
  <2> QED
    BY <2>1, <2>2, <2>3 DEF canExecute, acquireHalfOpenSlot
<1> DEFINE c == maybeTransition(b)
           d == FreeSlot(Told(c, t))
<1>3. c \in Breaker /\ d \in Breaker /\ d.successes = c.successes
  BY <1>1
<1>4. Trip([FreeSlot(c) EXCEPT !.successes = 0]) \in Breaker
  <2> DEFINE f == FreeSlot(c)
  <2>1. f \in Breaker
    BY <1>1, <1>3
  <2> HIDE DEF f
  <2>2. [f EXCEPT !.successes = 0] \in Breaker
    BY <2>1, Thresholds DEF Breaker
  <2> QED
    BY <1>1, <2>2 DEF f
<1>5. c.successes + 1 < SuccessThresholdToClose
        => [FreeSlot(Told(c, t)) EXCEPT !.successes = c.successes + 1] \in Breaker
  <2> HIDE DEF d, c
  <2>1. c.successes + 1 < SuccessThresholdToClose
          => [d EXCEPT !.successes = c.successes + 1] \in Breaker
    BY <1>3, Thresholds DEF Breaker
  <2> QED
    BY <2>1 DEF d
<1> HIDE DEF c, d
<1>6. c.failures + 1 < FailureThreshold => [c EXCEPT !.failures = @ + 1] \in Breaker
  BY <1>3, Thresholds DEF Breaker
<1>7. c.successes \in Nat /\ c.failures \in Nat
  BY <1>3, Thresholds DEF Breaker
<1>8. recordSuccess(b, t) \in Breaker
  BY <1>1, <1>3, <1>5, <1>7, Thresholds DEF recordSuccess, c
<1>9. ASSUME NEW counted \in BOOLEAN PROVE recordFailure(b, t, counted) \in Breaker
  <2>1. recordFailure(b, t, counted) =
          IF ~counted THEN Lose(c, t)
          ELSE IF c.state = "OPEN" THEN c
          ELSE IF c.state = "HALF_OPEN"
          THEN Trip([FreeSlot(c) EXCEPT !.successes = 0])
          ELSE IF c.failures + 1 >= FailureThreshold THEN Trip(c)
          ELSE [c EXCEPT !.failures = @ + 1]
    BY Zenon DEF recordFailure, c
  <2>2. Lose(c, t) \in Breaker /\ Trip(c) \in Breaker
    BY <1>1, <1>3
  <2>3. c.failures + 1 < FailureThreshold \/ c.failures + 1 >= FailureThreshold
    BY <1>7, Thresholds
  <2> QED
    BY <1>3, <1>4, <1>6, <2>1, <2>2, <2>3, Zenon
<1> QED
  BY <1>1, <1>2, <1>8, <1>9

-----------------------------------------------------------------------------
(*****************************************************************************)
(* The queue of a semaphore: q holds each task of S once, and no other.      *)
(*****************************************************************************)

Queued(q, S) ==
  /\ \A t \in Tasks : t \in S <=> \E i \in 1..Len(q) : q[i] = t
  /\ \A i, k \in 1..Len(q) : q[i] = q[k] => i = k

LEMMA EmptyQueue ==
  Queued(<<>>, {})
  BY DEF Queued

\* waiters.push
LEMMA AppendQueued ==
  ASSUME NEW q \in Seq(Tasks), NEW S, Queued(q, S), NEW t \in Tasks, t \notin S
  PROVE  Append(q, t) \in Seq(Tasks) /\ Queued(Append(q, t), S \cup {t})
<1>1. /\ Append(q, t) \in Seq(Tasks) /\ Len(Append(q, t)) = Len(q) + 1 /\ Len(q) \in Nat
      /\ Append(q, t)[Len(q) + 1] = t
      /\ \A i \in 1..Len(q) : Append(q, t)[i] = q[i] /\ q[i] # t
  BY DEF Queued
<1> QED
  BY <1>1 DEF Queued

\* waiters.shift
LEMMA ShiftQueued ==
  ASSUME NEW q \in Seq(Tasks), NEW S, Queued(q, S), q # <<>>
  PROVE  /\ Head(q) \in Tasks /\ Head(q) \in S
         /\ Tail(q) \in Seq(Tasks) /\ Queued(Tail(q), S \ {Head(q)})
<1>1. /\ Len(q) \in Nat \ {0} /\ Head(q) = q[1] /\ q[1] \in Tasks
      /\ Tail(q) \in Seq(Tasks) /\ Len(Tail(q)) = Len(q) - 1
      /\ \A i \in 1..(Len(q) - 1) : Tail(q)[i] = q[i + 1]
  OBVIOUS
<1>2. \A i \in 2..Len(q) : i - 1 \in 1..(Len(q) - 1) /\ Tail(q)[i - 1] = q[i]
  BY <1>1
<1>3. \A t \in Tasks : t \in S \ {Head(q)} <=> \E i \in 1..Len(Tail(q)) : Tail(q)[i] = t
  <2>1. ASSUME NEW t \in Tasks, t \in S, t # Head(q) PROVE \E i \in 1..Len(Tail(q)) : Tail(q)[i] = t
    <3>1. PICK i \in 1..Len(q) : q[i] = t
      BY <2>1 DEF Queued
    <3>2. i # 1
      BY <1>1, <2>1, <3>1
    <3> QED
      BY <1>1, <1>2, <3>1, <3>2
  <2>2. ASSUME NEW i \in 1..Len(Tail(q)), Tail(q)[i] \in Tasks PROVE Tail(q)[i] \in S \ {Head(q)}
    <3>1. /\ i + 1 \in 1..Len(q) /\ 1 \in 1..Len(q) /\ i + 1 # 1
          /\ Tail(q)[i] = q[i + 1]
      BY <1>1
    <3> QED
      BY <1>1, <2>2, <3>1 DEF Queued
  <2> QED
    BY <2>1, <2>2
<1>4. \A i, k \in 1..Len(Tail(q)) : Tail(q)[i] = Tail(q)[k] => i = k
  BY <1>1 DEF Queued
<1>5. Head(q) \in S
  BY <1>1 DEF Queued
<1> QED
  BY <1>1, <1>3, <1>4, <1>5 DEF Queued

\* waiters.splice(i, 1)
LEMMA RemovedAt ==
  ASSUME NEW q \in Seq(Tasks), NEW i \in 1..Len(q)
  PROVE  /\ RemoveAt(q, i) \in Seq(Tasks) /\ Len(RemoveAt(q, i)) = Len(q) - 1
         /\ \A k \in 1..(Len(q) - 1) : RemoveAt(q, i)[k] = q[IF k < i THEN k ELSE k + 1]
<1> DEFINE a == SubSeq(q, 1, i - 1)
           b == SubSeq(q, i + 1, Len(q))
<1>1. /\ Len(q) \in Nat /\ i - 1 \in Int /\ i + 1 \in Int /\ Len(q) \in Int
      /\ \A k \in 1..Len(q) : q[k] \in Tasks
  OBVIOUS
<1>2. /\ a \in Seq(Tasks) /\ Len(a) = i - 1
      /\ \A k \in 1..(i - 1) : a[k] = q[k]
  <2>1. \A k \in 1..(i - 1) : q[k] \in Tasks
    BY <1>1
  <2>2. /\ a \in Seq(Tasks) /\ Len(a) = IF 1 <= i - 1 THEN i - 1 - 1 + 1 ELSE 0
        /\ \A k \in 1..(i - 1 - 1 + 1) : a[k] = q[1 + k - 1]
    BY <1>1, <2>1, SubSeqProperties
  <2> QED
    BY <1>1, <2>2
<1>3. /\ b \in Seq(Tasks) /\ Len(b) = Len(q) - i
      /\ \A k \in 1..(Len(q) - i) : b[k] = q[k + i]
  <2>1. \A k \in (i + 1)..Len(q) : q[k] \in Tasks
    BY <1>1
  <2>2. /\ b \in Seq(Tasks) /\ Len(b) = IF i + 1 <= Len(q) THEN Len(q) - (i + 1) + 1 ELSE 0
        /\ \A k \in 1..(Len(q) - (i + 1) + 1) : b[k] = q[(i + 1) + k - 1]
    BY <1>1, <2>1, SubSeqProperties
  <2> QED
    BY <1>1, <2>2
<1> HIDE DEF a, b
<1>4. /\ a \o b \in Seq(Tasks) /\ Len(a \o b) = Len(q) - 1
      /\ \A k \in 1..(Len(q) - 1) : (a \o b)[k] = q[IF k < i THEN k ELSE k + 1]
  <2>1. /\ a \o b \in Seq(Tasks) /\ Len(a \o b) = Len(a) + Len(b)
        /\ \A k \in 1..(Len(a) + Len(b)) :
             (a \o b)[k] = IF k <= Len(a) THEN a[k] ELSE b[k - Len(a)]
    BY <1>2, <1>3, ConcatProperties
  <2> QED
    BY <1>1, <1>2, <1>3, <2>1
<1> QED
  BY <1>4 DEF RemoveAt, a, b

LEMMA SpliceQueued ==
  ASSUME NEW q \in Seq(Tasks), NEW S, Queued(q, S), NEW i \in 1..Len(q)
  PROVE  /\ RemoveAt(q, i) \in Seq(Tasks)
         /\ Queued(RemoveAt(q, i), S \ {q[i]})
<1> DEFINE r == RemoveAt(q, i)
<1>1. /\ Len(q) \in Nat \ {0} /\ r \in Seq(Tasks) /\ Len(r) = Len(q) - 1
      /\ \A k \in 1..(Len(q) - 1) : r[k] = q[IF k < i THEN k ELSE k + 1]
  <2>1. Len(q) \in Nat \ {0}
    OBVIOUS
  <2>2. /\ r \in Seq(Tasks) /\ Len(r) = Len(q) - 1
        /\ \A k \in 1..(Len(q) - 1) : r[k] = q[IF k < i THEN k ELSE k + 1]
    BY RemovedAt
  <2> QED
    BY <2>1, <2>2
<1> HIDE DEF r
<1>2. ASSUME NEW t \in Tasks, t \in S, t # q[i] PROVE \E k \in 1..Len(r) : r[k] = t
  <2>1. PICK k \in 1..Len(q) : q[k] = t
    BY <1>2 DEF Queued
  <2>2. CASE k < i
    BY <1>1, <2>1, <2>2
  <2>3. CASE k > i
    <3>1. k - 1 \in 1..Len(r) /\ ~(k - 1 < i) /\ (k - 1) + 1 = k
      BY <1>1, <2>1, <2>3
    <3> QED
      BY <1>1, <2>1, <3>1
  <2> QED
    BY <1>2, <2>1, <2>2, <2>3
<1>3. ASSUME NEW k \in 1..Len(r), r[k] \in Tasks PROVE r[k] \in S \ {q[i]}
  <2>1. PICK j \in 1..Len(q) : r[k] = q[j] /\ j # i
    <3>1. k \in 1..(Len(q) - 1) /\ k + 1 \in 1..Len(q) /\ k \in 1..Len(q)
      BY <1>1
    <3> QED
      BY <1>1, <3>1
  <2> QED
    BY <1>3, <2>1 DEF Queued
<1>4. ASSUME NEW j \in 1..Len(r), NEW k \in 1..Len(r), r[j] = r[k] PROVE j = k
  <2> DEFINE from(l) == IF l < i THEN l ELSE l + 1
  <2>1. /\ from(j) \in 1..Len(q) /\ from(k) \in 1..Len(q)
        /\ r[j] = q[from(j)] /\ r[k] = q[from(k)]
        /\ from(j) = from(k) => j = k
    BY <1>1
  <2> HIDE DEF from
  <2> QED
    BY <1>4, <2>1 DEF Queued
<1> QED
  BY <1>1, <1>2, <1>3, <1>4 DEF Queued, r

-----------------------------------------------------------------------------
(*****************************************************************************)
(* The semaphore of one provider.  Its count is about the set of holders, so *)
(* the invariant also says that this set is finite; and a permit is passed   *)
(* on at the provider of the task that gives it back, so a task that was     *)
(* routed must be at one.                                                    *)
(*****************************************************************************)

Waiting(p) == {t \in Tasks : At(t, "waiting") /\ task[t].provider = p}

Semaphore(p) ==
  /\ IsFiniteSet(Holders(p)) /\ active[p] = Cardinality(Holders(p))
  /\ active[p] <= MaxConcurrent
  /\ waiters[p] # <<>> => active[p] = MaxConcurrent
  /\ Queued(waiters[p], Waiting(p))

Placed == \A t \in Tasks : At(t, "idle") \/ task[t].provider \in Providers

Semaphores == TypeOK /\ Placed /\ \A p \in Providers : Semaphore(p)

LEMMA SemaphoresAreExact ==
  Semaphores => SemaphoreIsExact
<1> SUFFICES ASSUME Semaphores PROVE PermitsAreExact /\ WaitersAreQueued
  BY DEF Semaphores, SemaphoreIsExact
<1>1. PermitsAreExact
  BY DEF Semaphores, Semaphore, PermitsAreExact
<1>2. WaitersAreQueued
  BY DEF Semaphores, Semaphore, WaitersAreQueued, Queued, Waiting
<1> QED
  BY <1>1, <1>2

\* A semaphore whose holders and waiters stay is as exact as it was.
LEMMA SemaphoreStays ==
  ASSUME NEW p \in Providers, Semaphore(p), active'[p] = active[p], waiters'[p] = waiters[p],
         Holders(p)' = Holders(p), Waiting(p)' = Waiting(p)
  PROVE  Semaphore(p)'
  BY DEF Semaphore

\* One task moves.
LEMMA TaskMoves ==
  ASSUME TypeOK, NEW t \in Tasks, NEW r \in TaskState, task' = [task EXCEPT ![t] = r], NEW p
  PROVE  /\ task' \in [Tasks -> TaskState]
         /\ Holders(p)' = IF r.provider = p /\ r.pc \in {"holding", "recorded"}
                          THEN Holders(p) \cup {t} ELSE Holders(p) \ {t}
         /\ Waiting(p)' = IF r.provider = p /\ r.pc = "waiting"
                          THEN Waiting(p) \cup {t} ELSE Waiting(p) \ {t}
<1>1. task' \in [Tasks -> TaskState] /\ task'[t] = r /\ \A u \in Tasks : u # t => task'[u] = task[u]
  BY DEF TypeOK
<1>2. Holders(p)' = {u \in Tasks : task'[u].provider = p /\ task'[u].pc \in {"holding", "recorded"}}
  BY DEF Holders
<1>3. Waiting(p)' = {u \in Tasks : task'[u].pc = "waiting" /\ task'[u].provider = p}
  BY DEF Waiting, At
<1> QED
  BY <1>1, <1>2, <1>3 DEF Holders, Waiting, At

\* A task moves and neither takes nor leaves a permit or a place in the queue.
LEMMA SemaphoresStay ==
  ASSUME Semaphores, breaker' \in [Providers -> Breaker], UNCHANGED <<active, waiters>>,
         NEW t \in Tasks, NEW r \in TaskState, task' = [task EXCEPT ![t] = r],
         r.provider \in Providers,
         \/ At(t, "idle") /\ r.pc = "routed"
         \/ At(t, "holding") /\ r.pc = "recorded" /\ r.provider = task[t].provider
  PROVE  Semaphores'
<1>1. task' \in [Tasks -> TaskState]
  BY TaskMoves DEF Semaphores
<1>2. TypeOK'
  BY <1>1 DEF Semaphores, TypeOK
<1>3. Placed'
  BY DEF Placed, Semaphores, At, TypeOK
<1>4. ASSUME NEW p \in Providers PROVE Semaphore(p)'
  <2>1. /\ Holders(p)' = IF r.provider = p /\ r.pc \in {"holding", "recorded"}
                         THEN Holders(p) \cup {t} ELSE Holders(p) \ {t}
        /\ Waiting(p)' = IF r.provider = p /\ r.pc = "waiting"
                         THEN Waiting(p) \cup {t} ELSE Waiting(p) \ {t}
    BY TaskMoves DEF Semaphores
  <2>2. Holders(p)' = Holders(p) /\ Waiting(p)' = Waiting(p)
    BY <2>1 DEF Holders, Waiting, At
  <2> QED
    BY <2>2, SemaphoreStays DEF Semaphores
<1> QED
  BY <1>2, <1>3, <1>4 DEF Semaphores

\* Nothing happens to the tasks.
LEMMA OnlyBreakers ==
  ASSUME Semaphores, breaker' \in [Providers -> Breaker], UNCHANGED <<active, waiters, task>>
  PROVE  Semaphores'
<1>1. TypeOK' /\ Placed'
  BY DEF Semaphores, TypeOK, Placed, At
<1>2. ASSUME NEW p \in Providers PROVE Semaphore(p)'
  BY SemaphoreStays DEF Semaphores, Holders, Waiting, At
<1> QED
  BY <1>1, <1>2 DEF Semaphores

LEMMA AcquireKeeps ==
  ASSUME Semaphores, NEW t \in Tasks, acquirePermit(t)
  PROVE  Semaphores'
<1> DEFINE p == task[t].provider
<1>1. p \in Providers /\ task[t] \in TaskState /\ task[t].pc = "routed"
  BY DEF acquirePermit, Semaphores, Placed, At, TypeOK
<1>2. active[p] \in 0..MaxConcurrent /\ waiters[p] \in Seq(Tasks)
  BY <1>1 DEF Semaphores, TypeOK
<1>3. Semaphore(p) /\ t \notin Holders(p) /\ t \notin Waiting(p)
  BY <1>1 DEF Semaphores, Holders, Waiting, At
<1> HIDE DEF p
<1>4. CASE /\ active[p] < MaxConcurrent /\ active' = [active EXCEPT ![p] = @ + 1]
           /\ task' = [task EXCEPT ![t].pc = "holding"] /\ UNCHANGED waiters
  <2> DEFINE r == [task[t] EXCEPT !.pc = "holding"]
  <2>1. r \in TaskState /\ r.provider = p /\ r.pc = "holding" /\ task' = [task EXCEPT ![t] = r]
    BY <1>1, <1>4 DEF TaskState, p
  <2> HIDE DEF r
  <2>2. TypeOK'
    <3>1. active' \in [Providers -> 0..MaxConcurrent]
      BY <1>1, <1>2, <1>4, Thresholds DEF Semaphores, TypeOK
    <3>2. task' \in [Tasks -> TaskState]
      BY <2>1, TaskMoves DEF Semaphores
    <3> QED
      BY <1>4, <3>1, <3>2 DEF acquirePermit, Semaphores, TypeOK
  <2>3. Placed'
    BY <1>1, <2>1 DEF Placed, Semaphores, TypeOK, At
  <2>4. ASSUME NEW q \in Providers PROVE Semaphore(q)'
    <3>1. /\ Holders(q)' = IF q = p THEN Holders(q) \cup {t} ELSE Holders(q) \ {t}
          /\ Waiting(q)' = Waiting(q) \ {t}
      BY <2>1, TaskMoves DEF Semaphores
    <3>2. CASE q # p
      <4>1. Holders(q)' = Holders(q) /\ Waiting(q)' = Waiting(q)
        BY <1>1, <3>1, <3>2 DEF Holders, Waiting, p, At
      <4>2. active'[q] = active[q]
        BY <1>4, <3>2 DEF Semaphores, TypeOK
      <4> QED
        BY <1>4, <4>1, <4>2, SemaphoreStays DEF Semaphores
    <3>3. CASE q = p
      <4>1. IsFiniteSet(Holders(q)') /\ Cardinality(Holders(q)') = Cardinality(Holders(q)) + 1
        BY <1>3, <3>1, <3>3, FS_AddElement DEF Semaphore
      <4>2. active'[q] = active[q] + 1 /\ waiters[q] = <<>> /\ Waiting(q)' = Waiting(q)
        BY <1>1, <1>2, <1>3, <1>4, <3>1, <3>3 DEF Semaphores, TypeOK, Semaphore
      <4> QED
        BY <1>2, <1>3, <1>4, <3>3, <4>1, <4>2, Thresholds DEF Semaphore
    <3> QED
      BY <3>2, <3>3
  <2> QED
    BY <2>2, <2>3, <2>4 DEF Semaphores
<1>5. CASE /\ active[p] >= MaxConcurrent /\ waiters' = [waiters EXCEPT ![p] = Append(@, t)]
           /\ task' = [task EXCEPT ![t].pc = "waiting"] /\ UNCHANGED active
  <2> DEFINE r == [task[t] EXCEPT !.pc = "waiting"]
  <2>1. r \in TaskState /\ r.provider = p /\ r.pc = "waiting" /\ task' = [task EXCEPT ![t] = r]
    BY <1>1, <1>5 DEF TaskState, p
  <2> HIDE DEF r
  <2>2. Append(waiters[p], t) \in Seq(Tasks) /\ Queued(Append(waiters[p], t), Waiting(p) \cup {t})
    BY <1>2, <1>3, AppendQueued DEF Semaphore
  <2>3. TypeOK'
    <3>1. task' \in [Tasks -> TaskState]
      BY <2>1, TaskMoves DEF Semaphores
    <3> QED
      BY <1>1, <1>5, <2>2, <3>1 DEF acquirePermit, Semaphores, TypeOK
  <2>4. Placed'
    BY <1>1, <2>1 DEF Placed, Semaphores, TypeOK, At
  <2>5. ASSUME NEW q \in Providers PROVE Semaphore(q)'
    <3>1. /\ Holders(q)' = Holders(q) \ {t}
          /\ Waiting(q)' = IF q = p THEN Waiting(q) \cup {t} ELSE Waiting(q) \ {t}
      BY <2>1, TaskMoves DEF Semaphores
    <3>2. Holders(q)' = Holders(q)
      BY <1>1, <3>1 DEF Holders, p
    <3>3. CASE q # p
      <4>1. Waiting(q)' = Waiting(q) /\ waiters'[q] = waiters[q]
        BY <1>5, <3>1, <3>3 DEF Waiting, p, Semaphores, TypeOK
      <4> QED
        BY <1>5, <3>2, <4>1, SemaphoreStays DEF Semaphores
    <3>4. CASE q = p
      <4>1. waiters'[q] = Append(waiters[q], t) /\ active'[q] = active[q] /\ active[q] = MaxConcurrent
        BY <1>1, <1>2, <1>5, <3>4, Thresholds DEF Semaphores, TypeOK
      <4> QED
        BY <1>3, <2>2, <3>1, <3>2, <3>4, <4>1 DEF Semaphore
    <3> QED
      BY <3>3, <3>4
  <2> QED
    BY <2>3, <2>4, <2>5 DEF Semaphores
<1> QED
  BY <1>4, <1>5 DEF acquirePermit, p

LEMMA UnrecordedKeeps ==
  ASSUME Semaphores, NEW t \in Tasks, Unrecorded(t)
  PROVE  breaker' \in [Providers -> Breaker]
<1> DEFINE p == task[t].provider
           n == Lose(breaker[p], t)
<1>1. breaker' = [breaker EXCEPT ![p] = n]
  BY DEF Unrecorded
<1>2. p \in Providers => n \in Breaker
  BY BreakerSteps DEF Semaphores, TypeOK
<1> HIDE DEF n, p
<1> QED
  BY <1>1, <1>2 DEF Semaphores, TypeOK

LEMMA TimeoutKeeps ==
  ASSUME Semaphores, NEW t \in Tasks, PermitTimeout(t)
  PROVE  Semaphores'
<1> DEFINE p == task[t].provider
<1>1. p \in Providers /\ task[t].pc = "waiting" /\ Idle \in TaskState /\ Idle.pc = "idle"
  BY DEF PermitTimeout, Semaphores, Placed, At, TypeOK, Idle, TaskState
<1>2. waiters[p] \in Seq(Tasks) /\ Semaphore(p) /\ t \in Waiting(p) /\ t \notin Holders(p)
  BY <1>1 DEF Semaphores, TypeOK, Waiting, Holders, At
<1>3. PICK i \in 1..Len(waiters[p]) :
        waiters[p][i] = t /\ waiters' = [waiters EXCEPT ![p] = RemoveAt(@, i)]
  BY DEF PermitTimeout
<1>4. task' = [task EXCEPT ![t] = Idle] /\ UNCHANGED active
  BY DEF PermitTimeout
<1>9. breaker' \in [Providers -> Breaker]
  BY UnrecordedKeeps DEF PermitTimeout
<1> HIDE DEF p
<1>5. RemoveAt(waiters[p], i) \in Seq(Tasks) /\ Queued(RemoveAt(waiters[p], i), Waiting(p) \ {t})
  BY <1>2, <1>3, SpliceQueued DEF Semaphore
<1>6. TypeOK'
  <2>1. task' \in [Tasks -> TaskState]
    BY <1>1, <1>4, TaskMoves DEF Semaphores
  <2> QED
    BY <1>1, <1>3, <1>4, <1>5, <1>9, <2>1 DEF Semaphores, TypeOK
<1>7. Placed'
  BY <1>1, <1>4 DEF Placed, Semaphores, TypeOK, At
<1>8. ASSUME NEW q \in Providers PROVE Semaphore(q)'
  <2>1. Holders(q)' = Holders(q) \ {t} /\ Waiting(q)' = Waiting(q) \ {t}
    BY <1>1, <1>4, TaskMoves DEF Semaphores
  <2>2. Holders(q)' = Holders(q)
    BY <1>1, <2>1 DEF Holders
  <2>3. CASE q # p
    <3>1. Waiting(q)' = Waiting(q) /\ waiters'[q] = waiters[q]
      BY <1>3, <2>1, <2>3 DEF Waiting, p, Semaphores, TypeOK
    <3> QED
      BY <1>4, <2>2, <3>1, SemaphoreStays DEF Semaphores
  <2>4. CASE q = p
    <3>1. waiters'[q] = RemoveAt(waiters[q], i) /\ active'[q] = active[q] /\ waiters[q] # <<>>
      BY <1>1, <1>2, <1>3, <1>4, <2>4 DEF Semaphores, TypeOK
    <3> QED
      BY <1>2, <1>5, <2>1, <2>2, <2>4, <3>1 DEF Semaphore
  <2> QED
    BY <2>3, <2>4
<1> QED
  BY <1>6, <1>7, <1>8 DEF Semaphores

\* The permit is given back, or handed over to the first of those that wait.
LEMMA ReleaseKeeps ==
  ASSUME Semaphores, NEW t \in Tasks, task[t].pc \in {"holding", "recorded"}, release(t),
         breaker' \in [Providers -> Breaker]
  PROVE  Semaphores'
<1> DEFINE p == task[t].provider
<1>1. p \in Providers /\ Idle \in TaskState /\ Idle.pc = "idle"
  BY DEF Semaphores, Placed, At, TypeOK, Idle, TaskState
<1>2. /\ waiters[p] \in Seq(Tasks) /\ active[p] \in 0..MaxConcurrent /\ Semaphore(p)
      /\ t \notin Waiting(p) /\ t \in Holders(p)
  BY <1>1 DEF Semaphores, TypeOK, Waiting, Holders, At
<1>3. /\ IsFiniteSet(Holders(p) \ {t}) /\ Cardinality(Holders(p) \ {t}) = active[p] - 1
      /\ active[p] > 0
  <2>1. IsFiniteSet(Holders(p) \ {t}) /\ Cardinality(Holders(p) \ {t}) = Cardinality(Holders(p)) - 1
    BY <1>2, FS_RemoveElement DEF Semaphore
  <2>2. Cardinality(Holders(p) \ {t}) \in Nat
    BY <2>1, FS_CardinalityType
  <2> QED
    BY <1>2, <2>1, <2>2 DEF Semaphore
<1> HIDE DEF p
<1>4. CASE /\ waiters[p] = <<>> /\ active' = [active EXCEPT ![p] = @ - 1]
           /\ task' = [task EXCEPT ![t] = Idle] /\ UNCHANGED waiters
  <2>1. TypeOK'
    <3>1. active' \in [Providers -> 0..MaxConcurrent]
      BY <1>1, <1>2, <1>3, <1>4, Thresholds DEF Semaphores, TypeOK
    <3>2. task' \in [Tasks -> TaskState]
      BY <1>1, <1>4, TaskMoves DEF Semaphores
    <3> QED
      BY <1>4, <3>1, <3>2 DEF Semaphores, TypeOK
  <2>2. Placed'
    BY <1>1, <1>4 DEF Placed, Semaphores, TypeOK, At
  <2>3. ASSUME NEW q \in Providers PROVE Semaphore(q)'
    <3>1. Holders(q)' = Holders(q) \ {t} /\ Waiting(q)' = Waiting(q) \ {t}
      BY <1>1, <1>4, TaskMoves DEF Semaphores
    <3>2. Waiting(q)' = Waiting(q)
      BY <3>1 DEF Waiting, At
    <3>3. CASE q # p
      <4>1. Holders(q)' = Holders(q) /\ active'[q] = active[q]
        BY <1>4, <3>1, <3>3 DEF Holders, p, Semaphores, TypeOK
      <4> QED
        BY <1>4, <3>2, <4>1, SemaphoreStays DEF Semaphores
    <3>4. CASE q = p
      <4>1. active'[q] = active[q] - 1 /\ waiters'[q] = <<>>
        BY <1>1, <1>4, <3>4 DEF Semaphores, TypeOK
      <4>2. IsFiniteSet(Holders(q)') /\ active'[q] = Cardinality(Holders(q)')
        BY <1>3, <3>1, <3>4, <4>1
      <4>3. active'[q] <= MaxConcurrent
        BY <1>2, <3>4, <4>1, Thresholds
      <4>4. Queued(waiters'[q], Waiting(q)')
        BY <1>2, <1>4, <3>2, <3>4, <4>1 DEF Semaphore
      <4> QED
        BY <4>1, <4>2, <4>3, <4>4 DEF Semaphore
    <3> QED
      BY <3>3, <3>4
  <2> QED
    BY <2>1, <2>2, <2>3 DEF Semaphores
<1>5. CASE /\ waiters[p] # <<>> /\ waiters' = [waiters EXCEPT ![p] = Tail(@)]
           /\ task' = [task EXCEPT ![t] = Idle, ![Head(waiters[p])].pc = "holding"]
           /\ UNCHANGED active
  <2> DEFINE h == Head(waiters[p])
  <2>1. /\ h \in Tasks /\ h \in Waiting(p) /\ Tail(waiters[p]) \in Seq(Tasks)
        /\ Queued(Tail(waiters[p]), Waiting(p) \ {h})
    BY <1>2, <1>5, ShiftQueued DEF Semaphore
  <2>2. h # t /\ task[h].pc = "waiting" /\ task[h].provider = p /\ task[h] \in TaskState
    BY <1>2, <2>1 DEF Waiting, At, Semaphores, TypeOK
  <2> DEFINE r == [task[h] EXCEPT !.pc = "holding"]
  <2>3. r \in TaskState /\ r.provider = p /\ r.pc = "holding"
    BY <2>2 DEF TaskState
  <2>4. task' = [[task EXCEPT ![t] = Idle] EXCEPT ![h] = [@ EXCEPT !.pc = "holding"]]
    BY <1>5
  <2>5. /\ task' \in [Tasks -> TaskState] /\ task'[t] = Idle /\ task'[h] = r
        /\ \A u \in Tasks : u # t /\ u # h => task'[u] = task[u]
    BY <1>1, <2>1, <2>2, <2>3, <2>4 DEF Semaphores, TypeOK
  <2> HIDE DEF h, r
  <2>6. TypeOK'
    BY <1>1, <1>5, <2>1, <2>5 DEF Semaphores, TypeOK
  <2>7. Placed'
    BY <1>1, <2>3, <2>5 DEF Placed, Semaphores, At
  <2>8. ASSUME NEW q \in Providers PROVE Semaphore(q)'
    <3>1. /\ Holders(q)' = {u \in Tasks : task'[u].provider = q /\ task'[u].pc \in {"holding", "recorded"}}
          /\ Waiting(q)' = {u \in Tasks : task'[u].pc = "waiting" /\ task'[u].provider = q}
      BY DEF Holders, Waiting, At
    <3>2. CASE q # p
      <4>1. Holders(q)' = Holders(q)
        BY <1>1, <2>2, <2>3, <2>5, <3>1, <3>2 DEF Holders, p
      <4>2. Waiting(q)' = Waiting(q)
        BY <1>1, <2>2, <2>3, <2>5, <3>1, <3>2 DEF Waiting, At, p
      <4>3. waiters'[q] = waiters[q]
        BY <1>5, <3>2 DEF Semaphores, TypeOK
      <4> QED
        BY <1>5, <4>1, <4>2, <4>3, SemaphoreStays DEF Semaphores
    <3>3. CASE q = p
      <4>1. Holders(q)' = (Holders(q) \ {t}) \cup {h}
        BY <1>1, <2>1, <2>2, <2>3, <2>5, <3>1, <3>3 DEF Holders, p
      <4>2. Waiting(q)' = Waiting(q) \ {h}
        BY <1>1, <1>2, <2>2, <2>3, <2>5, <3>1, <3>3 DEF Waiting, At, p
      <4>3. h \notin Holders(q) \ {t}
        BY <2>2 DEF Holders
      <4>4. IsFiniteSet(Holders(q)') /\ Cardinality(Holders(q)') = active[q]
        <5>1. IsFiniteSet(Holders(q) \ {t}) /\ Cardinality(Holders(q) \ {t}) = active[q] - 1
          BY <1>3, <3>3
        <5>2. /\ IsFiniteSet((Holders(q) \ {t}) \cup {h})
              /\ Cardinality((Holders(q) \ {t}) \cup {h}) = Cardinality(Holders(q) \ {t}) + 1
          BY <4>3, <5>1, FS_AddElement
        <5> QED
          BY <1>2, <3>3, <4>1, <5>1, <5>2
      <4>5. waiters'[q] = Tail(waiters[q]) /\ active'[q] = active[q] /\ active[q] = MaxConcurrent
        BY <1>1, <1>2, <1>5, <3>3 DEF Semaphores, TypeOK, Semaphore
      <4> QED
        BY <2>1, <3>3, <4>2, <4>4, <4>5, Thresholds DEF Semaphore
    <3> QED
      BY <3>2, <3>3
  <2> QED
    BY <2>6, <2>7, <2>8 DEF Semaphores
<1> QED
  BY <1>4, <1>5 DEF release, p

LEMMA RoutingKeeps ==
  ASSUME Semaphores, NEW t \in Tasks, Routing(t)
  PROVE  Semaphores'
<1>1. ASSUME NEW p \in Providers, Route(t, p) PROVE Semaphores'
  <2> DEFINE r == [pc |-> "routed", provider |-> p]
  <2>1. /\ r \in TaskState /\ r.pc = "routed" /\ r.provider = p
        /\ task' = [task EXCEPT ![t] = r] /\ At(t, "idle") /\ UNCHANGED <<active, waiters>>
    BY <1>1 DEF TaskState, Route
  <2>2. breaker' \in [Providers -> Breaker]
    BY <1>1, BreakerSteps DEF Route, Semaphores, TypeOK
  <2> QED
    BY <2>1, <2>2, SemaphoresStay
<1>2. ASSUME NEW p \in Providers, LookUp(t, p) PROVE Semaphores'
  <2> DEFINE r == [pc |-> "routed", provider |-> p]
  <2>1. /\ r \in TaskState /\ r.pc = "routed" /\ r.provider = p
        /\ task' = [task EXCEPT ![t] = r] /\ At(t, "idle") /\ UNCHANGED <<breaker, active, waiters>>
    BY <1>2 DEF TaskState, LookUp
  <2> QED
    BY <2>1, SemaphoresStay DEF Semaphores, TypeOK
<1>3. ASSUME RouteExhausted(t) PROVE Semaphores'
  <2>1. breaker' \in [Providers -> Breaker]
    BY <1>3, BreakerSteps DEF RouteExhausted, Semaphores, TypeOK
  <2> QED
    BY <1>3, <2>1, OnlyBreakers DEF RouteExhausted
<1> QED
  BY <1>1, <1>2, <1>3 DEF Routing

LEMMA ExecutingKeeps ==
  ASSUME Semaphores, NEW t \in Tasks, Executing(t)
  PROVE  Semaphores'
<1>1. ASSUME ExecuteThrows(t) PROVE Semaphores'
  BY <1>1, UnrecordedKeeps, ReleaseKeeps DEF ExecuteThrows, At
<1>2. ASSUME NEW success \in BOOLEAN, NEW counted \in BOOLEAN, recordOutcome(t, success, counted)
      PROVE  Semaphores'
  <2> DEFINE r == [task[t] EXCEPT !.pc = "recorded"]
  <2>1. /\ task[t] \in TaskState /\ task[t].provider \in Providers /\ At(t, "holding")
        /\ task' = [task EXCEPT ![t] = r] /\ UNCHANGED <<active, waiters>>
    BY <1>2 DEF recordOutcome, Semaphores, TypeOK, Placed, At
  <2>2. r \in TaskState /\ r.pc = "recorded" /\ r.provider = task[t].provider
    BY <2>1 DEF TaskState
  <2>3. breaker' \in [Providers -> Breaker]
    BY <1>2, <2>1, BreakerSteps DEF recordOutcome, Semaphores, TypeOK
  <2> QED
    BY <2>1, <2>2, <2>3, SemaphoresStay
<1> QED
  BY <1>1, <1>2 DEF Executing

LEMMA StepKeeps ==
  Semaphores /\ [Next]_vars => Semaphores'
<1> SUFFICES ASSUME Semaphores, [Next]_vars PROVE Semaphores'
  OBVIOUS
<1>1. ASSUME NEW p \in Providers, CooldownEnds(p) \/ FailureAges(p) PROVE Semaphores'
  <2>1. breaker[p] \in Breaker
    BY DEF Semaphores, TypeOK
  <2>2. /\ [breaker[p] EXCEPT !.elapsed = TRUE] \in Breaker
        /\ breaker[p].failures > 0 => [breaker[p] EXCEPT !.failures = @ - 1] \in Breaker
    <3>1. [breaker[p] EXCEPT !.elapsed = TRUE] \in Breaker
      BY <2>1 DEF Breaker
    <3>2. breaker[p].failures > 0 => [breaker[p] EXCEPT !.failures = @ - 1] \in Breaker
      BY <2>1, Thresholds DEF Breaker
    <3> QED
      BY <3>1, <3>2
  <2>3. breaker' \in [Providers -> Breaker] /\ UNCHANGED <<active, waiters, task>>
    BY <1>1, <2>2 DEF CooldownEnds, FailureAges, Semaphores, TypeOK
  <2> QED
    BY <2>3, OnlyBreakers
<1>2. ASSUME NEW t \in Tasks, Finish(t) PROVE Semaphores'
  BY <1>2, ReleaseKeeps DEF Finish, At, Semaphores, TypeOK
<1>3. ASSUME UNCHANGED vars PROVE Semaphores'
  BY <1>3, OnlyBreakers DEF vars, Semaphores, TypeOK
<1> QED
  BY <1>1, <1>2, <1>3, RoutingKeeps, AcquireKeeps, TimeoutKeeps, ExecutingKeeps DEF Next

LEMMA InitSemaphores ==
  Init => Semaphores
<1> SUFFICES ASSUME Init PROVE Semaphores
  OBVIOUS
<1>1. Closed \in Breaker /\ Idle \in TaskState
  BY Thresholds DEF Closed, Breaker, Idle, TaskState
<1>2. TypeOK /\ Placed
  BY <1>1, Thresholds DEF Init, TypeOK, Placed, At, Idle
<1>3. ASSUME NEW p \in Providers PROVE Semaphore(p)
  <2>1. Holders(p) = {} /\ Waiting(p) = {}
    BY DEF Init, Holders, Waiting, At, Idle
  <2> QED
    BY <2>1, FS_EmptySet, EmptyQueue, Thresholds DEF Semaphore, Init
<1> QED
  BY <1>2, <1>3 DEF Semaphores

LEMMA AlwaysSemaphores == Spec => []Semaphores
  BY InitSemaphores, StepKeeps, PTL DEF Spec

\* Permits are neither lost nor given twice and the queue of those that wait is the right one,
\* for any number of tasks, whatever times out, throws or is handed over (BackendSemaphore).
THEOREM SemaphoresHold == Spec => []SemaphoreIsExact
  BY AlwaysSemaphores, SemaphoresAreExact, PTL

-----------------------------------------------------------------------------
(*****************************************************************************)
(* The slots of a half-open breaker.  A slot is given back by whoever has an *)
(* outcome recorded, a probe or not, and not by a probe that has none: so    *)
(* the count is that of the probes but for the outcomes and the probes of    *)
(* these kinds.  A breaker that is not half open has no probes.              *)
(*****************************************************************************)

AddsUp(b) ==
  /\ IsFiniteSet(b.probing)
  /\ b.state # "HALF_OPEN" => b.probing = {}
  /\ b.state = "HALF_OPEN" =>
       /\ b.halfOpenActive <= Cardinality(b.probing) + b.lost
       /\ Cardinality(b.probing) <= b.halfOpenActive + b.late

Slots == \A p \in Providers : AddsUp(breaker[p]) /\ breaker[p].probing \subseteq InFlight(p)

\* A question of the breaker, and a task that takes a slot.
LEMMA SlotTaken ==
  ASSUME NEW b \in Breaker, AddsUp(b)
  PROVE  /\ AddsUp(maybeTransition(b)) /\ maybeTransition(b).probing \subseteq b.probing
         /\ \A t \in Tasks : t \notin b.probing =>
              /\ AddsUp(acquireHalfOpenSlot(b, t))
              /\ acquireHalfOpenSlot(b, t).probing \subseteq b.probing \cup {t}
<1>1. AddsUp(maybeTransition(b)) /\ maybeTransition(b).probing \subseteq b.probing
  <2>1. CASE maybeTransition(b) = b
    BY <2>1
  <2>2. CASE maybeTransition(b) # b
    <3>1. /\ maybeTransition(b).state = "HALF_OPEN" /\ maybeTransition(b).probing = {}
          /\ maybeTransition(b).halfOpenActive = 0
          /\ maybeTransition(b).lost = 0 /\ maybeTransition(b).late = 0
      BY <2>2 DEF maybeTransition, Forgotten, Breaker
    <3> QED
      BY <3>1, FS_EmptySet DEF AddsUp
  <2> QED
    BY <2>1, <2>2
<1>2. ASSUME NEW t \in Tasks, t \notin b.probing
      PROVE  /\ AddsUp(acquireHalfOpenSlot(b, t))
             /\ acquireHalfOpenSlot(b, t).probing \subseteq b.probing \cup {t}
  <2> DEFINE a == acquireHalfOpenSlot(b, t)
  <2>1. CASE b.state # "HALF_OPEN"
    BY <2>1 DEF acquireHalfOpenSlot
  <2>2. CASE b.state = "HALF_OPEN"
    <3>1. /\ a.state = "HALF_OPEN" /\ a.halfOpenActive = b.halfOpenActive + 1
          /\ a.probing = b.probing \cup {t} /\ a.lost = b.lost /\ a.late = b.late
      BY <2>2 DEF acquireHalfOpenSlot, Breaker
    <3>2. /\ IsFiniteSet(b.probing \cup {t}) /\ Cardinality(b.probing) \in Nat
          /\ Cardinality(b.probing \cup {t}) = Cardinality(b.probing) + 1
      BY <1>2, FS_AddElement, FS_CardinalityType DEF AddsUp
    <3>3. b.halfOpenActive \in Nat /\ b.lost \in Nat /\ b.late \in Nat
      BY Thresholds DEF Breaker
    <3> HIDE DEF a
    <3>4. AddsUp(a)
      BY <2>2, <3>1, <3>2, <3>3 DEF AddsUp
    <3> QED
      BY <3>1, <3>4 DEF a
  <2> QED
    BY <2>1, <2>2
<1> QED
  BY <1>1, <1>2

\* A task's outcome is told, with or without its slot, or it is lost.
LEMMA SlotGiven ==
  ASSUME NEW b \in Breaker, AddsUp(b), NEW t \in Tasks, b.state = "HALF_OPEN",
         NEW c \in Breaker, c = FreeSlot(Told(b, t)) \/ c = Lose(b, t)
  PROVE  AddsUp(c) /\ c.probing = b.probing \ {t} /\ c.state = "HALF_OPEN"
<1>1. /\ b.halfOpenActive \in Nat /\ b.lost \in Nat /\ b.late \in Nat
      /\ IsFiniteSet(b.probing) /\ Cardinality(b.probing) \in Nat
  BY Thresholds, FS_CardinalityType DEF Breaker, AddsUp
<1> DEFINE k == Cardinality(b.probing)
           n == IF t \in b.probing THEN k - 1 ELSE k
<1>2. IsFiniteSet(b.probing \ {t}) /\ Cardinality(b.probing \ {t}) = n
  <2>1. CASE t \in b.probing
    BY <1>1, <2>1, FS_RemoveElement
  <2>2. CASE t \notin b.probing
    <3>1. b.probing \ {t} = b.probing
      BY <2>2
    <3> QED
      BY <1>1, <2>2, <3>1
  <2> QED
    BY <2>1, <2>2
<1>3. n \in Nat
  BY <1>2, FS_CardinalityType
<1>4. k <= b.halfOpenActive + b.late /\ b.halfOpenActive <= k + b.lost
  BY DEF AddsUp
<1>5. CASE c = FreeSlot(Told(b, t))
  <2>1. /\ c.state = "HALF_OPEN" /\ c.probing = b.probing \ {t} /\ c.lost = b.lost
        /\ c.halfOpenActive = IF b.halfOpenActive = 0 THEN 0 ELSE b.halfOpenActive - 1
        /\ c.late = IF t \in b.probing THEN b.late ELSE b.late + 1
    BY <1>5 DEF FreeSlot, Told, Breaker
  <2>2. c.halfOpenActive <= n + c.lost /\ n <= c.halfOpenActive + c.late
    BY <1>1, <1>3, <1>4, <2>1
  <2> QED
    BY <1>2, <2>1, <2>2 DEF AddsUp
<1>6. CASE c = Lose(b, t)
  <2>1. /\ c.state = "HALF_OPEN" /\ c.probing = b.probing \ {t} /\ c.late = b.late
        /\ c.halfOpenActive = b.halfOpenActive
        /\ c.lost = IF t \in b.probing THEN b.lost + 1 ELSE b.lost
    BY <1>6 DEF Lose, Breaker
  <2>2. c.halfOpenActive <= n + c.lost /\ n <= c.halfOpenActive + c.late
    BY <1>1, <1>3, <1>4, <2>1
  <2> QED
    BY <1>2, <2>1, <2>2 DEF AddsUp
<1> QED
  BY <1>5, <1>6

LEMMA FreedTypes ==
  ASSUME NEW b \in Breaker, NEW t \in Tasks
  PROVE  FreeSlot(b) \in Breaker /\ Told(b, t) \in Breaker /\ FreeSlot(Told(b, t)) \in Breaker
<1>1. ASSUME NEW c \in Breaker PROVE FreeSlot(c) \in Breaker
  BY Thresholds DEF FreeSlot, Breaker
<1>2. Told(b, t) \in Breaker
  BY DEF Told, Breaker
<1> QED
  BY <1>1, <1>2

\* What is left when a task has its outcome recorded, or never will.
Gone(b, c, t) == AddsUp(c) /\ c.probing \subseteq b.probing \ {t}

LEMMA SlotLeft ==
  ASSUME NEW b \in Breaker, AddsUp(b), NEW t \in Tasks
  PROVE  /\ Gone(b, recordSuccess(b, t), t)
         /\ \A counted \in BOOLEAN : Gone(b, recordFailure(b, t, counted), t)
         /\ Gone(b, Lose(b, t), t)
<1>1. AddsUp(Closed) /\ Closed.probing = {}
  BY FS_EmptySet DEF AddsUp, Closed
<1>2. ASSUME NEW c \in Breaker, AddsUp(c), c.probing \subseteq b.probing
      PROVE  /\ Gone(b, Lose(c, t), t)
             /\ c.state # "HALF_OPEN" => Gone(b, c, t)
  <2>0. Lose(c, t) \in Breaker
    BY BreakerSteps
  <2>1. c.state # "HALF_OPEN" => Gone(b, c, t) /\ Lose(c, t) = c
    BY <1>2 DEF AddsUp, Gone, Lose
  <2>2. CASE c.state = "HALF_OPEN"
    <3>1. AddsUp(Lose(c, t)) /\ Lose(c, t).probing = c.probing \ {t}
      BY <1>2, <2>0, <2>2, SlotGiven
    <3> QED
      BY <1>2, <2>2, <3>1 DEF Gone
  <2> QED
    BY <2>1, <2>2
<1> DEFINE c == maybeTransition(b)
<1>3. c \in Breaker /\ AddsUp(c) /\ c.probing \subseteq b.probing
  BY BreakerSteps, SlotTaken
<1> HIDE DEF c
<1>4. Told(c, t) \in Breaker /\ FreeSlot(Told(c, t)) \in Breaker
  BY <1>3, FreedTypes
<1>5. Gone(b, recordSuccess(b, t), t)
  <2>1. recordSuccess(b, t) = IF c.state # "HALF_OPEN" THEN c
                              ELSE IF c.successes + 1 >= SuccessThresholdToClose THEN Closed
                              ELSE [FreeSlot(Told(c, t)) EXCEPT !.successes = c.successes + 1]
    BY DEF recordSuccess, c
  <2> DEFINE d == FreeSlot(Told(c, t))
             e == [d EXCEPT !.successes = c.successes + 1]
  <2>2. CASE c.state # "HALF_OPEN"
    BY <1>2, <1>3, <2>1, <2>2
  <2>3. CASE c.state = "HALF_OPEN"
    <3>1. AddsUp(d) /\ d.probing = c.probing \ {t}
      BY <1>3, <1>4, <2>3, SlotGiven
    <3>2. d \in Breaker
      BY <1>4
    <3> HIDE DEF d
    <3>3. /\ e.probing = d.probing /\ e.state = d.state /\ e.halfOpenActive = d.halfOpenActive
          /\ e.lost = d.lost /\ e.late = d.late
      BY <3>2 DEF Breaker
    <3>4. Gone(b, e, t)
      BY <1>3, <3>1, <3>3 DEF Gone, AddsUp
    <3>5. Gone(b, Closed, t)
      BY <1>1 DEF Gone
    <3> QED
      BY <2>1, <2>3, <3>4, <3>5 DEF d
  <2> QED
    BY <2>2, <2>3
<1>6. ASSUME NEW counted \in BOOLEAN PROVE Gone(b, recordFailure(b, t, counted), t)
  <2> DEFINE trip == Trip([FreeSlot(c) EXCEPT !.successes = 0])
             more == [c EXCEPT !.failures = @ + 1]
  <2>1. recordFailure(b, t, counted) =
          IF ~counted THEN Lose(c, t)
          ELSE IF c.state = "OPEN" THEN c
          ELSE IF c.state = "HALF_OPEN" THEN trip
          ELSE IF c.failures + 1 >= FailureThreshold THEN Trip(c)
          ELSE more
    BY Zenon DEF recordFailure, c
  <2>2. ASSUME NEW d PROVE Gone(b, Trip(d), t) \/ Trip(d).state # "OPEN" \/ Trip(d).probing # {}
    BY FS_EmptySet DEF Gone, AddsUp
  <2>3. ASSUME NEW d \in Breaker PROVE Trip(d).state = "OPEN" /\ Trip(d).probing = {}
    BY DEF Trip, Forgotten, Breaker
  <2>4. Gone(b, Trip(c), t)
    BY <1>3, <2>2, <2>3
  <2>5. Gone(b, trip, t)
    <3> DEFINE f == FreeSlot(c)
    <3>0. f \in Breaker
      BY <1>3, FreedTypes
    <3> HIDE DEF f
    <3>1. [f EXCEPT !.successes = 0] \in Breaker
      BY <3>0, Thresholds DEF Breaker
    <3> QED
      BY <2>2, <2>3, <3>1 DEF f
  <2>6. c.state \notin {"OPEN", "HALF_OPEN"} => Gone(b, more, t)
    <3>1. /\ more.probing = c.probing /\ more.state = c.state
      BY <1>3 DEF Breaker
    <3>2. c.state # "HALF_OPEN" => Gone(b, c, t)
      BY <1>2, <1>3
    <3> HIDE DEF more
    <3> QED
      BY <3>1, <3>2 DEF Gone, AddsUp
  <2>7. Gone(b, Lose(c, t), t) /\ (c.state # "HALF_OPEN" => Gone(b, c, t))
    BY <1>2, <1>3
  <2> HIDE DEF trip, more
  <2> QED
    BY <2>1, <2>4, <2>5, <2>6, <2>7
<1> QED
  BY <1>2, <1>5, <1>6

\* A task leaves its provider, or has its outcome recorded, and no other does.
LEMMA SlotsLeft ==
  ASSUME Semaphores, Slots, NEW t \in Tasks, task[t].provider \in Providers,
         \/ UNCHANGED breaker /\ t \notin InFlight(task[t].provider)
         \/ \E n : /\ breaker' = [breaker EXCEPT ![task[t].provider] = n]
                   /\ Gone(breaker[task[t].provider], n, t),
         \A p \in Providers : InFlight(p) \ {t} \subseteq InFlight(p)'
  PROVE  Slots'
<1> DEFINE p == task[t].provider
<1>1. breaker \in [Providers -> Breaker]
  BY DEF Semaphores, TypeOK
<1>2. ASSUME NEW q \in Providers
      PROVE  AddsUp(breaker'[q]) /\ breaker'[q].probing \subseteq InFlight(q) \ {t}
  <2>1. q # p => t \notin InFlight(q)
    BY DEF InFlight
  <2>2. AddsUp(breaker[q]) /\ breaker[q].probing \subseteq InFlight(q)
    BY DEF Slots
  <2>3. CASE breaker' = breaker /\ t \notin InFlight(p)
    BY <2>1, <2>2, <2>3
  <2>4. CASE \E n : breaker' = [breaker EXCEPT ![p] = n] /\ Gone(breaker[p], n, t)
    <3>1. PICK n : breaker' = [breaker EXCEPT ![p] = n] /\ Gone(breaker[p], n, t)
      BY <2>4
    <3>2. CASE q = p
      BY <1>1, <2>2, <3>1, <3>2 DEF Gone
    <3>3. CASE q # p
      BY <1>1, <2>1, <2>2, <3>1, <3>3
    <3> QED
      BY <3>2, <3>3
  <2> QED
    BY <2>3, <2>4
<1>3. ASSUME NEW q \in Providers PROVE AddsUp(breaker'[q]) /\ breaker'[q].probing \subseteq InFlight(q)'
  BY <1>2
<1> QED
  BY <1>3 DEF Slots

\* The permit is given back: no task but the one that gives it leaves its provider.
LEMMA ReleaseKeepsFlights ==
  ASSUME Semaphores, NEW t \in Tasks, task[t].pc \in {"holding", "recorded"}, release(t)
  PROVE  \A p \in Providers : InFlight(p) \ {t} \subseteq InFlight(p)'
<1> DEFINE p == task[t].provider
<1>1. p \in Providers /\ task \in [Tasks -> TaskState]
  BY DEF Semaphores, Placed, At, TypeOK
<1>2. CASE task' = [task EXCEPT ![t] = Idle]
  <2>1. \A u \in Tasks : u # t => task'[u] = task[u]
    BY <1>1, <1>2
  <2> QED
    BY <2>1 DEF InFlight
<1>3. CASE /\ waiters[p] # <<>>
           /\ task' = [task EXCEPT ![t] = Idle, ![Head(waiters[p])].pc = "holding"]
  <2> DEFINE h == Head(waiters[p])
  <2>1. h \in Tasks /\ h \in Waiting(p)
    BY <1>1, <1>3, ShiftQueued DEF Semaphore, Semaphores, TypeOK
  <2>2. h # t
    BY <2>1 DEF Waiting, At
  <2>3. task' = [[task EXCEPT ![t] = Idle] EXCEPT ![h] = [@ EXCEPT !.pc = "holding"]]
    BY <1>3
  <2> HIDE DEF h
  <2>4. /\ task'[h].provider = task[h].provider /\ task'[h].pc = "holding"
        /\ \A u \in Tasks : u # t /\ u # h => task'[u] = task[u]
    BY <1>1, <2>1, <2>2, <2>3 DEF TaskState
  <2> QED
    BY <2>4 DEF InFlight
<1> QED
  BY <1>2, <1>3 DEF release

LEMMA RouteKeepsSlots ==
  ASSUME Semaphores, Slots, NEW t \in Tasks, NEW p \in Providers, Route(t, p)
  PROVE  Slots'
<1>1. /\ breaker \in [Providers -> Breaker] /\ task \in [Tasks -> TaskState]
      /\ task[t].pc = "idle" /\ task' = [task EXCEPT ![t] = [pc |-> "routed", provider |-> p]]
  BY DEF Semaphores, TypeOK, Route, At
<1>2. ASSUME NEW q \in Providers
      PROVE  /\ t \notin InFlight(q) /\ InFlight(q) \subseteq InFlight(q)'
             /\ q = p => t \in InFlight(q)'
  BY <1>1 DEF InFlight
<1>3. ASSUME NEW q \in Providers PROVE AddsUp(breaker'[q]) /\ breaker'[q].probing \subseteq InFlight(q)'
  <2> DEFINE m == maybeTransition(breaker[q])
  <2>1. /\ AddsUp(breaker[q]) /\ breaker[q].probing \subseteq InFlight(q) /\ breaker[q] \in Breaker
    BY <1>1 DEF Slots
  <2>2. m \in Breaker /\ AddsUp(m) /\ m.probing \subseteq breaker[q].probing
    BY <2>1, BreakerSteps, SlotTaken
  <2> HIDE DEF m
  <2>3. /\ breaker'[q] \in {breaker[q], m, acquireHalfOpenSlot(m, t)}
        /\ breaker'[q] \in {breaker[q], m} \/ q = p
    BY RoutingAssumption DEF Route, Before, m
  <2>4. CASE breaker'[q] \in {breaker[q], m}
    BY <1>2, <2>1, <2>2, <2>4
  <2>5. CASE breaker'[q] = acquireHalfOpenSlot(m, t) /\ q = p
    <3>1. t \notin m.probing
      BY <1>2, <2>1, <2>2
    <3>2. /\ AddsUp(acquireHalfOpenSlot(m, t))
          /\ acquireHalfOpenSlot(m, t).probing \subseteq m.probing \cup {t}
      BY <2>2, <3>1, SlotTaken
    <3> QED
      BY <1>2, <2>1, <2>2, <2>5, <3>2
  <2> QED
    BY <2>3, <2>4, <2>5
<1> QED
  BY <1>3 DEF Slots

LEMMA OutcomeKeepsSlots ==
  ASSUME Semaphores, Slots, NEW t \in Tasks, NEW success \in BOOLEAN, NEW counted \in BOOLEAN,
         recordOutcome(t, success, counted)
  PROVE  Slots'
<1> DEFINE p == task[t].provider
           n == IF success THEN recordSuccess(breaker[p], t) ELSE recordFailure(breaker[p], t, counted)
<1>1. /\ breaker' = [breaker EXCEPT ![p] = n] /\ task' = [task EXCEPT ![t].pc = "recorded"]
      /\ p \in Providers /\ breaker[p] \in Breaker /\ AddsUp(breaker[p])
  BY DEF recordOutcome, Semaphores, Placed, TypeOK, At, Slots
<1>2. Gone(breaker[p], n, t)
  <2>1. Gone(breaker[p], recordSuccess(breaker[p], t), t)
    BY <1>1, SlotLeft
  <2>2. Gone(breaker[p], recordFailure(breaker[p], t, counted), t)
    BY <1>1, SlotLeft
  <2> QED
    BY <2>1, <2>2
<1> HIDE DEF n
<1>3. ASSUME NEW q \in Providers PROVE InFlight(q) \ {t} \subseteq InFlight(q)'
  <2>1. \A u \in Tasks : u # t => task'[u] = task[u]
    BY <1>1 DEF Semaphores, TypeOK
  <2> QED
    BY <2>1 DEF InFlight
<1> QED
  BY <1>1, <1>2, <1>3, SlotsLeft

LEMMA UnrecordedKeepsSlots ==
  ASSUME Semaphores, Slots, NEW t \in Tasks, ~At(t, "idle"), Unrecorded(t),
         \A p \in Providers : InFlight(p) \ {t} \subseteq InFlight(p)'
  PROVE  Slots'
<1> DEFINE p == task[t].provider
           n == Lose(breaker[p], t)
<1>1. /\ breaker' = [breaker EXCEPT ![p] = n]
      /\ p \in Providers /\ breaker[p] \in Breaker /\ AddsUp(breaker[p])
  BY DEF Unrecorded, Semaphores, Placed, TypeOK, Slots
<1>2. Gone(breaker[p], n, t)
  BY <1>1, SlotLeft
<1> HIDE DEF n
<1> QED
  BY <1>1, <1>2, SlotsLeft

\* Time changes neither the state of a breaker nor its slots.
LEMMA TimeKeepsState ==
  ASSUME TypeOK, NEW p \in Providers, CooldownEnds(p) \/ FailureAges(p)
  PROVE  /\ UNCHANGED task
         /\ \A q \in Providers :
              /\ breaker'[q].state = breaker[q].state /\ breaker'[q].probing = breaker[q].probing
              /\ breaker'[q].halfOpenActive = breaker[q].halfOpenActive
              /\ breaker'[q].lost = breaker[q].lost /\ breaker'[q].late = breaker[q].late
<1> DEFINE b == [breaker[p] EXCEPT !.elapsed = TRUE]
           c == [breaker[p] EXCEPT !.failures = @ - 1]
<1>1. breaker[p] \in Breaker
  BY DEF TypeOK
<1>2. \A d \in {b, c} :
        /\ d.state = breaker[p].state /\ d.halfOpenActive = breaker[p].halfOpenActive
        /\ d.probing = breaker[p].probing /\ d.lost = breaker[p].lost /\ d.late = breaker[p].late
  BY <1>1 DEF Breaker
<1>3. UNCHANGED task /\ \E d \in {b, c} : breaker' = [breaker EXCEPT ![p] = d]
  BY DEF CooldownEnds, FailureAges
<1> HIDE DEF b, c
<1>4. ASSUME NEW d \in {b, c}, breaker' = [breaker EXCEPT ![p] = d], NEW q \in Providers
      PROVE  /\ breaker'[q].state = breaker[q].state /\ breaker'[q].probing = breaker[q].probing
             /\ breaker'[q].halfOpenActive = breaker[q].halfOpenActive
             /\ breaker'[q].lost = breaker[q].lost /\ breaker'[q].late = breaker[q].late
  <2>1. breaker'[q] = IF q = p THEN d ELSE breaker[q]
    BY <1>4 DEF TypeOK
  <2> QED
    BY <1>2, <1>4, <2>1
<1> QED
  BY <1>3, <1>4

LEMMA StepKeepsSlots ==
  Semaphores /\ Slots /\ [Next]_vars => Slots'
<1> SUFFICES ASSUME Semaphores, Slots, [Next]_vars PROVE Slots'
  OBVIOUS
<1>0. TypeOK
  BY DEF Semaphores
<1>1. ASSUME NEW t \in Tasks, NEW p \in Providers, LookUp(t, p) PROVE Slots'
  <2>1. UNCHANGED breaker /\ \A q \in Providers : InFlight(q) \subseteq InFlight(q)'
    BY <1>0, <1>1 DEF LookUp, InFlight, At, TypeOK
  <2> QED
    BY <2>1 DEF Slots
<1>2. ASSUME NEW t \in Tasks, acquirePermit(t) PROVE Slots'
  <2>1. PICK pc \in {"holding", "waiting"} : task' = [task EXCEPT ![t].pc = pc]
    BY <1>2 DEF acquirePermit
  <2>2. /\ task'[t].pc = pc /\ task'[t].provider = task[t].provider
        /\ \A u \in Tasks : u # t => task'[u] = task[u]
    BY <1>0, <2>1 DEF TypeOK, TaskState
  <2>3. UNCHANGED breaker /\ \A q \in Providers : InFlight(q) \subseteq InFlight(q)'
    BY <1>2, <2>2 DEF acquirePermit, InFlight
  <2> QED
    BY <2>3 DEF Slots
<1>3. ASSUME NEW t \in Tasks, RouteExhausted(t) PROVE Slots'
  <2>1. ASSUME NEW q \in Providers
        PROVE  AddsUp(breaker'[q]) /\ breaker'[q].probing \subseteq breaker[q].probing
    <3>1. breaker'[q] = maybeTransition(breaker[q]) /\ breaker[q] \in Breaker
      BY <1>0, <1>3 DEF RouteExhausted, TypeOK
    <3> QED
      BY <3>1, SlotTaken DEF Slots
  <2>2. \A q \in Providers : InFlight(q)' = InFlight(q)
    BY <1>3 DEF RouteExhausted, InFlight
  <2> QED
    BY <2>1, <2>2 DEF Slots
<1>4. ASSUME NEW p \in Providers, CooldownEnds(p) \/ FailureAges(p) PROVE Slots'
  <2>1. \A q \in Providers : InFlight(q)' = InFlight(q)
    BY <1>0, <1>4, TimeKeepsState DEF InFlight
  <2> QED
    BY <1>0, <1>4, <2>1, TimeKeepsState DEF Slots, AddsUp
<1>5. ASSUME UNCHANGED vars PROVE Slots'
  BY <1>5 DEF vars, Slots, AddsUp, InFlight
<1>6. ASSUME NEW t \in Tasks, Finish(t) PROVE Slots'
  <2>1. /\ task[t].provider \in Providers /\ t \notin InFlight(task[t].provider)
        /\ UNCHANGED breaker /\ release(t) /\ task[t].pc = "recorded"
    BY <1>6 DEF Finish, At, InFlight, Semaphores, Placed
  <2>2. \A p \in Providers : InFlight(p) \ {t} \subseteq InFlight(p)'
    BY <2>1, ReleaseKeepsFlights
  <2> QED
    BY <2>1, <2>2, SlotsLeft
<1>7. ASSUME NEW t \in Tasks, ExecuteThrows(t) PROVE Slots'
  <2>1. Unrecorded(t) /\ release(t) /\ task[t].pc = "holding" /\ ~At(t, "idle")
    BY <1>7 DEF ExecuteThrows, At
  <2>2. \A p \in Providers : InFlight(p) \ {t} \subseteq InFlight(p)'
    BY <2>1, ReleaseKeepsFlights
  <2> QED
    BY <2>1, <2>2, UnrecordedKeepsSlots
<1>8. ASSUME NEW t \in Tasks, PermitTimeout(t) PROVE Slots'
  <2>1. Unrecorded(t) /\ task' = [task EXCEPT ![t] = Idle] /\ ~At(t, "idle")
    BY <1>8 DEF PermitTimeout, At
  <2>2. \A u \in Tasks : u # t => task'[u] = task[u]
    BY <1>0, <2>1 DEF TypeOK
  <2>3. \A p \in Providers : InFlight(p) \ {t} \subseteq InFlight(p)'
    BY <2>2 DEF InFlight
  <2> QED
    BY <2>1, <2>3, UnrecordedKeepsSlots
<1> QED
  BY <1>1, <1>2, <1>3, <1>4, <1>5, <1>6, <1>7, <1>8, RouteKeepsSlots, OutcomeKeepsSlots
  DEF Next, Routing, Executing

\* The slots of a half-open breaker add up, whatever times out, throws, fails without
\* counting, or is recorded when the task has no slot (acquireHalfOpenSlot): none is taken but
\* for a probe in flight or lost, and no probe goes without but for an outcome that took it.
THEOREM SlotsStayCounted == Spec => []SlotsAddUp
<1>1. Init => Slots
  <2>1. AddsUp(Closed) /\ Closed.probing = {}
    BY FS_EmptySet DEF AddsUp, Closed
  <2> QED
    BY <2>1 DEF Init, Slots
<1>2. Slots => SlotsAddUp
  BY DEF Slots, AddsUp, SlotsAddUp
<1> QED
  BY <1>1, <1>2, StepKeepsSlots, AlwaysSemaphores, PTL DEF Spec

-----------------------------------------------------------------------------
LEMMA LostStays ==
  ASSUME NEW b \in Breaker, NEW t
  PROVE  Lose(b, t).state = b.state
  BY DEF Lose, Breaker

\* With a router, an open breaker stays open until its cool-down is over, and until then no
\* task is started on its provider, whatever outcomes of earlier tasks are recorded.
THEOREM BreakersKeepOpen == RouterConfigured /\ Spec => [][KeepsOpen]_vars
<1> SUFFICES ASSUME RouterConfigured PROVE Spec => [][KeepsOpen]_vars
  OBVIOUS
<1>1. Semaphores /\ [Next]_vars => [KeepsOpen]_vars
  <2> SUFFICES ASSUME Semaphores, Next,
                      NEW p \in Providers, breaker[p].state = "OPEN", ~breaker[p].elapsed
               PROVE  /\ breaker'[p].state = "OPEN"
                      /\ \A t \in Tasks : task'[t].provider = p => task[t].provider = p
    BY DEF KeepsOpen
  <2> DEFINE Held == /\ breaker'[p].state = "OPEN"
                     /\ \A t \in Tasks : task'[t].provider = p => task[t].provider = p
  <2>0. /\ TypeOK /\ maybeTransition(breaker[p]) = breaker[p] /\ ~canExecute(breaker[p])
        /\ breaker[p] \in Breaker /\ Idle.provider # p
    BY RoutingAssumption DEF Semaphores, TypeOK, maybeTransition, canExecute, Idle
  <2>1. ASSUME NEW t \in Tasks, NEW q \in Providers, Route(t, q) PROVE Held
    <3>1. q # p
      BY <2>0, <2>1 DEF Route
    <3>2. breaker'[p] = breaker[p]
      BY <2>0, <2>1, <3>1 DEF Route
    <3>3. \A u \in Tasks : task'[u].provider \in {q, task[u].provider}
      BY <2>0, <2>1 DEF Route, TypeOK
    <3> QED
      BY <3>1, <3>2, <3>3
  <2>2. ASSUME NEW t \in Tasks, RouteExhausted(t) PROVE Held
    BY <2>0, <2>2 DEF RouteExhausted
  <2>3. ASSUME NEW t \in Tasks, acquirePermit(t) PROVE Held
    <3>1. \E pc \in {"holding", "waiting"} : task' = [task EXCEPT ![t].pc = pc]
      BY <2>3 DEF acquirePermit
    <3>2. \A u \in Tasks : task'[u].provider = task[u].provider
      BY <2>0, <3>1 DEF TypeOK, TaskState
    <3> QED
      BY <2>0, <2>3, <3>2 DEF acquirePermit
  <2>4. ASSUME NEW t \in Tasks, PermitTimeout(t) PROVE Held
    <3>1. breaker'[p].state = "OPEN"
      BY <2>0, <2>4, LostStays DEF PermitTimeout, Unrecorded, TypeOK
    <3> QED
      BY <2>0, <2>4, <3>1 DEF PermitTimeout, TypeOK
  <2>5. ASSUME NEW t \in Tasks, release(t), UNCHANGED breaker \/ Unrecorded(t) PROVE Held
    <3>3. breaker'[p].state = "OPEN"
      <4>1. CASE UNCHANGED breaker
        BY <2>0, <4>1
      <4>2. CASE Unrecorded(t)
        BY <2>0, <4>2, LostStays DEF Unrecorded, TypeOK
      <4> QED
        BY <2>5, <4>1, <4>2
    <3>1. CASE task' = [task EXCEPT ![t] = Idle]
      BY <2>0, <3>1, <3>3 DEF TypeOK
    <3>2. CASE task' = [task EXCEPT ![t] = Idle, ![Head(waiters[task[t].provider])].pc = "holding"]
      BY <2>0, <3>2, <3>3 DEF TypeOK, TaskState, Idle
    <3> QED
      BY <2>5, <3>1, <3>2 DEF release
  <2>6. ASSUME NEW t \in Tasks, NEW success \in BOOLEAN, NEW counted \in BOOLEAN,
               recordOutcome(t, success, counted)
        PROVE  Held
    <3>1. \A u \in Tasks : task'[u].provider = task[u].provider
      BY <2>0, <2>6 DEF recordOutcome, TypeOK, TaskState
    <3>2. /\ recordSuccess(breaker[p], t) = breaker[p]
          /\ recordFailure(breaker[p], t, counted) \in {breaker[p], Lose(breaker[p], t)}
      BY <2>0 DEF recordSuccess, recordFailure
    <3>3. breaker'[p].state = "OPEN"
      BY <2>0, <2>6, <3>2, LostStays DEF recordOutcome, TypeOK
    <3> QED
      BY <3>1, <3>3
  <2>7. ASSUME NEW q \in Providers, CooldownEnds(q) \/ FailureAges(q) PROVE Held
    BY <2>0, <2>7, TimeKeepsState
  <2>8. ASSUME NEW t \in Tasks, NEW q \in Providers PROVE ~LookUp(t, q)
    BY DEF LookUp
  <2> QED
    BY <2>1, <2>2, <2>3, <2>4, <2>5, <2>6, <2>7, <2>8
    DEF Next, Routing, Executing, ExecuteThrows, Finish
<1> QED
  BY <1>1, AlwaysSemaphores, PTL DEF Spec

-----------------------------------------------------------------------------
(* Executions and the agent's circuit breaker.                               *)

LEMMA Limits ==
  /\ MaxToolCalls \in Nat /\ MaxLlmCalls \in Nat /\ WindowSeconds \in Nat
  /\ JobBudget \in Nat /\ SessionBudget \in Nat
  BY MonitorAssumption

\* A set of natural numbers that is not empty has a least element.
LEMMA LeastNatural ==
  ASSUME NEW T \in SUBSET Nat, T # {}
  PROVE  \E x \in T : \A y \in T : x <= y
<1>1. PICK x \in T : \A y \in T : <<y, x>> \notin OpToRel(<, Nat)
  BY NatLessThanWellFounded, WFMin
<1>2. \A y \in T : ~(y < x)
  BY <1>1 DEF OpToRel
<1> QED
  BY <1>2

\* The loop of pruneWindow ends at the first stamp within the window.
LEMMA FirstValid ==
  ASSUME clock \in Nat, NEW stamps \in Seq(Nat)
  PROVE  /\ firstValid(stamps) \in 1 .. Len(stamps) + 1
         /\ firstValid(stamps) <= Len(stamps)
              => stamps[firstValid(stamps)] >= clock - WindowSeconds
         /\ \A j \in 1 .. firstValid(stamps) - 1 : stamps[j] < clock - WindowSeconds
<1> DEFINE T == {k \in 1 .. Len(stamps) + 1 :
                   k <= Len(stamps) => stamps[k] >= clock - WindowSeconds}
<1>1. T \in SUBSET Nat /\ Len(stamps) + 1 \in T
  OBVIOUS
<1>2. PICK k \in T : \A j \in T : k <= j
  BY <1>1, LeastNatural
<1>3. \A j \in 1 .. k - 1 : stamps[j] < clock - WindowSeconds
  BY <1>2, Limits
<1> QED
  BY <1>2, <1>3 DEF firstValid

-----------------------------------------------------------------------------
(* A window and the history it stands for.                                   *)

\* Calls are recorded in the order of their times.
Ordered(times, now) ==
  /\ times \in Seq(Nat)
  /\ \A i \in DOMAIN times : times[i] <= now
  /\ \A i, j \in DOMAIN times : i <= j => times[i] <= times[j]

\* The stamps are the history without some calls at its start, all of them too old.
IsEnd(stamps, times, now) ==
  \E k \in 0 .. Len(times) :
    /\ Len(stamps) = Len(times) - k
    /\ \A i \in DOMAIN stamps : stamps[i] = times[k + i]
    /\ \A j \in 1 .. k : times[j] < now - WindowSeconds

\* cut: the end of the execution was asked for.  From then on the window forgets refused calls.
Recorded(stamps, times, now, cut, maxCalls) ==
  /\ stamps \in Seq(Nat) /\ Ordered(times, now)
  /\ cut <=> Overrun(times, maxCalls)
  /\ ~cut => IsEnd(stamps, times, now)

LEMMA TimeGoesOn ==
  ASSUME NEW stamps, NEW times, NEW now \in Nat, NEW later \in Nat, now <= later,
         NEW cut, NEW maxCalls,
         Recorded(stamps, times, now, cut, maxCalls)
  PROVE  Recorded(stamps, times, later, cut, maxCalls)
<1>1. Ordered(times, later)
  BY DEF Recorded, Ordered
<1>2. ASSUME IsEnd(stamps, times, now)
      PROVE  IsEnd(stamps, times, later)
  <2>1. PICK k \in 0 .. Len(times) :
          /\ Len(stamps) = Len(times) - k
          /\ \A i \in DOMAIN stamps : stamps[i] = times[k + i]
          /\ \A j \in 1 .. k : times[j] < now - WindowSeconds
    BY <1>2 DEF IsEnd
  <2>2. times \in Seq(Nat)
    BY DEF Recorded, Ordered
  <2>3. \A j \in 1 .. k : times[j] < later - WindowSeconds
    BY <2>1, <2>2, Limits
  <2> QED
    BY <2>1, <2>2, <2>3 DEF IsEnd
<1> QED
  BY <1>1, <1>2 DEF Recorded

\* What pruneWindow leaves is the end of the stamps.
LEMMA Pruned ==
  ASSUME clock \in Nat, NEW stamps \in Seq(Nat)
  PROVE  /\ pruneWindow(stamps) \in Seq(Nat)
         /\ Len(pruneWindow(stamps)) = Len(stamps) + 1 - firstValid(stamps)
         /\ \A i \in DOMAIN pruneWindow(stamps) :
              pruneWindow(stamps)[i] = stamps[firstValid(stamps) - 1 + i]
<1> DEFINE v == firstValid(stamps)
<1>1. v \in 1 .. Len(stamps) + 1
  BY FirstValid
<1> HIDE DEF v
<1>2. \A i \in v .. Len(stamps) : stamps[i] \in Nat
  BY <1>1
<1>3. /\ SubSeq(stamps, v, Len(stamps)) \in Seq(Nat)
      /\ Len(SubSeq(stamps, v, Len(stamps)))
           = IF v <= Len(stamps) THEN Len(stamps) - v + 1 ELSE 0
      /\ \A i \in 1 .. Len(stamps) - v + 1 :
           SubSeq(stamps, v, Len(stamps))[i] = stamps[v + i - 1]
  BY <1>1, <1>2, SubSeqProperties
<1> QED
  BY <1>1, <1>3 DEF pruneWindow, v

LEMMA CallRecorded ==
  ASSUME clock \in Nat, NEW maxCalls \in Nat, NEW stamps, NEW times, NEW cut \in BOOLEAN,
         Recorded(stamps, times, clock, cut, maxCalls)
  PROVE  Recorded(Stamped(stamps, maxCalls), Append(times, clock), clock,
                  cut \/ ~WithinWindow(stamps, maxCalls), maxCalls)
<1> DEFINE pruned == pruneWindow(stamps)
           v      == firstValid(stamps)
           after  == Append(times, clock)
           n      == Len(times)
<1>1. /\ stamps \in Seq(Nat) /\ times \in Seq(Nat) /\ n \in Nat
      /\ DOMAIN times = 1 .. n /\ DOMAIN stamps = 1 .. Len(stamps)
      /\ \A i \in 1 .. n : times[i] \in Nat /\ times[i] <= clock
      /\ \A i, j \in 1 .. n : i <= j => times[i] <= times[j]
  BY DEF Recorded, Ordered
<1>2. /\ after \in Seq(Nat) /\ Len(after) = n + 1 /\ after[n + 1] = clock
      /\ DOMAIN after = 1 .. n + 1
      /\ \A i \in 1 .. n : after[i] = times[i]
  BY <1>1
<1>3. /\ v \in 1 .. Len(stamps) + 1 /\ Len(stamps) \in Nat
      /\ v <= Len(stamps) => stamps[v] >= clock - WindowSeconds
      /\ \A j \in 1 .. v - 1 : stamps[j] < clock - WindowSeconds
  BY <1>1, FirstValid, LenProperties
<1>4. /\ pruned \in Seq(Nat) /\ Len(pruned) = Len(stamps) + 1 - v /\ Len(pruned) \in Nat
      /\ DOMAIN pruned = 1 .. Len(pruned)
      /\ \A i \in 1 .. Len(pruned) : pruned[i] = stamps[v - 1 + i]
  <2>1. /\ pruned \in Seq(Nat) /\ Len(pruned) = Len(stamps) + 1 - v
        /\ \A i \in DOMAIN pruned : pruned[i] = stamps[v - 1 + i]
    BY <1>1, Pruned
  <2> HIDE DEF pruned, v
  <2> QED
    BY <2>1
<1>5. WithinWindow(stamps, maxCalls) <=> Len(pruned) < maxCalls
  BY DEF WithinWindow
<1>6. Stamped(stamps, maxCalls)
        = IF Len(pruned) < maxCalls THEN Append(pruned, clock) ELSE pruned
  BY DEF Stamped, WithinWindow
<1> HIDE DEF pruned, v, after, n
<1>7. Stamped(stamps, maxCalls) \in Seq(Nat)
  BY <1>4, <1>6
<1>8. Ordered(after, clock)
  BY <1>1, <1>2 DEF Ordered
<1>9. Overrun(times, maxCalls) => Overrun(after, maxCalls)
  <2> SUFFICES ASSUME NEW i \in DOMAIN times, i + maxCalls \in DOMAIN times,
                      times[i + maxCalls] - times[i] <= WindowSeconds
               PROVE  Overrun(after, maxCalls)
    BY DEF Overrun
  <2>1. i \in 1 .. n /\ i + maxCalls \in 1 .. n
    BY <1>1
  <2>2. i \in DOMAIN after /\ i + maxCalls \in DOMAIN after
    <3>1. \A k \in 1 .. n : k \in 1 .. n + 1
      BY <1>1
    <3> QED
      BY <1>2, <2>1, <3>1
  <2>3. after[i + maxCalls] - after[i] <= WindowSeconds
    BY <1>2, <2>1
  <2> QED
    BY <2>2, <2>3 DEF Overrun
<1>10. CASE cut
  BY <1>7, <1>8, <1>9, <1>10 DEF Recorded, after
<1>11. CASE ~cut
  <2>1. PICK k \in 0 .. n :
          /\ Len(stamps) = n - k
          /\ \A i \in 1 .. Len(stamps) : stamps[i] = times[k + i]
          /\ \A j \in 1 .. k : times[j] < clock - WindowSeconds
    <3>1. IsEnd(stamps, times, clock)
      BY <1>11 DEF Recorded
    <3> QED
      BY <3>1, <1>1 DEF IsEnd, n
  <2> DEFINE d == k + v - 1
  <2>2. /\ d \in 0 .. n /\ Len(pruned) = n - d
        /\ \A i \in 1 .. Len(pruned) : pruned[i] = times[d + i]
    <3>1. d \in 0 .. n /\ Len(pruned) = n - d
      BY <2>1, <1>1, <1>3, <1>4
    <3>2. ASSUME NEW i \in 1 .. Len(pruned)
          PROVE  pruned[i] = times[d + i]
      <4>1. v - 1 + i \in 1 .. Len(stamps) /\ k + (v - 1 + i) = d + i
        BY <2>1, <1>3, <1>4
      <4>2. pruned[i] = stamps[v - 1 + i] /\ stamps[v - 1 + i] = times[k + (v - 1 + i)]
        BY <4>1, <2>1, <1>4
      <4> QED
        BY <4>1, <4>2
    <3> QED
      BY <3>1, <3>2
  <2>3. \A j \in 1 .. d : times[j] < clock - WindowSeconds
    <3> SUFFICES ASSUME NEW j \in 1 .. d PROVE times[j] < clock - WindowSeconds
      OBVIOUS
    <3>1. CASE j <= k
      BY <2>1, <3>1
    <3>2. CASE j > k
      <4>1. j - k \in 1 .. v - 1 /\ j - k \in 1 .. Len(stamps) /\ k + (j - k) = j
        BY <2>1, <3>2, <1>3
      <4>2. stamps[j - k] < clock - WindowSeconds /\ stamps[j - k] = times[k + (j - k)]
        BY <4>1, <2>1, <1>3
      <4> QED
        BY <4>1, <4>2
    <3> QED
      BY <2>1, <3>1, <3>2
  <2>4. \A i \in d + 1 .. n : times[i] >= clock - WindowSeconds
    <3> SUFFICES ASSUME NEW i \in d + 1 .. n PROVE times[i] >= clock - WindowSeconds
      OBVIOUS
    <3>0. v <= Len(stamps) /\ v \in 1 .. Len(stamps) /\ k + v = d + 1
      BY <2>1, <2>2, <1>1, <1>3, <1>4
    <3>1. v <= Len(stamps) /\ stamps[v] = times[d + 1]
      BY <3>0, <2>1
    <3>2. times[d + 1] <= times[i] /\ times[i] \in Nat /\ times[d + 1] \in Nat
      BY <1>1, <2>2
    <3> QED
      BY <3>1, <3>2, <1>3, Limits
  <2> HIDE DEF d
  <2>5. ~Overrun(times, maxCalls)
    BY <1>11 DEF Recorded
  <2>6. CASE Len(pruned) < maxCalls
    <3>1. ~Overrun(after, maxCalls)
      <4> SUFFICES ASSUME NEW i \in 1 .. n + 1, i + maxCalls \in 1 .. n + 1,
                          after[i + maxCalls] - after[i] <= WindowSeconds
                   PROVE  FALSE
        BY <1>2 DEF Overrun
      <4>1. CASE i + maxCalls \in 1 .. n
        <5>1. i \in 1 .. n /\ after[i] = times[i] /\ after[i + maxCalls] = times[i + maxCalls]
          BY <4>1, <1>1, <1>2
        <5> QED
          BY <4>1, <5>1, <1>1, <2>5 DEF Overrun
      <4>2. CASE i + maxCalls = n + 1
        <5>1. i \in 1 .. d
          BY <4>2, <2>2, <2>6, <1>1
        <5>2. after[i] < clock - WindowSeconds /\ after[i] \in Nat /\ after[n + 1] = clock
          BY <5>1, <2>2, <2>3, <1>1, <1>2
        <5> QED
          BY <4>2, <5>2, Limits
      <4> QED
        BY <4>1, <4>2, <1>1
    <3>2. IsEnd(Append(pruned, clock), after, clock)
      <4>1. Len(Append(pruned, clock)) = (n + 1) - d
            /\ DOMAIN Append(pruned, clock) = 1 .. Len(pruned) + 1
        <5>1. Len(Append(pruned, clock)) = Len(pruned) + 1
              /\ DOMAIN Append(pruned, clock) = 1 .. Len(pruned) + 1
          BY <1>4
        <5> QED
          BY <5>1, <2>2, <1>1
      <4>2. \A i \in 1 .. Len(pruned) + 1 : Append(pruned, clock)[i] = after[d + i]
        <5> SUFFICES ASSUME NEW i \in 1 .. Len(pruned) + 1
                     PROVE  Append(pruned, clock)[i] = after[d + i]
          OBVIOUS
        <5>1. CASE i = Len(pruned) + 1
          BY <5>1, <1>1, <1>2, <1>4, <2>2
        <5>2. CASE i \in 1 .. Len(pruned)
          <6>1. Append(pruned, clock)[i] = pruned[i] /\ d + i \in 1 .. n
            BY <5>2, <1>1, <1>4, <2>2
          <6> QED
            BY <5>2, <6>1, <1>2, <2>2
        <5> QED
          BY <5>1, <5>2, <1>4
      <4>3. \A j \in 1 .. d : after[j] < clock - WindowSeconds
        <5>1. \A j \in 1 .. d : j \in 1 .. n
          BY <1>1, <2>2
        <5> QED
          BY <5>1, <2>3, <1>2
      <4> QED
        <5>1. d \in 0 .. Len(after)
          BY <1>1, <1>2, <2>2
        <5>2. Len(Append(pruned, clock)) = Len(after) - d
          BY <4>1, <1>2
        <5>3. \A i \in DOMAIN Append(pruned, clock) : Append(pruned, clock)[i] = after[d + i]
          BY <4>1, <4>2
        <5> QED
          BY <5>1, <5>2, <5>3, <4>3 DEF IsEnd
    <3>3. Stamped(stamps, maxCalls) = Append(pruned, clock) /\ WithinWindow(stamps, maxCalls)
      BY <2>6, <1>5, <1>6
    <3> QED
      BY <1>7, <1>8, <1>11, <3>1, <3>2, <3>3 DEF Recorded, after
  <2>7. CASE ~(Len(pruned) < maxCalls)
    <3> DEFINE i == n + 1 - maxCalls
    <3>1. i \in 1 .. n + 1 /\ i >= d + 1 /\ i + maxCalls = n + 1
      BY <2>2, <2>7, <1>1
    <3>2. after[i] >= clock - WindowSeconds /\ after[i] \in Nat
      BY <3>1, <2>2, <2>4, <1>1, <1>2, Limits
    <3>3. after[i + maxCalls] - after[i] <= WindowSeconds
      BY <3>1, <3>2, <1>2, Limits
    <3>4. Overrun(after, maxCalls)
      BY <3>1, <3>3, <1>2 DEF Overrun
    <3>5. ~WithinWindow(stamps, maxCalls)
      BY <2>7, <1>5
    <3> QED
      BY <1>7, <1>8, <3>4, <3>5 DEF Recorded, after
  <2> QED
    BY <2>6, <2>7
<1> QED
  BY <1>10, <1>11

-----------------------------------------------------------------------------
(* The invariant.                                                            *)

Reasons  == {"tool_call_rate_exceeded", "llm_call_rate_exceeded", "token_budget_exceeded"}
Reading  == {"model", "tool", "told"}
Answer   == [told: {"unsent", "pending", "acknowledged", "unacknowledged"},
             by: Executions \cup {NoExecution}, turn: Nat]

MonitorTypeOK ==
  /\ clock \in Nat /\ executing \in BOOLEAN
  /\ streaming \in [Executions -> Reading \cup {"waiting", "over"}]
  /\ turnCount \in [Executions -> Nat] /\ llmTurnOpen \in [Executions -> BOOLEAN]
  /\ toolStamps \in [Executions -> Seq(Nat)] /\ llmStamps \in [Executions -> Seq(Nat)]
  /\ toolTimes \in [Executions -> Seq(Nat)] /\ llmTimes \in [Executions -> Seq(Nat)]
  /\ tokensUsed \in [Executions -> Nat]
  /\ cancels \in [Executions -> SUBSET Reasons]
  /\ listeners \in Seq(Executions)
  /\ ack \in [Steers -> Answer]
  /\ llmTurns \in [Executions -> SUBSET Nat]

\* Until a limit is passed, a breaker's window is the end of the history it was told of.
LimitsAreKept ==
  \A e \in Executions :
    /\ Recorded(toolStamps[e], toolTimes[e], clock,
                "tool_call_rate_exceeded" \in cancels[e], MaxToolCalls)
    /\ Recorded(llmStamps[e], llmTimes[e], clock,
                "llm_call_rate_exceeded" \in cancels[e], MaxLlmCalls)
    /\ "token_budget_exceeded" \in cancels[e]
         <=> ~(tokensUsed[e] <= JobBudget /\ tokensUsed[e] <= SessionBudget)

\* No number was given that an execution's counter has not reached.
TurnsAreCounted ==
  /\ \A e \in Executions : \A n \in llmTurns[e] : n <= turnCount[e]
  /\ \A m \in Steers : ack[m].told = "acknowledged" =>
       ack[m].by \in Executions /\ ack[m].turn <= turnCount[ack[m].by]

\* An execution listens once, while it reads events.
ListenersRead ==
  /\ \A i \in DOMAIN listeners : streaming[listeners[i]] \in Reading
  /\ \A i, j \in DOMAIN listeners : listeners[i] = listeners[j] => i = j

MonitorInv ==
  /\ MonitorTypeOK /\ LimitsAreKept /\ TurnsAreCounted /\ TurnIsItsOwn /\ ListenersRead

LEMMA MonitorStarts == MonitorInit => MonitorInv
<1> SUFFICES ASSUME MonitorInit PROVE MonitorInv
  OBVIOUS
<1>1. MonitorTypeOK
  <2>1. Unsent \in Answer
    BY DEF Unsent, Answer
  <2>2. ack \in [Steers -> Answer]
    BY <2>1 DEF MonitorInit
  <2>3. /\ clock \in Nat /\ executing \in BOOLEAN
        /\ streaming \in [Executions -> Reading \cup {"waiting", "over"}]
        /\ turnCount \in [Executions -> Nat] /\ llmTurnOpen \in [Executions -> BOOLEAN]
        /\ tokensUsed \in [Executions -> Nat]
    BY DEF MonitorInit
  <2>5. cancels \in [Executions -> SUBSET Reasons] /\ llmTurns \in [Executions -> SUBSET Nat]
    BY DEF MonitorInit
  <2>6. listeners \in Seq(Executions)
    BY DEF MonitorInit
  <2>4. /\ toolStamps \in [Executions -> Seq(Nat)] /\ llmStamps \in [Executions -> Seq(Nat)]
        /\ toolTimes \in [Executions -> Seq(Nat)] /\ llmTimes \in [Executions -> Seq(Nat)]
    BY DEF MonitorInit
  <2> QED
    BY <2>2, <2>3, <2>4, <2>5, <2>6 DEF MonitorTypeOK
<1>2. \A maxCalls \in Nat : Ordered(<<>>, 0) /\ IsEnd(<<>>, <<>>, 0) /\ ~Overrun(<<>>, maxCalls)
  BY DEF Ordered, IsEnd, Overrun
<1>3. LimitsAreKept
  <2> SUFFICES ASSUME NEW e \in Executions
               PROVE  /\ Recorded(<<>>, <<>>, 0, "tool_call_rate_exceeded" \in {}, MaxToolCalls)
                      /\ Recorded(<<>>, <<>>, 0, "llm_call_rate_exceeded" \in {}, MaxLlmCalls)
                      /\ 0 <= JobBudget /\ 0 <= SessionBudget
    BY DEF MonitorInit, LimitsAreKept
  <2> QED
    BY <1>2, Limits DEF Recorded
<1>4. TurnsAreCounted /\ TurnIsItsOwn /\ ListenersRead
  BY DEF MonitorInit, TurnsAreCounted, TurnIsItsOwn, ListenersRead, Unsent
<1> QED
  BY <1>1, <1>3, <1>4 DEF MonitorInv

\* What a turn that opens, or a call of a tool, leaves of the types and the limits.
LEMMA ToolCallRecorded ==
  ASSUME MonitorTypeOK, LimitsAreKept, NEW e \in Executions
  PROVE  Recorded(Stamped(toolStamps[e], MaxToolCalls), Append(toolTimes[e], clock), clock,
                  "tool_call_rate_exceeded" \in cancels[e] \cup ToolReasons(e), MaxToolCalls)
<1> DEFINE cut == "tool_call_rate_exceeded" \in cancels[e]
<1>1. Recorded(toolStamps[e], toolTimes[e], clock, cut, MaxToolCalls)
  BY DEF LimitsAreKept
<1>2. clock \in Nat
  BY DEF MonitorTypeOK
<1>3. ("tool_call_rate_exceeded" \in cancels[e] \cup ToolReasons(e))
        <=> (cut \/ ~WithinWindow(toolStamps[e], MaxToolCalls))
  BY DEF ToolReasons
<1>4. cut \in BOOLEAN
  OBVIOUS
<1> HIDE DEF cut
<1>5. Recorded(Stamped(toolStamps[e], MaxToolCalls), Append(toolTimes[e], clock), clock,
               cut \/ ~WithinWindow(toolStamps[e], MaxToolCalls), MaxToolCalls)
  BY <1>1, <1>2, <1>4, CallRecorded, Limits
<1> QED
  BY <1>3, <1>5 DEF Recorded

LEMMA LlmTurnRecorded ==
  ASSUME MonitorTypeOK, LimitsAreKept, NEW e \in Executions
  PROVE  Recorded(Stamped(llmStamps[e], MaxLlmCalls), Append(llmTimes[e], clock), clock,
                  "llm_call_rate_exceeded" \in cancels[e] \cup LlmReasons(e), MaxLlmCalls)
<1> DEFINE cut == "llm_call_rate_exceeded" \in cancels[e]
<1>1. Recorded(llmStamps[e], llmTimes[e], clock, cut, MaxLlmCalls)
  BY DEF LimitsAreKept
<1>2. clock \in Nat
  BY DEF MonitorTypeOK
<1>3. ("llm_call_rate_exceeded" \in cancels[e] \cup LlmReasons(e))
        <=> (cut \/ ~WithinWindow(llmStamps[e], MaxLlmCalls))
  BY DEF LlmReasons
<1>4. cut \in BOOLEAN
  OBVIOUS
<1> HIDE DEF cut
<1>5. Recorded(Stamped(llmStamps[e], MaxLlmCalls), Append(llmTimes[e], clock), clock,
               cut \/ ~WithinWindow(llmStamps[e], MaxLlmCalls), MaxLlmCalls)
  BY <1>1, <1>2, <1>4, CallRecorded, Limits
<1> QED
  BY <1>3, <1>5 DEF Recorded

\* Text or a call of a tool, with what it adds to the reasons besides the turn's.
LEMMA TurnOpened ==
  ASSUME MonitorInv, NEW e \in Executions, NEW others, others \subseteq {"tool_call_rate_exceeded"},
         OpenTurn(e), cancels' = [cancels EXCEPT ![e] = @ \cup others \cup TurnReasons(e)],
         clock' = clock, ack' = ack
  PROVE  /\ turnCount' \in [Executions -> Nat] /\ llmTurnOpen' \in [Executions -> BOOLEAN]
         /\ llmStamps' \in [Executions -> Seq(Nat)] /\ llmTimes' \in [Executions -> Seq(Nat)]
         /\ cancels' \in [Executions -> SUBSET Reasons] /\ llmTurns' \in [Executions -> SUBSET Nat]
         /\ \A f \in Executions : Recorded(llmStamps'[f], llmTimes'[f], clock',
                                    "llm_call_rate_exceeded" \in cancels'[f], MaxLlmCalls)
         /\ TurnsAreCounted' /\ TurnIsItsOwn'
<1>0. MonitorTypeOK /\ LimitsAreKept /\ TurnsAreCounted /\ TurnIsItsOwn
  BY DEF MonitorInv
<1>1. TurnReasons(e) \subseteq {"llm_call_rate_exceeded"}
  BY DEF TurnReasons, LlmReasons
<1>2. cancels' \in [Executions -> SUBSET Reasons]
  BY <1>0, <1>1 DEF MonitorTypeOK, Reasons
<1>3. \A f \in Executions : "llm_call_rate_exceeded" \in cancels'[f]
        <=> "llm_call_rate_exceeded" \in cancels[f] \cup (IF f = e THEN TurnReasons(e) ELSE {})
  BY <1>0 DEF MonitorTypeOK
<1>4. CASE llmTurnOpen[e]
  <2>1. UNCHANGED <<turnCount, llmTurnOpen, llmTurns, llmStamps, llmTimes>> /\ TurnReasons(e) = {}
    BY <1>4 DEF OpenTurn, TurnReasons
  <2>2. \A f \in Executions :
          ("llm_call_rate_exceeded" \in cancels'[f]) <=> ("llm_call_rate_exceeded" \in cancels[f])
    BY <1>3, <2>1
  <2>3. \A f \in Executions : Recorded(llmStamps'[f], llmTimes'[f], clock',
                               "llm_call_rate_exceeded" \in cancels'[f], MaxLlmCalls)
    BY <1>0, <2>1, <2>2 DEF LimitsAreKept, Recorded
  <2>4. TurnsAreCounted' /\ TurnIsItsOwn'
    BY <1>0, <2>1 DEF TurnsAreCounted, TurnIsItsOwn
  <2> QED
    BY <1>0, <1>2, <2>1, <2>3, <2>4 DEF MonitorTypeOK
<1>5. CASE ~llmTurnOpen[e]
  <2>1. /\ llmTurnOpen' = [llmTurnOpen EXCEPT ![e] = TRUE]
        /\ turnCount' = [turnCount EXCEPT ![e] = turnCount[e] + 1]
        /\ llmTurns' = [llmTurns EXCEPT ![e] = llmTurns[e] \cup {turnCount[e] + 1}]
        /\ llmStamps' = [llmStamps EXCEPT ![e] = Stamped(llmStamps[e], MaxLlmCalls)]
        /\ llmTimes' = [llmTimes EXCEPT ![e] = Append(llmTimes[e], clock)]
        /\ TurnReasons(e) = LlmReasons(e)
    BY <1>5 DEF OpenTurn, recordLlmTurn, TurnReasons
  <2>2. Recorded(Stamped(llmStamps[e], MaxLlmCalls), Append(llmTimes[e], clock), clock,
                 "llm_call_rate_exceeded" \in cancels[e] \cup LlmReasons(e), MaxLlmCalls)
    BY <1>0, LlmTurnRecorded
  <2>3. Stamped(llmStamps[e], MaxLlmCalls) \in Seq(Nat) /\ Append(llmTimes[e], clock) \in Seq(Nat)
    BY <2>2 DEF Recorded, Ordered
  <2>4. /\ turnCount' \in [Executions -> Nat] /\ llmTurnOpen' \in [Executions -> BOOLEAN]
        /\ llmStamps' \in [Executions -> Seq(Nat)] /\ llmTimes' \in [Executions -> Seq(Nat)]
        /\ llmTurns' \in [Executions -> SUBSET Nat]
    BY <1>0, <2>1, <2>3 DEF MonitorTypeOK
  <2>5. ASSUME NEW f \in Executions
        PROVE  Recorded(llmStamps'[f], llmTimes'[f], clock',
                        "llm_call_rate_exceeded" \in cancels'[f], MaxLlmCalls)
    <3>1. CASE f = e
      <4>1. /\ llmStamps'[f] = Stamped(llmStamps[e], MaxLlmCalls)
            /\ llmTimes'[f] = Append(llmTimes[e], clock)
            /\ ("llm_call_rate_exceeded" \in cancels'[f])
                 <=> ("llm_call_rate_exceeded" \in cancels[e] \cup LlmReasons(e))
        BY <1>0, <1>3, <2>1, <3>1 DEF MonitorTypeOK
      <4> QED
        BY <2>2, <4>1 DEF Recorded
    <3>2. CASE f # e
      <4>1. /\ llmStamps'[f] = llmStamps[f] /\ llmTimes'[f] = llmTimes[f]
            /\ ("llm_call_rate_exceeded" \in cancels'[f])
                 <=> ("llm_call_rate_exceeded" \in cancels[f])
        BY <1>0, <1>3, <2>1, <3>2 DEF MonitorTypeOK
      <4> QED
        BY <1>0, <4>1 DEF LimitsAreKept, Recorded
    <3> QED
      BY <3>1, <3>2
  <2>6. \A f \in Executions : turnCount[f] \in Nat /\ turnCount[f] <= turnCount'[f]
    BY <1>0, <2>1 DEF MonitorTypeOK
  <2>7. TurnsAreCounted'
    <3>1. ASSUME NEW f \in Executions, NEW n \in llmTurns'[f]
          PROVE  n <= turnCount'[f]
      <4>1. n \in Nat
        BY <2>4
      <4>2. CASE f = e /\ n = turnCount[e] + 1
        BY <1>0, <2>1, <4>2 DEF MonitorTypeOK
      <4>3. CASE ~(f = e /\ n = turnCount[e] + 1)
        <5>1. n \in llmTurns[f]
          BY <1>0, <2>1, <3>1, <4>3 DEF MonitorTypeOK
        <5>2. n <= turnCount[f]
          BY <1>0, <5>1 DEF TurnsAreCounted
        <5> QED
          BY <2>4, <2>6, <4>1, <5>2
      <4> QED
        BY <4>2, <4>3
    <3>2. ASSUME NEW m \in Steers, ack[m].told = "acknowledged"
          PROVE  ack[m].by \in Executions /\ ack[m].turn <= turnCount'[ack[m].by]
      <4>1. ack[m].by \in Executions /\ ack[m].turn <= turnCount[ack[m].by] /\ ack[m].turn \in Nat
        BY <1>0, <3>2 DEF TurnsAreCounted, MonitorTypeOK, Answer
      <4> QED
        BY <2>4, <2>6, <4>1
    <3> QED
      BY <3>1, <3>2 DEF TurnsAreCounted
  <2>8. TurnIsItsOwn'
    <3> SUFFICES ASSUME NEW m \in Steers, ack[m].told = "acknowledged",
                        ack[m].turn \in llmTurns'[ack[m].by]
                 PROVE  FALSE
      BY <1>0 DEF TurnIsItsOwn
    <3>1. /\ ack[m].by \in Executions /\ ack[m].turn \in Nat
          /\ ack[m].turn <= turnCount[ack[m].by] /\ ack[m].turn \notin llmTurns[ack[m].by]
      BY <1>0 DEF TurnsAreCounted, TurnIsItsOwn, MonitorTypeOK, Answer
    <3>2. ack[m].by = e /\ ack[m].turn = turnCount[e] + 1
      BY <1>0, <2>1, <3>1 DEF MonitorTypeOK
    <3> QED
      BY <2>6, <3>1, <3>2
  <2> QED
    BY <1>2, <2>4, <2>5, <2>7, <2>8
<1> QED
  BY <1>4, <1>5

\* What rests.
LEMMA LimitsRest ==
  ASSUME LimitsAreKept,
         UNCHANGED <<clock, toolStamps, toolTimes, llmStamps, llmTimes, cancels, tokensUsed>>
  PROVE  LimitsAreKept'
  BY DEF LimitsAreKept, Recorded

LEMMA TurnsRest ==
  ASSUME TurnsAreCounted, TurnIsItsOwn, UNCHANGED <<turnCount, llmTurns, ack>>
  PROVE  TurnsAreCounted' /\ TurnIsItsOwn'
  BY DEF TurnsAreCounted, TurnIsItsOwn

LEMMA ListenersRest ==
  ASSUME MonitorTypeOK, ListenersRead, UNCHANGED listeners,
         \A e \in Executions : streaming[e] \in Reading => streaming'[e] \in Reading
  PROVE  ListenersRead'
  BY DEF MonitorTypeOK, ListenersRead

\* Every listener's counter goes on by one.
LEMMA SteerCounts ==
  ASSUME MonitorTypeOK, steer
  PROVE  /\ turnCount' \in [Executions -> Nat]
         /\ \A e \in Executions : turnCount[e] \in Nat /\ turnCount[e] <= turnCount'[e]
         /\ listeners # <<>> => /\ Head(listeners) \in Executions
                                /\ turnCount'[Head(listeners)] = turnCount[Head(listeners)] + 1
<1>1. \A e \in Executions : turnCount'[e] = turnCount[e] + IF Contains(listeners, e) THEN 1 ELSE 0
  BY DEF steer
<1>2. turnCount' \in [Executions -> Nat]
      /\ \A e \in Executions : turnCount[e] \in Nat /\ turnCount[e] <= turnCount'[e]
  BY <1>1 DEF MonitorTypeOK, steer
<1>3. ASSUME listeners # <<>>
      PROVE  Head(listeners) \in Executions /\ Contains(listeners, Head(listeners))
  <2>1. listeners \in Seq(Executions) /\ Len(listeners) \in Nat \ {0}
        /\ Head(listeners) = listeners[1]
    BY <1>3 DEF MonitorTypeOK
  <2> QED
    BY <2>1 DEF Contains
<1> QED
  BY <1>1, <1>2, <1>3

LEMMA MonitorSteps == MonitorInv /\ [MonitorNext]_monitorVars => MonitorInv'
<1> SUFFICES ASSUME MonitorInv, [MonitorNext]_monitorVars PROVE MonitorInv'
  OBVIOUS
<1>0. MonitorTypeOK /\ LimitsAreKept /\ TurnsAreCounted /\ TurnIsItsOwn /\ ListenersRead
  BY DEF MonitorInv
<1>1. ASSUME NEW e \in Executions, StartStream(e)
      PROVE  MonitorInv'
  <2>1. /\ streaming[e] = "waiting" /\ streaming' = [streaming EXCEPT ![e] = "model"]
        /\ listeners' = Append(listeners, e) /\ listeners \in Seq(Executions)
    BY <1>0, <1>1 DEF StartStream, MonitorTypeOK
  <2>2. MonitorTypeOK'
    BY <1>0, <1>1, <2>1 DEF StartStream, MonitorTypeOK, Reading, breakerVars
  <2>3. ListenersRead'
    <3>1. \A i \in 1 .. Len(listeners) : /\ listeners'[i] = listeners[i]
                                         /\ listeners[i] \in Executions \ {e}
      BY <1>0, <2>1 DEF ListenersRead, Reading
    <3>2. /\ listeners'[Len(listeners) + 1] = e /\ Len(listeners) \in Nat
          /\ DOMAIN listeners' = 1 .. Len(listeners) + 1 /\ DOMAIN listeners = 1 .. Len(listeners)
      BY <2>1
    <3>3. streaming'[e] \in Reading /\ \A f \in Executions \ {e} : streaming'[f] = streaming[f]
      BY <1>0, <2>1 DEF MonitorTypeOK, Reading
    <3>4. \A i \in DOMAIN listeners' : streaming'[listeners'[i]] \in Reading
      BY <1>0, <3>1, <3>2, <3>3 DEF ListenersRead
    <3>5. \A i, j \in DOMAIN listeners' : listeners'[i] = listeners'[j] => i = j
      BY <1>0, <3>1, <3>2 DEF ListenersRead
    <3> QED
      BY <3>4, <3>5 DEF ListenersRead
  <2> QED
    BY <1>0, <1>1, <2>2, <2>3, LimitsRest, TurnsRest DEF StartStream, breakerVars, MonitorInv
<1>2. ASSUME NEW e \in Executions, TextEvent(e)
      PROVE  MonitorInv'
  <2>1. /\ OpenTurn(e) /\ UNCHANGED <<clock, streaming, toolStamps, toolTimes, tokensUsed>>
        /\ UNCHANGED <<executing, listeners, ack>>
        /\ cancels' = [cancels EXCEPT ![e] = @ \cup {} \cup TurnReasons(e)]
    BY <1>2 DEF TextEvent, steerVars
  <2>2. /\ turnCount' \in [Executions -> Nat] /\ llmTurnOpen' \in [Executions -> BOOLEAN]
        /\ llmStamps' \in [Executions -> Seq(Nat)] /\ llmTimes' \in [Executions -> Seq(Nat)]
        /\ cancels' \in [Executions -> SUBSET Reasons] /\ llmTurns' \in [Executions -> SUBSET Nat]
        /\ \A f \in Executions : Recorded(llmStamps'[f], llmTimes'[f], clock',
                                    "llm_call_rate_exceeded" \in cancels'[f], MaxLlmCalls)
        /\ TurnsAreCounted' /\ TurnIsItsOwn'
    <3> DEFINE others == {}
    <3>1. others \subseteq {"tool_call_rate_exceeded"}
      OBVIOUS
    <3>2. cancels' = [cancels EXCEPT ![e] = @ \cup others \cup TurnReasons(e)]
      BY <2>1
    <3> HIDE DEF others
    <3> QED
      BY <2>1, <3>1, <3>2, TurnOpened
  <2>3. MonitorTypeOK'
    BY <1>0, <2>1, <2>2 DEF MonitorTypeOK
  <2>4. TurnReasons(e) \subseteq {"llm_call_rate_exceeded"}
    BY DEF TurnReasons, LlmReasons
  <2>5. \A f \in Executions :
          /\ ("tool_call_rate_exceeded" \in cancels'[f]) <=> ("tool_call_rate_exceeded" \in cancels[f])
          /\ ("token_budget_exceeded" \in cancels'[f]) <=> ("token_budget_exceeded" \in cancels[f])
    BY <1>0, <2>1, <2>4 DEF MonitorTypeOK
  <2>6. LimitsAreKept'
    BY <1>0, <2>1, <2>2, <2>5 DEF LimitsAreKept, Recorded
  <2> QED
    BY <1>0, <2>1, <2>2, <2>3, <2>6, ListenersRest DEF MonitorInv
<1>3. ASSUME NEW e \in Executions, ToolUseEvent(e)
      PROVE  MonitorInv'
  <2>1. /\ OpenTurn(e) /\ UNCHANGED <<clock, tokensUsed, executing, listeners, ack>>
        /\ streaming[e] = "model" /\ streaming' = [streaming EXCEPT ![e] = "tool"]
        /\ toolStamps' = [toolStamps EXCEPT ![e] = Stamped(toolStamps[e], MaxToolCalls)]
        /\ toolTimes' = [toolTimes EXCEPT ![e] = Append(toolTimes[e], clock)]
        /\ cancels' = [cancels EXCEPT ![e] = @ \cup ToolReasons(e) \cup TurnReasons(e)]
    BY <1>3 DEF ToolUseEvent, steerVars, recordToolCall
  <2>a. ToolReasons(e) \subseteq {"tool_call_rate_exceeded"}
    BY DEF ToolReasons
  <2>2. /\ turnCount' \in [Executions -> Nat] /\ llmTurnOpen' \in [Executions -> BOOLEAN]
        /\ llmStamps' \in [Executions -> Seq(Nat)] /\ llmTimes' \in [Executions -> Seq(Nat)]
        /\ cancels' \in [Executions -> SUBSET Reasons] /\ llmTurns' \in [Executions -> SUBSET Nat]
        /\ \A f \in Executions : Recorded(llmStamps'[f], llmTimes'[f], clock',
                                    "llm_call_rate_exceeded" \in cancels'[f], MaxLlmCalls)
        /\ TurnsAreCounted' /\ TurnIsItsOwn'
    BY <2>1, <2>a, TurnOpened
  <2>3. Recorded(Stamped(toolStamps[e], MaxToolCalls), Append(toolTimes[e], clock), clock,
                 "tool_call_rate_exceeded" \in cancels[e] \cup ToolReasons(e), MaxToolCalls)
    BY <1>0, ToolCallRecorded
  <2>4. MonitorTypeOK'
    <3>1. Stamped(toolStamps[e], MaxToolCalls) \in Seq(Nat) /\ Append(toolTimes[e], clock) \in Seq(Nat)
      BY <2>3 DEF Recorded, Ordered
    <3>2. toolStamps' \in [Executions -> Seq(Nat)] /\ toolTimes' \in [Executions -> Seq(Nat)]
      BY <1>0, <2>1, <3>1 DEF MonitorTypeOK
    <3>3. streaming' \in [Executions -> Reading \cup {"waiting", "over"}]
      BY <1>0, <2>1 DEF MonitorTypeOK, Reading
    <3> QED
      BY <1>0, <2>1, <2>2, <3>2, <3>3 DEF MonitorTypeOK
  <2>5. TurnReasons(e) \subseteq {"llm_call_rate_exceeded"}
    BY DEF TurnReasons, LlmReasons
  <2>6. \A f \in Executions :
          /\ ("tool_call_rate_exceeded" \in cancels'[f])
               <=> ("tool_call_rate_exceeded" \in cancels[f] \cup (IF f = e THEN ToolReasons(e) ELSE {}))
          /\ ("token_budget_exceeded" \in cancels'[f]) <=> ("token_budget_exceeded" \in cancels[f])
    BY <1>0, <2>1, <2>5, <2>a DEF MonitorTypeOK
  <2>7. ASSUME NEW f \in Executions
        PROVE  Recorded(toolStamps'[f], toolTimes'[f], clock',
                        "tool_call_rate_exceeded" \in cancels'[f], MaxToolCalls)
    <3>1. CASE f = e
      <4>1. /\ toolStamps'[f] = Stamped(toolStamps[e], MaxToolCalls)
            /\ toolTimes'[f] = Append(toolTimes[e], clock)
        BY <1>0, <2>1, <3>1 DEF MonitorTypeOK
      <4> QED
        BY <2>1, <2>3, <2>6, <3>1, <4>1 DEF Recorded
    <3>2. CASE f # e
      <4>1. toolStamps'[f] = toolStamps[f] /\ toolTimes'[f] = toolTimes[f]
        BY <1>0, <2>1, <3>2 DEF MonitorTypeOK
      <4>2. ("tool_call_rate_exceeded" \in cancels'[f]) <=> ("tool_call_rate_exceeded" \in cancels[f])
        BY <2>6, <3>2
      <4> QED
        BY <1>0, <2>1, <4>1, <4>2 DEF LimitsAreKept, Recorded
    <3> QED
      BY <3>1, <3>2
  <2>8. LimitsAreKept'
    BY <1>0, <2>1, <2>2, <2>6, <2>7 DEF LimitsAreKept
  <2>9. ListenersRead'
    BY <1>0, <2>1, ListenersRest DEF MonitorTypeOK, Reading
  <2> QED
    BY <2>2, <2>4, <2>8, <2>9 DEF MonitorInv
<1>4. ASSUME NEW e \in Executions, ToolResultEvent(e)
      PROVE  MonitorInv'
  <2>1. MonitorTypeOK'
    BY <1>0, <1>4 DEF ToolResultEvent, MonitorTypeOK, Reading, breakerVars, steerVars
  <2>2. ListenersRead'
    BY <1>0, <1>4, ListenersRest DEF ToolResultEvent, MonitorTypeOK, Reading, steerVars
  <2> QED
    BY <1>0, <1>4, <2>1, <2>2, LimitsRest, TurnsRest
    DEF ToolResultEvent, breakerVars, steerVars, MonitorInv
<1>5. ASSUME NEW e \in Executions, UsageEvent(e)
      PROVE  MonitorInv'
  <2>1. PICK n \in 1 .. MaxUsage :
          /\ streaming[e] = "model" /\ streaming' = [streaming EXCEPT ![e] = "told"]
          /\ tokensUsed' = [tokensUsed EXCEPT ![e] = tokensUsed[e] + n]
          /\ cancels' = IF WithinBudgets(e, n) THEN cancels
                        ELSE [cancels EXCEPT ![e] = cancels[e] \cup {"token_budget_exceeded"}]
          /\ UNCHANGED <<clock, turnCount, llmTurnOpen, toolStamps, llmStamps, executing,
                         listeners, ack, toolTimes, llmTimes, llmTurns>>
    BY <1>5 DEF UsageEvent, steerVars
  <2>2. n \in Nat
    BY <2>1, MonitorAssumption
  <2>3. MonitorTypeOK'
    <3>1. tokensUsed' \in [Executions -> Nat]
      BY <1>0, <2>1, <2>2 DEF MonitorTypeOK
    <3>2. cancels' \in [Executions -> SUBSET Reasons]
      BY <1>0, <2>1 DEF MonitorTypeOK, Reasons
    <3>3. streaming' \in [Executions -> Reading \cup {"waiting", "over"}]
      BY <1>0, <2>1 DEF MonitorTypeOK, Reading
    <3> QED
      BY <1>0, <2>1, <3>1, <3>2, <3>3 DEF MonitorTypeOK
  <2>4. ASSUME NEW f \in Executions
        PROVE  /\ ("tool_call_rate_exceeded" \in cancels'[f])
                    <=> ("tool_call_rate_exceeded" \in cancels[f])
               /\ ("llm_call_rate_exceeded" \in cancels'[f])
                    <=> ("llm_call_rate_exceeded" \in cancels[f])
               /\ ("token_budget_exceeded" \in cancels'[f])
                    <=> ~(tokensUsed'[f] <= JobBudget /\ tokensUsed'[f] <= SessionBudget)
    <3>1. CASE f = e
      <4>1. tokensUsed[e] \in Nat /\ tokensUsed'[e] = tokensUsed[e] + n
        BY <1>0, <2>1 DEF MonitorTypeOK
      <4>2. cancels'[e] = IF WithinBudgets(e, n) THEN cancels[e]
                          ELSE cancels[e] \cup {"token_budget_exceeded"}
        BY <1>0, <2>1 DEF MonitorTypeOK
      <4>3. ("token_budget_exceeded" \in cancels[e])
              <=> ~(tokensUsed[e] <= JobBudget /\ tokensUsed[e] <= SessionBudget)
        BY <1>0 DEF LimitsAreKept
      <4>4. WithinBudgets(e, n) <=> tokensUsed'[e] <= JobBudget /\ tokensUsed'[e] <= SessionBudget
        BY <4>1 DEF WithinBudgets
      <4>5. WithinBudgets(e, n) => tokensUsed[e] <= JobBudget /\ tokensUsed[e] <= SessionBudget
        BY <2>2, <4>1, Limits DEF WithinBudgets
      <4> QED
        BY <3>1, <4>2, <4>3, <4>4, <4>5
    <3>2. CASE f # e
      <4>1. tokensUsed'[f] = tokensUsed[f] /\ cancels'[f] = cancels[f]
        BY <1>0, <2>1, <3>2 DEF MonitorTypeOK
      <4> QED
        BY <1>0, <4>1 DEF LimitsAreKept
    <3> QED
      BY <3>1, <3>2
  <2>5. LimitsAreKept'
    BY <1>0, <2>1, <2>4 DEF LimitsAreKept, Recorded
  <2>6. ListenersRead'
    BY <1>0, <2>1, ListenersRest DEF MonitorTypeOK, Reading
  <2> QED
    BY <1>0, <2>1, <2>3, <2>5, <2>6, TurnsRest DEF MonitorInv
<1>6. ASSUME NEW e \in Executions, MonitorStreamEnds(e)
      PROVE  MonitorInv'
  <2>0. listeners \in Seq(Executions) /\ Len(listeners) \in Nat
        /\ DOMAIN listeners = 1 .. Len(listeners)
    BY <1>0 DEF MonitorTypeOK
  <2>1. streaming' = [streaming EXCEPT ![e] = "over"]
        /\ \A f \in Executions \ {e} : streaming'[f] = streaming[f]
    BY <1>0, <1>6 DEF MonitorStreamEnds, MonitorTypeOK
  <2>2. /\ listeners' \in Seq(Executions)
        /\ \A i \in DOMAIN listeners' : listeners'[i] # e
        /\ \A i \in DOMAIN listeners' : \E j \in DOMAIN listeners : listeners'[i] = listeners[j]
        /\ \A i, j \in DOMAIN listeners' : listeners'[i] = listeners'[j] => i = j
    <3>1. CASE ~Contains(listeners, e)
      <4>1. UNCHANGED listeners
        BY <1>6, <3>1 DEF MonitorStreamEnds
      <4> QED
        BY <1>0, <2>0, <3>1, <4>1 DEF Contains, ListenersRead
    <3>2. CASE Contains(listeners, e)
      <4>1. PICK d \in DOMAIN listeners : listeners[d] = e /\ listeners' = RemoveAt(listeners, d)
        BY <1>6, <3>2 DEF MonitorStreamEnds
      <4> DEFINE before == SubSeq(listeners, 1, d - 1)
                 behind == SubSeq(listeners, d + 1, Len(listeners))
      <4>2. /\ before \in Seq(Executions) /\ Len(before) = d - 1
            /\ \A i \in 1 .. d - 1 : before[i] = listeners[i]
        BY <2>0, <4>1, SubSeqProperties
      <4>3. /\ behind \in Seq(Executions) /\ Len(behind) = Len(listeners) - d
            /\ \A i \in 1 .. Len(listeners) - d : behind[i] = listeners[d + i]
        BY <2>0, <4>1, SubSeqProperties
      <4>4. listeners' = before \o behind
        BY <4>1 DEF RemoveAt
      <4> HIDE DEF before, behind
      <4>5. /\ listeners' \in Seq(Executions) /\ DOMAIN listeners' = 1 .. Len(listeners) - 1
            /\ \A i \in 1 .. Len(listeners) - 1 :
                 listeners'[i] = IF i < d THEN listeners[i] ELSE listeners[i + 1]
        <5>1. /\ listeners' \in Seq(Executions) /\ Len(listeners') = Len(listeners) - 1
              /\ \A i \in 1 .. Len(listeners) - 1 :
                   listeners'[i] = IF i <= d - 1 THEN before[i] ELSE behind[i - (d - 1)]
          <6>1. /\ Len(before) \in Nat /\ Len(behind) \in Nat
                /\ Len(before) + Len(behind) = Len(listeners) - 1
            BY <2>0, <4>1, <4>2, <4>3
          <6> QED
            <7>1. /\ before \o behind \in Seq(Executions)
                  /\ Len(before \o behind) = Len(before) + Len(behind)
                  /\ \A i \in 1 .. Len(before) + Len(behind) :
                       (before \o behind)[i]
                         = IF i <= Len(before) THEN before[i] ELSE behind[i - Len(before)]
              BY <4>2, <4>3, ConcatProperties
            <7> QED
              BY <4>2, <4>4, <6>1, <7>1
        <5>2. DOMAIN listeners' = 1 .. Len(listeners) - 1
          BY <5>1
        <5>3. ASSUME NEW i \in 1 .. Len(listeners) - 1
              PROVE  listeners'[i] = IF i < d THEN listeners[i] ELSE listeners[i + 1]
          <6>1. CASE i < d
            BY <2>0, <4>1, <4>2, <5>1, <6>1
          <6>2. CASE ~(i < d)
            <7>1. ~(i <= d - 1) /\ i - (d - 1) \in 1 .. Len(listeners) - d
                  /\ d + (i - (d - 1)) = i + 1
              BY <2>0, <4>1, <6>2
            <7>2. behind[i - (d - 1)] = listeners[d + (i - (d - 1))]
              BY <4>3, <7>1
            <7> QED
              BY <5>1, <6>2, <7>1, <7>2
          <6> QED
            BY <6>1, <6>2
        <5> QED
          BY <5>1, <5>2, <5>3
      <4>6. \A i, j \in 1 .. Len(listeners) : listeners[i] = listeners[j] => i = j
        BY <1>0, <2>0 DEF ListenersRead
      <4>7. ASSUME NEW i \in DOMAIN listeners'
            PROVE  /\ listeners'[i] # e
                   /\ \E j \in DOMAIN listeners : listeners'[i] = listeners[j]
        <5>1. CASE i < d
          BY <2>0, <4>1, <4>5, <4>6, <4>7, <5>1
        <5>2. CASE ~(i < d)
          <6>1. i + 1 \in 1 .. Len(listeners) /\ i + 1 # d /\ listeners'[i] = listeners[i + 1]
            BY <2>0, <4>1, <4>5, <4>7, <5>2
          <6> QED
            BY <2>0, <4>1, <4>6, <6>1
        <5> QED
          BY <5>1, <5>2
      <4>8. ASSUME NEW i \in DOMAIN listeners', NEW j \in DOMAIN listeners',
                   listeners'[i] = listeners'[j]
            PROVE  i = j
        <5> DEFINE p == IF i < d THEN i ELSE i + 1
                   q == IF j < d THEN j ELSE j + 1
        <5>1. /\ p \in 1 .. Len(listeners) /\ listeners'[i] = listeners[p]
              /\ q \in 1 .. Len(listeners) /\ listeners'[j] = listeners[q]
          BY <2>0, <4>1, <4>5
        <5>2. p = q
          BY <4>6, <4>8, <5>1
        <5> QED
          BY <2>0, <4>1, <4>5, <5>2
      <4> QED
        BY <4>5, <4>7, <4>8
    <3> QED
      BY <3>1, <3>2
  <2>3. MonitorTypeOK'
    BY <1>0, <1>6, <2>1, <2>2 DEF MonitorStreamEnds, MonitorTypeOK, breakerVars
  <2>4. ListenersRead'
    <3>1. ASSUME NEW i \in DOMAIN listeners'
          PROVE  streaming'[listeners'[i]] \in Reading
      BY <1>0, <2>0, <2>1, <2>2 DEF ListenersRead
    <3> QED
      BY <2>2, <3>1 DEF ListenersRead
  <2> QED
    BY <1>0, <1>6, <2>3, <2>4, LimitsRest, TurnsRest DEF MonitorStreamEnds, breakerVars, MonitorInv
<1>7. ASSUME NEW m \in Steers, steerAsync(m)
      PROVE  MonitorInv'
  <2> DEFINE next == IF listeners = <<>> THEN [Unsent EXCEPT !.told = "pending"]
                     ELSE [told |-> "acknowledged", by |-> Head(listeners),
                           turn |-> turnCount[Head(listeners)] + 1]
  <2>1. /\ ack[m].told = "unsent" /\ steer /\ ack' = [ack EXCEPT ![m] = next]
        /\ UNCHANGED <<clock, streaming, llmTurnOpen, toolStamps, llmStamps, tokensUsed, cancels>>
        /\ UNCHANGED <<executing, listeners, toolTimes, llmTimes, llmTurns>>
    BY <1>7 DEF steerAsync, breakerVars
  <2>2. /\ turnCount' \in [Executions -> Nat]
        /\ \A e \in Executions : turnCount[e] \in Nat /\ turnCount[e] <= turnCount'[e]
        /\ listeners # <<>> => /\ Head(listeners) \in Executions
                               /\ turnCount'[Head(listeners)] = turnCount[Head(listeners)] + 1
    BY <1>0, <2>1, SteerCounts
  <2>3. /\ next \in Answer
        /\ next.told = "acknowledged" =>
             /\ next.by \in Executions
             /\ next.turn = turnCount[next.by] + 1 /\ next.turn <= turnCount'[next.by]
    <3>1. CASE listeners = <<>>
      <4>1. next = [told |-> "pending", by |-> NoExecution, turn |-> 0]
        BY <3>1 DEF Unsent
      <4> QED
        BY <4>1 DEF Answer
    <3>2. CASE listeners # <<>>
      <4>1. next = [told |-> "acknowledged", by |-> Head(listeners),
                    turn |-> turnCount[Head(listeners)] + 1]
        BY <3>2
      <4> QED
        BY <2>2, <3>2, <4>1 DEF Answer
    <3> QED
      BY <3>1, <3>2
  <2> HIDE DEF next
  <2>4. MonitorTypeOK'
    BY <1>0, <2>1, <2>2, <2>3 DEF MonitorTypeOK
  <2>5. \A o \in Steers : ack'[o] = IF o = m THEN next ELSE ack[o]
    BY <1>0, <2>1 DEF MonitorTypeOK
  <2>6. \A o \in Steers : ack[o].told = "acknowledged" =>
          /\ ack[o].by \in Executions /\ ack[o].turn \in Nat
          /\ ack[o].turn <= turnCount[ack[o].by]
    BY <1>0 DEF TurnsAreCounted, MonitorTypeOK, Answer
  <2>7. \A e \in Executions : \A n \in llmTurns[e] : n \in Nat /\ n <= turnCount[e]
    BY <1>0 DEF TurnsAreCounted, MonitorTypeOK
  <2>8. TurnsAreCounted'
    <3>1. \A e \in Executions : \A n \in llmTurns'[e] : n <= turnCount'[e]
      BY <2>1, <2>2, <2>7
    <3>2. ASSUME NEW o \in Steers, ack'[o].told = "acknowledged"
          PROVE  ack'[o].by \in Executions /\ ack'[o].turn <= turnCount'[ack'[o].by]
      <4>1. CASE o = m
        BY <2>3, <2>5, <3>2, <4>1
      <4>2. CASE o # m
        BY <2>2, <2>5, <2>6, <3>2, <4>2
      <4> QED
        BY <4>1, <4>2
    <3> QED
      BY <3>1, <3>2 DEF TurnsAreCounted
  <2>9. TurnIsItsOwn'
    <3>1. ASSUME NEW o \in Steers, ack'[o].told = "acknowledged"
          PROVE  ack'[o].turn \notin llmTurns'[ack'[o].by]
      <4>1. CASE o = m
        BY <2>1, <2>2, <2>3, <2>5, <2>7, <3>1, <4>1
      <4>2. CASE o # m
        BY <1>0, <2>1, <2>5, <3>1, <4>2 DEF TurnIsItsOwn
      <4> QED
        BY <4>1, <4>2
    <3>2. ASSUME NEW o \in Steers, NEW p \in Steers \ {o}, ack'[o].told = "acknowledged",
                 ack'[p].told = "acknowledged", ack'[p].by = ack'[o].by
          PROVE  ack'[p].turn # ack'[o].turn
      <4>1. CASE o = m
        BY <2>2, <2>3, <2>5, <2>6, <3>2, <4>1
      <4>2. CASE p = m
        <5>1. /\ ack[o].by \in Executions /\ ack[o].turn \in Nat
              /\ ack[o].turn <= turnCount[ack[o].by] /\ ack'[o] = ack[o]
          BY <2>5, <2>6, <3>2, <4>2
        <5>2. ack'[p].turn = turnCount[ack[o].by] + 1
          BY <2>3, <2>5, <3>2, <4>2, <5>1
        <5> QED
          BY <2>2, <5>1, <5>2
      <4>3. CASE o # m /\ p # m
        BY <1>0, <2>5, <3>2, <4>3 DEF TurnIsItsOwn
      <4> QED
        BY <4>1, <4>2, <4>3
    <3> QED
      BY <3>1, <3>2 DEF TurnIsItsOwn
  <2> QED
    BY <1>0, <2>1, <2>4, <2>8, <2>9, LimitsRest, ListenersRest DEF MonitorInv
<1>8. CASE Annotate
  <2>1. /\ steer
        /\ UNCHANGED <<clock, streaming, llmTurnOpen, toolStamps, llmStamps, tokensUsed, cancels>>
        /\ UNCHANGED <<executing, listeners, ack, toolTimes, llmTimes, llmTurns>>
    BY <1>8 DEF Annotate, breakerVars, steerVars
  <2>2. /\ turnCount' \in [Executions -> Nat]
        /\ \A e \in Executions : turnCount[e] \in Nat /\ turnCount[e] <= turnCount'[e]
    BY <1>0, <2>1, SteerCounts
  <2>3. MonitorTypeOK'
    BY <1>0, <2>1, <2>2 DEF MonitorTypeOK
  <2>4. TurnsAreCounted'
    <3>1. ASSUME NEW e \in Executions, NEW n \in llmTurns'[e]
          PROVE  n <= turnCount'[e]
      BY <1>0, <2>1, <2>2 DEF TurnsAreCounted, MonitorTypeOK
    <3>2. ASSUME NEW o \in Steers, ack'[o].told = "acknowledged"
          PROVE  ack'[o].by \in Executions /\ ack'[o].turn <= turnCount'[ack'[o].by]
      <4>1. ack[o].by \in Executions /\ ack[o].turn \in Nat /\ ack[o].turn <= turnCount[ack[o].by]
        BY <1>0, <2>1, <3>2 DEF TurnsAreCounted, MonitorTypeOK, Answer
      <4> QED
        BY <2>1, <2>2, <4>1
    <3> QED
      BY <3>1, <3>2 DEF TurnsAreCounted
  <2>5. TurnIsItsOwn'
    BY <1>0, <2>1 DEF TurnIsItsOwn
  <2> QED
    BY <1>0, <2>1, <2>3, <2>4, <2>5, LimitsRest, ListenersRest DEF MonitorInv
<1>9. ASSUME NEW m \in Steers, SteerUnheard(m)
      PROVE  MonitorInv'
  <2>1. /\ ack' = [ack EXCEPT ![m].told = "unacknowledged"]
        /\ UNCHANGED <<clock, streaming, turnCount, llmTurnOpen, toolStamps, llmStamps, tokensUsed>>
        /\ UNCHANGED <<cancels, executing, listeners, toolTimes, llmTimes, llmTurns>>
    BY <1>9 DEF SteerUnheard, breakerVars
  <2>2. \A o \in Steers : ack'[o] = IF o = m THEN [ack[o] EXCEPT !.told = "unacknowledged"] ELSE ack[o]
    BY <1>0, <2>1 DEF MonitorTypeOK
  <2>3. [ack[m] EXCEPT !.told = "unacknowledged"] \in Answer
        /\ [ack[m] EXCEPT !.told = "unacknowledged"].told = "unacknowledged"
    BY <1>0 DEF MonitorTypeOK, Answer
  <2>4. MonitorTypeOK'
    BY <1>0, <2>1, <2>3 DEF MonitorTypeOK
  <2>5. \A o \in Steers : ack'[o].told = "acknowledged" => ack'[o] = ack[o]
    BY <2>2, <2>3
  <2>6. TurnsAreCounted' /\ TurnIsItsOwn'
    BY <1>0, <2>1, <2>5 DEF TurnsAreCounted, TurnIsItsOwn
  <2> QED
    BY <1>0, <2>1, <2>4, <2>6, LimitsRest, ListenersRest DEF MonitorInv
<1>10. CASE RunAgent
  <2>1. MonitorTypeOK'
    BY <1>0, <1>10 DEF RunAgent, MonitorTypeOK, breakerVars
  <2> QED
    BY <1>0, <1>10, <2>1, LimitsRest, TurnsRest, ListenersRest DEF RunAgent, breakerVars, MonitorInv
<1>11. CASE forgetListeners
  <2>1. MonitorTypeOK'
    <3>1. executing' \in BOOLEAN /\ listeners' \in Seq(Executions)
      <4>1. executing' = FALSE /\ listeners' = <<>>
        BY <1>11 DEF forgetListeners
      <4>2. executing' \in BOOLEAN
        BY <4>1
      <4>3. listeners' \in Seq(Executions)
        BY <4>1
      <4> QED
        BY <4>2, <4>3
    <3> QED
      BY <1>0, <1>11, <3>1 DEF forgetListeners, MonitorTypeOK, breakerVars
  <2>2. ListenersRead'
    BY <1>11 DEF forgetListeners, ListenersRead
  <2> QED
    BY <1>0, <1>11, <2>1, <2>2, LimitsRest, TurnsRest DEF forgetListeners, breakerVars, MonitorInv
<1>12. CASE TimePasses
  <2>1. MonitorTypeOK'
    BY <1>0, <1>12 DEF TimePasses, MonitorTypeOK, breakerVars, steerVars
  <2>2. LimitsAreKept'
    <3> SUFFICES ASSUME NEW e \in Executions
                 PROVE  /\ Recorded(toolStamps[e], toolTimes[e], clock',
                                    "tool_call_rate_exceeded" \in cancels[e], MaxToolCalls)
                        /\ Recorded(llmStamps[e], llmTimes[e], clock',
                                    "llm_call_rate_exceeded" \in cancels[e], MaxLlmCalls)
      BY <1>0, <1>12 DEF TimePasses, LimitsAreKept, breakerVars
    <3>1. clock \in Nat /\ clock' \in Nat /\ clock <= clock'
      BY <1>0, <1>12 DEF TimePasses, MonitorTypeOK
    <3> QED
      BY <1>0, <3>1, TimeGoesOn DEF LimitsAreKept
  <2> QED
    BY <1>0, <1>12, <2>1, <2>2, TurnsRest, ListenersRest
    DEF TimePasses, breakerVars, steerVars, MonitorInv
<1>13. CASE UNCHANGED monitorVars
  <2>1. MonitorTypeOK'
    BY <1>0, <1>13 DEF monitorVars, breakerVars, steerVars, MonitorTypeOK
  <2> QED
    BY <1>0, <1>13, <2>1, LimitsRest, TurnsRest, ListenersRest
    DEF monitorVars, breakerVars, steerVars, MonitorInv
<1> QED
  BY <1>1, <1>2, <1>3, <1>4, <1>5, <1>6, <1>7, <1>8, <1>9, <1>10, <1>11, <1>12, <1>13
  DEF MonitorNext

\* An execution is cut if and only if its whole history passed a limit, although its breaker
\* forgets the calls that are older than a window, and those it refused.
THEOREM ExcessIsCut == MonitorSpec => []CutIffOverrun
<1>1. MonitorInv => CutIffOverrun
  BY DEF MonitorInv, LimitsAreKept, Recorded, CutIffOverrun
<1> QED
  BY <1>1, MonitorStarts, MonitorSteps, PTL DEF MonitorSpec

\* The number an operator is told names one place of the execution: no turn of the model and no
\* other message has it, in whatever order messages and events come.
THEOREM TurnsAreOwn == MonitorSpec => []TurnIsItsOwn
<1>1. MonitorInv => TurnIsItsOwn
  BY DEF MonitorInv
<1> QED
  BY <1>1, MonitorStarts, MonitorSteps, PTL DEF MonitorSpec

\* Only an execution that reads events acknowledges: unsubSteer() in the finally of its loop.
THEOREM LiveAcknowledge == MonitorSpec => AcknowledgedByLive
<1> DEFINE Live == \A m \in Steers : ack[m].told = "unsent" /\ ack'[m].told = "acknowledged" =>
                     streaming[ack'[m].by] \in {"model", "tool", "told"}
<1>1. MonitorInv /\ [MonitorNext]_monitorVars => [Live]_monitorVars
  <2> SUFFICES ASSUME MonitorInv, [MonitorNext]_monitorVars, NEW m \in Steers,
                      ack[m].told = "unsent", ack'[m].told = "acknowledged"
               PROVE  streaming[ack'[m].by] \in {"model", "tool", "told"}
    OBVIOUS
  <2>1. ack \in [Steers -> Answer] /\ listeners \in Seq(Executions)
    BY DEF MonitorInv, MonitorTypeOK
  <2>2. \E o \in Steers : steerAsync(o) \/ SteerUnheard(o)
    BY DEF MonitorNext, monitorVars, steerVars, Annotate, RunAgent, forgetListeners, TimePasses,
           StartStream, TextEvent, ToolUseEvent, ToolResultEvent, UsageEvent, MonitorStreamEnds
  <2>3. ASSUME NEW o \in Steers, SteerUnheard(o) PROVE FALSE
    BY <2>1, <2>3 DEF SteerUnheard, Answer
  <2>4. ASSUME NEW o \in Steers, steerAsync(o)
        PROVE  listeners # <<>> /\ ack'[m].by = Head(listeners)
    BY <2>1, <2>4 DEF steerAsync, Answer, Unsent
  <2>5. listeners # <<>> /\ ack'[m].by = listeners[1] /\ 1 \in DOMAIN listeners
    BY <2>1, <2>2, <2>3, <2>4
  <2> QED
    BY <2>5 DEF MonitorInv, ListenersRead, Reading
<1>2. MonitorSpec => []MonitorInv
  BY MonitorStarts, MonitorSteps, PTL DEF MonitorSpec
<1> QED
  BY <1>1, <1>2, PTL DEF MonitorSpec, AcknowledgedByLive
=============================================================================
