---------------------------- MODULE MemoryWindows -----------------------------
(*****************************************************************************)
(* Memory extraction of one session: the executions record its messages,     *)
(* windows of messages that were not extracted yet are put into the queue,   *)
(* memory_extract extracts a window and marks its messages.  An id is drawn  *)
(* at the INSERT and its row is seen after the commit, so the rows of two    *)
(* executions may become visible in another order than that of their ids.    *)
(*****************************************************************************)
EXTENDS Naturals, FiniteSets

CONSTANTS
  MaxId,         \* bound: the messages recorded
  Flushers,      \* bound: windows being loaded at one time
  ExtractTasks,  \* bound: workers that run memory_extract
  Threshold      \* a window is loaded when so many messages are pending

ASSUME MemoryAssumption == MaxId \in Nat /\ Threshold \in Nat \ {0}

Ids == 1..MaxId

VARIABLES
  row,        \* memory_extract_message, by id
  recorder,   \* recordMessage, by the id it was given
  pending,    \* pending_count
  flusher,    \* enqueuePendingWindow
  windows,    \* the entries of the queue, keyed by upTo
  task,       \* memory_extract
  extracted,  \* history: ids whose window went through the pipeline
  overtaken,  \* history: ids committed when a window beyond them had been loaded
  dropped     \* history: ids of a window that was let go after they were last loaded

memoryVars == <<row, recorder, pending, flusher, windows, task, extracted, overtaken, dropped>>

Window == [upTo: Ids, ids: SUBSET Ids]

NoFlush == [pc |-> "none"]
NoTask  == [pc |-> "none"]

MemoryInit ==
  /\ row = [i \in Ids |-> "absent"]
  /\ recorder = [i \in Ids |-> "none"]
  /\ pending = 0
  /\ flusher = [f \in Flushers |-> NoFlush]
  /\ windows = {}
  /\ task = [t \in ExtractTasks |-> NoTask]
  /\ extracted = {} /\ overtaken = {} /\ dropped = {}

-----------------------------------------------------------------------------
Unmarked == {i \in Ids : row[i] = "unmarked"}

\* The window a query would load: all that is visible, up to the last id.
Visible == [upTo |-> CHOOSE i \in Unmarked : \A j \in Unmarked : j <= i, ids |-> Unmarked]

Loaded == windows \cup {flusher[f].window : f \in {g \in Flushers : flusher[g].pc = "adding"}}
                  \cup {task[t].window : t \in {u \in ExtractTasks : task[u].pc \in {"extracting", "marking"}}}

\* recordMessage: INSERT draws the next id; the counter is updated in the same
\* transaction, and the commit shows both.
InsertMessage(i) ==
  /\ recorder[i] = "none" /\ \A j \in Ids : j < i => recorder[j] # "none"
  /\ recorder' = [recorder EXCEPT ![i] = "committing"]
  /\ UNCHANGED <<row, pending, flusher, windows, task, extracted, overtaken, dropped>>

\* Mutant: the counter is updated in both statements.
CommitTwice(i) ==
  /\ recorder[i] = "committing"
  /\ recorder' = [recorder EXCEPT ![i] = "counting"]
  /\ row' = [row EXCEPT ![i] = "unmarked"]
  /\ pending' = pending + 2
  /\ overtaken' = IF \E w \in Loaded : w.upTo > i THEN overtaken \cup {i} ELSE overtaken
  /\ UNCHANGED <<flusher, windows, task, extracted, dropped>>

\* Mutant: the counter is not part of the transaction.
CommitUncounted(i) ==
  /\ recorder[i] = "committing"
  /\ recorder' = [recorder EXCEPT ![i] = "counting"]
  /\ row' = [row EXCEPT ![i] = "unmarked"]
  /\ pending' = pending
  /\ overtaken' = IF \E w \in Loaded : w.upTo > i THEN overtaken \cup {i} ELSE overtaken
  /\ UNCHANGED <<flusher, windows, task, extracted, dropped>>

CommitMessage(i) ==
  /\ recorder[i] = "committing"
  /\ recorder' = [recorder EXCEPT ![i] = "counting"]
  /\ row' = [row EXCEPT ![i] = "unmarked"]
  /\ pending' = pending + 1
  /\ overtaken' = IF \E w \in Loaded : w.upTo > i THEN overtaken \cup {i} ELSE overtaken
  /\ UNCHANGED <<flusher, windows, task, extracted, dropped>>

RollBack(i) ==
  /\ recorder[i] = "committing"
  /\ recorder' = [recorder EXCEPT ![i] = "done"]
  /\ UNCHANGED <<row, pending, flusher, windows, task, extracted, overtaken, dropped>>

\* The counter is read again: below the threshold that was all.
CountPending(i) ==
  /\ recorder[i] = "counting"
  /\ IF pending < Threshold
     THEN flusher' = flusher
     ELSE \E f \in Flushers : /\ flusher[f] = NoFlush
                              /\ flusher' = [flusher EXCEPT ![f] = [pc |-> "loading"]]
  /\ recorder' = [recorder EXCEPT ![i] = "done"]
  /\ UNCHANGED <<row, pending, windows, task, extracted, overtaken, dropped>>

\* flushSession at the end of an execution; flushAllPending at a start asks for sessions
\* with a count first.
Flush(f) ==
  /\ flusher[f] = NoFlush
  /\ flusher' = [flusher EXCEPT ![f] = [pc |-> "loading"]]
  /\ UNCHANGED <<row, recorder, pending, windows, task, extracted, overtaken, dropped>>

LoadWindow(f) ==
  /\ flusher[f].pc = "loading"
  /\ flusher' = [flusher EXCEPT ![f] =
       IF Unmarked = {} THEN NoFlush ELSE [pc |-> "adding", window |-> Visible]]
  /\ dropped' = dropped \ Unmarked
  /\ UNCHANGED <<row, recorder, pending, windows, task, extracted, overtaken>>

\* addJob replaces an entry with the same key that no worker has locked.
AddWindow(f) ==
  /\ flusher[f].pc = "adding"
  /\ windows' = {w \in windows : w.upTo # flusher[f].window.upTo} \cup {flusher[f].window}
  /\ flusher' = [flusher EXCEPT ![f] = NoFlush]
  /\ UNCHANGED <<row, recorder, pending, task, extracted, overtaken, dropped>>

\* The query or addJob fails, or the process dies.
FlushFails(f) ==
  /\ flusher[f] # NoFlush
  /\ dropped' = IF flusher[f].pc = "adding" THEN dropped \cup flusher[f].window.ids ELSE dropped
  /\ flusher' = [flusher EXCEPT ![f] = NoFlush]
  /\ UNCHANGED <<row, recorder, pending, windows, task, extracted, overtaken>>

\* A worker takes a window.  A task without deps, as createWorker makes it, returns at
\* once; one that has them extracts.
TakeWindow(t) ==
  /\ task[t] = NoTask
  /\ \E w \in windows :
       /\ windows' = windows \ {w}
       /\ \/ task' = task /\ dropped' = dropped \cup w.ids
          \/ task' = [task EXCEPT ![t] = [pc |-> "extracting", window |-> w]] /\ dropped' = dropped
  /\ UNCHANGED <<row, recorder, pending, flusher, extracted, overtaken>>

Extract(t) ==
  /\ task[t].pc = "extracting"
  /\ extracted' = extracted \cup task[t].window.ids
  /\ task' = [task EXCEPT ![t].pc = "marking"]
  /\ UNCHANGED <<row, recorder, pending, flusher, windows, overtaken, dropped>>

\* The model call, the parsing or a statement throws, or the worker dies: one attempt is
\* all there is.
TaskFails(t) ==
  /\ task[t] # NoTask
  /\ dropped' = IF task[t].pc = "uncounting" THEN dropped ELSE dropped \cup task[t].window.ids
  /\ task' = [task EXCEPT ![t] = NoTask]
  /\ UNCHANGED <<row, recorder, pending, flusher, windows, extracted, overtaken>>

\* Mutant: the last message of the window is left out.
MarkedBelow(t) == {i \in Unmarked : i < task[t].window.upTo}

\* markMessagesExtracted marks by id, and then takes from the counter what it marked.
Marked(t) == {i \in Unmarked : i <= task[t].window.upTo}

\* Mutant: all messages of the session are marked.
MarkAll(t) ==
  /\ task[t].pc = "marking"
  /\ row' = [i \in Ids |-> IF i \in Unmarked THEN "marked" ELSE row[i]]
  /\ task' = [task EXCEPT ![t] =
       IF Unmarked = {} THEN NoTask ELSE [pc |-> "uncounting", count |-> Cardinality(Unmarked)]]
  /\ UNCHANGED <<recorder, pending, flusher, windows, extracted, overtaken, dropped>>

MarkRows(t) ==
  /\ task[t].pc = "marking"
  /\ row' = [i \in Ids |-> IF i \in Marked(t) THEN "marked" ELSE row[i]]
  /\ task' = [task EXCEPT ![t] =
       IF Marked(t) = {} THEN NoTask ELSE [pc |-> "uncounting", count |-> Cardinality(Marked(t))]]
  /\ UNCHANGED <<recorder, pending, flusher, windows, extracted, overtaken, dropped>>

Uncount(t) ==
  /\ task[t].pc = "uncounting"
  /\ pending' = IF pending > task[t].count THEN pending - task[t].count ELSE 0
  /\ task' = [task EXCEPT ![t] = NoTask]
  /\ UNCHANGED <<row, recorder, flusher, windows, extracted, overtaken, dropped>>

MemoryNext ==
  \/ \E i \in Ids : InsertMessage(i) \/ CommitMessage(i) \/ RollBack(i) \/ CountPending(i)
  \/ \E f \in Flushers : Flush(f) \/ LoadWindow(f) \/ AddWindow(f) \/ FlushFails(f)
  \/ \E t \in ExtractTasks :
       TakeWindow(t) \/ Extract(t) \/ MarkRows(t) \/ Uncount(t) \/ TaskFails(t)

MemorySpec == MemoryInit /\ [][MemoryNext]_memoryVars

\* Queries and statements settle and workers take what is in the queue.  That an execution
\* ends and flushes again, or that an extraction succeeds, is not assumed.
MemoryFairness ==
  /\ \A i \in Ids : WF_memoryVars(CommitMessage(i) \/ RollBack(i))
  /\ \A f \in Flushers : WF_memoryVars(LoadWindow(f) \/ AddWindow(f) \/ FlushFails(f))
  /\ \A t \in ExtractTasks : /\ SF_memoryVars(TakeWindow(t))
                             /\ WF_memoryVars(Extract(t) \/ MarkRows(t) \/ Uncount(t) \/ TaskFails(t))

MemoryFair == MemorySpec /\ MemoryFairness

-----------------------------------------------------------------------------
\* Rows, counters, windows and what is in flight are well formed.
MemoryTypeOK ==
  /\ row \in [Ids -> {"absent", "unmarked", "marked"}]
  /\ recorder \in [Ids -> {"none", "committing", "counting", "done"}]
  /\ pending \in 0..MaxId
  /\ flusher \in [Flushers -> {NoFlush, [pc |-> "loading"]} \cup [pc: {"adding"}, window: Window]]
  /\ windows \subseteq Window
  /\ task \in [ExtractTasks -> {NoTask} \cup [pc: {"extracting", "marking"}, window: Window]
                                \cup [pc: {"uncounting"}, count: 1..MaxId]]
  /\ extracted \subseteq Ids /\ overtaken \subseteq Ids /\ dropped \subseteq Ids

\* A message that is marked was extracted, unless its commit was overtaken: a window that
\* goes beyond its id had been loaded without it, and the mark goes by the last id alone.
MarkedIsExtracted == \A i \in Ids : row[i] = "marked" => i \in extracted \cup overtaken

\* flushAllPending finds the session as long as a message of it is not marked: the count
\* never falls below what is there to extract, however marks, counts and crashes fall.
PendingFindsAll == Cardinality(Unmarked) <= pending

\* No message is forgotten: neither marked without having been extracted, nor left where
\* no flush would look for it.
MemoryIsKept == MemoryTypeOK /\ MarkedIsExtracted /\ PendingFindsAll

\* A window that was loaded is worked off: the messages in it are marked, unless the task
\* has no deps, or it or the flush fails or dies, however windows overlap, replace one
\* another in the queue and mark one another's messages.  (A message in no window waits
\* for the next flush, which only the end of an execution or a start brings.)
WindowsAreSettled ==
  \A i \in Ids :
    (row[i] = "unmarked" /\ \E w \in Loaded : i \in w.ids)
      ~> (row[i] = "marked" \/ i \in dropped)
=============================================================================
