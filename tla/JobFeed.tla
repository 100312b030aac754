------------------------------- MODULE JobFeed -------------------------------
(*****************************************************************************)
(* How a change of a job reaches the dashboard's list of jobs: the stream of *)
(* dashboardRoutes polls the table, the SSE client of the tab connects,      *)
(* loses and pauses the stream, and useJobsPage refetches when its buffer of *)
(* events grows.  One job stands for the table; its updates are numbered.    *)
(*****************************************************************************)
EXTENDS Naturals, FiniteSets

CONSTANTS
  Polls,      \* polls of the stream that may be in flight
  MaxUpdate,  \* updates of the job
  BufferSize  \* maxEvents of useSSE

ASSUME FeedAssumption == {MaxUpdate, BufferSize} \subseteq Nat \ {0}

VARIABLES
  update,     \* the update of the job that the table holds, from 1
  poll,       \* per poll, the update it read, 0 when it is not in flight
  lastSeen,   \* the connection's lastSeen entry of the job, 0 for none
  source,     \* the EventSource: "none", "connecting" or "open"
  retrying,   \* reconnectTimer is set
  hidden, wasConnected,   \* the tab, and the reference of useSSE
  received,   \* the update that the last event told of
  buffered,   \* length of the buffer of events
  counted,    \* prevEventCount
  refetched,  \* the update that the last refetch was sent for
  unheard     \* history: an event arrived in a buffer that did not grow by it

feedVars == <<update, poll, lastSeen, source, retrying, hidden, wasConnected,
              received, buffered, counted, refetched, unheard>>

client == <<source, retrying, hidden, wasConnected>>

pageState == <<received, buffered, counted, refetched, unheard>>

FeedInit ==
  /\ update = 1 /\ poll = [p \in Polls |-> 0] /\ lastSeen = 0
  /\ source = "connecting" /\ retrying = FALSE /\ hidden = FALSE /\ wasConnected = FALSE
  /\ received = 0 /\ buffered = 0 /\ counted = 0 /\ refetched = 0 /\ unheard = FALSE

--------------------------------------------------------------------------------
\* The server.

UpdateJob ==
  /\ update < MaxUpdate /\ update' = update + 1
  /\ UNCHANGED <<poll, lastSeen, client, pageState>>

\* Every two seconds, whether or not the poll before has ended.
StartPoll(p) ==
  /\ source = "open" /\ poll[p] = 0 /\ poll' = [poll EXCEPT ![p] = update]
  /\ UNCHANGED <<update, lastSeen, client, pageState>>

\* Mutant: only a job that was not seen before is told of.
IsNew(p) == lastSeen = 0

\* created, or prev.status !== row.status || prev.updatedAt !== updatedAt
Differs(p) == poll[p] # lastSeen

\* Mutant: the buffer keeps every event.
HearUnbounded ==
  /\ buffered' = buffered + 1
  /\ counted' = buffered' /\ refetched' = update /\ UNCHANGED unheard

\* Mutant: the page compares the events with those of the render before.
HearLate ==
  /\ buffered' = IF buffered < BufferSize THEN buffered + 1 ELSE BufferSize
  /\ counted' = buffered' /\ refetched' = IF buffered > counted THEN update ELSE refetched
  /\ unheard' = (unheard \/ buffered' = buffered)

\* An event enters the buffer; the page refetches when the buffer is longer than it has been.
Hear ==
  /\ buffered' = IF buffered < BufferSize THEN buffered + 1 ELSE BufferSize
  /\ IF buffered' > counted THEN counted' = buffered' /\ refetched' = update
     ELSE UNCHANGED <<counted, refetched>>
  /\ unheard' = (unheard \/ buffered' = buffered)

\* The rows of a poll are compared with what was sent; a poll of a closed connection writes
\* to nobody.
EndPoll(p) ==
  /\ poll[p] # 0 /\ poll' = [poll EXCEPT ![p] = 0]
  /\ IF Differs(p) THEN lastSeen' = poll[p] /\ received' = poll[p] /\ Hear
     ELSE UNCHANGED <<lastSeen, pageState>>
  /\ UNCHANGED <<update, client>>

PollFails(p) ==
  /\ poll[p] # 0 /\ poll' = [poll EXCEPT ![p] = 0]
  /\ UNCHANGED <<update, lastSeen, client, pageState>>

--------------------------------------------------------------------------------
\* The tab.

\* A new connection has a lastSeen of its own; polls of an old one are lost with it.
Dropped == poll' = [p \in Polls |-> 0] /\ lastSeen' = 0

Opened ==
  /\ source = "connecting" /\ source' = "open"
  /\ UNCHANGED <<update, poll, lastSeen, retrying, hidden, wasConnected, pageState>>

Fails ==
  /\ source # "none" /\ source' = "none" /\ retrying' = TRUE /\ Dropped
  /\ UNCHANGED <<update, hidden, wasConnected, pageState>>

Retry ==
  /\ retrying /\ retrying' = FALSE
  /\ source' = IF source = "none" THEN "connecting" ELSE source
  /\ UNCHANGED <<update, poll, lastSeen, hidden, wasConnected, pageState>>

\* Mutant: the tab only notes a stream that is open.
HideOpen ==
  /\ ~hidden /\ hidden' = TRUE
  /\ IF source # "none"
     THEN source' = "none" /\ retrying' = FALSE /\ wasConnected' = (source = "open") /\ Dropped
     ELSE UNCHANGED <<source, retrying, wasConnected, poll, lastSeen>>
  /\ UNCHANGED <<update, pageState>>

\* The tab is hidden: a stream is closed and noted; a stream that waits for its next attempt
\* is left to it.
Hide ==
  /\ ~hidden /\ hidden' = TRUE
  /\ IF source # "none"
     THEN source' = "none" /\ retrying' = FALSE /\ wasConnected' = TRUE /\ Dropped
     ELSE UNCHANGED <<source, retrying, wasConnected, poll, lastSeen>>
  /\ UNCHANGED <<update, pageState>>

Show ==
  /\ hidden /\ hidden' = FALSE /\ wasConnected' = FALSE
  /\ IF wasConnected /\ source = "none" THEN source' = "connecting" /\ retrying' = FALSE
     ELSE UNCHANGED <<source, retrying>>
  /\ UNCHANGED <<update, poll, lastSeen, pageState>>

FeedNext ==
  \/ UpdateJob
  \/ \E p \in Polls : StartPoll(p) \/ EndPoll(p) \/ PollFails(p)
  \/ Opened \/ Fails \/ Retry \/ Hide \/ Show

\* Timers run, and of a poll that is repeated for ever not all fail.  Connections need not
\* come about.
FeedFairness ==
  /\ WF_feedVars(Retry)
  /\ \A p \in Polls : WF_feedVars(StartPoll(p)) /\ SF_feedVars(EndPoll(p))

--------------------------------------------------------------------------------
\* The types of the variables.
FeedTypeOK ==
  /\ update \in 1 .. MaxUpdate /\ poll \in [Polls -> 0 .. MaxUpdate]
  /\ {lastSeen, received, refetched} \subseteq 0 .. MaxUpdate
  /\ source \in {"none", "connecting", "open"} /\ {retrying, hidden, wasConnected, unheard} \subseteq BOOLEAN
  /\ {buffered, counted} \subseteq 0 .. BufferSize

\* A tab that is shown has a stream or an attempt to come, however errors, timers and changes
\* of its visibility interleave.
ShownIsConnecting == ~hidden => source # "none" \/ retrying

\* Until the buffer of events is full, the list was refetched no earlier than the update the
\* last event told of; from then on, events change nothing (useJobsPage compares lengths).
EventsRefetch == ~unheard => refetched >= received

\* The stream ends at the last update, also when polls overlap and the rows of a later one
\* are sent first.
FeedCatchesUp ==
  (source = "open" /\ update = MaxUpdate) ~> (source # "open" \/ received = MaxUpdate)
================================================================================
