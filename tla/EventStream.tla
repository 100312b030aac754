----------------------------- MODULE EventStream ------------------------------
(*****************************************************************************)
(* The events of one agent on their way to one dashboard: the manager that   *)
(* numbers them and keeps the last ones for replay, the connection, and the  *)
(* client that reconnects and pauses while its tab is hidden.  The manager   *)
(* keys everything by agent and its connections do not depend on one         *)
(* another.                                                                  *)
(*****************************************************************************)
EXTENDS Naturals, Sequences

CONSTANTS
  MaxEvents,     \* bound: events of an epoch; later ones are not broadcast
  MaxEpochs,     \* bound: restarts of the server
  BufferSize     \* maxReplayBufferSize

ASSUME StreamAssumption ==
  /\ MaxEvents \in Nat /\ MaxEpochs \in Nat
  /\ BufferSize \in Nat \ {0}

VARIABLES
  asksByHeader, \* the client sends Last-Event-ID, which the route reads; SSEClient puts the
               \* id in the query instead
  epoch,       \* restarts so far
  counter,     \* eventCounters
  buffer,      \* replayBuffers
  connection,  \* the client's EventSource, as both ends see it
  wire,        \* events written and not yet received
  client,      \* SSEClient, and the hook's wasConnectedRef
  hidden,      \* the tab is hidden
  received,    \* what the client's handlers were given
  breaks       \* history: how many it had been given when a connection was cut

streamVars == <<asksByHeader, epoch, counter, buffer, connection, wire, client, hidden,
                received, breaks>>

\* The epoch is no part of an event: a restarted server draws the same ids again.
Event == [epoch: 0..MaxEpochs, id: 1..MaxEvents]

\* closed: there is no EventSource.  lost: the client has yet to learn of the error.
Connections == {"closed", "requested", "opened", "lost"}

StreamInit ==
  /\ asksByHeader \in BOOLEAN
  /\ epoch = 0 /\ counter = 0 /\ buffer = <<>>
  /\ connection = "requested" /\ wire = <<>>
  /\ client = [status |-> "connecting", lastId |-> 0, timer |-> FALSE, wasConnected |-> FALSE]
  /\ hidden = FALSE
  /\ received = <<>> /\ breaks = {}

-----------------------------------------------------------------------------
\* The manager.

\* Mutant: the buffer is cut one event too late.
LastOfMore(s, n) == IF Len(s) > n + 1 THEN SubSeq(s, Len(s) - n, Len(s)) ELSE s

LastOf(s, n) == IF Len(s) > n THEN SubSeq(s, Len(s) - n + 1, Len(s)) ELSE s

\* nextEventId, addToReplayBuffer, and the connections are written to.
Numbered(onWire) ==
  LET e == [epoch |-> epoch, id |-> counter + 1] IN
    IF counter = MaxEvents
    THEN UNCHANGED <<counter, buffer>> /\ wire' = onWire
    ELSE /\ counter' = counter + 1
         /\ buffer' = LastOf(Append(buffer, e), BufferSize)
         /\ wire' = Append(onWire, e)

broadcast ==
  /\ counter < MaxEvents
  /\ IF connection = "opened" THEN Numbered(wire)
     ELSE /\ counter' = counter + 1
          /\ buffer' = LastOf(Append(buffer, [epoch |-> epoch, id |-> counter + 1]), BufferSize)
          /\ wire' = wire
  /\ UNCHANGED <<asksByHeader, epoch, connection, client, hidden, received, breaks>>

indexOf(id) == CHOOSE i \in DOMAIN buffer : buffer[i].id = id

\* Mutant: the event with the last id is sent again.
replayFromSame(id) ==
  IF \E i \in DOMAIN buffer : buffer[i].id = id
  THEN SubSeq(buffer, indexOf(id), Len(buffer))
  ELSE buffer

\* Mutant: an id that is not in the buffer is followed by nothing.
replayKnown(id) ==
  IF \E i \in DOMAIN buffer : buffer[i].id = id
  THEN SubSeq(buffer, indexOf(id) + 1, Len(buffer))
  ELSE <<>>

\* replayFrom: what follows the last id, or everything if it is not there.
replayFrom(id) ==
  IF \E i \in DOMAIN buffer : buffer[i].id = id
  THEN SubSeq(buffer, indexOf(id) + 1, Len(buffer))
  ELSE buffer

\* GET /agents/:agentId/stream: connect with its replay, and then the initial state is
\* broadcast.
Accept ==
  /\ connection = "requested"
  /\ connection' = "opened"
  /\ Numbered(IF asksByHeader /\ client.lastId # 0 THEN replayFrom(client.lastId) ELSE <<>>)
  /\ UNCHANGED <<asksByHeader, epoch, client, hidden, received, breaks>>

\* An open connection ends here.
Cut == breaks' = breaks \cup IF connection = "opened" THEN {Len(received)} ELSE {}

\* The route answers 404 or 410, or the network fails.  What is on the wire is lost.
Lose ==
  /\ connection \in {"requested", "opened"}
  /\ connection' = "lost"
  /\ wire' = <<>> /\ Cut
  /\ UNCHANGED <<asksByHeader, epoch, counter, buffer, client, hidden, received>>

\* The server restarts, or disconnectAll clears what it has of the agent.
Restart ==
  /\ epoch < MaxEpochs
  /\ epoch' = epoch + 1 /\ counter' = 0 /\ buffer' = <<>>
  /\ connection' = IF connection \in {"requested", "opened"} THEN "lost" ELSE connection
  /\ wire' = <<>> /\ Cut
  /\ UNCHANGED <<asksByHeader, client, hidden, received>>

-----------------------------------------------------------------------------
\* SSEClient.

\* connect(): an EventSource there is already is kept.
Connected ==
  /\ connection' = IF connection = "closed" THEN "requested" ELSE connection
  /\ wire' = wire

onopen ==
  /\ connection = "opened" /\ client.status = "connecting"
  /\ client' = [client EXCEPT !.status = "connected"]
  /\ UNCHANGED <<asksByHeader, epoch, counter, buffer, connection, wire, hidden, received, breaks>>

onmessage ==
  /\ connection = "opened" /\ client.status = "connected" /\ wire # <<>>
  /\ wire' = Tail(wire)
  /\ received' = Append(received, Head(wire))
  /\ client' = [client EXCEPT !.lastId = Head(wire).id]
  /\ UNCHANGED <<asksByHeader, epoch, counter, buffer, connection, hidden, breaks>>

\* Mutant: no reconnection is scheduled.
onerrorOnly ==
  /\ connection = "lost"
  /\ connection' = "closed"
  /\ client' = [client EXCEPT !.status = "disconnected"]
  /\ UNCHANGED <<asksByHeader, epoch, counter, buffer, wire, hidden, received, breaks>>

onerror ==
  /\ connection = "lost"
  /\ connection' = "closed"
  /\ client' = [client EXCEPT !.status = "disconnected", !.timer = TRUE]
  /\ UNCHANGED <<asksByHeader, epoch, counter, buffer, wire, hidden, received, breaks>>

TimerFires ==
  /\ client.timer
  /\ Connected
  /\ client' = [client EXCEPT !.timer = FALSE, !.status = IF connection = "closed" THEN "connecting" ELSE @]
  /\ UNCHANGED <<asksByHeader, epoch, counter, buffer, hidden, received, breaks>>

\* handleVisibilityChange.  disconnect() clears the timer; a client that waits for its
\* timer is left alone.
Hide ==
  /\ ~hidden
  /\ hidden' = TRUE
  /\ IF client.status = "disconnected"
     THEN UNCHANGED <<connection, wire, client, breaks>>
     ELSE /\ connection' = "closed" /\ wire' = <<>> /\ Cut
          /\ client' = [client EXCEPT !.status = "disconnected", !.timer = FALSE, !.wasConnected = TRUE]
  /\ UNCHANGED <<asksByHeader, epoch, counter, buffer, received>>

Show ==
  /\ hidden
  /\ hidden' = FALSE
  /\ IF client.wasConnected
     THEN /\ Connected
          /\ client' = [client EXCEPT !.wasConnected = FALSE, !.timer = FALSE,
                          !.status = IF connection = "closed" THEN "connecting" ELSE @]
     ELSE UNCHANGED <<connection, wire, client>>
  /\ UNCHANGED <<asksByHeader, epoch, counter, buffer, received, breaks>>

StreamNext ==
  \/ broadcast \/ Accept \/ Lose \/ Restart
  \/ onopen \/ onmessage \/ onerror \/ TimerFires \/ Hide \/ Show

StreamSpec == StreamInit /\ [][StreamNext]_streamVars

\* Timers fire, errors are reported, and of the requests made again and again one is
\* accepted and opened.
StreamFairness ==
  /\ WF_streamVars(TimerFires) /\ WF_streamVars(onerror)
  /\ SF_streamVars(Accept) /\ SF_streamVars(onopen)

StreamFair == StreamSpec /\ StreamFairness

-----------------------------------------------------------------------------
\* Counters, buffer, wire and client are well formed; an EventSource and a timer never
\* exist together.
StreamTypeOK ==
  /\ epoch \in 0..MaxEpochs /\ counter \in 0..MaxEvents
  /\ buffer \in Seq(Event) /\ Len(buffer) <= BufferSize
  /\ connection \in Connections /\ hidden \in BOOLEAN /\ asksByHeader \in BOOLEAN
  /\ wire \in Seq(Event) /\ received \in Seq(Event)
  /\ client \in [status: {"disconnected", "connecting", "connected"}, lastId: 0..MaxEvents,
                 timer: BOOLEAN, wasConnected: BOOLEAN]
  /\ breaks \subseteq Nat
  /\ client.timer => connection = "closed"

Earlier(d, e) == d.epoch < e.epoch \/ (d.epoch = e.epoch /\ d.id < e.id)

\* Handlers are given every event at most once and in order, whatever is replayed, lost or
\* numbered anew.
ReceivedInOrder == \A i, j \in DOMAIN received : i < j => Earlier(received[i], received[j])

\* As long as a connection lasts, the client is given every event of its server, whatever
\* was replayed when it was made.
ConnectionsAreWhole ==
  \A i \in 2..Len(received) :
    i - 1 \notin breaks => received[i] = [received[i - 1] EXCEPT !.id = @ + 1]

\* An event between two that the client received was too old to be replayed: within an
\* epoch, no reconnection skips what the buffer holds.
SkippedIsGone ==
  \A i \in 2..Len(received) : \A k \in DOMAIN buffer :
    buffer[k].epoch = received[i - 1].epoch =>
      ~(Earlier(received[i - 1], buffer[k]) /\ Earlier(buffer[k], received[i]))

\* What a client receives is what was sent, in order: whole while it is connected, and over a
\* reconnection too, but for what was too old to be kept, if it asks by the header.
StreamIsWhole ==
  StreamTypeOK /\ ReceivedInOrder /\ ConnectionsAreWhole /\ (asksByHeader => SkippedIsGone)

\* A tab that stays visible is connected again and again, however often it is cut off.
StreamComesBack == []<>(hidden \/ client.status = "connected")
=============================================================================
