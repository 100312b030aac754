----------------------------- MODULE McpClient -----------------------------
(*****************************************************************************)
(* The control plane's side of the MCP protocol: the pool of connections,    *)
(* and the router that caches which server offers which tool. The parts      *)
(* share no state.                                                           *)
(*****************************************************************************)
EXTENDS Naturals, FiniteSets, Sequences

(*****************************************************************************)
(* The pool of connections to MCP servers: connect, disconnect and callTool  *)
(* with its one reconnection.  Each of them awaits the network, so others    *)
(* run between what it reads from the pool and what it writes to it.         *)
(*****************************************************************************)

CONSTANTS
  Servers,
  Clients,          \* bound: the clients that are ever made
  PoolCalls,        \* bound: the operations in flight at one time
  MaxConnections,
  NoClient

ASSUME PoolAssumption ==
  /\ MaxConnections \in Nat \ {0}
  /\ IsFiniteSet(Servers) /\ IsFiniteSet(PoolCalls)
  /\ NoClient \notin Clients

VARIABLES
  entry,         \* connections: the client of each connected server
  pending,       \* pendingConnections
  client,        \* the clients made, each for a server
  operation,     \* the operations in flight
  contested      \* history: servers that were reconnected, or disconnected twice at a time

poolVars == <<entry, pending, client, operation, contested>>

Client == [state: {"opening", "open", "closed"}, server: Servers]
Unused == [state |-> "unused"]

NoOperation == [pc |-> "none"]

Operation == [pc: {"connecting", "closing", "calling", "reconnecting", "retrying"},
              server: Servers, client: Clients]
             \cup [pc: {"reconnected"}, server: Servers]

PoolInit ==
  /\ entry = [s \in Servers |-> NoClient]
  /\ pending = {}
  /\ client = [k \in Clients |-> Unused]
  /\ operation = [o \in PoolCalls |-> NoOperation]
  /\ contested = {}

-----------------------------------------------------------------------------
Connected == {s \in Servers : entry[s] # NoClient}

Doing(o, pc) == operation[o] # NoOperation /\ operation[o].pc = pc

Start(o, pc, s, k) ==
  operation' = [operation EXCEPT ![o] = [pc |-> pc, server |-> s, client |-> k]]

Done(o) == operation' = [operation EXCEPT ![o] = NoOperation]

Made(k, s) == client[k] = Unused /\ client' = [client EXCEPT ![k] = [state |-> "opening", server |-> s]]

Becomes(k, state) == client' = [client EXCEPT ![k].state = state]

\* Mutant: the client is in the pool before its handshake.
connectEarly(o, s, k) ==
  /\ operation[o] = NoOperation
  /\ s \notin Connected \cup pending
  /\ Cardinality(Connected) + Cardinality(pending) < MaxConnections
  /\ Made(k, s)
  /\ entry' = [entry EXCEPT ![s] = k]
  /\ pending' = pending \cup {s}
  /\ Start(o, "connecting", s, k)
  /\ UNCHANGED contested

\* Mutant: what is pending does not count.
connectUncounted(o, s, k) ==
  /\ operation[o] = NoOperation
  /\ s \notin Connected \cup pending
  /\ Cardinality(Connected) < MaxConnections
  /\ Made(k, s)
  /\ pending' = pending \cup {s}
  /\ Start(o, "connecting", s, k)
  /\ UNCHANGED <<entry, contested>>

\* Mutant: a connection that is pending is not waited for.
connectAgain(o, s, k) ==
  /\ operation[o] = NoOperation
  /\ s \notin Connected
  /\ Cardinality(Connected) + Cardinality(pending) < MaxConnections
  /\ Made(k, s)
  /\ pending' = pending \cup {s}
  /\ Start(o, "connecting", s, k)
  /\ UNCHANGED <<entry, contested>>

\* connect(): a server that is connected or being connected is left at that; a full pool
\* throws.
connect(o, s, k) ==
  /\ operation[o] = NoOperation
  /\ s \notin Connected \cup pending
  /\ Cardinality(Connected) + Cardinality(pending) < MaxConnections
  /\ Made(k, s)
  /\ pending' = pending \cup {s}
  /\ Start(o, "connecting", s, k)
  /\ UNCHANGED <<entry, contested>>

\* The handshake succeeds, or fails.
Opened(o) ==
  /\ Doing(o, "connecting")
  /\ Becomes(operation[o].client, "open")
  /\ entry' = [entry EXCEPT ![operation[o].server] = operation[o].client]
  /\ pending' = pending \ {operation[o].server}
  /\ Done(o)
  /\ UNCHANGED contested

NotOpened(o) ==
  /\ Doing(o, "connecting")
  /\ Becomes(operation[o].client, "closed")
  /\ pending' = pending \ {operation[o].server}
  /\ Done(o)
  /\ UNCHANGED <<entry, contested>>

\* disconnect(), and disconnectAll of each server: nothing is done about a connection
\* that is pending.
disconnect(o, s) ==
  /\ operation[o] = NoOperation /\ s \in Connected
  /\ Start(o, "closing", s, entry[s])
  /\ contested' = IF \E p \in PoolCalls : Doing(p, "closing") /\ operation[p].server = s
                  THEN contested \cup {s} ELSE contested
  /\ UNCHANGED <<entry, pending, client>>

\* Mutant: the entry stays.
DisconnectedKept(o) ==
  /\ Doing(o, "closing")
  /\ Becomes(operation[o].client, "closed")
  /\ Done(o)
  /\ UNCHANGED <<entry, pending, contested>>

\* The client is closed, and whatever the pool has for the server by then is removed.
Disconnected(o) ==
  /\ Doing(o, "closing")
  /\ Becomes(operation[o].client, "closed")
  /\ entry' = [entry EXCEPT ![operation[o].server] = NoClient]
  /\ Done(o)
  /\ UNCHANGED <<pending, contested>>

callTool(o, s) ==
  /\ operation[o] = NoOperation /\ s \in Connected
  /\ Start(o, "calling", s, entry[s])
  /\ UNCHANGED <<entry, pending, client, contested>>

\* A result, a time-out or an error of the tool.
CallEnds(o) ==
  /\ Doing(o, "calling") \/ Doing(o, "retrying")
  /\ Doing(o, "retrying") => client[operation[o].client].state = "open"
  /\ Done(o)
  /\ UNCHANGED <<entry, pending, client, contested>>

\* A transport error: reconnect() drops the entry, not closing its client, and makes a
\* new client.  It is neither in the pool nor pending.
reconnect(o, k) ==
  LET s == operation[o].server IN
    /\ Doing(o, "calling")
    /\ entry' = [entry EXCEPT ![s] = NoClient]
    /\ Made(k, s)
    /\ Start(o, "reconnecting", s, k)
    /\ contested' = contested \cup {s}
    /\ UNCHANGED pending

Reconnected(o) ==
  LET s == operation[o].server IN
    /\ Doing(o, "reconnecting")
    /\ Becomes(operation[o].client, "open")
    /\ entry' = [entry EXCEPT ![s] = operation[o].client]
    /\ operation' = [operation EXCEPT ![o] = [pc |-> "reconnected", server |-> s]]
    /\ UNCHANGED <<pending, contested>>

\* The reconnection fails, or the call does once more: the server's entry is removed,
\* whichever it is.
RetryFails(o) ==
  /\ Doing(o, "reconnecting") \/ Doing(o, "retrying")
  /\ client' = IF Doing(o, "reconnecting")
               THEN [client EXCEPT ![operation[o].client].state = "closed"] ELSE client
  /\ entry' = [entry EXCEPT ![operation[o].server] = NoClient]
  /\ Done(o)
  /\ UNCHANGED <<pending, contested>>

\* The call is made again, by the entry there is now; without one it throws.
Retry(o) ==
  LET s == operation[o].server IN
    /\ Doing(o, "reconnected")
    /\ IF s \in Connected THEN Start(o, "retrying", s, entry[s]) ELSE Done(o)
    /\ UNCHANGED <<entry, pending, client, contested>>

PoolNext ==
  \E o \in PoolCalls :
    \/ Opened(o) \/ NotOpened(o) \/ Disconnected(o)
    \/ CallEnds(o) \/ Reconnected(o) \/ RetryFails(o) \/ Retry(o)
    \/ \E s \in Servers : disconnect(o, s) \/ callTool(o, s) \/ \E k \in Clients : connect(o, s, k)
    \/ \E k \in Clients : reconnect(o, k)

PoolSpec == PoolInit /\ [][PoolNext]_poolVars

-----------------------------------------------------------------------------
\* Entries, clients and operations are well formed, and belong to the same server.
PoolTypeOK ==
  /\ entry \in [Servers -> Clients \cup {NoClient}]
  /\ pending \subseteq Servers /\ contested \subseteq Servers
  /\ client \in [Clients -> {Unused} \cup Client]
  /\ operation \in [PoolCalls -> {NoOperation} \cup Operation]
  /\ \A s \in Connected : client[entry[s]] \in [state: {"open", "closed"}, server: {s}]

\* The pool holds more than maxConnections ("Throws if maxConnections would be exceeded")
\* only by connections that were being renewed when others took their places.
PoolOvershoot ==
  Cardinality(Connected) + Cardinality(pending) <= MaxConnections + Cardinality(contested)

\* The pool has k, or an operation does that will close it, use it or put it there.
Held(k) == \/ \E s \in Servers : entry[s] = k
           \/ \E o \in PoolCalls : operation[o] # NoOperation /\ operation[o].pc # "reconnected"
                                   /\ operation[o].client = k

\* A connection that is open and forgotten, which nobody will ever close, comes of a
\* reconnection, or of two disconnects that overlap: the second removes by id the entry
\* that was made after the first.  A pool without them leaks nothing.
LeaksAreContested ==
  \A k \in Clients :
    client[k].state = "open" /\ ~Held(k) => client[k].server \in contested

\* A client that was closed does not stay in the pool: whoever closed it is about to
\* remove it.
ClosedLeaves ==
  \A s \in Connected : client[entry[s]].state = "closed" =>
    \E o \in PoolCalls : Doing(o, "closing") /\ operation[o].server = s

\* The pool as a whole: its size, what it forgets and what it keeps.
PoolIsSound == PoolTypeOK /\ PoolOvershoot /\ LeaksAreContested /\ ClosedLeaves

-----------------------------------------------------------------------------

(*****************************************************************************)
(* The tool router: which server a tool name stands for, and how long an     *)
(* answer is served from the cache.  resolve() caches what the database      *)
(* says; resolveAll() caches what it makes of a list that is cached itself.  *)
(* Queries of the database are awaited, and answered in any order.           *)
(*****************************************************************************)

CONSTANTS
  ToolServers,   \* servers that offer a tool of the same name
  TTL,           \* CACHE_TTL_MS, in units of the clock
  QueryTime      \* bound: how long after it was read an answer may come

ASSUME ToolAssumption == TTL \in Nat \ {0} /\ QueryTime \in Nat /\ IsFiniteSet(ToolServers)

VARIABLES
  offer,     \* the tool's server: offered now, and for how long it has not been
  cache,     \* its entries: the active tools, what two agents may use of them, a name; late:
             \* for how long the answer had been read when it was cached
  asked,     \* the queries that are awaited, by what they are for
  question   \* an ambiguous name to resolve

toolVars == <<offer, cache, asked, question>>

\* scope: whether agent_scope is empty, includes the agent or only others.  created_at
\* orders the rows.
Row == [server: ToolServers, scope: {"all", "agent", "others"}, created: 1..2]

\* ORDER BY created_at: rows of one date come in any order.
Ordered == {rows \in UNION {[1..n -> Row] : n \in 2..Cardinality(ToolServers)} :
              /\ \A i, j \in DOMAIN rows : i < j => /\ rows[i].created <= rows[j].created
                                                    /\ rows[i].server # rows[j].server}

Priorities == {<<>>} \cup {<<s>> : s \in ToolServers} \cup {<<s, t>> : s, t \in ToolServers}

Questions == [rows: Ordered, priority: Priorities]

\* The keys of resolveAll: one for each agent and its filters.
Lists == {"listOne", "listTwo"}

Absent == [age |-> TTL + 1]

Unasked == [late |-> 0]

ToolInit ==
  /\ offer = [now |-> TRUE, gone |-> 0]
  /\ cache = [k \in Lists \cup {"activeTools", "resolve"} |-> Absent]
  /\ asked = [k \in Lists \cup {"resolve"} |-> Unasked]
  /\ question \in {<<>>} \cup Questions

-----------------------------------------------------------------------------
\* The name of a tool that several servers have.

\* The row of a set that comes first in the order of the query.
Earliest(S) == CHOOSE i \in S : \A j \in S : i <= j

\* Mutant: the preference comes before the scope.
resolveConflictPreferred(q) ==
  LET scoped     == {i \in DOMAIN q.rows : q.rows[i].scope = "agent"}
      candidates == IF scoped # {} THEN scoped ELSE DOMAIN q.rows
      first      == Earliest(candidates)
      second     == Earliest(candidates \ {first})
  IN IF q.priority # <<>> /\ \E i \in DOMAIN q.rows : q.rows[i].server = Head(q.priority)
     THEN Head(q.priority)
     ELSE IF Cardinality(candidates) = 1 \/ q.rows[first].created # q.rows[second].created
          THEN q.rows[first].server ELSE "ambiguous"

\* The server whose row resolveConflict answers with, or "ambiguous" when it throws.  The
\* rows that a filter leaves are given by their places in the query's order.
resolveConflict(q) ==
  LET scoped     == {i \in DOMAIN q.rows : q.rows[i].scope = "agent"}
      candidates == IF scoped # {} THEN scoped ELSE DOMAIN q.rows
      preferred  == {n \in DOMAIN q.priority : \E i \in candidates : q.rows[i].server = q.priority[n]}
      first      == Earliest(candidates)
      second     == Earliest(candidates \ {first})
  IN CASE Cardinality(scoped) = 1 -> q.rows[first].server
       [] Cardinality(scoped) # 1 /\ preferred # {} -> q.priority[Earliest(preferred)]
       [] Cardinality(scoped) # 1 /\ preferred = {} ->
            IF q.rows[first].created # q.rows[second].created THEN q.rows[first].server ELSE "ambiguous"

-----------------------------------------------------------------------------
\* The cache.  The clock ticks; an entry is read until it is older than TTL.

Live(k) == cache[k].age <= TTL

ClockTicks ==
  /\ \A k \in DOMAIN asked : asked[k] # Unasked => asked[k].late < QueryTime
  /\ offer' = [offer EXCEPT !.gone = IF offer.now \/ @ > 2 * TTL + QueryTime THEN @ ELSE @ + 1]
  /\ cache' = [k \in DOMAIN cache |-> IF Live(k) /\ cache[k].age < TTL
                                      THEN [cache[k] EXCEPT !.age = @ + 1] ELSE Absent]
  /\ asked' = [k \in DOMAIN asked |-> IF asked[k] = Unasked THEN Unasked
                                      ELSE [asked[k] EXCEPT !.late = @ + 1]]
  /\ UNCHANGED question

\* The server's status, or the tool's, changes (McpServers).
OfferChanges ==
  /\ offer' = [now |-> ~offer.now, gone |-> 0]
  /\ UNCHANGED <<cache, asked, question>>

\* The database is read for k; the answer is yet to come.
Ask(k) ==
  /\ asked[k] = Unasked
  /\ asked' = [asked EXCEPT ![k] = [offered |-> offer.now, late |-> 0]]
  /\ UNCHANGED <<offer, cache, question>>

\* resolveQualified, resolveUnqualified
resolve == ~Live("resolve") /\ Ask("resolve")

\* Mutant: a list that is read is kept for another while.
fromActiveToolsRenewed(k) ==
  /\ cache' = [cache EXCEPT ![k] = [cache["activeTools"] EXCEPT !.age = 0],
                            !["activeTools"].age = 0]
  /\ UNCHANGED <<offer, asked, question>>

fromActiveTools(k) ==
  /\ cache' = [cache EXCEPT ![k] = [cache["activeTools"] EXCEPT !.age = 0]]
  /\ UNCHANGED <<offer, asked, question>>

\* resolveAll and fetchActiveTools
resolveAll(k) ==
  /\ ~Live(k)
  /\ IF Live("activeTools") THEN fromActiveTools(k) ELSE Ask(k)

\* What a query for k writes, whatever others have written meanwhile.
Fills(k) == IF k \in Lists THEN {k, "activeTools"} ELSE {k}

\* What is not found is cached as well; a query that fails throws.
Answered(k) ==
  /\ asked[k] # Unasked /\ asked' = [asked EXCEPT ![k] = Unasked]
  /\ \/ cache' = [c \in DOMAIN cache |->
                    IF c \in Fills(k)
                    THEN [age |-> 0, offered |-> asked[k].offered, late |-> asked[k].late]
                    ELSE cache[c]]
     \/ UNCHANGED cache
  /\ UNCHANGED <<offer, question>>

\* A behaviour is about a question, which is settled at once, or about the cache.
ToolNext ==
  /\ question = <<>>
  /\ \/ ClockTicks \/ OfferChanges \/ resolve
     \/ \E k \in Lists : resolveAll(k)
     \/ \E k \in DOMAIN asked : Answered(k)

ToolSpec == ToolInit /\ [][ToolNext]_toolVars

-----------------------------------------------------------------------------
Serves(k) == Live(k) /\ cache[k].offered

\* A server that was disabled, or is in error, is served from the cache a while longer:
\* a single name for one TTL at most, and the list of all tools, made of a list that is
\* cached itself, for two; and for as long as the answer of the query took to come, which
\* may be an older one than an answer it replaces.
ServedWasOffered ==
  /\ Serves("resolve") /\ ~offer.now => offer.gone <= TTL + cache["resolve"].late
  /\ \A k \in Lists : Serves(k) /\ ~offer.now => offer.gone <= 2 * TTL + cache[k].late

\* What the code's comment promises of an ambiguous name: servers with the agent in their
\* scope before all others, among these the agent's preference, then the earliest; and
\* it throws only when two earliest are left and no preference names any candidate.
Best(q) ==
  LET rows == {q.rows[i] : i \in DOMAIN q.rows}
      mine == {r \in rows : r.scope = "agent"}
      left == IF mine = {} THEN rows ELSE mine
      rank(r) == CHOOSE i \in 1..Len(q.priority) + 1 :
                   /\ i <= Len(q.priority) => q.priority[i] = r.server
                   /\ \A j \in 1..i - 1 : q.priority[j] # r.server
      first == {r \in left : \A o \in left : rank(r) < rank(o) \/ (rank(r) = rank(o) /\ r.created <= o.created)}
  IN IF Cardinality(first) = 1 THEN (CHOOSE r \in first : TRUE).server ELSE "ambiguous"

ConflictIsResolved == question # <<>> => resolveConflict(question) = Best(question)
=============================================================================
