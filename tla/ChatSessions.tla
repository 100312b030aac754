---------------------------- MODULE ChatSessions -----------------------------
(*****************************************************************************)
(* The sessions of one user with one agent, and the rate limit on the        *)
(* messages that are stored in them.  A call is a message from a channel, a  *)
(* POST to the chat route or to a session's resume route.  It looks for a    *)
(* session, activates or creates it, puts the user's other active sessions   *)
(* to rest and then stores its message: each of these a statement or more,   *)
(* with no transaction around them.                                          *)
(*****************************************************************************)
EXTENDS Naturals, FiniteSets

CONSTANTS
  Sessions,       \* bound: the sessions that may be created
  Channels,       \* channel_id, one for each chat and one for the REST API
  Calls,          \* bound: the calls in flight at one time
  MaxMessages,    \* the user's rate limit
  NoSession

ASSUME ChatAssumption ==
  /\ MaxMessages \in Nat \ {0}
  /\ IsFiniteSet(Calls)
  /\ NoSession \notin Sessions

VARIABLES
  session,   \* the rows of the table session
  recent,    \* the user's stored messages that are within the limit's window
  call       \* the calls in flight

chatVars == <<session, recent, call>>

\* archived is read in the code and written nowhere.
Session == [status: {"absent"}] \cup [status: {"active", "idle", "closed"}, channel: Channels]

Exists(s)  == session[s].status # "absent"
Active     == {s \in Sessions : session[s].status = "active"}

\* isReusableStatus
Reusable(s) == session[s].status \in {"active", "idle"}

NoCall == [pc |-> "none"]

\* asked: the session the caller named, if any.  A resume has no message to store.
Call == [pc: {"limiting", "looking", "searching", "creating"}, channel: Channels,
         stores: BOOLEAN, asked: Sessions \cup {NoSession}]
        \cup [pc: {"activating", "listing", "storing"}, channel: Channels,
              stores: BOOLEAN, session: Sessions]
        \cup [pc: {"idling"}, channel: Channels, stores: BOOLEAN, session: Sessions,
              others: SUBSET Sessions]

ChatInit ==
  /\ session = [s \in Sessions |-> [status |-> "absent"]]
  /\ recent = 0
  /\ call = [c \in Calls |-> NoCall]

-----------------------------------------------------------------------------
Go(c, pc) == call' = [call EXCEPT ![c].pc = pc]

GoWith(c, pc, s) ==
  call' = [call EXCEPT ![c] =
    [pc |-> pc, channel |-> @.channel, stores |-> @.stores, session |-> s]]

\* The call is answered, or throws.
End(c) == call' = [call EXCEPT ![c] = NoCall]

\* Siblings are done with: the message is next, if there is one.
AfterSiblings(c) ==
  IF call[c].stores THEN GoWith(c, "storing", call[c].session) ELSE End(c)

Begin(c, pc, ch, stores, s) ==
  /\ call[c] = NoCall
  /\ call' = [call EXCEPT ![c] = [pc |-> pc, channel |-> ch, stores |-> stores, asked |-> s]]
  /\ UNCHANGED <<session, recent>>

\* A message of a channel or of POST /agents/:id/chat, which may name a session; its
\* sender was admitted (AccessGrants).  The limit of its grant counts what is stored.
Arrive(c, ch, s) == Begin(c, "limiting", ch, TRUE, s)

\* POST /sessions/:id/resume
Resume(c, ch, s) == Exists(s) /\ Begin(c, "looking", ch, FALSE, s)

\* Mutant: the comparison lets one message more through.
checkLimitLate(c) ==
  /\ call[c].pc = "limiting"
  /\ IF recent > MaxMessages THEN End(c) ELSE Go(c, "looking")
  /\ UNCHANGED <<session, recent>>

checkLimit(c) ==
  /\ call[c].pc = "limiting"
  /\ IF recent >= MaxMessages THEN End(c) ELSE Go(c, "looking")
  /\ UNCHANGED <<session, recent>>

\* Mutant: a closed session may be asked for as well.
LookUpAny(c) ==
  LET s == call[c].asked IN
    /\ call[c].pc = "looking" /\ s # NoSession
    /\ IF Exists(s) THEN GoWith(c, "activating", s) ELSE End(c)
    /\ UNCHANGED <<session, recent>>

\* resolveSessionRecord, resumeSessionRecord: the session asked for is read, and refused
\* when it is closed.
LookUp(c) ==
  LET s == call[c].asked IN
    /\ call[c].pc = "looking" /\ s # NoSession
    /\ IF Exists(s) /\ Reusable(s) THEN GoWith(c, "activating", s) ELSE End(c)
    /\ UNCHANGED <<session, recent>>

\* None asked for: any session of the same channel ...
LookInChannel(c) ==
  LET here == {s \in Sessions : Exists(s) /\ session[s].channel = call[c].channel} IN
    /\ call[c].pc = "looking" /\ call[c].asked = NoSession
    /\ \/ \E s \in here : Reusable(s) /\ GoWith(c, "activating", s)
       \/ (here = {} \/ \E s \in here : ~Reusable(s)) /\ Go(c, "searching")
    /\ UNCHANGED <<session, recent>>

\* ... or else any session at all, or else a new one.
LookAnywhere(c) ==
  /\ call[c].pc = "searching"
  /\ \/ \E s \in Sessions : Exists(s) /\ Reusable(s) /\ GoWith(c, "activating", s)
     \/ ((\A s \in Sessions : ~Exists(s)) \/ \E s \in Sessions : Exists(s) /\ ~Reusable(s))
        /\ Go(c, "creating")
  /\ UNCHANGED <<session, recent>>

\* activateSession, an UPDATE by id alone.
Activate(c) ==
  /\ call[c].pc = "activating"
  /\ session' = [session EXCEPT ![call[c].session] =
                   [status |-> "active", channel |-> call[c].channel]]
  /\ GoWith(c, "listing", call[c].session)
  /\ UNCHANGED recent

\* Mutant: the session is created without its channel.
CreateUnbound(c) ==
  /\ call[c].pc = "creating"
  /\ \E s \in Sessions :
       /\ ~Exists(s)
       /\ session' = [session EXCEPT ![s] = [status |-> "active", channel |-> NoSession]]
       /\ GoWith(c, "listing", s)
  /\ UNCHANGED recent

Create(c) ==
  /\ call[c].pc = "creating"
  /\ \E s \in Sessions :
       /\ ~Exists(s)
       /\ session' = [session EXCEPT ![s] = [status |-> "active", channel |-> call[c].channel]]
       /\ GoWith(c, "listing", s)
  /\ UNCHANGED recent

\* Mutant: only the sessions of the same channel are siblings.
ListSiblingsHere(c) ==
  LET others == {s \in Active \ {call[c].session} : session[s].channel = call[c].channel} IN
    /\ call[c].pc = "listing"
    /\ IF others = {} THEN AfterSiblings(c)
       ELSE call' = [call EXCEPT ![c] = [pc |-> "idling", channel |-> @.channel,
              stores |-> @.stores, session |-> @.session, others |-> others]]
    /\ UNCHANGED <<session, recent>>

\* idleSiblingSessions: the active ones are read, then updated one by one, by id.
ListSiblings(c) ==
  LET others == Active \ {call[c].session} IN
    /\ call[c].pc = "listing"
    /\ IF others = {} THEN AfterSiblings(c)
       ELSE call' = [call EXCEPT ![c] = [pc |-> "idling", channel |-> @.channel,
              stores |-> @.stores, session |-> @.session, others |-> others]]
    /\ UNCHANGED <<session, recent>>

IdleSibling(c) ==
  /\ call[c].pc = "idling"
  /\ \E s \in call[c].others :
       /\ session' = [session EXCEPT ![s].status = "idle"]
       /\ IF call[c].others = {s} THEN AfterSiblings(c)
          ELSE call' = [call EXCEPT ![c].others = @ \ {s}]
  /\ UNCHANGED recent

\* INSERT of the message.  The job that follows it is in JobLifecycle, the answer in
\* ChatRelay.
StoreMessage(c) ==
  /\ call[c].pc = "storing"
  /\ recent' = recent + 1
  /\ End(c)
  /\ UNCHANGED session

\* closeSessionRecord, whatever the status.
close(s) ==
  /\ Exists(s)
  /\ session' = [session EXCEPT ![s].status = "closed"]
  /\ UNCHANGED <<recent, call>>

\* A message leaves the window.
Age ==
  /\ recent > 0
  /\ recent' = recent - 1
  /\ UNCHANGED <<session, call>>

ChatNext ==
  \/ \E c \in Calls :
       \/ checkLimit(c) \/ LookUp(c) \/ LookInChannel(c) \/ LookAnywhere(c) \/ Activate(c)
       \/ Create(c) \/ ListSiblings(c) \/ IdleSibling(c) \/ StoreMessage(c)
       \/ \E ch \in Channels :
            \/ \E s \in Sessions \cup {NoSession} : Arrive(c, ch, s)
            \/ \E s \in Sessions : Resume(c, ch, s)
  \/ \E s \in Sessions : close(s)
  \/ Age

ChatSpec == ChatInit /\ [][ChatNext]_chatVars

-----------------------------------------------------------------------------
\* Sessions, calls and the count are well formed.
ChatTypeOK ==
  /\ session \in [Sessions -> Session]
  /\ recent \in Nat
  /\ call \in [Calls -> Call \cup {NoCall}]

\* Who will put a session to rest that is active beside another: a call that keeps the
\* other and has yet to list the active ones, or has this one in its list.
WillRest(s, t) ==
  \E c \in Calls :
    \/ call[c].pc = "listing" /\ call[c].session = t
    \/ call[c].pc = "idling" /\ call[c].session = t /\ s \in call[c].others

\* Two sessions of a user with an agent are active together only while a call is still
\* to put one of them to rest: idleSiblingSessions leaves at most one active, however
\* many calls overlap.
OneActiveSession ==
  \A s, t \in Active : s # t => WillRest(s, t) \/ WillRest(t, s)

\* A call is about to write this session by id.
Holds(c, s) == \/ call[c].pc = "activating" /\ call[c].session = s
               \/ call[c].pc = "idling" /\ s \in call[c].others

\* A session that was closed is in use again only through a call that had read it before
\* it was closed ("closed and cannot be resumed" is decided when the session is read), and
\* no call comes to write a session that is closed by then.
ClosedReopensByStaleRead ==
  [][\A s \in Sessions : session[s].status = "closed" =>
       /\ session'[s].status # "closed" => \E c \in Calls : Holds(c, s)
       /\ \A c \in Calls : Holds(c, s)' => Holds(c, s)]_chatVars

\* Messages whose limit was checked and that are not stored yet.
Admitted == {c \in Calls : call[c] # NoCall /\ call[c].stores /\ call[c].pc # "limiting"}

\* A user exceeds the limit by no more than the messages in flight together: the count is
\* read before a message is stored, so each of them may have seen room for one.
LimitOvershoot == recent + Cardinality(Admitted) < MaxMessages + Cardinality(Calls)

\* A user's sessions and the messages let through to them, all in all.
SessionsAreSound == ChatTypeOK /\ OneActiveSession /\ LimitOvershoot
=============================================================================
