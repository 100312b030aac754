--------------------------- MODULE ServicesProofs ----------------------------
(*****************************************************************************)
(* Theorems of the six services, for any number of calls in flight, sessions,*)
(* servers, clients, agents, keys, identities and accounts, and what follows *)
(* of them together.                                                         *)
(*****************************************************************************)
EXTENDS MCServices, FiniteSetTheorems, WellFoundedInduction, TLAPS

(*****************************************************************************)
(* Chat sessions: the parts of a call that opens a session, and what it      *)
(* holds of it.                                                              *)
(*****************************************************************************)

Asks  == {"limiting", "looking", "searching", "creating"}
Keeps == {"activating", "listing", "storing"}

\* The records of the calls: which fields they have, and what a move makes of them.
LEMMA CallShape ==
  ASSUME NEW x \in Call \cup {NoCall}
  PROVE  /\ x.pc \in Asks \cup Keeps \cup {"idling", "none"}
         /\ (x.pc = "none") <=> (x = NoCall)
         /\ x # NoCall => x.channel \in Channels /\ x.stores \in BOOLEAN
         /\ x.pc \in Asks =>
              /\ x.asked \in Sessions \cup {NoSession}
              /\ \A pc \in Asks :
                   [x EXCEPT !.pc = pc] =
                     [pc |-> pc, channel |-> x.channel, stores |-> x.stores, asked |-> x.asked]
         /\ x.pc \in Keeps \cup {"idling"} => x.session \in Sessions
         /\ x.pc = "idling" =>
              /\ x.others \in SUBSET Sessions
              /\ \A S : [x EXCEPT !.others = S] =
                          [pc |-> "idling", channel |-> x.channel, stores |-> x.stores,
                           session |-> x.session, others |-> S]
<1>1. CASE x \in [pc: Asks, channel: Channels, stores: BOOLEAN, asked: Sessions \cup {NoSession}]
  BY <1>1 DEF Asks, Keeps, NoCall
<1>2. CASE x \in [pc: Keeps, channel: Channels, stores: BOOLEAN, session: Sessions]
  BY <1>2 DEF Asks, Keeps, NoCall
<1>3. CASE x \in [pc: {"idling"}, channel: Channels, stores: BOOLEAN, session: Sessions,
                  others: SUBSET Sessions]
  BY <1>3 DEF Asks, Keeps, NoCall
<1>4. CASE x = NoCall
  BY <1>4 DEF Asks, Keeps, NoCall
<1> QED
  BY <1>1, <1>2, <1>3, <1>4 DEF Call, Asks, Keeps

LEMMA CallTypes ==
  /\ NoCall.pc = "none"
  /\ \A pc \in Asks, ch \in Channels, b \in BOOLEAN, s \in Sessions \cup {NoSession} :
       LET x == [pc |-> pc, channel |-> ch, stores |-> b, asked |-> s]
       IN  x \in Call /\ x # NoCall /\ x.pc = pc /\ x.stores = b
  /\ \A pc \in Keeps, ch \in Channels, b \in BOOLEAN, s \in Sessions :
       LET x == [pc |-> pc, channel |-> ch, stores |-> b, session |-> s]
       IN  x \in Call /\ x # NoCall /\ x.pc = pc /\ x.stores = b /\ x.session = s
  /\ \A ch \in Channels, b \in BOOLEAN, s \in Sessions, S \in SUBSET Sessions :
       LET x == [pc |-> "idling", channel |-> ch, stores |-> b, session |-> s, others |-> S]
       IN  /\ x \in Call /\ x # NoCall /\ x.pc = "idling" /\ x.stores = b
           /\ x.session = s /\ x.others = S
BY DEF Call, NoCall, Asks, Keeps

\* What a call will put to rest is a session, and what it will store is a message.
CallsAreReal ==
  \A c \in Calls :
    /\ call[c].pc = "idling" => \A s \in call[c].others : Exists(s)
    /\ call[c].pc = "storing" => call[c].stores

ChatInv == ChatTypeOK /\ CallsAreReal /\ OneActiveSession /\ LimitOvershoot

LEMMA AdmittedIsCounted ==
  /\ Admitted \subseteq Calls /\ IsFiniteSet(Admitted)
  /\ Cardinality(Admitted) \in Nat /\ Cardinality(Admitted) <= Cardinality(Calls)
  /\ Cardinality(Calls) \in Nat
<1>1. Admitted \subseteq Calls /\ IsFiniteSet(Calls)
  BY ChatAssumption DEF Admitted
<1> QED
  BY <1>1, FS_Subset, FS_CardinalityType

\* The limit, while no message is let through.
LEMMA LimitIsKept ==
  ASSUME ChatTypeOK, LimitOvershoot, ChatTypeOK', recent' <= recent, Admitted' \subseteq Admitted
  PROVE  LimitOvershoot'
<1>1. PICK n \in Nat : n = Cardinality(Admitted)
  BY AdmittedIsCounted
<1>2. PICK m \in Nat : m = Cardinality(Admitted')
  BY AdmittedIsCounted, FS_Subset, FS_CardinalityType
<1>3. m <= n
  BY <1>1, <1>2, AdmittedIsCounted, FS_Subset
<1>4. PICK k \in Nat : k = Cardinality(Calls)
  BY AdmittedIsCounted
<1>5. PICK r \in Nat : r = recent
  BY DEF ChatTypeOK
<1>6. PICK q \in Nat : q = recent'
  BY DEF ChatTypeOK
<1>7. MaxMessages \in Nat /\ r + n < MaxMessages + k /\ q <= r
  BY <1>1, <1>4, <1>5, <1>6, ChatAssumption DEF LimitOvershoot
<1>8. q + m < MaxMessages + k
  BY ONLY <1>3, <1>7, n \in Nat, m \in Nat, k \in Nat, q \in Nat, r \in Nat
<1> QED
  BY <1>2, <1>4, <1>6, <1>8 DEF LimitOvershoot

\* A call moves, and the sessions stay as they are: one that neither is to list nor to rest
\* them, and goes on to no rest.
LEMMA CallMoves ==
  ASSUME ChatInv, NEW c \in Calls, NEW next \in Call \cup {NoCall},
         call' = [call EXCEPT ![c] = next], UNCHANGED session, recent' \in Nat,
         call[c].pc \notin {"listing", "idling"}, next.pc # "idling",
         next.pc = "storing" => next.stores
  PROVE  ChatTypeOK' /\ CallsAreReal' /\ OneActiveSession'
<1>0. call \in [Calls -> Call \cup {NoCall}] /\ Active' = Active
  BY DEF ChatInv, ChatTypeOK, Active
<1>1. ChatTypeOK'
  BY <1>0 DEF ChatInv, ChatTypeOK
<1>2. CallsAreReal'
  BY <1>0 DEF ChatInv, CallsAreReal, Exists
<1>3. \A s, t \in Active : WillRest(s, t) => WillRest(s, t)'
  <2> SUFFICES ASSUME NEW s \in Active, NEW t \in Active, WillRest(s, t)
               PROVE  WillRest(s, t)'
    OBVIOUS
  <2>1. PICK d \in Calls : \/ call[d].pc = "listing" /\ call[d].session = t
                           \/ call[d].pc = "idling" /\ call[d].session = t /\ s \in call[d].others
    BY DEF WillRest
  <2>2. d # c /\ call'[d] = call[d]
    BY <1>0, <2>1
  <2> QED
    BY <2>1, <2>2 DEF WillRest
<1>4. OneActiveSession'
  BY <1>0, <1>3 DEF ChatInv, OneActiveSession
<1> QED
  BY <1>1, <1>2, <1>4

\* Who was not let through and is not by this move either.
LEMMA AdmitsNone ==
  ASSUME ChatTypeOK, NEW c \in Calls, NEW next, call' = [call EXCEPT ![c] = next],
         \/ next = NoCall \/ next.pc = "limiting" \/ ~next.stores \/ c \in Admitted
  PROVE  Admitted' \subseteq Admitted
BY DEF ChatTypeOK, Admitted

LEMMA ChatStarts == ChatInit => ChatInv
<1> SUFFICES ASSUME ChatInit PROVE ChatInv
  OBVIOUS
<1>1. ChatTypeOK
  BY DEF ChatInit, ChatTypeOK, Session
<1>2. CallsAreReal /\ OneActiveSession
  BY CallTypes DEF ChatInit, CallsAreReal, OneActiveSession, Active
<1>3. Admitted = {}
  BY DEF ChatInit, Admitted
<1>4. Cardinality(Admitted) = 0
  BY <1>3, FS_EmptySet
<1>5. PICK k \in Nat : k = Cardinality(Calls)
  BY AdmittedIsCounted
<1>6. recent = 0 /\ MaxMessages \in Nat /\ MaxMessages # 0
  BY ChatAssumption DEF ChatInit
<1>7. LimitOvershoot
  BY <1>4, <1>5, <1>6 DEF LimitOvershoot
<1> QED
  BY <1>1, <1>2, <1>7 DEF ChatInv

\* A call moves on to the listing, its session active from now on.
LEMMA CallActivates ==
  ASSUME ChatInv, NEW c \in Calls, NEW s \in Sessions, NEW next \in Call,
         call' = [call EXCEPT ![c] = next], next.pc = "listing", next.session = s,
         session' = [session EXCEPT ![s] = [status |-> "active", channel |-> call[c].channel]],
         call[c].pc \in {"activating", "creating"}, UNCHANGED recent, next.stores = call[c].stores
  PROVE  ChatInv'
<1>0. call \in [Calls -> Call \cup {NoCall}] /\ session \in [Sessions -> Session] /\ recent \in Nat
  BY DEF ChatInv, ChatTypeOK
<1>1. call[c] # NoCall /\ call[c].channel \in Channels
  BY <1>0, CallShape, CallTypes
<1>2. session'[s] \in Session /\ session'[s].status = "active"
  BY <1>0, <1>1 DEF Session
<1>3. ChatTypeOK'
  BY <1>0, <1>2 DEF ChatTypeOK
<1>4. \A t \in Sessions : Exists(t) => Exists(t)'
  BY <1>0, <1>2 DEF Exists
<1>5. CallsAreReal'
  <2> SUFFICES ASSUME NEW d \in Calls
               PROVE  /\ call'[d].pc = "idling" => \A t \in call'[d].others : Exists(t)'
                      /\ call'[d].pc = "storing" => call'[d].stores
    BY DEF CallsAreReal
  <2>1. CASE d = c
    BY <1>0, <2>1
  <2>2. CASE d # c
    <3>1. call'[d] = call[d]
      BY <1>0, <2>2
    <3>2. call[d].pc = "idling" => call[d].others \in SUBSET Sessions
      BY <1>0, CallShape
    <3> QED
      BY <1>4, <3>1, <3>2 DEF ChatInv, CallsAreReal
  <2> QED
    BY <2>1, <2>2
<1>6. \A t, u \in Sessions : WillRest(t, u) => WillRest(t, u)'
  <2> SUFFICES ASSUME NEW t \in Sessions, NEW u \in Sessions, WillRest(t, u) PROVE WillRest(t, u)'
    OBVIOUS
  <2>1. PICK d \in Calls : \/ call[d].pc = "listing" /\ call[d].session = u
                           \/ call[d].pc = "idling" /\ call[d].session = u /\ t \in call[d].others
    BY DEF WillRest
  <2>2. d # c /\ call'[d] = call[d]
    BY <1>0, <2>1
  <2> QED
    BY <2>1, <2>2 DEF WillRest
<1>7. \A t \in Sessions : WillRest(t, s)'
  BY <1>0 DEF WillRest
<1>8. Active' \subseteq Active \cup {s}
  BY <1>0 DEF Active
<1>9. OneActiveSession'
  <2> SUFFICES ASSUME NEW t \in Active', NEW u \in Active', t # u
               PROVE  WillRest(t, u)' \/ WillRest(u, t)'
    BY DEF OneActiveSession
  <2>1. t \in Sessions /\ u \in Sessions
    BY DEF Active
  <2>2. CASE t = s \/ u = s
    BY <1>7, <2>1, <2>2
  <2>3. CASE t # s /\ u # s
    BY <1>6, <1>8, <2>1, <2>3 DEF ChatInv, OneActiveSession
  <2> QED
    BY <2>2, <2>3
<1>10. Admitted' \subseteq Admitted
  <2>1. call[c].stores => c \in Admitted
    BY <1>1 DEF Admitted
  <2> QED
    BY <2>1, <1>0 DEF Admitted
<1>11. LimitOvershoot'
  BY <1>0, <1>3, <1>10, LimitIsKept DEF ChatInv
<1> QED
  BY <1>3, <1>5, <1>9, <1>11 DEF ChatInv

\* A call that has an active session of its own rests the others: while some are left, and when
\* the last is at rest.
LEMMA CallRests ==
  ASSUME ChatInv, NEW c \in Calls, NEW next \in Call \cup {NoCall},
         call[c].pc \in {"listing", "idling"}, UNCHANGED recent,
         call' = [call EXCEPT ![c] = next],
         session' \in [Sessions -> Session], Active' \subseteq Active,
         \A s \in Sessions : Exists(s) => Exists(s)',
         next # NoCall => next.stores = call[c].stores,
         next.pc = "idling" => \A s \in next.others : Exists(s),
         next.pc = "idling" => next.session = call[c].session,
         next.pc = "storing" => next.stores,
         \A s \in Active' \ {call[c].session} :
           (call[c].pc = "idling" => s \in call[c].others)
             => next.pc = "idling" /\ s \in next.others
  PROVE  ChatInv'
<1>0. call \in [Calls -> Call \cup {NoCall}] /\ recent \in Nat
  BY DEF ChatInv, ChatTypeOK
<1>1. call[c] # NoCall
  BY <1>0, CallTypes
<1>2. ChatTypeOK'
  BY <1>0 DEF ChatTypeOK
<1>3. CallsAreReal'
  <2> SUFFICES ASSUME NEW d \in Calls
               PROVE  /\ call'[d].pc = "idling" => \A t \in call'[d].others : Exists(t)'
                      /\ call'[d].pc = "storing" => call'[d].stores
    BY DEF CallsAreReal
  <2>1. CASE d = c
    <3>1. call'[d] = next
      BY <1>0, <2>1
    <3>2. next.pc = "idling" => next.others \in SUBSET Sessions
      BY CallShape
    <3> QED
      BY <3>1, <3>2
  <2>2. CASE d # c
    <3>1. call'[d] = call[d]
      BY <1>0, <2>2
    <3>2. call[d].pc = "idling" => call[d].others \in SUBSET Sessions
      BY <1>0, CallShape
    <3> QED
      BY <3>1, <3>2 DEF ChatInv, CallsAreReal
  <2> QED
    BY <2>1, <2>2
<1>4. \A s, t \in Active' : s # t /\ WillRest(s, t) => WillRest(s, t)'
  <2> SUFFICES ASSUME NEW s \in Active', NEW t \in Active', s # t, WillRest(s, t)
               PROVE  WillRest(s, t)'
    OBVIOUS
  <2>1. PICK d \in Calls : \/ call[d].pc = "listing" /\ call[d].session = t
                           \/ call[d].pc = "idling" /\ call[d].session = t /\ s \in call[d].others
    BY DEF WillRest
  <2>2. CASE d # c
    <3>1. call'[d] = call[d]
      BY <1>0, <2>2
    <3> QED
      BY <2>1, <3>1 DEF WillRest
  <2>3. CASE d = c
    <3>1. t = call[c].session /\ (call[c].pc = "idling" => s \in call[c].others)
      BY <2>1, <2>3
    <3>2. next.pc = "idling" /\ s \in next.others
      BY <3>1
    <3>3. call'[c] = next /\ next.session = t
      BY <1>0, <3>1, <3>2
    <3> QED
      BY <3>2, <3>3 DEF WillRest
  <2> QED
    BY <2>2, <2>3
<1>5. OneActiveSession'
  BY <1>4 DEF ChatInv, OneActiveSession
<1>6. Admitted' \subseteq Admitted
  <2>1. call[c].stores => c \in Admitted
    BY <1>1 DEF Admitted
  <2> QED
    BY <1>0, <2>1 DEF Admitted
<1>7. LimitOvershoot'
  BY <1>0, <1>2, <1>6, LimitIsKept DEF ChatInv
<1> QED
  BY <1>2, <1>3, <1>5, <1>7 DEF ChatInv

LEMMA ChatSteps == ChatInv /\ [ChatNext]_chatVars => ChatInv'
<1> SUFFICES ASSUME ChatInv, [ChatNext]_chatVars PROVE ChatInv'
  OBVIOUS
<1>0. /\ ChatTypeOK /\ LimitOvershoot
      /\ call \in [Calls -> Call \cup {NoCall}] /\ session \in [Sessions -> Session] /\ recent \in Nat
  BY DEF ChatInv, ChatTypeOK
\* A call moves from one step to another, or ends, and lets no message through.
<1>m. ASSUME NEW c \in Calls, NEW next \in Call \cup {NoCall},
             call' = [call EXCEPT ![c] = next], UNCHANGED <<session, recent>>,
             call[c].pc \notin {"listing", "idling"}, next.pc # "idling",
             next.pc = "storing" => next.stores,
             \/ next = NoCall \/ next.pc = "limiting" \/ ~next.stores \/ c \in Admitted
      PROVE  ChatInv'
  <2>1. ChatTypeOK' /\ CallsAreReal' /\ OneActiveSession'
    BY <1>0, <1>m, CallMoves
  <2>2. Admitted' \subseteq Admitted
    BY <1>0, <1>m, AdmitsNone
  <2> QED
    BY <1>0, <1>m, <2>1, <2>2, LimitIsKept DEF ChatInv
<1>e. NoCall \in Call \cup {NoCall} /\ NoCall.pc = "none"
  BY CallTypes
<1>s. ASSUME NEW c \in Calls, call[c].pc \in {"looking", "searching"}
      PROVE  /\ call[c].stores \in BOOLEAN /\ call[c].channel \in Channels
             /\ ~call[c].stores \/ c \in Admitted
             /\ call[c].pc \notin {"listing", "idling"}
  BY <1>0, <1>s, <1>e, CallShape DEF Admitted
\* The call goes on to a session that it found ...
<1>f. ASSUME NEW c \in Calls, NEW s \in Sessions, call[c].pc \in {"looking", "searching"},
             GoWith(c, "activating", s), UNCHANGED <<session, recent>>
      PROVE  ChatInv'
  <2> DEFINE next == [pc |-> "activating", channel |-> call[c].channel, stores |-> call[c].stores,
                      session |-> s]
  <2>1. next \in Call /\ next.pc = "activating" /\ next.stores = call[c].stores
    BY <1>f, <1>s, CallTypes DEF Keeps
  <2>2. call' = [call EXCEPT ![c] = next]
    BY <1>0, <1>f DEF GoWith
  <2> HIDE DEF next
  <2> QED
    BY <1>f, <1>s, <1>m, <2>1, <2>2
\* ... or goes on to look for one.
<1>g. ASSUME NEW c \in Calls, NEW pc \in {"searching", "creating"},
             call[c].pc \in {"looking", "searching"},
             Go(c, pc), UNCHANGED <<session, recent>>
      PROVE  ChatInv'
  <2> DEFINE next == [call[c] EXCEPT !.pc = pc]
  <2>1. call[c].pc \in Asks /\ pc \in Asks
    BY <1>g DEF Asks
  <2>2. /\ next = [pc |-> pc, channel |-> call[c].channel, stores |-> call[c].stores,
                   asked |-> call[c].asked]
        /\ call[c].asked \in Sessions \cup {NoSession}
    BY <1>0, <2>1, CallShape
  <2>3. next \in Call /\ next.pc = pc /\ next.stores = call[c].stores
    BY <1>g, <1>s, <2>1, <2>2, CallTypes
  <2>4. call' = [call EXCEPT ![c] = next]
    BY <1>0, <1>g DEF Go
  <2> HIDE DEF next
  <2> QED
    BY <1>g, <1>s, <1>m, <2>3, <2>4
<1>1. ASSUME NEW c \in Calls, NEW ch \in Channels, NEW s \in Sessions \cup {NoSession},
             NEW pc \in {"limiting", "looking"}, NEW b \in BOOLEAN,
             b => pc = "limiting", Begin(c, pc, ch, b, s)
      PROVE  ChatInv'
  <2> DEFINE next == [pc |-> pc, channel |-> ch, stores |-> b, asked |-> s]
  <2>1. next \in Call /\ next.pc = pc /\ next.stores = b
    BY CallTypes DEF Asks
  <2>2. call' = [call EXCEPT ![c] = next] /\ call[c].pc = "none" /\ UNCHANGED <<session, recent>>
    BY <1>1, <1>e DEF Begin
  <2> HIDE DEF next
  <2> QED
    BY <1>1, <1>m, <2>1, <2>2
<1>2. ASSUME NEW c \in Calls, checkLimit(c)
      PROVE  ChatInv'
  <2>1. CASE End(c)
    BY <1>2, <1>e, <1>m, <2>1 DEF checkLimit, End
  <2>2. CASE recent < MaxMessages /\ Go(c, "looking")
    <3> DEFINE next == [call[c] EXCEPT !.pc = "looking"]
    <3>1. call[c].pc \in Asks /\ "looking" \in Asks /\ call[c] # NoCall
      BY <1>2, <1>e DEF checkLimit, Asks
    <3>2. /\ next = [pc |-> "looking", channel |-> call[c].channel, stores |-> call[c].stores,
                     asked |-> call[c].asked]
          /\ call[c].asked \in Sessions \cup {NoSession}
          /\ call[c].channel \in Channels /\ call[c].stores \in BOOLEAN
      BY <1>0, <3>1, CallShape
    <3>3. next \in Call /\ next.pc = "looking"
      BY <3>1, <3>2, CallTypes
    <3>4. call' = [call EXCEPT ![c] = next] /\ UNCHANGED <<session, recent>>
          /\ call[c].pc \notin {"listing", "idling"}
      BY <1>0, <1>2, <2>2 DEF Go, checkLimit
    <3> HIDE DEF next
    <3>5. ChatTypeOK' /\ CallsAreReal' /\ OneActiveSession'
      BY <1>0, <3>3, <3>4, CallMoves
    <3>6. /\ Cardinality(Admitted') \in Nat /\ Cardinality(Admitted') <= Cardinality(Calls)
          /\ Cardinality(Calls) \in Nat
      <4>1. Admitted' \subseteq Calls /\ IsFiniteSet(Calls)
        BY ChatAssumption DEF Admitted
      <4> QED
        BY <4>1, FS_Subset, FS_CardinalityType
    <3>7. LimitOvershoot'
      BY <1>0, <2>2, <3>4, <3>6, ChatAssumption DEF LimitOvershoot
    <3> QED
      BY <3>5, <3>7 DEF ChatInv
  <2>3. recent >= MaxMessages \/ recent < MaxMessages
    BY <1>0, ChatAssumption
  <2> QED
    BY <1>2, <1>0, <2>1, <2>2, <2>3, ChatAssumption DEF checkLimit
<1>3. ASSUME NEW c \in Calls, LookUp(c)
      PROVE  ChatInv'
  <2>1. /\ call[c].pc = "looking" /\ UNCHANGED <<session, recent>>
        /\ call[c].asked \in Sessions
        /\ GoWith(c, "activating", call[c].asked) \/ End(c)
    BY <1>0, <1>3, CallShape DEF LookUp, Asks
  <2>2. CASE End(c)
    BY <1>e, <1>m, <2>1, <2>2 DEF End
  <2>3. CASE GoWith(c, "activating", call[c].asked)
    BY <1>f, <2>1, <2>3
  <2> QED
    BY <2>1, <2>2, <2>3
<1>4. ASSUME NEW c \in Calls, LookInChannel(c) \/ LookAnywhere(c)
      PROVE  ChatInv'
  <2>1. /\ call[c].pc \in {"looking", "searching"} /\ UNCHANGED <<session, recent>>
        /\ \/ \E s \in Sessions : GoWith(c, "activating", s)
           \/ \E pc \in {"searching", "creating"} : Go(c, pc)
    BY <1>4 DEF LookInChannel, LookAnywhere
  <2> QED
    BY <1>f, <1>g, <2>1
<1>5. ASSUME NEW c \in Calls, Activate(c) \/ Create(c)
      PROVE  ChatInv'
  <2>1. PICK s \in Sessions :
          /\ session' = [session EXCEPT ![s] = [status |-> "active", channel |-> call[c].channel]]
          /\ GoWith(c, "listing", s)
    <3>1. call[c].pc = "activating" => call[c].session \in Sessions
      BY <1>0, CallShape DEF Keeps
    <3> QED
      BY <1>5, <3>1 DEF Activate, Create
  <2>2. call[c].pc \in {"activating", "creating"} /\ UNCHANGED recent
    BY <1>5 DEF Activate, Create
  <2> DEFINE next == [pc |-> "listing", channel |-> call[c].channel, stores |-> call[c].stores,
                      session |-> s]
  <2>3. call[c].channel \in Channels /\ call[c].stores \in BOOLEAN
    BY <1>0, <1>e, <2>2, CallShape
  <2>4. next \in Call /\ next.pc = "listing" /\ next.session = s /\ next.stores = call[c].stores
    BY <2>3, CallTypes DEF Keeps
  <2>5. call' = [call EXCEPT ![c] = next]
    BY <1>0, <2>1 DEF GoWith
  <2> HIDE DEF next
  <2> QED
    BY <2>1, <2>2, <2>4, <2>5, CallActivates
\* Siblings are done with: the call stores its message or ends.
<1>a. ASSUME NEW c \in Calls, AfterSiblings(c), call[c].pc \in {"listing", "idling"}
      PROVE  \E next \in Call \cup {NoCall} :
               /\ call' = [call EXCEPT ![c] = next]
               /\ next # NoCall => next.pc = "storing" /\ next.stores = call[c].stores
               /\ next.pc \in {"none", "storing"}
               /\ next.pc = "storing" => next.stores
  <2>1. /\ call[c].channel \in Channels /\ call[c].stores \in BOOLEAN
        /\ call[c].session \in Sessions
    BY <1>0, <1>e, <1>a, CallShape DEF Keeps
  <2>2. CASE call[c].stores
    <3> DEFINE next == [pc |-> "storing", channel |-> call[c].channel, stores |-> call[c].stores,
                        session |-> call[c].session]
    <3>1. next \in Call /\ next.pc = "storing" /\ next.stores = call[c].stores
      BY <2>1, CallTypes DEF Keeps
    <3>2. call' = [call EXCEPT ![c] = next]
      BY <1>0, <1>a, <2>2 DEF AfterSiblings, GoWith
    <3> HIDE DEF next
    <3> QED
      BY <2>2, <3>1, <3>2
  <2>3. CASE ~call[c].stores
    BY <1>a, <1>e, <2>3 DEF AfterSiblings, End
  <2> QED
    BY <2>2, <2>3
<1>6. ASSUME NEW c \in Calls, ListSiblings(c)
      PROVE  ChatInv'
  <2>1. call[c].pc = "listing" /\ UNCHANGED <<session, recent>>
    BY <1>6 DEF ListSiblings
  <2>2. Active' = Active /\ (\A s \in Sessions : Exists(s) => Exists(s)')
    BY <2>1 DEF Active, Exists
  <2> DEFINE others == Active \ {call[c].session}
  <2>3. CASE others = {}
    <3>1. AfterSiblings(c)
      BY <1>6, <2>3 DEF ListSiblings
    <3>2. PICK next \in Call \cup {NoCall} :
               /\ call' = [call EXCEPT ![c] = next]
               /\ next # NoCall => next.pc = "storing" /\ next.stores = call[c].stores
               /\ next.pc \in {"none", "storing"}
               /\ next.pc = "storing" => next.stores
      BY <1>a, <2>1, <3>1
    <3> QED
      BY <1>0, <2>1, <2>2, <2>3, <3>2, CallRests
  <2>4. CASE others # {}
    <3> DEFINE next == [pc |-> "idling", channel |-> call[c].channel, stores |-> call[c].stores,
                        session |-> call[c].session, others |-> others]
    <3>1. /\ call[c].channel \in Channels /\ call[c].stores \in BOOLEAN
          /\ call[c].session \in Sessions
      BY <1>0, <1>e, <2>1, CallShape DEF Keeps
    <3>2. others \in SUBSET Sessions /\ (\A s \in others : Exists(s))
      BY DEF Active, Exists
    <3>3. /\ next \in Call /\ next.pc = "idling" /\ next.stores = call[c].stores
          /\ next.session = call[c].session /\ next.others = others
      BY <3>1, <3>2, CallTypes
    <3>4. call' = [call EXCEPT ![c] = next]
      BY <1>0, <1>6, <2>4 DEF ListSiblings
    <3> HIDE DEF next
    <3> QED
      BY <1>0, <2>1, <2>2, <3>2, <3>3, <3>4, CallRests
  <2> QED
    BY <2>3, <2>4
<1>7. ASSUME NEW c \in Calls, IdleSibling(c)
      PROVE  ChatInv'
  <2>1. call[c].pc = "idling" /\ UNCHANGED recent
    BY <1>7 DEF IdleSibling
  <2>2. /\ call[c].channel \in Channels /\ call[c].stores \in BOOLEAN
        /\ call[c].session \in Sessions /\ call[c].others \in SUBSET Sessions
        /\ \A S : [call[c] EXCEPT !.others = S] =
                    [pc |-> "idling", channel |-> call[c].channel, stores |-> call[c].stores,
                     session |-> call[c].session, others |-> S]
    BY <1>0, <1>e, <2>1, CallShape
  <2>3. PICK s \in call[c].others :
          /\ session' = [session EXCEPT ![s].status = "idle"]
          /\ IF call[c].others = {s} THEN AfterSiblings(c)
             ELSE call' = [call EXCEPT ![c].others = @ \ {s}]
    BY <1>7 DEF IdleSibling
  <2>4. s \in Sessions /\ Exists(s)
    BY <2>1, <2>2, <2>3 DEF ChatInv, CallsAreReal
  <2>5. [session[s] EXCEPT !.status = "idle"] \in Session
    BY <1>0, <2>4 DEF Session, Exists
  <2>6. /\ session' \in [Sessions -> Session] /\ Active' \subseteq Active \ {s}
        /\ \A t \in Sessions : Exists(t) => Exists(t)'
    BY <1>0, <2>3, <2>4, <2>5 DEF Active, Exists, Session
  <2>7. CASE call[c].others = {s}
    <3>1. PICK next \in Call \cup {NoCall} :
               /\ call' = [call EXCEPT ![c] = next]
               /\ next # NoCall => next.pc = "storing" /\ next.stores = call[c].stores
               /\ next.pc \in {"none", "storing"}
               /\ next.pc = "storing" => next.stores
      BY <1>a, <2>1, <2>3, <2>7
    <3> QED
      BY <1>0, <2>1, <2>6, <2>7, <3>1, CallRests
  <2>8. CASE call[c].others # {s}
    <3> DEFINE others == call[c].others \ {s}
               next == [pc |-> "idling", channel |-> call[c].channel, stores |-> call[c].stores,
                        session |-> call[c].session, others |-> others]
    <3>1. call' = [call EXCEPT ![c] = next]
      BY <1>0, <2>2, <2>3, <2>8
    <3>2. others \in SUBSET Sessions /\ (\A t \in others : Exists(t))
      BY <2>1, <2>2 DEF ChatInv, CallsAreReal
    <3>3. /\ next \in Call /\ next.pc = "idling" /\ next.stores = call[c].stores
          /\ next.session = call[c].session /\ next.others = others
      BY <2>2, <3>2, CallTypes
    <3> HIDE DEF next
    <3>4. \A t \in Active' \ {call[c].session} : t \in call[c].others => t \in others
      BY <2>6
    <3> HIDE DEF others
    <3> QED
      BY <1>0, <2>1, <2>6, <3>1, <3>2, <3>3, <3>4, CallRests
  <2> QED
    BY <2>7, <2>8
<1>8. ASSUME NEW c \in Calls, StoreMessage(c)
      PROVE  ChatInv'
  <2>1. /\ call[c].pc = "storing" /\ call' = [call EXCEPT ![c] = NoCall]
        /\ recent' = recent + 1 /\ recent' \in Nat /\ UNCHANGED session
    BY <1>0, <1>8 DEF StoreMessage, End
  <2>2. ChatTypeOK' /\ CallsAreReal' /\ OneActiveSession'
    BY <1>0, <1>e, <2>1, CallMoves
  <2>3. c \in Admitted /\ Admitted' = Admitted \ {c}
    BY <1>0, <1>e, <2>1 DEF ChatInv, CallsAreReal, Admitted
  <2>4. PICK n \in Nat : n = Cardinality(Admitted)
    BY AdmittedIsCounted
  <2>5. Cardinality(Admitted') = n - 1
    BY <2>3, <2>4, AdmittedIsCounted, FS_RemoveElement
  <2>6. PICK k \in Nat : k = Cardinality(Calls)
    BY AdmittedIsCounted
  <2>7. PICK r \in Nat : r = recent
    BY <1>0
  <2>8. MaxMessages \in Nat /\ r + n < MaxMessages + k
    BY <1>0, <2>4, <2>6, <2>7, ChatAssumption DEF LimitOvershoot
  <2>9. (r + 1) + (n - 1) < MaxMessages + k
    BY ONLY <2>8, n \in Nat, r \in Nat, k \in Nat
  <2>10. LimitOvershoot'
    BY <2>1, <2>5, <2>6, <2>7, <2>9 DEF LimitOvershoot
  <2> QED
    BY <2>2, <2>10 DEF ChatInv
\* Sessions change, and none becomes active: the calls stay as they are.
<1>c. ASSUME UNCHANGED call, session' \in [Sessions -> Session], Active' \subseteq Active,
             \A s \in Sessions : Exists(s) => Exists(s)',
             recent' \in Nat, recent' <= recent
      PROVE  ChatInv'
  <2>1. ChatTypeOK'
    BY <1>0, <1>c DEF ChatTypeOK
  <2>2. \A c \in Calls : call[c].pc = "idling" => call[c].others \in SUBSET Sessions
    BY <1>0, CallShape
  <2>3. CallsAreReal'
    BY <1>0, <1>c, <2>2 DEF ChatInv, CallsAreReal
  <2>4. OneActiveSession'
    BY <1>c DEF ChatInv, OneActiveSession, WillRest
  <2>5. Admitted' \subseteq Admitted
    BY <1>c DEF Admitted
  <2> QED
    BY <1>0, <1>c, <2>1, <2>3, <2>4, <2>5, LimitIsKept DEF ChatInv
<1>9. ASSUME NEW s \in Sessions, close(s)
      PROVE  ChatInv'
  <2>1. [session[s] EXCEPT !.status = "closed"] \in Session
    BY <1>0, <1>9 DEF close, Session, Exists
  <2>2. /\ session' \in [Sessions -> Session] /\ Active' \subseteq Active
        /\ \A t \in Sessions : Exists(t) => Exists(t)'
    BY <1>0, <1>9, <2>1 DEF close, Active, Exists, Session
  <2> QED
    BY <1>0, <1>9, <1>c, <2>2 DEF close
<1>10. CASE Age
  <2>1. recent' \in Nat /\ recent' <= recent /\ UNCHANGED <<session, call>>
    BY <1>0, <1>10 DEF Age
  <2> QED
    BY <1>0, <1>c, <2>1 DEF Active, Exists
<1>11. CASE UNCHANGED chatVars
  BY <1>0, <1>11, <1>c DEF chatVars, Active, Exists
<1> QED
  <2>1. ASSUME NEW c \in Calls, NEW ch \in Channels, NEW s \in Sessions \cup {NoSession},
               Arrive(c, ch, s)
        PROVE  ChatInv'
    BY <1>1, <2>1 DEF Arrive
  <2>2. ASSUME NEW c \in Calls, NEW ch \in Channels, NEW s \in Sessions, Resume(c, ch, s)
        PROVE  ChatInv'
    BY <1>1, <2>2 DEF Resume
  <2> QED
    BY <1>2, <1>3, <1>4, <1>5, <1>6, <1>7, <1>8, <1>9, <1>10, <1>11, <2>1, <2>2 DEF ChatNext

\* However many calls overlap, two sessions of a user with an agent are active together only
\* while one of them is still to be put to rest, and the rate limit is exceeded by the messages
\* in flight at most: idleSiblingSessions and checkUserRateLimit, neither in a transaction.
THEOREM SessionsStaySound == ChatSpec => []SessionsAreSound
<1>1. ChatInv => SessionsAreSound
  BY DEF ChatInv, SessionsAreSound
<1> QED
  BY <1>1, ChatStarts, ChatSteps, PTL DEF ChatSpec

\* A session that was closed is in use again only by a call that had read it before: the status
\* is looked at when the session is read, and written over by id.
THEOREM ClosedSessionsStayClosed == ChatSpec => ClosedReopensByStaleRead
<1> DEFINE Stay == \A s \in Sessions : session[s].status = "closed" =>
                     /\ session'[s].status # "closed" => \E c \in Calls : Holds(c, s)
                     /\ \A c \in Calls : Holds(c, s)' => Holds(c, s)
<1>1. ChatInv /\ [ChatNext]_chatVars => Stay
  <2> SUFFICES ASSUME ChatInv, [ChatNext]_chatVars, NEW s \in Sessions, session[s].status = "closed"
               PROVE  /\ session'[s].status # "closed" => \E c \in Calls : Holds(c, s)
                      /\ \A c \in Calls : Holds(c, s)' => Holds(c, s)
    OBVIOUS
  <2>0. /\ call \in [Calls -> Call \cup {NoCall}] /\ session \in [Sessions -> Session]
        /\ NoCall.pc = "none"
    BY CallTypes DEF ChatInv, ChatTypeOK
  <2>1. ASSUME session'[s].status # "closed"
        PROVE  \E c \in Calls : Holds(c, s)
    <3>1. session' # session
      BY <2>1
    <3>2. \/ \E c \in Calls : Activate(c) \/ Create(c) \/ IdleSibling(c)
          \/ \E t \in Sessions : close(t)
      BY <3>1 DEF ChatNext, chatVars, checkLimit, LookUp, LookInChannel, LookAnywhere, ListSiblings,
                  StoreMessage, Arrive, Resume, Begin, Age
    <3>3. ASSUME NEW c \in Calls, Activate(c)
          PROVE  Holds(c, s)
      BY <2>0, <2>1, <3>3 DEF Activate, Holds
    <3>4. ASSUME NEW c \in Calls, Create(c)
          PROVE  FALSE
      BY <2>0, <2>1, <3>4 DEF Create, Exists
    <3>5. ASSUME NEW c \in Calls, IdleSibling(c)
          PROVE  Holds(c, s)
      BY <2>0, <2>1, <3>5 DEF IdleSibling, Holds
    <3>6. ASSUME NEW t \in Sessions, close(t)
          PROVE  FALSE
      BY <2>0, <2>1, <3>6 DEF close, Session
    <3> QED
      BY <3>2, <3>3, <3>4, <3>5, <3>6
  <2>2. ASSUME NEW c \in Calls, Holds(c, s)', ~Holds(c, s)
        PROVE  FALSE
    <3>1. call'[c] # call[c] /\ call'[c].pc \in {"activating", "idling"}
      BY <2>2 DEF Holds
    \* The step is one of the call's own.
    <3>2. \/ checkLimit(c) \/ LookUp(c) \/ LookInChannel(c) \/ LookAnywhere(c) \/ Activate(c)
          \/ Create(c) \/ ListSiblings(c) \/ IdleSibling(c) \/ StoreMessage(c)
          \/ \E pc \in {"limiting", "looking"}, ch \in Channels, b \in BOOLEAN,
                t \in Sessions \cup {NoSession} : Begin(c, pc, ch, b, t)
      <4>1. ASSUME NEW d \in Calls, d # c,
                   \/ checkLimit(d) \/ LookUp(d) \/ LookInChannel(d) \/ LookAnywhere(d)
                   \/ Activate(d) \/ Create(d) \/ ListSiblings(d) \/ IdleSibling(d)
                   \/ StoreMessage(d)
                   \/ \E pc, ch, b, t : Begin(d, pc, ch, b, t)
            PROVE  FALSE
        BY <2>0, <3>1, <4>1
        DEF checkLimit, LookUp, LookInChannel, LookAnywhere, Activate, Create, ListSiblings,
            IdleSibling, StoreMessage, Begin, Go, GoWith, End, AfterSiblings
      <4>2. ~UNCHANGED chatVars /\ ~Age /\ (\A t \in Sessions : ~close(t))
        BY <3>1 DEF chatVars, Age, close
      <4> QED
        BY <4>1, <4>2 DEF ChatNext, Arrive, Resume
    <3>3. CASE LookUp(c)
      BY <2>0, <2>2, <3>1, <3>3 DEF LookUp, GoWith, End, Holds, Reusable
    <3>4. CASE LookInChannel(c) \/ LookAnywhere(c)
      <4>1. PICK t \in Sessions : Reusable(t) /\ GoWith(c, "activating", t)
        <5>1. ASSUME NEW pc \in {"searching", "creating"}, Go(c, pc)
              PROVE  FALSE
          <6>1. call[c].pc \in Asks /\ pc \in Asks /\ call[c] \in Call \cup {NoCall}
            BY <2>0, <3>4 DEF LookInChannel, LookAnywhere, Asks
          <6>2. call'[c] = [pc |-> pc, channel |-> call[c].channel, stores |-> call[c].stores,
                            asked |-> call[c].asked]
            BY <2>0, <5>1, <6>1, CallShape DEF Go
          <6> QED
            BY <3>1, <6>2
        <5> QED
          BY <3>4, <5>1 DEF LookInChannel, LookAnywhere
      <4>2. call'[c].pc = "activating" /\ call'[c].session = t
        BY <2>0, <4>1 DEF GoWith
      <4> QED
        BY <2>2, <4>1, <4>2 DEF Holds, Reusable
    <3>5. CASE ListSiblings(c)
      BY <2>0, <2>2, <3>1, <3>5 DEF ListSiblings, AfterSiblings, GoWith, End, Holds, Active
    <3>6. CASE IdleSibling(c)
      <4>1. PICK t \in call[c].others : IF call[c].others = {t} THEN AfterSiblings(c)
                                        ELSE call' = [call EXCEPT ![c].others = @ \ {t}]
        BY <3>6 DEF IdleSibling
      <4>2. call[c].pc = "idling"
        BY <3>6 DEF IdleSibling
      <4>3. CASE AfterSiblings(c)
        BY <2>0, <3>1, <4>3 DEF AfterSiblings, GoWith, End
      <4>4. CASE call' = [call EXCEPT ![c].others = @ \ {t}]
        <5>1. call'[c] = [call[c] EXCEPT !.others = @ \ {t}]
          BY <2>0, <4>4
        <5>2. call'[c].pc = "idling" /\ call'[c].others = call[c].others \ {t}
          BY <2>0, <4>2, <5>1, CallShape
        <5> QED
          BY <2>2, <4>2, <5>2 DEF Holds
      <4> QED
        BY <4>1, <4>3, <4>4
    <3>7. CASE checkLimit(c)
      <4>1. call'[c] = [call[c] EXCEPT !.pc = "looking"] \/ call'[c] = NoCall
        BY <2>0, <3>7 DEF checkLimit, Go, End
      <4>2. call[c].pc \in Asks /\ "looking" \in Asks
        BY <3>7 DEF checkLimit, Asks
      <4>3. call[c] \in Call \cup {NoCall}
        BY <2>0
      <4>4. [call[c] EXCEPT !.pc = "looking"] =
              [pc |-> "looking", channel |-> call[c].channel, stores |-> call[c].stores,
               asked |-> call[c].asked]
        BY <4>2, <4>3, CallShape
      <4> QED
        BY <2>0, <3>1, <4>1, <4>4
    <3>8. CASE \/ Activate(c) \/ Create(c) \/ StoreMessage(c)
               \/ \E pc \in {"limiting", "looking"}, ch \in Channels, b \in BOOLEAN,
                     t \in Sessions \cup {NoSession} : Begin(c, pc, ch, b, t)
      BY <2>0, <3>1, <3>8 DEF Activate, Create, StoreMessage, Begin, GoWith, End
    <3> QED
      BY <3>2, <3>3, <3>4, <3>5, <3>6, <3>7, <3>8
  <2> QED
    BY <2>1, <2>2
<1>2. ChatInv /\ [ChatNext]_chatVars => [Stay]_chatVars
  BY <1>1
<1>3. ChatSpec => []ChatInv
  BY ChatStarts, ChatSteps, PTL DEF ChatSpec
<1> QED
  BY <1>2, <1>3, PTL DEF ChatSpec, ClosedReopensByStaleRead

-----------------------------------------------------------------------------

(*****************************************************************************)
(* The pool of connections to MCP servers.                                   *)
(*****************************************************************************)

\* An operation of this kind, and whose client it is: Serving ones have one, Opening ones are
\* to open it.
Opening == {"connecting", "reconnecting"}
Serving == {"connecting", "closing", "calling", "reconnecting", "retrying"}
Renewed == {"reconnecting", "reconnected", "retrying"}

\* What is pending is being connected, by one operation, and each makes a client of its own.
OpeningsAreOwn ==
  /\ \A o \in PoolCalls : operation[o].pc = "connecting" => operation[o].server \in pending
  /\ \A o, p \in PoolCalls : o # p =>
       /\ operation[o].pc = "connecting" /\ operation[p].pc = "connecting"
            => operation[o].server # operation[p].server
       /\ operation[o].pc \in Opening /\ operation[p].pc \in Opening
            => operation[o].client # operation[p].client

\* An operation's client is one of its server, opening as long as it is being opened.
ClientsFit ==
  \A o \in PoolCalls : operation[o].pc \in Serving =>
    LET k == client[operation[o].client]
    IN  /\ k # Unused /\ k.server = operation[o].server
        /\ k.state = "opening" <=> operation[o].pc \in Opening

\* A server that is not contested has one entry at a time, and whoever closes or uses it ...
EntriesFit ==
  /\ Connected \cap pending \subseteq contested
  /\ \A o \in PoolCalls : operation[o].pc \in Renewed => operation[o].server \in contested
  /\ \A o \in PoolCalls : operation[o].pc = "closing" /\ operation[o].server \notin contested =>
       /\ entry[operation[o].server] = operation[o].client
       /\ \A p \in PoolCalls \ {o} :
            ~(operation[p].pc = "closing" /\ operation[p].server = operation[o].server)
  /\ \A o \in PoolCalls : operation[o].pc = "calling" /\ operation[o].server \notin contested =>
       \/ entry[operation[o].server] = operation[o].client
       \/ client[operation[o].client].state = "closed"

PoolFits == Cardinality(pending) + Cardinality(Connected \ contested) <= MaxConnections

PoolInv == /\ PoolTypeOK /\ OpeningsAreOwn /\ ClientsFit /\ EntriesFit /\ PoolFits
           /\ LeaksAreContested /\ ClosedLeaves

LEMMA OperationShape ==
  ASSUME NEW x \in {NoOperation} \cup Operation
  PROVE  /\ x.pc \in Serving \cup {"reconnected", "none"}
         /\ (x.pc = "none") <=> (x = NoOperation)
         /\ x.pc \in Serving => x.server \in Servers /\ x.client \in Clients
         /\ x.pc = "reconnected" => x.server \in Servers
<1>1. CASE x \in [pc: Serving, server: Servers, client: Clients]
  BY <1>1 DEF Serving, NoOperation
<1>2. CASE x \in [pc: {"reconnected"}, server: Servers]
  BY <1>2 DEF Serving, NoOperation
<1>3. CASE x = NoOperation
  BY <1>3 DEF Serving, NoOperation
<1> QED
  BY <1>1, <1>2, <1>3 DEF Operation, Serving

LEMMA OperationTypes ==
  /\ NoOperation.pc = "none"
  /\ \A pc \in Serving, s \in Servers, k \in Clients :
       LET x == [pc |-> pc, server |-> s, client |-> k]
       IN  x \in Operation /\ x.pc = pc /\ x.server = s /\ x.client = k
  /\ \A s \in Servers :
       LET x == [pc |-> "reconnected", server |-> s]
       IN  x \in Operation /\ x.pc = "reconnected" /\ x.server = s
BY DEF Operation, Serving, NoOperation

LEMMA ServingExists ==
  ASSUME NEW pc \in Serving, NEW s \in Servers, NEW k \in Clients
  PROVE  \E x \in Operation : /\ x = [pc |-> pc, server |-> s, client |-> k]
                              /\ x.pc = pc /\ x.server = s /\ x.client = k
<1>1. [pc |-> pc, server |-> s, client |-> k] \in Operation
  BY OperationTypes
<1> QED
  BY <1>1

LEMMA PoolCounts ==
  ASSUME PoolTypeOK
  PROVE  /\ IsFiniteSet(pending) /\ IsFiniteSet(Connected) /\ IsFiniteSet(Connected \ contested)
         /\ IsFiniteSet(contested)
         /\ Cardinality(pending) \in Nat /\ Cardinality(Connected) \in Nat
         /\ Cardinality(Connected \ contested) \in Nat /\ Cardinality(contested) \in Nat
         /\ MaxConnections \in Nat \ {0}
<1>1. IsFiniteSet(Servers) /\ MaxConnections \in Nat \ {0}
  BY PoolAssumption
<1>2. /\ pending \subseteq Servers /\ Connected \subseteq Servers /\ contested \subseteq Servers
      /\ Connected \ contested \subseteq Servers
  BY DEF PoolTypeOK, Connected
<1> QED
  BY <1>1, <1>2, FS_Subset, FS_CardinalityType

\* The pool has room for what is in it as long as nothing is added, ...
LEMMA FitsWithLess ==
  ASSUME PoolTypeOK, PoolFits, pending' \subseteq pending,
         Connected' \ contested' \subseteq Connected \ contested
  PROVE  PoolFits'
<1>1. PICK a \in Nat : a = Cardinality(pending)
  BY PoolCounts
<1>2. PICK b \in Nat : b = Cardinality(Connected \ contested)
  BY PoolCounts
<1>3. PICK c \in Nat : c = Cardinality(pending') /\ c <= a
  BY <1>1, PoolCounts, FS_Subset, FS_CardinalityType
<1>4. PICK d \in Nat : d = Cardinality(Connected' \ contested') /\ d <= b
  BY <1>2, PoolCounts, FS_Subset, FS_CardinalityType
<1>5. a + b <= MaxConnections /\ MaxConnections \in Nat
  BY <1>1, <1>2, PoolAssumption DEF PoolFits
<1>6. c + d <= MaxConnections
  BY ONLY <1>3, <1>4, <1>5, a \in Nat, b \in Nat, c \in Nat, d \in Nat
<1> QED
  BY <1>3, <1>4, <1>6 DEF PoolFits

\* ... as long as what is connected was pending before, ...
LEMMA FitsWithOpened ==
  ASSUME PoolTypeOK, PoolFits, NEW s \in pending, pending' = pending \ {s},
         Connected' \ contested' \subseteq (Connected \ contested) \cup {s}
  PROVE  PoolFits'
<1>1. PICK a \in Nat : a = Cardinality(pending)
  BY PoolCounts
<1>2. PICK b \in Nat : b = Cardinality(Connected \ contested)
  BY PoolCounts
<1>3. Cardinality(pending') = a - 1
  BY <1>1, PoolCounts, FS_RemoveElement
<1>4. PICK e \in Nat : e = Cardinality((Connected \ contested) \cup {s}) /\ e <= b + 1
  <2>1. Cardinality((Connected \ contested) \cup {s}) \in {b, b + 1}
    BY <1>2, PoolCounts, FS_AddElement
  <2> QED
    BY <2>1
<1>5. IsFiniteSet((Connected \ contested) \cup {s})
  BY PoolCounts, FS_AddElement
<1>6. PICK d \in Nat : d = Cardinality(Connected' \ contested') /\ d <= e
  BY <1>4, <1>5, FS_Subset, FS_CardinalityType
<1>7. a + b <= MaxConnections /\ MaxConnections \in Nat
  BY <1>1, <1>2, PoolAssumption DEF PoolFits
<1>8. (a - 1) + d <= MaxConnections
  BY ONLY <1>4, <1>6, <1>7, a \in Nat, b \in Nat, d \in Nat, e \in Nat
<1> QED
  BY <1>3, <1>6, <1>8 DEF PoolFits

\* ... and when a connection is begun that the pool is not too full for.
LEMMA FitsWithPending ==
  ASSUME PoolTypeOK, NEW s \in Servers, pending' = pending \cup {s}, s \notin pending,
         Cardinality(Connected) + Cardinality(pending) < MaxConnections,
         Connected' \ contested' \subseteq Connected
  PROVE  PoolFits'
<1>1. PICK a \in Nat : a = Cardinality(pending)
  BY PoolCounts
<1>2. PICK b \in Nat : b = Cardinality(Connected)
  BY PoolCounts
<1>3. Cardinality(pending') = a + 1
  BY <1>1, PoolCounts, FS_AddElement
<1>4. PICK d \in Nat : d = Cardinality(Connected' \ contested') /\ d <= b
  BY <1>2, PoolCounts, FS_Subset, FS_CardinalityType
<1>5. b + a < MaxConnections /\ MaxConnections \in Nat
  BY <1>1, <1>2, PoolAssumption
<1>6. (a + 1) + d <= MaxConnections
  BY ONLY <1>4, <1>5, a \in Nat, b \in Nat, d \in Nat
<1> QED
  BY <1>3, <1>4, <1>6 DEF PoolFits

\* That bounds what the pool holds by what is contested.
LEMMA FitsBoundsPool ==
  ASSUME PoolTypeOK, PoolFits
  PROVE  PoolOvershoot
<1>1. PICK a \in Nat : a = Cardinality(pending)
  BY PoolCounts
<1>2. PICK b \in Nat : b = Cardinality(Connected \ contested)
  BY PoolCounts
<1>3. PICK c \in Nat : c = Cardinality(contested)
  BY PoolCounts
<1>4. PICK d \in Nat : d = Cardinality(Connected) /\ d <= b + c
  <2>1. PICK e \in Nat : e = Cardinality(Connected \cap contested) /\ e <= c
    <3>1. Connected \cap contested \subseteq contested
      OBVIOUS
    <3> QED
      BY <1>3, <3>1, PoolCounts, FS_Subset, FS_CardinalityType
  <2>2. Cardinality(Connected \ contested) = Cardinality(Connected) - Cardinality(Connected \cap contested)
    BY PoolCounts, FS_Difference
  <2>3. PICK d \in Nat : d = Cardinality(Connected)
    BY PoolCounts
  <2>4. d <= b + c
    BY ONLY <1>2, <2>1, <2>2, <2>3, b \in Nat, c \in Nat, d \in Nat, e \in Nat
  <2> QED
    BY <2>3, <2>4
<1>5. a + b <= MaxConnections /\ MaxConnections \in Nat
  BY <1>1, <1>2, PoolAssumption DEF PoolFits
<1>6. d + a <= MaxConnections + c
  BY ONLY <1>4, <1>5, a \in Nat, b \in Nat, c \in Nat, d \in Nat
<1> QED
  BY <1>1, <1>3, <1>4, <1>6 DEF PoolOvershoot

LEMMA PoolStarts == PoolInit => PoolInv
<1> SUFFICES ASSUME PoolInit PROVE PoolInv
  OBVIOUS
<1>1. Connected = {} /\ pending = {}
  BY DEF PoolInit, Connected
<1>2. \A o \in PoolCalls : operation[o] = NoOperation /\ operation[o].pc = "none"
  BY OperationTypes DEF PoolInit
<1>3. PoolTypeOK
  BY <1>1 DEF PoolInit, PoolTypeOK
<1>4. OpeningsAreOwn /\ ClientsFit /\ EntriesFit
  BY <1>1, <1>2 DEF OpeningsAreOwn, ClientsFit, EntriesFit, Opening, Serving, Renewed
<1>5. PoolFits
  <2>1. Cardinality(pending) = 0 /\ Cardinality(Connected \ contested) = 0
    BY <1>1, FS_EmptySet
  <2> QED
    BY <2>1, PoolAssumption DEF PoolFits
<1>6. LeaksAreContested /\ ClosedLeaves
  BY <1>1 DEF PoolInit, LeaksAreContested, ClosedLeaves, Unused
<1> QED
  BY <1>3, <1>4, <1>5, <1>6 DEF PoolInv

-----------------------------------------------------------------------------
\* What the invariant says of one operation and of one entry.
LEMMA PoolNow ==
  ASSUME PoolInv
  PROVE  /\ entry \in [Servers -> Clients \cup {NoClient}] /\ client \in [Clients -> {Unused} \cup Client]
         /\ operation \in [PoolCalls -> {NoOperation} \cup Operation]
         /\ \A o \in PoolCalls :
              /\ operation[o].pc \in Serving \cup {"reconnected", "none"}
              /\ (operation[o].pc = "none") <=> (operation[o] = NoOperation)
              /\ operation[o].pc \in Serving =>
                   /\ operation[o].server \in Servers /\ operation[o].client \in Clients
                   /\ client[operation[o].client] \in Client
                   /\ client[operation[o].client].server = operation[o].server
                   /\ client[operation[o].client].state = "opening" <=> operation[o].pc \in Opening
              /\ operation[o].pc = "reconnected" => operation[o].server \in Servers
         /\ \A t \in Connected :
              /\ t \in Servers /\ entry[t] \in Clients /\ client[entry[t]] \in Client
              /\ client[entry[t]].server = t /\ client[entry[t]].state \in {"open", "closed"}
<1>1. PoolTypeOK /\ ClientsFit
  BY DEF PoolInv
<1>2. /\ entry \in [Servers -> Clients \cup {NoClient}] /\ client \in [Clients -> {Unused} \cup Client]
      /\ operation \in [PoolCalls -> {NoOperation} \cup Operation]
  BY <1>1 DEF PoolTypeOK
<1>3. ASSUME NEW o \in PoolCalls
      PROVE  /\ operation[o].pc \in Serving \cup {"reconnected", "none"}
             /\ (operation[o].pc = "none") <=> (operation[o] = NoOperation)
             /\ operation[o].pc \in Serving =>
                   /\ operation[o].server \in Servers /\ operation[o].client \in Clients
                   /\ client[operation[o].client] \in Client
                   /\ client[operation[o].client].server = operation[o].server
                   /\ client[operation[o].client].state = "opening" <=> operation[o].pc \in Opening
             /\ operation[o].pc = "reconnected" => operation[o].server \in Servers
  <2>1. operation[o] \in {NoOperation} \cup Operation
    BY <1>2
  <2>2. /\ operation[o].pc \in Serving \cup {"reconnected", "none"}
        /\ (operation[o].pc = "none") <=> (operation[o] = NoOperation)
        /\ operation[o].pc \in Serving =>
             operation[o].server \in Servers /\ operation[o].client \in Clients
        /\ operation[o].pc = "reconnected" => operation[o].server \in Servers
    BY <2>1, OperationShape
  <2>3. operation[o].pc \in Serving =>
          /\ client[operation[o].client] # Unused
          /\ client[operation[o].client].server = operation[o].server
          /\ client[operation[o].client].state = "opening" <=> operation[o].pc \in Opening
    BY <1>1 DEF ClientsFit
  <2>4. operation[o].pc \in Serving => client[operation[o].client] \in Client
    BY <1>2, <2>2, <2>3
  <2> QED
    BY <2>2, <2>3, <2>4
<1>4. ASSUME NEW t \in Connected
      PROVE  /\ t \in Servers /\ entry[t] \in Clients /\ client[entry[t]] \in Client
             /\ client[entry[t]].server = t /\ client[entry[t]].state \in {"open", "closed"}
  <2>1. t \in Servers /\ entry[t] \in Clients
    BY <1>2 DEF Connected
  <2>2. client[entry[t]] \in [state: {"open", "closed"}, server: {t}]
    BY <1>1 DEF PoolTypeOK
  <2> QED
    BY <2>1, <2>2 DEF Client
<1> QED
  BY <1>2, <1>3, <1>4

LEMMA ClientBecomes ==
  ASSUME client \in [Clients -> {Unused} \cup Client], NEW k \in Clients, client[k] \in Client,
         NEW st \in {"open", "closed"}, Becomes(k, st)
  PROVE  /\ client' \in [Clients -> {Unused} \cup Client] /\ client'[k] \in Client
         /\ client'[k].state = st /\ client'[k].server = client[k].server
         /\ \A j \in Clients : j # k => client'[j] = client[j]
<1>1. [client[k] EXCEPT !.state = st] \in Client
  BY DEF Client
<1>2. client' = [client EXCEPT ![k] = [client[k] EXCEPT !.state = st]]
  BY DEF Becomes
<1>3. [client[k] EXCEPT !.state = st].state = st /\ [client[k] EXCEPT !.state = st].server = client[k].server
  BY DEF Client
<1> QED
  BY <1>1, <1>2, <1>3

LEMMA ClientMade ==
  ASSUME client \in [Clients -> {Unused} \cup Client], NEW k \in Clients, NEW s \in Servers, Made(k, s)
  PROVE  /\ client[k] = Unused /\ client' \in [Clients -> {Unused} \cup Client]
         /\ client'[k] \in Client /\ client'[k].state = "opening" /\ client'[k].server = s
         /\ \A j \in Clients : j # k => client'[j] = client[j]
<1>1. [state |-> "opening", server |-> s] \in Client
  BY DEF Client
<1> QED
  BY <1>1 DEF Made

LEMMA ClientIsUsed == \A k \in Client : k # Unused /\ k.state \in {"opening", "open", "closed"}
BY DEF Client, Unused

\* What an action does to the operation it is of, the others resting.
Others(o) == \A p \in PoolCalls \ {o} : operation'[p] = operation[p]

LEMMA OperationBecomes ==
  ASSUME operation \in [PoolCalls -> {NoOperation} \cup Operation], NEW o \in PoolCalls,
         NEW x \in {NoOperation} \cup Operation, operation' = [operation EXCEPT ![o] = x]
  PROVE  /\ operation' \in [PoolCalls -> {NoOperation} \cup Operation]
         /\ operation'[o] = x /\ Others(o)
BY DEF Others

LEMMA EntryBecomes ==
  ASSUME entry \in [Servers -> Clients \cup {NoClient}], NEW s \in Servers,
         NEW k \in Clients \cup {NoClient}, entry' = [entry EXCEPT ![s] = k]
  PROVE  /\ entry' \in [Servers -> Clients \cup {NoClient}] /\ entry'[s] = k
         /\ \A t \in Servers \ {s} : entry'[t] = entry[t]
         /\ Connected' = IF k = NoClient THEN Connected \ {s} ELSE Connected \cup {s}
BY DEF Connected

\* Openings are each one's own as long as none begins.
LEMMA OpeningsStay ==
  ASSUME OpeningsAreOwn, NEW o \in PoolCalls, Others(o), operation'[o].pc \notin Opening,
         \A p \in PoolCalls \ {o} : operation[p].pc = "connecting" => operation[p].server \in pending'
  PROVE  OpeningsAreOwn'
<1>1. \A p \in PoolCalls \ {o} : operation'[p] = operation[p]
  BY DEF Others
<1>2. operation'[o].pc # "connecting" /\ operation'[o].pc # "reconnecting"
  BY DEF Opening
<1> QED
  BY <1>1, <1>2 DEF OpeningsAreOwn, Opening

\* Nobody else has the client that an operation opens.
LEMMA OpeningIsAlone ==
  ASSUME PoolInv, NEW o \in PoolCalls, operation[o].pc \in Opening
  PROVE  /\ \A p \in PoolCalls \ {o} : operation[p].pc \in Serving => operation[p].client # operation[o].client
         /\ \A t \in Connected : entry[t] # operation[o].client
<1>1. operation[o].pc \in Serving /\ client[operation[o].client].state = "opening"
  BY PoolNow DEF Opening, Serving
<1>2. ASSUME NEW p \in PoolCalls \ {o}, operation[p].pc \in Serving
      PROVE  operation[p].client # operation[o].client
  <2>1. CASE operation[p].pc \in Opening
    BY <2>1 DEF PoolInv, OpeningsAreOwn
  <2>2. CASE operation[p].pc \notin Opening
    <3>1. client[operation[p].client].state # "opening"
      BY <1>2, <2>2, PoolNow
    <3> QED
      BY <1>1, <3>1
  <2> QED
    BY <2>1, <2>2
<1>3. \A t \in Connected : entry[t] # operation[o].client
  BY <1>1, PoolNow
<1> QED
  BY <1>2, <1>3

\* A new client is nobody's.
LEMMA NewIsAlone ==
  ASSUME PoolInv, NEW k \in Clients, client[k] = Unused
  PROVE  /\ \A p \in PoolCalls : operation[p].pc \in Serving => operation[p].client # k
         /\ \A t \in Connected : entry[t] # k
BY PoolNow, ClientIsUsed

\* The parts of the invariant, each by what an action of o has to see to.
LEMMA TypesStay ==
  ASSUME entry' \in [Servers -> Clients \cup {NoClient}],
         client' \in [Clients -> {Unused} \cup Client],
         operation' \in [PoolCalls -> {NoOperation} \cup Operation],
         pending' \subseteq Servers, contested' \subseteq Servers,
         \A t \in Connected' : /\ client'[entry'[t]] \in Client /\ client'[entry'[t]].server = t
                               /\ client'[entry'[t]].state \in {"open", "closed"}
  PROVE  PoolTypeOK'
<1>1. ASSUME NEW t \in Connected' PROVE client'[entry'[t]] \in [state: {"open", "closed"}, server: {t}]
  <2>1. PICK c \in Client : c = client'[entry'[t]]
    OBVIOUS
  <2>2. c.server = t /\ c.state \in {"open", "closed"}
    BY <2>1
  <2>3. c \in [state: {"open", "closed"}, server: {t}]
    BY <2>2 DEF Client
  <2> QED
    BY <2>1, <2>3
<1> QED
  BY <1>1 DEF PoolTypeOK

LEMMA ClientsStay ==
  ASSUME PoolInv, NEW o \in PoolCalls, Others(o),
         \A p \in PoolCalls \ {o} : operation[p].pc \in Serving =>
           LET j == operation[p].client
           IN  \/ client'[j] = client[j]
               \/ /\ operation[p].pc \notin Opening /\ client'[j] \in Client
                  /\ client'[j].server = client[j].server /\ client'[j].state # "opening",
         operation'[o].pc \in Serving =>
           LET j == operation'[o].client
           IN  /\ client'[j] \in Client /\ client'[j].server = operation'[o].server
               /\ client'[j].state = "opening" <=> operation'[o].pc \in Opening
  PROVE  ClientsFit'
<1>1. ASSUME NEW p \in PoolCalls, operation'[p].pc \in Serving
      PROVE  LET j == client'[operation'[p].client]
             IN  /\ j # Unused /\ j.server = operation'[p].server
                 /\ j.state = "opening" <=> operation'[p].pc \in Opening
  <2>1. CASE p = o
    BY <1>1, <2>1, ClientIsUsed
  <2>2. CASE p # o
    <3>1. operation'[p] = operation[p]
      BY <2>2 DEF Others
    <3>2. /\ client[operation[p].client] \in Client
          /\ client[operation[p].client].server = operation[p].server
          /\ client[operation[p].client].state = "opening" <=> operation[p].pc \in Opening
      BY <1>1, <3>1, PoolNow
    <3> QED
      BY <1>1, <2>2, <3>1, <3>2, ClientIsUsed
  <2> QED
    BY <2>1, <2>2
<1> QED
  BY <1>1 DEF ClientsFit

LEMMA EntriesStay ==
  ASSUME PoolInv, NEW o \in PoolCalls, Others(o), contested \subseteq contested',
         Connected' \cap pending' \subseteq contested',
         operation'[o].pc \in Renewed => operation'[o].server \in contested',
         \A j \in Clients : client[j].state = "closed" => client'[j].state = "closed",
         \A p \in PoolCalls \ {o} : operation[p].pc = "closing" /\ operation[p].server \notin contested' =>
           /\ entry'[operation[p].server] = entry[operation[p].server]
           /\ ~(operation'[o].pc = "closing" /\ operation'[o].server = operation[p].server),
         \A p \in PoolCalls \ {o} : operation[p].pc = "calling" /\ operation[p].server \notin contested' =>
           \/ entry'[operation[p].server] = entry[operation[p].server]
           \/ client'[operation[p].client].state = "closed",
         operation'[o].pc = "closing" /\ operation'[o].server \notin contested' =>
           /\ entry'[operation'[o].server] = operation'[o].client
           /\ \A p \in PoolCalls \ {o} :
                ~(operation[p].pc = "closing" /\ operation[p].server = operation'[o].server),
         operation'[o].pc = "calling" /\ operation'[o].server \notin contested' =>
           entry'[operation'[o].server] = operation'[o].client
  PROVE  EntriesFit'
<1>1. \A p \in PoolCalls \ {o} : operation'[p] = operation[p]
  BY DEF Others
<1>2. \A p \in PoolCalls : operation'[p].pc \in Renewed => operation'[p].server \in contested'
  BY <1>1 DEF PoolInv, EntriesFit
<1>3. ASSUME NEW p \in PoolCalls, operation'[p].pc = "closing", operation'[p].server \notin contested'
      PROVE  /\ entry'[operation'[p].server] = operation'[p].client
             /\ \A q \in PoolCalls \ {p} :
                  ~(operation'[q].pc = "closing" /\ operation'[q].server = operation'[p].server)
  <2>1. CASE p = o
    BY <1>1, <1>3, <2>1
  <2>2. CASE p # o
    <3>1. operation'[p] = operation[p]
      BY <1>1, <2>2
    <3>2. /\ entry[operation[p].server] = operation[p].client
          /\ \A q \in PoolCalls \ {p} :
               ~(operation[q].pc = "closing" /\ operation[q].server = operation[p].server)
      BY <1>3, <3>1 DEF PoolInv, EntriesFit
    <3> QED
      BY <1>1, <1>3, <2>2, <3>1, <3>2
  <2> QED
    BY <2>1, <2>2
<1>4. ASSUME NEW p \in PoolCalls, operation'[p].pc = "calling", operation'[p].server \notin contested'
      PROVE  \/ entry'[operation'[p].server] = operation'[p].client
             \/ client'[operation'[p].client].state = "closed"
  <2>1. CASE p = o
    BY <1>4, <2>1
  <2>2. CASE p # o
    <3>1. operation'[p] = operation[p]
      BY <1>1, <2>2
    <3>2. \/ entry[operation[p].server] = operation[p].client
          \/ client[operation[p].client].state = "closed"
      BY <1>4, <3>1 DEF PoolInv, EntriesFit
    <3>3. operation[p].client \in Clients
      BY <1>4, <3>1, PoolNow DEF Serving
    <3> QED
      BY <1>4, <2>2, <3>1, <3>2, <3>3
  <2> QED
    BY <2>1, <2>2
<1> QED
  BY <1>2, <1>3, <1>4 DEF EntriesFit

LEMMA LeaksStay ==
  ASSUME PoolInv, NEW o \in PoolCalls, Others(o), contested \subseteq contested',
         \A j \in Clients : client'[j].state = "open" =>
           \/ client[j].state = "open" /\ client'[j].server = client[j].server
           \/ Held(j)' \/ client'[j].server \in contested',
         \A t \in Connected : \/ entry'[t] = entry[t] \/ client'[entry[t]].state # "open"
                              \/ client'[entry[t]].server \in contested',
         \A j \in Clients : operation[o].pc \in Serving /\ operation[o].client = j =>
           client'[j].state # "open" \/ Held(j)' \/ client'[j].server \in contested'
  PROVE  LeaksAreContested'
<1> SUFFICES ASSUME NEW j \in Clients, client'[j].state = "open", ~Held(j)'
             PROVE  client'[j].server \in contested'
  BY DEF LeaksAreContested
<1> SUFFICES ASSUME client'[j].server \notin contested' PROVE FALSE
  OBVIOUS
<1>1. client[j].state = "open" /\ client'[j].server = client[j].server
  OBVIOUS
<1>2. Held(j)
  BY <1>1 DEF PoolInv, LeaksAreContested
<1>3. CASE \E t \in Servers : entry[t] = j
  <2>1. PICK t \in Servers : entry[t] = j
    BY <1>3
  <2>2. t \in Connected
    BY <2>1, PoolAssumption DEF Connected
  <2>3. entry'[t] = j
    BY <2>1, <2>2
  <2> QED
    BY <2>3 DEF Held
<1>4. CASE \E p \in PoolCalls : /\ operation[p] # NoOperation /\ operation[p].pc # "reconnected"
                                /\ operation[p].client = j
  <2>1. PICK p \in PoolCalls : /\ operation[p] # NoOperation /\ operation[p].pc # "reconnected"
                               /\ operation[p].client = j
    BY <1>4
  <2>2. operation[p].pc \in Serving
    BY <2>1, PoolNow DEF Serving
  <2>3. p # o
    BY <2>1, <2>2
  <2>4. operation'[p] = operation[p]
    BY <2>3 DEF Others
  <2> QED
    BY <2>1, <2>4 DEF Held
<1> QED
  BY <1>2, <1>3, <1>4 DEF Held

LEMMA ClosedStay ==
  ASSUME PoolInv, NEW o \in PoolCalls, Others(o),
         \A t \in Connected' : client'[entry'[t]].state = "closed" =>
           t \in Connected /\ client[entry[t]].state = "closed",
         operation[o].pc = "closing" => operation[o].server \notin Connected'
  PROVE  ClosedLeaves'
<1> SUFFICES ASSUME NEW t \in Connected', client'[entry'[t]].state = "closed"
             PROVE  \E p \in PoolCalls : Doing(p, "closing")' /\ operation'[p].server = t
  BY DEF ClosedLeaves
<1>1. PICK p \in PoolCalls : Doing(p, "closing") /\ operation[p].server = t
  BY DEF PoolInv, ClosedLeaves
<1>2. p # o
  BY <1>1 DEF Doing
<1>3. operation'[p] = operation[p]
  BY <1>2 DEF Others
<1> QED
  BY <1>1, <1>3 DEF Doing

\* A connection is opened, or is not.
LEMMA OpenedSteps ==
  ASSUME PoolInv, NEW o \in PoolCalls, Opened(o)
  PROVE  PoolInv'
<1>1. PICK s \in Servers, k \in Clients :
        /\ operation[o].pc = "connecting" /\ s = operation[o].server /\ k = operation[o].client
        /\ s \in pending /\ client[k] \in Client /\ client[k].server = s /\ client[k].state = "opening"
  BY PoolNow DEF Opened, Doing, PoolInv, OpeningsAreOwn, Serving, Opening
<1>2. /\ Becomes(k, "open") /\ entry' = [entry EXCEPT ![s] = k] /\ pending' = pending \ {s}
      /\ operation' = [operation EXCEPT ![o] = NoOperation] /\ contested' = contested
  BY <1>1 DEF Opened, Done
<1>3. /\ client' \in [Clients -> {Unused} \cup Client] /\ client'[k] \in Client
      /\ client'[k].state = "open" /\ client'[k].server = s
      /\ \A j \in Clients : j # k => client'[j] = client[j]
  BY <1>1, <1>2, PoolNow, ClientBecomes
<1>4. /\ entry' \in [Servers -> Clients \cup {NoClient}] /\ entry'[s] = k
      /\ \A t \in Servers \ {s} : entry'[t] = entry[t]
      /\ Connected' = Connected \cup {s}
  <2>1. k \in Clients \cup {NoClient} /\ k # NoClient /\ entry' = [entry EXCEPT ![s] = k]
    BY <1>1, <1>2, PoolAssumption
  <2>2. entry \in [Servers -> Clients \cup {NoClient}]
    BY PoolNow
  <2> QED
    BY <2>1, <2>2, EntryBecomes
<1>5. /\ operation' \in [PoolCalls -> {NoOperation} \cup Operation]
      /\ operation'[o] = NoOperation /\ operation'[o].pc = "none" /\ Others(o)
  BY <1>2, PoolNow, OperationBecomes, OperationTypes
<1>6. /\ \A p \in PoolCalls \ {o} : operation[p].pc \in Serving => operation[p].client # k
      /\ \A t \in Connected : entry[t] # k
  BY <1>1, OpeningIsAlone DEF Opening
<1>7. pending \subseteq Servers /\ contested \subseteq Servers
      /\ Connected \cap pending \subseteq contested
  BY DEF PoolInv, PoolTypeOK, EntriesFit
<1>8. PoolTypeOK'
  <2>1. \A t \in Connected' : /\ client'[entry'[t]] \in Client /\ client'[entry'[t]].server = t
                              /\ client'[entry'[t]].state \in {"open", "closed"}
    BY <1>3, <1>4, <1>6, PoolNow
  <2> QED
    BY <1>2, <1>3, <1>4, <1>5, <1>7, <2>1, TypesStay
<1>9. OpeningsAreOwn'
  <2>1. \A p \in PoolCalls \ {o} : operation[p].pc = "connecting" => operation[p].server \in pending'
    BY <1>1, <1>2 DEF PoolInv, OpeningsAreOwn
  <2> QED
    BY <1>5, <2>1, OpeningsStay DEF Opening, PoolInv
<1>10. ClientsFit'
  <2>1. \A p \in PoolCalls \ {o} : operation[p].pc \in Serving =>
          client'[operation[p].client] = client[operation[p].client]
    BY <1>3, <1>6, PoolNow
  <2> QED
    BY <1>5, <2>1, ClientsStay DEF Serving
<1>11. EntriesFit'
  <2>1. Connected' \cap pending' \subseteq contested'
    BY <1>2, <1>4, <1>7
  <2>2. \A j \in Clients : client[j].state = "closed" => client'[j].state = "closed"
    BY <1>1, <1>3
  <2>3. ASSUME NEW p \in PoolCalls \ {o}, operation[p].pc = "closing", operation[p].server \notin contested'
        PROVE  entry'[operation[p].server] = entry[operation[p].server]
    <3>1. entry[operation[p].server] = operation[p].client
      BY <1>2, <2>3 DEF PoolInv, EntriesFit
    <3>2. operation[p].server \in Connected
      BY <2>3, <3>1, PoolNow, PoolAssumption DEF Connected, Serving
    <3> QED
      BY <1>1, <1>2, <1>4, <1>7, <2>3, <3>2, PoolNow
  <2>4. ASSUME NEW p \in PoolCalls \ {o}, operation[p].pc = "calling", operation[p].server \notin contested'
        PROVE  \/ entry'[operation[p].server] = entry[operation[p].server]
               \/ client'[operation[p].client].state = "closed"
    <3>1. operation[p].server \in Servers /\ operation[p].client \in Clients
      BY <2>4, PoolNow DEF Serving
    <3>2. CASE entry[operation[p].server] = operation[p].client
      <4>1. operation[p].server \in Connected
        BY <3>1, <3>2, PoolAssumption DEF Connected
      <4> QED
        BY <1>1, <1>2, <1>4, <1>7, <2>4, <3>1, <4>1
    <3>3. CASE client[operation[p].client].state = "closed"
      BY <2>2, <3>1, <3>3
    <3> QED
      BY <1>2, <2>4, <3>2, <3>3 DEF PoolInv, EntriesFit
  <2> QED
    BY <1>2, <1>5, <2>1, <2>2, <2>3, <2>4, EntriesStay DEF Renewed
<1>12. PoolFits'
  <2>1. Connected' \ contested' \subseteq (Connected \ contested) \cup {s}
    BY <1>2, <1>4
  <2> QED
    BY <1>1, <1>2, <2>1, FitsWithOpened DEF PoolInv
<1>13. LeaksAreContested'
  <2>1. Held(k)'
    BY <1>4 DEF Held
  <2>2. ASSUME NEW t \in Connected
        PROVE  entry'[t] = entry[t] \/ client'[entry[t]].server \in contested'
    BY <1>1, <1>2, <1>3, <1>4, <1>6, <1>7, PoolNow
  <2>3. \A j \in Clients : client'[j].state = "open" =>
          (client[j].state = "open" /\ client'[j].server = client[j].server) \/ Held(j)'
    BY <1>3, <2>1
  <2> QED
    BY <1>1, <1>2, <1>5, <2>1, <2>2, <2>3, LeaksStay
<1>14. ClosedLeaves'
  <2>1. \A t \in Connected' : client'[entry'[t]].state = "closed" =>
          t \in Connected /\ client[entry[t]].state = "closed"
    BY <1>3, <1>4, <1>6, PoolNow
  <2> QED
    BY <1>1, <1>5, <2>1, ClosedStay
<1> QED
  BY <1>8, <1>9, <1>10, <1>11, <1>12, <1>13, <1>14 DEF PoolInv

LEMMA NotOpenedSteps ==
  ASSUME PoolInv, NEW o \in PoolCalls, NotOpened(o)
  PROVE  PoolInv'
<1>1. PICK s \in Servers, k \in Clients :
        /\ operation[o].pc = "connecting" /\ s = operation[o].server /\ k = operation[o].client
        /\ s \in pending /\ client[k] \in Client /\ client[k].server = s /\ client[k].state = "opening"
  BY PoolNow DEF NotOpened, Doing, PoolInv, OpeningsAreOwn, Serving, Opening
<1>2. /\ Becomes(k, "closed") /\ entry' = entry /\ pending' = pending \ {s}
      /\ operation' = [operation EXCEPT ![o] = NoOperation] /\ contested' = contested
      /\ Connected' = Connected
  BY <1>1 DEF NotOpened, Done, Connected
<1>3. /\ client' \in [Clients -> {Unused} \cup Client] /\ client'[k] \in Client
      /\ client'[k].state = "closed" /\ client'[k].server = s
      /\ \A j \in Clients : j # k => client'[j] = client[j]
  BY <1>1, <1>2, PoolNow, ClientBecomes
<1>5. /\ operation' \in [PoolCalls -> {NoOperation} \cup Operation]
      /\ operation'[o] = NoOperation /\ operation'[o].pc = "none" /\ Others(o)
  BY <1>2, PoolNow, OperationBecomes, OperationTypes
<1>6. /\ \A p \in PoolCalls \ {o} : operation[p].pc \in Serving => operation[p].client # k
      /\ \A t \in Connected : entry[t] # k
  BY <1>1, OpeningIsAlone DEF Opening
<1>7. pending \subseteq Servers /\ contested \subseteq Servers
      /\ Connected \cap pending \subseteq contested
  BY DEF PoolInv, PoolTypeOK, EntriesFit
<1>8. PoolTypeOK'
  <2>1. \A t \in Connected' : /\ client'[entry'[t]] \in Client /\ client'[entry'[t]].server = t
                              /\ client'[entry'[t]].state \in {"open", "closed"}
    BY <1>2, <1>3, <1>6, PoolNow
  <2> QED
    BY <1>2, <1>3, <1>5, <1>7, <2>1, PoolNow, TypesStay
<1>9. OpeningsAreOwn'
  <2>1. \A p \in PoolCalls \ {o} : operation[p].pc = "connecting" => operation[p].server \in pending'
    BY <1>1, <1>2 DEF PoolInv, OpeningsAreOwn
  <2> QED
    BY <1>5, <2>1, OpeningsStay DEF Opening, PoolInv
<1>10. ClientsFit'
  <2>1. \A p \in PoolCalls \ {o} : operation[p].pc \in Serving =>
          client'[operation[p].client] = client[operation[p].client]
    BY <1>3, <1>6, PoolNow
  <2> QED
    BY <1>5, <2>1, ClientsStay DEF Serving
<1>11. EntriesFit'
  <2>1. Connected' \cap pending' \subseteq contested'
    BY <1>2, <1>7
  <2>2. \A j \in Clients : client[j].state = "closed" => client'[j].state = "closed"
    BY <1>1, <1>3
  <2> QED
    BY <1>2, <1>5, <2>1, <2>2, EntriesStay DEF Renewed
<1>12. PoolFits'
  BY <1>2, FitsWithLess DEF PoolInv
<1>13. LeaksAreContested'
  <2>1. \A j \in Clients : client'[j].state = "open" =>
          client[j].state = "open" /\ client'[j].server = client[j].server
    BY <1>3
  <2> QED
    BY <1>1, <1>2, <1>3, <1>5, <2>1, LeaksStay
<1>14. ClosedLeaves'
  <2>1. \A t \in Connected' : client'[entry'[t]].state = "closed" =>
          t \in Connected /\ client[entry[t]].state = "closed"
    BY <1>2, <1>3, <1>6, PoolNow
  <2> QED
    BY <1>1, <1>5, <2>1, ClosedStay
<1> QED
  BY <1>8, <1>9, <1>10, <1>11, <1>12, <1>13, <1>14 DEF PoolInv

\* A connection is begun, by connect or anew by reconnect.
LEMMA ConnectSteps ==
  ASSUME PoolInv, NEW o \in PoolCalls, NEW s \in Servers, NEW k \in Clients, connect(o, s, k)
  PROVE  PoolInv'
<1> DEFINE x == [pc |-> "connecting", server |-> s, client |-> k]
<1>1. /\ operation[o] = NoOperation /\ operation[o].pc = "none" /\ s \notin Connected /\ s \notin pending
      /\ Made(k, s) /\ entry' = entry /\ pending' = pending \cup {s} /\ contested' = contested
      /\ operation' = [operation EXCEPT ![o] = x] /\ Connected' = Connected
      /\ Cardinality(Connected) + Cardinality(pending) < MaxConnections
  BY OperationTypes DEF connect, Start, Connected
<1>2. x \in Operation /\ x.pc = "connecting" /\ x.server = s /\ x.client = k
  BY OperationTypes DEF Serving
<1> HIDE DEF x
<1>3. /\ client[k] = Unused /\ client' \in [Clients -> {Unused} \cup Client]
      /\ client'[k] \in Client /\ client'[k].state = "opening" /\ client'[k].server = s
      /\ \A j \in Clients : j # k => client'[j] = client[j]
  BY <1>1, PoolNow, ClientMade
<1>5. operation' \in [PoolCalls -> {NoOperation} \cup Operation] /\ operation'[o] = x /\ Others(o)
  BY <1>1, <1>2, PoolNow, OperationBecomes
<1>6. /\ \A p \in PoolCalls : operation[p].pc \in Serving => operation[p].client # k
      /\ \A t \in Connected : entry[t] # k
  BY <1>3, NewIsAlone
<1>7. pending \subseteq Servers /\ contested \subseteq Servers
      /\ Connected \cap pending \subseteq contested
  BY DEF PoolInv, PoolTypeOK, EntriesFit
<1>8. PoolTypeOK'
  <2>1. \A t \in Connected' : /\ client'[entry'[t]] \in Client /\ client'[entry'[t]].server = t
                              /\ client'[entry'[t]].state \in {"open", "closed"}
    BY <1>1, <1>3, <1>6, PoolNow
  <2> QED
    BY <1>1, <1>3, <1>5, <1>7, <2>1, PoolNow, TypesStay
<1>9. OpeningsAreOwn'
  <2>1. /\ \A p \in PoolCalls : operation[p].pc = "connecting" =>
             operation[p].server \in pending /\ operation[p].server # s
        /\ \A p \in PoolCalls : operation[p].pc \in Opening => operation[p].client # k
    BY <1>1, <1>6 DEF PoolInv, OpeningsAreOwn, Opening, Serving
  <2>2. \A p \in PoolCalls \ {o} : operation'[p] = operation[p]
    BY <1>5 DEF Others
  <2>3. \A p \in PoolCalls : operation'[p].pc = "connecting" => operation'[p].server \in pending'
    BY <1>1, <1>2, <1>5, <2>1, <2>2
  <2>4. ASSUME NEW p \in PoolCalls, NEW q \in PoolCalls, p # q
        PROVE  /\ operation'[p].pc = "connecting" /\ operation'[q].pc = "connecting"
                    => operation'[p].server # operation'[q].server
               /\ operation'[p].pc \in Opening /\ operation'[q].pc \in Opening
                    => operation'[p].client # operation'[q].client
    <3>1. CASE p = o
      BY <1>2, <1>5, <2>1, <2>2, <2>4, <3>1
    <3>2. CASE q = o
      BY <1>2, <1>5, <2>1, <2>2, <2>4, <3>2
    <3>3. CASE p # o /\ q # o
      BY <2>2, <2>4, <3>3 DEF PoolInv, OpeningsAreOwn
    <3> QED
      BY <3>1, <3>2, <3>3
  <2> QED
    BY <2>3, <2>4 DEF OpeningsAreOwn
<1>10. ClientsFit'
  <2>1. \A p \in PoolCalls \ {o} : operation[p].pc \in Serving =>
          client'[operation[p].client] = client[operation[p].client]
    BY <1>3, <1>6, PoolNow
  <2> QED
    BY <1>2, <1>3, <1>5, <2>1, ClientsStay DEF Opening
<1>11. EntriesFit'
  <2>1. Connected' \cap pending' \subseteq contested'
    BY <1>1, <1>7
  <2>2. \A j \in Clients : client[j].state = "closed" => client'[j].state = "closed"
    BY <1>3 DEF Unused
  <2>3. contested \subseteq contested' /\ \A t \in Servers : entry'[t] = entry[t]
    BY <1>1
  <2>4. /\ operation'[o].pc \notin Renewed /\ operation'[o].pc # "closing" /\ operation'[o].pc # "calling"
    BY <1>2, <1>5 DEF Renewed
  <2> QED
    BY <1>1, <1>5, <2>1, <2>2, <2>3, <2>4, EntriesStay
<1>12. PoolFits'
  BY <1>1, FitsWithPending DEF PoolInv
<1>13. LeaksAreContested'
  <2>1. \A j \in Clients : client'[j].state = "open" =>
          client[j].state = "open" /\ client'[j].server = client[j].server
    BY <1>3
  <2> QED
    BY <1>1, <1>5, <2>1, LeaksStay DEF Serving
<1>14. ClosedLeaves'
  <2>1. \A t \in Connected' : client'[entry'[t]].state = "closed" =>
          t \in Connected /\ client[entry[t]].state = "closed"
    BY <1>1, <1>3, <1>6, PoolNow
  <2> QED
    BY <1>1, <1>5, <2>1, ClosedStay
<1> QED
  BY <1>8, <1>9, <1>10, <1>11, <1>12, <1>13, <1>14 DEF PoolInv

\* An action that moves nothing but the operation it is of, and what is contested: it takes
\* the entry there is, and lets go only of a client that is closed, in the pool or contested.
LEMMA RestingSteps ==
  ASSUME PoolInv, NEW o \in PoolCalls, NEW x \in {NoOperation} \cup Operation,
         operation' = [operation EXCEPT ![o] = x],
         entry' = entry, pending' = pending, client' = client,
         contested \subseteq contested', contested' \subseteq Servers,
         x.pc \notin Opening,
         x.pc \in Serving => x.server \in Connected /\ x.client = entry[x.server],
         x.pc \in Renewed => x.server \in contested,
         x.pc = "closing" /\ x.server \notin contested' =>
           \A p \in PoolCalls : ~(operation[p].pc = "closing" /\ operation[p].server = x.server),
         operation[o].pc # "closing",
         operation[o].pc \in Serving =>
           \/ client[operation[o].client].state # "open" \/ operation[o].server \in contested
           \/ entry[operation[o].server] = operation[o].client
  PROVE  PoolInv'
<1>1. operation' \in [PoolCalls -> {NoOperation} \cup Operation] /\ operation'[o] = x /\ Others(o)
  BY PoolNow, OperationBecomes
<1>2. Connected' = Connected
  BY DEF Connected
<1>3. pending \subseteq Servers /\ Connected \cap pending \subseteq contested
  BY DEF PoolInv, PoolTypeOK, EntriesFit
<1>4. PoolTypeOK'
  <2>1. \A t \in Connected' : /\ client'[entry'[t]] \in Client /\ client'[entry'[t]].server = t
                              /\ client'[entry'[t]].state \in {"open", "closed"}
    BY <1>2, PoolNow
  <2> QED
    BY <1>1, <1>3, <2>1, PoolNow, TypesStay
<1>5. OpeningsAreOwn'
  <2>1. \A p \in PoolCalls \ {o} : operation[p].pc = "connecting" => operation[p].server \in pending'
    BY DEF PoolInv, OpeningsAreOwn
  <2> QED
    BY <1>1, <2>1, OpeningsStay DEF PoolInv
<1>6. ClientsFit'
  <2>1. \A p \in PoolCalls \ {o} : operation[p].pc \in Serving =>
          client'[operation[p].client] = client[operation[p].client]
    OBVIOUS
  <2>2. x.pc \in Serving => /\ client'[x.client] \in Client /\ client'[x.client].server = x.server
                            /\ client'[x.client].state # "opening"
    BY PoolNow
  <2> QED
    BY <1>1, <2>1, <2>2, ClientsStay
<1>7. EntriesFit'
  <2>1. Connected' \cap pending' \subseteq contested'
    BY <1>2, <1>3
  <2>2. x.pc \in {"closing", "calling"} => entry'[x.server] = x.client
    BY DEF Serving
  <2> QED
    BY <1>1, <2>1, <2>2, EntriesStay
<1>8. PoolFits'
  <2>1. Connected' \ contested' \subseteq Connected \ contested /\ pending' \subseteq pending
    BY <1>2
  <2> QED
    BY <2>1, FitsWithLess DEF PoolInv
<1>9. LeaksAreContested'
  <2>1. ASSUME NEW j \in Clients, operation[o].pc \in Serving, operation[o].client = j
        PROVE  client'[j].state # "open" \/ Held(j)' \/ client'[j].server \in contested'
    <3>1. client[j].server = operation[o].server /\ operation[o].server \in Servers
      BY <2>1, PoolNow
    <3>2. CASE entry[operation[o].server] = operation[o].client
      BY <2>1, <3>1, <3>2 DEF Held
    <3> QED
      BY <2>1, <3>1, <3>2
  <2> QED
    BY <1>1, <2>1, LeaksStay
<1>10. ClosedLeaves'
  <2>1. \A t \in Connected' : client'[entry'[t]].state = "closed" =>
          t \in Connected /\ client[entry[t]].state = "closed"
    BY <1>2
  <2> QED
    BY <1>1, <2>1, ClosedStay
<1> QED
  BY <1>4, <1>5, <1>6, <1>7, <1>8, <1>9, <1>10 DEF PoolInv

LEMMA DisconnectSteps ==
  ASSUME PoolInv, NEW o \in PoolCalls, NEW s \in Servers, disconnect(o, s)
  PROVE  PoolInv'
<1>1. PICK x \in Operation : /\ x = [pc |-> "closing", server |-> s, client |-> entry[s]]
                             /\ x.pc = "closing" /\ x.server = s /\ x.client = entry[s]
  <2>1. s \in Connected /\ entry[s] \in Clients /\ "closing" \in Serving
    BY PoolNow DEF disconnect, Serving
  <2> QED
    BY <2>1, ServingExists
<1>2. /\ operation[o].pc = "none" /\ s \in Connected /\ operation' = [operation EXCEPT ![o] = x]
      /\ entry' = entry /\ pending' = pending /\ client' = client
      /\ contested' = IF \E p \in PoolCalls : Doing(p, "closing") /\ operation[p].server = s
                      THEN contested \cup {s} ELSE contested
  BY <1>1, OperationTypes DEF disconnect, Start
<1>3. contested \subseteq contested' /\ contested' \subseteq Servers
  BY <1>2 DEF PoolInv, PoolTypeOK
<1>4. s \notin contested' => \A p \in PoolCalls : ~(operation[p].pc = "closing" /\ operation[p].server = s)
  <2>1. \A p \in PoolCalls : operation[p].pc = "closing" => Doing(p, "closing")
    BY PoolNow DEF Doing
  <2> QED
    BY <1>2, <2>1
<1>5. x.pc \notin Opening /\ x.pc \notin Renewed /\ operation[o].pc \notin Serving
  BY <1>1, <1>2 DEF Opening, Renewed, Serving
<1> QED
  BY <1>1, <1>2, <1>3, <1>4, <1>5, RestingSteps

LEMMA CallStarts ==
  ASSUME PoolInv, NEW o \in PoolCalls, NEW s \in Servers, callTool(o, s)
  PROVE  PoolInv'
<1>1. PICK x \in Operation : /\ x = [pc |-> "calling", server |-> s, client |-> entry[s]]
                             /\ x.pc = "calling" /\ x.server = s /\ x.client = entry[s]
  <2>1. s \in Connected /\ entry[s] \in Clients /\ "calling" \in Serving
    BY PoolNow DEF callTool, Serving
  <2> QED
    BY <2>1, ServingExists
<1>2. /\ operation[o].pc = "none" /\ s \in Connected /\ operation' = [operation EXCEPT ![o] = x]
      /\ entry' = entry /\ pending' = pending /\ client' = client /\ contested' = contested
  BY <1>1, OperationTypes DEF callTool, Start
<1>3. contested \subseteq Servers
  BY DEF PoolInv, PoolTypeOK
<1>5. x.pc \notin Opening /\ x.pc \notin Renewed /\ operation[o].pc \notin Serving
  BY <1>1, <1>2 DEF Opening, Renewed, Serving
<1> QED
  BY <1>1, <1>2, <1>3, <1>5, RestingSteps

LEMMA CallStops ==
  ASSUME PoolInv, NEW o \in PoolCalls, CallEnds(o)
  PROVE  PoolInv'
<1>1. /\ operation[o].pc = "calling" \/ operation[o].pc = "retrying"
      /\ operation' = [operation EXCEPT ![o] = NoOperation]
      /\ entry' = entry /\ pending' = pending /\ client' = client /\ contested' = contested
  BY DEF CallEnds, Done, Doing
<1>2. contested \subseteq Servers
  BY DEF PoolInv, PoolTypeOK
<1>3. \/ client[operation[o].client].state # "open" \/ operation[o].server \in contested
      \/ entry[operation[o].server] = operation[o].client
  BY <1>1 DEF PoolInv, EntriesFit, Renewed
<1>4. /\ NoOperation.pc \notin Opening /\ NoOperation.pc \notin Renewed /\ NoOperation.pc \notin Serving
      /\ NoOperation.pc # "closing"
  BY OperationTypes DEF Opening, Renewed, Serving
<1> QED
  BY <1>1, <1>2, <1>3, <1>4, RestingSteps

LEMMA RetrySteps ==
  ASSUME PoolInv, NEW o \in PoolCalls, Retry(o)
  PROVE  PoolInv'
<1>1. PICK s \in Servers : s = operation[o].server /\ s \in contested /\ operation[o].pc = "reconnected"
  BY PoolNow DEF Retry, Doing, PoolInv, EntriesFit, Renewed
<1>2. /\ entry' = entry /\ pending' = pending /\ client' = client /\ contested' = contested
      /\ contested \subseteq Servers /\ operation[o].pc \notin Serving /\ operation[o].pc # "closing"
  BY <1>1 DEF Retry, PoolInv, PoolTypeOK, Serving
<1>3. CASE s \in Connected
  <2>1. PICK x \in Operation : /\ x = [pc |-> "retrying", server |-> s, client |-> entry[s]]
                               /\ x.pc = "retrying" /\ x.server = s /\ x.client = entry[s]
    <3>1. entry[s] \in Clients /\ "retrying" \in Serving
      BY <1>3, PoolNow DEF Serving
    <3> QED
      BY <3>1, ServingExists
  <2>2. operation' = [operation EXCEPT ![o] = x]
    BY <1>1, <1>3, <2>1 DEF Retry, Start
  <2>3. x.pc \notin Opening /\ x.pc # "closing"
    BY <2>1 DEF Opening
  <2> QED
    BY <1>1, <1>2, <1>3, <2>1, <2>2, <2>3, RestingSteps
<1>4. CASE s \notin Connected
  <2>1. operation' = [operation EXCEPT ![o] = NoOperation]
    BY <1>1, <1>4 DEF Retry, Done
  <2>2. /\ NoOperation.pc \notin Opening /\ NoOperation.pc \notin Renewed /\ NoOperation.pc \notin Serving
        /\ NoOperation.pc # "closing"
    BY OperationTypes DEF Opening, Renewed, Serving
  <2> QED
    BY <1>2, <2>1, <2>2, RestingSteps
<1> QED
  BY <1>3, <1>4

\* A client is closed, and the entry of its server removed.
LEMMA DisconnectedSteps ==
  ASSUME PoolInv, NEW o \in PoolCalls, Disconnected(o)
  PROVE  PoolInv'
<1>1. PICK s \in Servers, k \in Clients :
        /\ operation[o].pc = "closing" /\ s = operation[o].server /\ k = operation[o].client
        /\ client[k] \in Client /\ client[k].server = s /\ client[k].state # "opening"
  BY PoolNow DEF Disconnected, Doing, Serving, Opening
<1>2. /\ Becomes(k, "closed") /\ entry' = [entry EXCEPT ![s] = NoClient] /\ pending' = pending
      /\ operation' = [operation EXCEPT ![o] = NoOperation] /\ contested' = contested
  BY <1>1 DEF Disconnected, Done
<1>3. /\ client' \in [Clients -> {Unused} \cup Client] /\ client'[k] \in Client
      /\ client'[k].state = "closed" /\ client'[k].server = s
      /\ \A j \in Clients : j # k => client'[j] = client[j]
  BY <1>1, <1>2, PoolNow, ClientBecomes
<1>4. /\ entry' \in [Servers -> Clients \cup {NoClient}] /\ entry'[s] = NoClient
      /\ \A t \in Servers \ {s} : entry'[t] = entry[t]
      /\ Connected' = Connected \ {s}
  BY <1>1, <1>2, PoolNow, EntryBecomes
<1>5. /\ operation' \in [PoolCalls -> {NoOperation} \cup Operation]
      /\ operation'[o] = NoOperation /\ operation'[o].pc = "none" /\ Others(o)
  BY <1>2, PoolNow, OperationBecomes, OperationTypes
<1>6. \A t \in Connected' : entry[t] # k
  BY <1>1, <1>4, PoolNow
<1>7. pending \subseteq Servers /\ contested \subseteq Servers
      /\ Connected \cap pending \subseteq contested
  BY DEF PoolInv, PoolTypeOK, EntriesFit
<1>8. s \notin contested =>
        /\ entry[s] = k
        /\ \A p \in PoolCalls \ {o} : ~(operation[p].pc = "closing" /\ operation[p].server = s)
  BY <1>1 DEF PoolInv, EntriesFit
<1>9. PoolTypeOK'
  <2>1. \A t \in Connected' : /\ client'[entry'[t]] \in Client /\ client'[entry'[t]].server = t
                              /\ client'[entry'[t]].state \in {"open", "closed"}
    BY <1>3, <1>4, <1>6, PoolNow
  <2> QED
    BY <1>2, <1>3, <1>4, <1>5, <1>7, <2>1, TypesStay
<1>10. OpeningsAreOwn'
  <2>1. \A p \in PoolCalls \ {o} : operation[p].pc = "connecting" => operation[p].server \in pending'
    BY <1>2 DEF PoolInv, OpeningsAreOwn
  <2> QED
    BY <1>5, <2>1, OpeningsStay DEF Opening, PoolInv
<1>11. ClientsFit'
  <2>1. ASSUME NEW p \in PoolCalls \ {o}, operation[p].pc \in Serving
        PROVE  \/ client'[operation[p].client] = client[operation[p].client]
               \/ /\ operation[p].pc \notin Opening /\ client'[operation[p].client] \in Client
                  /\ client'[operation[p].client].server = client[operation[p].client].server
                  /\ client'[operation[p].client].state # "opening"
    <3>1. CASE operation[p].client = k
      BY <1>1, <1>3, <2>1, <3>1, PoolNow
    <3>2. CASE operation[p].client # k
      BY <1>3, <2>1, <3>2, PoolNow
    <3> QED
      BY <3>1, <3>2
  <2> QED
    BY <1>5, <2>1, ClientsStay DEF Serving
<1>12. EntriesFit'
  <2>1. Connected' \cap pending' \subseteq contested'
    BY <1>2, <1>4, <1>7
  <2>2. \A j \in Clients : client[j].state = "closed" => client'[j].state = "closed"
    BY <1>3
  <2>3. \A p \in PoolCalls \ {o} : operation[p].pc = "closing" /\ operation[p].server \notin contested' =>
          entry'[operation[p].server] = entry[operation[p].server]
    BY <1>2, <1>4, <1>8, PoolNow DEF Serving
  <2>4. ASSUME NEW p \in PoolCalls \ {o}, operation[p].pc = "calling", operation[p].server \notin contested'
        PROVE  \/ entry'[operation[p].server] = entry[operation[p].server]
               \/ client'[operation[p].client].state = "closed"
    <3>1. operation[p].server \in Servers /\ operation[p].client \in Clients
      BY <2>4, PoolNow DEF Serving
    <3>2. \/ entry[operation[p].server] = operation[p].client
          \/ client[operation[p].client].state = "closed"
      BY <1>2, <2>4 DEF PoolInv, EntriesFit
    <3> QED
      BY <1>2, <1>3, <1>4, <1>8, <2>2, <2>4, <3>1, <3>2
  <2> QED
    BY <1>2, <1>5, <2>1, <2>2, <2>3, <2>4, EntriesStay DEF Renewed
<1>13. PoolFits'
  <2>1. Connected' \ contested' \subseteq Connected \ contested /\ pending' \subseteq pending
    BY <1>2, <1>4
  <2> QED
    BY <2>1, FitsWithLess DEF PoolInv
<1>14. LeaksAreContested'
  <2>1. \A j \in Clients : client'[j].state = "open" =>
          client[j].state = "open" /\ client'[j].server = client[j].server
    BY <1>3
  <2>2. ASSUME NEW t \in Connected
        PROVE  entry'[t] = entry[t] \/ client'[entry[t]].state # "open"
               \/ client'[entry[t]].server \in contested'
    <3>1. CASE t = s /\ s \in contested
      BY <1>2, <1>3, <3>1, PoolNow
    <3>2. CASE t = s /\ s \notin contested
      BY <1>3, <1>8, <3>2
    <3>3. CASE t # s
      BY <1>4, <3>3, PoolNow
    <3> QED
      BY <3>1, <3>2, <3>3
  <2> QED
    BY <1>1, <1>2, <1>3, <1>5, <2>1, <2>2, LeaksStay
<1>15. ClosedLeaves'
  <2>1. \A t \in Connected' : client'[entry'[t]].state = "closed" =>
          t \in Connected /\ client[entry[t]].state = "closed"
    BY <1>3, <1>4, <1>6, PoolNow
  <2> QED
    BY <1>1, <1>4, <1>5, <2>1, ClosedStay
<1> QED
  BY <1>9, <1>10, <1>11, <1>12, <1>13, <1>14, <1>15 DEF PoolInv

\* A reconnection begins: the entry goes, and a new client is made.
LEMMA ReconnectSteps ==
  ASSUME PoolInv, NEW o \in PoolCalls, NEW k \in Clients, reconnect(o, k)
  PROVE  PoolInv'
<1>1. PICK s \in Servers : s = operation[o].server /\ operation[o].pc = "calling"
  BY PoolNow DEF reconnect, Doing, Serving
<1>2. PICK x \in Operation : /\ x = [pc |-> "reconnecting", server |-> s, client |-> k]
                             /\ x.pc = "reconnecting" /\ x.server = s /\ x.client = k
  <2>1. "reconnecting" \in Serving
    BY DEF Serving
  <2> QED
    BY <2>1, ServingExists
<1>3. /\ Made(k, s) /\ entry' = [entry EXCEPT ![s] = NoClient] /\ pending' = pending
      /\ operation' = [operation EXCEPT ![o] = x] /\ contested' = contested \cup {s}
  BY <1>1, <1>2 DEF reconnect, Start
<1>4. /\ entry' \in [Servers -> Clients \cup {NoClient}] /\ entry'[s] = NoClient
      /\ \A t \in Servers \ {s} : entry'[t] = entry[t]
      /\ Connected' = Connected \ {s}
  BY <1>3, PoolNow, EntryBecomes
<1>5. operation' \in [PoolCalls -> {NoOperation} \cup Operation] /\ operation'[o] = x /\ Others(o)
  BY <1>3, PoolNow, OperationBecomes
<1>6. /\ client[k] = Unused /\ client' \in [Clients -> {Unused} \cup Client]
      /\ client'[k] \in Client /\ client'[k].state = "opening" /\ client'[k].server = s
      /\ \A j \in Clients : j # k => client'[j] = client[j]
  BY <1>3, PoolNow, ClientMade
<1>7. /\ \A p \in PoolCalls : operation[p].pc \in Serving => operation[p].client # k
      /\ \A t \in Connected : entry[t] # k
  BY <1>6, NewIsAlone
<1>8. pending \subseteq Servers /\ contested \subseteq Servers
      /\ Connected \cap pending \subseteq contested
  BY DEF PoolInv, PoolTypeOK, EntriesFit
<1>9. PoolTypeOK'
  <2>1. \A t \in Connected' : /\ client'[entry'[t]] \in Client /\ client'[entry'[t]].server = t
                              /\ client'[entry'[t]].state \in {"open", "closed"}
    BY <1>4, <1>6, <1>7, PoolNow
  <2> QED
    BY <1>3, <1>4, <1>5, <1>6, <1>8, <2>1, TypesStay
<1>10. OpeningsAreOwn'
  <2>1. /\ \A p \in PoolCalls : operation[p].pc = "connecting" => operation[p].server \in pending
        /\ \A p \in PoolCalls : operation[p].pc \in Opening => operation[p].client # k
    BY <1>7 DEF PoolInv, OpeningsAreOwn, Opening, Serving
  <2>2. \A p \in PoolCalls \ {o} : operation'[p] = operation[p]
    BY <1>5 DEF Others
  <2>3. \A p \in PoolCalls : operation'[p].pc = "connecting" => operation'[p].server \in pending'
    BY <1>2, <1>3, <1>5, <2>1, <2>2
  <2>4. ASSUME NEW p \in PoolCalls, NEW q \in PoolCalls, p # q
        PROVE  /\ operation'[p].pc = "connecting" /\ operation'[q].pc = "connecting"
                    => operation'[p].server # operation'[q].server
               /\ operation'[p].pc \in Opening /\ operation'[q].pc \in Opening
                    => operation'[p].client # operation'[q].client
    <3>1. CASE p = o
      BY <1>2, <1>5, <2>1, <2>2, <2>4, <3>1
    <3>2. CASE q = o
      BY <1>2, <1>5, <2>1, <2>2, <2>4, <3>2
    <3>3. CASE p # o /\ q # o
      BY <2>2, <2>4, <3>3 DEF PoolInv, OpeningsAreOwn
    <3> QED
      BY <3>1, <3>2, <3>3
  <2> QED
    BY <2>3, <2>4 DEF OpeningsAreOwn
<1>11. ClientsFit'
  <2>1. \A p \in PoolCalls \ {o} : operation[p].pc \in Serving =>
          client'[operation[p].client] = client[operation[p].client]
    BY <1>6, <1>7, PoolNow
  <2> QED
    BY <1>2, <1>5, <1>6, <2>1, ClientsStay DEF Opening
<1>12. EntriesFit'
  <2>1. Connected' \cap pending' \subseteq contested'
    BY <1>3, <1>4, <1>8
  <2>2. \A j \in Clients : client[j].state = "closed" => client'[j].state = "closed"
    BY <1>6 DEF Unused
  <2>3. \A p \in PoolCalls \ {o} : operation[p].pc \in {"closing", "calling"}
                                   /\ operation[p].server \notin contested' =>
          entry'[operation[p].server] = entry[operation[p].server]
    BY <1>3, <1>4, PoolNow DEF Serving
  <2>4. operation'[o].pc # "closing" /\ operation'[o].pc # "calling" /\ operation'[o].server \in contested'
    BY <1>2, <1>3, <1>5
  <2> QED
    BY <1>3, <1>5, <2>1, <2>2, <2>3, <2>4, EntriesStay
<1>13. PoolFits'
  <2>1. Connected' \ contested' \subseteq Connected \ contested /\ pending' \subseteq pending
    BY <1>3, <1>4
  <2> QED
    BY <2>1, FitsWithLess DEF PoolInv
<1>14. LeaksAreContested'
  <2>1. \A j \in Clients : client'[j].state = "open" =>
          client[j].state = "open" /\ client'[j].server = client[j].server
    BY <1>6
  <2>2. \A t \in Connected : entry'[t] = entry[t] \/ client'[entry[t]].server \in contested'
    BY <1>3, <1>4, <1>6, <1>7, PoolNow
  <2>3. operation[o].pc \in Serving => client'[operation[o].client].server \in contested'
    BY <1>1, <1>3, <1>6, <1>7, PoolNow
  <2> QED
    BY <1>3, <1>5, <2>1, <2>2, <2>3, LeaksStay
<1>15. ClosedLeaves'
  <2>1. \A t \in Connected' : client'[entry'[t]].state = "closed" =>
          t \in Connected /\ client[entry[t]].state = "closed"
    BY <1>4, <1>6, <1>7, PoolNow
  <2> QED
    BY <1>1, <1>5, <2>1, ClosedStay
<1> QED
  BY <1>9, <1>10, <1>11, <1>12, <1>13, <1>14, <1>15 DEF PoolInv

\* It ends well, ...
LEMMA ReconnectedSteps ==
  ASSUME PoolInv, NEW o \in PoolCalls, Reconnected(o)
  PROVE  PoolInv'
<1>1. PICK s \in Servers, k \in Clients :
        /\ operation[o].pc = "reconnecting" /\ s = operation[o].server /\ k = operation[o].client
        /\ client[k] \in Client /\ client[k].server = s /\ client[k].state = "opening" /\ s \in contested
  BY PoolNow DEF Reconnected, Doing, Serving, Opening, Renewed, PoolInv, EntriesFit
<1>2. PICK x \in Operation : /\ x = [pc |-> "reconnected", server |-> s]
                             /\ x.pc = "reconnected" /\ x.server = s
  <2>1. [pc |-> "reconnected", server |-> s] \in Operation
    BY OperationTypes
  <2> QED
    BY <2>1
<1>3. /\ Becomes(k, "open") /\ entry' = [entry EXCEPT ![s] = k] /\ pending' = pending
      /\ operation' = [operation EXCEPT ![o] = x] /\ contested' = contested
  BY <1>1, <1>2 DEF Reconnected
<1>4. /\ entry' \in [Servers -> Clients \cup {NoClient}] /\ entry'[s] = k
      /\ \A t \in Servers \ {s} : entry'[t] = entry[t]
      /\ Connected' = Connected \cup {s}
  <2>1. k \in Clients \cup {NoClient} /\ k # NoClient /\ entry' = [entry EXCEPT ![s] = k]
    BY <1>1, <1>3, PoolAssumption
  <2>2. entry \in [Servers -> Clients \cup {NoClient}]
    BY PoolNow
  <2> QED
    BY <2>1, <2>2, EntryBecomes
<1>5. operation' \in [PoolCalls -> {NoOperation} \cup Operation] /\ operation'[o] = x /\ Others(o)
  BY <1>3, PoolNow, OperationBecomes
<1>6. /\ client' \in [Clients -> {Unused} \cup Client] /\ client'[k] \in Client
      /\ client'[k].state = "open" /\ client'[k].server = s
      /\ \A j \in Clients : j # k => client'[j] = client[j]
  BY <1>1, <1>3, PoolNow, ClientBecomes
<1>7. /\ \A p \in PoolCalls \ {o} : operation[p].pc \in Serving => operation[p].client # k
      /\ \A t \in Connected : entry[t] # k
  BY <1>1, OpeningIsAlone DEF Opening
<1>8. pending \subseteq Servers /\ contested \subseteq Servers
      /\ Connected \cap pending \subseteq contested
  BY DEF PoolInv, PoolTypeOK, EntriesFit
<1>9. PoolTypeOK'
  <2>1. \A t \in Connected' : /\ client'[entry'[t]] \in Client /\ client'[entry'[t]].server = t
                              /\ client'[entry'[t]].state \in {"open", "closed"}
    BY <1>4, <1>6, <1>7, PoolNow
  <2> QED
    BY <1>3, <1>4, <1>5, <1>6, <1>8, <2>1, TypesStay
<1>10. OpeningsAreOwn'
  <2>1. \A p \in PoolCalls \ {o} : operation[p].pc = "connecting" => operation[p].server \in pending'
    BY <1>3 DEF PoolInv, OpeningsAreOwn
  <2> QED
    BY <1>2, <1>5, <2>1, OpeningsStay DEF Opening, PoolInv
<1>11. ClientsFit'
  <2>1. \A p \in PoolCalls \ {o} : operation[p].pc \in Serving =>
          client'[operation[p].client] = client[operation[p].client]
    BY <1>6, <1>7, PoolNow
  <2> QED
    BY <1>2, <1>5, <2>1, ClientsStay DEF Serving
<1>12. EntriesFit'
  <2>1. Connected' \cap pending' \subseteq contested'
    BY <1>1, <1>3, <1>4, <1>8
  <2>2. \A j \in Clients : client[j].state = "closed" => client'[j].state = "closed"
    BY <1>1, <1>6
  <2>3. \A p \in PoolCalls \ {o} : operation[p].pc \in {"closing", "calling"}
                                   /\ operation[p].server \notin contested' =>
          entry'[operation[p].server] = entry[operation[p].server]
    BY <1>1, <1>3, <1>4, PoolNow DEF Serving
  <2>4. operation'[o].pc # "closing" /\ operation'[o].pc # "calling" /\ operation'[o].server \in contested'
    BY <1>1, <1>2, <1>3, <1>5
  <2> QED
    BY <1>3, <1>5, <2>1, <2>2, <2>3, <2>4, EntriesStay
<1>13. PoolFits'
  <2>1. Connected' \ contested' \subseteq Connected \ contested /\ pending' \subseteq pending
    BY <1>1, <1>3, <1>4
  <2> QED
    BY <2>1, FitsWithLess DEF PoolInv
<1>14. LeaksAreContested'
  <2>1. \A j \in Clients : client'[j].state = "open" =>
          (client[j].state = "open" /\ client'[j].server = client[j].server) \/ client'[j].server \in contested'
    BY <1>1, <1>3, <1>6
  <2>2. \A t \in Connected : entry'[t] = entry[t] \/ client'[entry[t]].server \in contested'
    BY <1>1, <1>3, <1>4, <1>6, <1>7, PoolNow
  <2>3. client'[k].server \in contested'
    BY <1>1, <1>3, <1>6
  <2> QED
    BY <1>1, <1>3, <1>5, <2>1, <2>2, <2>3, LeaksStay
<1>15. ClosedLeaves'
  <2>1. \A t \in Connected' : client'[entry'[t]].state = "closed" =>
          t \in Connected /\ client[entry[t]].state = "closed"
    BY <1>4, <1>6, <1>7, PoolNow
  <2> QED
    BY <1>1, <1>5, <2>1, ClosedStay
<1> QED
  BY <1>9, <1>10, <1>11, <1>12, <1>13, <1>14, <1>15 DEF PoolInv

\* ... or it does not, or the second call fails: whatever entry there is goes.
LEMMA RetryFailsSteps ==
  ASSUME PoolInv, NEW o \in PoolCalls, RetryFails(o)
  PROVE  PoolInv'
<1>1. PICK s \in Servers, k \in Clients :
        /\ operation[o].pc \in {"reconnecting", "retrying"} /\ s = operation[o].server
        /\ k = operation[o].client /\ client[k] \in Client /\ client[k].server = s /\ s \in contested
        /\ client[k].state = "opening" <=> operation[o].pc = "reconnecting"
  BY PoolNow DEF RetryFails, Doing, Serving, Opening, Renewed, PoolInv, EntriesFit
<1>2. operation[o] # NoOperation
  BY <1>1, PoolNow
<1>3. /\ client' = IF operation[o].pc = "reconnecting" THEN [client EXCEPT ![k].state = "closed"] ELSE client
      /\ entry' = [entry EXCEPT ![s] = NoClient] /\ pending' = pending
      /\ operation' = [operation EXCEPT ![o] = NoOperation] /\ contested' = contested
  BY <1>1, <1>2 DEF RetryFails, Done, Doing
<1>4. /\ entry' \in [Servers -> Clients \cup {NoClient}] /\ entry'[s] = NoClient
      /\ \A t \in Servers \ {s} : entry'[t] = entry[t]
      /\ Connected' = Connected \ {s}
  BY <1>3, PoolNow, EntryBecomes
<1>5. /\ operation' \in [PoolCalls -> {NoOperation} \cup Operation]
      /\ operation'[o] = NoOperation /\ operation'[o].pc = "none" /\ Others(o)
  BY <1>3, PoolNow, OperationBecomes, OperationTypes
<1>6. /\ client' \in [Clients -> {Unused} \cup Client] /\ client'[k].server = s
      /\ \A j \in Clients : j # k => client'[j] = client[j]
      /\ client'[k] = client[k] \/ (client[k].state = "opening" /\ client'[k].state = "closed")
  <2>1. CASE operation[o].pc = "reconnecting"
    <3>1. Becomes(k, "closed")
      BY <1>3, <2>1 DEF Becomes
    <3>2. /\ client' \in [Clients -> {Unused} \cup Client]
          /\ client'[k].state = "closed" /\ client'[k].server = client[k].server
          /\ \A j \in Clients : j # k => client'[j] = client[j]
      BY <1>1, <3>1, PoolNow, ClientBecomes
    <3> QED
      BY <1>1, <2>1, <3>2
  <2>2. CASE operation[o].pc = "retrying"
    BY <1>1, <1>3, <2>2, PoolNow
  <2> QED
    BY <1>1, <2>1, <2>2
<1>7. /\ \A p \in PoolCalls \ {o} : operation[p].pc \in Serving =>
           client'[operation[p].client] = client[operation[p].client]
      /\ \A t \in Connected : client'[entry[t]] = client[entry[t]]
  <2>1. CASE operation[o].pc = "reconnecting"
    <3>1. /\ \A p \in PoolCalls \ {o} : operation[p].pc \in Serving => operation[p].client # k
          /\ \A t \in Connected : entry[t] # k
      BY <1>1, <2>1, OpeningIsAlone DEF Opening
    <3> QED
      BY <1>6, <3>1, PoolNow
  <2>2. CASE operation[o].pc = "retrying"
    BY <1>3, <2>2
  <2> QED
    BY <1>1, <2>1, <2>2
<1>8. pending \subseteq Servers /\ contested \subseteq Servers
      /\ Connected \cap pending \subseteq contested
  BY DEF PoolInv, PoolTypeOK, EntriesFit
<1>9. PoolTypeOK'
  <2>1. \A t \in Connected' : /\ client'[entry'[t]] \in Client /\ client'[entry'[t]].server = t
                              /\ client'[entry'[t]].state \in {"open", "closed"}
    BY <1>4, <1>7, PoolNow
  <2> QED
    BY <1>3, <1>4, <1>5, <1>6, <1>8, <2>1, TypesStay
<1>10. OpeningsAreOwn'
  <2>1. \A p \in PoolCalls \ {o} : operation[p].pc = "connecting" => operation[p].server \in pending'
    BY <1>3 DEF PoolInv, OpeningsAreOwn
  <2> QED
    BY <1>5, <2>1, OpeningsStay DEF Opening, PoolInv
<1>11. ClientsFit'
  BY <1>5, <1>7, ClientsStay DEF Serving
<1>12. EntriesFit'
  <2>1. Connected' \cap pending' \subseteq contested'
    BY <1>3, <1>4, <1>8
  <2>2. \A j \in Clients : client[j].state = "closed" => client'[j].state = "closed"
    BY <1>6
  <2>3. \A p \in PoolCalls \ {o} : operation[p].pc \in {"closing", "calling"}
                                   /\ operation[p].server \notin contested' =>
          entry'[operation[p].server] = entry[operation[p].server]
    BY <1>1, <1>3, <1>4, PoolNow DEF Serving
  <2> QED
    BY <1>3, <1>5, <2>1, <2>2, <2>3, EntriesStay DEF Renewed
<1>13. PoolFits'
  <2>1. Connected' \ contested' \subseteq Connected \ contested /\ pending' \subseteq pending
    BY <1>3, <1>4
  <2> QED
    BY <2>1, FitsWithLess DEF PoolInv
<1>14. LeaksAreContested'
  <2>1. \A j \in Clients : client'[j].state = "open" =>
          client[j].state = "open" /\ client'[j].server = client[j].server
    BY <1>1, <1>6
  <2>2. \A t \in Connected : entry'[t] = entry[t] \/ client'[entry[t]].server \in contested'
    BY <1>1, <1>3, <1>4, <1>7, PoolNow
  <2>3. client'[k].server \in contested'
    BY <1>1, <1>3, <1>6
  <2> QED
    BY <1>1, <1>3, <1>5, <2>1, <2>2, <2>3, LeaksStay
<1>15. ClosedLeaves'
  <2>1. \A t \in Connected' : client'[entry'[t]].state = "closed" =>
          t \in Connected /\ client[entry[t]].state = "closed"
    BY <1>4, <1>7, PoolNow
  <2> QED
    BY <1>1, <1>5, <2>1, ClosedStay
<1> QED
  BY <1>9, <1>10, <1>11, <1>12, <1>13, <1>14, <1>15 DEF PoolInv

LEMMA PoolSteps == PoolInv /\ [PoolNext]_poolVars => PoolInv'
<1> SUFFICES ASSUME PoolInv, [PoolNext]_poolVars PROVE PoolInv'
  OBVIOUS
<1>1. ASSUME NEW o \in PoolCalls,
             \/ Opened(o) \/ NotOpened(o) \/ Disconnected(o)
             \/ CallEnds(o) \/ Reconnected(o) \/ RetryFails(o) \/ Retry(o)
      PROVE  PoolInv'
  BY <1>1, OpenedSteps, NotOpenedSteps, DisconnectedSteps, CallStops, ReconnectedSteps,
     RetryFailsSteps, RetrySteps
<1>2. ASSUME NEW o \in PoolCalls, NEW s \in Servers, disconnect(o, s) \/ callTool(o, s)
      PROVE  PoolInv'
  BY <1>2, DisconnectSteps, CallStarts
<1>3. ASSUME NEW o \in PoolCalls, NEW s \in Servers, NEW k \in Clients, connect(o, s, k)
      PROVE  PoolInv'
  BY <1>3, ConnectSteps
<1>4. ASSUME NEW o \in PoolCalls, NEW k \in Clients, reconnect(o, k)
      PROVE  PoolInv'
  BY <1>4, ReconnectSteps
<1>5. CASE UNCHANGED poolVars
  BY <1>5 DEF poolVars, PoolInv, PoolTypeOK, OpeningsAreOwn, ClientsFit, EntriesFit, PoolFits,
              LeaksAreContested, ClosedLeaves, Held, Connected, Doing
<1> QED
  BY <1>1, <1>2, <1>3, <1>4, <1>5 DEF PoolNext

\* The pool is sound (client-pool.ts): it holds no more than maxConnections but for servers
\* that were reconnected or disconnected twice at a time, forgets no open connection of any
\* other server, and keeps no closed one that nobody is about to remove.
THEOREM PoolStaysSound == PoolSpec => []PoolIsSound
<1>1. PoolInv => PoolIsSound
  BY FitsBoundsPool DEF PoolInv, PoolIsSound
<1> QED
  BY <1>1, PoolStarts, PoolSteps, PTL DEF PoolSpec

-----------------------------------------------------------------------------

(*****************************************************************************)
(* The tool router's cache.                                                  *)
(*****************************************************************************)

Kept == [age: 0..TTL, offered: BOOLEAN, late: Nat]
Awaited == [offered: BOOLEAN, late: Nat]

Queries == Lists \cup {"resolve"}
Cached == Lists \cup {"activeTools", "resolve"}

\* What is served of a server that is gone is as old as that, counted from the reading of the
\* answer: a single answer and the list of the active tools, or one TTL older, what is made of
\* that list.
OldAs(k) == cache[k].age + cache[k].late + (IF k \in Lists THEN TTL ELSE 0)

ToolInv ==
  /\ offer \in [now: BOOLEAN, gone: Nat]
  /\ cache \in [Cached -> {Absent} \cup Kept]
  /\ asked \in [Queries -> {Unasked} \cup Awaited]
  /\ \A k \in Cached : Serves(k) /\ ~offer.now => offer.gone <= OldAs(k)
  /\ \A k \in Queries : asked[k] # Unasked /\ asked[k].offered /\ ~offer.now =>
       offer.gone <= asked[k].late

LEMMA KeptShape ==
  /\ TTL \in Nat /\ ~(Absent.age <= TTL)
  /\ \A x \in Kept : x.age \in 0..TTL /\ x.age <= TTL /\ x.offered \in BOOLEAN /\ x.late \in Nat
  /\ \A o \in BOOLEAN, n \in Nat : LET x == [age |-> 0, offered |-> o, late |-> n]
                                   IN  x \in Kept /\ x.age = 0 /\ x.offered = o /\ x.late = n
<1>1. TTL \in Nat /\ ~(TTL + 1 <= TTL)
  BY ToolAssumption
<1>2. 0 \in 0..TTL
  BY <1>1
<1> QED
  BY <1>1, <1>2 DEF Kept, Absent

\* What is awaited was read with a truth value and a time.
LEMMA AwaitedShape ==
  /\ \A x \in Awaited : x.offered \in BOOLEAN /\ x.late \in Nat
  /\ \A o \in BOOLEAN : LET x == [offered |-> o, late |-> 0]
                        IN  x \in Awaited /\ x.offered = o /\ x.late = 0
  BY DEF Awaited

LEMMA ToolStarts == ToolInit => ToolInv
  BY KeptShape DEF ToolInit, ToolInv, Serves, Live, Cached, Queries

\* The clock ticks for what is gone, what is kept and what is awaited alike.
LEMMA ClockKeeps ==
  ASSUME ToolInv, ClockTicks
  PROVE  ToolInv'
<1>0. /\ offer \in [now: BOOLEAN, gone: Nat] /\ cache \in [Cached -> {Absent} \cup Kept]
      /\ DOMAIN cache = Cached /\ DOMAIN asked = Queries
      /\ \A k \in Cached : Live(k) => cache[k] \in Kept
      /\ \A k \in Queries : asked[k] # Unasked => asked[k] \in Awaited
  BY KeptShape DEF ToolInv, Live
<1>1. PICK g \in Nat, n \in BOOLEAN : g = offer.gone /\ n = offer.now
  BY <1>0
<1>2. PICK h \in Nat : h = offer'.gone /\ (h = g \/ h = g + 1)
  <2>1. offer' = [offer EXCEPT !.gone = IF n \/ g > 2 * TTL + QueryTime THEN g ELSE g + 1]
    BY <1>1 DEF ClockTicks
  <2> QED
    BY <1>0, <1>1, <2>1
<1>3. offer'.now = n /\ offer' \in [now: BOOLEAN, gone: Nat]
  <2>1. offer' = [offer EXCEPT !.gone = h]
    BY <1>0, <1>2 DEF ClockTicks
  <2> QED
    BY <1>0, <1>1, <2>1
<1>4. ASSUME NEW k \in Cached
      PROVE  \/ cache'[k] = Absent
             \/ /\ cache'[k] \in Kept /\ cache[k] \in Kept /\ Live(k)
                /\ cache'[k].age = cache[k].age + 1 /\ cache'[k].offered = cache[k].offered
                /\ cache'[k].late = cache[k].late
  <2>1. CASE Live(k) /\ cache[k].age < TTL
    <3>1. PICK a \in Nat : a = cache[k].age /\ a < TTL
      BY <1>0, <2>1, KeptShape
    <3>2. cache'[k] = [cache[k] EXCEPT !.age = a + 1]
      BY <1>0, <2>1, <3>1 DEF ClockTicks
    <3>3. PICK x \in Kept : x = cache[k]
      BY <1>0, <2>1
    <3>4. a + 1 \in 0..TTL
      BY <3>1, KeptShape
    <3>5. [x EXCEPT !.age = a + 1] \in Kept /\ [x EXCEPT !.age = a + 1].age = a + 1
          /\ [x EXCEPT !.age = a + 1].offered = x.offered
          /\ [x EXCEPT !.age = a + 1].late = x.late
      BY <3>4 DEF Kept
    <3> QED
      BY <2>1, <3>1, <3>2, <3>3, <3>5
  <2>2. CASE ~(Live(k) /\ cache[k].age < TTL)
    BY <1>0, <2>2 DEF ClockTicks
  <2> QED
    BY <2>1, <2>2
<1>5. cache' \in [Cached -> {Absent} \cup Kept]
  <2>1. cache' = [k \in Cached |-> cache'[k]]
    BY <1>0 DEF ClockTicks
  <2> QED
    BY <1>4, <2>1
<1>6. ASSUME NEW k \in Queries
      PROVE  IF asked[k] = Unasked THEN asked'[k] = Unasked
             ELSE /\ asked'[k] \in Awaited /\ asked'[k].offered = asked[k].offered
                  /\ asked'[k].late = asked[k].late + 1
  <2>1. asked'[k] = IF asked[k] = Unasked THEN Unasked ELSE [asked[k] EXCEPT !.late = @ + 1]
    BY <1>0 DEF ClockTicks
  <2>2. asked[k] # Unasked => asked[k] \in Awaited
    BY <1>0
  <2>3. \A x \in Awaited : /\ [x EXCEPT !.late = @ + 1] \in Awaited
                           /\ [x EXCEPT !.late = @ + 1].offered = x.offered
                           /\ [x EXCEPT !.late = @ + 1].late = x.late + 1
    BY DEF Awaited
  <2> QED
    BY <2>1, <2>2, <2>3
<1>7. asked' \in [Queries -> {Unasked} \cup Awaited]
  <2>1. asked' = [k \in Queries |-> asked'[k]]
    BY <1>0 DEF ClockTicks
  <2> QED
    BY <1>6, <2>1
<1>8. ASSUME NEW k \in Cached, Serves(k)', ~offer'.now
      PROVE  offer'.gone <= OldAs(k)'
  <2>1. /\ cache[k] \in Kept /\ Live(k) /\ cache'[k].age = cache[k].age + 1
        /\ cache'[k].offered = cache[k].offered /\ cache'[k].late = cache[k].late
    BY <1>4, <1>8, KeptShape DEF Serves, Live
  <2>2. g <= OldAs(k)
    BY <1>1, <1>3, <1>8, <2>1 DEF Serves, ToolInv
  <2>3. PICK a \in Nat, l \in Nat, e \in Nat :
          a = cache[k].age /\ l = cache[k].late /\ e = (IF k \in Lists THEN TTL ELSE 0)
    BY <2>1, KeptShape
  <2>4. g <= a + l + e
    BY <2>2, <2>3 DEF OldAs
  <2>5. h <= (a + 1) + l + e
    BY ONLY <1>2, <2>4, a \in Nat, l \in Nat, e \in Nat, g \in Nat, h \in Nat
  <2> QED
    BY <1>2, <2>1, <2>3, <2>5 DEF OldAs
<1>9. ASSUME NEW k \in Queries, asked'[k] # Unasked, asked'[k].offered, ~offer'.now
      PROVE  offer'.gone <= asked'[k].late
  <2>1. asked[k] # Unasked /\ asked[k] \in Awaited /\ asked[k].offered
        /\ asked'[k].late = asked[k].late + 1
    BY <1>0, <1>6, <1>9
  <2>2. PICK l \in Nat : l = asked[k].late /\ g <= l
    BY <1>1, <1>3, <1>9, <2>1, AwaitedShape DEF ToolInv
  <2>3. h <= l + 1
    BY <1>2, <2>2
  <2> QED
    BY <1>2, <2>1, <2>2, <2>3
<1> QED
  BY <1>3, <1>5, <1>7, <1>8, <1>9 DEF ToolInv

\* What was just read is offered if it says so.
LEMMA AskKeeps ==
  ASSUME ToolInv, NEW k \in Queries, Ask(k)
  PROVE  ToolInv'
<1>1. PICK x \in Awaited : x = [offered |-> offer.now, late |-> 0] /\ x.offered = offer.now
  BY AwaitedShape DEF ToolInv
<1>2. /\ UNCHANGED <<offer, cache>> /\ asked' \in [Queries -> {Unasked} \cup Awaited]
      /\ \A q \in Queries : asked'[q] = IF q = k THEN x ELSE asked[q]
  <2>1. asked' = [asked EXCEPT ![k] = x] /\ UNCHANGED <<offer, cache>>
    BY <1>1 DEF Ask
  <2> QED
    BY <1>1, <2>1 DEF ToolInv
<1> QED
  BY <1>1, <1>2 DEF ToolInv, Serves, Live, OldAs

\* An answer is as old as the time it took.
LEMMA AnswerKeeps ==
  ASSUME ToolInv, NEW k \in Queries, Answered(k)
  PROVE  ToolInv'
<1>0. /\ asked[k] \in Awaited /\ offer' = offer /\ DOMAIN cache = Cached
      /\ \A c \in Cached : Live(c) => cache[c] \in Kept
  BY KeptShape DEF Answered, ToolInv, Live
<1>1. PICK x \in Kept : /\ x = [age |-> 0, offered |-> asked[k].offered, late |-> asked[k].late]
                        /\ x.age = 0 /\ x.offered = asked[k].offered /\ x.late = asked[k].late
  BY <1>0, KeptShape, AwaitedShape
<1>2. /\ asked' \in [Queries -> {Unasked} \cup Awaited]
      /\ \A q \in Queries : asked'[q] = Unasked \/ asked'[q] = asked[q]
  BY DEF Answered, ToolInv
<1>3. /\ cache' \in [Cached -> {Absent} \cup Kept]
      /\ \A c \in Cached : cache'[c] = x \/ cache'[c] = cache[c]
  <2>1. CASE UNCHANGED cache
    BY <2>1 DEF ToolInv
  <2>2. CASE cache' = [c \in Cached |-> IF c \in Fills(k) THEN x ELSE cache[c]]
    BY <2>2 DEF ToolInv
  <2> QED
    BY <1>0, <1>1, <2>1, <2>2 DEF Answered
<1>4. ASSUME NEW c \in Cached, Serves(c)', ~offer'.now
      PROVE  offer'.gone <= OldAs(c)'
  <2>1. CASE cache'[c] = x
    <3>1. offer.gone <= x.late
      BY <1>0, <1>1, <1>4, <2>1 DEF ToolInv, Serves, Answered
    <3>2. PICK g \in Nat, l \in Nat, e \in Nat :
            g = offer.gone /\ l = x.late /\ e = (IF c \in Lists THEN TTL ELSE 0)
      BY KeptShape DEF ToolInv
    <3>3. g <= 0 + l + e
      BY ONLY <3>1, <3>2, g \in Nat, l \in Nat, e \in Nat
    <3> QED
      BY <1>0, <1>1, <2>1, <3>2, <3>3 DEF OldAs
  <2>2. CASE cache'[c] = cache[c]
    BY <1>0, <1>4, <2>2 DEF ToolInv, Serves, Live, OldAs
  <2> QED
    BY <1>3, <2>1, <2>2
<1> QED
  BY <1>0, <1>2, <1>3, <1>4 DEF ToolInv

\* What is made of the list of active tools is one TTL older than that at the most.
LEMMA ListKeeps ==
  ASSUME ToolInv, NEW k \in Lists, Live("activeTools"), fromActiveTools(k)
  PROVE  ToolInv'
<1>0. k \in Cached /\ k # "activeTools" /\ "activeTools" \in Cached /\ "activeTools" \notin Lists
  BY DEF Cached, Lists
<1>1. PICK x \in Kept : x = cache["activeTools"]
  BY <1>0, KeptShape DEF ToolInv, Live
<1>2. PICK y \in Kept : y = [x EXCEPT !.age = 0] /\ y.age = 0 /\ y.offered = x.offered
                        /\ y.late = x.late
  <2>1. [x EXCEPT !.age = 0] = [age |-> 0, offered |-> x.offered, late |-> x.late]
    BY DEF Kept
  <2> QED
    BY <2>1, KeptShape
<1>3. /\ UNCHANGED <<offer, asked>> /\ cache' \in [Cached -> {Absent} \cup Kept]
      /\ \A c \in Cached : cache'[c] = IF c = k THEN y ELSE cache[c]
  <2>1. cache' = [cache EXCEPT ![k] = y] /\ UNCHANGED <<offer, asked>>
    BY <1>1, <1>2 DEF fromActiveTools
  <2> QED
    BY <1>0, <2>1 DEF ToolInv
<1>4. ASSUME NEW c \in Cached, Serves(c)', ~offer'.now
      PROVE  offer'.gone <= OldAs(c)'
  <2>1. CASE c = k
    <3>1. offer.gone <= x.age + x.late + 0
      BY <1>0, <1>1, <1>2, <1>3, <1>4, <2>1 DEF ToolInv, Serves, OldAs
    <3>2. PICK g \in Nat, a \in Nat, l \in Nat : g = offer.gone /\ a = x.age /\ l = x.late
                                                 /\ a <= TTL
      BY KeptShape DEF ToolInv
    <3>3. TTL \in Nat
      BY KeptShape
    <3>4. g <= 0 + l + TTL
      BY ONLY <3>1, <3>2, <3>3, g \in Nat, a \in Nat, l \in Nat
    <3> QED
      BY <1>2, <1>3, <2>1, <3>2, <3>4 DEF OldAs
  <2>2. CASE c # k
    BY <1>3, <1>4, <2>2 DEF ToolInv, Serves, Live, OldAs
  <2> QED
    BY <2>1, <2>2
<1> QED
  BY <1>3, <1>4 DEF ToolInv

LEMMA ToolSteps == ToolInv /\ [ToolNext]_toolVars => ToolInv'
<1> SUFFICES ASSUME ToolInv, [ToolNext]_toolVars PROVE ToolInv'
  OBVIOUS
<1>1. CASE OfferChanges
  <2>1. /\ offer' \in [now: BOOLEAN, gone: Nat] /\ offer'.gone = 0 /\ UNCHANGED <<cache, asked>>
    BY <1>1 DEF OfferChanges, ToolInv
  <2>2. ASSUME NEW k \in Cached, Serves(k)' PROVE 0 <= OldAs(k)'
    <3>1. cache'[k].age \in Nat /\ cache'[k].late \in Nat /\ TTL \in Nat
      BY <2>1, <2>2, KeptShape DEF Serves, Live, ToolInv
    <3> QED
      BY <3>1 DEF OldAs
  <2>3. \A k \in Queries : asked'[k] # Unasked => 0 <= asked'[k].late
    BY <2>1, AwaitedShape DEF ToolInv
  <2> QED
    BY <2>1, <2>2, <2>3 DEF ToolInv
<1>2. CASE resolve
  BY <1>2, AskKeeps DEF resolve, Queries
<1>3. ASSUME NEW l \in Lists, resolveAll(l) PROVE ToolInv'
  BY <1>3, AskKeeps, ListKeeps DEF resolveAll, Queries
<1>4. ASSUME NEW k \in DOMAIN asked, Answered(k) PROVE ToolInv'
  BY <1>4, AnswerKeeps DEF ToolInv
<1>5. CASE UNCHANGED toolVars
  BY <1>5 DEF toolVars, ToolInv, Serves, Live, OldAs
<1> QED
  BY <1>1, <1>2, <1>3, <1>4, <1>5, ClockKeeps DEF ToolNext

\* What is served of a server that is gone (mcp/tool-router.ts, CACHE_TTL_MS) was offered a
\* TTL before at the most, and two in the lists that are made of a cached list, counted from
\* when the database was read: overlapping queries may be answered in any order.
THEOREM StaleToolsExpire == ToolSpec => []ServedWasOffered
<1>1. ASSUME ToolInv PROVE ServedWasOffered
  <2>1. ASSUME NEW k \in Cached, Serves(k), ~offer.now
        PROVE  /\ k \in Lists => offer.gone <= 2 * TTL + cache[k].late
               /\ k \notin Lists => offer.gone <= TTL + cache[k].late
    <3>1. cache[k] \in Kept /\ offer.gone <= OldAs(k)
      BY <1>1, <2>1, KeptShape DEF ToolInv, Serves, Live
    <3>2. PICK a \in Nat, g \in Nat, l \in Nat :
            a = cache[k].age /\ a <= TTL /\ g = offer.gone /\ l = cache[k].late
      BY <1>1, <3>1, KeptShape DEF ToolInv
    <3>3. TTL \in Nat
      BY ToolAssumption
    <3>4. CASE k \in Lists
      <4>1. g <= a + l + TTL
        BY <3>1, <3>2, <3>4 DEF OldAs
      <4>2. g <= 2 * TTL + l
        BY ONLY <3>2, <3>3, <4>1, a \in Nat, g \in Nat, l \in Nat
      <4> QED
        BY <3>2, <3>4, <4>2
    <3>5. CASE k \notin Lists
      <4>1. g <= a + l + 0
        BY <3>1, <3>2, <3>5 DEF OldAs
      <4>2. g <= TTL + l
        BY ONLY <3>2, <3>3, <4>1, a \in Nat, g \in Nat, l \in Nat
      <4> QED
        BY <3>2, <3>5, <4>2
    <3> QED
      BY <3>4, <3>5
  <2>2. "resolve" \notin Lists /\ "resolve" \in Cached /\ Lists \subseteq Cached
    BY DEF Lists, Cached
  <2> QED
    BY <2>1, <2>2 DEF ServedWasOffered
<1> QED
  BY <1>1, ToolStarts, ToolSteps, PTL DEF ToolSpec

(*****************************************************************************)
(* The tool router's choice among the servers of a name.                     *)
(*****************************************************************************)

LEMMA LeastNat ==
  ASSUME NEW T \in SUBSET Nat, T # {}
  PROVE  \E x \in T : \A y \in T : x <= y
<1>1. PICK x \in T : \A y \in T : <<y, x>> \notin OpToRel(<, Nat)
  BY NatLessThanWellFounded, WFMin
<1>2. \A y \in T : ~(y < x)
  BY <1>1 DEF OpToRel
<1> QED
  BY <1>2

LEMMA EarliestIs ==
  ASSUME NEW T \in SUBSET Nat, T # {}
  PROVE  Earliest(T) \in T /\ \A y \in T : Earliest(T) <= y
BY LeastNat DEF Earliest

\* The parts of what resolveConflict and Best say.
Scoped(q) == {i \in DOMAIN q.rows : q.rows[i].scope = "agent"}
Candidates(q) == IF Scoped(q) # {} THEN Scoped(q) ELSE DOMAIN q.rows
Preferred(q) == {n \in DOMAIN q.priority : \E i \in Candidates(q) : q.rows[i].server = q.priority[n]}
FirstOf(q) == Earliest(Candidates(q))
SecondOf(q) == Earliest(Candidates(q) \ {FirstOf(q)})

IsRank(q, s, n) ==
  /\ n \in 1..Len(q.priority) + 1
  /\ n <= Len(q.priority) => q.priority[n] = s
  /\ \A m \in 1..n - 1 : q.priority[m] # s
Rank(q, s) == CHOOSE n \in 1..Len(q.priority) + 1 :
                /\ n <= Len(q.priority) => q.priority[n] = s
                /\ \A m \in 1..n - 1 : q.priority[m] # s

Before(q, i, j) ==
  LET m == Rank(q, q.rows[i].server)
      n == Rank(q, q.rows[j].server)
  IN  m < n \/ (m = n /\ q.rows[i].created <= q.rows[j].created)

\* The places of the rows that come before all others.
Firsts(q) == {i \in Candidates(q) : \A j \in Candidates(q) : Before(q, i, j)}

LEMMA ConflictUnfolds ==
  ASSUME NEW q
  PROVE  resolveConflict(q) =
           CASE Cardinality(Scoped(q)) = 1 -> q.rows[FirstOf(q)].server
             [] Cardinality(Scoped(q)) # 1 /\ Preferred(q) # {} -> q.priority[Earliest(Preferred(q))]
             [] Cardinality(Scoped(q)) # 1 /\ Preferred(q) = {} ->
                  IF q.rows[FirstOf(q)].created # q.rows[SecondOf(q)].created
                  THEN q.rows[FirstOf(q)].server ELSE "ambiguous"
BY DEF resolveConflict, Scoped, Candidates, Preferred, FirstOf, SecondOf

LEMMA BestUnfolds ==
  ASSUME NEW q
  PROVE  LET first == {q.rows[i] : i \in Firsts(q)}
         IN  Best(q) = IF Cardinality(first) = 1 THEN (CHOOSE r \in first : TRUE).server ELSE "ambiguous"
<1> DEFINE rows == {q.rows[i] : i \in DOMAIN q.rows}
           mine == {r \in rows : r.scope = "agent"}
           left == IF mine = {} THEN rows ELSE mine
           best == {r \in left : \A o \in left : \/ Rank(q, r.server) < Rank(q, o.server)
                                                 \/ Rank(q, r.server) = Rank(q, o.server) /\ r.created <= o.created}
<1>1. Best(q) = IF Cardinality(best) = 1 THEN (CHOOSE r \in best : TRUE).server ELSE "ambiguous"
  BY DEF Best, Rank
<1>2. left = {q.rows[i] : i \in Candidates(q)}
  <2>1. mine = {q.rows[i] : i \in Scoped(q)}
    BY DEF Scoped
  <2>2. mine = {} <=> Scoped(q) = {}
    BY <2>1
  <2> QED
    BY <2>1, <2>2 DEF Candidates
<1>3. best = {q.rows[i] : i \in Firsts(q)}
  <2> HIDE DEF left
  <2> QED
    BY <1>2 DEF Firsts, Before
<1> QED
  BY <1>1, <1>3

LEMMA PlacesAreFinite == ASSUME NEW n \in Nat PROVE IsFiniteSet(1..n)
BY FS_Interval

\* A question: two rows at least, of as many servers, in the order of their dates.
LEMMA QuestionShape ==
  ASSUME NEW q \in Questions
  PROVE  /\ \E n \in Nat : 2 <= n /\ DOMAIN q.rows = 1..n
         /\ \A i \in DOMAIN q.rows : q.rows[i].created \in Nat
         /\ \A i, j \in DOMAIN q.rows : i < j => /\ q.rows[i].created <= q.rows[j].created
                                                 /\ q.rows[i].server # q.rows[j].server
         /\ q.priority \in Seq(ToolServers) /\ Len(q.priority) \in Nat
         /\ DOMAIN q.priority = 1..Len(q.priority)
<1>1. q.rows \in Ordered /\ q.priority \in Priorities
  BY DEF Questions
<1>2. q.priority \in Seq(ToolServers)
  <2>1. CASE q.priority = <<>>
    BY <2>1
  <2>2. ASSUME NEW s \in ToolServers, q.priority = <<s>> PROVE q.priority \in Seq(ToolServers)
    BY <2>2
  <2>3. ASSUME NEW s \in ToolServers, NEW t \in ToolServers, q.priority = <<s, t>>
        PROVE  q.priority \in Seq(ToolServers)
    BY <2>3
  <2> QED
    BY <1>1, <2>1, <2>2, <2>3 DEF Priorities
<1>3. PICK n \in 2..Cardinality(ToolServers) : q.rows \in [1..n -> Row]
  BY <1>1 DEF Ordered
<1>4. Cardinality(ToolServers) \in Nat
  BY ToolAssumption, FS_CardinalityType
<1>5. n \in Nat /\ 2 <= n /\ DOMAIN q.rows = 1..n
  BY <1>3, <1>4
<1>6. \A i \in DOMAIN q.rows : q.rows[i].created \in Nat
  BY <1>3, <1>5 DEF Row
<1>7. \A i, j \in DOMAIN q.rows : i < j => /\ q.rows[i].created <= q.rows[j].created
                                           /\ q.rows[i].server # q.rows[j].server
  BY <1>1 DEF Ordered
<1> QED
  BY <1>2, <1>5, <1>6, <1>7

LEMMA RankIs ==
  ASSUME NEW q \in Questions, NEW s
  PROVE  IsRank(q, s, Rank(q, s)) /\ \A n : IsRank(q, s, n) => n = Rank(q, s)
<1> DEFINE L == Len(q.priority)
           T == {n \in 1..L + 1 : n = L + 1 \/ q.priority[n] = s}
<1>1. L \in Nat
  BY QuestionShape
<1>2. PICK n \in T : \A m \in T : n <= m
  <2>1. T \in SUBSET Nat /\ L + 1 \in T
    BY <1>1
  <2> HIDE DEF T
  <2> QED
    BY <2>1, LeastNat
<1>3. IsRank(q, s, n)
  BY <1>1, <1>2 DEF IsRank
<1>4. IsRank(q, s, Rank(q, s))
  BY <1>3 DEF IsRank, Rank
<1>5. ASSUME NEW m, NEW k, IsRank(q, s, m), IsRank(q, s, k) PROVE m = k
  BY <1>1, <1>5 DEF IsRank
<1> QED
  BY <1>4, <1>5

\* The rows that are candidates, of which there is one or a first and a second.
LEMMA CandidatesAre ==
  ASSUME NEW q \in Questions
  PROVE  /\ Candidates(q) \subseteq DOMAIN q.rows /\ Candidates(q) \in SUBSET Nat
         /\ Candidates(q) # {} /\ IsFiniteSet(Scoped(q))
         /\ FirstOf(q) \in Candidates(q) /\ \A i \in Candidates(q) : FirstOf(q) <= i
         /\ Cardinality(Scoped(q)) = 1 => Candidates(q) = {FirstOf(q)}
         /\ Cardinality(Scoped(q)) # 1 =>
              /\ SecondOf(q) \in Candidates(q) /\ SecondOf(q) # FirstOf(q)
              /\ \A i \in Candidates(q) : i # FirstOf(q) => SecondOf(q) <= i
<1>1. PICK n \in Nat : 2 <= n /\ DOMAIN q.rows = 1..n
  BY QuestionShape
<1>2. Candidates(q) \subseteq 1..n /\ Scoped(q) \subseteq 1..n
  BY <1>1 DEF Candidates, Scoped
<1>3. Candidates(q) # {} /\ Candidates(q) \in SUBSET Nat
  BY <1>1, <1>2 DEF Candidates
<1>4. IsFiniteSet(Scoped(q))
  <2>1. IsFiniteSet(1..n)
    BY <1>1, PlacesAreFinite
  <2> QED
    BY <1>2, <2>1, FS_Subset
<1>5. FirstOf(q) \in Candidates(q) /\ \A i \in Candidates(q) : FirstOf(q) <= i
  BY <1>3, EarliestIs DEF FirstOf
<1>6. ASSUME Cardinality(Scoped(q)) = 1 PROVE Candidates(q) = {FirstOf(q)}
  <2>1. PICK i : Scoped(q) = {i}
    BY <1>4, <1>6, FS_Singleton
  <2>2. Candidates(q) = {i}
    BY <2>1 DEF Candidates
  <2> QED
    BY <1>5, <2>2
<1>7. ASSUME Cardinality(Scoped(q)) # 1
      PROVE  /\ SecondOf(q) \in Candidates(q) /\ SecondOf(q) # FirstOf(q)
             /\ \A i \in Candidates(q) : i # FirstOf(q) => SecondOf(q) <= i
  <2> DEFINE rest == Candidates(q) \ {FirstOf(q)}
  <2>1. rest # {}
    <3>1. CASE Scoped(q) = {}
      <4>1. 1 \in Candidates(q) /\ 2 \in Candidates(q)
        BY <1>1, <3>1 DEF Candidates
      <4> QED
        BY <4>1
    <3>2. CASE Scoped(q) # {}
      <4>1. Candidates(q) = Scoped(q)
        BY <3>2 DEF Candidates
      <4>2. Scoped(q) # {FirstOf(q)}
        BY <1>7, FS_Singleton
      <4> QED
        BY <1>5, <4>1, <4>2
    <3> QED
      BY <3>1, <3>2
  <2>2. rest \in SUBSET Nat
    BY <1>3
  <2>3. SecondOf(q) = Earliest(rest)
    BY DEF SecondOf
  <2> HIDE DEF rest
  <2>4. SecondOf(q) \in rest /\ \A i \in rest : SecondOf(q) <= i
    BY <2>1, <2>2, <2>3, EarliestIs
  <2> QED
    BY <2>4 DEF rest
<1> QED
  BY <1>1, <1>2, <1>3, <1>4, <1>5, <1>6, <1>7

LEMMA BestIsFirst ==
  ASSUME NEW q \in Questions, NEW i, Firsts(q) = {i}
  PROVE  Best(q) = q.rows[i].server
<1> DEFINE first == {q.rows[j] : j \in Firsts(q)}
<1>1. first = {q.rows[i]}
  OBVIOUS
<1>2. Best(q) = IF Cardinality(first) = 1 THEN (CHOOSE r \in first : TRUE).server ELSE "ambiguous"
  BY BestUnfolds
<1> HIDE DEF first
<1>3. Cardinality(first) = 1
  BY <1>1, FS_Singleton
<1>4. (CHOOSE r \in first : TRUE) = q.rows[i]
  BY <1>1
<1> QED
  BY <1>2, <1>3, <1>4

LEMMA BestIsAmbiguous ==
  ASSUME NEW q \in Questions, NEW i \in Firsts(q), NEW j \in Firsts(q), i < j
  PROVE  Best(q) = "ambiguous"
<1> DEFINE first == {q.rows[k] : k \in Firsts(q)}
<1>1. q.rows[i] \in first /\ q.rows[j] \in first
  OBVIOUS
<1>2. q.rows[i] # q.rows[j]
  BY CandidatesAre, QuestionShape DEF Firsts
<1>3. Best(q) = IF Cardinality(first) = 1 THEN (CHOOSE r \in first : TRUE).server ELSE "ambiguous"
  BY BestUnfolds
<1> HIDE DEF first
<1>4. Cardinality(first) # 1
  <2> SUFFICES ASSUME Cardinality(first) = 1 PROVE FALSE
    OBVIOUS
  <2>1. PICK n \in Nat : 2 <= n /\ DOMAIN q.rows = 1..n
    BY QuestionShape
  <2>2. IsFiniteSet(Firsts(q))
    <3>1. Firsts(q) \subseteq 1..n
      BY <2>1, CandidatesAre DEF Firsts
    <3>2. IsFiniteSet(1..n)
      BY <2>1, PlacesAreFinite
    <3> QED
      BY <3>1, <3>2, FS_Subset
  <2>3. IsFiniteSet(first)
    <3> DEFINE f == [k \in Firsts(q) |-> q.rows[k]]
    <3>1. f \in Surjection(Firsts(q), first)
      BY DEF Surjection, first
    <3> QED
      BY <2>2, <3>1, FS_Surjection
  <2>4. PICK r : first = {r}
    BY <2>3, FS_Singleton
  <2> QED
    BY <1>1, <1>2, <2>4
<1> QED
  BY <1>3, <1>4

\* A preference that names a candidate: the first of them is before all others.
LEMMA PreferredIsBest ==
  ASSUME NEW q \in Questions, Preferred(q) # {}
  PROVE  Best(q) = q.priority[Earliest(Preferred(q))]
<1> DEFINE n == Earliest(Preferred(q))
           L == Len(q.priority)
<1>1. L \in Nat /\ DOMAIN q.priority = 1..L
  BY QuestionShape
<1>2. Preferred(q) \in SUBSET Nat /\ Preferred(q) \subseteq 1..L
  BY <1>1 DEF Preferred
<1>3. n \in Preferred(q) /\ \A m \in Preferred(q) : n <= m
  BY <1>2, EarliestIs
<1> HIDE DEF n
<1>4. PICK i \in Candidates(q) : q.rows[i].server = q.priority[n]
  BY <1>3 DEF Preferred
<1>5. ASSUME NEW j \in Candidates(q), NEW m \in 1..n - 1 PROVE q.priority[m] # q.rows[j].server
  BY <1>1, <1>2, <1>3 DEF Preferred
<1>6. IsRank(q, q.rows[i].server, n)
  BY <1>1, <1>2, <1>3, <1>4, <1>5 DEF IsRank
<1>7. Rank(q, q.rows[i].server) = n
  BY <1>6, RankIs
<1>8. ASSUME NEW j \in Candidates(q), j # i PROVE n < Rank(q, q.rows[j].server)
  <2>1. IsRank(q, q.rows[j].server, Rank(q, q.rows[j].server))
    BY RankIs
  <2> DEFINE k == Rank(q, q.rows[j].server)
  <2>2. k \in Nat /\ k \in 1..L + 1 /\ (k <= L => q.priority[k] = q.rows[j].server)
    BY <1>1, <2>1 DEF IsRank
  <2> HIDE DEF k
  <2>3. n \in 1..L
    BY <1>2, <1>3
  <2>4. q.rows[j].server # q.rows[i].server
    <3>1. i \in DOMAIN q.rows /\ j \in DOMAIN q.rows /\ i \in Nat /\ j \in Nat
      BY CandidatesAre
    <3>2. i < j \/ j < i
      BY <1>8, <3>1
    <3> QED
      BY <3>1, <3>2, QuestionShape
  <2>5. k # n
    BY <1>1, <1>4, <2>2, <2>3, <2>4
  <2>6. ~(k < n)
    BY <1>1, <1>5, <2>2, <2>3
  <2> QED
    BY <1>1, <2>2, <2>3, <2>5, <2>6 DEF k
<1>9. \A j \in Candidates(q) : Rank(q, q.rows[j].server) \in Nat
  BY <1>1, RankIs DEF IsRank
<1>10. Before(q, i, i)
  BY CandidatesAre, QuestionShape DEF Before
<1>11. Firsts(q) = {i}
  <2>1. i \in Firsts(q)
    BY <1>7, <1>8, <1>10 DEF Firsts, Before
  <2>2. ASSUME NEW j \in Candidates(q), j # i PROVE ~Before(q, j, i)
    <3>1. PICK k \in Nat, m \in Nat : k = Rank(q, q.rows[j].server) /\ m = n /\ m < k
      BY <1>2, <1>3, <1>8, <1>9, <2>2
    <3>2. ~(k < m) /\ k # m
      BY <3>1
    <3> QED
      BY <1>7, <3>1, <3>2 DEF Before
  <2> QED
    BY <2>1, <2>2 DEF Firsts
<1> QED
  BY <1>4, <1>11, BestIsFirst DEF n

\* No preference names any: the dates decide.
LEMMA EarliestIsBest ==
  ASSUME NEW q \in Questions, Cardinality(Scoped(q)) # 1, Preferred(q) = {}
  PROVE  Best(q) = IF q.rows[FirstOf(q)].created # q.rows[SecondOf(q)].created
                   THEN q.rows[FirstOf(q)].server ELSE "ambiguous"
<1> DEFINE L == Len(q.priority)
           f == FirstOf(q)
           s == SecondOf(q)
<1>1. L \in Nat /\ DOMAIN q.priority = 1..L
  BY QuestionShape
<1>2. ASSUME NEW i \in Candidates(q) PROVE Rank(q, q.rows[i].server) = L + 1
  <2>1. \A m \in 1..L : q.priority[m] # q.rows[i].server
    BY <1>1 DEF Preferred
  <2>2. IsRank(q, q.rows[i].server, L + 1)
    BY <1>1, <2>1 DEF IsRank
  <2> QED
    BY <2>2, RankIs
<1>3. /\ f \in Candidates(q) /\ s \in Candidates(q) /\ f # s /\ Candidates(q) \in SUBSET Nat
      /\ \A i \in Candidates(q) : i = f \/ i = s \/ (f < s /\ s < i)
      /\ f < s
  BY CandidatesAre
<1>4. /\ \A i \in Candidates(q) : q.rows[i].created \in Nat
      /\ \A i, j \in Candidates(q) : i < j => q.rows[i].created <= q.rows[j].created
  BY CandidatesAre, QuestionShape
<1>5. \A i, j \in Candidates(q) : Before(q, i, j) <=> q.rows[i].created <= q.rows[j].created
  <2>1. ~(L + 1 < L + 1)
    BY <1>1
  <2> QED
    BY <1>2, <2>1 DEF Before
<1> HIDE DEF f, s, L
<1>6. Firsts(q) = {i \in Candidates(q) : \A j \in Candidates(q) : q.rows[i].created <= q.rows[j].created}
  BY <1>5 DEF Firsts
<1>7. f \in Firsts(q)
  <2>1. \A j \in Candidates(q) : q.rows[f].created <= q.rows[j].created
    BY <1>3, <1>4
  <2> QED
    BY <1>3, <1>6, <2>1
<1>8. CASE q.rows[f].created # q.rows[s].created
  <2>1. ASSUME NEW i \in Candidates(q), i # f PROVE ~(q.rows[i].created <= q.rows[f].created)
    <3>1. q.rows[f].created < q.rows[s].created /\ q.rows[s].created <= q.rows[i].created
      BY <1>3, <1>4, <1>8, <2>1
    <3> QED
      BY <1>3, <1>4, <3>1
  <2>2. Firsts(q) = {f}
    BY <1>3, <1>6, <1>7, <2>1
  <2> QED
    BY <1>8, <2>2, BestIsFirst DEF f, s
<1>9. CASE q.rows[f].created = q.rows[s].created
  <2>1. s \in Firsts(q)
    BY <1>3, <1>6, <1>7, <1>9
  <2> QED
    BY <1>3, <1>7, <1>9, <2>1, BestIsAmbiguous DEF f, s
<1> QED
  BY <1>8, <1>9 DEF f, s

LEMMA ResolveIsBest ==
  ASSUME NEW q \in Questions
  PROVE  resolveConflict(q) = Best(q)
<1>1. CASE Cardinality(Scoped(q)) = 1
  <2>1. Candidates(q) = {FirstOf(q)}
    BY <1>1, CandidatesAre
  <2>2. Before(q, FirstOf(q), FirstOf(q))
    BY CandidatesAre, QuestionShape DEF Before
  <2>3. Firsts(q) = {FirstOf(q)}
    BY <2>1, <2>2 DEF Firsts
  <2> QED
    BY <1>1, <2>3, BestIsFirst, ConflictUnfolds
<1>2. CASE Cardinality(Scoped(q)) # 1 /\ Preferred(q) # {}
  BY <1>2, PreferredIsBest, ConflictUnfolds
<1>3. CASE Cardinality(Scoped(q)) # 1 /\ Preferred(q) = {}
  BY <1>3, EarliestIsBest, ConflictUnfolds
<1> QED
  BY <1>1, <1>2, <1>3

\* The answer to an ambiguous name (mcp/tool-router.ts, resolveConflict) is the best of the
\* candidates, by scope, preference and date, for any number of servers.
THEOREM ConflictsAreResolved == ToolSpec => []ConflictIsResolved
<1>1. ToolInit => question \in {<<>>} \cup Questions
  BY DEF ToolInit
<1>2. question \in {<<>>} \cup Questions /\ [ToolNext]_toolVars => (question \in {<<>>} \cup Questions)'
  BY DEF ToolNext, ClockTicks, OfferChanges, resolve, resolveAll, Ask, fromActiveTools, Answered,
         toolVars
<1>3. question \in {<<>>} \cup Questions => ConflictIsResolved
  BY ResolveIsBest DEF ConflictIsResolved
<1> QED
  BY <1>1, <1>2, <1>3, PTL DEF ToolSpec

-----------------------------------------------------------------------------

(*****************************************************************************)
(* The health of MCP servers.                                                *)
(*****************************************************************************)

\* What the circuit breaker makes of a state object.
LEMMA ObjectMoves ==
  ASSUME NEW b \in Object
  PROVE  /\ b # NoObject /\ recordSuccess(b) \in Object /\ recordFailure(b) \in Object
         /\ b.breaker = "OPEN" => TryAgain(b) \in Object /\ TryAgain(b).breaker = "HALF_OPEN"
                                    /\ TryAgain(b).fresh = b.fresh /\ TryAgain(b).status = b.status
         /\ b.failures > 0 =>
              /\ [b EXCEPT !.failures = @ - 1] \in Object
              /\ [b EXCEPT !.failures = @ - 1].breaker = b.breaker
              /\ [b EXCEPT !.failures = @ - 1].fresh = b.fresh
              /\ [b EXCEPT !.failures = @ - 1].status = b.status
<1>1. /\ FailureThreshold \in Nat \ {0} /\ SuccessThreshold \in Nat \ {0}
      /\ 0 \in 0..FailureThreshold /\ 0 \in 0..SuccessThreshold
      /\ FailureThreshold \in 0..FailureThreshold
  BY ServerAssumption
<1>2. /\ b.failures \in 0..FailureThreshold /\ b.successes \in 0..SuccessThreshold
      /\ b.status \in Status /\ b.fresh \in BOOLEAN /\ b.breaker \in {"CLOSED", "OPEN", "HALF_OPEN"}
  BY DEF Object
<1>3. b # NoObject
  BY DEF Object, NoObject
<1>4. \A n \in 0..FailureThreshold : [b EXCEPT !.failures = n] \in Object
  BY DEF Object
<1>5. \A n \in 0..SuccessThreshold : [b EXCEPT !.successes = n] \in Object
  BY DEF Object
<1>6. Tripped(b) \in Object
  BY DEF Object, Tripped
<1>7. Reset(b) \in Object
  BY <1>1 DEF Object, Reset
<1>8. recordSuccess(b) \in Object
  <2>1. b.successes + 1 < SuccessThreshold => b.successes + 1 \in 0..SuccessThreshold
    BY <1>1, <1>2
  <2>2. b.successes + 1 >= SuccessThreshold \/ b.successes + 1 < SuccessThreshold
    BY <1>1, <1>2
  <2> QED
    BY <1>5, <1>7, <2>1, <2>2 DEF recordSuccess
<1>9. recordFailure(b) \in Object
  <2>1. b.failures + 1 < FailureThreshold => b.failures + 1 \in 0..FailureThreshold
    BY <1>1, <1>2
  <2>2. b.failures + 1 >= FailureThreshold \/ b.failures + 1 < FailureThreshold
    BY <1>1, <1>2
  <2>3. \A d \in Object : Tripped(d) \in Object
    BY DEF Object, Tripped
  <2>4. CASE b.breaker = "HALF_OPEN"
    BY <1>1, <1>5, <2>3, <2>4 DEF recordFailure
  <2>5. CASE b.breaker = "CLOSED" /\ b.failures + 1 >= FailureThreshold
    BY <1>1, <1>2, <1>4, <2>1, <2>3, <2>5 DEF recordFailure
  <2>6. CASE b.breaker = "CLOSED" /\ b.failures + 1 < FailureThreshold
    BY <1>1, <1>2, <1>4, <2>1, <2>6 DEF recordFailure
  <2>7. CASE b.breaker = "OPEN"
    BY <1>2, <2>7 DEF recordFailure
  <2> QED
    BY <1>2, <2>2, <2>4, <2>5, <2>6, <2>7
<1>10. ASSUME b.failures > 0
       PROVE  /\ [b EXCEPT !.failures = @ - 1] \in Object
              /\ [b EXCEPT !.failures = @ - 1].breaker = b.breaker
              /\ [b EXCEPT !.failures = @ - 1].fresh = b.fresh
              /\ [b EXCEPT !.failures = @ - 1].status = b.status
  <2>1. b.failures - 1 \in 0..FailureThreshold
    BY <1>1, <1>2, <1>10
  <2> QED
    BY <1>4, <2>1 DEF Object
<1>11. /\ TryAgain(b) \in Object /\ TryAgain(b).breaker = "HALF_OPEN"
       /\ TryAgain(b).fresh = b.fresh /\ TryAgain(b).status = b.status
  BY <1>1 DEF Object, TryAgain
<1> QED
  BY <1>3, <1>8, <1>9, <1>10, <1>11

LEMMA ProbeShape ==
  ASSUME NEW x \in {NoProbe} \cup [pc: {"listed", "writing"}, status: Status \cup {"absent"}]
                             \cup [pc: {"probing"}, object: Health]
  PROVE  /\ x.pc \in {"none", "listed", "writing", "probing"}
         /\ x.pc \in {"listed", "writing"} => x.status \in Status \cup {"absent"}
         /\ x.pc = "probing" => x.object \in Health
<1>1. CASE x \in [pc: {"listed", "writing"}, status: Status \cup {"absent"}]
  BY <1>1
<1>2. CASE x \in [pc: {"probing"}, object: Health]
  BY <1>2
<1>3. CASE x = NoProbe
  BY <1>3 DEF NoProbe
<1> QED
  BY <1>1, <1>2, <1>3

LEMMA ServerStarts == ServerInit => HealthIsTrue
<1> SUFFICES ASSUME ServerInit PROVE HealthIsTrue
  OBVIOUS
<1>1. \A p \in Probes : probe[p].pc = "none"
  BY DEF ServerInit, NoProbe
<1>2. \A h \in Health : health[h].fresh
  BY DEF ServerInit, NoObject
<1>3. ServerTypeOK
  BY <1>1 DEF ServerInit, ServerTypeOK
<1> QED
  BY <1>2, <1>3 DEF HealthIsTrue, StatusFollowsBreaker

LEMMA ServerSteps == HealthIsTrue /\ [ServerNext]_serverVars => HealthIsTrue'
<1> SUFFICES ASSUME HealthIsTrue, [ServerNext]_serverVars PROVE HealthIsTrue'
  OBVIOUS
<1> DEFINE Probing == [pc: {"listed", "writing"}, status: Status \cup {"absent"}]
                      \cup [pc: {"probing"}, object: Health]
<1>0. /\ ServerTypeOK /\ StatusFollowsBreaker
      /\ health \in [Health -> {NoObject} \cup Object] /\ probe \in [Probes -> {NoProbe} \cup Probing]
      /\ row \in Status \cup {"absent"} /\ deploying \in BOOLEAN
      /\ watched \in Health \cup {Unwatched}
      /\ NoProbe.pc = "none"
  BY DEF HealthIsTrue, ServerTypeOK, NoProbe
<1>s. \A p \in Probes : probe[p] \in {NoProbe} \cup Probing
  BY <1>0
<1> HIDE DEF Probing
<1>1. ASSUME UNCHANGED <<watched, health, probe>>,
             row' \in Status \cup {"absent"}, deploying' \in BOOLEAN
      PROVE  HealthIsTrue'
  BY <1>0, <1>1 DEF HealthIsTrue, ServerTypeOK, StatusFollowsBreaker
<1>2. CASE POST \/ Deployed \/ PUT \/ DELETE
  BY <1>0, <1>1, <1>2 DEF POST, Deployed, PUT, DELETE, Status
<1>3. CASE UNCHANGED serverVars
  BY <1>0, <1>1, <1>3 DEF serverVars
\* A state object changes.
<1>4. ASSUME NEW h \in Health, NEW b \in Object, health' = [health EXCEPT ![h] = b],
             UNCHANGED <<row, deploying, watched>>,
             ~b.fresh => /\ (b.status = "ACTIVE") <=> (b.breaker = "CLOSED")
                         /\ b.status = "DEGRADED" => b.breaker = "HALF_OPEN",
             probe' \in [Probes -> {NoProbe} \cup Probing],
             \A p \in Probes : probe'[p].pc = "probing" => probe'[p] = probe[p]
      PROVE  HealthIsTrue'
  <2>1. b # NoObject
    BY ObjectMoves
  <2>2. \A i \in Health : health'[i] = IF i = h THEN b ELSE health[i]
    BY <1>0, <1>4
  <2>3. health' \in [Health -> {NoObject} \cup Object]
    BY <1>0, <1>4
  <2>4. watched' # Unwatched => health'[watched'] # NoObject
    BY <1>0, <1>4, <2>1, <2>2 DEF ServerTypeOK
  <2>5. \A p \in Probes : probe'[p].pc = "probing" => health'[probe'[p].object] # NoObject
    <3> SUFFICES ASSUME NEW p \in Probes, probe'[p].pc = "probing"
                 PROVE  health'[probe'[p].object] # NoObject
      OBVIOUS
    <3>1. probe'[p] = probe[p] /\ probe[p].object \in Health
      BY <1>s, <1>4, ProbeShape DEF Probing
    <3>2. health[probe[p].object] # NoObject
      BY <1>0, <3>1 DEF ServerTypeOK
    <3> QED
      BY <2>1, <2>2, <3>1, <3>2
  <2>6. ServerTypeOK'
    BY <1>0, <1>4, <2>3, <2>4, <2>5 DEF ServerTypeOK, Probing
  <2>7. StatusFollowsBreaker'
    BY <1>0, <1>4, <2>2 DEF StatusFollowsBreaker
  <2> QED
    BY <2>6, <2>7 DEF HealthIsTrue
<1>5. ASSUME NEW h \in Health, OpenEnds(h) \/ FailureAges(h)
      PROVE  HealthIsTrue'
  <2>1. health[h] \in Object
    BY <1>0, <1>5 DEF OpenEnds, FailureAges
  <2>2. ~health[h].fresh => /\ (health[h].status = "ACTIVE") <=> (health[h].breaker = "CLOSED")
                            /\ health[h].status = "DEGRADED" => health[h].breaker = "HALF_OPEN"
    BY <1>0 DEF StatusFollowsBreaker
  <2>3. CASE OpenEnds(h)
    <3>1. health' = [health EXCEPT ![h] = TryAgain(health[h])] /\ health[h].breaker = "OPEN"
          /\ UNCHANGED <<row, deploying, watched, probe>>
      BY <1>0, <2>3 DEF OpenEnds
    <3>2. PICK b \in Object : /\ b = TryAgain(health[h]) /\ b.breaker = "HALF_OPEN"
                              /\ b.fresh = health[h].fresh /\ b.status = health[h].status
      BY <2>1, <3>1, ObjectMoves
    <3> QED
      BY <1>0, <1>4, <2>2, <3>1, <3>2
  <2>4. CASE FailureAges(h)
    <3>1. /\ health' = [health EXCEPT ![h] = [health[h] EXCEPT !.failures = @ - 1]]
          /\ health[h].failures > 0 /\ UNCHANGED <<row, deploying, watched, probe>>
      BY <1>0, <2>4 DEF FailureAges
    <3>2. PICK b \in Object : /\ b = [health[h] EXCEPT !.failures = @ - 1]
                              /\ b.breaker = health[h].breaker
                              /\ b.fresh = health[h].fresh /\ b.status = health[h].status
      BY <2>1, <3>1, ObjectMoves
    <3> QED
      BY <1>0, <1>4, <2>2, <3>1, <3>2
  <2> QED
    BY <1>5, <2>3, <2>4
\* Probes move, the state objects stay.
<1>6. ASSUME UNCHANGED <<deploying, health>>, row' \in Status \cup {"absent"},
             watched' \in Health \cup {Unwatched}, watched' # Unwatched => health[watched'] # NoObject,
             probe' \in [Probes -> {NoProbe} \cup Probing],
             \A p \in Probes : probe'[p].pc = "probing" => health[probe'[p].object] # NoObject
      PROVE  HealthIsTrue'
  BY <1>0, <1>6 DEF HealthIsTrue, ServerTypeOK, StatusFollowsBreaker, Probing
<1>7. ASSUME NEW p \in Probes, Tick(p)
      PROVE  HealthIsTrue'
  <2>1. PICK x : x = [pc |-> "listed", status |-> IF row = "DISABLED" THEN "absent" ELSE row]
    OBVIOUS
  <2>2. x \in Probing /\ x.pc = "listed"
    BY <1>0, <2>1 DEF Probing
  <2>3. probe' = [probe EXCEPT ![p] = x] /\ UNCHANGED <<row, deploying, watched, health>>
    BY <1>7, <2>1 DEF Tick
  <2>4. \A q \in Probes : probe'[q].pc = "probing" => health[probe'[q].object] # NoObject
    BY <1>0, <2>2, <2>3 DEF ServerTypeOK
  <2>5. probe' \in [Probes -> {NoProbe} \cup Probing]
    BY <1>0, <2>2, <2>3
  <2> QED
    BY <1>0, <1>6, <2>3, <2>4, <2>5 DEF ServerTypeOK
<1>8. ASSUME NEW p \in Probes, WriteStatus(p)
      PROVE  HealthIsTrue'
  <2>1. probe' = [probe EXCEPT ![p] = NoProbe] /\ UNCHANGED <<deploying, watched, health>>
    BY <1>8 DEF WriteStatus
  <2>2. row' \in Status \cup {"absent"}
    BY <1>0, <1>s, <1>8, ProbeShape DEF WriteStatus, Probing
  <2>3. \A q \in Probes : probe'[q].pc = "probing" => health[probe'[q].object] # NoObject
    BY <1>0, <2>1 DEF ServerTypeOK
  <2>4. probe' \in [Probes -> {NoProbe} \cup Probing]
    BY <1>0, <2>1
  <2> QED
    BY <1>0, <1>6, <2>1, <2>2, <2>3, <2>4 DEF ServerTypeOK
<1>9. ASSUME NEW p \in Probes, ProbeEnds(p)
      PROVE  HealthIsTrue'
  <2>1. /\ probe[p].object \in Health /\ health[probe[p].object] \in Object
        /\ UNCHANGED <<row, deploying, watched>>
    BY <1>0, <1>s, <1>9, ProbeShape DEF ProbeEnds, ServerTypeOK, Probing
  <2>2. PICK h \in Health, b \in Object :
          /\ health' = [health EXCEPT ![h] = [b EXCEPT !.status = StatusOf(b), !.fresh = FALSE]]
          /\ probe' = [probe EXCEPT ![p] = [pc |-> "writing", status |-> StatusOf(b)]]
    <3>1. PICK h \in Health : h = probe[p].object
      BY <2>1
    <3>2. PICK b \in {recordSuccess(health[h]), recordFailure(health[h])} :
            /\ health' = [health EXCEPT ![h] = [b EXCEPT !.status = StatusOf(b), !.fresh = FALSE]]
            /\ probe' = [probe EXCEPT ![p] = [pc |-> "writing", status |-> StatusOf(b)]]
      BY <1>9, <3>1 DEF ProbeEnds
    <3>3. b \in Object
      BY <2>1, <3>1, ObjectMoves
    <3> QED
      BY <3>2, <3>3
  <2>3. /\ StatusOf(b) \in Status
        /\ (StatusOf(b) = "ACTIVE") <=> (b.breaker = "CLOSED")
        /\ StatusOf(b) = "DEGRADED" => b.breaker = "HALF_OPEN"
    BY DEF StatusOf, Status, Object
  <2>4. PICK st \in Status : st = StatusOf(b)
    BY <2>3
  <2>5. PICK d : d = [b EXCEPT !.status = st, !.fresh = FALSE]
    OBVIOUS
  <2>6. d \in Object /\ d.status = st /\ d.breaker = b.breaker /\ d.fresh = FALSE
    BY <2>5 DEF Object
  <2>7. PICK x : x = [pc |-> "writing", status |-> st]
    OBVIOUS
  <2>8. x \in Probing /\ x.pc = "writing"
    BY <2>7 DEF Probing
  <2>9. health' = [health EXCEPT ![h] = d] /\ probe' = [probe EXCEPT ![p] = x]
    BY <2>2, <2>4, <2>5, <2>7
  <2>10. /\ probe' \in [Probes -> {NoProbe} \cup Probing]
         /\ \A q \in Probes : probe'[q].pc = "probing" => probe'[q] = probe[q]
    BY <1>0, <2>8, <2>9
  <2> QED
    BY <1>4, <2>1, <2>3, <2>4, <2>6, <2>9, <2>10
<1>10. ASSUME NEW p \in Probes, Reconcile(p)
       PROVE  HealthIsTrue'
  <2>0. UNCHANGED <<row, deploying>> /\ probe[p].pc = "listed"
    BY <1>10 DEF Reconcile
  \* The state objects are as they were, or there is one more.
  <2>1. \/ /\ UNCHANGED health /\ watched' \in {watched, Unwatched}
        \/ \E h \in Health, b \in Object :
             /\ health[h] = NoObject /\ watched' = h /\ b.fresh
             /\ health' = [health EXCEPT ![h] = b]
    <3>1. CASE probe[p].status = "absent" \/ watched # Unwatched
      BY <1>10, <3>1 DEF Reconcile, Reconciled
    <3>2. CASE probe[p].status # "absent" /\ watched = Unwatched
      <4>1. PICK b : b = [status |-> probe[p].status, fresh |-> TRUE, breaker |-> "CLOSED",
                          failures |-> 0, successes |-> 0]
        OBVIOUS
      <4>2. probe[p].status \in Status
        BY <1>s, <2>0, <3>2, ProbeShape DEF Probing
      <4>3. 0 \in 0..FailureThreshold /\ 0 \in 0..SuccessThreshold
        BY ServerAssumption
      <4>4. b \in Object /\ b.fresh
        BY <4>1, <4>2, <4>3 DEF Object
      <4> QED
        BY <1>10, <3>2, <4>1, <4>4 DEF Reconcile, Reconciled
    <3> QED
      BY <3>1, <3>2
  <2>2. /\ health' \in [Health -> {NoObject} \cup Object]
        /\ watched' \in Health \cup {Unwatched}
        /\ watched' # Unwatched => health'[watched'] # NoObject
        /\ \A h \in Health : health[h] # NoObject => health'[h] # NoObject
        /\ StatusFollowsBreaker'
    <3>1. CASE UNCHANGED health /\ watched' \in {watched, Unwatched}
      BY <1>0, <3>1 DEF ServerTypeOK, StatusFollowsBreaker
    <3>2. ASSUME NEW h \in Health, NEW b \in Object, health[h] = NoObject, watched' = h, b.fresh,
                 health' = [health EXCEPT ![h] = b]
          PROVE  <2>2!1 /\ <2>2!2 /\ <2>2!3 /\ <2>2!4 /\ <2>2!5
      <4>1. \A i \in Health : health'[i] = IF i = h THEN b ELSE health[i]
        BY <1>0, <3>2
      <4>2. b # NoObject
        BY ObjectMoves
      <4> QED
        BY <1>0, <3>2, <4>1, <4>2 DEF StatusFollowsBreaker
    <3> QED
      BY <2>1, <3>1, <3>2
  <2>3. PICK x \in {NoProbe} \cup Probing :
          /\ probe' = [probe EXCEPT ![p] = x]
          /\ x.pc = "probing" => x.object \in Health /\ health'[x.object] # NoObject
    <3>1. CASE probe' = [probe EXCEPT ![p] = NoProbe]
      BY <1>0, <3>1
    <3>2. CASE /\ watched' # Unwatched
               /\ probe' = [probe EXCEPT ![p] = [pc |-> "probing", object |-> watched']]
      <4>1. PICK h \in Health : h = watched'
        BY <2>2, <3>2
      <4>2. PICK x : x = [pc |-> "probing", object |-> h]
        OBVIOUS
      <4>3. x \in Probing /\ x.object = h
        BY <4>2 DEF Probing
      <4>4. probe' = [probe EXCEPT ![p] = x]
        BY <3>2, <4>1, <4>2
      <4>5. health'[h] # NoObject
        BY <2>2, <3>2, <4>1
      <4> QED
        BY <4>3, <4>4, <4>5
    <3> QED
      BY <1>10, <3>1, <3>2 DEF Reconcile
  <2>4. probe' \in [Probes -> {NoProbe} \cup Probing]
    BY <1>0, <2>3
  <2>5. \A q \in Probes : probe'[q].pc = "probing" => health'[probe'[q].object] # NoObject
    <3> SUFFICES ASSUME NEW q \in Probes, probe'[q].pc = "probing"
                 PROVE  health'[probe'[q].object] # NoObject
      OBVIOUS
    <3>1. CASE q = p
      BY <1>0, <2>3, <3>1
    <3>2. CASE q # p
      <4>1. probe'[q] = probe[q]
        BY <1>0, <2>3, <3>2
      <4>2. probe[q].object \in Health /\ health[probe[q].object] # NoObject
        BY <1>0, <1>s, <4>1, ProbeShape DEF ServerTypeOK, Probing
      <4> QED
        BY <2>2, <4>1, <4>2
    <3> QED
      BY <3>1, <3>2
  <2>6. ServerTypeOK'
    BY <1>0, <2>0, <2>2, <2>4, <2>5 DEF ServerTypeOK, Probing
  <2> QED
    BY <2>2, <2>6 DEF HealthIsTrue
<1> QED
  BY <1>2, <1>3, <1>5, <1>7, <1>8, <1>9, <1>10 DEF ServerNext

\* The status a probe reports is that of the circuit, however the probes of one object overlap:
\* circuitStateToMcpStatus, once the breaker is told how the probe went.
THEOREM HealthStaysTrue == ServerSpec => []HealthIsTrue
BY ServerStarts, ServerSteps, PTL DEF ServerSpec

\* A server that was disabled is turned on by an operator, by its deployment, or by a probe that
\* had found it before; the next tick finds nothing to probe.
THEOREM DisabledServersStayDisabled == ServerSpec => DisabledStaysDisabled
<1> DEFINE Stay == row = "DISABLED" /\ ~deploying /\ (\A p \in Probes : ~MayTurnOn(p)) =>
                     /\ row' = "DISABLED" \/ PUT \/ DELETE
                     /\ \A p \in Probes : ~MayTurnOn(p)'
<1>1. HealthIsTrue /\ [ServerNext]_serverVars => Stay
  <2> SUFFICES ASSUME HealthIsTrue, [ServerNext]_serverVars,
                      row = "DISABLED", ~deploying, \A p \in Probes : ~MayTurnOn(p)
               PROVE  /\ row' = "DISABLED" \/ PUT \/ DELETE
                      /\ \A p \in Probes : ~MayTurnOn(p)'
    OBVIOUS
  <2>0. probe \in [Probes -> {NoProbe} \cup [pc: {"listed", "writing"}, status: Status \cup {"absent"}]
                                       \cup [pc: {"probing"}, object: Health]]
        /\ NoProbe.pc = "none"
    BY DEF HealthIsTrue, ServerTypeOK, NoProbe
  <2>1. ASSUME NEW p \in Probes
        PROVE  /\ ~WriteStatus(p) /\ ~ProbeEnds(p)
               /\ Reconcile(p) => probe' = [probe EXCEPT ![p] = NoProbe]
               /\ Tick(p) => probe' = [probe EXCEPT ![p] = [pc |-> "listed", status |-> "absent"]]
    BY DEF MayTurnOn, WriteStatus, ProbeEnds, Reconcile, Reconciled, Tick
  <2>2. row' = "DISABLED" \/ PUT \/ DELETE
    BY <2>1 DEF ServerNext, serverVars, POST, Deployed, OpenEnds, FailureAges, Tick, Reconcile
  <2>3. \/ UNCHANGED probe
        \/ \E p \in Probes : \/ probe' = [probe EXCEPT ![p] = NoProbe]
                             \/ probe' = [probe EXCEPT ![p] = [pc |-> "listed", status |-> "absent"]]
    BY <2>1 DEF ServerNext, serverVars, POST, Deployed, PUT, DELETE, OpenEnds, FailureAges
  <2>4. \A p \in Probes : ~MayTurnOn(p)'
    BY <2>0, <2>3 DEF MayTurnOn
  <2> QED
    BY <2>2, <2>4
<1>2. HealthIsTrue /\ [ServerNext]_serverVars => [Stay]_serverVars
  BY <1>1
<1> QED
  BY <1>2, HealthStaysTrue, PTL DEF ServerSpec, DisabledStaysDisabled

\* A server that was deleted comes back by its creation only: what probes and deployments still
\* write is an UPDATE by id.
THEOREM DeletedServersStayDeleted == ServerSpec => DeletedStaysDeleted
<1>1. [ServerNext]_serverVars => [row = "absent" /\ row' # "absent" => POST]_serverVars
  BY DEF ServerNext, serverVars, POST, Deployed, PUT, DELETE, OpenEnds, FailureAges, Tick, Reconcile,
         ProbeEnds, WriteStatus
<1> QED
  BY <1>1, PTL DEF ServerSpec, DeletedStaysDeleted

-----------------------------------------------------------------------------

(*****************************************************************************)
(* Credentials: the account's key, the provider's refresh tokens, and        *)
(* operations that overlap.                                                  *)
(*****************************************************************************)

HasKey  == {"looking", "inserting", "updating"}
Keying  == {"keying", "making", "looking", "inserting"}
Trying  == {"expiring", "refreshing", "accepted", "rejected", "failed", "pinging"}

\* The tokens an operation has in hand: the one it is to store, which is nobody else's, ...
Fresh(x) == IF x.pc \in Keying \cup {"updating"} THEN x.token
            ELSE IF x.pc = "accepted" THEN x.given ELSE 0

\* ... the one it has sent and whose answer is still to be written, ...
InFlight(x) == IF x.pc \in {"refreshing", "accepted"} THEN x.token ELSE 0

\* ... and the one that was refused.
Refused(x) == IF x.pc = "rejected" THEN x.token ELSE 0

\* The refusal of a token is explained.
Explained(t) == t # 0 /\ (token[t] = "withdrawn" \/ t \in strayed)

\* The keys: an operation or the row that has one has the account's, unless that one was made
\* while another was being made.
KeysInv ==
  /\ \A o \in CredOps :
       /\ op[o].pc \in HasKey => /\ op[o].key # 0 /\ accountKey # 0
                                 /\ op[o].key = accountKey \/ op[o].key \in raced
       /\ op[o].pc = "making" /\ accountKey # 0 => accountKey \in raced
  /\ Stored => accountKey # 0 /\ (credential.key = accountKey \/ credential.key \in raced)

\* What an attempt was begun with.
AttemptsAreReal ==
  \A o \in CredOps :
    /\ op[o].pc \in {"refreshing", "accepted", "rejected"} => op[o].token # 0
    /\ op[o].pc = "pinging" => op[o].kind = "test"
    /\ op[o].pc = "refreshing" => op[o].given = 0

\* A token to be stored is good and in no other hands; one in flight that is spent was spent for
\* this very operation, or is marked; so is one that two operations have sent.
InHand ==
  /\ \A o \in CredOps :
       /\ Fresh(op[o]) # 0 => /\ token[Fresh(op[o])] \in {"live", "withdrawn"}
                              /\ Stored => credential.token # Fresh(op[o])
       /\ InFlight(op[o]) # 0 =>
            /\ token[InFlight(op[o])] # "unissued"
            /\ token[InFlight(op[o])] = "spent" => InFlight(op[o]) \in strayed \/ Fresh(op[o]) # 0
       /\ Refused(op[o]) # 0 => Explained(Refused(op[o]))
  /\ \A o, p \in CredOps :
       /\ Fresh(op[o]) # 0 => /\ Fresh(op[o]) # InFlight(op[p])
                              /\ o # p => Fresh(op[o]) # Fresh(op[p])
       /\ o # p /\ InFlight(op[o]) # 0 /\ InFlight(op[o]) = InFlight(op[p])
            => InFlight(op[o]) \in strayed

\* The row's token is spent only if an operation is to replace it, or it is marked.
InRow ==
  Stored =>
    /\ credential.token # 0 =>
         /\ token[credential.token] # "unissued"
         /\ token[credential.token] = "spent" =>
              \/ credential.token \in strayed
              \/ \E o \in CredOps : InFlight(op[o]) = credential.token /\ Fresh(op[o]) # 0
    /\ credential.status = "revoked" => Explained(credential.refused)

CredInv == CredTypeOK /\ KeysInv /\ AttemptsAreReal /\ InHand /\ InRow

-----------------------------------------------------------------------------
AnOp == Store \cup Attempt \cup Verify \cup {NoOp}

Number == Cardinality(CredOps)

AnAttempt == [pc: Trying, kind: {"request", "task", "test"}, id: 1..MaxRows,
              token: 0..MaxTokens, errors: 0..3, given: 0..MaxTokens]

LEMMA NumberIsNat == Number \in Nat /\ MaxTokens \in Nat /\ MaxRows \in Nat
BY CredAssumption, FS_CardinalityType DEF Number

\* The records of the operations: which fields they have, ...
LEMMA OpShape ==
  ASSUME NEW x \in AnOp
  PROVE  /\ x.pc \in Keying \cup Trying \cup {"updating", "verifying", "none"}
         /\ (x.pc = "none") <=> (x = NoOp)
         /\ x.pc \in Keying => x \in [pc: Keying, token: 0..MaxTokens, key: 0..Number]
         /\ x.pc = "updating" =>
              x.token \in 0..MaxTokens /\ x.key \in 1..Number /\ x.id \in 1..MaxRows
         /\ x.pc \in Trying => x \in AnAttempt
<1>1. CASE x \in [pc: Keying, token: 0..MaxTokens, key: 0..Number]
  BY <1>1 DEF Keying, Trying, NoOp
<1>2. CASE x \in [pc: {"updating"}, token: 0..MaxTokens, key: 1..Number, id: 1..MaxRows]
  BY <1>2 DEF Keying, Trying, NoOp
<1>3. CASE x \in AnAttempt
  BY <1>3 DEF Keying, Trying, NoOp, AnAttempt
<1>4. CASE x \in [pc: {"verifying"}]
  BY <1>4 DEF Keying, Trying, NoOp
<1>5. CASE x = NoOp
  BY <1>5 DEF Keying, Trying, NoOp
<1> QED
  BY <1>1, <1>2, <1>3, <1>4, <1>5
  DEF AnOp, Store, Attempt, Verify, Keys, Number, Keying, Trying, AnAttempt

\* ... and what a move makes of them.
LEMMA StoreMoves ==
  ASSUME NEW x \in [pc: Keying, token: 0..MaxTokens, key: 0..Number], NEW pc, NEW k
  PROVE  /\ x.pc \in Keying /\ x.token \in 0..MaxTokens /\ x.key \in 0..Number
         /\ [x EXCEPT !.pc = pc] = [pc |-> pc, token |-> x.token, key |-> x.key]
         /\ [x EXCEPT !.pc = pc, !.key = k] = [pc |-> pc, token |-> x.token, key |-> k]
<1> DEFINE y == [x EXCEPT !.pc = pc]
<1>1. [x EXCEPT !.pc = pc, !.key = k] = [y EXCEPT !.key = k]
  OBVIOUS
<1>2. y = [pc |-> pc, token |-> x.token, key |-> x.key]
  OBVIOUS
<1>3. x.pc \in Keying /\ x.token \in 0..MaxTokens /\ x.key \in 0..Number
  OBVIOUS
<1> HIDE DEF y
<1>4. [y EXCEPT !.key = k] = [pc |-> pc, token |-> x.token, key |-> k]
  BY <1>2
<1> QED
  BY <1>1, <1>2, <1>3, <1>4 DEF y

LEMMA AttemptMoves ==
  ASSUME NEW x \in AnAttempt, NEW pc, NEW g
  PROVE  /\ x.kind \in {"request", "task", "test"} /\ x.id \in 1..MaxRows
         /\ x.token \in 0..MaxTokens /\ x.errors \in 0..3 /\ x.given \in 0..MaxTokens
         /\ [x EXCEPT !.pc = pc] =
              [pc |-> pc, kind |-> x.kind, id |-> x.id, token |-> x.token, errors |-> x.errors,
               given |-> x.given]
         /\ [x EXCEPT !.pc = pc, !.given = g] =
              [pc |-> pc, kind |-> x.kind, id |-> x.id, token |-> x.token, errors |-> x.errors,
               given |-> g]
         /\ [x EXCEPT !.pc = pc, !.token = 0, !.given = 0] =
              [pc |-> pc, kind |-> x.kind, id |-> x.id, token |-> 0, errors |-> x.errors,
               given |-> 0]
<1> DEFINE y == [x EXCEPT !.pc = pc]
           z == [y EXCEPT !.token = 0]
<1>1. /\ [x EXCEPT !.pc = pc, !.given = g] = [y EXCEPT !.given = g]
      /\ [x EXCEPT !.pc = pc, !.token = 0, !.given = 0] = [z EXCEPT !.given = 0]
  OBVIOUS
<1>2. y = [pc |-> pc, kind |-> x.kind, id |-> x.id, token |-> x.token, errors |-> x.errors,
           given |-> x.given]
  BY DEF AnAttempt
<1>3. /\ x.kind \in {"request", "task", "test"} /\ x.id \in 1..MaxRows
      /\ x.token \in 0..MaxTokens /\ x.errors \in 0..3 /\ x.given \in 0..MaxTokens
  BY DEF AnAttempt
<1> HIDE DEF y
<1>4. [y EXCEPT !.given = g] =
        [pc |-> pc, kind |-> x.kind, id |-> x.id, token |-> x.token, errors |-> x.errors,
         given |-> g]
  BY <1>2
<1>5. z = [pc |-> pc, kind |-> x.kind, id |-> x.id, token |-> 0, errors |-> x.errors,
           given |-> x.given]
  BY <1>2
<1> HIDE DEF z
<1>6. [z EXCEPT !.given = 0] =
        [pc |-> pc, kind |-> x.kind, id |-> x.id, token |-> 0, errors |-> x.errors,
         given |-> 0]
  BY <1>5
<1> QED
  BY <1>1, <1>2, <1>3, <1>4, <1>6 DEF y

LEMMA OpTypes ==
  /\ NoOp \in AnOp /\ NoOp.pc = "none"
  /\ [pc |-> "verifying"] \in AnOp /\ [pc |-> "verifying"].pc = "verifying"
  /\ \A pc \in Keying, t \in 0..MaxTokens, k \in 0..Number :
       LET x == [pc |-> pc, token |-> t, key |-> k]
       IN  x \in AnOp /\ x.pc = pc /\ x.token = t /\ x.key = k
  /\ \A t \in 0..MaxTokens, k \in 1..Number, i \in 1..MaxRows :
       LET x == [pc |-> "updating", token |-> t, key |-> k, id |-> i]
       IN  x \in AnOp /\ x.pc = "updating" /\ x.token = t /\ x.key = k /\ x.id = i
  /\ \A pc \in Trying, d \in {"request", "task", "test"}, i \in 1..MaxRows, t, g \in 0..MaxTokens,
        n \in 0..3 :
       LET x == [pc |-> pc, kind |-> d, id |-> i, token |-> t, errors |-> n, given |-> g]
       IN  /\ x \in AnOp /\ x.pc = pc /\ x.kind = d /\ x.id = i /\ x.token = t
           /\ x.errors = n /\ x.given = g
<1>1. NoOp \in AnOp /\ NoOp.pc = "none"
  BY DEF AnOp, NoOp
<1>2. [pc |-> "verifying"] \in AnOp
  BY DEF AnOp, Verify
<1>3. \A pc \in Keying, t \in 0..MaxTokens, k \in 0..Number :
        [pc |-> pc, token |-> t, key |-> k] \in AnOp
  BY DEF AnOp, Store, Keying, Number
<1>4. \A t \in 0..MaxTokens, k \in 1..Number, i \in 1..MaxRows :
        [pc |-> "updating", token |-> t, key |-> k, id |-> i] \in AnOp
  BY DEF AnOp, Store, Keys, Number
<1>5. \A pc \in Trying, d \in {"request", "task", "test"}, i \in 1..MaxRows, t, g \in 0..MaxTokens,
        n \in 0..3 : [pc |-> pc, kind |-> d, id |-> i, token |-> t, errors |-> n, given |-> g] \in AnOp
  BY DEF AnOp, Attempt, Trying
<1> QED
  BY <1>1, <1>2, <1>3, <1>4, <1>5

\* The tokens in hand are tokens, and what is in hand by the step an operation is at.
LEMMA Hands ==
  ASSUME NEW x \in AnOp
  PROVE  /\ Fresh(x) \in 0..MaxTokens /\ InFlight(x) \in 0..MaxTokens /\ Refused(x) \in 0..MaxTokens
         /\ Fresh(x) # 0 => Fresh(x) \in Tokens
         /\ InFlight(x) # 0 => InFlight(x) \in Tokens
         /\ Refused(x) # 0 => Refused(x) \in Tokens
         /\ x.pc \in Keying \cup {"updating"} =>
              Fresh(x) = x.token /\ InFlight(x) = 0 /\ Refused(x) = 0
         /\ x.pc = "refreshing" => Fresh(x) = 0 /\ InFlight(x) = x.token /\ Refused(x) = 0
         /\ x.pc = "accepted" => Fresh(x) = x.given /\ InFlight(x) = x.token /\ Refused(x) = 0
         /\ x.pc = "rejected" => Fresh(x) = 0 /\ InFlight(x) = 0 /\ Refused(x) = x.token
         /\ x.pc \in {"expiring", "failed", "pinging", "verifying", "none"} =>
              Fresh(x) = 0 /\ InFlight(x) = 0 /\ Refused(x) = 0
<1>1. 0 \in 0..MaxTokens /\ \A t \in 0..MaxTokens : t # 0 => t \in Tokens
  BY NumberIsNat DEF Tokens
<1>2. x.pc \in Keying \cup {"updating"} => x.token \in 0..MaxTokens
  BY OpShape, StoreMoves
<1>3. x.pc \in Trying => x.token \in 0..MaxTokens /\ x.given \in 0..MaxTokens
  BY OpShape, AttemptMoves
<1>4. Fresh(x) \in 0..MaxTokens /\ InFlight(x) \in 0..MaxTokens /\ Refused(x) \in 0..MaxTokens
  BY <1>1, <1>2, <1>3 DEF Fresh, InFlight, Refused, Trying
<1>5. /\ x.pc \in Keying \cup {"updating"} =>
           Fresh(x) = x.token /\ InFlight(x) = 0 /\ Refused(x) = 0
      /\ x.pc = "refreshing" => Fresh(x) = 0 /\ InFlight(x) = x.token /\ Refused(x) = 0
      /\ x.pc = "accepted" => Fresh(x) = x.given /\ InFlight(x) = x.token /\ Refused(x) = 0
      /\ x.pc = "rejected" => Fresh(x) = 0 /\ InFlight(x) = 0 /\ Refused(x) = x.token
      /\ x.pc \in {"expiring", "failed", "pinging", "verifying", "none"} =>
           Fresh(x) = 0 /\ InFlight(x) = 0 /\ Refused(x) = 0
  BY DEF Fresh, InFlight, Refused, Keying
<1> QED
  BY <1>1, <1>4, <1>5

\* A row, and what is stored in it by the operations.
LEMMA RowShape ==
  ASSUME NEW c \in Credential
  PROVE  /\ c # NoRow /\ c.id \in 1..MaxRows /\ c.token \in 0..MaxTokens /\ c.key \in 1..Number
         /\ c.errors \in 0..3 /\ c.status \in {"active", "expired", "revoked", "error"}
         /\ c.due \in {"later", "soon", "past"} /\ c.refused \in 0..MaxTokens
BY DEF Credential, NoRow, Keys, Number

LEMMA CredStarts == CredInit => CredInv
<1> SUFFICES ASSUME CredInit PROVE CredInv
  OBVIOUS
<1>1. CredTypeOK
  <2>1. 0 \in 0..Number /\ 0 \in 0..MaxRows
    BY NumberIsNat
  <2>2. op \in [CredOps -> Store \cup Attempt \cup Verify \cup {NoOp}]
    BY DEF CredInit
  <2> QED
    BY <2>1, <2>2 DEF CredInit, CredTypeOK, Number
<1>2. \A o \in CredOps : /\ op[o] = NoOp /\ op[o].pc = "none" /\ Fresh(op[o]) = 0
                         /\ InFlight(op[o]) = 0 /\ Refused(op[o]) = 0
  BY OpTypes, Hands DEF CredInit
<1>3. ~Stored
  BY DEF CredInit, Stored
<1> QED
  BY <1>1, <1>2, <1>3 DEF CredInv, KeysInv, AttemptsAreReal, InHand, InRow, HasKey

-----------------------------------------------------------------------------
\* All but the operations.
RestTypeOK ==
  /\ authType \in {"oauth", "api_key"} /\ accountKey \in 0..Number
  /\ credential \in Credential \cup {NoRow} /\ rowsMade \in 0..MaxRows
  /\ token \in [Tokens -> {"unissued", "live", "spent", "withdrawn"}]
  /\ strayed \subseteq Tokens /\ raced \subseteq 1..Number

LEMMA CredTypes == CredTypeOK <=> RestTypeOK /\ op \in [CredOps -> AnOp]
BY DEF CredTypeOK, RestTypeOK, AnOp, Number, Keys

\* The row there is.
LEMMA TheRowIs ==
  ASSUME CredInv
  PROVE  /\ Stored => /\ credential \in Credential /\ credential.key \in 1..Number
                      /\ credential.token \in 0..MaxTokens /\ credential.id \in 1..MaxRows
                      /\ credential.token # 0 => credential.token \in Tokens
                      /\ accountKey # 0
                      /\ credential.key = accountKey \/ credential.key \in raced
         /\ accountKey \in 0..Number
<1>1. Stored => credential \in Credential
  BY CredTypes DEF CredInv, RestTypeOK, Stored
<1>2. accountKey \in 0..Number
  BY CredTypes DEF CredInv, RestTypeOK
<1> QED
  BY <1>1, <1>2, RowShape, NumberIsNat DEF CredInv, KeysInv, Tokens

\* An operation moves.
LEMMA OperationMoves ==
  ASSUME CredInv, NEW o \in CredOps, NEW next \in AnOp, op' = [op EXCEPT ![o] = next],
         RestTypeOK', KeysInv', InHand', InRow',
         next.pc \in {"refreshing", "accepted", "rejected"} => next.token # 0,
         next.pc = "pinging" => next.kind = "test",
         next.pc = "refreshing" => next.given = 0
  PROVE  CredInv'
<1>0. op \in [CredOps -> AnOp]
  BY CredTypes DEF CredInv
<1>1. op' \in [CredOps -> AnOp] /\ \A p \in CredOps : op'[p] = IF p = o THEN next ELSE op[p]
  BY <1>0
<1>2. CredTypeOK'
  BY <1>1 DEF CredTypeOK, RestTypeOK, AnOp, Number, Keys
<1>3. AttemptsAreReal'
  BY <1>1 DEF CredInv, AttemptsAreReal
<1> QED
  BY <1>2, <1>3 DEF CredInv

\* The keys, when an operation moves and makes none.
LEMMA KeysAreKept ==
  ASSUME CredInv, NEW o \in CredOps, NEW next \in AnOp, op' = [op EXCEPT ![o] = next],
         UNCHANGED <<accountKey, raced>>,
         next.pc \in HasKey => /\ next.key # 0 /\ accountKey # 0
                               /\ next.key = accountKey \/ next.key \in raced,
         next.pc = "making" => op[o].pc = "making" \/ accountKey = 0,
         Stored' => /\ accountKey # 0
                    /\ credential'.key = accountKey \/ credential'.key \in raced
  PROVE  KeysInv'
<1>0. op \in [CredOps -> AnOp]
  BY CredTypes DEF CredInv
<1>1. \A p \in CredOps : op'[p] = IF p = o THEN next ELSE op[p]
  BY <1>0
<1> QED
  BY <1>1 DEF CredInv, KeysInv

\* The tokens in hand, when an operation keeps what it has.
LEMMA HandsAreKept ==
  ASSUME CredInv, NEW o \in CredOps, NEW next \in AnOp, op' = [op EXCEPT ![o] = next],
         UNCHANGED <<credential, token, strayed>>, Fresh(next) = Fresh(op[o]),
         InFlight(next) = InFlight(op[o]), Refused(next) = Refused(op[o])
  PROVE  InHand' /\ InRow'
<1>0. op \in [CredOps -> AnOp]
  BY CredTypes DEF CredInv
<1>1. \A p \in CredOps : /\ Fresh(op'[p]) = Fresh(op[p]) /\ InFlight(op'[p]) = InFlight(op[p])
                         /\ Refused(op'[p]) = Refused(op[p])
  BY <1>0
<1>2. \A t : Explained(t) <=> Explained(t)'
  BY DEF Explained
<1>3. InHand'
  BY <1>1, <1>2 DEF CredInv, InHand, Stored
<1>4. InRow'
  BY <1>1, <1>2 DEF CredInv, InRow, Stored
<1> QED
  BY <1>3, <1>4

\* The tokens in hand, when the provider does nothing and no token is sent: what an operation has
\* in hand it keeps, or writes to the row, or drops.
LEMMA TokensAreKept ==
  ASSUME CredInv, NEW o \in CredOps, NEW next \in AnOp, op' = [op EXCEPT ![o] = next],
         token' = token, strayed \subseteq strayed',
         InFlight(next) = 0,
         Fresh(next) # 0 => Fresh(next) = Fresh(op[o]) /\ credential' = credential,
         Refused(next) # 0 => Explained(Refused(next))',
         Stored' => \/ Stored /\ credential'.token = credential.token
                    \/ credential'.token = 0
                    \/ credential'.token = Fresh(op[o])
                    \/ credential'.token = InFlight(op[o]) /\ Fresh(op[o]) = 0,
         InFlight(op[o]) # 0 /\ Fresh(op[o]) # 0 =>
           InFlight(op[o]) \in strayed' \/ (Stored' /\ credential'.token = Fresh(op[o])),
         Stored' /\ credential'.status = "revoked" =>
           \/ Stored /\ credential.status = "revoked" /\ credential'.refused = credential.refused
           \/ Explained(credential.refused)'
  PROVE  InHand' /\ InRow'
<1>0. op \in [CredOps -> AnOp]
  BY CredTypes DEF CredInv
<1>1. \A p \in CredOps : op'[p] = IF p = o THEN next ELSE op[p]
  BY <1>0
<1>2. InHand /\ InRow
  BY DEF CredInv
<1>3. \A t : Explained(t) => Explained(t)'
  BY DEF Explained
<1>4. \A p \in CredOps \ {o} : Fresh(op[p]) # 0 =>
        Fresh(op[p]) # Fresh(op[o]) /\ Fresh(op[p]) # InFlight(op[o])
  BY <1>2 DEF InHand
<1>5. InHand'
  <2>1. ASSUME NEW p \in CredOps
        PROVE  /\ Fresh(op'[p]) # 0 => /\ token'[Fresh(op'[p])] \in {"live", "withdrawn"}
                                       /\ Stored' => credential'.token # Fresh(op'[p])
               /\ InFlight(op'[p]) # 0 =>
                    /\ token'[InFlight(op'[p])] # "unissued"
                    /\ token'[InFlight(op'[p])] = "spent" =>
                         InFlight(op'[p]) \in strayed' \/ Fresh(op'[p]) # 0
               /\ Refused(op'[p]) # 0 => Explained(Refused(op[p]))'
    <3>1. CASE p = o
      BY <1>1, <1>2, <3>1 DEF InHand, Stored
    <3>2. CASE p # o
      BY <1>1, <1>2, <1>3, <1>4, <3>2 DEF InHand
    <3> QED
      BY <3>1, <3>2
  <2>2. ASSUME NEW p \in CredOps, NEW q \in CredOps
        PROVE  /\ Fresh(op'[p]) # 0 => /\ Fresh(op'[p]) # InFlight(op'[q])
                                       /\ p # q => Fresh(op'[p]) # Fresh(op'[q])
               /\ p # q /\ InFlight(op'[p]) # 0 /\ InFlight(op'[p]) = InFlight(op'[q])
                    => InFlight(op'[p]) \in strayed'
    BY <1>1, <1>2 DEF InHand
  <2> QED
    BY <2>1, <2>2 DEF InHand
<1>6. InRow'
  <2>1. ASSUME Stored', credential'.token # 0
        PROVE  /\ token'[credential'.token] # "unissued"
               /\ token'[credential'.token] = "spent" =>
                    \/ credential'.token \in strayed'
                    \/ \E p \in CredOps : InFlight(op'[p]) = credential'.token /\ Fresh(op'[p]) # 0
    <3>1. CASE Stored /\ credential'.token = credential.token
      <4>1. token[credential.token] # "unissued"
        BY <1>2, <2>1, <3>1 DEF InRow
      <4>2. ASSUME token[credential.token] = "spent", credential.token \notin strayed'
            PROVE  \E p \in CredOps : InFlight(op'[p]) = credential'.token /\ Fresh(op'[p]) # 0
        <5>1. PICK p \in CredOps : InFlight(op[p]) = credential.token /\ Fresh(op[p]) # 0
          BY <1>2, <2>1, <3>1, <4>2 DEF InRow
        <5>2. p # o
          BY <1>2, <2>1, <3>1, <4>2, <5>1 DEF InHand
        <5> QED
          BY <1>1, <3>1, <5>1, <5>2
      <4> QED
        BY <3>1, <4>1, <4>2
    <3>2. CASE credential'.token = Fresh(op[o])
      BY <1>2, <2>1, <3>2 DEF InHand
    <3>3. CASE credential'.token = InFlight(op[o]) /\ Fresh(op[o]) = 0
      BY <1>2, <2>1, <3>3 DEF InHand
    <3> QED
      BY <2>1, <3>1, <3>2, <3>3
  <2>2. Stored' /\ credential'.status = "revoked" => Explained(credential.refused)'
    BY <1>2, <1>3 DEF InRow
  <2> QED
    BY <2>1, <2>2 DEF InRow
<1> QED
  BY <1>5, <1>6

-----------------------------------------------------------------------------
\* The provider issues a token in place of others.
LEMMA IssueTypes ==
  ASSUME CredInv, NEW t \in Tokens, NEW old, Issue(t, old)
  PROVE  /\ token' \in [Tokens -> {"unissued", "live", "spent", "withdrawn"}]
         /\ token[t] = "unissued" /\ token'[t] = "live"
         /\ \A u \in Tokens : u # t /\ u \notin old => token'[u] = token[u]
         /\ \A u \in Tokens : u # t /\ u \in old => token'[u] = "spent"
BY DEF Issue, CredInv, CredTypeOK

\* A credential is being stored: from the callback or the request to the row that is found.
LEMMA StoreBegins ==
  ASSUME CredInv, NEW o \in CredOps, storeOAuth(o) \/ storeApiKey(o)
  PROVE  CredInv'
<1>0. RestTypeOK /\ op \in [CredOps -> AnOp] /\ Idle(o) /\ InHand /\ InRow
  BY CredTypes DEF CredInv, storeOAuth, storeApiKey
<1>1. PICK t \in 0..MaxTokens :
        /\ IF t = 0 THEN token' = token ELSE Issue(t, {})
        /\ op' = [op EXCEPT ![o] = [pc |-> "keying", token |-> t, key |-> 0]]
  BY NumberIsNat DEF storeOAuth, storeApiKey
<1>2. UNCHANGED <<authType, accountKey, credential, rowsMade, strayed, raced>>
  BY DEF storeOAuth, storeApiKey
<1> DEFINE next == [pc |-> "keying", token |-> t, key |-> 0]
<1>3. next \in AnOp /\ next.pc = "keying" /\ next.token = t
  BY NumberIsNat, OpTypes DEF Keying
<1>4. op' = [op EXCEPT ![o] = next]
  BY <1>1
<1> HIDE DEF next
<1>h. Fresh(next) = t /\ InFlight(next) = 0 /\ Refused(next) = 0
  BY <1>3, Hands DEF Keying
<1>5. t # 0 => t \in Tokens
  BY NumberIsNat DEF Tokens
<1>6. /\ token' \in [Tokens -> {"unissued", "live", "spent", "withdrawn"}]
      /\ t # 0 => token[t] = "unissued" /\ token'[t] = "live"
      /\ \A u \in Tokens : token[u] # "unissued" => token'[u] = token[u]
  BY <1>0, <1>1, <1>5, IssueTypes DEF RestTypeOK
<1>7. RestTypeOK'
  BY <1>0, <1>2, <1>4, <1>6 DEF RestTypeOK
<1>8. KeysInv'
  <2>1. Stored' => accountKey # 0 /\ (credential'.key = accountKey \/ credential'.key \in raced)
    BY <1>2, TheRowIs DEF Stored
  <2> QED
    BY <1>2, <1>3, <1>4, <2>1, KeysAreKept DEF HasKey
<1>9. \A p \in CredOps : op'[p] = IF p = o THEN next ELSE op[p]
  BY <1>0, <1>4
<1>t. \A p \in CredOps : /\ Fresh(op[p]) # 0 => Fresh(op[p]) \in Tokens
                         /\ InFlight(op[p]) # 0 => InFlight(op[p]) \in Tokens
                         /\ Refused(op[p]) # 0 => Refused(op[p]) \in Tokens
  BY <1>0, Hands
<1>o. Fresh(op[o]) = 0 /\ InFlight(op[o]) = 0
  BY <1>0, Hands, OpTypes DEF Idle
<1>e. \A u \in Tokens : Explained(u) => Explained(u)'
  BY <1>2, <1>6 DEF Explained
<1>c. Stored => /\ credential.token # 0 => credential.token \in Tokens
                /\ credential.status = "revoked" => credential.refused \in Tokens
  <2>1. Stored => credential \in Credential
    BY TheRowIs
  <2>2. Stored /\ credential.status = "revoked" => credential.refused # 0
    BY <1>0 DEF InRow, Explained
  <2> QED
    BY <2>1, <2>2, RowShape, NumberIsNat DEF Tokens
<1>10. InHand'
  <2>1. ASSUME NEW p \in CredOps
        PROVE  /\ Fresh(op'[p]) # 0 => /\ token'[Fresh(op'[p])] \in {"live", "withdrawn"}
                                       /\ Stored' => credential'.token # Fresh(op'[p])
               /\ InFlight(op'[p]) # 0 =>
                    /\ token'[InFlight(op'[p])] # "unissued"
                    /\ token'[InFlight(op'[p])] = "spent" =>
                         InFlight(op'[p]) \in strayed' \/ Fresh(op'[p]) # 0
               /\ Refused(op'[p]) # 0 => Explained(Refused(op[p]))'
    <3>1. CASE p = o
      BY <1>0, <1>2, <1>6, <1>9, <1>h, <3>1 DEF InRow, Stored
    <3>2. CASE p # o
      BY <1>0, <1>2, <1>6, <1>9, <1>t, <1>e, <3>2 DEF InHand, Stored
    <3> QED
      BY <3>1, <3>2
  <2>2. \A p \in CredOps : t # 0 => Fresh(op[p]) # t /\ InFlight(op[p]) # t
    BY <1>0, <1>6 DEF InHand
  <2>3. ASSUME NEW p \in CredOps, NEW q \in CredOps
        PROVE  /\ Fresh(op'[p]) # 0 => /\ Fresh(op'[p]) # InFlight(op'[q])
                                       /\ p # q => Fresh(op'[p]) # Fresh(op'[q])
               /\ p # q /\ InFlight(op'[p]) # 0 /\ InFlight(op'[p]) = InFlight(op'[q])
                    => InFlight(op'[p]) \in strayed'
    BY <1>0, <1>2, <1>9, <1>h, <2>2 DEF InHand
  <2> QED
    BY <2>1, <2>3 DEF InHand
<1>11. InRow'
  <2>1. ASSUME Stored
        PROVE  /\ credential.token # 0 =>
                    /\ token'[credential.token] # "unissued"
                    /\ token'[credential.token] = "spent" =>
                         \/ credential.token \in strayed
                         \/ \E p \in CredOps : /\ InFlight(op'[p]) = credential.token
                                               /\ Fresh(op'[p]) # 0
               /\ credential.status = "revoked" => Explained(credential.refused)'
    <3>1. ASSUME credential.token # 0
          PROVE  /\ token[credential.token] # "unissued"
                 /\ token'[credential.token] = token[credential.token]
      BY <1>0, <1>6, <1>c, <2>1, <3>1 DEF InRow
    <3>2. ASSUME credential.token # 0, token[credential.token] = "spent",
                 credential.token \notin strayed
          PROVE  \E p \in CredOps : InFlight(op'[p]) = credential.token /\ Fresh(op'[p]) # 0
      <4>1. PICK p \in CredOps : InFlight(op[p]) = credential.token /\ Fresh(op[p]) # 0
        BY <1>0, <2>1, <3>2 DEF InRow
      <4> QED
        BY <1>9, <1>o, <4>1
    <3>3. credential.status = "revoked" => Explained(credential.refused)'
      <4>1. credential.status = "revoked" => Explained(credential.refused)
        BY <1>0, <2>1 DEF InRow
      <4>2. credential' = credential
        BY <1>2
      <4> QED
        BY <1>2, <1>6, <1>c, <2>1, <4>1, <4>2 DEF Explained
    <3> QED
      BY <3>1, <3>2, <3>3
  <2> QED
    BY <1>2, <2>1 DEF InRow, Stored
<1> QED
  BY <1>3, <1>4, <1>7, <1>8, <1>10, <1>11, OperationMoves

\* What an operation keeps in hand when it only moves on.
LEMMA StoreGoes ==
  ASSUME CredInv, NEW o \in CredOps, NEW next \in AnOp, op' = [op EXCEPT ![o] = next],
         op[o].pc \in Keying, next.pc \in Keying \cup {"updating"}, next.token = op[o].token,
         UNCHANGED <<credential, token, strayed>>, RestTypeOK', KeysInv'
  PROVE  CredInv'
<1>0. op[o] \in AnOp
  BY CredTypes DEF CredInv
<1>1. Fresh(next) = Fresh(op[o]) /\ InFlight(next) = 0 /\ Refused(next) = 0 /\ InFlight(op[o]) = 0
  BY <1>0, Hands
<1>2. InHand' /\ InRow'
  BY <1>1, TokensAreKept DEF Stored
<1> QED
  BY <1>2, OperationMoves DEF Keying

LEMMA StoreSteps ==
  ASSUME CredInv, NEW o \in CredOps, ensureUserKey(o) \/ MakeKey(o) \/ LookForRow(o)
  PROVE  CredInv'
<1>0. /\ RestTypeOK /\ op \in [CredOps -> AnOp] /\ op[o] \in AnOp
      /\ UNCHANGED <<authType, credential, rowsMade, token, strayed>>
  BY CredTypes DEF CredInv, ensureUserKey, MakeKey, LookForRow
<1>1. op[o].pc \in Keying
  BY DEF ensureUserKey, MakeKey, LookForRow, At, Keying
<1>2. /\ op[o] \in [pc: Keying, token: 0..MaxTokens, key: 0..Number]
      /\ op[o].token \in 0..MaxTokens /\ op[o].key \in 0..Number
  BY <1>0, <1>1, OpShape
<1>s. Stored' => /\ accountKey # 0
                 /\ credential'.key = accountKey \/ credential'.key \in raced
  BY <1>0, TheRowIs DEF Stored
<1>3. CASE ensureUserKey(o)
  <2>1. CASE accountKey = 0
    <3> DEFINE next == [op[o] EXCEPT !.pc = "making"]
    <3>1. next = [pc |-> "making", token |-> op[o].token, key |-> op[o].key]
      BY <1>2, StoreMoves
    <3>2. next \in AnOp /\ next.pc = "making" /\ next.token = op[o].token
      BY <1>2, <3>1, OpTypes DEF Keying
    <3>3. op' = [op EXCEPT ![o] = next] /\ UNCHANGED <<accountKey, raced>>
      BY <1>0, <1>3, <2>1 DEF ensureUserKey, To
    <3> HIDE DEF next
    <3>4. RestTypeOK'
      BY <1>0, <3>3 DEF RestTypeOK
    <3>5. KeysInv'
      BY <1>s, <2>1, <3>2, <3>3, KeysAreKept DEF HasKey
    <3> QED
      BY <1>0, <1>1, <3>2, <3>3, <3>4, <3>5, StoreGoes DEF Keying
  <2>2. CASE accountKey # 0
    <3> DEFINE next == [op[o] EXCEPT !.pc = "looking", !.key = accountKey]
    <3>1. next = [pc |-> "looking", token |-> op[o].token, key |-> accountKey]
      BY <1>2, StoreMoves
    <3>2. next \in AnOp /\ next.pc = "looking" /\ next.token = op[o].token /\ next.key = accountKey
      BY <1>0, <1>2, <3>1, OpTypes DEF Keying, RestTypeOK
    <3>3. op' = [op EXCEPT ![o] = next] /\ UNCHANGED <<accountKey, raced>>
      BY <1>3, <2>2 DEF ensureUserKey
    <3> HIDE DEF next
    <3>4. RestTypeOK'
      BY <1>0, <3>3 DEF RestTypeOK
    <3>5. KeysInv'
      BY <1>s, <2>2, <3>2, <3>3, KeysAreKept DEF HasKey
    <3> QED
      BY <1>0, <1>1, <3>2, <3>3, <3>4, <3>5, StoreGoes DEF Keying
  <2> QED
    BY <2>1, <2>2
\* The key that is made is the account's.  All others are marked: the one before was made, or is
\* replaced, while another was being made.
<1>4. CASE MakeKey(o)
  <2> DEFINE next == [op[o] EXCEPT !.pc = "looking", !.key = accountKey + 1]
  <2>1. accountKey + 1 \in 1..Number /\ accountKey + 1 \in 0..Number
    BY <1>0, <1>4, NumberIsNat DEF MakeKey, RestTypeOK, Number
  <2>2. next = [pc |-> "looking", token |-> op[o].token, key |-> accountKey + 1]
    BY <1>2, StoreMoves
  <2>3. /\ next \in AnOp /\ next.pc = "looking" /\ next.token = op[o].token
        /\ next.key = accountKey + 1
    BY <1>2, <2>1, <2>2, OpTypes DEF Keying
  <2>4. /\ op' = [op EXCEPT ![o] = next] /\ accountKey' = accountKey + 1
        /\ raced \subseteq raced' /\ raced' \subseteq raced \cup {accountKey + 1}
        /\ (\E p \in CredOps \ {o} : op[p].pc = "making") => accountKey' \in raced'
        /\ op[o].pc = "making"
    BY <1>4 DEF MakeKey, At
  <2> HIDE DEF next
  <2>5. RestTypeOK'
    BY <1>0, <2>1, <2>4 DEF RestTypeOK
  <2>6. \A p \in CredOps : op'[p] = IF p = o THEN next ELSE op[p]
    BY <1>0, <2>4
  <2>7. accountKey' # 0
    BY <2>1, <2>4
  <2>8. accountKey # 0 => accountKey \in raced
    BY <2>4 DEF CredInv, KeysInv
  <2>9. KeysInv'
    <3>1. ASSUME NEW p \in CredOps
          PROVE  /\ op'[p].pc \in HasKey => /\ op'[p].key # 0 /\ accountKey' # 0
                                            /\ op'[p].key = accountKey' \/ op'[p].key \in raced'
                 /\ op'[p].pc = "making" /\ accountKey' # 0 => accountKey' \in raced'
      <4>1. CASE p = o
        BY <2>3, <2>4, <2>6, <2>7, <4>1
      <4>2. CASE p # o
        <5>1. op'[p] = op[p]
          BY <2>6, <4>2
        <5>2. op[p].pc \in HasKey => op[p].key # 0 /\ op[p].key \in raced
          BY <2>8 DEF CredInv, KeysInv
        <5>3. op[p].pc = "making" => accountKey' \in raced'
          BY <2>4, <4>2
        <5> QED
          BY <2>4, <2>7, <5>1, <5>2, <5>3
      <4> QED
        BY <4>1, <4>2
    <3>2. Stored' => credential'.key \in raced'
      BY <1>0, <2>4, <2>8, TheRowIs DEF Stored
    <3> QED
      BY <2>7, <3>1, <3>2 DEF KeysInv
  <2> QED
    BY <1>0, <1>1, <2>3, <2>4, <2>5, <2>9, StoreGoes DEF Keying
<1>5. CASE LookForRow(o)
  <2>0. /\ op[o].pc = "looking" /\ op[o].key # 0 /\ UNCHANGED <<accountKey, raced>>
        /\ accountKey # 0
        /\ op[o].key = accountKey \/ op[o].key \in raced
    BY <1>5 DEF LookForRow, At, CredInv, KeysInv, HasKey
  <2>1. RestTypeOK'
    BY <1>0, <2>0 DEF RestTypeOK
  <2>2. CASE Stored
    <3> DEFINE next == [pc |-> "updating", token |-> op[o].token, key |-> op[o].key,
                        id |-> credential.id]
    <3>1. op[o].key \in 1..Number /\ credential.id \in 1..MaxRows
      BY <1>2, <2>0, <2>2, TheRowIs, NumberIsNat
    <3>2. /\ next \in AnOp /\ next.pc = "updating" /\ next.token = op[o].token
          /\ next.key = op[o].key
      BY <1>2, <3>1, OpTypes
    <3>3. op' = [op EXCEPT ![o] = next]
      BY <1>5, <2>2 DEF LookForRow
    <3> HIDE DEF next
    <3>4. KeysInv'
      BY <1>s, <2>0, <3>2, <3>3, KeysAreKept DEF HasKey
    <3> QED
      BY <1>0, <1>1, <2>1, <3>2, <3>3, <3>4, StoreGoes
  <2>3. CASE ~Stored
    <3> DEFINE next == [op[o] EXCEPT !.pc = "inserting"]
    <3>1. next = [pc |-> "inserting", token |-> op[o].token, key |-> op[o].key]
      BY <1>2, StoreMoves
    <3>2. /\ next \in AnOp /\ next.pc = "inserting" /\ next.token = op[o].token
          /\ next.key = op[o].key
      BY <1>2, <3>1, OpTypes DEF Keying
    <3>3. op' = [op EXCEPT ![o] = next]
      BY <1>0, <1>5, <2>3 DEF LookForRow, To
    <3> HIDE DEF next
    <3>4. KeysInv'
      BY <1>s, <2>0, <3>2, <3>3, KeysAreKept DEF HasKey
    <3> QED
      BY <1>0, <1>1, <2>1, <3>2, <3>3, <3>4, StoreGoes DEF Keying
  <2> QED
    BY <2>2, <2>3
<1> QED
  BY <1>3, <1>4, <1>5

\* The row is written, or the write throws: the operation ends, or goes on to test what it stored.
LEMMA StoreEnds ==
  ASSUME CredInv, NEW o \in CredOps, UpdateRow(o) \/ InsertRow(o)
  PROVE  CredInv'
<1>0. /\ RestTypeOK /\ op \in [CredOps -> AnOp] /\ op[o] \in AnOp
      /\ UNCHANGED <<authType, accountKey, token, strayed, raced>>
  BY CredTypes DEF CredInv, UpdateRow, InsertRow
<1>1. /\ op[o].pc \in {"inserting", "updating"}
      /\ accountKey # 0 /\ op[o].key # 0
      /\ op[o].key = accountKey \/ op[o].key \in raced
  <2>1. op[o].pc \in {"inserting", "updating"}
    BY DEF UpdateRow, InsertRow, At
  <2> QED
    BY <2>1 DEF CredInv, KeysInv, HasKey
<1>2. op[o].token \in 0..MaxTokens /\ op[o].key \in 1..Number
  <2>1. CASE op[o].pc = "inserting"
    <3>1. op[o] \in [pc: Keying, token: 0..MaxTokens, key: 0..Number]
      BY <1>0, <2>1, OpShape DEF Keying
    <3>2. op[o].token \in 0..MaxTokens /\ op[o].key \in 0..Number
      BY <3>1
    <3> QED
      BY <1>1, <3>2, NumberIsNat
  <2>2. CASE op[o].pc = "updating"
    BY <1>0, <2>2, OpShape
  <2> QED
    BY <1>1, <2>1, <2>2
<1>3. PICK next \in AnOp : op' = [op EXCEPT ![o] = next] /\ next.pc \in {"none", "verifying"}
  BY OpTypes DEF UpdateRow, InsertRow, AfterStore, Finish
<1>z. 0 \in 0..3 /\ 0 \in 0..MaxTokens
  BY NumberIsNat
<1>4. /\ credential' \in Credential \cup {NoRow} /\ rowsMade' \in 0..MaxRows
      /\ \/ credential' = credential
         \/ /\ credential' \in Credential /\ credential'.status = "active"
            /\ credential'.token = op[o].token /\ credential'.key = op[o].key
  <2>0. CASE UNCHANGED <<credential, rowsMade>>
    BY <1>0, <2>0 DEF RestTypeOK
  <2>1. CASE UpdateRow(o) /\ ~UNCHANGED <<credential, rowsMade>>
    <3>1. credential \in Credential
      BY <2>1, TheRowIs DEF UpdateRow, TheRow
    <3>2. PICK new : new = [credential EXCEPT !.status = "active", !.token = op[o].token,
                              !.due = "later", !.errors = 0, !.key = op[o].key, !.refused = 0]
      OBVIOUS
    <3>3. new \in Credential /\ new.status = "active" /\ new.token = op[o].token
          /\ new.key = op[o].key
      <4>1. PICK t \in 0..MaxTokens : t = op[o].token
        BY <1>2
      <4>2. PICK k \in 1..Number : k = op[o].key
        BY <1>2
      <4>3. new = [credential EXCEPT !.status = "active", !.token = t, !.due = "later",
                                     !.errors = 0, !.key = k, !.refused = 0]
        BY <3>2, <4>1, <4>2, Zenon
      <4>4. new \in Credential /\ new.status = "active" /\ new.token = t /\ new.key = k
        BY <1>z, <3>1, <4>3 DEF Credential, Keys, Number
      <4> QED
        BY <4>1, <4>2, <4>4
    <3>4. credential' = new /\ rowsMade' = rowsMade
      BY <2>1, <3>2 DEF UpdateRow
    <3> QED
      BY <1>0, <3>3, <3>4 DEF RestTypeOK
  <2>2. CASE InsertRow(o) /\ ~UNCHANGED <<credential, rowsMade>>
    <3>1. rowsMade < MaxRows /\ rowsMade' = rowsMade + 1
      BY <2>2 DEF InsertRow
    <3>2. rowsMade + 1 \in 1..MaxRows /\ rowsMade + 1 \in 0..MaxRows
      BY <1>0, <3>1, NumberIsNat DEF RestTypeOK
    <3> DEFINE new == [id |-> rowsMade + 1, status |-> "active", token |-> op[o].token,
                       due |-> "later", errors |-> 0, key |-> op[o].key, refused |-> 0]
    <3>3. new \in Credential
      BY <1>2, <1>z, <3>2 DEF Credential, Keys, Number
    <3>4. credential' = new
      BY <2>2 DEF InsertRow
    <3> QED
      BY <3>1, <3>2, <3>3, <3>4
  <2> QED
    BY <2>0, <2>1, <2>2
<1>5. RestTypeOK'
  BY <1>0, <1>4 DEF RestTypeOK
<1>6. KeysInv'
  <2>1. Stored' => /\ accountKey # 0
                   /\ credential'.key = accountKey \/ credential'.key \in raced
    BY <1>1, <1>4, TheRowIs DEF Stored
  <2> QED
    BY <1>0, <1>3, <2>1, KeysAreKept DEF HasKey
<1>7. InHand' /\ InRow'
  <2>1. Fresh(next) = 0 /\ InFlight(next) = 0 /\ Refused(next) = 0
    BY <1>3, Hands
  <2>2. Fresh(op[o]) = op[o].token /\ InFlight(op[o]) = 0
    BY <1>0, <1>1, Hands DEF Keying
  <2>3. Stored' => \/ Stored /\ credential'.token = credential.token
                   \/ credential'.token = Fresh(op[o])
    BY <1>4, <2>2 DEF Stored
  <2>4. Stored' /\ credential'.status = "revoked" =>
          Stored /\ credential.status = "revoked" /\ credential'.refused = credential.refused
    BY <1>4 DEF Stored
  <2> QED
    BY <1>0, <1>3, <2>1, <2>2, <2>3, <2>4, TokensAreKept
<1> QED
  BY <1>3, <1>5, <1>6, <1>7, OperationMoves

-----------------------------------------------------------------------------
\* The keys, when an attempt goes on or ends: it writes the account's, or leaves the row's.
LEMMA AttemptKeys ==
  ASSUME CredInv, NEW o \in CredOps, NEW next \in AnOp, op' = [op EXCEPT ![o] = next],
         next.pc \in Trying \cup {"none"}, UNCHANGED <<accountKey, raced>>,
         \/ ~Stored'
         \/ Stored /\ credential'.key \in {credential.key, accountKey}
  PROVE  KeysInv'
<1>1. Stored' => /\ accountKey # 0
                 /\ credential'.key = accountKey \/ credential'.key \in raced
  BY TheRowIs
<1> QED
  BY <1>1, KeysAreKept DEF HasKey, Trying

\* An attempt with nothing in hand begins, with what it reads of the row: a test, a failure, a row
\* that expires.
LEMMA AttemptBegins ==
  ASSUME CredInv, NEW o \in CredOps, NEW kind \in {"request", "task", "test"},
         NEW pc \in {"expiring", "failed", "pinging"},
         Idle(o) \/ At(o, "verifying"), Stored, Tries(o, kind, pc, 0),
         UNCHANGED <<authType, accountKey, credential, rowsMade, token, strayed, raced>>,
         pc = "pinging" => kind = "test"
  PROVE  CredInv'
<1>0. RestTypeOK /\ op \in [CredOps -> AnOp]
  BY CredTypes DEF CredInv
<1>n. PICK next : next = [pc |-> pc, kind |-> kind, id |-> credential.id, token |-> 0,
                          errors |-> credential.errors, given |-> 0]
  OBVIOUS
<1>1. credential.id \in 1..MaxRows /\ credential.errors \in 0..3 /\ 0 \in 0..MaxTokens
  BY TheRowIs, RowShape, NumberIsNat
<1>2. pc \in Trying
  BY DEF Trying
<1>3. next \in AnOp /\ next.pc = pc /\ next.kind = kind
  BY <1>1, <1>2, <1>n, OpTypes
<1>4. op' = [op EXCEPT ![o] = next]
  BY <1>n DEF Tries
<1>5. RestTypeOK'
  BY <1>0, <1>4 DEF RestTypeOK
<1>6. KeysInv'
  BY <1>2, <1>3, <1>4, AttemptKeys DEF Stored
<1>7. Fresh(next) = 0 /\ InFlight(next) = 0 /\ Refused(next) = 0
  BY <1>3, Hands
<1>8. Fresh(op[o]) = 0 /\ InFlight(op[o]) = 0
  BY <1>0, Hands, OpTypes DEF Idle, At
<1>9. InHand' /\ InRow'
  BY <1>3, <1>4, <1>7, <1>8, TokensAreKept DEF Stored
<1> QED
  BY <1>3, <1>4, <1>5, <1>6, <1>9, OperationMoves

\* A refresh begins: the row's token is sent, and marked if another operation has it in flight.
LEMMA RefreshBegins ==
  ASSUME CredInv, NEW o \in CredOps, NEW kind \in {"request", "task", "test"},
         Idle(o) \/ At(o, "verifying"), Stored, Sends(o, kind), credential.token # 0,
         UNCHANGED <<authType, accountKey, credential, rowsMade, token, raced>>
  PROVE  CredInv'
<1>0. RestTypeOK /\ op \in [CredOps -> AnOp] /\ InHand /\ InRow
  BY CredTypes DEF CredInv
<1>c. PICK c \in Tokens : c = credential.token
  BY TheRowIs
<1>n. PICK next : next = [pc |-> "refreshing", kind |-> kind, id |-> credential.id,
                          token |-> credential.token, errors |-> credential.errors, given |-> 0]
  OBVIOUS
<1>1. /\ credential.id \in 1..MaxRows /\ credential.errors \in 0..3 /\ 0 \in 0..MaxTokens
      /\ credential.token \in 0..MaxTokens
  BY TheRowIs, RowShape, NumberIsNat
<1>2. "refreshing" \in Trying /\ c # 0
  BY NumberIsNat DEF Trying, Tokens
<1>3. /\ next \in AnOp /\ next.pc = "refreshing" /\ next.kind = kind /\ next.token = c
      /\ next.given = 0
  <2>1. /\ next \in AnOp /\ next.pc = "refreshing" /\ next.kind = kind
        /\ next.token = credential.token /\ next.given = 0
    BY <1>1, <1>2, <1>n, OpTypes
  <2> QED
    BY <1>c, <2>1
<1>4. op' = [op EXCEPT ![o] = next]
  BY <1>n DEF Sends, Tries
<1>5. /\ strayed \subseteq strayed' /\ strayed' \subseteq Tokens
      /\ \A p \in CredOps \ {o} : InFlight(op[p]) = c => c \in strayed'
  <2>1. \A p \in CredOps \ {o} : InFlight(op[p]) = c => Sent(p) /\ op[p].token = c
    BY NumberIsNat, <1>c DEF InFlight, Sent, Tokens
  <2> QED
    BY <1>0, <1>c, <2>1 DEF Sends, RestTypeOK
<1>6. RestTypeOK'
  BY <1>0, <1>4, <1>5 DEF RestTypeOK
<1>7. KeysInv'
  BY <1>3, <1>4, AttemptKeys DEF Stored, Trying
<1>8. Fresh(next) = 0 /\ InFlight(next) = c /\ Refused(next) = 0
  BY <1>3, Hands
<1>9. Fresh(op[o]) = 0 /\ InFlight(op[o]) = 0
  BY <1>0, Hands, OpTypes DEF Idle, At
<1>10. \A p \in CredOps : op'[p] = IF p = o THEN next ELSE op[p]
  BY <1>0, <1>4
<1>11. \A t : Explained(t) => Explained(t)'
  BY <1>5 DEF Explained
<1>12. token[c] # "unissued" /\ (token[c] = "spent" => c \in strayed')
  <2>1. token[c] # "unissued"
    BY <1>0, <1>c DEF InRow
  <2>2. ASSUME token[c] = "spent", c \notin strayed
        PROVE  c \in strayed'
    <3>1. PICK p \in CredOps : InFlight(op[p]) = c /\ Fresh(op[p]) # 0
      BY <1>0, <1>c, <2>2 DEF InRow
    <3> QED
      BY <1>5, <1>9, <3>1
  <2> QED
    BY <1>5, <2>1, <2>2
<1>13. InHand'
  <2>1. ASSUME NEW p \in CredOps
        PROVE  /\ Fresh(op'[p]) # 0 => /\ token'[Fresh(op'[p])] \in {"live", "withdrawn"}
                                       /\ Stored' => credential'.token # Fresh(op'[p])
               /\ InFlight(op'[p]) # 0 =>
                    /\ token'[InFlight(op'[p])] # "unissued"
                    /\ token'[InFlight(op'[p])] = "spent" =>
                         InFlight(op'[p]) \in strayed' \/ Fresh(op'[p]) # 0
               /\ Refused(op'[p]) # 0 => Explained(Refused(op[p]))'
    <3>1. CASE p = o
      BY <1>8, <1>10, <1>12, <3>1
    <3>2. CASE p # o
      BY <1>0, <1>5, <1>10, <1>11, <3>2 DEF InHand, Stored
    <3> QED
      BY <3>1, <3>2
  <2>2. ASSUME NEW p \in CredOps, NEW q \in CredOps
        PROVE  /\ Fresh(op'[p]) # 0 => /\ Fresh(op'[p]) # InFlight(op'[q])
                                       /\ p # q => Fresh(op'[p]) # Fresh(op'[q])
               /\ p # q /\ InFlight(op'[p]) # 0 /\ InFlight(op'[p]) = InFlight(op'[q])
                    => InFlight(op'[p]) \in strayed'
    <3>1. Fresh(op'[p]) # 0 => Fresh(op'[p]) # c /\ p # o
      BY <1>0, <1>8, <1>10, <1>c DEF InHand
    <3> QED
      BY <1>0, <1>5, <1>8, <1>10, <3>1 DEF InHand
  <2> QED
    BY <2>1, <2>2 DEF InHand
<1>14. InRow'
  BY <1>0, <1>12, <1>c, <1>11 DEF InRow, Stored
<1> QED
  BY <1>2, <1>3, <1>4, <1>6, <1>7, <1>13, <1>14, OperationMoves

\* The provider issues t in place of the token in flight: whoever has that token in flight too has
\* it marked, and nobody has t.
LEMMA ProviderIssues ==
  ASSUME CredInv, NEW o \in CredOps, NEW next \in AnOp, op' = [op EXCEPT ![o] = next],
         NEW s \in Tokens, NEW t \in Tokens, InFlight(op[o]) = s, Fresh(op[o]) = 0,
         token[s] = "live", Issue(t, {s}), strayed \subseteq strayed',
         UNCHANGED <<credential>>, Refused(next) = 0,
         \/ InFlight(next) = s /\ Fresh(next) = t
         \/ InFlight(next) = 0 /\ Fresh(next) = 0 /\ s \in strayed'
  PROVE  InHand' /\ InRow'
<1>0. RestTypeOK /\ op \in [CredOps -> AnOp] /\ InHand /\ InRow
  BY CredTypes DEF CredInv
<1>1. \A p \in CredOps : op'[p] = IF p = o THEN next ELSE op[p]
  BY <1>0
<1>2. /\ token[t] = "unissued" /\ token'[t] = "live" /\ token'[s] = "spent" /\ t # s
      /\ \A u \in Tokens : u # t /\ u # s => token'[u] = token[u]
  BY IssueTypes
<1>3. s # 0 /\ t # 0
  BY NumberIsNat DEF Tokens
<1>t. \A p \in CredOps : /\ Fresh(op[p]) # 0 => Fresh(op[p]) \in Tokens
                         /\ InFlight(op[p]) # 0 => InFlight(op[p]) \in Tokens
                         /\ Refused(op[p]) # 0 => Refused(op[p]) \in Tokens
  BY <1>0, Hands
<1>4. \A u \in Tokens : Explained(u) => Explained(u)'
  BY <1>2 DEF Explained
<1>5. \A p \in CredOps : Fresh(op[p]) # t /\ InFlight(op[p]) # t /\ Fresh(op[p]) # s
  BY <1>0, <1>2, <1>3 DEF InHand
<1>6. \A p \in CredOps \ {o} : InFlight(op[p]) = s => s \in strayed
  BY <1>0, <1>3 DEF InHand
<1>c. Stored => /\ credential.token # 0 => credential.token \in Tokens
                /\ credential.token # t
                /\ credential.status = "revoked" => credential.refused \in Tokens
  <2>1. Stored => credential \in Credential
    BY TheRowIs
  <2>2. Stored /\ credential.status = "revoked" => credential.refused # 0
    BY <1>0 DEF InRow, Explained
  <2>3. Stored => credential.token # t
    BY <1>0, <1>2, <1>3 DEF InRow
  <2> QED
    BY <2>1, <2>2, <2>3, RowShape, NumberIsNat DEF Tokens
<1>7. InHand'
  <2>1. ASSUME NEW p \in CredOps
        PROVE  /\ Fresh(op'[p]) # 0 => /\ token'[Fresh(op'[p])] \in {"live", "withdrawn"}
                                       /\ Stored' => credential'.token # Fresh(op'[p])
               /\ InFlight(op'[p]) # 0 =>
                    /\ token'[InFlight(op'[p])] # "unissued"
                    /\ token'[InFlight(op'[p])] = "spent" =>
                         InFlight(op'[p]) \in strayed' \/ Fresh(op'[p]) # 0
               /\ Refused(op'[p]) # 0 => Explained(Refused(op[p]))'
    <3>1. CASE p = o
      BY <1>1, <1>2, <1>3, <1>c, <3>1 DEF Stored
    <3>2. CASE p # o
      <4>1. Fresh(op[p]) # 0 => /\ token'[Fresh(op[p])] \in {"live", "withdrawn"}
                                /\ Stored' => credential'.token # Fresh(op[p])
        BY <1>0, <1>2, <1>5, <1>t DEF InHand, Stored
      <4>2. ASSUME InFlight(op[p]) # 0
            PROVE  /\ token'[InFlight(op[p])] # "unissued"
                   /\ token'[InFlight(op[p])] = "spent" =>
                        InFlight(op[p]) \in strayed' \/ Fresh(op[p]) # 0
        <5>1. CASE InFlight(op[p]) = s
          BY <1>2, <1>6, <3>2, <5>1
        <5>2. CASE InFlight(op[p]) # s
          <6>1. token'[InFlight(op[p])] = token[InFlight(op[p])]
            BY <1>2, <1>5, <1>t, <4>2, <5>2
          <6> QED
            BY <1>0, <4>2, <6>1 DEF InHand
        <5> QED
          BY <5>1, <5>2
      <4>3. Refused(op[p]) # 0 => Explained(Refused(op[p])) /\ Refused(op[p]) \in Tokens
        BY <1>0, <1>t DEF InHand
      <4> QED
        BY <1>1, <1>4, <3>2, <4>1, <4>2, <4>3
    <3> QED
      BY <3>1, <3>2
  <2>2. ASSUME NEW p \in CredOps, NEW q \in CredOps
        PROVE  /\ Fresh(op'[p]) # 0 => /\ Fresh(op'[p]) # InFlight(op'[q])
                                       /\ p # q => Fresh(op'[p]) # Fresh(op'[q])
               /\ p # q /\ InFlight(op'[p]) # 0 /\ InFlight(op'[p]) = InFlight(op'[q])
                    => InFlight(op'[p]) \in strayed'
    BY <1>0, <1>1, <1>2, <1>5, <1>6 DEF InHand
  <2> QED
    BY <2>1, <2>2 DEF InHand
<1>8. InRow'
  <2>1. ASSUME Stored, credential.token # 0
        PROVE  /\ token'[credential.token] # "unissued"
               /\ token'[credential.token] = "spent" =>
                    \/ credential.token \in strayed'
                    \/ \E p \in CredOps : InFlight(op'[p]) = credential.token /\ Fresh(op'[p]) # 0
    <3>1. CASE credential.token = s
      BY <1>1, <1>2, <1>3, <3>1
    <3>2. CASE credential.token # s
      <4>1. token'[credential.token] = token[credential.token]
        BY <1>2, <1>c, <2>1, <3>2
      <4>2. token[credential.token] # "unissued"
        BY <1>0, <2>1 DEF InRow
      <4>3. ASSUME token[credential.token] = "spent", credential.token \notin strayed
            PROVE  \E p \in CredOps : InFlight(op'[p]) = credential.token /\ Fresh(op'[p]) # 0
        <5>1. PICK p \in CredOps : InFlight(op[p]) = credential.token /\ Fresh(op[p]) # 0
          BY <1>0, <2>1, <4>3 DEF InRow
        <5> QED
          BY <1>1, <3>2, <5>1
      <4> QED
        BY <4>1, <4>2, <4>3
    <3> QED
      BY <3>1, <3>2
  <2>2. Stored /\ credential.status = "revoked" => Explained(credential.refused)'
    BY <1>0, <1>4, <1>c DEF InRow
  <2> QED
    BY <2>1, <2>2 DEF InRow, Stored
<1> QED
  BY <1>7, <1>8

\* The provider answers, or does not.
LEMMA ProviderSteps ==
  ASSUME CredInv, NEW o \in CredOps, Accepts(o) \/ Rejects(o) \/ Unanswered(o)
  PROVE  CredInv'
<1>0. /\ RestTypeOK /\ op \in [CredOps -> AnOp] /\ op[o] \in AnOp /\ InHand /\ InRow
      /\ UNCHANGED <<authType, accountKey, credential, rowsMade, raced>>
      /\ op[o].pc = "refreshing"
  BY CredTypes DEF CredInv, Accepts, Rejects, Unanswered, At
<1>1. /\ op[o] \in AnAttempt
      /\ op[o].kind \in {"request", "task", "test"} /\ op[o].id \in 1..MaxRows
      /\ op[o].token \in 0..MaxTokens /\ op[o].errors \in 0..3 /\ op[o].given \in 0..MaxTokens
  BY <1>0, OpShape, AttemptMoves DEF Trying
<1>2. op[o].token # 0 /\ op[o].token \in Tokens
  BY <1>0, <1>1, NumberIsNat DEF CredInv, AttemptsAreReal, Tokens
<1>3. Stored' => Stored /\ credential'.key = credential.key
  BY <1>0 DEF Stored
<1>h. Fresh(op[o]) = 0 /\ InFlight(op[o]) = op[o].token
  BY <1>0, Hands
\* The operation as it goes on.
<1>n. ASSUME NEW pc \in Trying, NEW t \in 0..MaxTokens, NEW g \in 0..MaxTokens, NEW next,
             next = [pc |-> pc, kind |-> op[o].kind, id |-> op[o].id, token |-> t,
                     errors |-> op[o].errors, given |-> g]
      PROVE  /\ next \in AnOp /\ next.pc = pc /\ next.token = t /\ next.given = g
             /\ next.kind = op[o].kind /\ next.id = op[o].id
  BY <1>1, <1>n, OpTypes
<1>z. 0 \in 0..MaxTokens
  BY NumberIsNat
<1>k. ASSUME NEW next \in AnOp, op' = [op EXCEPT ![o] = next], next.pc \in Trying
      PROVE  KeysInv'
  BY <1>0, <1>3, <1>k, AttemptKeys
\* Nothing is issued: the token stays in flight, ...
<1>5. ASSUME To(o, "accepted"), token' = token, token[op[o].token] = "live", strayed' = strayed
      PROVE  CredInv'
  <2>n. PICK next : next = [op[o] EXCEPT !.pc = "accepted"]
    OBVIOUS
  <2>1. next = [pc |-> "accepted", kind |-> op[o].kind, id |-> op[o].id, token |-> op[o].token,
                errors |-> op[o].errors, given |-> op[o].given]
    BY <1>1, <2>n, AttemptMoves
  <2>2. next \in AnOp /\ next.pc = "accepted" /\ next.token = op[o].token /\ next.given = op[o].given
    BY <1>1, <1>n, <2>1 DEF Trying
  <2>3. op' = [op EXCEPT ![o] = next]
    BY <1>0, <1>5, <2>n DEF To
  <2>4. InHand' /\ InRow'
    BY <1>0, <1>5, <1>h, <2>2, <2>3, Hands, HandsAreKept DEF CredInv, AttemptsAreReal
  <2>5. RestTypeOK'
    BY <1>0, <1>5 DEF RestTypeOK
  <2>6. KeysInv'
    BY <1>k, <2>2, <2>3 DEF Trying
  <2> QED
    BY <1>2, <2>2, <2>3, <2>4, <2>5, <2>6, OperationMoves
\* ... or another token is, in its place, ...
<1>6. ASSUME NEW t \in Tokens, Issue(t, {op[o].token}), token[op[o].token] = "live",
             op' = [op EXCEPT ![o] = [@ EXCEPT !.pc = "accepted", !.given = t]], strayed' = strayed
      PROVE  CredInv'
  <2>n. PICK next : next = [op[o] EXCEPT !.pc = "accepted", !.given = t]
    OBVIOUS
  <2>1. next = [pc |-> "accepted", kind |-> op[o].kind, id |-> op[o].id, token |-> op[o].token,
                errors |-> op[o].errors, given |-> t]
    BY <1>1, <2>n, AttemptMoves
  <2>t. t \in 0..MaxTokens /\ t # 0
    BY NumberIsNat DEF Tokens
  <2>2. next \in AnOp /\ next.pc = "accepted" /\ next.token = op[o].token /\ next.given = t
    BY <1>1, <1>n, <2>1, <2>t DEF Trying
  <2>3. op' = [op EXCEPT ![o] = next]
    BY <1>0, <1>6, <2>n
  <2>4. Fresh(next) = t /\ InFlight(next) = op[o].token /\ Refused(next) = 0
    BY <2>2, Hands
  <2>5. InHand' /\ InRow'
    BY <1>0, <1>2, <1>6, <1>h, <2>2, <2>3, <2>4, ProviderIssues
  <2>6. RestTypeOK'
    BY <1>0, <1>6, IssueTypes DEF RestTypeOK
  <2>7. KeysInv'
    BY <1>k, <2>2, <2>3 DEF Trying
  <2> QED
    BY <1>2, <2>2, <2>3, <2>5, <2>6, <2>7, OperationMoves
<1>7. CASE Accepts(o)
  BY <1>0, <1>5, <1>6, <1>7 DEF Accepts
\* ... or the token is refused: it was withdrawn, or it is marked, ...
<1>8. CASE Rejects(o)
  <2>n. PICK next : next = [op[o] EXCEPT !.pc = "rejected"]
    OBVIOUS
  <2>1. next = [pc |-> "rejected", kind |-> op[o].kind, id |-> op[o].id, token |-> op[o].token,
                errors |-> op[o].errors, given |-> op[o].given]
    BY <1>1, <2>n, AttemptMoves
  <2>2. next \in AnOp /\ next.pc = "rejected" /\ next.token = op[o].token
    BY <1>1, <1>n, <2>1 DEF Trying
  <2>3. /\ op' = [op EXCEPT ![o] = next] /\ token' = token /\ strayed' = strayed
        /\ token[op[o].token] # "live"
    BY <1>0, <1>8, <2>n DEF Rejects, To
  <2>4. Fresh(next) = 0 /\ InFlight(next) = 0 /\ Refused(next) = op[o].token
    BY <2>2, Hands
  <2>5. Explained(op[o].token)
    BY <1>0, <1>2, <1>h, <2>3 DEF Explained, InHand, RestTypeOK
  <2>6. Explained(Refused(next))'
    BY <2>3, <2>4, <2>5 DEF Explained
  <2>7. InHand' /\ InRow'
    BY <1>0, <1>h, <2>2, <2>3, <2>4, <2>6, TokensAreKept DEF Stored
  <2>8. RestTypeOK'
    BY <1>0, <2>3 DEF RestTypeOK
  <2>9. KeysInv'
    BY <1>k, <2>2, <2>3 DEF Trying
  <2> QED
    BY <1>2, <2>2, <2>3, <2>7, <2>8, <2>9, OperationMoves
\* ... or no answer arrives.
<1>9. CASE Unanswered(o)
  <2>n. PICK next : next = [op[o] EXCEPT !.pc = "failed", !.token = 0, !.given = 0]
    OBVIOUS
  <2>1. next = [pc |-> "failed", kind |-> op[o].kind, id |-> op[o].id, token |-> 0,
                errors |-> op[o].errors, given |-> 0]
    BY <1>1, <2>n, AttemptMoves
  <2>2. next \in AnOp /\ next.pc = "failed"
    BY <1>n, <1>z, <2>1 DEF Trying
  <2>3. op' = [op EXCEPT ![o] = next]
    BY <1>0, <1>9, <2>n DEF Unanswered, Leaves
  <2>4. Fresh(next) = 0 /\ InFlight(next) = 0 /\ Refused(next) = 0
    BY <2>2, Hands
  <2>5. KeysInv'
    BY <1>k, <2>2, <2>3 DEF Trying
  <2>6. CASE UNCHANGED <<token, strayed>>
    <3>1. InHand' /\ InRow'
      BY <1>0, <1>h, <2>2, <2>3, <2>4, <2>6, TokensAreKept DEF Stored
    <3>2. RestTypeOK'
      BY <1>0, <2>6 DEF RestTypeOK
    <3> QED
      BY <2>2, <2>3, <2>5, <3>1, <3>2, OperationMoves
  <2>7. ASSUME NEW t \in Tokens, Issue(t, {op[o].token}), token[op[o].token] = "live",
               strayed' = strayed \cup {op[o].token}
        PROVE  CredInv'
    <3>1. InHand' /\ InRow'
      BY <1>0, <1>2, <1>h, <2>2, <2>3, <2>4, <2>7, ProviderIssues
    <3>2. RestTypeOK'
      BY <1>0, <1>2, <2>7, IssueTypes DEF RestTypeOK
    <3> QED
      BY <2>2, <2>3, <2>5, <3>1, <3>2, OperationMoves
  <2> QED
    BY <1>9, <2>6, <2>7 DEF Unanswered
<1> QED
  BY <1>7, <1>8, <1>9

\* An attempt ends, or goes on to try the token or to fail: it has nothing in hand any more.
LEMMA AttemptEnds ==
  ASSUME CredInv, NEW o \in CredOps, NEW next \in AnOp, op' = [op EXCEPT ![o] = next],
         op[o].pc \in Trying, next.pc \in {"none", "pinging", "failed"},
         next.pc = "pinging" => next.kind = "test",
         UNCHANGED <<authType, accountKey, rowsMade, token, raced>>,
         strayed \subseteq strayed', strayed' \subseteq Tokens,
         \/ credential' = credential
         \/ /\ Stored /\ credential' \in Credential
            /\ credential'.key \in {credential.key, accountKey}
            /\ \/ credential'.token = credential.token
               \/ credential'.token = Fresh(op[o])
               \/ credential'.token = InFlight(op[o]) /\ Fresh(op[o]) = 0
            /\ credential'.status = "revoked" => Explained(credential'.refused),
         InFlight(op[o]) # 0 /\ Fresh(op[o]) # 0 =>
           InFlight(op[o]) \in strayed' \/ (Stored' /\ credential'.token = Fresh(op[o]))
  PROVE  CredInv'
<1>0. RestTypeOK /\ op \in [CredOps -> AnOp]
  BY CredTypes DEF CredInv
<1>1. RestTypeOK'
  BY <1>0 DEF RestTypeOK
<1>2. KeysInv'
  <2>1. ~Stored' \/ (Stored /\ credential'.key \in {credential.key, accountKey})
    BY DEF Stored
  <2>2. next.pc \in Trying \cup {"none"}
    BY DEF Trying
  <2> QED
    BY <2>1, <2>2, AttemptKeys
<1>3. Fresh(next) = 0 /\ InFlight(next) = 0 /\ Refused(next) = 0
  BY Hands
<1>4. Stored' => \/ Stored /\ credential'.token = credential.token
                 \/ credential'.token = Fresh(op[o])
                 \/ credential'.token = InFlight(op[o]) /\ Fresh(op[o]) = 0
  BY DEF Stored
<1>5. \A t : Explained(t) => Explained(t)'
  BY DEF Explained
<1>6. Stored' /\ credential'.status = "revoked" =>
        \/ Stored /\ credential.status = "revoked" /\ credential'.refused = credential.refused
        \/ Explained(credential.refused)'
  BY <1>5 DEF Stored
<1>7. InHand' /\ InRow'
  BY <1>3, <1>4, <1>6, TokensAreKept
<1> QED
  BY <1>1, <1>2, <1>7, OperationMoves

LEMMA AttemptSteps ==
  ASSUME CredInv, NEW o \in CredOps,
         RefreshSucceeds(o) \/ RefreshUnwritten(o) \/ RefreshFails(o) \/ Pinged(o)
  PROVE  CredInv'
<1>0. /\ RestTypeOK /\ op \in [CredOps -> AnOp] /\ op[o] \in AnOp /\ InHand /\ InRow
      /\ UNCHANGED <<authType, accountKey, rowsMade, token, raced>>
      /\ op[o].pc \in Trying
  BY CredTypes DEF CredInv, RefreshSucceeds, RefreshUnwritten, RefreshFails, Pinged, At, Trying
<1>1. /\ op[o] \in AnAttempt
      /\ op[o].kind \in {"request", "task", "test"} /\ op[o].id \in 1..MaxRows
      /\ op[o].token \in 0..MaxTokens /\ op[o].errors \in 0..3 /\ op[o].given \in 0..MaxTokens
  BY <1>0, OpShape, AttemptMoves
<1>2. NoOp \in AnOp /\ NoOp.pc = "none"
  BY OpTypes
<1>3. Stored => credential \in Credential /\ accountKey \in 1..Number
  BY TheRowIs, NumberIsNat
<1>e. MoreErrors(op[o].errors) \in 0..3 /\ 0 \in 0..3 /\ 0 \in 0..MaxTokens
  BY <1>1, NumberIsNat DEF MoreErrors
<1>s. strayed \subseteq Tokens
  BY <1>0 DEF RestTypeOK
\* The refresh is over, but not the attempt.
<1>l. ASSUME NEW pc \in {"failed", "pinging"}, Leaves(o, pc)
      PROVE  \E next \in AnOp : /\ op' = [op EXCEPT ![o] = next] /\ next.pc = pc
                                /\ next.kind = op[o].kind
  <2>1. PICK next : next = [op[o] EXCEPT !.pc = pc, !.token = 0, !.given = 0]
    OBVIOUS
  <2>2. next = [pc |-> pc, kind |-> op[o].kind, id |-> op[o].id, token |-> 0,
                errors |-> op[o].errors, given |-> 0]
    BY <1>1, <2>1, AttemptMoves
  <2>3. pc \in Trying
    BY DEF Trying
  <2>4. next \in AnOp /\ next.pc = pc /\ next.kind = op[o].kind
    BY <1>1, <1>e, <2>2, <2>3, OpTypes
  <2>5. op' = [op EXCEPT ![o] = next]
    BY <1>0, <1>l, <2>1 DEF Leaves
  <2> QED
    BY <2>4, <2>5
<1>a. ASSUME op[o].pc = "accepted"
      PROVE  /\ Fresh(op[o]) = op[o].given /\ InFlight(op[o]) = op[o].token
             /\ op[o].token # 0 /\ op[o].token \in Tokens
  BY <1>0, <1>1, <1>a, Hands, NumberIsNat DEF CredInv, AttemptsAreReal, Tokens
<1>4. CASE RefreshSucceeds(o)
  <2>1. PICK next \in AnOp :
          /\ op' = [op EXCEPT ![o] = next] /\ next.pc \in {"none", "pinging", "failed"}
          /\ next.pc = "pinging" => next.kind = "test"
    BY <1>2, <1>4, <1>l DEF RefreshSucceeds, Finish
  <2>2. op[o].pc = "accepted"
    BY <1>4 DEF RefreshSucceeds, At
  <2>3. CASE MayWrite(o)
    <3>1. Stored /\ credential' = Refreshed(o) /\ strayed' = strayed
      BY <1>4, <2>3 DEF RefreshSucceeds, MayWrite, TheRow
    <3>2. PICK t \in 0..MaxTokens : t = IF op[o].given = 0 THEN op[o].token ELSE op[o].given
      BY <1>1
    <3>3. PICK k \in 1..Number : k = accountKey
      BY <1>3, <3>1
    <3>4. credential' = [credential EXCEPT !.token = t, !.due = "later", !.status = "active",
                                           !.errors = 0, !.key = k, !.refused = 0]
      BY <3>1, <3>2, <3>3, Zenon DEF Refreshed
    <3>5. /\ credential' \in Credential /\ credential'.status = "active"
          /\ credential'.token = t /\ credential'.key = k
      BY <1>3, <1>e, <3>1, <3>4 DEF Credential, Keys, Number
    <3>6. credential'.status # "revoked" /\ Stored'
      BY <3>5, RowShape DEF Stored
    <3> QED
      BY <1>0, <1>a, <1>s, <2>1, <2>2, <3>1, <3>2, <3>3, <3>5, <3>6, AttemptEnds
  <2>4. CASE ~MayWrite(o)
    <3>1. credential' = credential /\ Strays(o)
      BY <1>4, <2>4 DEF RefreshSucceeds
    <3>2. /\ strayed \subseteq strayed' /\ strayed' \subseteq Tokens
          /\ op[o].given # 0 => op[o].token \in strayed'
      BY <1>a, <1>s, <2>2, <3>1 DEF Strays
    <3> QED
      BY <1>0, <1>a, <2>1, <2>2, <3>1, <3>2, AttemptEnds
  <2> QED
    BY <2>3, <2>4
<1>5. CASE RefreshUnwritten(o)
  <2>1. PICK next \in AnOp : op' = [op EXCEPT ![o] = next] /\ next.pc = "failed"
    BY <1>5, <1>l DEF RefreshUnwritten
  <2>2. op[o].pc = "accepted" /\ credential' = credential /\ Strays(o)
    BY <1>5 DEF RefreshUnwritten, At
  <2>3. /\ strayed \subseteq strayed' /\ strayed' \subseteq Tokens
        /\ op[o].given # 0 => op[o].token \in strayed'
    BY <1>a, <1>s, <2>2 DEF Strays
  <2> QED
    BY <1>0, <1>a, <2>1, <2>2, <2>3, AttemptEnds
<1>6. CASE RefreshFails(o)
  <2>1. /\ op' = [op EXCEPT ![o] = NoOp] /\ op[o].pc \in {"rejected", "failed", "expiring"}
        /\ strayed' = strayed
    BY <1>6 DEF RefreshFails, Finish, At
  <2>h. /\ Fresh(op[o]) = 0 /\ InFlight(op[o]) = 0
        /\ op[o].pc = "rejected" => Explained(op[o].token)
    BY <1>0, <2>1, Hands DEF InHand, CredInv, AttemptsAreReal
  <2>2. CASE credential' = credential
    BY <1>0, <1>2, <1>s, <2>1, <2>2, <2>h, AttemptEnds
  <2>3. CASE credential' # credential
    <3>1. PICK st : st = StatusAfter(o)
      OBVIOUS
    <3>2. st \in {"active", "expired", "revoked", "error"} /\ (st = "revoked" => op[o].pc = "rejected")
      BY <3>1 DEF StatusAfter, At
    <3>3. PICK r \in 0..MaxTokens : r = IF st = "revoked" THEN op[o].token ELSE 0
      BY <1>1, <1>e
    <3>n. PICK n \in 0..3 : n = MoreErrors(op[o].errors)
      BY <1>e
    <3>4. Stored /\ credential \in Credential
          /\ credential' = [credential EXCEPT !.status = st, !.errors = n, !.refused = r]
      BY <1>3, <1>6, <2>3, <3>1, <3>3, <3>n DEF RefreshFails, MayWrite, TheRow
    <3>5. /\ credential' \in Credential /\ credential'.status = st
          /\ credential'.token = credential.token /\ credential'.key = credential.key
          /\ credential'.refused = r
      BY <3>2, <3>4 DEF Credential
    <3>6. credential'.status = "revoked" => Explained(credential'.refused)
      BY <2>h, <3>2, <3>3, <3>5
    <3> QED
      BY <1>0, <1>2, <1>s, <2>1, <2>h, <3>4, <3>5, <3>6, AttemptEnds
  <2> QED
    BY <2>2, <2>3
<1>7. CASE Pinged(o)
  <2>1. op' = [op EXCEPT ![o] = NoOp] /\ op[o].pc = "pinging" /\ strayed' = strayed
    BY <1>7 DEF Pinged, Finish, At
  <2>h. Fresh(op[o]) = 0 /\ InFlight(op[o]) = 0
    BY <1>0, <2>1, Hands
  <2>2. CASE credential' = credential
    BY <1>0, <1>2, <1>s, <2>1, <2>2, <2>h, AttemptEnds
  <2>3. CASE credential' # credential
    <3>1. PICK st \in {"active", "error"}, n \in 0..3 :
            Stored /\ credential' = [credential EXCEPT !.status = st, !.errors = n, !.refused = 0]
      BY <1>3, <1>7, <1>e, <2>3 DEF Pinged, TheRow, Credential
    <3>2. /\ credential' \in Credential /\ credential'.status = st
          /\ credential'.token = credential.token /\ credential'.key = credential.key
      BY <1>3, <1>e, <3>1 DEF Credential
    <3> QED
      BY <1>0, <1>2, <1>s, <2>1, <2>h, <3>1, <3>2, AttemptEnds
  <2> QED
    BY <2>2, <2>3
<1> QED
  BY <1>4, <1>5, <1>6, <1>7

\* The row goes or ages, a token is withdrawn: no operation moves.
LEMMA CredRests ==
  ASSUME CredInv, UNCHANGED <<op, accountKey, strayed, raced>>, RestTypeOK',
         Stored' => /\ Stored /\ credential'.key = credential.key
                    /\ credential'.token = credential.token
                    /\ credential'.status = credential.status
                    /\ credential'.refused = credential.refused,
         \A t \in Tokens : token'[t] = token[t] \/ (token[t] = "live" /\ token'[t] = "withdrawn")
  PROVE  CredInv'
<1>0. RestTypeOK /\ op \in [CredOps -> AnOp] /\ InHand /\ InRow
  BY CredTypes DEF CredInv
<1>1. CredTypeOK'
  BY <1>0 DEF CredTypeOK, RestTypeOK, AnOp, Number, Keys
<1>2. KeysInv' /\ AttemptsAreReal'
  BY DEF CredInv, KeysInv, AttemptsAreReal
<1>t. \A p \in CredOps : /\ Fresh(op[p]) # 0 => Fresh(op[p]) \in Tokens
                         /\ InFlight(op[p]) # 0 => InFlight(op[p]) \in Tokens
                         /\ Refused(op[p]) # 0 => Refused(op[p]) \in Tokens
  BY <1>0, Hands
<1>e. \A u \in Tokens : Explained(u) => Explained(u)'
  BY DEF Explained
<1>c. Stored => /\ credential.token # 0 => credential.token \in Tokens
                /\ credential.status = "revoked" => credential.refused \in Tokens
  <2>1. Stored => credential \in Credential
    BY TheRowIs
  <2>2. Stored /\ credential.status = "revoked" => credential.refused # 0
    BY <1>0 DEF InRow, Explained
  <2> QED
    BY <2>1, <2>2, RowShape, NumberIsNat DEF Tokens
<1>3. InHand'
  <2>1. ASSUME NEW p \in CredOps
        PROVE  /\ Fresh(op[p]) # 0 => /\ token'[Fresh(op[p])] \in {"live", "withdrawn"}
                                      /\ Stored' => credential'.token # Fresh(op[p])
               /\ InFlight(op[p]) # 0 =>
                    /\ token'[InFlight(op[p])] # "unissued"
                    /\ token'[InFlight(op[p])] = "spent" =>
                         InFlight(op[p]) \in strayed \/ Fresh(op[p]) # 0
               /\ Refused(op[p]) # 0 => Explained(Refused(op[p]))'
    <3>1. Fresh(op[p]) # 0 => /\ token'[Fresh(op[p])] \in {"live", "withdrawn"}
                              /\ Stored' => credential'.token # Fresh(op[p])
      BY <1>0, <1>t DEF InHand
    <3>2. InFlight(op[p]) # 0 =>
            /\ token'[InFlight(op[p])] # "unissued"
            /\ token'[InFlight(op[p])] = "spent" => InFlight(op[p]) \in strayed \/ Fresh(op[p]) # 0
      BY <1>0, <1>t DEF InHand
    <3>3. Refused(op[p]) # 0 => Explained(Refused(op[p])) /\ Refused(op[p]) \in Tokens
      BY <1>0, <1>t DEF InHand
    <3> QED
      BY <1>e, <3>1, <3>2, <3>3
  <2> QED
    BY <1>0, <2>1 DEF InHand
<1>4. InRow'
  <2>1. ASSUME Stored'
        PROVE  /\ credential.token # 0 =>
                    /\ token'[credential.token] # "unissued"
                    /\ token'[credential.token] = "spent" => token[credential.token] = "spent"
               /\ credential.status = "revoked" => Explained(credential.refused)
                                                /\ credential.refused \in Tokens
    BY <1>0, <1>c, <2>1 DEF InRow
  <2>2. ASSUME Stored' PROVE credential'.refused = credential.refused
    BY <2>2
  <2>3. Stored' /\ credential'.status = "revoked" => Explained(credential.refused)'
    BY <2>1, <2>2 DEF Explained
  <2> QED
    BY <1>0, <2>1, <2>3 DEF InRow
<1> QED
  BY <1>1, <1>2, <1>3, <1>4 DEF CredInv

LEMMA CredSteps == CredInv /\ [CredNext]_credVars => CredInv'
<1> SUFFICES ASSUME CredInv, [CredNext]_credVars PROVE CredInv'
  OBVIOUS
<1>0. RestTypeOK /\ op \in [CredOps -> AnOp]
  BY CredTypes DEF CredInv
<1>1. ASSUME NEW o \in CredOps, getAccessToken(o)
      PROVE  CredInv'
  <2>1. CASE credential.token = 0
    BY <1>1, <2>1, AttemptBegins DEF getAccessToken
  <2>2. CASE credential.token # 0
    BY <1>1, <2>2, RefreshBegins DEF getAccessToken
  <2> QED
    BY <2>1, <2>2
<1>2. ASSUME NEW o \in CredOps, refreshExpiring(o)
      PROVE  CredInv'
  <2>1. CASE credential.key = accountKey
    BY <1>2, <2>1, RefreshBegins DEF refreshExpiring
  <2>2. CASE credential.key # accountKey
    BY <1>2, <2>2, AttemptBegins DEF refreshExpiring
  <2> QED
    BY <2>1, <2>2
<1>3. ASSUME NEW o \in CredOps, testCredential(o)
      PROVE  CredInv'
  <2>1. CASE Stored /\ credential.key = accountKey
               /\ ~(authType = "oauth" /\ credential.due = "past" /\ credential.token = 0)
    <3>1. CASE authType = "oauth" /\ credential.due = "past"
      BY <1>3, <2>1, <3>1, RefreshBegins DEF testCredential
    <3>2. CASE ~(authType = "oauth" /\ credential.due = "past")
      BY <1>3, <2>1, <3>2, AttemptBegins DEF testCredential
    <3> QED
      BY <3>1, <3>2
  <2>2. CASE ~(Stored /\ credential.key = accountKey
               /\ ~(authType = "oauth" /\ credential.due = "past" /\ credential.token = 0))
    <3>1. /\ op[o].pc = "verifying" /\ op' = [op EXCEPT ![o] = NoOp]
          /\ UNCHANGED <<authType, accountKey, credential, rowsMade, token, strayed, raced>>
      BY <1>3, <2>2 DEF testCredential, At, Finish
    <3>2. RestTypeOK'
      BY <1>0, <3>1 DEF RestTypeOK
    <3>3. NoOp \in AnOp /\ NoOp.pc = "none"
      BY OpTypes
    <3>4. KeysInv'
      BY <3>1, <3>3, AttemptKeys DEF Stored
    <3>5. /\ Fresh(NoOp) = 0 /\ InFlight(NoOp) = 0 /\ Refused(NoOp) = 0
          /\ Fresh(op[o]) = 0 /\ InFlight(op[o]) = 0
      BY <1>0, <3>1, <3>3, Hands
    <3>6. InHand' /\ InRow'
      BY <3>1, <3>3, <3>5, TokensAreKept DEF Stored
    <3> QED
      BY <3>1, <3>2, <3>3, <3>4, <3>6, OperationMoves
  <2> QED
    BY <2>1, <2>2
<1>4. CASE deleteCredential
  BY <1>0, <1>4, CredRests DEF deleteCredential, RestTypeOK, Stored
<1>5. CASE Ages
  <2>1. PICK due \in {"soon", "past"} : credential' = [credential EXCEPT !.due = due]
    BY <1>5 DEF Ages
  <2>2. Stored /\ credential \in Credential
        /\ UNCHANGED <<authType, accountKey, rowsMade, token, op, strayed, raced>>
    BY <1>5, TheRowIs DEF Ages
  <2>3. /\ credential' \in Credential /\ credential'.id = credential.id
        /\ credential'.key = credential.key /\ credential'.token = credential.token
        /\ credential'.status = credential.status /\ credential'.refused = credential.refused
    BY <2>1, <2>2 DEF Credential
  <2> QED
    BY <1>0, <2>2, <2>3, CredRests DEF RestTypeOK
<1>6. CASE Withdraw
  <2>1. /\ token' \in [Tokens -> {"unissued", "live", "spent", "withdrawn"}]
        /\ \A t \in Tokens : token'[t] = token[t]
                             \/ (token[t] = "live" /\ token'[t] = "withdrawn")
    BY <1>0, <1>6 DEF Withdraw, RestTypeOK
  <2> QED
    BY <1>0, <1>6, <2>1, CredRests DEF Withdraw, RestTypeOK, Stored
<1>7. CASE UNCHANGED credVars
  BY <1>0, <1>7, CredRests DEF credVars, RestTypeOK, Stored
<1> QED
  BY <1>1, <1>2, <1>3, <1>4, <1>5, <1>6, <1>7, StoreBegins, StoreSteps, StoreEnds, ProviderSteps,
     AttemptSteps DEF CredNext

\* Whatever operations overlap, the refresh token that is stored is none the provider has taken
\* back, unless that token was sent twice at a time or its successor was not written; "revoked"
\* means that the token that was refused was withdrawn, or one of those; and the key that opens
\* the row is the user's, unless it was made while another was being made.
THEOREM CredentialsKeepWorking == CredSpec => []CredentialsWork
<1>1. CredInv => CredentialsWork
  <2> SUFFICES ASSUME CredInv PROVE CredentialsWork
    OBVIOUS
  <2>0. op \in [CredOps -> AnOp]
    BY CredTypes DEF CredInv
  <2>1. StoredTokenIsUnspent
    <3>1. ASSUME NEW o \in CredOps, InFlight(op[o]) # 0, Fresh(op[o]) # 0
          PROVE  At(o, "accepted") /\ op[o].token = InFlight(op[o])
      BY <3>1 DEF InFlight, Fresh, At, Keying
    <3> QED
      BY <3>1 DEF CredInv, InRow, StoredTokenIsUnspent
  <2>2. RevokedIsWithdrawn
    BY DEF CredInv, InRow, RevokedIsWithdrawn, Explained
  <2>3. KeyOpensRow
    BY DEF CredInv, KeysInv, KeyOpensRow
  <2> QED
    BY <2>1, <2>2, <2>3 DEF CredInv, CredentialsWork
<1>2. CredSpec => []CredInv
  BY CredStarts, CredSteps, PTL DEF CredSpec
<1> QED
  BY <1>1, <1>2, PTL

\* A revoked credential comes back only by what the user or a job did about it: the periodic
\* task of refreshExpiring looks at the status once more before it writes.
THEOREM RevokedStaysRevoked == CredSpec => RevokedStaysForTask
<1> DEFINE Stay ==
      Stored /\ credential.status = "revoked" /\ credential' # NoRow /\ credential'.status = "active"
        => \E o \in CredOps : \/ At(o, "updating")
                              \/ op[o].pc \in {"accepted", "pinging"} /\ op[o].kind # "task"
<1>1. CredInv /\ [CredNext]_credVars => Stay
  <2> SUFFICES ASSUME CredInv, [CredNext]_credVars, Stored, credential.status = "revoked",
                      credential' # NoRow, credential'.status = "active"
               PROVE  \E o \in CredOps : \/ At(o, "updating")
                                         \/ /\ op[o].pc \in {"accepted", "pinging"}
                                            /\ op[o].kind # "task"
    OBVIOUS
  <2>0. credential \in Credential /\ credential' # credential
    BY TheRowIs
  <2>1. \/ Ages
        \/ \E o \in CredOps : \/ UpdateRow(o) \/ InsertRow(o) \/ RefreshSucceeds(o)
                              \/ RefreshFails(o) \/ Pinged(o)
    BY <2>0 DEF CredNext, credVars, storeOAuth, storeApiKey, ensureUserKey, MakeKey, LookForRow,
         getAccessToken, refreshExpiring, testCredential, Accepts, Rejects, Unanswered, RefreshUnwritten,
         deleteCredential, Withdraw
  <2>2. CASE Ages
    <3>1. credential' = [credential EXCEPT !.due = IF @ = "later" THEN "soon" ELSE "past"]
      BY <2>2 DEF Ages
    <3>2. credential'.status = credential.status
      BY <2>0, <3>1 DEF Credential
    <3> QED
      BY <3>2
  <2>3. ASSUME NEW o \in CredOps, UpdateRow(o)
        PROVE  At(o, "updating")
    BY <2>3 DEF UpdateRow
  <2>4. ASSUME NEW o \in CredOps, InsertRow(o)
        PROVE  FALSE
    BY <2>0, <2>4 DEF InsertRow
  <2>5. ASSUME NEW o \in CredOps, RefreshSucceeds(o)
        PROVE  op[o].pc = "accepted" /\ op[o].kind # "task"
    BY <2>0, <2>5 DEF RefreshSucceeds, MayWrite, At
  <2>6. ASSUME NEW o \in CredOps, RefreshFails(o)
        PROVE  FALSE
    <3>1. /\ op[o].kind # "task" /\ op[o].pc \in {"rejected", "failed", "expiring"}
          /\ credential' = [credential EXCEPT !.status = StatusAfter(o),
                               !.errors = MoreErrors(op[o].errors),
                               !.refused = IF StatusAfter(o) = "revoked" THEN op[o].token ELSE 0]
      BY <2>0, <2>6 DEF RefreshFails, MayWrite, At
    <3>2. credential'.status = StatusAfter(o)
      BY <2>0, <3>1 DEF Credential
    <3> QED
      BY <3>1, <3>2 DEF StatusAfter
  <2>7. ASSUME NEW o \in CredOps, Pinged(o)
        PROVE  op[o].pc = "pinging" /\ op[o].kind # "task"
    BY <2>7 DEF Pinged, At, CredInv, AttemptsAreReal
  <2> QED
    BY <2>1, <2>2, <2>3, <2>4, <2>5, <2>6, <2>7
<1>2. CredInv /\ [CredNext]_credVars => [Stay]_credVars
  BY <1>1
<1>3. CredSpec => []CredInv
  BY CredStarts, CredSteps, PTL DEF CredSpec
<1> QED
  BY <1>2, <1>3, PTL DEF CredSpec, RevokedStaysForTask

-----------------------------------------------------------------------------

(*****************************************************************************)
(* Logins, accounts and the sessions of browsers.                            *)
(*****************************************************************************)

Profiled == {"byIdentity", "byEmail", "inserting"}
Found    == {"updating", "linking"}
Reads    == {"sliding", "deleting"}

\* The records of what is in flight: which fields they have, and what a move makes of them.
LEMMA LoginShape ==
  ASSUME NEW x \in Login \cup {NoLogin}
  PROVE  /\ x.pc \in Profiled \cup Found \cup Reads \cup {"creating", "exchanging", "none"}
         /\ x.pc = "none" => x = NoLogin
         /\ x.pc \in Profiled =>
              /\ x.identity \in Identities /\ x.email \in Emails
              /\ \A pc \in Profiled :
                   [x EXCEPT !.pc = pc] = [pc |-> pc, identity |-> x.identity, email |-> x.email]
         /\ x.pc \in Found =>
              x.identity \in Identities /\ x.email \in Emails /\ x.account \in Accounts
         /\ x.pc = "creating" => x.identity \in Identities /\ x.account \in Accounts
         /\ x.pc \in Reads => x.cookie \in Cookies
         /\ x.pc = "exchanging" => x.nonce \in Nonces
<1>1. CASE x \in [pc: Profiled, identity: Identities, email: Emails]
  BY <1>1 DEF Profiled, Found, Reads
<1>2. CASE x \in [pc: Found, identity: Identities, email: Emails, account: Accounts]
  BY <1>2 DEF Profiled, Found, Reads
<1>3. CASE x \in [pc: {"creating"}, identity: Identities, account: Accounts]
  BY <1>3 DEF Profiled, Found, Reads
<1>4. CASE x \in [pc: Reads, cookie: Cookies]
  BY <1>4 DEF Profiled, Found, Reads
<1>5. CASE x \in [pc: {"exchanging"}, nonce: Nonces]
  BY <1>5 DEF Profiled, Found, Reads
<1>6. CASE x = NoLogin
  BY <1>6 DEF NoLogin, Profiled, Found, Reads
<1> QED
  BY <1>1, <1>2, <1>3, <1>4, <1>5, <1>6 DEF Login, Profiled, Found, Reads

LEMMA LoginTypes ==
  /\ NoLogin.pc = "none"
  /\ \A pc \in Profiled, i \in Identities, e \in Emails :
       /\ [pc |-> pc, identity |-> i, email |-> e] \in Login
       /\ [pc |-> pc, identity |-> i, email |-> e].pc = pc
  /\ \A pc \in Found, i \in Identities, e \in Emails, a \in Accounts :
       /\ [pc |-> pc, identity |-> i, email |-> e, account |-> a] \in Login
       /\ [pc |-> pc, identity |-> i, email |-> e, account |-> a].pc = pc
       /\ [pc |-> pc, identity |-> i, email |-> e, account |-> a].account = a
  /\ \A i \in Identities, a \in Accounts :
       /\ [pc |-> "creating", identity |-> i, account |-> a] \in Login
       /\ [pc |-> "creating", identity |-> i, account |-> a].pc = "creating"
  /\ \A pc \in Reads, k \in Cookies :
       /\ [pc |-> pc, cookie |-> k] \in Login
       /\ [pc |-> pc, cookie |-> k].pc = pc /\ [pc |-> pc, cookie |-> k].cookie = k
  /\ \A n \in Nonces :
       /\ [pc |-> "exchanging", nonce |-> n] \in Login
       /\ [pc |-> "exchanging", nonce |-> n].pc = "exchanging"
       /\ [pc |-> "exchanging", nonce |-> n].nonce = n
<1>1. NoLogin.pc = "none"
  BY DEF NoLogin
<1>2. \A pc \in Profiled, i \in Identities, e \in Emails :
       /\ [pc |-> pc, identity |-> i, email |-> e] \in Login
       /\ [pc |-> pc, identity |-> i, email |-> e].pc = pc
  BY DEF Login, Profiled
<1>3. \A pc \in Found, i \in Identities, e \in Emails, a \in Accounts :
       /\ [pc |-> pc, identity |-> i, email |-> e, account |-> a] \in Login
       /\ [pc |-> pc, identity |-> i, email |-> e, account |-> a].pc = pc
       /\ [pc |-> pc, identity |-> i, email |-> e, account |-> a].account = a
  BY DEF Login, Found
<1>4. \A i \in Identities, a \in Accounts :
       /\ [pc |-> "creating", identity |-> i, account |-> a] \in Login
       /\ [pc |-> "creating", identity |-> i, account |-> a].pc = "creating"
  BY DEF Login
<1>5. \A pc \in Reads, k \in Cookies :
       /\ [pc |-> pc, cookie |-> k] \in Login
       /\ [pc |-> pc, cookie |-> k].pc = pc /\ [pc |-> pc, cookie |-> k].cookie = k
  BY DEF Login, Reads
<1>6. \A n \in Nonces :
       /\ [pc |-> "exchanging", nonce |-> n] \in Login
       /\ [pc |-> "exchanging", nonce |-> n].pc = "exchanging"
       /\ [pc |-> "exchanging", nonce |-> n].nonce = n
  BY DEF Login
<1> QED
  BY <1>1, <1>2, <1>3, <1>4, <1>5, <1>6

-----------------------------------------------------------------------------
(* The invariant.                                                            *)

\* Accounts are not deleted: the one a login found, or wrote, is a row still.
FoundExists ==
  \A l \in Logins : login[l].pc \in Found => AccountExists(login[l].account)

\* The unique indexes of user_account.
RowsAreUnique ==
  \A a, b \in Accounts : AccountExists(a) /\ AccountExists(b) /\ a # b =>
    account[a].identity # account[b].identity /\ account[a].email # account[b].email

\* What is exchanged was taken out of the map: no other callback finds it there.
ExchangedIsTaken ==
  \A l \in Logins : Waits(l, "exchanging") => verifier[login[l].nonce] = "taken"

SignInInv ==
  /\ SignInTypeOK /\ FoundExists /\ RowsAreUnique /\ ExchangedIsTaken /\ VerifierIsSpentOnce

LEMMA SignInStarts == SignInInit => SignInInv
<1> SUFFICES ASSUME SignInInit PROVE SignInInv
  OBVIOUS
<1>1. SignInTypeOK
  BY DEF SignInInit, SignInTypeOK
<1>2. FoundExists /\ ExchangedIsTaken /\ VerifierIsSpentOnce
  BY LoginTypes DEF SignInInit, FoundExists, ExchangedIsTaken, VerifierIsSpentOnce, Waits, Found
<1>3. RowsAreUnique
  BY DEF SignInInit, RowsAreUnique, AccountExists
<1> QED
  BY <1>1, <1>2, <1>3 DEF SignInInv

\* A step that leaves the accounts, the sessions and the verifiers alone and moves one login, to
\* where it neither holds an account nothing shows to exist nor a verifier.
LEMMA LoginMoves ==
  ASSUME SignInInv, NEW l \in Logins, NEW rec \in Login \cup {NoLogin},
         Continue(l, rec), UNCHANGED <<emailAt, account, cookie, home, verifier>>,
         rec.pc # "exchanging", rec.pc \in Found => AccountExists(rec.account)
  PROVE  SignInInv'
<1>1. SignInTypeOK'
  BY DEF SignInInv, SignInTypeOK, Continue
<1>2. FoundExists'
  BY DEF SignInInv, SignInTypeOK, Continue, FoundExists, AccountExists
<1>3. RowsAreUnique'
  BY DEF SignInInv, RowsAreUnique, AccountExists
<1>4. ExchangedIsTaken' /\ VerifierIsSpentOnce'
  BY DEF SignInInv, SignInTypeOK, Continue, ExchangedIsTaken, VerifierIsSpentOnce, Waits
<1> QED
  BY <1>1, <1>2, <1>3, <1>4 DEF SignInInv

\* An UPDATE or INSERT of an account, which the indexes let through or refuse.
LEMMA AccountWritten ==
  ASSUME SignInInv, NEW l \in Logins, NEW a \in Accounts, NEW rec \in Account,
         login[l].identity \in Identities,
         Writes(l, a, rec), UNCHANGED <<emailAt, cookie, home, verifier>>
  PROVE  SignInInv'
<1>1. CASE ~(HasIdentity(rec.identity) \subseteq {a} /\ HasEmail(rec.email) \subseteq {a})
  <2>1. Continue(l, NoLogin) /\ UNCHANGED <<emailAt, account, cookie, home, verifier>>
    BY <1>1 DEF Writes, Leave, Continue
  <2> QED
    BY <2>1, LoginMoves, LoginTypes DEF Found
<1>2. CASE HasIdentity(rec.identity) \subseteq {a} /\ HasEmail(rec.email) \subseteq {a}
  <2> DEFINE next == [pc |-> "creating", identity |-> login[l].identity, account |-> a]
  <2>1. next \in Login /\ next.pc = "creating"
    BY LoginTypes
  <2>2. account' = [account EXCEPT ![a] = rec] /\ login' = [login EXCEPT ![l] = next]
    BY <1>2 DEF Writes, Continue
  <2> HIDE DEF next
  <2>0. rec # NoAccount
    BY DEF Account, NoAccount
  <2>3. SignInTypeOK'
    BY <2>1, <2>2 DEF SignInInv, SignInTypeOK
  <2>4. \A b \in Accounts : AccountExists(b) => AccountExists(b)'
    BY <2>0, <2>2 DEF SignInInv, SignInTypeOK, AccountExists
  <2>5. FoundExists'
    <3> SUFFICES ASSUME NEW m \in Logins, login'[m].pc \in Found
                 PROVE  account'[login'[m].account] # NoAccount
      BY DEF FoundExists, AccountExists
    <3>1. m # l /\ login'[m] = login[m]
      BY <2>1, <2>2 DEF SignInInv, SignInTypeOK, Found
    <3>2. login[m].account \in Accounts /\ AccountExists(login[m].account)
      BY <3>1, LoginShape DEF SignInInv, SignInTypeOK, FoundExists
    <3> QED
      BY <3>1, <3>2, <2>4 DEF AccountExists
  <2>6. RowsAreUnique'
    <3> SUFFICES ASSUME NEW b \in Accounts, NEW c \in Accounts, b # c,
                        AccountExists(b)', AccountExists(c)'
                 PROVE  /\ account'[b].identity # account'[c].identity
                        /\ account'[b].email # account'[c].email
      BY DEF RowsAreUnique
    <3>1. ASSUME NEW d \in Accounts, d # a, AccountExists(d)'
          PROVE  /\ account'[d] = account[d]
                 /\ account[d].identity # rec.identity /\ account[d].email # rec.email
      BY <3>1, <1>2, <2>2 DEF SignInInv, SignInTypeOK, AccountExists, HasIdentity, HasEmail
    <3>2. account'[a] = rec
      BY <2>2 DEF SignInInv, SignInTypeOK
    <3>3. CASE b = a
      BY <3>1, <3>2, <3>3
    <3>4. CASE c = a
      BY <3>1, <3>2, <3>4
    <3>5. CASE b # a /\ c # a
      BY <3>1, <3>5 DEF SignInInv, RowsAreUnique, AccountExists
    <3> QED
      BY <3>3, <3>4, <3>5
  <2>7. ExchangedIsTaken' /\ VerifierIsSpentOnce'
    BY <2>1, <2>2 DEF SignInInv, SignInTypeOK, ExchangedIsTaken, VerifierIsSpentOnce, Waits
  <2> QED
    BY <2>3, <2>5, <2>6, <2>7 DEF SignInInv
<1> QED
  BY <1>1, <1>2

\* A step that moves no login to another record than NoLogin, and takes no verifier back.
LEMMA OthersMove ==
  ASSUME SignInInv, SignInTypeOK', UNCHANGED account,
         \A l \in Logins : login'[l] = login[l] \/ login'[l] = NoLogin,
         \A n \in Nonces : verifier[n] = "taken" => verifier'[n] = "taken"
  PROVE  SignInInv'
<1>1. FoundExists'
  BY LoginTypes DEF SignInInv, FoundExists, AccountExists, Found
<1>2. RowsAreUnique'
  BY DEF SignInInv, RowsAreUnique, AccountExists
<1>3. \A l \in Logins : Waits(l, "exchanging")' =>
        login'[l] = login[l] /\ Waits(l, "exchanging") /\ login[l].nonce \in Nonces
  BY LoginTypes, LoginShape DEF SignInInv, SignInTypeOK, Waits
<1>4. ExchangedIsTaken' /\ VerifierIsSpentOnce'
  BY <1>3 DEF SignInInv, ExchangedIsTaken, VerifierIsSpentOnce
<1> QED
  BY <1>1, <1>2, <1>4 DEF SignInInv

LEMMA SignInSteps == SignInInv /\ [SignInNext]_signInVars => SignInInv'
<1> SUFFICES ASSUME SignInInv, [SignInNext]_signInVars PROVE SignInInv'
  OBVIOUS
<1> USE DEF Waits
<1>0. /\ SignInTypeOK
      /\ \A l \in Logins : login[l] \in Login \cup {NoLogin}
      /\ \A k \in Cookies : cookie[k] \in Cookie \cup {NoCookie}
  BY DEF SignInInv, SignInTypeOK
<1>a. \A k \in Cookies : cookie[k].life # "absent" => cookie[k] \in Cookie /\ cookie[k] # NoCookie
  BY <1>0 DEF Cookie, NoCookie
<1>1. ASSUME NEW l \in Logins, NEW i \in Identities, LoginCallback(l, i)
      PROVE  SignInInv'
  <2>1. Profile(i) \in Login /\ Profile(i).pc = "byIdentity"
    BY <1>0, LoginTypes DEF SignInTypeOK, Profile, Profiled
  <2> QED
    BY <1>1, <2>1, LoginMoves DEF LoginCallback, Found
<1>2. ASSUME NEW l \in Logins, FindByIdentity(l)
      PROVE  SignInInv'
  <2>0. /\ login[l].pc = "byIdentity"
        /\ login[l].identity \in Identities /\ login[l].email \in Emails
        /\ [login[l] EXCEPT !.pc = "byEmail"]
             = [pc |-> "byEmail", identity |-> login[l].identity, email |-> login[l].email]
    BY <1>0, <1>2, LoginShape DEF FindByIdentity, Profiled
  <2>1. CASE HasIdentity(login[l].identity) = {}
    <3> DEFINE next == [pc |-> "byEmail", identity |-> login[l].identity, email |-> login[l].email]
    <3>1. next \in Login /\ next.pc = "byEmail"
      BY <2>0, LoginTypes DEF Profiled
    <3>2. Continue(l, next)
      BY <1>0, <1>2, <2>0, <2>1 DEF FindByIdentity, Continue, SignInTypeOK
    <3> QED
      BY <1>2, <3>1, <3>2, LoginMoves DEF FindByIdentity, Found
  <2>2. CASE HasIdentity(login[l].identity) # {}
    <3>1. PICK a \in HasIdentity(login[l].identity) :
            Continue(l, [pc |-> "updating", identity |-> login[l].identity,
                         email |-> login[l].email, account |-> a])
      BY <1>2, <2>2 DEF FindByIdentity
    <3>2. a \in Accounts /\ AccountExists(a)
      BY DEF HasIdentity
    <3> DEFINE next == [pc |-> "updating", identity |-> login[l].identity,
                        email |-> login[l].email, account |-> a]
    <3>3. next \in Login /\ next.pc = "updating" /\ next.account = a
      BY <2>0, <3>2, LoginTypes DEF Found
    <3> QED
      BY <1>2, <3>1, <3>2, <3>3, LoginMoves DEF FindByIdentity
  <2> QED
    BY <2>1, <2>2
<1>3. ASSUME NEW l \in Logins, FindByEmail(l)
      PROVE  SignInInv'
  <2>0. /\ login[l].pc = "byEmail"
        /\ login[l].identity \in Identities /\ login[l].email \in Emails
        /\ [login[l] EXCEPT !.pc = "inserting"]
             = [pc |-> "inserting", identity |-> login[l].identity, email |-> login[l].email]
    BY <1>0, <1>3, LoginShape DEF FindByEmail, Profiled
  <2>1. CASE HasEmail(login[l].email) = {}
    <3> DEFINE next == [pc |-> "inserting", identity |-> login[l].identity, email |-> login[l].email]
    <3>1. next \in Login /\ next.pc = "inserting"
      BY <2>0, LoginTypes DEF Profiled
    <3>2. Continue(l, next)
      BY <1>0, <1>3, <2>0, <2>1 DEF FindByEmail, Continue, SignInTypeOK
    <3> QED
      BY <1>3, <3>1, <3>2, LoginMoves DEF FindByEmail, Found
  <2>2. CASE HasEmail(login[l].email) # {}
    <3>1. PICK a \in HasEmail(login[l].email) :
            Continue(l, [pc |-> "linking", identity |-> login[l].identity,
                         email |-> login[l].email, account |-> a])
      BY <1>3, <2>2 DEF FindByEmail
    <3>2. a \in Accounts /\ AccountExists(a)
      BY DEF HasEmail
    <3> DEFINE next == [pc |-> "linking", identity |-> login[l].identity,
                        email |-> login[l].email, account |-> a]
    <3>3. next \in Login /\ next.pc = "linking" /\ next.account = a
      BY <2>0, <3>2, LoginTypes DEF Found
    <3> QED
      BY <1>3, <3>1, <3>2, <3>3, LoginMoves DEF FindByEmail
  <2> QED
    BY <2>1, <2>2
<1>4. ASSUME NEW l \in Logins, UpdateProfile(l) \/ LinkIdentity(l)
      PROVE  SignInInv'
  <2>1. login[l].pc \in Found
    BY <1>4 DEF UpdateProfile, LinkIdentity, Found
  <2>2. /\ login[l].identity \in Identities /\ login[l].email \in Emails
        /\ login[l].account \in Accounts /\ AccountExists(login[l].account)
    BY <1>0, <2>1, LoginShape DEF SignInInv, FoundExists
  <2>3. account[login[l].account] \in Account
    BY <1>0, <2>2 DEF SignInTypeOK, AccountExists
  <2>4. /\ [account[login[l].account] EXCEPT !.email = login[l].email] \in Account
        /\ [account[login[l].account] EXCEPT !.identity = login[l].identity] \in Account
    BY <2>2, <2>3 DEF Account
  <2>5. CASE UpdateProfile(l)
    BY <2>2, <2>4, <2>5, AccountWritten DEF UpdateProfile
  <2>6. CASE LinkIdentity(l)
    BY <2>2, <2>4, <2>6, AccountWritten DEF LinkIdentity
  <2> QED
    BY <1>4, <2>5, <2>6
<1>5. ASSUME NEW l \in Logins, CreateUser(l)
      PROVE  SignInInv'
  <2>1. login[l].identity \in Identities /\ login[l].email \in Emails
    BY <1>0, <1>5, LoginShape DEF CreateUser, Profiled
  <2>2. [identity |-> login[l].identity, email |-> login[l].email] \in Account
    BY <2>1 DEF Account
  <2> QED
    BY <1>5, <2>1, <2>2, AccountWritten DEF CreateUser
<1>6. ASSUME NEW l \in Logins, createSession(l)
      PROVE  SignInInv'
  <2>1. login[l].identity \in Identities /\ login[l].account \in Accounts
    BY <1>0, <1>6, LoginShape DEF createSession
  <2>2. [life |-> "fresh", account |-> login[l].account] \in Cookie
    BY <2>1 DEF Cookie
  <2>3. SignInTypeOK'
    BY <1>0, <1>6, <2>1, <2>2 DEF createSession, SignInTypeOK, Leave
  <2> QED
    BY <1>0, <1>6, <2>3, OthersMove DEF createSession, Leave, SignInTypeOK
<1>7. ASSUME NEW l \in Logins, NEW k \in Cookies, validateSession(l, k)
      PROVE  SignInInv'
  BY <1>7, LoginMoves, LoginTypes DEF validateSession, Reads, Found
<1>8. ASSUME NEW l \in Logins, Slide(l) \/ DeleteOver(l)
      PROVE  SignInInv'
  <2>1. login[l].cookie \in Cookies
    BY <1>0, <1>8, LoginShape DEF Slide, DeleteOver, Reads
  <2>2. \A k \in Cookies : cookie[k] # NoCookie => [cookie[k] EXCEPT !.life = "fresh"] \in Cookie
    BY <1>0 DEF Cookie
  <2>3. cookie' \in [Cookies -> Cookie \cup {NoCookie}]
    BY <1>0, <1>8, <2>1, <2>2 DEF Slide, DeleteOver, SignInTypeOK
  <2>4. SignInTypeOK'
    BY <1>0, <1>8, <2>3 DEF Slide, DeleteOver, SignInTypeOK, Leave
  <2> QED
    BY <1>0, <1>8, <2>4, OthersMove DEF Slide, DeleteOver, Leave, SignInTypeOK
<1>9. ASSUME NEW k \in Cookies, logout(k) \/ logoutAll(k)
      PROVE  SignInInv'
  <2>1. SignInTypeOK'
    BY <1>0, <1>9 DEF logout, logoutAll, SignInTypeOK
  <2> QED
    BY <1>9, <2>1, OthersMove DEF logout, logoutAll
<1>10. ASSUME NEW k \in Cookies, Wears(k)
       PROVE  SignInInv'
  <2>1. cookie[k] \in Cookie
    BY <1>a, <1>10 DEF Wears
  <2>2. \A life \in {"fresh", "worn", "over"} : [cookie[k] EXCEPT !.life = life] \in Cookie
    BY <2>1 DEF Cookie
  <2>3. SignInTypeOK'
    BY <1>0, <1>10, <2>2 DEF Wears, SignInTypeOK
  <2> QED
    BY <1>10, <2>3, OthersMove DEF Wears
<1>11. CASE cleanupExpired
  <2>1. SignInTypeOK'
    BY <1>0, <1>11 DEF cleanupExpired, SignInTypeOK
  <2> QED
    BY <1>11, <2>1, OthersMove DEF cleanupExpired
<1>12. CASE Restart
  <2>1. SignInTypeOK'
    BY <1>0, <1>12 DEF Restart, SignInTypeOK
  <2> QED
    BY <1>12, <2>1, OthersMove DEF Restart
<1>13. ASSUME NEW l \in Logins, NEW n \in Nonces, ConnectCallback(l, n)
       PROVE  SignInInv'
  <2> DEFINE next == [pc |-> "exchanging", nonce |-> n]
  <2>1. next \in Login /\ next.pc = "exchanging" /\ next.nonce = n
    BY LoginTypes
  <2>2. /\ login' = [login EXCEPT ![l] = next] /\ verifier' = [verifier EXCEPT ![n] = "taken"]
        /\ verifier[n] = "pending" /\ UNCHANGED account
    BY <1>13 DEF ConnectCallback, Continue
  <2> HIDE DEF next
  <2>3. SignInTypeOK'
    BY <1>0, <1>13, <2>1, <2>2 DEF ConnectCallback, SignInTypeOK
  <2>4. FoundExists' /\ RowsAreUnique'
    BY <1>0, <2>1, <2>2
    DEF SignInInv, SignInTypeOK, FoundExists, RowsAreUnique, AccountExists, Found
  <2>5. \A m \in Logins : m # l /\ Waits(m, "exchanging")' =>
          /\ login'[m] = login[m] /\ login[m].nonce \in Nonces
          /\ verifier[login[m].nonce] = "taken" /\ login[m].nonce # n
    BY <1>0, <2>2, LoginShape DEF SignInInv, SignInTypeOK, ExchangedIsTaken
  <2>6. login'[l] = next
    BY <1>0, <2>2 DEF SignInTypeOK
  <2>7. ExchangedIsTaken'
    BY <1>0, <2>1, <2>2, <2>5, <2>6 DEF SignInTypeOK, ExchangedIsTaken
  <2>8. VerifierIsSpentOnce'
    BY <1>0, <2>1, <2>2, <2>5, <2>6 DEF SignInInv, VerifierIsSpentOnce
  <2> QED
    BY <2>3, <2>4, <2>7, <2>8 DEF SignInInv
<1>14. ASSUME NEW l \in Logins, Exchanged(l)
       PROVE  SignInInv'
  <2>1. login[l].nonce \in Nonces
    BY <1>0, <1>14, LoginShape DEF Exchanged
  <2>2. SignInTypeOK'
    BY <1>0, <1>14, <2>1 DEF Exchanged, SignInTypeOK, Leave
  <2> QED
    BY <1>0, <1>14, <2>1, <2>2, OthersMove DEF Exchanged, Leave, SignInTypeOK
<1>15. ASSUME NEW n \in Nonces, startConnect(n) \/ VerifierExpires(n)
       PROVE  SignInInv'
  <2>1. SignInTypeOK'
    BY <1>0, <1>15 DEF startConnect, VerifierExpires, SignInTypeOK
  <2> QED
    BY <1>0, <1>15, <2>1, OthersMove DEF startConnect, VerifierExpires, SignInTypeOK
<1>16. ASSUME NEW i \in Identities, NEW e \in Emails, ChangesEmail(i, e)
       PROVE  SignInInv'
  <2>1. SignInTypeOK'
    BY <1>0, <1>16 DEF ChangesEmail, SignInTypeOK
  <2> QED
    BY <1>16, <2>1, OthersMove DEF ChangesEmail
<1>17. CASE UNCHANGED signInVars
  <2>1. SignInTypeOK'
    BY <1>0, <1>17 DEF signInVars, SignInTypeOK
  <2> QED
    BY <1>17, <2>1, OthersMove DEF signInVars
<1> QED
  BY <1>1, <1>2, <1>3, <1>4, <1>5, <1>6, <1>7, <1>8, <1>9, <1>10, <1>11, <1>12, <1>13, <1>14,
     <1>15, <1>16, <1>17 DEF SignInNext

\* The state is well formed, whatever overlaps, and no row of user_account has the identity or
\* the address of another.
THEOREM SignInHolds == SignInSpec => [](SignInTypeOK /\ RowsAreUnique)
<1>1. SignInInv => SignInTypeOK /\ RowsAreUnique
  BY DEF SignInInv
<1> QED
  BY <1>1, SignInStarts, SignInSteps, PTL DEF SignInSpec

\* However often a browser repeats a callback, one exchanges the connection's verifier at most:
\* pendingPkceVerifiers gives it up before the exchange is awaited.
THEOREM VerifiersAreSpentOnce == SignInSpec => []VerifierIsSpentOnce
<1>1. SignInInv => VerifierIsSpentOnce
  BY DEF SignInInv
<1> QED
  BY <1>1, SignInStarts, SignInSteps, PTL DEF SignInSpec

-----------------------------------------------------------------------------
\* A login ends where the one before it of the same identity ended, unless one of the two
\* accounts is another identity's by now: findOrCreateOAuthUser with the unique index.
THEOREM LoginsComeHome == SignInSpec => SameAccountAgain
<1> DEFINE Same == \A i \in Identities :
                     home[i] # Nobody /\ home'[i] # home[i]
                       => account[home[i]].identity # i \/ account[home'[i]].identity # i
<1>1. SignInInv /\ [SignInNext]_signInVars => Same
  <2> SUFFICES ASSUME SignInInv, [SignInNext]_signInVars, NEW i \in Identities,
                      home[i] # Nobody, home'[i] # home[i],
                      account[home[i]].identity = i, account[home'[i]].identity = i
               PROVE  FALSE
    OBVIOUS
  <2>1. PICK l \in Logins : createSession(l)
    BY DEF SignInNext, signInVars, LoginCallback, FindByIdentity, UpdateProfile, FindByEmail,
           LinkIdentity, CreateUser, validateSession, Slide, DeleteOver, ConnectCallback, Exchanged,
           logout, logoutAll, Wears, cleanupExpired, Restart, startConnect, VerifierExpires,
           ChangesEmail
  <2>2. home' = [home EXCEPT ![login[l].identity] = login[l].account]
        /\ login[l].account \in Accounts
    BY <2>1, LoginShape DEF SignInInv, SignInTypeOK, createSession, Waits
  <2>3. home[i] \in Accounts /\ home'[i] \in Accounts
    BY <2>2 DEF SignInInv, SignInTypeOK
  <2>4. NoAccount.identity # i
    BY SignInAssumption DEF NoAccount
  <2>5. AccountExists(home[i]) /\ AccountExists(home'[i])
    BY <2>4 DEF AccountExists
  <2> QED
    BY <2>3, <2>5 DEF SignInInv, RowsAreUnique
<1>2. SignInInv /\ [SignInNext]_signInVars => [Same]_signInVars
  BY <1>1
<1>3. SignInSpec => []SignInInv
  BY SignInStarts, SignInSteps, PTL DEF SignInSpec
<1> QED
  BY <1>2, <1>3, PTL DEF SignInSpec, SameAccountAgain

\* A session that is over is used again only by a request that had read it before it was:
\* validateSession looks at expires_at in the row that it slides.
THEOREM OverSessionsStayOver == SignInSpec => OverStaysOver
<1> DEFINE Stay == \A k \in Cookies : cookie[k].life = "over" =>
                     /\ cookie'[k].life \in {"fresh", "worn"}
                          => \E l \in Logins : Waits(l, "sliding") /\ login[l].cookie = k
                     /\ \A l \in Logins : login[l] = NoLogin => login'[l].pc # "sliding"
                                                                \/ login'[l].cookie # k
<1>1. SignInInv /\ [SignInNext]_signInVars => Stay
  <2> SUFFICES ASSUME SignInInv, [SignInNext]_signInVars, NEW k \in Cookies, cookie[k].life = "over"
               PROVE  /\ cookie'[k].life \in {"fresh", "worn"}
                           => \E l \in Logins : Waits(l, "sliding") /\ login[l].cookie = k
                      /\ \A l \in Logins : login[l] = NoLogin => login'[l].pc # "sliding"
                                                                 \/ login'[l].cookie # k
    OBVIOUS
  <2>0. SignInTypeOK /\ NoCookie.life = "absent"
    BY DEF SignInInv, NoCookie
  <2>1. ASSUME cookie'[k].life \in {"fresh", "worn"}
        PROVE  \E l \in Logins : Waits(l, "sliding") /\ login[l].cookie = k
    <3>1. cookie' # cookie
      BY <2>1
    <3>2. \/ \E l \in Logins : createSession(l) \/ Slide(l) \/ DeleteOver(l)
          \/ \E j \in Cookies : logout(j) \/ logoutAll(j) \/ Wears(j)
          \/ cleanupExpired \/ Restart
      BY <3>1 DEF SignInNext, signInVars, LoginCallback, FindByIdentity, UpdateProfile, FindByEmail,
           LinkIdentity, CreateUser, validateSession, ConnectCallback, Exchanged, startConnect,
           VerifierExpires, ChangesEmail
    <3>3. ASSUME NEW l \in Logins, createSession(l) PROVE FALSE
      BY <2>0, <2>1, <3>3 DEF createSession, SignInTypeOK
    <3>4. ASSUME NEW l \in Logins, DeleteOver(l) PROVE FALSE
      BY <2>0, <2>1, <3>4 DEF DeleteOver, SignInTypeOK
    <3>5. ASSUME NEW l \in Logins, Slide(l)
          PROVE  Waits(l, "sliding") /\ login[l].cookie = k
      BY <2>0, <2>1, <3>1, <3>5 DEF Slide, SignInTypeOK
    <3>6. ASSUME NEW j \in Cookies, logout(j) \/ logoutAll(j) \/ Wears(j) PROVE FALSE
      BY <2>0, <2>1, <3>6 DEF logout, logoutAll, Wears, SignInTypeOK
    <3>7. CASE cleanupExpired \/ Restart
      BY <2>0, <2>1, <3>7 DEF cleanupExpired, Restart
    <3> QED
      BY <3>2, <3>3, <3>4, <3>5, <3>6, <3>7
  <2>2. ASSUME NEW l \in Logins, login[l] = NoLogin, login'[l].pc = "sliding", login'[l].cookie = k
        PROVE  FALSE
    <3>1. login[l].pc = "none" /\ login'[l] # login[l]
      BY <2>2, LoginTypes
    <3>2. \/ \E i \in Identities : LoginCallback(l, i)
          \/ \E j \in Cookies : validateSession(l, j)
          \/ \E n \in Nonces : ConnectCallback(l, n)
          \/ login'[l] = login[l] \/ login'[l] = NoLogin
      <4>1. ASSUME NEW m \in Logins, m # l, NEW rec, Continue(m, rec)
            PROVE  login'[l] = login[l]
        BY <2>0, <4>1 DEF Continue, SignInTypeOK
      <4>2. ASSUME NEW m \in Logins,
                   FindByIdentity(m) \/ UpdateProfile(m) \/ FindByEmail(m) \/ LinkIdentity(m)
                     \/ CreateUser(m) \/ createSession(m) \/ Slide(m) \/ DeleteOver(m) \/ Exchanged(m)
            PROVE  login'[l] = login[l]
        <5>1. m # l
          BY <3>1, <4>2
          DEF FindByIdentity, UpdateProfile, FindByEmail, LinkIdentity, CreateUser, createSession,
              Slide, DeleteOver, Exchanged, Waits
        <5> QED
          BY <2>0, <4>2, <5>1
          DEF FindByIdentity, UpdateProfile, FindByEmail, LinkIdentity, CreateUser, createSession,
              Slide, DeleteOver, Exchanged, Waits, Writes, Continue, Leave, SignInTypeOK
      <4>3. ASSUME NEW m \in Logins, m # l,
                   \/ \E i \in Identities : LoginCallback(m, i)
                   \/ \E j \in Cookies : validateSession(m, j)
                   \/ \E n \in Nonces : ConnectCallback(m, n)
            PROVE  login'[l] = login[l]
        BY <4>1, <4>3 DEF LoginCallback, validateSession, ConnectCallback
      <4>4. ASSUME UNCHANGED signInVars \/ cleanupExpired \/ Restart
                     \/ (\E j \in Cookies : logout(j) \/ logoutAll(j) \/ Wears(j))
                     \/ (\E n \in Nonces : startConnect(n) \/ VerifierExpires(n))
                     \/ (\E i \in Identities, e \in Emails : ChangesEmail(i, e))
            PROVE  login'[l] = login[l] \/ login'[l] = NoLogin
        BY <4>4 DEF signInVars, cleanupExpired, Restart, logout, logoutAll, Wears, startConnect,
                    VerifierExpires, ChangesEmail
      <4> QED
        BY <4>2, <4>3, <4>4 DEF SignInNext
    <3>3. ASSUME NEW i \in Identities, LoginCallback(l, i) PROVE FALSE
      BY <2>0, <2>2, <3>3 DEF LoginCallback, Continue, Profile, SignInTypeOK
    <3>4. ASSUME NEW j \in Cookies, validateSession(l, j) PROVE FALSE
      BY <2>0, <2>2, <3>4 DEF validateSession, Continue, SignInTypeOK
    <3>5. ASSUME NEW n \in Nonces, ConnectCallback(l, n) PROVE FALSE
      BY <2>0, <2>2, <3>5 DEF ConnectCallback, Continue, SignInTypeOK
    <3> QED
      BY <3>1, <2>2, <3>2, <3>3, <3>4, <3>5
  <2> QED
    BY <2>1, <2>2
<1>2. SignInInv /\ [SignInNext]_signInVars => [Stay]_signInVars
  BY <1>1
<1>3. SignInSpec => []SignInInv
  BY SignInStarts, SignInSteps, PTL DEF SignInSpec
<1> QED
  BY <1>2, <1>3, PTL DEF SignInSpec, OverStaysOver

-----------------------------------------------------------------------------

(*****************************************************************************)
(* The six together.                                                         *)
(*****************************************************************************)

\* A behaviour of the six is one of each.
LEMMA PartsBehave ==
  Spec => ChatSpec /\ PoolSpec /\ ServerSpec /\ ToolSpec /\ CredSpec /\ SignInSpec
<1>1. Init => ChatInit /\ PoolInit /\ ServerInit /\ ToolInit /\ CredInit /\ SignInInit
  BY DEF Init
<1>2. [Next]_<<part, chatVars, poolVars, serverVars, toolVars, credVars, signInVars>> =>
        /\ [ChatNext]_chatVars /\ [PoolNext]_poolVars /\ [ServerNext]_serverVars
        /\ [ToolNext]_toolVars /\ [CredNext]_credVars /\ [SignInNext]_signInVars
  BY DEF Next
<1> QED
  BY <1>1, <1>2, PTL DEF Spec, ChatSpec, PoolSpec, ServerSpec, ToolSpec, CredSpec, SignInSpec

\* What is told of an MCP server and of its tools (mcp/health-supervisor.ts,
\* mcp/tool-router.ts) is what they are: its health, the age of what is served of it, and
\* which of several servers a name stands for.
THEOREM ToolsStayOffered == Spec => []ToolsAreOffered
BY PartsBehave, HealthStaysTrue, StaleToolsExpire, ConflictsAreResolved, PTL DEF ToolsAreOffered

\* What is ended comes back only on purpose, in each of the services: a session closed
\* (chat/session-buffer and the sessions' routes), a server disabled or deleted, a credential
\* revoked, a browser's session over and an account that an identity has left.
THEOREM EndedStaysEnded == Spec => NothingComesBack
BY PartsBehave, ClosedSessionsStayClosed, DisabledServersStayDisabled, DeletedServersStayDeleted,
   RevokedStaysRevoked, OverSessionsStayOver, LoginsComeHome, PTL DEF NothingComesBack
=============================================================================
