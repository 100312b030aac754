------------------------- MODULE ConversationProofs --------------------------
(*****************************************************************************)
(* Theorems of the modules about one conversation: its answers (ChatRelay),  *)
(* its memory (MemoryWindows) and its events (EventStream), for any number   *)
(* of polls, requests, messages, windows, workers, events and restarts.      *)
(*****************************************************************************)
EXTENDS ChatRelay, MemoryWindows, EventStream, FiniteSetTheorems, SequenceTheorems,
        WellFoundedInduction, TLAPS

-----------------------------------------------------------------------------
(* The answer of a chat message.                                             *)

\* How many of f's arguments are in a state of T.
Held(f, T) == Cardinality({d \in DOMAIN f : f[d] \in T})

Bit(b) == IF b THEN 1 ELSE 0

\* One argument goes from one state to another.
LEMMA OneMoves ==
  ASSUME NEW D, IsFiniteSet(D), NEW d \in D, NEW f, NEW g, DOMAIN f = D, DOMAIN g = D,
         \A e \in D \ {d} : g[e] = f[e], NEW T
  PROVE  Held(g, T) = Held(f, T) + Bit(g[d] \in T) - Bit(f[d] \in T)
<1> DEFINE F == {e \in DOMAIN f : f[e] \in T}
           G == {e \in DOMAIN g : g[e] \in T}
<1>1. /\ F \in SUBSET D /\ Cardinality(F) \in Nat /\ IsFiniteSet(F) /\ Cardinality(F) <= Cardinality(D)
      /\ IsFiniteSet(F \ {d}) /\ Cardinality(F \ {d}) \in Nat
  <2>1. F \in SUBSET D /\ (F \ {d}) \in SUBSET D
    OBVIOUS
  <2>2. IsFiniteSet(F) /\ IsFiniteSet(F \ {d}) /\ Cardinality(F) <= Cardinality(D)
    BY <2>1, FS_Subset
  <2> QED
    BY <2>1, <2>2, FS_CardinalityType
<1>2. Cardinality(F) = Cardinality(F \ {d}) + Bit(f[d] \in T)
  <2>1. d \in F <=> f[d] \in T
    OBVIOUS
  <2>2. Cardinality(F \ {d}) = IF d \in F THEN Cardinality(F) - 1 ELSE Cardinality(F)
    BY <1>1, FS_RemoveElement
  <2> QED
    BY <1>1, <2>1, <2>2 DEF Bit
<1>3. Cardinality(G) = Cardinality(F \ {d}) + Bit(g[d] \in T)
  <2>1. G = IF g[d] \in T THEN (F \ {d}) \cup {d} ELSE F \ {d}
    OBVIOUS
  <2>2. Cardinality((F \ {d}) \cup {d}) = Cardinality(F \ {d}) + 1
    BY <1>1, FS_AddElement
  <2> QED
    BY <1>1, <2>1, <2>2 DEF Bit
<1>4. Held(f, T) = Cardinality(F) /\ Held(g, T) = Cardinality(G)
  BY DEF Held
<1> QED
  BY <1>1, <1>2, <1>3, <1>4 DEF Bit

LEMMA HeldIsBounded ==
  ASSUME NEW D, IsFiniteSet(D), NEW f, DOMAIN f = D, NEW T
  PROVE  Cardinality(D) \in Nat /\ Held(f, T) \in 0 .. Cardinality(D)
<1>1. {d \in DOMAIN f : f[d] \in T} \in SUBSET D
  OBVIOUS
<1> QED
  BY <1>1, FS_Subset, FS_CardinalityType DEF Held

LEMMA NoneHeld ==
  ASSUME NEW D, NEW v, NEW T, v \notin T
  PROVE  Held([d \in D |-> v], T) = 0
<1>1. {d \in DOMAIN [e \in D |-> v] : [e \in D |-> v][d] \in T} = {}
  OBVIOUS
<1> QED
  BY <1>1, FS_EmptySet DEF Held

Busy         == Held(poll, {x \in Polling : x.pc # "none"})
Asking(t)    == Held(poll, {x \in Polling : x.pc = "querying" \/ (x.pc = "storing" /\ x.text = t)})
Inserting(t) == Held(read, {x \in Reading : x.pc = "storing" /\ x.text = t})
Told         == sent["answer"] + sent["error"] + sent["timeout"]

\* While the watch goes on nothing was sent; every poll under way when it ends may reply, once.
RepliesAreCounted == IF watching THEN Told = 0 ELSE Told + Busy <= Cardinality(Polls)

\* It may store once, too, and so may every request that found no such text stored.
StoresAreCounted ==
  \A t \in Texts :
    IF watching
    THEN stored[t] + Inserting(t) <= Cardinality(Reads)
    ELSE stored[t] + Inserting(t) + Asking(t) <= Cardinality(Polls) + Cardinality(Reads)

\* The poll that ends the watch has a reply under way, or nothing to tell.
ReplyIsUnderWay ==
  IF watching
  THEN \A p \in Polls : poll[p].pc \in {"none", "querying"}
  ELSE ended \cap {"silent", "unsent"} # {} \/ Told > 0 \/ \E p \in Polls : poll[p].pc \in {"storing"} \cup Replies

\* What polls are about to send is so.
WordsAreTrue ==
  /\ \A p \in Polls : poll[p].pc = "error" => job \in {"failed", "gone"} \/ revived
  /\ \A p \in Polls : poll[p].pc = "answer" => stored[poll[p].text] > 0
  /\ \A t \in answered : stored[t] > 0

RelayInv ==
  /\ RelayTypeOK /\ FailureIsFinal
  /\ RepliesAreCounted /\ StoresAreCounted /\ ReplyIsUnderWay /\ WordsAreTrue

LEMMA RelaySizes ==
  /\ IsFiniteSet(Polls) /\ IsFiniteSet(Reads) /\ NoText \notin Texts
  /\ Cardinality(Polls) \in Nat /\ Cardinality(Reads) \in Nat
BY RelayAssumption, FS_CardinalityType

LEMMA HeldType ==
  ASSUME RelayTypeOK
  PROVE  /\ \A T : Held(poll, T) \in 0 .. Cardinality(Polls)
         /\ \A T : Held(read, T) \in 0 .. Cardinality(Reads)
         /\ Told \in Nat /\ \A k \in Replies : sent[k] \in Nat
<1>1. DOMAIN poll = Polls /\ DOMAIN read = Reads
  BY DEF RelayTypeOK
<1>2. /\ \A T : Held(poll, T) \in 0 .. Cardinality(Polls)
      /\ \A T : Held(read, T) \in 0 .. Cardinality(Reads)
  BY <1>1, RelaySizes, HeldIsBounded
<1>3. \A k \in Replies : sent[k] \in Nat
  BY DEF RelayTypeOK
<1> QED
  BY <1>2, <1>3 DEF Told, Replies

\* A poll, or a request, goes from one state to the next.
PollMoves(p, x) == DOMAIN poll' = Polls /\ poll'[p] = x /\ \A e \in Polls \ {p} : poll'[e] = poll[e]
ReadMoves(r, x) == DOMAIN read' = Reads /\ read'[r] = x /\ \A e \in Reads \ {r} : read'[e] = read[e]

LEMMA PollGoes ==
  ASSUME RelayTypeOK, NEW p \in Polls, NEW x, PollMoves(p, x), NEW T
  PROVE  Held(poll', T) = Held(poll, T) + Bit(x \in T) - Bit(poll[p] \in T)
<1>1. /\ DOMAIN poll = Polls /\ DOMAIN poll' = Polls /\ poll'[p] = x
      /\ \A e \in Polls \ {p} : poll'[e] = poll[e]
  BY DEF RelayTypeOK, PollMoves
<1>2. Held(poll', T) = Held(poll, T) + Bit(poll'[p] \in T) - Bit(poll[p] \in T)
  BY <1>1, RelaySizes, OneMoves
<1> QED
  BY <1>1, <1>2

LEMMA ReadGoes ==
  ASSUME RelayTypeOK, NEW r \in Reads, NEW x, ReadMoves(r, x), NEW T
  PROVE  Held(read', T) = Held(read, T) + Bit(x \in T) - Bit(read[r] \in T)
<1>1. /\ DOMAIN read = Reads /\ DOMAIN read' = Reads /\ read'[r] = x
      /\ \A e \in Reads \ {r} : read'[e] = read[e]
  BY DEF RelayTypeOK, ReadMoves
<1>2. Held(read', T) = Held(read, T) + Bit(read'[r] \in T) - Bit(read[r] \in T)
  BY <1>1, RelaySizes, OneMoves
<1> QED
  BY <1>1, <1>2

LEMMA RelayStarts == RelayInit => RelayInv
<1> SUFFICES ASSUME RelayInit PROVE RelayInv
  OBVIOUS
<1>1. RelayTypeOK
  BY DEF RelayInit, RelayTypeOK, JobStatus, Replies, Polling, Reading, Idle
<1>2. Told = 0 /\ sent["error"] = 0 /\ watching /\ \A t \in Texts : stored[t] = 0
  BY DEF RelayInit, Told, Replies
<1>3. \A T : Held(read, T) \in 0 .. Cardinality(Reads)
  BY <1>1, HeldType
<1>4. RepliesAreCounted /\ StoresAreCounted
  BY <1>2, <1>3, RelaySizes DEF RepliesAreCounted, StoresAreCounted, Inserting
<1> QED
  BY <1>1, <1>2, <1>4 DEF RelayInv, RelayInit, FailureIsFinal, ReplyIsUnderWay, WordsAreTrue, Idle

LEMMA RelayTypes == RelayTypeOK /\ [RelayNext]_relayVars => RelayTypeOK'
<1> SUFFICES ASSUME RelayTypeOK, [RelayNext]_relayVars PROVE RelayTypeOK'
  OBVIOUS
<1> USE DEF RelayTypeOK
<1>1. CASE JobMoves
  BY <1>1 DEF JobMoves, JobStatus
<1>2. CASE DeadlinePasses
  BY <1>2 DEF DeadlinePasses
<1>3. ASSUME NEW p \in Polls, Tick(p) PROVE RelayTypeOK'
  BY <1>3 DEF Tick, Goes, Polling, Replies
<1>4. ASSUME NEW p \in Polls, RowArrives(p) PROVE RelayTypeOK'
  BY <1>4 DEF RowArrives, Goes, Polling, Replies, terminal
<1>5. ASSUME NEW p \in Polls, QueryFails(p) PROVE RelayTypeOK'
  BY <1>5 DEF QueryFails, Goes, Polling
<1>6. ASSUME NEW p \in Polls, StoreAnswer(p) PROVE RelayTypeOK'
  BY <1>6 DEF StoreAnswer, Goes, Polling, Replies
<1>7. ASSUME NEW p \in Polls, Send(p) PROVE RelayTypeOK'
  BY <1>7 DEF Send, Goes, Polling, Replies
<1>8. ASSUME NEW p \in Polls, ReplyFails(p) PROVE RelayTypeOK'
  BY <1>8 DEF ReplyFails, Goes, Polling
<1>9. ASSUME NEW r \in Reads, ReadJob(r) PROVE RelayTypeOK'
  BY <1>9, RelaySizes DEF ReadJob, Reading
<1>10. ASSUME NEW r \in Reads, CheckStored(r) PROVE RelayTypeOK'
  BY <1>10 DEF CheckStored, Reading, Idle
<1>11. ASSUME NEW r \in Reads, ReadStores(r) PROVE RelayTypeOK'
  BY <1>11 DEF ReadStores, Reading, Idle
<1>12. CASE UNCHANGED relayVars
  BY <1>12 DEF relayVars
<1> QED
  BY <1>1, <1>2, <1>3, <1>4, <1>5, <1>6, <1>7, <1>8, <1>9, <1>10, <1>11, <1>12 DEF RelayNext

\* Told, and what is about to be told, stays true.
LEMMA WordsStay == RelayInv /\ [RelayNext]_relayVars => WordsAreTrue' /\ FailureIsFinal'
<1> SUFFICES ASSUME RelayInv, [RelayNext]_relayVars PROVE WordsAreTrue' /\ FailureIsFinal'
  OBVIOUS
<1> USE DEF RelayInv, RelayTypeOK, WordsAreTrue, FailureIsFinal
<1>1. CASE JobMoves
  BY <1>1 DEF JobMoves
<1>2. CASE DeadlinePasses
  BY <1>2 DEF DeadlinePasses
<1>3. ASSUME NEW p \in Polls, Tick(p) PROVE WordsAreTrue' /\ FailureIsFinal'
  BY <1>3 DEF Tick, Goes
<1>4. ASSUME NEW p \in Polls, RowArrives(p) PROVE WordsAreTrue' /\ FailureIsFinal'
  BY <1>4 DEF RowArrives, Goes, terminal
<1>5. ASSUME NEW p \in Polls, QueryFails(p) PROVE WordsAreTrue' /\ FailureIsFinal'
  BY <1>5 DEF QueryFails, Goes
<1>6. ASSUME NEW p \in Polls, StoreAnswer(p) PROVE WordsAreTrue' /\ FailureIsFinal'
  BY <1>6 DEF StoreAnswer, Goes
<1>7. ASSUME NEW p \in Polls, Send(p) PROVE WordsAreTrue' /\ FailureIsFinal'
  BY <1>7 DEF Send, Goes, Replies
<1>8. ASSUME NEW p \in Polls, ReplyFails(p) PROVE WordsAreTrue' /\ FailureIsFinal'
  BY <1>8 DEF ReplyFails, Goes
<1>9. ASSUME NEW r \in Reads, ReadJob(r) PROVE WordsAreTrue' /\ FailureIsFinal'
  BY <1>9 DEF ReadJob
<1>10. ASSUME NEW r \in Reads, CheckStored(r) PROVE WordsAreTrue' /\ FailureIsFinal'
  BY <1>10 DEF CheckStored
<1>11. ASSUME NEW r \in Reads, ReadStores(r) PROVE WordsAreTrue' /\ FailureIsFinal'
  BY <1>11 DEF ReadStores
<1>12. CASE UNCHANGED relayVars
  BY <1>12 DEF relayVars
<1> QED
  BY <1>1, <1>2, <1>3, <1>4, <1>5, <1>6, <1>7, <1>8, <1>9, <1>10, <1>11, <1>12 DEF RelayNext

\* The watch ends with a reply under way, or with nothing to tell.
LEMMA ReplyStays == RelayInv /\ [RelayNext]_relayVars => ReplyIsUnderWay'
<1> SUFFICES ASSUME RelayInv, [RelayNext]_relayVars PROVE ReplyIsUnderWay'
  OBVIOUS
<1> USE DEF RelayInv, RelayTypeOK, ReplyIsUnderWay
<1>0. Told \in Nat
  BY HeldType
<1>a. ASSUME sent' = sent PROVE Told' = Told
  BY <1>a DEF Told
<1>1. CASE JobMoves
  BY <1>1, <1>a DEF JobMoves
<1>2. CASE DeadlinePasses
  BY <1>2, <1>a DEF DeadlinePasses
<1>3. ASSUME NEW p \in Polls, Tick(p) PROVE ReplyIsUnderWay'
  <2>1. /\ poll'[p].pc = (IF late THEN "timeout" ELSE "querying") /\ watching /\ watching' = ~late
        /\ \A q \in Polls : q = p \/ poll'[q] = poll[q]
    BY <1>3 DEF Tick, Goes
  <2> QED
    BY <2>1 DEF Replies
<1>4. ASSUME NEW p \in Polls, RowArrives(p) PROVE ReplyIsUnderWay'
  <2>1. /\ poll[p].pc = "querying" /\ watching' = (watching /\ ~terminal(job)) /\ sent' = sent
        /\ ended \subseteq ended' /\ \A q \in Polls : q = p \/ poll'[q] = poll[q]
    BY <1>4 DEF RowArrives, Goes
  <2>2. IF terminal(job) THEN poll'[p].pc \in {"storing", "error"} \/ "silent" \in ended'
        ELSE poll'[p].pc = "none"
    BY <1>4 DEF RowArrives, Goes
  <2>3. Told' = Told
    BY <2>1, <1>a
  <2>4. \A q \in Polls : poll[q].pc \in {"storing"} \cup Replies => q # p /\ poll'[q] = poll[q]
    BY <2>1 DEF Replies
  <2>5. CASE watching'
    BY <2>1, <2>2, <2>5
  <2>6. CASE ~watching' /\ watching
    <3>1. terminal(job)
      BY <2>1, <2>6
    <3> QED
      BY <2>2, <2>6, <3>1 DEF Replies
  <2>7. CASE ~watching' /\ ~watching
    BY <2>1, <2>3, <2>4, <2>7
  <2> QED
    BY <2>5, <2>6, <2>7
<1>5. ASSUME NEW p \in Polls, QueryFails(p) PROVE ReplyIsUnderWay'
  BY <1>5, <1>a DEF QueryFails, Goes, Replies
<1>6. ASSUME NEW p \in Polls, StoreAnswer(p) PROVE ReplyIsUnderWay'
  BY <1>6 DEF StoreAnswer, Goes, Replies
<1>7. ASSUME NEW p \in Polls, Send(p) PROVE ReplyIsUnderWay'
  <2>1. Told' = Told + 1 /\ ~watching'
    <3>1. ~watching' /\ poll[p].pc \in Replies /\ sent' = [sent EXCEPT ![poll[p].pc] = @ + 1]
      BY <1>7 DEF Send, Replies
    <3> QED
      BY <3>1 DEF Told, Replies
  <2> QED
    BY <2>1, <1>0
<1>8. ASSUME NEW p \in Polls, ReplyFails(p) PROVE ReplyIsUnderWay'
  BY <1>8 DEF ReplyFails, Goes, Replies
<1>9. ASSUME NEW r \in Reads, ReadJob(r) PROVE ReplyIsUnderWay'
  BY <1>9, <1>a DEF ReadJob
<1>10. ASSUME NEW r \in Reads, CheckStored(r) PROVE ReplyIsUnderWay'
  BY <1>10, <1>a DEF CheckStored
<1>11. ASSUME NEW r \in Reads, ReadStores(r) PROVE ReplyIsUnderWay'
  BY <1>11, <1>a DEF ReadStores
<1>12. CASE UNCHANGED relayVars
  BY <1>12, <1>a DEF relayVars
<1> QED
  BY <1>1, <1>2, <1>3, <1>4, <1>5, <1>6, <1>7, <1>8, <1>9, <1>10, <1>11, <1>12 DEF RelayNext

\* Every poll under way replies once.
LEMMA RepliesCount == RelayInv /\ [RelayNext]_relayVars => RepliesAreCounted'
<1> SUFFICES ASSUME RelayInv, [RelayNext]_relayVars PROVE RepliesAreCounted'
  OBVIOUS
<1> USE DEF RelayInv, RepliesAreCounted
<1> DEFINE T == {x \in Polling : x.pc # "none"}
<1>0. /\ Told \in Nat /\ Busy \in 0 .. Cardinality(Polls) /\ Cardinality(Polls) \in Nat
      /\ watching \in BOOLEAN
  BY HeldType, RelaySizes DEF Busy, RelayTypeOK
<1>a. ASSUME sent' = sent PROVE Told' = Told
  BY <1>a DEF Told
<1>b. ASSUME poll' = poll PROVE Busy' = Busy
  BY <1>b DEF Busy
<1>c. ASSUME NEW p \in Polls, NEW x \in Polling, PollMoves(p, x)
      PROVE  Busy' = Busy + Bit(x.pc # "none") - Bit(poll[p].pc # "none")
  <2>1. poll[p] \in Polling
    BY DEF RelayTypeOK
  <2>2. Held(poll', T) = Held(poll, T) + Bit(x \in T) - Bit(poll[p] \in T)
    BY <1>c, PollGoes
  <2>3. Busy' = Held(poll', T) /\ Busy = Held(poll, T)
    BY DEF Busy
  <2> QED
    BY <2>1, <2>2, <2>3, <1>c
<1>d. Busy' \in 0 .. Cardinality(Polls)
  <2>1. RelayTypeOK'
    BY RelayTypes
  <2>2. DOMAIN poll' = Polls
    BY <2>1 DEF RelayTypeOK
  <2>3. \A S : Held(poll', S) \in 0 .. Cardinality(Polls)
    BY <2>2, RelaySizes, HeldIsBounded
  <2> QED
    BY <2>3 DEF Busy
<1>1. CASE JobMoves
  BY <1>1, <1>a, <1>b DEF JobMoves
<1>2. CASE DeadlinePasses
  BY <1>2, <1>a, <1>b DEF DeadlinePasses
<1>3. ASSUME NEW p \in Polls, Tick(p) PROVE RepliesAreCounted'
  BY <1>3, <1>a, <1>d, <1>0 DEF Tick
<1>4. ASSUME NEW p \in Polls, RowArrives(p) PROVE RepliesAreCounted'
  <2>1. \E x \in Polling : PollMoves(p, x)
    BY <1>4 DEF RowArrives, Goes, PollMoves, Polling, Replies, RelayTypeOK
  <2>2. Busy' <= Busy
    BY <2>1, <1>c, <1>0, <1>4 DEF RowArrives, Bit
  <2>3. Told' = Told /\ (watching' => watching)
    BY <1>4, <1>a DEF RowArrives
  <2> QED
    BY <2>2, <2>3, <1>0, <1>d
<1>5. ASSUME NEW p \in Polls, QueryFails(p) PROVE RepliesAreCounted'
  <2>1. /\ Idle \in Polling /\ PollMoves(p, Idle) /\ Idle.pc = "none"
        /\ poll[p].pc = "querying" /\ sent' = sent /\ watching' = watching
    BY <1>5 DEF QueryFails, Goes, PollMoves, Polling, Idle, RelayInv, RelayTypeOK
  <2> QED
    BY <2>1, <1>a, <1>c, <1>0 DEF Bit
<1>6. ASSUME NEW p \in Polls, StoreAnswer(p) PROVE RepliesAreCounted'
  <2> DEFINE x == [pc |-> "answer", text |-> poll[p].text]
  <2>1. /\ x \in Polling /\ PollMoves(p, x) /\ x.pc = "answer"
        /\ poll[p].pc = "storing" /\ sent' = sent /\ watching' = watching
    BY <1>6 DEF StoreAnswer, Goes, PollMoves, Polling, Replies, RelayTypeOK
  <2> HIDE DEF x
  <2> QED
    BY <2>1, <1>a, <1>c, <1>0 DEF Bit
<1>7. ASSUME NEW p \in Polls, Send(p) PROVE RepliesAreCounted'
  <2>1. /\ Idle \in Polling /\ PollMoves(p, Idle) /\ Idle.pc = "none"
        /\ poll[p].pc \in Replies /\ watching' = watching
        /\ sent' = [sent EXCEPT ![poll[p].pc] = @ + 1]
    BY <1>7 DEF Send, Goes, PollMoves, Polling, Idle, RelayInv, RelayTypeOK
  <2>2. Told' = Told + 1
    BY <2>1 DEF Told, Replies, RelayTypeOK
  <2>3. ~watching
    BY <2>1 DEF ReplyIsUnderWay, Replies
  <2>4. Busy' = Busy - 1
    BY <2>1, <1>c, <1>0 DEF Bit, Replies
  <2> QED
    BY <2>1, <2>2, <2>3, <2>4, <1>0
<1>8. ASSUME NEW p \in Polls, ReplyFails(p) PROVE RepliesAreCounted'
  <2>1. /\ Idle \in Polling /\ PollMoves(p, Idle) /\ Idle.pc = "none"
        /\ sent' = sent /\ watching' = watching
    BY <1>8 DEF ReplyFails, Goes, PollMoves, Polling, Idle, RelayInv, RelayTypeOK
  <2>2. Busy' <= Busy
    BY <2>1, <1>c, <1>0 DEF Bit
  <2> QED
    BY <2>1, <2>2, <1>a, <1>0, <1>d
<1>9. ASSUME NEW r \in Reads, ReadJob(r) PROVE RepliesAreCounted'
  BY <1>9, <1>a, <1>b DEF ReadJob
<1>10. ASSUME NEW r \in Reads, CheckStored(r) PROVE RepliesAreCounted'
  BY <1>10, <1>a, <1>b DEF CheckStored
<1>11. ASSUME NEW r \in Reads, ReadStores(r) PROVE RepliesAreCounted'
  BY <1>11, <1>a, <1>b DEF ReadStores
<1>12. CASE UNCHANGED relayVars
  BY <1>12, <1>a, <1>b DEF relayVars
<1> QED
  BY <1>1, <1>2, <1>3, <1>4, <1>5, <1>6, <1>7, <1>8, <1>9, <1>10, <1>11, <1>12 DEF RelayNext

\* Every poll and every request under way stores once.
LEMMA StoresCount == RelayInv /\ [RelayNext]_relayVars => StoresAreCounted'
<1> SUFFICES ASSUME RelayInv, [RelayNext]_relayVars, NEW t \in Texts
             PROVE  IF watching'
                    THEN stored'[t] + Inserting(t)' <= Cardinality(Reads)
                    ELSE stored'[t] + Inserting(t)' + Asking(t)' <= Cardinality(Polls) + Cardinality(Reads)
  BY DEF StoresAreCounted
<1> DEFINE Goal == IF watching'
                   THEN stored'[t] + Inserting(t)' <= Cardinality(Reads)
                   ELSE stored'[t] + Inserting(t)' + Asking(t)' <= Cardinality(Polls) + Cardinality(Reads)
           P == {x \in Polling : x.pc = "querying" \/ (x.pc = "storing" /\ x.text = t)}
           R == {x \in Reading : x.pc = "storing" /\ x.text = t}
<1>0. /\ stored[t] \in Nat /\ Asking(t) \in 0 .. Cardinality(Polls) /\ Inserting(t) \in 0 .. Cardinality(Reads)
      /\ Cardinality(Polls) \in Nat /\ Cardinality(Reads) \in Nat /\ watching \in BOOLEAN
      /\ IF watching
         THEN stored[t] + Inserting(t) <= Cardinality(Reads)
         ELSE stored[t] + Inserting(t) + Asking(t) <= Cardinality(Polls) + Cardinality(Reads)
  BY HeldType, RelaySizes DEF Asking, Inserting, RelayInv, RelayTypeOK, StoresAreCounted
<1>b. ASSUME poll' = poll PROVE Asking(t)' = Asking(t)
  BY <1>b DEF Asking
<1>c. ASSUME read' = read PROVE Inserting(t)' = Inserting(t)
  BY <1>c DEF Inserting
<1>d. Asking(t)' \in 0 .. Cardinality(Polls) /\ Inserting(t)' \in 0 .. Cardinality(Reads)
  <2>1. RelayTypeOK'
    BY RelayTypes DEF RelayInv
  <2>2. DOMAIN poll' = Polls /\ DOMAIN read' = Reads
    BY <2>1 DEF RelayTypeOK
  <2>3. \A S : Held(poll', S) \in 0 .. Cardinality(Polls) /\ Held(read', S) \in 0 .. Cardinality(Reads)
    BY <2>2, RelaySizes, HeldIsBounded
  <2> QED
    BY <2>3 DEF Asking, Inserting
<1>e. ASSUME NEW p \in Polls, NEW x \in Polling, PollMoves(p, x)
      PROVE  Asking(t)' = Asking(t) + Bit(x \in P) - Bit(poll[p] \in P)
  <2>1. Held(poll', P) = Held(poll, P) + Bit(x \in P) - Bit(poll[p] \in P)
    BY <1>e, PollGoes DEF RelayInv
  <2> QED
    BY <2>1 DEF Asking
<1>f. ASSUME NEW r \in Reads, NEW x \in Reading, ReadMoves(r, x)
      PROVE  Inserting(t)' = Inserting(t) + Bit(x \in R) - Bit(read[r] \in R)
  <2>1. Held(read', R) = Held(read, R) + Bit(x \in R) - Bit(read[r] \in R)
    BY <1>f, ReadGoes DEF RelayInv
  <2> QED
    BY <2>1 DEF Inserting
<1>1. CASE JobMoves
  BY <1>0, <1>1, <1>b, <1>c DEF JobMoves
<1>2. CASE DeadlinePasses
  BY <1>0, <1>2, <1>b, <1>c DEF DeadlinePasses
<1>3. ASSUME NEW p \in Polls, Tick(p) PROVE Goal
  BY <1>3, <1>0, <1>c, <1>d DEF Tick
<1>4. ASSUME NEW p \in Polls, RowArrives(p) PROVE Goal
  <2>1. PICK x \in Polling : PollMoves(p, x)
    BY <1>4 DEF RowArrives, Goes, PollMoves, Polling, Replies, RelayTypeOK, RelayInv
  <2>2. poll[p] \in P
    BY <1>4 DEF RowArrives, RelayTypeOK, RelayInv
  <2>3. Asking(t)' <= Asking(t)
    BY <2>1, <2>2, <1>e, <1>0 DEF Bit
  <2>4. stored' = stored /\ Inserting(t)' = Inserting(t) /\ (watching' => watching)
    BY <1>4, <1>c DEF RowArrives
  <2> QED
    BY <2>3, <2>4, <1>0, <1>d
<1>5. ASSUME NEW p \in Polls, QueryFails(p) PROVE Goal
  <2>1. /\ Idle \in Polling /\ PollMoves(p, Idle) /\ Idle \notin P
        /\ stored' = stored /\ watching' = watching /\ Inserting(t)' = Inserting(t)
    BY <1>5, <1>c DEF QueryFails, Goes, PollMoves, Polling, Idle, RelayInv, RelayTypeOK
  <2>2. Asking(t)' <= Asking(t)
    BY <2>1, <1>e, <1>0 DEF Bit
  <2> QED
    BY <2>1, <2>2, <1>0, <1>d
<1>6. ASSUME NEW p \in Polls, StoreAnswer(p) PROVE Goal
  <2> DEFINE x == [pc |-> "answer", text |-> poll[p].text]
  <2>1. /\ x \in Polling /\ PollMoves(p, x) /\ x \notin P
        /\ watching' = watching /\ Inserting(t)' = Inserting(t)
        /\ stored'[t] = IF poll[p].text = t THEN stored[t] + 1 ELSE stored[t]
    BY <1>6, <1>c DEF StoreAnswer, Goes, PollMoves, Polling, Replies, RelayTypeOK, RelayInv
  <2>2. poll[p].text = t => poll[p] \in P
    BY <1>6 DEF StoreAnswer, RelayTypeOK, RelayInv
  <2>3. ~watching
    BY <1>6 DEF StoreAnswer, RelayInv, ReplyIsUnderWay
  <2> HIDE DEF x, P
  <2>4. Asking(t)' = Asking(t) - Bit(poll[p] \in P)
    BY <2>1, <1>e, <1>0 DEF Bit
  <2> QED
    BY <2>1, <2>2, <2>3, <2>4, <1>0 DEF Bit
<1>7. ASSUME NEW p \in Polls, Send(p) PROVE Goal
  <2>1. /\ Idle \in Polling /\ PollMoves(p, Idle) /\ Idle \notin P
        /\ stored' = stored /\ watching' = watching /\ Inserting(t)' = Inserting(t)
    BY <1>7, <1>c DEF Send, Goes, PollMoves, Polling, Idle, RelayInv, RelayTypeOK
  <2>2. Asking(t)' <= Asking(t)
    BY <2>1, <1>e, <1>0 DEF Bit
  <2> QED
    BY <2>1, <2>2, <1>0, <1>d
<1>8. ASSUME NEW p \in Polls, ReplyFails(p) PROVE Goal
  <2>1. /\ Idle \in Polling /\ PollMoves(p, Idle) /\ Idle \notin P
        /\ stored' = stored /\ watching' = watching /\ Inserting(t)' = Inserting(t)
    BY <1>8, <1>c DEF ReplyFails, Goes, PollMoves, Polling, Idle, RelayInv, RelayTypeOK
  <2>2. Asking(t)' <= Asking(t)
    BY <2>1, <1>e, <1>0 DEF Bit
  <2> QED
    BY <2>1, <2>2, <1>0, <1>d
<1>9. ASSUME NEW r \in Reads, ReadJob(r) PROVE Goal
  <2> DEFINE x == [pc |-> "checking", text |-> text]
  <2>1. /\ x \in Reading /\ ReadMoves(r, x) /\ x \notin R
        /\ stored' = stored /\ watching' = watching /\ Asking(t)' = Asking(t)
    BY <1>9, <1>b DEF ReadJob, ReadMoves, Reading, RelayTypeOK, RelayInv
  <2> HIDE DEF x
  <2>2. Inserting(t)' <= Inserting(t)
    BY <2>1, <1>f, <1>0 DEF Bit
  <2> QED
    BY <2>1, <2>2, <1>0, <1>d
<1>10. ASSUME NEW r \in Reads, CheckStored(r) PROVE Goal
  <2>1. stored' = stored /\ watching' = watching /\ Asking(t)' = Asking(t)
    BY <1>10, <1>b DEF CheckStored
  <2>2. CASE stored[t] = 0
    BY <2>1, <2>2, <1>0, <1>d
  <2>3. CASE stored[t] # 0
    <3>1. PICK x \in Reading : ReadMoves(r, x) /\ x \notin R
      <4>1. read[r].pc = "checking" /\ read[r] \in Reading
        BY <1>10 DEF CheckStored, RelayTypeOK, RelayInv
      <4>2. CASE stored[read[r].text] = 0
        <5> DEFINE x == [read[r] EXCEPT !.pc = "storing"]
        <5>1. ReadMoves(r, x) /\ x \in Reading /\ x \notin R
          BY <1>10, <4>1, <4>2, <2>3 DEF CheckStored, ReadMoves, Reading, RelayInv, RelayTypeOK
        <5> QED
          BY <5>1
      <4>3. CASE stored[read[r].text] # 0
        BY <1>10, <4>3 DEF CheckStored, ReadMoves, Reading, Idle, RelayInv, RelayTypeOK
      <4> QED
        BY <4>2, <4>3
    <3>2. Inserting(t)' <= Inserting(t)
      BY <3>1, <1>f, <1>0 DEF Bit
    <3> QED
      BY <2>1, <3>2, <1>0, <1>d
  <2> QED
    BY <2>2, <2>3
<1>11. ASSUME NEW r \in Reads, ReadStores(r) PROVE Goal
  <2>1. /\ Idle \in Reading /\ ReadMoves(r, Idle) /\ Idle \notin R
        /\ watching' = watching /\ Asking(t)' = Asking(t)
        /\ stored'[t] = stored[t] \/ (stored'[t] = stored[t] + 1 /\ read[r].text = t)
    BY <1>11, <1>b DEF ReadStores, ReadMoves, Reading, Idle, RelayTypeOK, RelayInv
  <2>2. read[r].text = t => read[r] \in R
    BY <1>11 DEF ReadStores, RelayTypeOK, RelayInv
  <2> HIDE DEF R
  <2>3. Inserting(t)' = Inserting(t) - Bit(read[r] \in R)
    BY <2>1, <1>f, <1>0 DEF Bit
  <2> QED
    BY <2>1, <2>2, <2>3, <1>0, <1>d DEF Bit
<1>12. CASE UNCHANGED relayVars
  BY <1>0, <1>12, <1>b, <1>c DEF relayVars
<1> QED
  BY <1>1, <1>2, <1>3, <1>4, <1>5, <1>6, <1>7, <1>8, <1>9, <1>10, <1>11, <1>12 DEF RelayNext

LEMMA RelaySteps == RelayInv /\ [RelayNext]_relayVars => RelayInv'
BY RelayTypes, WordsStay, ReplyStays, RepliesCount, StoresCount DEF RelayInv

LEMMA RelayAnswers == RelayInv => ChatIsAnswered
<1> SUFFICES ASSUME RelayInv PROVE ChatIsAnswered
  OBVIOUS
<1> USE DEF RelayInv
<1>0. /\ Cardinality(Polls) \in Nat /\ Cardinality(Reads) \in Nat
      /\ Busy \in Nat /\ Told \in Nat /\ \A k \in Replies : sent[k] \in Nat
      /\ \A t \in Texts : stored[t] \in Nat /\ Asking(t) \in Nat /\ Inserting(t) \in Nat
  BY HeldType, RelaySizes DEF Busy, Asking, Inserting, RelayTypeOK
<1>1. RepliesAreBounded
  BY <1>0 DEF RepliesAreBounded, RepliesAreCounted, Told
<1>2. AnswersAreStored
  BY <1>0 DEF AnswersAreStored, StoresAreCounted, WordsAreTrue
<1>3. WatchEndsWithReply
  <2>1. InFlight = {} => ~ \E p \in Polls : poll[p].pc \in {"storing"} \cup Replies
    BY DEF InFlight, Replies
  <2>2. Told > 0 => \E k \in Replies : sent[k] > 0
    BY <1>0 DEF Told, Replies
  <2> QED
    BY <2>1, <2>2 DEF WatchEndsWithReply, ReplyIsUnderWay
<1> QED
  BY <1>1, <1>2, <1>3 DEF ChatIsAnswered

\* However polls and requests overlap: the chat is told of a failure only when it is final,
\* of nothing more often than polls overlap, of no answer that is not in the history, and
\* of something when the watch is over.
THEOREM ChatsAreAnswered == RelaySpec => []ChatIsAnswered
<1>1. RelaySpec => []RelayInv
  BY RelayStarts, RelaySteps, PTL DEF RelaySpec
<1> QED
  BY <1>1, RelayAnswers, PTL

-----------------------------------------------------------------------------
(* The windows of a session's memory.                                        *)

LEMMA MemoryBounds == MaxId \in Nat /\ Threshold \in Nat \ {0}
  BY MemoryAssumption

\* Sets of ids are finite.
LEMMA IdsAreFinite ==
  ASSUME NEW S \in SUBSET Ids
  PROVE  /\ IsFiniteSet(S) /\ Cardinality(S) \in Nat /\ Cardinality(S) <= MaxId
         /\ \A T \in SUBSET S : Cardinality(T) <= Cardinality(S)
<1>1. IsFiniteSet(Ids) /\ Cardinality(Ids) = MaxId
  BY MemoryBounds, FS_Interval DEF Ids
<1>2. IsFiniteSet(S) /\ Cardinality(S) <= MaxId
  BY <1>1, FS_Subset
<1> QED
  BY <1>2, FS_Subset, FS_CardinalityType

\* A set of ids that is not empty has a greatest element.
LEMMA GreatestId ==
  ASSUME NEW S \in SUBSET Ids, S # {}
  PROVE  \E i \in S : \A j \in S : j <= i
<1> DEFINE T == {MaxId - i : i \in S}
<1>1. T \in SUBSET Nat /\ T # {}
  <2>1. \A i \in S : i \in Int /\ i <= MaxId
    BY MemoryBounds DEF Ids
  <2>2. \A i \in S : MaxId - i \in Nat
    BY <2>1, MemoryBounds
  <2> QED
    BY <2>2
<1>2. PICK x \in T : \A y \in T : <<y, x>> \notin OpToRel(<, Nat)
  BY <1>1, NatLessThanWellFounded, WFMin
<1>3. \A y \in T : ~(y < x)
  BY <1>1, <1>2 DEF OpToRel
<1>4. PICK i \in S : x = MaxId - i
  BY <1>2
<1>5. ASSUME NEW j \in S PROVE j <= i
  <2>1. MaxId - j \in T
    OBVIOUS
  <2>2. ~(MaxId - j < MaxId - i)
    BY <1>3, <1>4, <2>1
  <2> QED
    BY <2>2, MemoryBounds DEF Ids
<1> QED
  BY <1>5

FlusherStates == {NoFlush, [pc |-> "loading"]} \cup [pc: {"adding"}, window: Window]
TaskStates    == {NoTask} \cup [pc: {"extracting", "marking"}, window: Window]
                         \cup [pc: {"uncounting"}, count: 1..MaxId]

\* A window can be marked by its last id: what is not in it up to there was overtaken.
Covers(w) ==
  row[w.upTo] # "absent" /\ \A i \in Unmarked : i <= w.upTo => i \in w.ids \cup overtaken

Owed(f) == {i \in Ids : i \in Unmarked \/ \E t \in ExtractTasks : i \in f[t]}

\* f gives every task the messages that it has marked and has yet to take from the count.
Pledged(f) ==
  /\ \A t \in ExtractTasks : /\ IF task[t].pc = "uncounting" THEN Cardinality(f[t]) = task[t].count ELSE f[t] = {}
                             /\ \A i \in f[t] : row[i] = "marked"
                             /\ \A u \in ExtractTasks \ {t} : f[t] \cap f[u] = {}
  /\ Cardinality(Owed(f)) <= pending

\* The counter lies between the messages that it must find and those that were committed.
MemoryInv ==
  /\ MemoryTypeOK /\ MarkedIsExtracted
  /\ \A w \in Loaded : Covers(w)
  /\ \A t \in ExtractTasks : task[t].pc = "marking" => task[t].window.ids \subseteq extracted
  /\ \A i \in Ids : recorder[i] \in {"none", "committing"} => row[i] = "absent"
  /\ pending <= Cardinality({i \in Ids : row[i] # "absent"})
  /\ \E f \in [ExtractTasks -> SUBSET Ids] : Pledged(f)

LEMMA LoadedFacts ==
  ASSUME MemoryTypeOK
  PROVE  /\ \A w : w \in Loaded <=> \/ w \in windows
                                    \/ \E f \in Flushers : flusher[f].pc = "adding" /\ w = flusher[f].window
                                    \/ \E t \in ExtractTasks : task[t].pc \in {"extracting", "marking"} /\ w = task[t].window
         /\ \A f \in Flushers : flusher[f].pc = "adding" => flusher[f] \in [pc: {"adding"}, window: Window]
         /\ \A t \in ExtractTasks : /\ task[t].pc \in {"extracting", "marking"} => task[t] \in [pc: {"extracting", "marking"}, window: Window]
                                    /\ task[t].pc = "uncounting" => task[t] \in [pc: {"uncounting"}, count: 1..MaxId]
                                    /\ task[t] # NoTask => task[t].pc \in {"extracting", "marking", "uncounting"}
         /\ Loaded \subseteq Window
<1>1. /\ \A f \in Flushers : flusher[f] \in FlusherStates
      /\ \A t \in ExtractTasks : task[t] \in TaskStates
      /\ windows \subseteq Window
  BY DEF MemoryTypeOK, FlusherStates, TaskStates
<1>2. \A f \in Flushers : flusher[f].pc = "adding" => flusher[f] \in [pc: {"adding"}, window: Window]
  BY <1>1 DEF FlusherStates, NoFlush
<1>3. \A t \in ExtractTasks : /\ task[t].pc \in {"extracting", "marking"} => task[t] \in [pc: {"extracting", "marking"}, window: Window]
                              /\ task[t].pc = "uncounting" => task[t] \in [pc: {"uncounting"}, count: 1..MaxId]
                              /\ task[t] # NoTask => task[t].pc \in {"extracting", "marking", "uncounting"}
  BY <1>1 DEF TaskStates, NoTask
<1>4. \A w : w \in Loaded <=> \/ w \in windows
                              \/ \E f \in Flushers : flusher[f].pc = "adding" /\ w = flusher[f].window
                              \/ \E t \in ExtractTasks : task[t].pc \in {"extracting", "marking"} /\ w = task[t].window
  BY DEF Loaded
<1>5. Loaded \subseteq Window
  BY <1>1, <1>2, <1>3, <1>4
<1> QED
  BY <1>2, <1>3, <1>4, <1>5

LEMMA MemoryStarts == MemoryInit => MemoryInv
<1> SUFFICES ASSUME MemoryInit PROVE MemoryInv
  OBVIOUS
<1>1. MemoryTypeOK
  BY MemoryBounds DEF MemoryInit, MemoryTypeOK, NoFlush, NoTask
<1>2. Unmarked = {} /\ {i \in Ids : row[i] # "absent"} = {}
  BY DEF MemoryInit, Unmarked
<1>3. Loaded = {}
  <2>1. ASSUME NEW w \in Loaded PROVE FALSE
    BY <1>1, <2>1, LoadedFacts DEF MemoryInit, NoFlush, NoTask
  <2> QED
    BY <2>1
<1>4. MarkedIsExtracted
  BY DEF MemoryInit, MarkedIsExtracted
<1>5. PICK f \in [ExtractTasks -> SUBSET Ids] : \A t \in ExtractTasks : f[t] = {}
  <2>1. [t \in ExtractTasks |-> {}] \in [ExtractTasks -> SUBSET Ids]
    OBVIOUS
  <2> QED
    BY <2>1
<1>6. Pledged(f)
  <2>1. Owed(f) = {}
    BY <1>2, <1>5 DEF Owed
  <2>2. Cardinality(Owed(f)) = 0 /\ pending = 0
    BY <2>1, FS_EmptySet DEF MemoryInit
  <2>3. \A t \in ExtractTasks : f[t] = {} /\ task[t].pc # "uncounting"
    BY <1>5 DEF MemoryInit, NoTask
  <2>4. \A t \in ExtractTasks : /\ IF task[t].pc = "uncounting" THEN Cardinality(f[t]) = task[t].count ELSE f[t] = {}
                                /\ \A i \in f[t] : row[i] = "marked"
                                /\ \A u \in ExtractTasks \ {t} : f[t] \cap f[u] = {}
    BY <2>3
  <2> QED
    BY <2>2, <2>4 DEF Pledged
<1>7. pending <= Cardinality({i \in Ids : row[i] # "absent"})
  <2>1. pending = 0 /\ Cardinality({}) = 0
    BY FS_EmptySet DEF MemoryInit
  <2> QED
    BY <1>2, <2>1
<1>8. \A t \in ExtractTasks : task[t].pc # "marking"
  BY DEF MemoryInit, NoTask
<1>9. \A i \in Ids : row[i] = "absent"
  BY DEF MemoryInit
<1> QED
  BY <1>1, <1>3, <1>4, <1>5, <1>6, <1>7, <1>8, <1>9 DEF MemoryInv

\* Steps that neither write rows nor count.
LEMMA RowsStay ==
  ASSUME MemoryInv, MemoryTypeOK', UNCHANGED <<row, pending, overtaken>>, extracted \subseteq extracted',
         \A w \in Loaded' : w \in Loaded \/ Covers(w),
         \A i \in Ids : recorder'[i] \in {"none", "committing"} => recorder[i] \in {"none", "committing"},
         \A t \in ExtractTasks : task'[t].pc = "marking" => task'[t].window.ids \subseteq extracted',
         \A t \in ExtractTasks : task'[t].pc = "uncounting" => task'[t] = task[t]
  PROVE  MemoryInv'
<1>1. MarkedIsExtracted'
  BY DEF MemoryInv, MarkedIsExtracted
<1>2. Unmarked' = Unmarked
  BY DEF Unmarked
<1>3. \A w \in Loaded' : Covers(w)'
  <2>1. \A w \in Loaded' : Covers(w)
    BY DEF MemoryInv
  <2> QED
    BY <1>2, <2>1 DEF Covers
<1>4. \A i \in Ids : recorder'[i] \in {"none", "committing"} => row'[i] = "absent"
  BY DEF MemoryInv
<1>5. pending' <= Cardinality({i \in Ids : row'[i] # "absent"})
  BY DEF MemoryInv
<1>6. \E f \in [ExtractTasks -> SUBSET Ids] : Pledged(f)'
  <2>1. PICK f \in [ExtractTasks -> SUBSET Ids] : Pledged(f)
    BY DEF MemoryInv
  <2>2. PICK g \in [ExtractTasks -> SUBSET Ids] :
               \A t \in ExtractTasks : g[t] = IF task'[t].pc = "uncounting" THEN f[t] ELSE {}
    <3>1. [t \in ExtractTasks |-> IF task'[t].pc = "uncounting" THEN f[t] ELSE {}] \in [ExtractTasks -> SUBSET Ids]
      OBVIOUS
    <3> QED
      BY <3>1
  <2>3. \A t \in ExtractTasks :
          /\ IF task'[t].pc = "uncounting" THEN Cardinality(g[t]) = task'[t].count ELSE g[t] = {}
          /\ \A i \in g[t] : row'[i] = "marked"
          /\ \A u \in ExtractTasks \ {t} : g[t] \cap g[u] = {}
    BY <2>1, <2>2 DEF Pledged
  <2>4. Owed(g)' \in SUBSET Owed(f) /\ Owed(f) \in SUBSET Ids
    BY <1>2, <2>2 DEF Owed
  <2>5. Cardinality(Owed(g)') <= Cardinality(Owed(f)) /\ Cardinality(Owed(g)') \in Nat /\ Cardinality(Owed(f)) \in Nat
    BY <2>4, IdsAreFinite
  <2>6. Cardinality(Owed(g)') <= pending'
    <3>1. Cardinality(Owed(f)) <= pending /\ pending \in Nat
      BY <2>1, MemoryBounds DEF Pledged, MemoryInv, MemoryTypeOK
    <3> QED
      BY <2>5, <3>1
  <2>7. Pledged(g)'
    BY <2>3, <2>6 DEF Pledged
  <2> QED
    BY <2>2, <2>7
<1> QED
  BY <1>1, <1>3, <1>4, <1>5, <1>6 DEF MemoryInv

\* A window that is loaded holds all that is visible up to its last id.
LEMMA VisibleCovers ==
  ASSUME Unmarked # {}
  PROVE  Visible \in Window /\ Covers(Visible)
<1>1. Unmarked \in SUBSET Ids
  BY DEF Unmarked
<1>2. \E i \in Unmarked : \A j \in Unmarked : j <= i
  BY <1>1, GreatestId
<1> DEFINE last == CHOOSE i \in Unmarked : \A j \in Unmarked : j <= i
<1>3. last \in Unmarked
  BY <1>2
<1> HIDE DEF last
<1>4. Visible = [upTo |-> last, ids |-> Unmarked]
  BY DEF Visible, last
<1>5. Visible.upTo = last /\ Visible.ids = Unmarked /\ Visible \in Window
  BY <1>1, <1>3, <1>4 DEF Window
<1>6. row[last] # "absent"
  BY <1>3 DEF Unmarked
<1> QED
  BY <1>5, <1>6 DEF Covers

\* A commit adds a row that nothing has marked yet, and counts it.
LEMMA CommitKeeps == ASSUME MemoryInv, NEW i \in Ids, CommitMessage(i) PROVE MemoryInv'
<1>d. dropped' \subseteq Ids
  BY DEF CommitMessage, MemoryInv, MemoryTypeOK
<1>1. /\ recorder[i] = "committing" /\ recorder' = [recorder EXCEPT ![i] = "counting"]
      /\ row' = [row EXCEPT ![i] = "unmarked"] /\ pending' = pending + 1
      /\ overtaken' = IF \E w \in Loaded : w.upTo > i THEN overtaken \cup {i} ELSE overtaken
      /\ UNCHANGED <<flusher, windows, task, extracted>>
  BY DEF CommitMessage
<1>2. MemoryTypeOK /\ row[i] = "absent" /\ row \in [Ids -> {"absent", "unmarked", "marked"}]
  BY <1>1 DEF MemoryInv, MemoryTypeOK
<1>3. /\ row'[i] = "unmarked" /\ \A j \in Ids \ {i} : row'[j] = row[j]
      /\ row' \in [Ids -> {"absent", "unmarked", "marked"}]
  BY <1>1, <1>2
<1>4. /\ Unmarked' = Unmarked \cup {i} /\ i \notin Unmarked /\ Unmarked \in SUBSET Ids
  BY <1>2, <1>3 DEF Unmarked
<1>5. overtaken \subseteq overtaken' /\ overtaken' \subseteq Ids
  BY <1>1, <1>2 DEF MemoryTypeOK
<1> DEFINE B == {j \in Ids : row[j] # "absent"}
<1>6. pending' <= Cardinality(B') /\ pending' \in 0 .. MaxId
  <2>1. B' = B \cup {i} /\ i \notin B /\ B \in SUBSET Ids /\ B' \in SUBSET Ids
    BY <1>2, <1>3
  <2>2. Cardinality(B') = Cardinality(B) + 1
    BY <2>1, IdsAreFinite, FS_AddElement
  <2>3. Cardinality(B') <= MaxId /\ Cardinality(B') \in Nat /\ Cardinality(B) \in Nat
    BY <2>1, IdsAreFinite
  <2>4. pending <= Cardinality(B) /\ pending \in Nat
    BY <1>2, MemoryBounds DEF MemoryInv, MemoryTypeOK
  <2> QED
    BY <1>1, <2>2, <2>3, <2>4, MemoryBounds
<1>7. MemoryTypeOK'
  <2>1. recorder' \in [Ids -> {"none", "committing", "counting", "done"}]
    BY <1>1, <1>2 DEF MemoryTypeOK
  <2> QED
    BY <1>1, <1>2, <1>3, <1>5, <1>6, <2>1, <1>d DEF MemoryTypeOK
<1>8. MarkedIsExtracted'
  BY <1>1, <1>3, <1>5 DEF MemoryInv, MarkedIsExtracted
<1>9. \A w \in Loaded' : Covers(w)'
  <2> TAKE w \in Loaded'
  <2>1. w \in Loaded
    BY <1>1 DEF Loaded
  <2>2. Covers(w) /\ w.upTo \in Ids
    BY <1>2, <2>1, LoadedFacts DEF MemoryInv, Window
  <2>3. w.upTo # i /\ row'[w.upTo] # "absent"
    BY <1>2, <1>3, <2>2 DEF Covers
  <2>4. ASSUME NEW j \in Unmarked', j <= w.upTo PROVE j \in w.ids \cup overtaken'
    <3>1. CASE j = i
      <4>1. w.upTo > i
        BY <2>2, <2>3, <2>4, <3>1, MemoryBounds DEF Ids
      <4> QED
        BY <1>1, <2>1, <3>1, <4>1
    <3>2. CASE j # i
      BY <1>4, <1>5, <2>2, <2>4, <3>2 DEF Covers
    <3> QED
      BY <3>1, <3>2
  <2> QED
    BY <2>3, <2>4 DEF Covers
<1>10. \A t \in ExtractTasks : task'[t].pc = "marking" => task'[t].window.ids \subseteq extracted'
  BY <1>1 DEF MemoryInv
<1>11. \A j \in Ids : recorder'[j] \in {"none", "committing"} => row'[j] = "absent"
  BY <1>1, <1>2, <1>3 DEF MemoryInv, MemoryTypeOK
<1>12. \E f \in [ExtractTasks -> SUBSET Ids] : Pledged(f)'
  <2>1. PICK f \in [ExtractTasks -> SUBSET Ids] : Pledged(f)
    BY DEF MemoryInv
  <2>2. Owed(f)' \in SUBSET (Owed(f) \cup {i}) /\ Owed(f) \in SUBSET Ids /\ Owed(f) \cup {i} \in SUBSET Ids
    BY <1>4 DEF Owed
  <2>3. Cardinality(Owed(f) \cup {i}) <= Cardinality(Owed(f)) + 1 /\ Cardinality(Owed(f)) \in Nat
    BY <2>2, IdsAreFinite, FS_AddElement
  <2>4. Cardinality(Owed(f)') <= Cardinality(Owed(f) \cup {i}) /\ Cardinality(Owed(f)') \in Nat
    BY <2>2, IdsAreFinite
  <2>5. Cardinality(Owed(f)) <= pending /\ pending \in Nat
    BY <1>2, <2>1, MemoryBounds DEF Pledged, MemoryTypeOK
  <2>6. Cardinality(Owed(f) \cup {i}) \in Nat
    BY <2>2, IdsAreFinite
  <2>7. Cardinality(Owed(f)') <= pending'
    BY <1>1, <2>3, <2>4, <2>5, <2>6
  <2>8. \A t \in ExtractTasks : \A j \in f[t] : row'[j] = "marked"
    <3> TAKE t \in ExtractTasks
    <3> TAKE j \in f[t]
    <3>1. row[j] = "marked" /\ j \in Ids
      BY <2>1 DEF Pledged
    <3> QED
      BY <1>2, <1>3, <3>1
  <2>9. Pledged(f)'
    BY <1>1, <2>1, <2>7, <2>8 DEF Pledged
  <2> QED
    BY <2>9
<1> QED
  BY <1>6, <1>7, <1>8, <1>9, <1>10, <1>11, <1>12 DEF MemoryInv

\* Marking takes messages from those to be found and pledges them to the count.
LEMMA MarkKeeps == ASSUME MemoryInv, NEW t \in ExtractTasks, MarkRows(t) PROVE MemoryInv'
<1> DEFINE M == Marked(t)
<1>d. dropped' \subseteq Ids
  BY DEF MarkRows, MemoryInv, MemoryTypeOK
<1>1. /\ task[t].pc = "marking"
      /\ row' = [i \in Ids |-> IF i \in M THEN "marked" ELSE row[i]]
      /\ task' = [task EXCEPT ![t] = IF M = {} THEN NoTask ELSE [pc |-> "uncounting", count |-> Cardinality(M)]]
      /\ UNCHANGED <<recorder, pending, flusher, windows, extracted, overtaken>>
  BY DEF MarkRows
<1>2. MemoryTypeOK /\ M \in SUBSET Unmarked /\ Unmarked \in SUBSET Ids /\ M \in SUBSET Ids
  BY DEF MemoryInv, Marked, Unmarked
<1>3. M \subseteq extracted \cup overtaken
  <2>1. task[t].window \in Loaded /\ task[t].window.ids \subseteq extracted
    BY <1>1, <1>2, LoadedFacts DEF MemoryInv
  <2>2. Covers(task[t].window)
    BY <2>1 DEF MemoryInv
  <2> QED
    BY <2>1, <2>2 DEF Covers, Marked
<1>4. /\ IsFiniteSet(M) /\ Cardinality(M) \in Nat /\ Cardinality(M) <= MaxId
      /\ M # {} => Cardinality(M) \in 1 .. MaxId
  BY <1>2, IdsAreFinite, FS_EmptySet, MemoryBounds
<1>5. M \in SUBSET Ids /\ \A i \in Ids : row[i] = "unmarked" <=> i \in Unmarked
  BY <1>2 DEF Unmarked
<1> HIDE DEF M
<1>6. /\ row' \in [Ids -> {"absent", "unmarked", "marked"}]
      /\ \A i \in Ids : row'[i] = IF i \in M THEN "marked" ELSE row[i]
      /\ Unmarked' \in SUBSET Unmarked
      /\ \A i \in Ids : row'[i] = "absent" <=> row[i] = "absent"
  <2>1. row \in [Ids -> {"absent", "unmarked", "marked"}]
    BY <1>2 DEF MemoryTypeOK
  <2>2. \A i \in Ids : row'[i] = IF i \in M THEN "marked" ELSE row[i]
    BY <1>1
  <2>3. row' \in [Ids -> {"absent", "unmarked", "marked"}]
    BY <1>1, <2>1
  <2>4. Unmarked' \in SUBSET Unmarked
    BY <2>2 DEF Unmarked
  <2>5. \A i \in Ids : row'[i] = "absent" <=> row[i] = "absent"
    BY <1>2, <1>5, <2>2
  <2> QED
    BY <2>2, <2>3, <2>4, <2>5
<1>7. /\ task' \in [ExtractTasks -> TaskStates] /\ \A u \in ExtractTasks \ {t} : task'[u] = task[u]
      /\ M = {} => task'[t] = NoTask
      /\ M # {} => task'[t].pc = "uncounting" /\ task'[t].count = Cardinality(M)
  <2>1. task \in [ExtractTasks -> TaskStates]
    BY <1>2 DEF MemoryTypeOK, TaskStates
  <2>2. NoTask \in TaskStates
    BY DEF TaskStates
  <2>3. M # {} => [pc |-> "uncounting", count |-> Cardinality(M)] \in TaskStates
    BY <1>4 DEF TaskStates
  <2> QED
    BY <1>1, <2>1, <2>2, <2>3
<1>8. MemoryTypeOK'
  BY <1>1, <1>2, <1>6, <1>7, <1>d DEF MemoryTypeOK, TaskStates
<1>9. MarkedIsExtracted'
  <2> SUFFICES ASSUME NEW i \in Ids, row'[i] = "marked" PROVE i \in extracted \cup overtaken
    BY <1>1 DEF MarkedIsExtracted
  <2> QED
    BY <1>3, <1>6 DEF MemoryInv, MarkedIsExtracted
<1>10. \A w \in Loaded' : Covers(w)'
  <2> TAKE w \in Loaded'
  <2>1. w \in Loaded
    <3>1. \A u \in ExtractTasks : task'[u].pc \in {"extracting", "marking"} => task'[u] = task[u]
      BY <1>7 DEF NoTask
    <3>2. \/ w \in windows
          \/ \E f \in Flushers : flusher[f].pc = "adding" /\ w = flusher[f].window
          \/ \E u \in ExtractTasks : task'[u].pc \in {"extracting", "marking"} /\ w = task'[u].window
      BY <1>1 DEF Loaded
    <3> QED
      BY <1>2, <3>1, <3>2, LoadedFacts
  <2>2. Covers(w) /\ w.upTo \in Ids
    BY <1>2, <2>1, LoadedFacts DEF MemoryInv, Window
  <2> QED
    BY <1>1, <1>6, <2>2 DEF Covers
<1>11. \A u \in ExtractTasks : task'[u].pc = "marking" => task'[u].window.ids \subseteq extracted'
  BY <1>1, <1>7 DEF MemoryInv, NoTask
<1>12. \A i \in Ids : recorder'[i] \in {"none", "committing"} => row'[i] = "absent"
  BY <1>1, <1>6 DEF MemoryInv
<1>13. pending' <= Cardinality({i \in Ids : row'[i] # "absent"})
  <2>1. {i \in Ids : row'[i] # "absent"} = {i \in Ids : row[i] # "absent"}
    BY <1>6
  <2> QED
    BY <1>1, <2>1 DEF MemoryInv
<1>14. \E f \in [ExtractTasks -> SUBSET Ids] : Pledged(f)'
  <2>1. PICK f \in [ExtractTasks -> SUBSET Ids] : Pledged(f)
    BY DEF MemoryInv
  <2>2. PICK g \in [ExtractTasks -> SUBSET Ids] : g[t] = M /\ \A u \in ExtractTasks \ {t} : g[u] = f[u]
    <3>1. [f EXCEPT ![t] = M] \in [ExtractTasks -> SUBSET Ids]
      BY <1>2
    <3> QED
      BY <3>1
  <2>3. \A u \in ExtractTasks : IF task'[u].pc = "uncounting" THEN Cardinality(g[u]) = task'[u].count ELSE g[u] = {}
    <3>1. ASSUME NEW u \in ExtractTasks \ {t}
          PROVE  IF task'[u].pc = "uncounting" THEN Cardinality(g[u]) = task'[u].count ELSE g[u] = {}
      BY <1>7, <2>1, <2>2 DEF Pledged
    <3>2. IF task'[t].pc = "uncounting" THEN Cardinality(g[t]) = task'[t].count ELSE g[t] = {}
      <4>1. CASE M = {}
        BY <1>7, <2>2, <4>1 DEF NoTask
      <4>2. CASE M # {}
        BY <1>7, <2>2, <4>2
      <4> QED
        BY <4>1, <4>2
    <3> QED
      BY <3>1, <3>2
  <2>4. \A u \in ExtractTasks : \A i \in g[u] : row'[i] = "marked"
    <3> TAKE u \in ExtractTasks
    <3> TAKE i \in g[u]
    <3>1. i \in Ids /\ (i \in M \/ row[i] = "marked")
      BY <2>1, <2>2 DEF Pledged
    <3> QED
      BY <1>6, <3>1
  <2>5. ASSUME NEW u \in ExtractTasks \ {t} PROVE M \cap f[u] = {}
    <3>1. \A i \in f[u] : row[i] = "marked"
      BY <2>1 DEF Pledged
    <3>2. \A i \in M : row[i] = "unmarked"
      BY <1>2, <1>5
    <3> QED
      BY <3>1, <3>2
  <2>6. \A u \in ExtractTasks : \A v \in ExtractTasks \ {u} : g[u] \cap g[v] = {}
    <3> SUFFICES ASSUME NEW u \in ExtractTasks, NEW v \in ExtractTasks \ {u} PROVE g[u] \cap g[v] = {}
      OBVIOUS
    <3>1. CASE u = t
      BY <2>2, <2>5, <3>1
    <3>2. CASE v = t
      BY <2>2, <2>5, <3>2
    <3>3. CASE u # t /\ v # t
      BY <2>1, <2>2, <3>3 DEF Pledged
    <3> QED
      BY <3>1, <3>2, <3>3
  <2>7. Owed(g)' \in SUBSET Owed(f) /\ Owed(f) \in SUBSET Ids
    <3>1. ASSUME NEW i \in Owed(g)' PROVE i \in Owed(f)
      <4>1. i \in Ids /\ (i \in Unmarked' \/ \E u \in ExtractTasks : i \in g[u])
        BY <3>1 DEF Owed
      <4>2. i \in Unmarked \/ \E u \in ExtractTasks : i \in f[u]
        BY <1>2, <1>6, <2>2, <4>1
      <4> QED
        BY <4>1, <4>2 DEF Owed
    <3> QED
      BY <3>1 DEF Owed
  <2>8. Cardinality(Owed(g)') <= pending'
    <3>1. Cardinality(Owed(g)') <= Cardinality(Owed(f)) /\ Cardinality(Owed(g)') \in Nat /\ Cardinality(Owed(f)) \in Nat
      BY <2>7, IdsAreFinite
    <3>2. Cardinality(Owed(f)) <= pending /\ pending \in Nat /\ pending' = pending
      BY <1>1, <1>2, <2>1, MemoryBounds DEF Pledged, MemoryTypeOK
    <3> QED
      BY <3>1, <3>2
  <2>9. Pledged(g)'
    BY <2>3, <2>4, <2>6, <2>8 DEF Pledged
  <2> QED
    BY <2>9
<1> QED
  BY <1>8, <1>9, <1>10, <1>11, <1>12, <1>13, <1>14 DEF MemoryInv

\* The count falls by what was pledged to it.
LEMMA UncountKeeps == ASSUME MemoryInv, NEW t \in ExtractTasks, Uncount(t) PROVE MemoryInv'
<1>d. dropped' \subseteq Ids
  BY DEF Uncount, MemoryInv, MemoryTypeOK
<1>1. /\ task[t].pc = "uncounting"
      /\ pending' = (IF pending > task[t].count THEN pending - task[t].count ELSE 0)
      /\ task' = [task EXCEPT ![t] = NoTask]
      /\ UNCHANGED <<row, recorder, flusher, windows, extracted, overtaken>>
  BY DEF Uncount
<1>2. MemoryTypeOK /\ task[t].count \in Nat /\ pending \in Nat /\ pending <= MaxId
  <2>1. MemoryTypeOK /\ pending \in 0 .. MaxId
    BY DEF MemoryInv, MemoryTypeOK
  <2>2. task[t] \in [pc: {"uncounting"}, count: 1..MaxId]
    BY <1>1, <2>1, LoadedFacts
  <2> QED
    BY <2>1, <2>2, MemoryBounds
<1>3. /\ task' \in [ExtractTasks -> TaskStates] /\ task'[t] = NoTask
      /\ \A u \in ExtractTasks \ {t} : task'[u] = task[u]
  BY <1>1, <1>2 DEF MemoryTypeOK, TaskStates
<1>4. pending' \in 0 .. MaxId /\ pending' <= pending
  BY <1>1, <1>2, MemoryBounds
<1>5. MemoryTypeOK'
  BY <1>1, <1>2, <1>3, <1>4, <1>d DEF MemoryTypeOK, TaskStates
<1>6. Unmarked' = Unmarked
  BY <1>1 DEF Unmarked
<1>7. \A w \in Loaded' : Covers(w)'
  <2> TAKE w \in Loaded'
  <2>1. \A u \in ExtractTasks : task'[u].pc \in {"extracting", "marking"} => task'[u] = task[u]
    BY <1>3 DEF NoTask
  <2>2. \/ w \in windows
        \/ \E f \in Flushers : flusher[f].pc = "adding" /\ w = flusher[f].window
        \/ \E u \in ExtractTasks : task'[u].pc \in {"extracting", "marking"} /\ w = task'[u].window
    BY <1>1 DEF Loaded
  <2>3. w \in Loaded
    BY <1>2, <2>1, <2>2, LoadedFacts
  <2>4. Covers(w)
    BY <2>3 DEF MemoryInv
  <2> QED
    BY <1>1, <1>6, <2>4 DEF Covers
<1>8. MarkedIsExtracted'
  BY <1>1 DEF MemoryInv, MarkedIsExtracted
<1>9. \A u \in ExtractTasks : task'[u].pc = "marking" => task'[u].window.ids \subseteq extracted'
  BY <1>1, <1>3 DEF MemoryInv, NoTask
<1>10. \A i \in Ids : recorder'[i] \in {"none", "committing"} => row'[i] = "absent"
  BY <1>1 DEF MemoryInv
<1>11. pending' <= Cardinality({i \in Ids : row'[i] # "absent"})
  <2>1. {i \in Ids : row[i] # "absent"} \in SUBSET Ids
    OBVIOUS
  <2>2. Cardinality({i \in Ids : row[i] # "absent"}) \in Nat
    BY <2>1, IdsAreFinite
  <2>3. pending <= Cardinality({i \in Ids : row[i] # "absent"})
    BY DEF MemoryInv
  <2> QED
    BY <1>1, <1>2, <1>4, <2>2, <2>3
<1>12. \E f \in [ExtractTasks -> SUBSET Ids] : Pledged(f)'
  <2>1. PICK f \in [ExtractTasks -> SUBSET Ids] : Pledged(f)
    BY DEF MemoryInv
  <2>2. PICK g \in [ExtractTasks -> SUBSET Ids] : g[t] = {} /\ \A u \in ExtractTasks \ {t} : g[u] = f[u]
    <3>1. [f EXCEPT ![t] = {}] \in [ExtractTasks -> SUBSET Ids]
      OBVIOUS
    <3> QED
      BY <3>1
  <2>3. /\ Cardinality(f[t]) = task[t].count /\ \A i \in f[t] : row[i] = "marked"
        /\ \A u \in ExtractTasks \ {t} : f[t] \cap f[u] = {}
    BY <1>1, <2>1 DEF Pledged
  <2>4. /\ Owed(g)' \in SUBSET Ids /\ Owed(f) \in SUBSET Ids /\ f[t] \in SUBSET Owed(f)
        /\ Owed(g)' \cap f[t] = {} /\ Owed(g)' \cup f[t] \in SUBSET Owed(f)
    <3>1. ASSUME NEW i \in Owed(g)' PROVE i \in Owed(f) /\ i \notin f[t]
      <4>1. i \in Ids /\ (i \in Unmarked \/ \E u \in ExtractTasks \ {t} : i \in f[u])
        BY <1>6, <2>2, <3>1 DEF Owed
      <4>2. CASE i \in Unmarked
        BY <2>3, <4>1, <4>2 DEF Owed, Unmarked
      <4>3. CASE \E u \in ExtractTasks \ {t} : i \in f[u]
        BY <2>3, <4>1, <4>3 DEF Owed
      <4> QED
        BY <4>1, <4>2, <4>3
    <3>2. f[t] \in SUBSET Owed(f) /\ Owed(f) \in SUBSET Ids /\ Owed(g)' \in SUBSET Ids
      BY DEF Owed
    <3> QED
      BY <3>1, <3>2
  <2>5. Cardinality(Owed(g)') + Cardinality(f[t]) <= Cardinality(Owed(f))
    <3>1. IsFiniteSet(Owed(g)') /\ IsFiniteSet(f[t])
      BY <2>4, IdsAreFinite
    <3>2. Cardinality(Owed(g)' \cup f[t]) = Cardinality(Owed(g)') + Cardinality(f[t]) - Cardinality(Owed(g)' \cap f[t])
      BY <3>1, FS_Union
    <3>3. Cardinality(Owed(g)' \cap f[t]) = 0
      BY <2>4, FS_EmptySet
    <3>4. Cardinality(Owed(g)' \cup f[t]) <= Cardinality(Owed(f))
      BY <2>4, IdsAreFinite
    <3>5. Cardinality(Owed(g)') \in Nat /\ Cardinality(f[t]) \in Nat
      BY <2>4, IdsAreFinite
    <3> QED
      BY <3>2, <3>3, <3>4, <3>5
  <2>6. Cardinality(Owed(g)') <= pending'
    <3>1. Cardinality(Owed(g)') \in Nat /\ Cardinality(Owed(f)) \in Nat
      BY <2>4, IdsAreFinite
    <3>2. Cardinality(Owed(f)) <= pending
      BY <2>1 DEF Pledged
    <3> QED
      BY <1>1, <1>2, <2>3, <2>5, <3>1, <3>2
  <2>7. \A u \in ExtractTasks : /\ IF task'[u].pc = "uncounting" THEN Cardinality(g[u]) = task'[u].count ELSE g[u] = {}
                                /\ \A i \in g[u] : row'[i] = "marked"
                                /\ \A v \in ExtractTasks \ {u} : g[u] \cap g[v] = {}
    <3> TAKE u \in ExtractTasks
    <3>1. CASE u = t
      BY <1>3, <2>2, <3>1 DEF NoTask
    <3>2. CASE u # t
      BY <1>1, <1>3, <2>1, <2>2, <3>2 DEF Pledged
    <3> QED
      BY <3>1, <3>2
  <2>8. Pledged(g)'
    BY <2>6, <2>7 DEF Pledged
  <2> QED
    BY <2>8
<1> QED
  BY <1>5, <1>7, <1>8, <1>9, <1>10, <1>11, <1>12 DEF MemoryInv

\* Messages that were let go are messages.
LEMMA DroppedType == MemoryTypeOK /\ [MemoryNext]_memoryVars => dropped' \subseteq Ids
<1> SUFFICES ASSUME MemoryTypeOK, [MemoryNext]_memoryVars PROVE dropped' \subseteq Ids
  OBVIOUS
<1>0. dropped \subseteq Ids /\ windows \subseteq Window /\ \A w \in Window : w.ids \subseteq Ids
  BY DEF MemoryTypeOK, Window
<1>1. ASSUME NEW f \in Flushers, FlushFails(f) PROVE dropped' \subseteq Ids
  <2>1. CASE flusher[f].pc = "adding"
    <3>1. flusher[f].window \in Window
      BY <2>1, LoadedFacts
    <3> QED
      BY <1>0, <1>1, <2>1, <3>1 DEF FlushFails
  <2>2. CASE flusher[f].pc # "adding"
    BY <1>0, <1>1, <2>2 DEF FlushFails
  <2> QED
    BY <2>1, <2>2
<1>2. ASSUME NEW t \in ExtractTasks, TaskFails(t) PROVE dropped' \subseteq Ids
  <2>1. CASE task[t].pc = "uncounting"
    BY <1>0, <1>2, <2>1 DEF TaskFails
  <2>2. CASE task[t].pc # "uncounting"
    <3>1. task[t].window \in Window
      BY <1>2, <2>2, LoadedFacts DEF TaskFails
    <3> QED
      BY <1>0, <1>2, <2>2, <3>1 DEF TaskFails
  <2> QED
    BY <2>1, <2>2
<1>3. ASSUME NEW t \in ExtractTasks, TakeWindow(t) PROVE dropped' \subseteq Ids
  BY <1>0, <1>3 DEF TakeWindow
<1>4. ASSUME NEW f \in Flushers, LoadWindow(f) PROVE dropped' \subseteq Ids
  BY <1>0, <1>4 DEF LoadWindow
<1>5. ASSUME dropped' = dropped PROVE dropped' \subseteq Ids
  BY <1>0, <1>5
<1>6. CASE \E i \in Ids : InsertMessage(i) \/ CommitMessage(i) \/ RollBack(i) \/ CountPending(i)
  BY <1>5, <1>6 DEF InsertMessage, CommitMessage, RollBack, CountPending
<1>7. CASE \E f \in Flushers : Flush(f) \/ AddWindow(f)
  BY <1>5, <1>7 DEF Flush, AddWindow
<1>8. CASE \E t \in ExtractTasks : Extract(t) \/ MarkRows(t) \/ Uncount(t)
  BY <1>5, <1>8 DEF Extract, MarkRows, Uncount
<1>9. CASE UNCHANGED memoryVars
  BY <1>5, <1>9 DEF memoryVars
<1> QED
  BY <1>1, <1>2, <1>3, <1>4, <1>6, <1>7, <1>8, <1>9 DEF MemoryNext

LEMMA MemorySteps == MemoryInv /\ [MemoryNext]_memoryVars => MemoryInv'
<1> SUFFICES ASSUME MemoryInv, [MemoryNext]_memoryVars PROVE MemoryInv'
  OBVIOUS
<1>0. /\ MemoryTypeOK
      /\ task \in [ExtractTasks -> TaskStates] /\ flusher \in [Flushers -> FlusherStates]
      /\ recorder \in [Ids -> {"none", "committing", "counting", "done"}]
      /\ windows \subseteq Window /\ pending \in 0 .. MaxId /\ extracted \subseteq Ids
      /\ NoTask \in TaskStates /\ NoFlush \in FlusherStates /\ [pc |-> "loading"] \in FlusherStates
      /\ NoTask.pc = "none" /\ NoFlush.pc = "none"
  BY DEF MemoryInv, MemoryTypeOK, TaskStates, FlusherStates, NoTask, NoFlush
<1> DEFINE Adding(w)  == \E f \in Flushers : flusher[f].pc = "adding" /\ w = flusher[f].window
           Working(w) == \E t \in ExtractTasks : task[t].pc \in {"extracting", "marking"} /\ w = task[t].window
<1>a. /\ \A w : w \in Loaded <=> w \in windows \/ Adding(w) \/ Working(w)
      /\ \A w : w \in Loaded' <=> w \in windows' \/ Adding(w)' \/ Working(w)'
  BY DEF Loaded
<1>b. ASSUME windows' \subseteq windows, flusher' = flusher,
             \A u \in ExtractTasks : task'[u].pc \in {"extracting", "marking"} =>
               \/ task[u].pc \in {"extracting", "marking"} /\ task'[u].window = task[u].window
               \/ task'[u].window \in Loaded
      PROVE  \A w \in Loaded' : w \in Loaded \/ Covers(w)
  BY <1>a, <1>b
<1>c. ASSUME task' = task, extracted' = extracted
      PROVE  /\ \A t \in ExtractTasks : task'[t].pc = "marking" => task'[t].window.ids \subseteq extracted'
             /\ \A t \in ExtractTasks : task'[t].pc = "uncounting" => task'[t] = task[t]
             /\ extracted \subseteq extracted'
  BY <1>c DEF MemoryInv
<1>d. ASSUME task' = task, flusher' = flusher, windows' = windows
      PROVE  \A w \in Loaded' : w \in Loaded \/ Covers(w)
  BY <1>a, <1>d
<1>e. dropped' \subseteq Ids
  BY <1>0, DroppedType
<1>1. ASSUME NEW i \in Ids, InsertMessage(i) PROVE MemoryInv'
  <2>1. /\ recorder[i] = "none" /\ recorder' = [recorder EXCEPT ![i] = "committing"]
        /\ UNCHANGED <<row, pending, flusher, windows, task, extracted, overtaken>>
    BY <1>1 DEF InsertMessage
  <2>2. MemoryTypeOK'
    BY <1>0, <2>1, <1>e DEF MemoryTypeOK
  <2>3. \A j \in Ids : recorder'[j] \in {"none", "committing"} => recorder[j] \in {"none", "committing"}
    BY <1>0, <2>1
  <2> QED
    BY <1>c, <1>d, <2>1, <2>2, <2>3, RowsStay
<1>2. ASSUME NEW i \in Ids, CommitMessage(i) PROVE MemoryInv'
  BY <1>2, CommitKeeps
<1>3. ASSUME NEW i \in Ids, RollBack(i) PROVE MemoryInv'
  <2>1. /\ recorder[i] = "committing" /\ recorder' = [recorder EXCEPT ![i] = "done"]
        /\ UNCHANGED <<row, pending, flusher, windows, task, extracted, overtaken>>
    BY <1>3 DEF RollBack
  <2>2. MemoryTypeOK'
    BY <1>0, <2>1, <1>e DEF MemoryTypeOK
  <2>3. \A j \in Ids : recorder'[j] \in {"none", "committing"} => recorder[j] \in {"none", "committing"}
    BY <1>0, <2>1
  <2> QED
    BY <1>c, <1>d, <2>1, <2>2, <2>3, RowsStay
<1>4. ASSUME NEW i \in Ids, CountPending(i) PROVE MemoryInv'
  <2>1. /\ recorder[i] = "counting" /\ recorder' = [recorder EXCEPT ![i] = "done"]
        /\ UNCHANGED <<row, pending, windows, task, extracted, overtaken>>
        /\ flusher' = flusher \/ \E f \in Flushers : flusher' = [flusher EXCEPT ![f] = [pc |-> "loading"]]
    BY <1>4 DEF CountPending
  <2>2. /\ flusher' \in [Flushers -> FlusherStates]
        /\ \A f \in Flushers : flusher'[f].pc = "adding" => flusher'[f] = flusher[f]
    BY <1>0, <2>1
  <2>3. MemoryTypeOK'
    <3>1. recorder' \in [Ids -> {"none", "committing", "counting", "done"}]
      BY <1>0, <2>1
    <3> QED
      BY <1>0, <2>1, <2>2, <3>1, <1>e DEF MemoryTypeOK, FlusherStates
  <2>4. \A j \in Ids : recorder'[j] \in {"none", "committing"} => recorder[j] \in {"none", "committing"}
    BY <1>0, <2>1
  <2>5. \A w \in Loaded' : w \in Loaded \/ Covers(w)
    BY <1>a, <2>1, <2>2
  <2> QED
    BY <1>c, <2>1, <2>3, <2>4, <2>5, RowsStay
<1>5. ASSUME NEW f \in Flushers, Flush(f) PROVE MemoryInv'
  <2>1. /\ flusher' = [flusher EXCEPT ![f] = [pc |-> "loading"]]
        /\ UNCHANGED <<row, recorder, pending, windows, task, extracted, overtaken>>
    BY <1>5 DEF Flush
  <2>2. /\ flusher' \in [Flushers -> FlusherStates]
        /\ \A g \in Flushers : flusher'[g].pc = "adding" => flusher'[g] = flusher[g]
    BY <1>0, <2>1
  <2>3. MemoryTypeOK'
    BY <1>0, <2>1, <2>2, <1>e DEF MemoryTypeOK, FlusherStates
  <2>4. \A w \in Loaded' : w \in Loaded \/ Covers(w)
    BY <1>a, <2>1, <2>2
  <2> QED
    BY <1>c, <2>1, <2>3, <2>4, RowsStay
<1>6. ASSUME NEW f \in Flushers, LoadWindow(f) PROVE MemoryInv'
  <2>1. /\ flusher' = [flusher EXCEPT ![f] = IF Unmarked = {} THEN NoFlush ELSE [pc |-> "adding", window |-> Visible]]
        /\ UNCHANGED <<row, recorder, pending, windows, task, extracted, overtaken>>
    BY <1>6 DEF LoadWindow
  <2>2. Unmarked # {} => /\ [pc |-> "adding", window |-> Visible] \in FlusherStates
                         /\ Covers(Visible)
    BY VisibleCovers DEF FlusherStates
  <2>3. /\ flusher' \in [Flushers -> FlusherStates] /\ \A g \in Flushers \ {f} : flusher'[g] = flusher[g]
        /\ \/ flusher'[f].pc = "none"
           \/ flusher'[f].window = Visible /\ Covers(Visible)
    <3>1. CASE Unmarked = {}
      BY <1>0, <2>1, <3>1
    <3>2. CASE Unmarked # {}
      BY <1>0, <2>1, <2>2, <3>2
    <3> QED
      BY <3>1, <3>2
  <2>4. MemoryTypeOK'
    BY <1>0, <2>1, <2>3, <1>e DEF MemoryTypeOK, FlusherStates
  <2>5. \A w \in Loaded' : w \in Loaded \/ Covers(w)
    <3> TAKE w \in Loaded'
    <3>1. CASE w \in windows' \/ Working(w)'
      BY <1>a, <2>1, <3>1
    <3>2. ASSUME NEW g \in Flushers, flusher'[g].pc = "adding", w = flusher'[g].window PROVE w \in Loaded \/ Covers(w)
      BY <1>a, <2>3, <3>2
    <3> QED
      BY <1>a, <3>1, <3>2
  <2> QED
    BY <1>c, <2>1, <2>4, <2>5, RowsStay
<1>7. ASSUME NEW f \in Flushers, AddWindow(f) PROVE MemoryInv'
  <2>1. /\ flusher[f].pc = "adding"
        /\ windows' = {w \in windows : w.upTo # flusher[f].window.upTo} \cup {flusher[f].window}
        /\ flusher' = [flusher EXCEPT ![f] = NoFlush]
        /\ UNCHANGED <<row, recorder, pending, task, extracted, overtaken>>
    BY <1>7 DEF AddWindow
  <2>2. /\ flusher' \in [Flushers -> FlusherStates]
        /\ \A g \in Flushers : flusher'[g].pc = "adding" => flusher'[g] = flusher[g]
    BY <1>0, <2>1
  <2>3. flusher[f].window \in Window
    BY <1>0, <2>1, LoadedFacts
  <2>4. MemoryTypeOK'
    BY <1>0, <2>1, <2>2, <2>3, <1>e DEF MemoryTypeOK, FlusherStates
  <2>5. \A w \in Loaded' : w \in Loaded \/ Covers(w)
    BY <1>a, <2>1, <2>2
  <2> QED
    BY <1>c, <2>1, <2>4, <2>5, RowsStay
<1>8. ASSUME NEW t \in ExtractTasks, TakeWindow(t) PROVE MemoryInv'
  <2>1. PICK w \in windows :
          /\ windows' = windows \ {w}
          /\ task' = task \/ task' = [task EXCEPT ![t] = [pc |-> "extracting", window |-> w]]
          /\ UNCHANGED <<row, recorder, pending, flusher, extracted, overtaken>>
    BY <1>8 DEF TakeWindow
  <2>2. w \in Loaded /\ w \in Window
    BY <1>0, <1>a
  <2>3. [pc |-> "extracting", window |-> w] \in TaskStates
    BY <2>2 DEF TaskStates
  <2>4. /\ task' \in [ExtractTasks -> TaskStates]
        /\ \A u \in ExtractTasks : task'[u] = task[u] \/ (task'[u].pc = "extracting" /\ task'[u].window = w)
    <3>1. CASE task' = [task EXCEPT ![t] = [pc |-> "extracting", window |-> w]]
      BY <1>0, <2>1, <2>3, <3>1
    <3>2. CASE task' = task
      BY <1>0, <2>1, <3>2
    <3> QED
      BY <2>1, <3>1, <3>2
  <2>5. MemoryTypeOK'
    BY <1>0, <2>1, <2>4, <1>e DEF MemoryTypeOK, TaskStates
  <2>6. \A v \in Loaded' : v \in Loaded \/ Covers(v)
    BY <1>a, <2>1, <2>2, <2>4
  <2>7. /\ \A u \in ExtractTasks : task'[u].pc = "marking" => task'[u].window.ids \subseteq extracted'
        /\ \A u \in ExtractTasks : task'[u].pc = "uncounting" => task'[u] = task[u]
    BY <2>1, <2>4 DEF MemoryInv
  <2> QED
    BY <2>1, <2>5, <2>6, <2>7, RowsStay
<1>9. ASSUME NEW t \in ExtractTasks, Extract(t) PROVE MemoryInv'
  <2>1. /\ task[t].pc = "extracting" /\ extracted' = extracted \cup task[t].window.ids
        /\ task' = [task EXCEPT ![t].pc = "marking"]
        /\ UNCHANGED <<row, recorder, pending, flusher, windows, overtaken>>
    BY <1>9 DEF Extract
  <2>2. task[t] \in [pc: {"extracting", "marking"}, window: Window] /\ task[t].window.ids \subseteq Ids
    <3>1. task[t] \in [pc: {"extracting", "marking"}, window: Window]
      BY <1>0, <2>1, LoadedFacts
    <3> QED
      BY <3>1 DEF Window
  <2>3. [task[t] EXCEPT !.pc = "marking"] \in TaskStates
    <3>1. [task[t] EXCEPT !.pc = "marking"] \in [pc: {"extracting", "marking"}, window: Window]
      BY <2>2
    <3> QED
      BY <3>1 DEF TaskStates
  <2>4. /\ task' \in [ExtractTasks -> TaskStates] /\ task'[t].pc = "marking" /\ task'[t].window = task[t].window
        /\ \A u \in ExtractTasks \ {t} : task'[u] = task[u]
    BY <1>0, <2>1, <2>2, <2>3
  <2>5. MemoryTypeOK'
    BY <1>0, <2>1, <2>2, <2>4, <1>e DEF MemoryTypeOK, TaskStates
  <2>6. \A w \in Loaded' : w \in Loaded \/ Covers(w)
    <3>1. \A u \in ExtractTasks : task'[u].pc \in {"extracting", "marking"} =>
            task[u].pc \in {"extracting", "marking"} /\ task'[u].window = task[u].window
      BY <2>1, <2>4
    <3> QED
      BY <1>b, <2>1, <3>1
  <2>7. /\ \A u \in ExtractTasks : task'[u].pc = "marking" => task'[u].window.ids \subseteq extracted'
        /\ \A u \in ExtractTasks : task'[u].pc = "uncounting" => task'[u] = task[u]
    BY <2>1, <2>4 DEF MemoryInv
  <2> QED
    BY <2>1, <2>5, <2>6, <2>7, RowsStay
<1>10. ASSUME NEW t \in ExtractTasks, TaskFails(t) PROVE MemoryInv'
  <2>1. /\ task' = [task EXCEPT ![t] = NoTask]
        /\ UNCHANGED <<row, recorder, pending, flusher, windows, extracted, overtaken>>
    BY <1>10 DEF TaskFails
  <2>2. /\ task' \in [ExtractTasks -> TaskStates] /\ task'[t] = NoTask
        /\ \A u \in ExtractTasks \ {t} : task'[u] = task[u]
    BY <1>0, <2>1
  <2>3. MemoryTypeOK'
    BY <1>0, <2>1, <2>2, <1>e DEF MemoryTypeOK, TaskStates
  <2>4. \A w \in Loaded' : w \in Loaded \/ Covers(w)
    BY <1>0, <1>b, <2>1, <2>2
  <2>5. /\ \A u \in ExtractTasks : task'[u].pc = "marking" => task'[u].window.ids \subseteq extracted'
        /\ \A u \in ExtractTasks : task'[u].pc = "uncounting" => task'[u] = task[u]
    BY <1>0, <2>1, <2>2 DEF MemoryInv
  <2> QED
    BY <2>1, <2>3, <2>4, <2>5, RowsStay
<1>14. ASSUME NEW f \in Flushers, FlushFails(f) PROVE MemoryInv'
  <2>1. /\ flusher' = [flusher EXCEPT ![f] = NoFlush]
        /\ UNCHANGED <<row, recorder, pending, windows, task, extracted, overtaken>>
    BY <1>14 DEF FlushFails
  <2>2. /\ flusher' \in [Flushers -> FlusherStates]
        /\ \A g \in Flushers : flusher'[g].pc = "adding" => flusher'[g] = flusher[g]
    BY <1>0, <2>1
  <2>3. MemoryTypeOK'
    BY <1>0, <2>1, <2>2, <1>e DEF MemoryTypeOK, FlusherStates
  <2>4. \A w \in Loaded' : w \in Loaded \/ Covers(w)
    BY <1>a, <2>1, <2>2
  <2> QED
    BY <1>c, <2>1, <2>3, <2>4, RowsStay
<1>11. ASSUME NEW t \in ExtractTasks, MarkRows(t) PROVE MemoryInv'
  BY <1>11, MarkKeeps
<1>12. ASSUME NEW t \in ExtractTasks, Uncount(t) PROVE MemoryInv'
  BY <1>12, UncountKeeps
<1>13. CASE UNCHANGED memoryVars
  <2>1. MemoryTypeOK' /\ UNCHANGED <<row, recorder, pending, flusher, windows, task, extracted, overtaken>>
    BY <1>0, <1>13, <1>e DEF memoryVars, MemoryTypeOK
  <2> QED
    BY <1>c, <1>d, <2>1, RowsStay
<1> QED
  BY <1>1, <1>2, <1>3, <1>4, <1>5, <1>6, <1>7, <1>8, <1>9, <1>10, <1>11, <1>12, <1>13, <1>14 DEF MemoryNext

\* However recordings commit, windows are loaded and replaced, and workers fail or die: no
\* message is marked that was not extracted or overtaken, and none falls out of the count
\* that a flush goes by.
THEOREM MemoriesAreKept == MemorySpec => []MemoryIsKept
<1>1. MemorySpec => []MemoryInv
  BY MemoryStarts, MemorySteps, PTL DEF MemorySpec
<1>2. ASSUME MemoryInv PROVE MemoryIsKept
  <2>1. PICK f \in [ExtractTasks -> SUBSET Ids] : Pledged(f)
    BY <1>2 DEF MemoryInv
  <2>2. Unmarked \in SUBSET Owed(f) /\ Owed(f) \in SUBSET Ids
    BY DEF Owed, Unmarked
  <2>3. /\ Cardinality(Unmarked) <= Cardinality(Owed(f)) /\ Cardinality(Owed(f)) <= pending
        /\ Cardinality(Owed(f)) \in Nat /\ Cardinality(Unmarked) \in Nat /\ pending \in Nat
    <3>1. Cardinality(Unmarked) <= Cardinality(Owed(f)) /\ Cardinality(Owed(f)) \in Nat
      BY <2>2, IdsAreFinite
    <3>2. Cardinality(Unmarked) \in Nat
      BY <2>2, IdsAreFinite
    <3>3. Cardinality(Owed(f)) <= pending /\ pending \in Nat
      BY <1>2, <2>1, MemoryBounds DEF Pledged, MemoryInv, MemoryTypeOK
    <3> QED
      BY <3>1, <3>2, <3>3
  <2> QED
    BY <1>2, <2>3 DEF MemoryInv, MemoryIsKept, PendingFindsAll
<1> QED
  BY <1>1, <1>2, PTL

-----------------------------------------------------------------------------
(* The events of an agent on their way to a dashboard.                       *)

LEMMA StreamBounds ==
  /\ MaxEvents \in Nat /\ MaxEpochs \in Nat /\ BufferSize \in Nat \ {0}
  BY StreamAssumption

\* s is the end of the first c events of an epoch.
Ends(s, e, c) ==
  /\ s \in Seq(Event) /\ Len(s) <= c
  /\ \A i \in DOMAIN s : s[i] = [epoch |-> e, id |-> c - Len(s) + i]

LEMMA NextEnds ==
  ASSUME NEW e \in 0 .. MaxEpochs, NEW c \in 0 .. MaxEvents, c < MaxEvents, NEW s, Ends(s, e, c)
  PROVE  /\ Ends(Append(s, [epoch |-> e, id |-> c + 1]), e, c + 1)
         /\ Len(Append(s, [epoch |-> e, id |-> c + 1])) = Len(s) + 1
<1> DEFINE n == [epoch |-> e, id |-> c + 1]
           t == Append(s, n)
<1>1. n \in Event
  BY StreamBounds DEF Event
<1>2. s \in Seq(Event) /\ Len(s) \in Nat /\ Len(s) <= c
  BY DEF Ends
<1>3. t \in Seq(Event) /\ Len(t) = Len(s) + 1 /\ \A i \in DOMAIN t : t[i] = IF i <= Len(s) THEN s[i] ELSE n
  BY <1>1, <1>2, AppendProperties
<1>4. ASSUME NEW i \in DOMAIN t PROVE t[i] = [epoch |-> e, id |-> c + 1 - Len(t) + i]
  <2>1. CASE i <= Len(s)
    <3>1. s[i] = [epoch |-> e, id |-> c - Len(s) + i]
      BY <1>2, <1>3, <2>1 DEF Ends
    <3>2. c + 1 - Len(t) + i = c - Len(s) + i
      BY <1>2, <1>3
    <3> QED
      BY <1>3, <2>1, <3>1, <3>2
  <2>2. CASE ~(i <= Len(s))
    <3>1. i = Len(s) + 1
      BY <1>2, <1>3, <2>2
    <3>2. c + 1 - Len(t) + i = c + 1
      BY <1>2, <1>3, <3>1
    <3> QED
      BY <1>3, <2>2, <3>2
  <2> QED
    BY <2>1, <2>2
<1> QED
  BY <1>2, <1>3, <1>4 DEF Ends

LEMMA RestEnds ==
  ASSUME NEW e, NEW c \in Nat, NEW s, Ends(s, e, c), NEW m \in 1 .. Len(s) + 1
  PROVE  Ends(SubSeq(s, m, Len(s)), e, c) /\ Len(SubSeq(s, m, Len(s))) = Len(s) - m + 1
<1> DEFINE t == SubSeq(s, m, Len(s))
<1>1. s \in Seq(Event) /\ Len(s) \in Nat /\ Len(s) <= c
  BY DEF Ends
<1>2. t \in Seq(Event) /\ Len(t) = Len(s) - m + 1 /\ \A i \in 1 .. Len(s) - m + 1 : t[i] = s[m + i - 1]
  <2>1. \A i \in m .. Len(s) : s[i] \in Event
    BY <1>1
  <2>2. m \in Int /\ Len(s) \in Int
    BY <1>1
  <2>3. /\ t \in Seq(Event) /\ Len(t) = IF m <= Len(s) THEN Len(s) - m + 1 ELSE 0
        /\ \A i \in 1 .. Len(s) - m + 1 : t[i] = s[m + i - 1]
    BY <2>1, <2>2, SubSeqProperties
  <2> QED
    BY <1>1, <2>3
<1>3. ASSUME NEW i \in DOMAIN t PROVE t[i] = [epoch |-> e, id |-> c - Len(t) + i]
  <2>1. i \in 1 .. Len(s) - m + 1 /\ m + i - 1 \in 1 .. Len(s)
    BY <1>1, <1>2
  <2>2. s[m + i - 1] = [epoch |-> e, id |-> c - Len(s) + (m + i - 1)]
    BY <1>1, <2>1 DEF Ends
  <2>3. c - Len(t) + i = c - Len(s) + (m + i - 1)
    BY <1>1, <1>2, <2>1
  <2> QED
    BY <1>2, <2>1, <2>2, <2>3
<1> QED
  BY <1>1, <1>2, <1>3 DEF Ends

\* What is kept for replay is an end, however much was cut off.
LEMMA LastEnds ==
  ASSUME NEW e, NEW c \in Nat, NEW s, Ends(s, e, c)
  PROVE  /\ Ends(LastOf(s, BufferSize), e, c)
         /\ Len(LastOf(s, BufferSize)) <= BufferSize /\ Len(LastOf(s, BufferSize)) <= Len(s)
<1>1. Len(s) \in Nat
  BY DEF Ends
<1>2. CASE Len(s) > BufferSize
  <2>1. Len(s) - BufferSize + 1 \in 1 .. Len(s) + 1
    BY <1>1, <1>2, StreamBounds
  <2>2. LastOf(s, BufferSize) = SubSeq(s, Len(s) - BufferSize + 1, Len(s))
    BY <1>2 DEF LastOf
  <2>3. /\ Ends(LastOf(s, BufferSize), e, c)
        /\ Len(LastOf(s, BufferSize)) = Len(s) - (Len(s) - BufferSize + 1) + 1
    BY <2>1, <2>2, RestEnds
  <2>4. Len(LastOf(s, BufferSize)) = BufferSize
    BY <1>1, <2>3, StreamBounds
  <2> QED
    BY <1>1, <1>2, <2>3, <2>4, StreamBounds
<1>3. CASE ~(Len(s) > BufferSize)
  BY <1>1, <1>3, StreamBounds DEF LastOf
<1> QED
  BY <1>2, <1>3

\* A replay is an end too, and the buffer holds nothing between the id and its first event.
LEMMA ReplayEnds ==
  ASSUME NEW id \in Nat, epoch \in 0 .. MaxEpochs, counter \in 0 .. MaxEvents, Ends(buffer, epoch, counter)
  PROVE  /\ Ends(replayFrom(id), epoch, counter)
         /\ id <= counter => id <= counter - Len(replayFrom(id))
         /\ \A k \in DOMAIN buffer : ~(id < buffer[k].id /\ buffer[k].id <= counter - Len(replayFrom(id)))
<1>1. /\ buffer \in Seq(Event) /\ Len(buffer) \in Nat /\ Len(buffer) <= counter /\ counter \in Nat
      /\ DOMAIN buffer = 1 .. Len(buffer)
      /\ \A k \in DOMAIN buffer : buffer[k].id = counter - Len(buffer) + k
  BY StreamBounds DEF Ends
<1>2. CASE \E i \in DOMAIN buffer : buffer[i].id = id
  <2>1. indexOf(id) \in DOMAIN buffer /\ buffer[indexOf(id)].id = id
    BY <1>2 DEF indexOf
  <2> DEFINE i == indexOf(id)
  <2>2. replayFrom(id) = SubSeq(buffer, i + 1, Len(buffer))
    BY <1>2 DEF replayFrom
  <2> HIDE DEF i
  <2>3. i + 1 \in 1 .. Len(buffer) + 1 /\ i \in 1 .. Len(buffer) /\ id = counter - Len(buffer) + i
    BY <1>1, <2>1 DEF i
  <2>4. PICK m \in 1 .. Len(buffer) + 1 : m = i + 1
    BY <2>3
  <2>5. Ends(SubSeq(buffer, m, Len(buffer)), epoch, counter) /\ Len(SubSeq(buffer, m, Len(buffer))) = Len(buffer) - m + 1
    BY <1>1, RestEnds
  <2>6. Ends(replayFrom(id), epoch, counter) /\ Len(replayFrom(id)) = Len(buffer) - m + 1
    BY <2>2, <2>4, <2>5
  <2>7. counter - Len(replayFrom(id)) = id
    BY <1>1, <2>3, <2>4, <2>6
  <2> QED
    BY <1>1, <2>6, <2>7
<1>3. CASE ~(\E i \in DOMAIN buffer : buffer[i].id = id)
  <2>1. replayFrom(id) = buffer
    BY <1>3 DEF replayFrom
  <2>2. ASSUME id <= counter, id > counter - Len(buffer) PROVE FALSE
    <3>1. id - counter + Len(buffer) \in DOMAIN buffer
      BY <1>1, <2>2
    <3>2. buffer[id - counter + Len(buffer)].id = id
      BY <1>1, <3>1
    <3> QED
      BY <1>3, <3>1, <3>2
  <2> QED
    BY <1>1, <2>1, <2>2
<1> QED
  BY <1>2, <1>3

Last == received[Len(received)]

\* Buffer and wire end with the last event that was numbered; what the client has is before
\* the wire; and an open connection leaves out nothing that the buffer holds.
StreamInv ==
  /\ StreamTypeOK
  /\ Ends(buffer, epoch, counter) /\ Ends(wire, epoch, counter)
  /\ wire # <<>> => connection = "opened"
  /\ client.lastId = IF received = <<>> THEN 0 ELSE Last.id
  /\ \A i \in DOMAIN received : /\ received[i].epoch <= epoch
                                /\ received[i].epoch = epoch => received[i].id <= counter - Len(wire)
  /\ ReceivedInOrder
  /\ asksByHeader =>
       /\ SkippedIsGone
       /\ connection = "opened" /\ received # <<>> /\ Last.epoch = epoch =>
            \A k \in DOMAIN buffer : ~(Last.id < buffer[k].id /\ buffer[k].id <= counter - Len(wire))

LEMMA StreamFacts ==
  ASSUME StreamInv
  PROVE  /\ epoch \in Nat /\ counter \in Nat /\ MaxEvents \in Nat
         /\ buffer \in Seq(Event) /\ Len(buffer) \in Nat /\ Len(buffer) <= counter
         /\ wire \in Seq(Event) /\ Len(wire) \in Nat /\ Len(wire) <= counter
         /\ received \in Seq(Event) /\ Len(received) \in Nat
         /\ DOMAIN buffer = 1 .. Len(buffer) /\ DOMAIN wire = 1 .. Len(wire) /\ DOMAIN received = 1 .. Len(received)
         /\ \A k \in DOMAIN buffer : buffer[k].epoch = epoch /\ buffer[k].id = counter - Len(buffer) + k
         /\ \A i \in DOMAIN received : received[i] \in Event /\ received[i].epoch \in Nat /\ received[i].id \in Nat \ {0}
<1>1. epoch \in Nat /\ counter \in Nat /\ MaxEvents \in Nat
  BY StreamBounds DEF StreamInv, StreamTypeOK
<1>2. /\ buffer \in Seq(Event) /\ Len(buffer) \in Nat /\ Len(buffer) <= counter
      /\ wire \in Seq(Event) /\ Len(wire) \in Nat /\ Len(wire) <= counter
      /\ DOMAIN buffer = 1 .. Len(buffer) /\ DOMAIN wire = 1 .. Len(wire)
  BY DEF StreamInv, Ends
<1>3. /\ received \in Seq(Event) /\ Len(received) \in Nat /\ DOMAIN received = 1 .. Len(received)
  BY DEF StreamInv, StreamTypeOK
<1>4. \A k \in DOMAIN buffer : buffer[k].epoch = epoch /\ buffer[k].id = counter - Len(buffer) + k
  BY <1>2 DEF StreamInv, Ends
<1>5. \A i \in DOMAIN received : received[i] \in Event /\ received[i].epoch \in Nat /\ received[i].id \in Nat \ {0}
  <2> TAKE i \in DOMAIN received
  <2>1. received[i] \in Event
    BY <1>3
  <2> QED
    BY <2>1, StreamBounds DEF Event
<1> QED
  BY <1>1, <1>2, <1>3, <1>4, <1>5

\* What a handler is given last is the latest.
LEMMA LastIsLatest ==
  ASSUME StreamInv
  PROVE  /\ \A i \in DOMAIN received : /\ received[i].epoch <= Last.epoch
                                       /\ received[i].epoch = Last.epoch => received[i].id <= Last.id
         /\ received # <<>> => Len(received) \in DOMAIN received
<1>1. received # <<>> => Len(received) \in DOMAIN received
  BY StreamFacts
<1>2. ASSUME NEW i \in DOMAIN received
      PROVE  received[i].epoch <= Last.epoch /\ (received[i].epoch = Last.epoch => received[i].id <= Last.id)
  <2>1. Len(received) \in DOMAIN received /\ i <= Len(received)
    BY StreamFacts
  <2>2. i = Len(received) \/ Earlier(received[i], Last)
    BY <2>1, StreamFacts DEF StreamInv, ReceivedInOrder, Last
  <2> QED
    BY <2>1, <2>2, StreamFacts, SMTT(30) DEF Earlier, Last
<1> QED
  BY <1>1, <1>2

\* A buffer after some events more: each of its events is new or was in it.
LEMMA BufferAges ==
  ASSUME StreamInv, counter' \in Nat, counter <= counter', Ends(buffer', epoch, counter'),
         Len(buffer') <= Len(buffer) + counter' - counter
  PROVE  \A k \in DOMAIN buffer' : /\ buffer'[k].epoch = epoch
                                   /\ buffer'[k].id > counter \/ \E j \in DOMAIN buffer : buffer[j].id = buffer'[k].id
<1> SUFFICES ASSUME NEW k \in DOMAIN buffer', ~(buffer'[k].id > counter)
             PROVE  \E j \in DOMAIN buffer : buffer[j].id = buffer'[k].id
  BY DEF Ends
<1>1. Len(buffer') \in Nat /\ k \in 1 .. Len(buffer') /\ buffer'[k].id = counter' - Len(buffer') + k
  BY DEF Ends
<1>2. /\ counter \in Nat /\ Len(buffer) \in Nat /\ DOMAIN buffer = 1 .. Len(buffer)
      /\ \A j \in DOMAIN buffer : buffer[j].id = counter - Len(buffer) + j
  BY StreamFacts
<1>3. counter' - Len(buffer') + k - counter + Len(buffer) \in 1 .. Len(buffer)
  BY <1>1, <1>2, SMTT(30)
<1>4. PICK j \in 1 .. Len(buffer) : j = counter' - Len(buffer') + k - counter + Len(buffer)
  BY <1>3
<1>5. buffer[j].id = counter - Len(buffer) + j
  BY <1>2
<1>6. counter - Len(buffer) + j = counter' - Len(buffer') + k
  <2>1. PICK a \in Nat, b \in Nat : a = counter /\ b = Len(buffer)
    BY <1>2
  <2>2. PICK c \in Nat, d \in Nat : c = counter' /\ d = Len(buffer')
    BY <1>1
  <2>3. j \in Nat /\ k \in Nat
    BY <1>1, <1>2
  <2>4. j = c - d + k - a + b
    BY <1>4, <2>1, <2>2
  <2>5. a - b + j = c - d + k
    BY ONLY <2>3, <2>4
  <2> QED
    BY <2>1, <2>2, <2>5
<1>7. buffer[j].id = buffer'[k].id
  BY <1>1, <1>5, <1>6
<1> QED
  BY <1>2, <1>7

\* New events skip nothing.
LEMMA NothingIsSkipped ==
  ASSUME StreamInv, asksByHeader, epoch' = epoch, received' = received,
         counter' \in Nat, counter <= counter', Ends(buffer', epoch, counter'),
         Len(buffer') <= Len(buffer) + counter' - counter
  PROVE  SkippedIsGone'
<1> SUFFICES ASSUME NEW i \in 2 .. Len(received), NEW k \in DOMAIN buffer',
                    buffer'[k].epoch = received[i - 1].epoch,
                    Earlier(received[i - 1], buffer'[k]), Earlier(buffer'[k], received[i])
             PROVE  FALSE
  BY DEF SkippedIsGone
<1>1. i \in DOMAIN received /\ i - 1 \in DOMAIN received
  BY StreamFacts
<1>2. buffer'[k].epoch = epoch /\ (buffer'[k].id > counter \/ \E j \in DOMAIN buffer : buffer[j].id = buffer'[k].id)
  BY BufferAges
<1>3. received[i].epoch <= epoch /\ (received[i].epoch = epoch => received[i].id <= counter)
  BY <1>1, StreamFacts, SMTT(30) DEF StreamInv
<1>4. received[i].epoch = epoch /\ buffer'[k].id < received[i].id /\ received[i - 1].id < buffer'[k].id
  BY <1>1, <1>2, <1>3, StreamFacts, SMTT(30) DEF Earlier
<1>5. Len(buffer') \in Nat /\ k \in 1 .. Len(buffer') /\ buffer'[k].id = counter' - Len(buffer') + k
  BY DEF Ends
<1>6. counter \in Nat /\ received[i].id \in Nat
  BY <1>1, StreamFacts
<1>7. ~(buffer'[k].id > counter)
  <2>1. received[i].id <= counter
    BY <1>3, <1>4
  <2>2. buffer'[k].id \in Int
    BY <1>5
  <2>3. buffer'[k].id < received[i].id
    BY <1>4
  <2> QED
    BY <1>6, <2>1, <2>2, <2>3
<1>8. PICK j \in DOMAIN buffer : buffer[j].id = buffer'[k].id
  BY <1>2, <1>7
<1>9. Earlier(received[i - 1], buffer[j]) /\ Earlier(buffer[j], received[i]) /\ buffer[j].epoch = received[i - 1].epoch
  BY <1>1, <1>2, <1>4, <1>8, StreamFacts DEF Earlier
<1> QED
  BY <1>9 DEF StreamInv, SkippedIsGone

LEMMA StreamStarts == StreamInit => StreamInv
<1> SUFFICES ASSUME StreamInit PROVE StreamInv
  OBVIOUS
<1>1. /\ epoch = 0 /\ counter = 0 /\ buffer = <<>> /\ wire = <<>> /\ received = <<>>
      /\ connection = "requested" /\ client.lastId = 0
  BY DEF StreamInit
<1>2. StreamTypeOK
  <2>1. client \in [status: {"disconnected", "connecting", "connected"}, lastId: 0..MaxEvents,
                    timer: BOOLEAN, wasConnected: BOOLEAN] /\ ~client.timer /\ hidden \in BOOLEAN
    <3>1. client = [status |-> "connecting", lastId |-> 0, timer |-> FALSE, wasConnected |-> FALSE] /\ hidden = FALSE
      BY DEF StreamInit
    <3>2. 0 \in 0..MaxEvents
      BY StreamBounds
    <3> QED
      BY <3>1, <3>2
  <2>2. epoch \in 0..MaxEpochs /\ counter \in 0..MaxEvents /\ Len(buffer) <= BufferSize /\ buffer \in Seq(Event)
    BY <1>1, StreamBounds
  <2>3. asksByHeader \in BOOLEAN /\ breaks \subseteq Nat
    BY DEF StreamInit
  <2> QED
    BY <1>1, <2>1, <2>2, <2>3 DEF StreamTypeOK, Connections
<1>3. Ends(<<>>, 0, 0)
  BY DEF Ends
<1>4. ReceivedInOrder /\ SkippedIsGone
  BY <1>1 DEF ReceivedInOrder, SkippedIsGone
<1> QED
  BY <1>1, <1>2, <1>3, <1>4 DEF StreamInv

\* Steps that number no event and give none to a handler.
LEMMA ConnectionsChange ==
  ASSUME StreamInv, StreamTypeOK', UNCHANGED <<asksByHeader, epoch, counter, buffer, received>>, client'.lastId = client.lastId,
         wire' = <<>> \/ (wire' = wire /\ (connection = "opened" => connection' = "opened")),
         connection' = "opened" => connection = "opened" /\ wire' = wire
  PROVE  StreamInv'
<1>1. Ends(<<>>, epoch, counter) /\ Len(<<>>) = 0
  BY StreamFacts DEF Ends
<1>2. Ends(buffer', epoch', counter') /\ Ends(wire', epoch', counter')
  BY <1>1 DEF StreamInv
<1>3. wire' # <<>> => connection' = "opened"
  BY DEF StreamInv
<1>4. client'.lastId = IF received' = <<>> THEN 0 ELSE Last'.id
  BY DEF StreamInv, Last
<1>5. \A i \in DOMAIN received' : /\ received'[i].epoch <= epoch'
                                  /\ received'[i].epoch = epoch' => received'[i].id <= counter' - Len(wire')
  <2>1. CASE wire' = wire
    BY <2>1 DEF StreamInv
  <2>2. CASE wire' = <<>>
    BY <1>1, <2>2, StreamFacts DEF StreamInv
  <2> QED
    BY <2>1, <2>2
<1>6. ReceivedInOrder' /\ (asksByHeader => SkippedIsGone')
  BY DEF StreamInv, ReceivedInOrder, SkippedIsGone
<1>7. asksByHeader /\ connection' = "opened" /\ received' # <<>> /\ Last'.epoch = epoch' =>
        \A k \in DOMAIN buffer' : ~(Last'.id < buffer'[k].id /\ buffer'[k].id <= counter' - Len(wire'))
  BY DEF StreamInv, Last
<1> QED
  BY <1>2, <1>3, <1>4, <1>5, <1>6, <1>7 DEF StreamInv

\* An event is numbered, kept, and written to an open connection after what is there.
LEMMA EventIsNumbered ==
  ASSUME StreamInv, NEW onWire, Ends(onWire, epoch, counter), Numbered(onWire)
  PROVE  /\ counter' \in 0 .. MaxEvents /\ counter <= counter'
         /\ Ends(buffer', epoch, counter') /\ Len(buffer') <= BufferSize
         /\ Len(buffer') <= Len(buffer) + counter' - counter
         /\ Ends(wire', epoch, counter') /\ counter' - Len(wire') = counter - Len(onWire)
<1>1. /\ counter \in 0 .. MaxEvents /\ epoch \in 0 .. MaxEpochs /\ Len(onWire) \in Nat /\ Len(buffer) \in Nat
      /\ counter \in Nat /\ MaxEvents \in Nat
      /\ Ends(buffer, epoch, counter) /\ Len(buffer) <= BufferSize
  BY StreamFacts DEF StreamInv, StreamTypeOK, Ends
<1>2. CASE counter = MaxEvents
  BY <1>1, <1>2 DEF Numbered
<1>3. CASE counter # MaxEvents
  <2> DEFINE e == [epoch |-> epoch, id |-> counter + 1]
  <2>1. /\ counter' = counter + 1 /\ buffer' = LastOf(Append(buffer, e), BufferSize)
        /\ wire' = Append(onWire, e)
    BY <1>3 DEF Numbered
  <2>2. counter < MaxEvents
    BY <1>1, <1>3
  <2>3. Ends(Append(onWire, e), epoch, counter + 1) /\ Len(Append(onWire, e)) = Len(onWire) + 1
    BY <1>1, <2>2, NextEnds
  <2>4. Ends(Append(buffer, e), epoch, counter + 1) /\ Len(Append(buffer, e)) = Len(buffer) + 1
    BY <1>1, <2>2, NextEnds
  <2>5. counter + 1 \in Nat
    BY <1>1
  <2>6. /\ Ends(LastOf(Append(buffer, e), BufferSize), epoch, counter + 1)
        /\ Len(LastOf(Append(buffer, e), BufferSize)) <= BufferSize
        /\ Len(LastOf(Append(buffer, e), BufferSize)) <= Len(Append(buffer, e))
    BY <2>4, <2>5, LastEnds
  <2> HIDE DEF e
  <2> QED
    BY <1>1, <2>1, <2>2, <2>3, <2>4, <2>6
<1> QED
  BY <1>2, <1>3

\* What holds after an event was numbered and written behind onWire, if nothing that the
\* client lacks is missing in onWire.
LEMMA NumberedKeeps ==
  ASSUME StreamInv, StreamTypeOK', UNCHANGED <<asksByHeader, epoch, received>>, client'.lastId = client.lastId,
         connection' = "opened", counter' \in Nat, counter <= counter',
         Ends(buffer', epoch, counter'), Len(buffer') <= Len(buffer) + counter' - counter,
         Ends(wire', epoch, counter'),
         \A i \in DOMAIN received : received[i].epoch = epoch => received[i].id <= counter' - Len(wire'),
         counter' - Len(wire') <= counter,
         asksByHeader /\ received # <<>> /\ Last.epoch = epoch =>
           \A k \in DOMAIN buffer : ~(Last.id < buffer[k].id /\ buffer[k].id <= counter' - Len(wire'))
  PROVE  StreamInv'
<1>1. client'.lastId = IF received' = <<>> THEN 0 ELSE Last'.id
  BY DEF StreamInv, Last
<1>2. \A i \in DOMAIN received' : /\ received'[i].epoch <= epoch'
                                  /\ received'[i].epoch = epoch' => received'[i].id <= counter' - Len(wire')
  BY DEF StreamInv
<1>3. ReceivedInOrder'
  BY DEF StreamInv, ReceivedInOrder
<1>4. asksByHeader => SkippedIsGone'
  BY NothingIsSkipped
<1>5. ASSUME asksByHeader, received # <<>>, Last.epoch = epoch, NEW k \in DOMAIN buffer',
             Last.id < buffer'[k].id, buffer'[k].id <= counter' - Len(wire')
      PROVE  FALSE
  <2>1. buffer'[k].id > counter \/ \E j \in DOMAIN buffer : buffer[j].id = buffer'[k].id
    BY BufferAges
  <2>2. counter' \in Nat /\ Len(wire') \in Nat /\ counter \in Nat /\ buffer'[k].id \in Int
    BY <1>5, StreamFacts, SMTT(30) DEF Ends
  <2>3. PICK j \in DOMAIN buffer : buffer[j].id = buffer'[k].id
    BY <1>5, <2>1, <2>2
  <2> QED
    BY <1>5, <2>3
<1>6. asksByHeader /\ connection' = "opened" /\ received' # <<>> /\ Last'.epoch = epoch' =>
        \A k \in DOMAIN buffer' : ~(Last'.id < buffer'[k].id /\ buffer'[k].id <= counter' - Len(wire'))
  BY <1>5 DEF Last
<1>7. Ends(buffer', epoch', counter') /\ Ends(wire', epoch', counter') /\ epoch' = epoch
  OBVIOUS
<1> QED
  BY <1>1, <1>2, <1>3, <1>4, <1>6, <1>7 DEF StreamInv

LEMMA BreaksAreNumbers ==
  StreamInv /\ [StreamNext]_streamVars => asksByHeader' \in BOOLEAN /\ asksByHeader' = asksByHeader /\ breaks' \subseteq Nat
<1> SUFFICES ASSUME StreamInv, [StreamNext]_streamVars
             PROVE  asksByHeader' \in BOOLEAN /\ asksByHeader' = asksByHeader /\ breaks' \subseteq Nat
  OBVIOUS
<1>1. asksByHeader \in BOOLEAN /\ breaks \subseteq Nat /\ Len(received) \in Nat
  BY StreamFacts DEF StreamInv, StreamTypeOK
<1>2. asksByHeader' = asksByHeader
  BY DEF StreamNext, streamVars, broadcast, Accept, Lose, Restart, onopen, onmessage, onerror, TimerFires, Hide, Show
<1>3. breaks' = breaks \/ Cut
  BY DEF StreamNext, streamVars, broadcast, Accept, Lose, Restart, onopen, onmessage, onerror, TimerFires, Hide, Show
<1> QED
  BY <1>1, <1>2, <1>3 DEF Cut

LEMMA BroadcastKeeps == StreamInv /\ broadcast => StreamInv'
<1> SUFFICES ASSUME StreamInv, broadcast PROVE StreamInv'
  OBVIOUS
<1>b. asksByHeader' \in BOOLEAN /\ asksByHeader' = asksByHeader /\ breaks' \subseteq Nat
  BY BreaksAreNumbers DEF StreamNext
<1>1. StreamTypeOK /\ Ends(wire, epoch, counter) /\ Ends(buffer, epoch, counter)
  BY DEF StreamInv
<1>2. CASE connection = "opened"
  <2>1. Numbered(wire) /\ UNCHANGED <<asksByHeader, epoch, connection, client, hidden, received>>
    BY <1>2 DEF broadcast
  <2>2. /\ counter' \in 0 .. MaxEvents /\ counter <= counter'
        /\ Ends(buffer', epoch, counter') /\ Len(buffer') <= BufferSize
        /\ Len(buffer') <= Len(buffer) + counter' - counter
        /\ Ends(wire', epoch, counter') /\ counter' - Len(wire') = counter - Len(wire)
    BY <1>1, <2>1, EventIsNumbered
  <2>3. StreamTypeOK'
    BY <1>1, <2>1, <2>2, <1>b DEF StreamTypeOK, Ends
  <2>4. counter' \in Nat /\ counter' - Len(wire') <= counter
    BY <2>2, StreamFacts
  <2>5. \A i \in DOMAIN received : received[i].epoch = epoch => received[i].id <= counter' - Len(wire')
    BY <2>2 DEF StreamInv
  <2>6. asksByHeader /\ received # <<>> /\ Last.epoch = epoch =>
          \A k \in DOMAIN buffer : ~(Last.id < buffer[k].id /\ buffer[k].id <= counter' - Len(wire'))
    BY <1>2, <2>2 DEF StreamInv
  <2> QED
    BY <1>2, <2>1, <2>2, <2>3, <2>4, <2>5, <2>6, NumberedKeeps
<1>3. CASE connection # "opened"
  <2> DEFINE e == [epoch |-> epoch, id |-> counter + 1]
  <2>1. /\ counter < MaxEvents /\ counter' = counter + 1
        /\ buffer' = LastOf(Append(buffer, e), BufferSize) /\ wire' = wire
        /\ UNCHANGED <<asksByHeader, epoch, connection, client, hidden, received>>
    BY <1>3 DEF broadcast
  <2>2. wire = <<>>
    BY <1>3 DEF StreamInv
  <2>3. /\ counter \in 0 .. MaxEvents /\ epoch \in 0 .. MaxEpochs /\ Len(buffer) \in Nat
        /\ counter \in Nat /\ MaxEvents \in Nat
    BY <1>1, StreamFacts, <1>b DEF StreamTypeOK
  <2>4. Ends(Append(buffer, e), epoch, counter + 1) /\ Len(Append(buffer, e)) = Len(buffer) + 1
    BY <1>1, <2>1, <2>3, NextEnds
  <2>5. counter + 1 \in Nat
    BY <2>3
  <2>6. /\ Ends(LastOf(Append(buffer, e), BufferSize), epoch, counter + 1)
        /\ Len(LastOf(Append(buffer, e), BufferSize)) <= BufferSize
        /\ Len(LastOf(Append(buffer, e), BufferSize)) <= Len(Append(buffer, e))
    BY <2>4, <2>5, LastEnds
  <2> HIDE DEF e
  <2>7. /\ counter' \in 0 .. MaxEvents /\ counter' \in Nat /\ counter <= counter'
        /\ Ends(buffer', epoch, counter') /\ Len(buffer') <= BufferSize
        /\ Len(buffer') <= Len(buffer) + counter' - counter
    BY <2>1, <2>3, <2>4, <2>6
  <2>8. StreamTypeOK'
    BY <1>1, <2>1, <2>7, <1>b DEF StreamTypeOK, Ends
  <2>9. Ends(wire', epoch', counter')
    BY <2>1, <2>2, <2>7 DEF Ends
  <2>10. \A i \in DOMAIN received' : /\ received'[i].epoch <= epoch'
                                     /\ received'[i].epoch = epoch' => received'[i].id <= counter' - Len(wire')
    <3>1. ASSUME NEW i \in DOMAIN received, received[i].epoch = epoch PROVE received[i].id <= counter' - Len(wire')
      <4>1. received[i].id <= counter - Len(wire) /\ received[i].id \in Nat
        BY <3>1, StreamFacts DEF StreamInv
      <4>2. Len(wire) = 0 /\ Len(wire') = 0 /\ counter' = counter + 1 /\ counter \in Nat
        BY <2>1, <2>2, <2>3
      <4> QED
        BY <4>1, <4>2
    <3> QED
      BY <2>1, <3>1 DEF StreamInv
  <2>11. ReceivedInOrder' /\ client'.lastId = IF received' = <<>> THEN 0 ELSE Last'.id
    BY <2>1 DEF StreamInv, ReceivedInOrder, Last
  <2>12. asksByHeader => SkippedIsGone'
    BY <2>1, <2>7, NothingIsSkipped
  <2>13. wire' = <<>> /\ connection' # "opened" /\ Ends(buffer', epoch', counter')
    BY <1>3, <2>1, <2>2, <2>7
  <2> QED
    BY <2>1, <2>8, <2>9, <2>10, <2>11, <2>12, <2>13 DEF StreamInv
<1> QED
  BY <1>2, <1>3

LEMMA AcceptKeeps == StreamInv /\ Accept => StreamInv'
<1> SUFFICES ASSUME StreamInv, Accept PROVE StreamInv'
  OBVIOUS
<1>b. asksByHeader' \in BOOLEAN /\ asksByHeader' = asksByHeader /\ breaks' \subseteq Nat
  BY BreaksAreNumbers DEF StreamNext
<1> DEFINE onWire == IF asksByHeader /\ client.lastId # 0 THEN replayFrom(client.lastId) ELSE <<>>
<1>1. /\ connection = "requested" /\ connection' = "opened" /\ Numbered(onWire)
      /\ UNCHANGED <<asksByHeader, epoch, client, hidden, received>>
  BY DEF Accept
<1>2. StreamTypeOK /\ Ends(buffer, epoch, counter) /\ epoch \in 0 .. MaxEpochs /\ counter \in 0 .. MaxEvents
  BY DEF StreamInv, StreamTypeOK
<1>3. client.lastId \in Nat
  BY <1>2, StreamBounds, <1>b DEF StreamTypeOK
<1>4. wire = <<>> /\ Len(wire) = 0 /\ counter \in Nat
  BY <1>1, StreamFacts DEF StreamInv
<1>5. Ends(<<>>, epoch, counter) /\ Len(<<>>) = 0
  BY <1>4 DEF Ends
<1>6. /\ Ends(replayFrom(client.lastId), epoch, counter)
      /\ client.lastId <= counter => client.lastId <= counter - Len(replayFrom(client.lastId))
      /\ \A k \in DOMAIN buffer : ~(client.lastId < buffer[k].id /\ buffer[k].id <= counter - Len(replayFrom(client.lastId)))
  BY <1>2, <1>3, ReplayEnds
<1>7. Ends(onWire, epoch, counter)
  BY <1>5, <1>6
<1>8. \A i \in DOMAIN received : received[i].epoch = epoch => received[i].id <= counter - Len(onWire)
  <2> SUFFICES ASSUME NEW i \in DOMAIN received, received[i].epoch = epoch
               PROVE  received[i].id <= counter - Len(onWire)
    OBVIOUS
  <2>1. received[i].id <= counter /\ received[i].id \in Nat
    BY <1>4, StreamFacts DEF StreamInv
  <2>2. CASE ~(asksByHeader /\ client.lastId # 0)
    BY <1>4, <1>5, <2>1, <2>2
  <2>3. CASE asksByHeader /\ client.lastId # 0
    <3>1. received # <<>> /\ client.lastId = Last.id
      BY <2>3 DEF StreamInv
    <3>2. Len(received) \in DOMAIN received /\ received[i].epoch <= Last.epoch
      BY <3>1, LastIsLatest
    <3>3. Last.epoch <= epoch /\ Last.epoch \in Nat /\ (Last.epoch = epoch => Last.id <= counter - Len(wire))
      BY <3>2, StreamFacts DEF StreamInv, Last
    <3>4. Last.epoch = epoch
      BY <3>2, <3>3, StreamFacts
    <3>5. Last.id <= counter /\ received[i].id <= Last.id
      BY <1>4, <3>3, <3>4, LastIsLatest
    <3>6. Last.id <= counter - Len(onWire) /\ Last.id \in Nat
      BY <1>3, <1>6, <2>3, <3>1, <3>5
    <3>7. Len(onWire) \in Nat
      BY <1>7 DEF Ends
    <3> HIDE DEF onWire
    <3> QED
      BY <1>4, <2>1, <3>5, <3>6, <3>7
  <2> QED
    BY <2>2, <2>3
<1>9. asksByHeader /\ received # <<>> /\ Last.epoch = epoch =>
        \A k \in DOMAIN buffer : ~(Last.id < buffer[k].id /\ buffer[k].id <= counter - Len(onWire))
  <2> SUFFICES ASSUME asksByHeader, received # <<>>
               PROVE  \A k \in DOMAIN buffer : ~(Last.id < buffer[k].id /\ buffer[k].id <= counter - Len(onWire))
    OBVIOUS
  <2>1. client.lastId = Last.id /\ client.lastId # 0
    BY LastIsLatest, StreamFacts DEF StreamInv, Last
  <2> QED
    BY <1>6, <2>1
<1> HIDE DEF onWire
<1>10. /\ counter' \in 0 .. MaxEvents /\ counter <= counter'
       /\ Ends(buffer', epoch, counter') /\ Len(buffer') <= BufferSize
       /\ Len(buffer') <= Len(buffer) + counter' - counter
       /\ Ends(wire', epoch, counter') /\ counter' - Len(wire') = counter - Len(onWire)
  BY <1>1, <1>7, EventIsNumbered
<1>11. StreamTypeOK'
  <2>1. ~client.timer
    BY <1>1, <1>2, <1>b DEF StreamTypeOK
  <2> QED
    BY <1>1, <1>2, <1>10, <2>1, <1>b DEF StreamTypeOK, Ends, Connections
<1>12. counter' \in Nat /\ counter' - Len(wire') <= counter
  <2>1. Len(onWire) \in Nat
    BY <1>7 DEF Ends
  <2> QED
    BY <1>4, <1>10, <2>1
<1>13. \A i \in DOMAIN received : received[i].epoch = epoch => received[i].id <= counter' - Len(wire')
  BY <1>8, <1>10
<1>14. asksByHeader /\ received # <<>> /\ Last.epoch = epoch =>
         \A k \in DOMAIN buffer : ~(Last.id < buffer[k].id /\ buffer[k].id <= counter' - Len(wire'))
  BY <1>9, <1>10
<1> QED
  BY <1>1, <1>10, <1>11, <1>12, <1>13, <1>14, NumberedKeeps

LEMMA MessageKeeps == StreamInv /\ onmessage => StreamInv'
<1> SUFFICES ASSUME StreamInv, onmessage PROVE StreamInv'
  OBVIOUS
<1>b. asksByHeader' \in BOOLEAN /\ asksByHeader' = asksByHeader /\ breaks' \subseteq Nat
  BY BreaksAreNumbers DEF StreamNext
<1> DEFINE e == Head(wire)
           n == Len(received) + 1
<1>1. /\ connection = "opened" /\ wire # <<>> /\ wire' = Tail(wire) /\ received' = Append(received, e)
      /\ client' = [client EXCEPT !.lastId = e.id]
      /\ UNCHANGED <<asksByHeader, epoch, counter, buffer, connection, hidden>>
  BY DEF onmessage
<1>2. /\ StreamTypeOK /\ Ends(wire, epoch, counter) /\ Ends(buffer, epoch, counter)
      /\ counter \in Nat /\ epoch \in Nat /\ Len(wire) \in Nat \ {0} /\ DOMAIN wire = 1 .. Len(wire) /\ wire \in Seq(Event)
      /\ Len(received) \in Nat /\ DOMAIN received = 1 .. Len(received) /\ received \in Seq(Event)
      /\ Len(wire) <= counter /\ MaxEvents \in Nat
  <2>1. Len(wire) # 0
    BY <1>1, StreamFacts, EmptySeq
  <2> QED
    BY <2>1, StreamFacts DEF StreamInv
<1>3. e = wire[1] /\ wire[1] = [epoch |-> epoch, id |-> counter - Len(wire) + 1] /\ e \in Event
  <2>1. e = wire[1] /\ 1 \in DOMAIN wire
    BY <1>2
  <2> QED
    BY <1>2, <2>1 DEF Ends
<1>4. e.epoch = epoch /\ e.id = counter - Len(wire) + 1 /\ e.id \in 1 .. MaxEvents
  BY <1>2, <1>3 DEF Event
<1>5. Ends(wire', epoch, counter) /\ Len(wire') = Len(wire) - 1
  <2>1. Tail(wire) = SubSeq(wire, 2, Len(wire))
    BY <1>1, <1>2, TailIsSubSeq
  <2>2. 2 \in 1 .. Len(wire) + 1
    BY <1>2
  <2>3. Ends(SubSeq(wire, 2, Len(wire)), epoch, counter) /\ Len(SubSeq(wire, 2, Len(wire))) = Len(wire) - 2 + 1
    BY <1>2, <2>2, RestEnds
  <2>4. wire' = SubSeq(wire, 2, Len(wire))
    BY <1>1, <2>1
  <2>5. Len(wire) - 2 + 1 = Len(wire) - 1
    BY <1>2
  <2> QED
    BY <2>3, <2>4, <2>5
<1>6. /\ received' \in Seq(Event) /\ Len(received') = n /\ DOMAIN received' = 1 .. n
      /\ \A i \in DOMAIN received' : received'[i] = IF i \in DOMAIN received THEN received[i] ELSE e
      /\ received' # <<>> /\ received'[n] = e
  <2> HIDE DEF e
  <2>1. /\ Append(received, e) \in Seq(Event) /\ Len(Append(received, e)) = Len(received) + 1
        /\ \A i \in 1 .. Len(received) + 1 : Append(received, e)[i] = IF i <= Len(received) THEN received[i] ELSE e
    BY <1>2, <1>3, AppendProperties
  <2> QED
    BY <1>1, <1>2, <2>1
<1> HIDE DEF e
<1>7. \A i \in DOMAIN received : Earlier(received[i], e)
  <2> TAKE i \in DOMAIN received
  <2>1. received[i].epoch \in Nat /\ received[i].id \in Nat
    BY StreamFacts
  <2>2. received[i].epoch <= epoch /\ (received[i].epoch = epoch => received[i].id <= counter - Len(wire))
    BY DEF StreamInv
  <2> QED
    BY <1>2, <1>4, <2>1, <2>2 DEF Earlier
<1>8. StreamTypeOK'
  <2>1. client' \in [status: {"disconnected", "connecting", "connected"}, lastId: 0..MaxEvents,
                     timer: BOOLEAN, wasConnected: BOOLEAN] /\ client'.timer = client.timer
    <3>1. client \in [status: {"disconnected", "connecting", "connected"}, lastId: 0..MaxEvents,
                     timer: BOOLEAN, wasConnected: BOOLEAN]
      BY <1>2, <1>b DEF StreamTypeOK
    <3>2. e.id \in 0 .. MaxEvents
      BY <1>2, <1>4
    <3> QED
      BY <1>1, <3>1, <3>2
  <2>2. wire' \in Seq(Event)
    BY <1>5 DEF Ends
  <2> QED
    BY <1>1, <1>2, <1>6, <2>1, <2>2, <1>b DEF StreamTypeOK
<1>9. client'.lastId = IF received' = <<>> THEN 0 ELSE Last'.id
  <2>1. client'.lastId = e.id
    BY <1>1, <1>2, <1>b DEF StreamTypeOK
  <2> QED
    BY <1>6, <2>1 DEF Last
<1>10. \A i \in DOMAIN received' : /\ received'[i].epoch <= epoch'
                                   /\ received'[i].epoch = epoch' => received'[i].id <= counter' - Len(wire')
  <2> TAKE i \in DOMAIN received'
  <2>1. CASE i \in DOMAIN received
    <3>1. /\ received[i].epoch <= epoch /\ (received[i].epoch = epoch => received[i].id <= counter - Len(wire))
          /\ received[i].id \in Nat
      BY <2>1, StreamFacts DEF StreamInv
    <3> QED
      BY <1>1, <1>2, <1>5, <1>6, <2>1, <3>1
  <2>2. CASE i \notin DOMAIN received
    BY <1>1, <1>2, <1>4, <1>5, <1>6, <2>2
  <2> QED
    BY <2>1, <2>2
<1>11. ReceivedInOrder'
  <2> SUFFICES ASSUME NEW i \in DOMAIN received', NEW j \in DOMAIN received', i < j
               PROVE  Earlier(received'[i], received'[j])
    BY DEF ReceivedInOrder
  <2>1. i \in DOMAIN received
    BY <1>2, <1>6
  <2>2. CASE j \in DOMAIN received
    BY <1>6, <2>1, <2>2 DEF StreamInv, ReceivedInOrder
  <2>3. CASE j \notin DOMAIN received
    BY <1>6, <1>7, <2>1, <2>3
  <2> QED
    BY <2>2, <2>3
<1>12. ASSUME asksByHeader PROVE SkippedIsGone'
  <2> SUFFICES ASSUME NEW i \in 2 .. n, NEW k \in DOMAIN buffer,
                      buffer[k].epoch = received'[i - 1].epoch,
                      Earlier(received'[i - 1], buffer[k]), Earlier(buffer[k], received'[i])
               PROVE  FALSE
    BY <1>1, <1>6 DEF SkippedIsGone
  <2>1. i \in DOMAIN received' /\ i - 1 \in DOMAIN received /\ i - 1 \in DOMAIN received'
    BY <1>2, <1>6
  <2>2. CASE i \in DOMAIN received
    <3>1. received'[i] = received[i] /\ received'[i - 1] = received[i - 1] /\ i \in 2 .. Len(received)
      BY <1>2, <1>6, <2>1, <2>2
    <3> QED
      BY <1>12, <3>1 DEF StreamInv, SkippedIsGone
  <2>3. CASE i \notin DOMAIN received
    <3>1. i - 1 = Len(received) /\ received'[i] = e /\ received'[i - 1] = Last
      BY <1>2, <1>6, <2>1, <2>3 DEF Last
    <3>2. buffer[k].epoch = epoch /\ buffer[k].id \in Int
      BY StreamFacts
    <3>3. Last.epoch = epoch /\ Last.id < buffer[k].id /\ buffer[k].id < counter - Len(wire) + 1
      BY <1>2, <1>4, <3>1, <3>2, <2>1, StreamFacts, SMTT(30) DEF Earlier, Last
    <3>4. received # <<>>
      BY <1>2, <2>1
    <3>5. buffer[k].id <= counter - Len(wire)
      BY <1>2, <3>2, <3>3
    <3> QED
      BY <1>1, <1>12, <3>3, <3>4, <3>5 DEF StreamInv
  <2> QED
    BY <2>2, <2>3
<1>13. \A k \in DOMAIN buffer' : ~(Last'.id < buffer'[k].id /\ buffer'[k].id <= counter' - Len(wire'))
  <2>1. Last' = e
    BY <1>6 DEF Last
  <2>2. \A k \in DOMAIN buffer : buffer[k].id \in Int
    BY StreamFacts
  <2> QED
    BY <1>1, <1>2, <1>4, <1>5, <2>1, <2>2
<1> QED
  BY <1>1, <1>2, <1>5, <1>8, <1>9, <1>10, <1>11, <1>12, <1>13 DEF StreamInv

LEMMA RestartKeeps == StreamInv /\ Restart => StreamInv'
<1> SUFFICES ASSUME StreamInv, Restart PROVE StreamInv'
  OBVIOUS
<1>b. asksByHeader' \in BOOLEAN /\ asksByHeader' = asksByHeader /\ breaks' \subseteq Nat
  BY BreaksAreNumbers DEF StreamNext
<1>1. /\ epoch < MaxEpochs /\ epoch' = epoch + 1 /\ counter' = 0 /\ buffer' = <<>> /\ wire' = <<>>
      /\ connection' = IF connection \in {"requested", "opened"} THEN "lost" ELSE connection
      /\ UNCHANGED <<asksByHeader, client, hidden, received>>
  BY DEF Restart
<1>2. StreamTypeOK /\ epoch \in Nat
  BY StreamFacts DEF StreamInv
<1>3. StreamTypeOK'
  <2>1. epoch' \in 0 .. MaxEpochs /\ counter' \in 0 .. MaxEvents /\ Len(buffer') <= BufferSize
    BY <1>1, <1>2, StreamBounds
  <2> QED
    BY <1>1, <1>2, <2>1, <1>b DEF StreamTypeOK, Connections
<1>4. Ends(buffer', epoch', counter') /\ Ends(wire', epoch', counter')
  BY <1>1, <1>2 DEF Ends
<1>5. connection' # "opened"
  BY <1>1
<1>6. \A i \in DOMAIN received' : received'[i].epoch <= epoch' /\ received'[i].epoch # epoch'
  <2> TAKE i \in DOMAIN received'
  <2>1. received[i].epoch <= epoch /\ received[i].epoch \in Nat
    BY <1>1, StreamFacts DEF StreamInv
  <2> QED
    BY <1>1, <1>2, <2>1
<1>7. ReceivedInOrder' /\ SkippedIsGone' /\ client'.lastId = IF received' = <<>> THEN 0 ELSE Last'.id
  BY <1>1 DEF StreamInv, ReceivedInOrder, SkippedIsGone, Last
<1> QED
  BY <1>1, <1>3, <1>4, <1>5, <1>6, <1>7 DEF StreamInv

LEMMA StreamSteps == StreamInv /\ [StreamNext]_streamVars => StreamInv'
<1> SUFFICES ASSUME StreamInv, [StreamNext]_streamVars PROVE StreamInv'
  OBVIOUS
<1>b. asksByHeader' \in BOOLEAN /\ asksByHeader' = asksByHeader /\ breaks' \subseteq Nat
  BY BreaksAreNumbers DEF StreamNext
<1>0. /\ StreamTypeOK /\ (wire # <<>> => connection = "opened")
      /\ client \in [status: {"disconnected", "connecting", "connected"}, lastId: 0..MaxEvents,
                     timer: BOOLEAN, wasConnected: BOOLEAN]
  BY DEF StreamInv, StreamTypeOK
<1>1. CASE broadcast
  BY <1>1, BroadcastKeeps
<1>2. CASE Accept
  BY <1>2, AcceptKeeps
<1>3. CASE onmessage
  BY <1>3, MessageKeeps
<1>4. CASE Restart
  BY <1>4, RestartKeeps
<1>5. CASE Lose
  <2>1. StreamTypeOK'
    BY <1>0, <1>5, <1>b DEF Lose, StreamTypeOK, Connections
  <2> QED
    BY <1>5, <2>1, ConnectionsChange DEF Lose
<1>6. CASE onopen
  <2>1. client'.lastId = client.lastId /\ client'.timer = client.timer
        /\ client' \in [status: {"disconnected", "connecting", "connected"}, lastId: 0..MaxEvents,
                        timer: BOOLEAN, wasConnected: BOOLEAN]
    BY <1>0, <1>6 DEF onopen
  <2>2. StreamTypeOK'
    BY <1>0, <1>6, <2>1, <1>b DEF onopen, StreamTypeOK, Connections
  <2> QED
    BY <1>6, <2>1, <2>2, ConnectionsChange DEF onopen
<1>7. CASE onerror
  <2>1. client'.lastId = client.lastId
        /\ client' \in [status: {"disconnected", "connecting", "connected"}, lastId: 0..MaxEvents,
                        timer: BOOLEAN, wasConnected: BOOLEAN]
    BY <1>0, <1>7 DEF onerror
  <2>2. StreamTypeOK'
    BY <1>0, <1>7, <2>1, <1>b DEF onerror, StreamTypeOK, Connections
  <2> QED
    BY <1>7, <2>1, <2>2, ConnectionsChange DEF onerror
<1>8. CASE TimerFires
  <2>1. client'.lastId = client.lastId /\ ~client'.timer
        /\ client' \in [status: {"disconnected", "connecting", "connected"}, lastId: 0..MaxEvents,
                        timer: BOOLEAN, wasConnected: BOOLEAN]
    BY <1>0, <1>8 DEF TimerFires
  <2>2. connection = "closed" /\ connection' = "requested" /\ wire' = wire
        /\ UNCHANGED <<asksByHeader, epoch, counter, buffer, hidden, received>>
    BY <1>0, <1>8, <1>b DEF TimerFires, Connected, StreamTypeOK
  <2>3. StreamTypeOK'
    BY <1>0, <2>1, <2>2, <1>b DEF StreamTypeOK, Connections
  <2> QED
    BY <2>1, <2>2, <2>3, ConnectionsChange
<1>9. CASE Hide
  <2>1. UNCHANGED <<asksByHeader, epoch, counter, buffer, received>> /\ hidden' = TRUE
    BY <1>9 DEF Hide
  <2>2. CASE client.status = "disconnected"
    <3>1. UNCHANGED <<connection, wire, client>>
      BY <1>9, <2>2 DEF Hide
    <3>2. StreamTypeOK'
      BY <1>0, <2>1, <3>1, <1>b DEF StreamTypeOK
    <3> QED
      BY <2>1, <3>1, <3>2, ConnectionsChange
  <2>3. CASE client.status # "disconnected"
    <3>1. connection' = "closed" /\ wire' = <<>>
      BY <1>9, <2>3 DEF Hide
    <3>2. client'.lastId = client.lastId
          /\ client' \in [status: {"disconnected", "connecting", "connected"}, lastId: 0..MaxEvents,
                          timer: BOOLEAN, wasConnected: BOOLEAN]
      BY <1>0, <1>9, <2>3 DEF Hide
    <3>3. StreamTypeOK'
      BY <1>0, <2>1, <3>1, <3>2, <1>b DEF StreamTypeOK, Connections
    <3> QED
      BY <2>1, <3>1, <3>2, <3>3, ConnectionsChange
  <2> QED
    BY <2>2, <2>3
<1>10. CASE Show
  <2>1. UNCHANGED <<asksByHeader, epoch, counter, buffer, received>> /\ hidden' = FALSE
    BY <1>10 DEF Show
  <2>2. CASE ~client.wasConnected
    <3>1. UNCHANGED <<connection, wire, client>>
      BY <1>10, <2>2 DEF Show
    <3>2. StreamTypeOK'
      BY <1>0, <2>1, <3>1, <1>b DEF StreamTypeOK
    <3> QED
      BY <2>1, <3>1, <3>2, ConnectionsChange
  <2>3. CASE client.wasConnected
    <3>1. connection' = (IF connection = "closed" THEN "requested" ELSE connection) /\ wire' = wire
      BY <1>10, <2>3 DEF Show, Connected
    <3>2. client'.lastId = client.lastId /\ ~client'.timer
          /\ client' \in [status: {"disconnected", "connecting", "connected"}, lastId: 0..MaxEvents,
                          timer: BOOLEAN, wasConnected: BOOLEAN]
      BY <1>0, <1>10, <2>3 DEF Show
    <3>3. StreamTypeOK'
      BY <1>0, <2>1, <3>1, <3>2, <1>b DEF StreamTypeOK, Connections
    <3> QED
      BY <2>1, <3>1, <3>2, <3>3, ConnectionsChange
  <2> QED
    BY <2>2, <2>3
<1>11. CASE UNCHANGED streamVars
  <2>1. StreamTypeOK' /\ UNCHANGED <<asksByHeader, epoch, counter, buffer, received, connection, wire, client>>
    BY <1>0, <1>11, <1>b DEF streamVars, StreamTypeOK
  <2> QED
    BY <2>1, ConnectionsChange
<1> QED
  BY <1>1, <1>2, <1>3, <1>4, <1>5, <1>6, <1>7, <1>8, <1>9, <1>10, <1>11 DEF StreamNext

\* The client has the last event of an open connection that was taken from the wire; what it
\* has of other connections ends at a break.
WholeInv ==
  /\ ConnectionsAreWhole
  /\ received # <<>> /\ Len(received) \notin breaks =>
       connection = "opened" /\ Last.epoch = epoch /\ Last.id = counter - Len(wire)

\* Steps that give a handler nothing.
LEMMA NothingArrives ==
  ASSUME StreamInv, WholeInv, received' = received, breaks \subseteq breaks',
         \/ connection = "opened" => Len(received) \in breaks'
         \/ connection' = connection /\ epoch' = epoch /\ counter' - Len(wire') = counter - Len(wire)
  PROVE  WholeInv'
<1>1. ConnectionsAreWhole'
  BY DEF WholeInv, ConnectionsAreWhole
<1>2. ASSUME received' # <<>>, Len(received') \notin breaks'
      PROVE  connection' = "opened" /\ Last'.epoch = epoch' /\ Last'.id = counter' - Len(wire')
  <2>1. connection = "opened" /\ Last.epoch = epoch /\ Last.id = counter - Len(wire) /\ Last' = Last
    BY <1>2 DEF WholeInv, Last
  <2> QED
    BY <1>2, <2>1
<1> QED
  BY <1>1, <1>2 DEF WholeInv

LEMMA WholeArrives == StreamInv /\ WholeInv /\ onmessage => WholeInv'
<1> SUFFICES ASSUME StreamInv, WholeInv, onmessage PROVE WholeInv'
  OBVIOUS
<1> DEFINE e == Head(wire)
           n == Len(received) + 1
<1>1. /\ connection = "opened" /\ wire # <<>> /\ wire' = Tail(wire) /\ received' = Append(received, e)
      /\ UNCHANGED <<epoch, counter, connection, breaks>>
  BY DEF onmessage
<1>2. /\ counter \in Nat /\ epoch \in Nat /\ Len(wire) \in Nat \ {0} /\ wire \in Seq(Event)
      /\ Len(received) \in Nat /\ DOMAIN received = 1 .. Len(received) /\ received \in Seq(Event)
      /\ Ends(wire, epoch, counter)
  <2>1. Len(wire) # 0
    BY <1>1, StreamFacts, EmptySeq
  <2> QED
    BY <2>1, StreamFacts DEF StreamInv
<1>3. e = [epoch |-> epoch, id |-> counter - Len(wire) + 1] /\ e \in Event /\ Len(wire') = Len(wire) - 1
  <2>1. e = wire[1] /\ 1 \in DOMAIN wire /\ Len(Tail(wire)) = Len(wire) - 1
    BY <1>1, <1>2
  <2> QED
    BY <1>1, <1>2, <2>1 DEF Ends
<1>4. /\ Len(received') = n /\ received'[n] = e
      /\ \A i \in 1 .. Len(received) : received'[i] = received[i]
  <2> HIDE DEF e
  <2>1. /\ Len(Append(received, e)) = Len(received) + 1
        /\ \A i \in 1 .. Len(received) + 1 : Append(received, e)[i] = IF i <= Len(received) THEN received[i] ELSE e
    BY <1>2, <1>3, AppendProperties
  <2> QED
    BY <1>1, <1>2, <2>1
<1> HIDE DEF e
<1>5. ConnectionsAreWhole'
  <2> SUFFICES ASSUME NEW i \in 2 .. n, i - 1 \notin breaks
               PROVE  received'[i] = [received'[i - 1] EXCEPT !.id = @ + 1]
    BY <1>1, <1>4 DEF ConnectionsAreWhole
  <2>1. CASE i \in 2 .. Len(received)
    BY <1>2, <1>4, <2>1 DEF WholeInv, ConnectionsAreWhole
  <2>2. CASE i = n
    <3>1. i - 1 = Len(received) /\ received # <<>> /\ Len(received) \in DOMAIN received
      BY <1>2, <2>2
    <3>2. Last.epoch = epoch /\ Last.id = counter - Len(wire) /\ Last \in Event
      BY <1>2, <3>1 DEF WholeInv, Last
    <3>3. Last = [epoch |-> epoch, id |-> counter - Len(wire)]
      BY <3>2 DEF Event
    <3>4. received'[i - 1] = Last
      BY <1>4, <3>1 DEF Last
    <3> QED
      BY <1>3, <1>4, <2>2, <3>3, <3>4
  <2> QED
    BY <1>2, <2>1, <2>2
<1>6. connection' = "opened" /\ Last'.epoch = epoch' /\ Last'.id = counter' - Len(wire')
  <2>1. Last' = e
    BY <1>4 DEF Last
  <2> QED
    BY <1>1, <1>2, <1>3, <2>1
<1> QED
  BY <1>5, <1>6 DEF WholeInv

LEMMA WholeSteps == StreamInv /\ WholeInv /\ [StreamNext]_streamVars => WholeInv'
<1> SUFFICES ASSUME StreamInv, WholeInv, [StreamNext]_streamVars PROVE WholeInv'
  OBVIOUS
<1>1. CASE broadcast
  <2>1. CASE connection = "opened"
    <3>1. Numbered(wire) /\ UNCHANGED <<epoch, connection, received, breaks>> /\ Ends(wire, epoch, counter)
      BY <1>1, <2>1 DEF broadcast, StreamInv
    <3>2. counter' - Len(wire') = counter - Len(wire)
      BY <3>1, EventIsNumbered
    <3> QED
      BY <3>1, <3>2, NothingArrives
  <2>2. CASE connection # "opened"
    BY <1>1, <2>2, NothingArrives DEF broadcast
  <2> QED
    BY <2>1, <2>2
<1>2. CASE Accept
  BY <1>2, NothingArrives DEF Accept
<1>3. CASE onmessage
  BY <1>3, WholeArrives
<1>4. CASE Restart
  BY <1>4, NothingArrives DEF Restart, Cut
<1>5. CASE Lose
  BY <1>5, NothingArrives DEF Lose, Cut
<1>6. CASE onopen \/ onerror
  BY <1>6, NothingArrives DEF onopen, onerror
<1>7. CASE TimerFires
  BY <1>7, NothingArrives DEF TimerFires, Connected
<1>8. CASE Hide
  BY <1>8, NothingArrives DEF Hide, Cut
<1>9. CASE Show
  BY <1>9, NothingArrives DEF Show, Connected
<1>10. CASE UNCHANGED streamVars
  BY <1>10, NothingArrives DEF streamVars
<1> QED
  BY <1>1, <1>2, <1>3, <1>4, <1>5, <1>6, <1>7, <1>8, <1>9, <1>10 DEF StreamNext

\* Whichever way a client asks, it receives every event at most once, in order, and all of
\* them as long as a connection lasts; one that asks by the header misses no event over a
\* reconnection that could still be replayed.  So it is through any losses, tabs that are
\* hidden, and restarts of the server.
THEOREM StreamsAreWhole == StreamSpec => []StreamIsWhole
<1>1. StreamInit => StreamInv /\ WholeInv
  BY StreamStarts DEF StreamInit, WholeInv, ConnectionsAreWhole
<1>2. (StreamInv /\ WholeInv) /\ [StreamNext]_streamVars => (StreamInv /\ WholeInv)'
  BY StreamSteps, WholeSteps
<1>3. StreamInv /\ WholeInv => StreamIsWhole
  BY DEF StreamInv, WholeInv, StreamIsWhole
<1> QED
  BY <1>1, <1>2, <1>3, PTL DEF StreamSpec
=============================================================================
