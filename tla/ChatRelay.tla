------------------------------ MODULE ChatRelay ------------------------------
(*****************************************************************************)
(* The answer to one chat message: its job, the watch that polls the job and *)
(* relays the result to the chat, and the client that polls the chat route.  *)
(* A poll is an asynchronous function started by an interval, so a slow      *)
(* query leaves several in flight.                                           *)
(*****************************************************************************)
EXTENDS Naturals, FiniteSets

CONSTANTS
  Polls,     \* bound: the watch's polls in flight at one time
  Reads,     \* bound: the client's requests in flight at one time
  Texts,     \* the texts that executions of the job end with
  NoText

ASSUME RelayAssumption ==
  IsFiniteSet(Polls) /\ IsFiniteSet(Reads) /\ NoText \notin Texts

VARIABLES
  job,       \* status of the job, as the watch tells statuses apart
  text,      \* the text of job.result
  watching,  \* the interval is set
  ended,     \* history: what polls ended the watch on
  revived,   \* history: a job that had failed for good was taken up again
  late,      \* the deadline of the watch has passed
  poll,      \* the watch's polls in flight
  read,      \* the client's requests in flight
  stored,    \* copies of each text in session_message
  sent,      \* how much was sent to the chat, by kind
  answered   \* the texts that were sent

relayVars == <<job, text, watching, ended, revived, late, poll, read, stored, sent, answered>>

\* live: PENDING, SCHEDULED, RUNNING or RETRYING.  faltered: FAILED while an attempt
\* is being retried, without completed_at.  failed: FAILED with it, or TIMED_OUT.
\* gone: the row is not there (nothing under src/ deletes it).
JobStatus == {"live", "faltered", "waiting", "completed", "failed", "gone"}

Replies == {"answer", "error", "timeout"}

\* A poll that has queried stores an answer or sends its reply; the deadline's sends too.
Idle    == [pc |-> "none", text |-> NoText]
Polling == [pc: {"none", "querying", "storing"} \cup Replies, text: Texts \cup {NoText}]
Reading == [pc: {"none", "checking", "storing"}, text: Texts \cup {NoText}]

RelayInit ==
  /\ job = "live" /\ text = NoText
  /\ watching = TRUE
  /\ ended = {} /\ revived = FALSE
  /\ late = FALSE
  /\ poll = [p \in Polls |-> Idle]
  /\ read = [r \in Reads |-> Idle]
  /\ stored = [t \in Texts |-> 0]
  /\ sent = [k \in Replies |-> 0] /\ answered = {}

-----------------------------------------------------------------------------
\* The job, as JobLifecycle moves it.  FAILED and TIMED_OUT are not for good: a handler
\* that failed the job before a kill did, and the dashboard, take it up again.
JobMoves ==
  /\ \/ job = "live" /\ job' \in {"faltered", "waiting"} /\ text' = text
     \/ job = "live" /\ job' \in {"completed", "failed"} /\ text' \in Texts \cup {NoText}
     \/ job \in {"faltered", "waiting"} /\ job' \in {"live", "failed"} /\ text' = text
     \/ job = "failed" /\ job' = "live" /\ text' = text
     \/ job # "gone" /\ job' = "gone" /\ text' = text
  /\ revived' = (revived \/ (job = "failed" /\ job' = "live"))
  /\ UNCHANGED <<watching, ended, late, poll, read, stored, sent, answered>>

DeadlinePasses ==
  /\ ~late
  /\ late' = TRUE
  /\ UNCHANGED <<job, text, watching, ended, revived, poll, read, stored, sent, answered>>

Goes(p, pc, t) == poll' = [poll EXCEPT ![p] = [pc |-> pc, text |-> t]]

\* Mutant: the interval is not cleared.
TickGoesOn(p) ==
  /\ watching /\ poll[p].pc = "none"
  /\ Goes(p, IF late THEN "timeout" ELSE "querying", NoText)
  /\ UNCHANGED <<job, text, watching, ended, revived, late, read, stored, sent, answered>>

\* Mutant: there is no deadline.
TickForever(p) ==
  /\ watching /\ poll[p].pc = "none"
  /\ Goes(p, "querying", NoText)
  /\ UNCHANGED <<job, text, watching, ended, revived, late, read, stored, sent, answered>>

\* The interval fires: past the deadline the watch ends with an apology.
Tick(p) ==
  /\ watching /\ poll[p].pc = "none"
  /\ Goes(p, IF late THEN "timeout" ELSE "querying", NoText)
  /\ watching' = ~late
  /\ UNCHANGED <<job, text, ended, revived, late, read, stored, sent, answered>>

\* Mutant: every FAILED is the end.
terminalWhenFailed(status) == status # "live"

\* The row arrives.  FAILED without completed_at is not the end; no row is.
terminal(status) == status \in {"waiting", "completed", "failed", "gone"}

\* onComplete sends an error of what failed, stores any other text to send it, and does
\* nothing without one: so it is of most jobs that wait for an approval, and of a
\* COMPLETED one whose result has none.
RowArrives(p) ==
  /\ poll[p].pc = "querying"
  /\ watching' = (watching /\ ~terminal(job))
  /\ CASE ~terminal(job) -> Goes(p, "none", NoText) /\ ended' = ended
       [] terminal(job) /\ job \in {"failed", "faltered"} ->
            Goes(p, "error", NoText) /\ ended' = ended \cup {job}
       [] terminal(job) /\ job \in {"waiting", "completed"} /\ text # NoText ->
            Goes(p, "storing", text) /\ ended' = ended \cup {job}
       [] OTHER -> Goes(p, "none", NoText) /\ ended' = ended \cup {"silent"}
  /\ UNCHANGED <<job, text, revived, late, read, stored, sent, answered>>

\* Mutant: a failed query ends the watch.
QueryFailsForGood(p) ==
  /\ poll[p].pc = "querying"
  /\ Goes(p, "none", NoText)
  /\ watching' = FALSE
  /\ UNCHANGED <<job, text, ended, revived, late, read, stored, sent, answered>>

\* The query fails: the next poll tries again, if the interval is still set.
QueryFails(p) ==
  /\ poll[p].pc = "querying"
  /\ Goes(p, "none", NoText)
  /\ UNCHANGED <<job, text, watching, ended, revived, late, read, stored, sent, answered>>

\* Mutant: the answer is sent before it is stored.
StoreAnswerLater(p) ==
  /\ poll[p].pc = "storing"
  /\ Goes(p, "answer", poll[p].text)
  /\ UNCHANGED <<job, text, watching, ended, revived, late, read, stored, sent, answered>>

StoreAnswer(p) ==
  /\ poll[p].pc = "storing"
  /\ stored' = [stored EXCEPT ![poll[p].text] = @ + 1]
  /\ Goes(p, "answer", poll[p].text)
  /\ UNCHANGED <<job, text, watching, ended, revived, late, read, sent, answered>>

\* router.send: an answer, an error or the apology of the deadline.
Send(p) ==
  /\ poll[p].pc \in Replies
  /\ sent' = [sent EXCEPT ![poll[p].pc] = @ + 1]
  /\ answered' = IF poll[p].pc = "answer" THEN answered \cup {poll[p].text} ELSE answered
  /\ Goes(p, "none", NoText)
  /\ UNCHANGED <<job, text, watching, ended, revived, late, read, stored>>

\* The INSERT or router.send throws: it is logged, and the interval is cleared already.
ReplyFails(p) ==
  /\ poll[p].pc \in {"storing"} \cup Replies
  /\ ended' = ended \cup {"unsent"}
  /\ Goes(p, "none", NoText)
  /\ UNCHANGED <<job, text, watching, revived, late, read, stored, sent, answered>>

\* GET /chat/jobs/:jobId stores the text it finds too, of a failed attempt as well, unless
\* the session holds the same text.
ReadJob(r) ==
  /\ read[r].pc = "none" /\ job \in {"completed", "failed", "faltered"} /\ text # NoText
  /\ read' = [read EXCEPT ![r] = [pc |-> "checking", text |-> text]]
  /\ UNCHANGED <<job, text, watching, ended, revived, late, poll, stored, sent, answered>>

CheckStored(r) ==
  /\ read[r].pc = "checking"
  /\ read' = [read EXCEPT ![r] = IF stored[@.text] = 0 THEN [@ EXCEPT !.pc = "storing"] ELSE Idle]
  /\ UNCHANGED <<job, text, watching, ended, revived, late, poll, stored, sent, answered>>

\* The INSERT, unless it fails.
ReadStores(r) ==
  /\ read[r].pc = "storing"
  /\ \/ stored' = [stored EXCEPT ![read[r].text] = @ + 1]
     \/ stored' = stored
  /\ read' = [read EXCEPT ![r] = Idle]
  /\ UNCHANGED <<job, text, watching, ended, revived, late, poll, sent, answered>>

RelayNext ==
  \/ JobMoves \/ DeadlinePasses
  \/ \E p \in Polls : Tick(p) \/ RowArrives(p) \/ QueryFails(p) \/ StoreAnswer(p) \/ Send(p) \/ ReplyFails(p)
  \/ \E r \in Reads : ReadJob(r) \/ CheckStored(r) \/ ReadStores(r)

RelaySpec == RelayInit /\ [][RelayNext]_relayVars

\* Time passes, the interval fires and what a poll awaits settles.  That a query, an
\* INSERT or a send succeeds, or that the job ends, is not assumed.
RelayFairness ==
  /\ WF_relayVars(DeadlinePasses)
  /\ \A p \in Polls : /\ WF_relayVars(Tick(p))
                      /\ WF_relayVars(RowArrives(p) \/ QueryFails(p))
                      /\ WF_relayVars(StoreAnswer(p) \/ Send(p) \/ ReplyFails(p))

RelayFair == RelaySpec /\ RelayFairness

-----------------------------------------------------------------------------
\* Jobs, polls and counts are well formed.
RelayTypeOK ==
  /\ job \in JobStatus /\ text \in Texts \cup {NoText}
  /\ ended \subseteq JobStatus \cup {"silent", "unsent"}
  /\ watching \in BOOLEAN /\ late \in BOOLEAN /\ revived \in BOOLEAN
  /\ poll \in [Polls -> Polling]
  /\ \A p \in Polls : poll[p].pc \in {"storing", "answer"} => poll[p].text \in Texts
  /\ read \in [Reads -> Reading]
  /\ \A r \in Reads : read[r].pc # "none" => read[r].text \in Texts
  /\ stored \in [Texts -> Nat]
  /\ sent \in [Replies -> Nat] /\ answered \subseteq Texts

InFlight == {p \in Polls : poll[p].pc # "none"}

\* The chat is told of a failure only when the job had failed with completed_at set, and not
\* in the moment of a faltering attempt; it stays so unless a job that had so failed is
\* taken up again, which nobody tells the chat.
FailureIsFinal == sent["error"] > 0 => job \in {"failed", "gone"} \/ revived

\* Overlapping polls may tell the chat the same thing again, or an error and an answer of
\* a job that was taken up again, but no more often than polls overlap, all replies
\* taken together.
RepliesAreBounded == sent["answer"] + sent["error"] + sent["timeout"] <= Cardinality(Polls)

\* What the chat was told is in the session's history: each answer sent was stored
\* first.  And what the client's requests add to that is bounded by how many overlap.
AnswersAreStored ==
  /\ \A t \in answered : stored[t] > 0
  /\ \A t \in Texts : stored[t] <= Cardinality(Polls) + Cardinality(Reads)

\* When the watch is over the chat was answered, unless the watch ended with nothing to
\* tell (a job that waits or has no text, a row that is not there), or an INSERT or a send
\* failed: overlapping polls, failing queries, faltering attempts and the deadline never
\* end it without a word.
WatchEndsWithReply ==
  ~watching /\ InFlight = {} => ended \cap {"silent", "unsent"} # {} \/ \E k \in Replies : sent[k] > 0

\* What the chat is told, all in all: what was so, not too often, and something in the end.
ChatIsAnswered ==
  RelayTypeOK /\ FailureIsFinal /\ RepliesAreBounded /\ AnswersAreStored /\ WatchEndsWithReply

\* The user hears something in the end, unless there was nothing to tell or it failed.
UserHears == <>(ended \cap {"silent", "unsent"} # {} \/ \E k \in Replies : sent[k] > 0)
=============================================================================
