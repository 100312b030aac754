------------------------------ MODULE ChatView ------------------------------
(*****************************************************************************)
(* The chat of the agent page: it posts a message, polls the message's job   *)
(* every two seconds and shows what it reads, while the user changes         *)
(* sessions. Neither polls nor loads of the history are cancelled or told    *)
(* apart.                                                                    *)
(*****************************************************************************)
EXTENDS Naturals, SequencesExt

CONSTANTS
  ChatIds,   \* sessions of the user with the agent
  NoChat,
  MaxSends,  \* bound: messages
  MaxPolls   \* bound: polls under way

ASSUME ChatViewAssumption == NoChat \notin ChatIds /\ MaxSends \in Nat /\ MaxPolls \in Nat

VARIABLES
  chat,      \* sessions, in the database
  listed,    \* the page's copy of them
  selected,  \* activeSessionId
  input,     \* the text in the input, 0 if none
  texts,     \* texts typed so far
  send,      \* per message its text, the session it named and what became of the POST
  chatJob,   \* per message its job's status and session
  saved,     \* messages whose answer is stored in the session
  sending,   \* the input is disabled
  timer,     \* the message whose job is polled, 0 if none
  viewPoll,  \* polls under way, oldest first: the message and what was read
  load,      \* sessions whose history is under way
  bubbles,     \* bubbles: kind and message
  crossed    \* history: a poll came back after another had ended its message

viewVars == <<chat, listed, selected, input, texts, send, chatJob, saved, sending, timer,
              viewPoll, load, bubbles, crossed>>

served == <<chat, chatJob, saved>>
typing == <<input, texts, send, sending>>
panel == <<listed, selected, load>>
polling == <<timer, viewPoll, crossed>>

Messages == 1 .. MaxSends

ChatViewInit ==
  /\ chat \in [ChatIds -> {"none", "active"}] /\ listed = chat /\ selected = NoChat
  /\ input = 0 /\ texts = 0 /\ saved = {} /\ sending = FALSE /\ timer = 0 /\ bubbles = {}
  /\ send = [n \in Messages |-> [text |-> 0, asked |-> NoChat, at |-> "none"]]
  /\ chatJob = [n \in Messages |-> [status |-> "none", of |-> NoChat]]
  /\ viewPoll = <<>> /\ load = {} /\ crossed = FALSE

--------------------------------------------------------------------------------
\* What the page offers: the rows of the list, the input, and a retry below an error.
SessionRow(s) == listed[s] # "none"

InputEnabled == ~sending

CanRetry(n) == <<"error", n>> \in bubbles

--------------------------------------------------------------------------------
\* The panel around the conversation.

\* An active session of the list is selected when none is.
Selection(s, list) ==
  IF s # NoChat \/ \A i \in ChatIds : list[i] # "active" THEN {s} ELSE {i \in ChatIds : list[i] = "active"}

\* The conversation of a session that comes to be selected is loaded over the old one; no
\* session, even for a moment, clears it.
Select(s, list) ==
  \E i \in Selection(s, list) :
    /\ selected' = i
    /\ IF i # selected \/ s = NoChat
       THEN load' = load \cup ({i} \ {NoChat}) ELSE UNCHANGED load

\* "New chat": with an active session in the list the effect selects that one again.
handleNewSession ==
  /\ selected # NoChat /\ Select(NoChat, listed) /\ bubbles' = {}
  /\ UNCHANGED <<served, typing, polling, listed>>

\* A click on a session: resumed or not, it is selected.
handleSelectSession(s) ==
  /\ SessionRow(s) /\ Select(s, listed)
  /\ UNCHANGED <<served, typing, polling, listed, bubbles>>

\* The session is closed; the list still has it as active, and the effect selects from the list.
handleClearSession(s) ==
  /\ SessionRow(s) /\ chat[s] # "none" /\ chat' = [chat EXCEPT ![s] = "closed"]
  /\ IF selected = s THEN Select(NoChat, listed) /\ bubbles' = {} ELSE UNCHANGED <<selected, load, bubbles>>
  /\ UNCHANGED <<chatJob, saved, typing, polling, listed>>

\* The list of sessions arrives (PageQuery).
SessionsArrive ==
  /\ listed # chat /\ listed' = chat /\ Select(selected, chat)
  /\ UNCHANGED <<served, typing, polling, bubbles>>

\* A history replaces everything shown, also what was added since it was asked for.
HistoryArrives(s) ==
  /\ s \in load /\ load' = load \ {s}
  /\ \/ bubbles' = {<<"user", n>> : n \in {k \in Messages : chatJob[k].of = s}}
                 \cup {<<"answer", n>> : n \in {k \in saved : chatJob[k].of = s}}
     \/ bubbles' = {}
  /\ UNCHANGED <<served, typing, polling, listed, selected>>

--------------------------------------------------------------------------------
\* Messages.

Type ==
  /\ input = 0 /\ InputEnabled /\ texts < MaxSends /\ texts' = texts + 1 /\ input' = texts + 1
  /\ UNCHANGED <<served, send, sending, panel, polling, bubbles>>

sendMessage(n) ==
  /\ input # 0 /\ InputEnabled /\ send[n].at = "none" /\ \A k \in 1 .. n - 1 : send[k].at # "none"
  /\ input' = 0 /\ sending' = TRUE /\ bubbles' = bubbles \cup {<<"user", n>>}
  /\ send' = [send EXCEPT ![n] = [text |-> input, asked |-> selected, at |-> "posting"]]
  /\ UNCHANGED <<texts, served, panel, polling>>

\* The route refuses a closed session; without one it takes the active session or a new one.
Accept(n) ==
  /\ send[n].at # "none" /\ chatJob[n].status = "none"
  /\ \E s \in ChatIds :
       /\ IF send[n].asked # NoChat THEN s = send[n].asked /\ chat[s] = "active"
          ELSE \/ chat[s] = "active"
               \/ chat[s] = "none" /\ \A i \in ChatIds : chat[i] # "active"
       /\ chat' = [chat EXCEPT ![s] = "active"]
       /\ chatJob' = [chatJob EXCEPT ![n] = [status |-> "live", of |-> s]]
  /\ UNCHANGED <<saved, typing, panel, polling, bubbles>>

\* The answer: a placeholder is shown and its job polled, in place of another's.
startJobPolling(n) ==
  /\ send[n].at = "posting" /\ chatJob[n].status # "none"
  /\ send' = [send EXCEPT ![n].at = "posted"] /\ timer' = n
  /\ bubbles' = bubbles \cup {<<"pending", n>>}
  /\ IF send[n].asked = NoChat THEN Select(chatJob[n].of, listed) ELSE UNCHANGED <<selected, load>>
  /\ UNCHANGED <<served, input, texts, sending, listed, viewPoll, crossed>>

\* Mutant: the text is not put back.
PostFailsSilently(n) ==
  /\ send[n].at = "posting" /\ send' = [send EXCEPT ![n].at = "failed"]
  /\ sending' = FALSE /\ bubbles' = bubbles \ {<<"user", n>>} /\ UNCHANGED input
  /\ UNCHANGED <<served, texts, panel, polling>>

\* The POST is refused, or its answer is lost; the text goes back to the input.
PostFails(n) ==
  /\ send[n].at = "posting" /\ send' = [send EXCEPT ![n].at = "failed"]
  /\ sending' = FALSE /\ bubbles' = bubbles \ {<<"user", n>>} /\ input' = send[n].text
  /\ UNCHANGED <<served, texts, panel, polling>>

JobGoesOn(n) ==
  /\ \/ chatJob[n].status = "live" /\ \E st \in {"answered", "failed", "waiting"} : chatJob' = [chatJob EXCEPT ![n].status = st]
     \/ chatJob[n].status = "waiting" /\ chatJob' = [chatJob EXCEPT ![n].status = "live"]
  /\ UNCHANGED <<chat, saved, typing, panel, polling, bubbles>>

Poll ==
  /\ timer # 0 /\ Len(viewPoll) < MaxPolls /\ viewPoll' = Append(viewPoll, <<timer, "asked">>)
  /\ UNCHANGED <<served, typing, panel, timer, crossed, bubbles>>

\* Mutant: the route answers without storing.
ReadChatJobOnly(p) ==
  /\ viewPoll[p][2] = "asked"
  /\ viewPoll' = [viewPoll EXCEPT ![p][2] = chatJob[viewPoll[p][1]].status]
  /\ UNCHANGED <<served, typing, panel, timer, crossed, bubbles>>

\* GET /chat/jobs/:jobId stores the answer before it is returned.
ReadChatJob(p) ==
  /\ viewPoll[p][2] = "asked"
  /\ LET n == viewPoll[p][1] IN
       /\ viewPoll' = [viewPoll EXCEPT ![p][2] = chatJob[n].status]
       /\ saved' = IF chatJob[n].status = "answered" THEN saved \cup {n} ELSE saved
  /\ UNCHANGED <<chat, chatJob, typing, panel, timer, crossed, bubbles>>

Bubble == [answered |-> "answer", failed |-> "error", waiting |-> "approval"]

\* Mutant: a job that waits for an approval leaves the input disabled.
PollEndsStuck(p) ==
  /\ viewPoll[p][2] \in DOMAIN Bubble /\ viewPoll' = RemoveAt(viewPoll, p)
  /\ LET n == viewPoll[p][1] IN
       /\ timer' = 0 /\ sending' = (sending /\ viewPoll[p][2] = "waiting") /\ crossed' = (crossed \/ timer # n)
       /\ bubbles' = IF <<"pending", n>> \in bubbles THEN (bubbles \ {<<"pending", n>>}) \cup {<<Bubble[viewPoll[p][2]], n>>}
                   ELSE bubbles
  /\ UNCHANGED <<served, input, texts, send, panel>>

\* A status that ends the wait stops the timer, whichever message it polls by now, enables
\* the input, and turns the placeholder, if it is still there, into what was read.
PollEnds(p) ==
  /\ viewPoll[p][2] \in DOMAIN Bubble /\ viewPoll' = RemoveAt(viewPoll, p)
  /\ LET n == viewPoll[p][1] IN
       /\ timer' = 0 /\ sending' = FALSE /\ crossed' = (crossed \/ timer # n)
       /\ bubbles' = IF <<"pending", n>> \in bubbles THEN (bubbles \ {<<"pending", n>>}) \cup {<<Bubble[viewPoll[p][2]], n>>}
                   ELSE bubbles
  /\ UNCHANGED <<served, input, texts, send, panel>>

\* Any other status, and any failure, leaves it to the next poll.
PollAgain(p) ==
  /\ viewPoll[p][2] \notin DOMAIN Bubble /\ viewPoll' = RemoveAt(viewPoll, p)
  /\ UNCHANGED <<served, typing, panel, timer, crossed, bubbles>>

\* Retry: the error goes and the text before it is sent again, if the input is enabled.
handleRetry(n) ==
  /\ CanRetry(n) /\ <<"user", n>> \in bubbles /\ input = 0 /\ InputEnabled
  /\ bubbles' = bubbles \ {<<"error", n>>} /\ input' = send[n].text
  /\ UNCHANGED <<served, texts, send, sending, panel, polling>>

ChatViewNext ==
  \/ handleNewSession \/ SessionsArrive \/ Type
  \/ \E s \in ChatIds : handleSelectSession(s) \/ handleClearSession(s) \/ HistoryArrives(s)
  \/ \E n \in Messages : \/ sendMessage(n) \/ Accept(n) \/ startJobPolling(n) \/ PostFails(n)
                         \/ JobGoesOn(n) \/ handleRetry(n)
  \/ Poll
  \/ \E p \in DOMAIN viewPoll : ReadChatJob(p) \/ PollEnds(p) \/ PollAgain(p)

--------------------------------------------------------------------------------
\* The types of the variables; while the input is disabled a request or a timer will enable it.
InputIsFreed == sending => timer # 0 \/ \E n \in Messages : send[n].at = "posting"

\* An answer that was shown is in the session's history, and is shown again after a reload.
AnswerIsSaved == \A n \in Messages : <<"answer", n>> \in bubbles => n \in saved

\* A text that was typed is in the input, on its way or stored; unless a poll of an older
\* message has enabled the input too early.
TextIsKept ==
  \A t \in 1 .. texts :
    \/ input = t \/ crossed
    \/ \E n \in Messages : send[n].text = t /\ (send[n].at = "posting" \/ chatJob[n].status # "none")
================================================================================
