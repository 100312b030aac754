--------------------------- MODULE MCConversation ----------------------------
(*****************************************************************************)
(* The instance of the modules about one conversation for TLC: its answers,  *)
(* its memory and its events.  They share no state, so a behaviour moves one *)
(* of them, its part, and the others are at rest: in a state where their     *)
(* fairness asks for nothing.                                                *)
(*****************************************************************************)
EXTENDS ChatRelay, MemoryWindows, EventStream

VARIABLE part

RelayRests ==
  /\ job = "waiting" /\ text = NoText /\ ended = {"silent"} /\ revived = FALSE
  /\ watching = FALSE /\ late = TRUE
  /\ poll = [p \in Polls |-> Idle] /\ read = [r \in Reads |-> Idle]
  /\ stored = [t \in Texts |-> 0] /\ sent = [k \in Replies |-> 0] /\ answered = {}

StreamRests ==
  /\ epoch = 0 /\ counter = 0 /\ buffer = <<>>
  /\ connection = "opened" /\ wire = <<>> /\ received = <<>>
  /\ client = [status |-> "connected", lastId |-> 0, timer |-> FALSE, wasConnected |-> FALSE]
  /\ hidden = FALSE /\ asksByHeader = FALSE /\ breaks = {}

Init ==
  /\ part \in {"relay", "memory", "stream"}
  /\ MemoryInit
  /\ IF part = "relay" THEN RelayInit ELSE RelayRests
  /\ IF part = "stream" THEN StreamInit ELSE StreamRests

Next ==
  /\ part' = part
  /\ \/ part = "relay" /\ RelayNext /\ UNCHANGED <<memoryVars, streamVars>>
     \/ part = "memory" /\ MemoryNext /\ UNCHANGED <<relayVars, streamVars>>
     \/ part = "stream" /\ StreamNext /\ UNCHANGED <<relayVars, memoryVars>>

Spec == /\ Init /\ [][Next]_<<part, relayVars, memoryVars, streamVars>>
        /\ RelayFairness /\ MemoryFairness /\ StreamFairness

\* What is under way arrives: an answer at the user, the marks at the messages of every
\* window, the stream at its client.
AllIsDelivered == UserHears /\ WindowsAreSettled /\ StreamComesBack
=============================================================================
