-------------------------- MODULE AccessGrantsProofs -------------------------
(*****************************************************************************)
(* Theorems of AccessGrants, for any number of users, codes, requests,       *)
(* messages and reviews and every authorisation model.                       *)
(*****************************************************************************)
EXTENDS AccessGrants, TLAPS

Plain    == {"resolved", "requesting", "granting", "regranting", "admitted"}
WithCode == {"reading", "redeeming", "inserting"}
Decides  == {"approving", "approved", "denying"}
Writes   == {"inviting", "reactivating"}

\* The records of what is in flight: which fields they have, and what a move makes of them.
LEMMA MessageShape ==
  ASSUME NEW x \in Message \cup {Idle}
  PROVE  /\ x.pc \in Plain \cup WithCode \cup {"idle"}
         /\ x.pc = "idle" => x = Idle
         /\ x.pc \in Plain =>
              /\ x.user \in Users
              /\ \A pc \in Plain : [x EXCEPT !.pc = pc] = [pc |-> pc, user |-> x.user]
         /\ x.pc \in WithCode =>
              /\ x.user \in Users /\ x.code \in Codes
              /\ \A pc \in WithCode :
                   [x EXCEPT !.pc = pc] = [pc |-> pc, user |-> x.user, code |-> x.code]
<1>1. CASE x \in [pc: Plain, user: Users]
  BY <1>1 DEF Plain, WithCode
<1>2. CASE x \in [pc: WithCode, user: Users, code: Codes]
  BY <1>2 DEF Plain, WithCode
<1>3. CASE x = Idle
  BY <1>3 DEF Idle, Plain, WithCode
<1> QED
  BY <1>1, <1>2, <1>3 DEF Message, Plain, WithCode

LEMMA MessageTypes ==
  /\ Idle.pc = "idle"
  /\ \A pc \in Plain, u \in Users :
       /\ [pc |-> pc, user |-> u] \in Message
       /\ [pc |-> pc, user |-> u].pc = pc /\ [pc |-> pc, user |-> u].user = u
  /\ \A pc \in WithCode, u \in Users, c \in Codes :
       /\ [pc |-> pc, user |-> u, code |-> c] \in Message
       /\ [pc |-> pc, user |-> u, code |-> c].pc = pc
       /\ [pc |-> pc, user |-> u, code |-> c].user = u
       /\ [pc |-> pc, user |-> u, code |-> c].code = c
  BY DEF Message, Plain, WithCode, Idle

LEMMA ReviewShape ==
  ASSUME NEW x \in Review \cup {Idle}
  PROVE  /\ x.pc \in Decides \cup Writes \cup {"idle"}
         /\ x.pc = "idle" => x = Idle
         /\ x.pc \in Decides =>
              /\ x.user \in Users /\ x.request \in Requests
              /\ \A pc \in Decides :
                   [x EXCEPT !.pc = pc] = [pc |-> pc, request |-> x.request, user |-> x.user]
         /\ x.pc \in Writes => x.user \in Users /\ x = [pc |-> x.pc, user |-> x.user]
<1>1. CASE x \in [pc: Decides, request: Requests, user: Users]
  BY <1>1 DEF Decides, Writes
<1>2. CASE x \in [pc: Writes, user: Users]
  BY <1>2 DEF Decides, Writes
<1>3. CASE x = Idle
  BY <1>3 DEF Idle, Decides, Writes
<1> QED
  BY <1>1, <1>2, <1>3 DEF Review, Decides, Writes

LEMMA ReviewTypes ==
  /\ \A pc \in Decides, r \in Requests, u \in Users :
       /\ [pc |-> pc, request |-> r, user |-> u] \in Review
       /\ [pc |-> pc, request |-> r, user |-> u].pc = pc
       /\ [pc |-> pc, request |-> r, user |-> u].request = r
       /\ [pc |-> pc, request |-> r, user |-> u].user = u
  /\ \A pc \in Writes, u \in Users :
       /\ [pc |-> pc, user |-> u] \in Review
       /\ [pc |-> pc, user |-> u].pc = pc /\ [pc |-> pc, user |-> u].user = u
  BY DEF Review, Decides, Writes

-----------------------------------------------------------------------------
(*****************************************************************************)
(* The invariant, row by row and call by call.  What GrantsAreEarned says of *)
(* the rows holds because every call remembers what it was started for: one  *)
(* that is about to insert a grant has its code marked or its request        *)
(* decided, and nobody undoes that.                                          *)
(*****************************************************************************)

RowTypes ==
  /\ authModel \in AuthModels
  /\ grant \in [Users -> Grant] /\ code \in [Codes -> Code] /\ request \in [Requests -> Request]
  /\ message \in [Messages -> Message \cup {Idle}] /\ review \in [Reviews -> Review \cup {Idle}]

MessageOK(m) ==
  /\ message[m].pc = "inserting" =>
       code[message[m].code] = [state |-> "redeemed", by |-> message[m].user]
  /\ message[m].pc \in {"granting", "regranting"} => authModel \in {"team", "open"}
  /\ message[m].pc \in {"regranting", "admitted"} => grant[message[m].user].state # "none"

ReviewOK(o) ==
  review[o].pc \in Decides =>
    /\ request[review[o].request].user = review[o].user
    /\ request[review[o].request].status # "absent"
    /\ review[o].pc = "approved" => request[review[o].request].status \in {"approved", "denied"}

CodeOK(c) ==
  /\ (code[c].state = "redeemed") <=> (code[c].by # None)
  /\ code[c].state = "redeemed" =>
       \/ grant[code[c].by].state # "none"
       \/ \E m \in Messages : message[m] = [pc |-> "inserting", user |-> code[c].by, code |-> c]

RequestOK(r) ==
  /\ request[r].status # "absent" => request[r].user \in Users
  /\ request[r].status = "approved" =>
       \/ grant[request[r].user].state # "none"
       \/ \E o \in Reviews : review[o] = [pc |-> "approved", request |-> r, user |-> request[r].user]

GrantOK(u) ==
  /\ grant[u].origin = "pairing_code" => \E c \in Codes : code[c] = [state |-> "redeemed", by |-> u]
  /\ grant[u].origin = "approval" =>
       \E r \in Requests : request[r].user = u /\ request[r].status \in {"approved", "denied"}
  /\ grant[u].origin = "auto" => authModel \in {"team", "open"}

Earned ==
  /\ RowTypes
  /\ \A m \in Messages : MessageOK(m)
  /\ \A o \in Reviews : ReviewOK(o)
  /\ \A c \in Codes : CodeOK(c)
  /\ \A r \in Requests : RequestOK(r)
  /\ \A u \in Users : GrantOK(u)

LEMMA EarnedIsEnough ==
  Earned => GrantsAreEarned
  BY DEF Earned, RowTypes, MessageOK, CodeOK, RequestOK, GrantOK, GrantsAreEarned, TypeOK,
         SpentCodeIsPaid, ApprovedIsGranted, OriginIsReal, AdmittedHasGrant

\* No step takes a row of a grant away, undoes a redemption or a decision, or gives a request
\* to another user.
Forward ==
  /\ authModel' = authModel
  /\ \A u \in Users : grant[u].state # "none" => grant'[u].state # "none"
  /\ \A c \in Codes : code[c].state \in {"redeemed", "revoked"} => code'[c] = code[c]
  /\ \A r \in Requests :
       /\ request[r].status # "absent" => /\ request'[r].user = request[r].user
                                          /\ request'[r].status # "absent"
       /\ request[r].status \in {"approved", "denied"} => request'[r] = request[r]

LEMMA InsertsForward ==
  ASSUME RowTypes, NEW u \in Users, NEW origin \in {"pairing_code", "auto", "approval"},
         InsertGrant(u, origin)
  PROVE  /\ grant' \in [Users -> Grant] /\ grant'[u].state # "none"
         /\ \A v \in Users : grant[v].state # "none" => grant'[v] = grant[v]
         /\ \A v \in Users : grant'[v] # grant[v] => v = u /\ grant'[v].origin = origin
  BY DEF InsertGrant, RowTypes, Grant, NoGrant, Valid

LEMMA DecidesForward ==
  ASSUME RowTypes, NEW o \in Reviews, review[o].pc \in Decides, ReviewOK(o),
         NEW status \in {"approved", "denied"}, Decided(o, status)
  PROVE  /\ request' \in [Requests -> Request]
         /\ \A r \in Requests :
              /\ request'[r].user = request[r].user
              /\ request[r].status # "pending" => request'[r] = request[r]
              /\ request'[r] # request[r] => r = review[o].request /\ request'[r].status = status
         /\ \/ request'[review[o].request].status \in {"approved", "denied"}
            \/ request' = request /\ request[review[o].request].status = "pending"
               /\ Taken(review[o].user, status)
<1> DEFINE r == review[o].request
<1>1. r \in Requests /\ request[r] \in Request
  BY ReviewShape DEF RowTypes
<1>2. [request[r] EXCEPT !.status = status] \in Request
      /\ [request[r] EXCEPT !.status = status].user = request[r].user
      /\ [request[r] EXCEPT !.status = status].status = status
  BY <1>1 DEF Request
<1>3. request[r].status \in {"pending", "approved", "denied"}
  BY <1>1 DEF ReviewOK, Request
<1> HIDE DEF r
<1>4. CASE request[r].status = "pending" /\ ~Taken(review[o].user, status)
  <2>1. request' = [request EXCEPT ![r] = [request[r] EXCEPT !.status = status]]
    BY <1>4 DEF Decided, r
  <2> QED
    BY <1>1, <1>2, <1>4, <2>1 DEF RowTypes, r
<1>5. CASE ~(request[r].status = "pending" /\ ~Taken(review[o].user, status))
  <2>1. request' = request
    BY <1>5 DEF Decided, r
  <2> QED
    BY <1>3, <1>5, <2>1 DEF RowTypes, r
<1> QED
  BY <1>4, <1>5

\* What is left to show of a step: the rows and calls that it changes.
Advance ==
  /\ RowTypes' /\ Forward
  /\ \A m \in Messages : message'[m] = message[m] \/ MessageOK(m)'
  /\ \A o \in Reviews : review'[o] = review[o] \/ ReviewOK(o)'
  /\ \A c \in Codes : code'[c] = code[c] \/ CodeOK(c)'
  /\ \A r \in Requests : request'[r] = request[r] \/ RequestOK(r)'
  /\ \A u \in Users : grant'[u].origin = grant[u].origin \/ GrantOK(u)'
  /\ \A m \in Messages : message[m].pc = "inserting" =>
       message'[m] = message[m] \/ grant'[message[m].user].state # "none"
  /\ \A o \in Reviews : review[o].pc = "approved" =>
       review'[o] = review[o] \/ grant'[review[o].user].state # "none"

LEMMA AdvancesKeep ==
  ASSUME Earned, Advance
  PROVE  Earned'
<1>1. ASSUME NEW m \in Messages PROVE MessageOK(m)'
  <2>1. CASE message'[m] = message[m]
    <3>1. MessageOK(m) /\ message[m] \in Message \cup {Idle}
      BY DEF Earned, RowTypes
    <3>2. message[m].pc = "inserting" => message[m].code \in Codes /\ message[m].user \in Users
      BY <3>1, MessageShape DEF WithCode
    <3>3. message[m].pc \in {"regranting", "admitted"} => message[m].user \in Users
      BY <3>1, MessageShape DEF Plain
    <3> QED
      BY <2>1, <3>1, <3>2, <3>3 DEF MessageOK, Advance, Forward
  <2> QED
    BY <2>1 DEF Advance
<1>2. ASSUME NEW o \in Reviews PROVE ReviewOK(o)'
  <2>1. CASE review'[o] = review[o]
    <3>1. ReviewOK(o) /\ review[o] \in Review \cup {Idle}
      BY DEF Earned, RowTypes
    <3>2. review[o].pc \in Decides => review[o].request \in Requests
      BY <3>1, ReviewShape
    <3> QED
      BY <2>1, <3>1, <3>2 DEF ReviewOK, Advance, Forward, Decides
  <2> QED
    BY <2>1 DEF Advance
<1>3. ASSUME NEW c \in Codes PROVE CodeOK(c)'
  <2>1. CASE code'[c] = code[c]
    <3>1. CodeOK(c) /\ code[c] \in Code
      BY DEF Earned, RowTypes
    <3>2. CASE code[c].state = "redeemed"
      <4>1. code[c].by \in Users
        BY <3>1, <3>2 DEF CodeOK, Code
      <4>2. CASE grant[code[c].by].state # "none"
        BY <2>1, <3>1, <3>2, <4>1, <4>2 DEF CodeOK, Advance, Forward
      <4>3. ASSUME NEW m \in Messages, message[m] = [pc |-> "inserting", user |-> code[c].by, code |-> c]
            PROVE CodeOK(c)'
        <5>1. message[m].pc = "inserting" /\ message[m].user = code[c].by
          BY <4>3
        <5>2. message'[m] = message[m] \/ grant'[message[m].user].state # "none"
          BY <5>1 DEF Advance
        <5> QED
          BY <2>1, <3>1, <3>2, <4>3, <5>1, <5>2 DEF CodeOK
      <4> QED
        BY <3>1, <3>2, <4>2, <4>3 DEF CodeOK
    <3> QED
      BY <2>1, <3>1, <3>2 DEF CodeOK
  <2> QED
    BY <2>1 DEF Advance
<1>4. ASSUME NEW r \in Requests PROVE RequestOK(r)'
  <2>1. CASE request'[r] = request[r]
    <3>1. RequestOK(r)
      BY DEF Earned
    <3>2. CASE request[r].status = "approved"
      <4>1. request[r].user \in Users
        BY <3>1, <3>2 DEF RequestOK
      <4>2. CASE grant[request[r].user].state # "none"
        BY <2>1, <3>1, <3>2, <4>1, <4>2 DEF RequestOK, Advance, Forward
      <4>3. ASSUME NEW o \in Reviews,
                   review[o] = [pc |-> "approved", request |-> r, user |-> request[r].user]
            PROVE RequestOK(r)'
        <5>1. review[o].pc = "approved" /\ review[o].user = request[r].user
          BY <4>3
        <5>2. review'[o] = review[o] \/ grant'[review[o].user].state # "none"
          BY <5>1 DEF Advance
        <5> QED
          BY <2>1, <3>1, <3>2, <4>3, <5>1, <5>2 DEF RequestOK
      <4> QED
        BY <3>1, <3>2, <4>2, <4>3 DEF RequestOK
    <3> QED
      BY <2>1, <3>1, <3>2 DEF RequestOK
  <2> QED
    BY <2>1 DEF Advance
<1>5. ASSUME NEW u \in Users PROVE GrantOK(u)'
  <2>1. CASE grant'[u].origin = grant[u].origin
    <3>1. GrantOK(u)
      BY DEF Earned
    <3>2. authModel' = authModel
      BY DEF Advance, Forward
    <3>3. grant[u].origin = "pairing_code" => \E c \in Codes : code'[c] = [state |-> "redeemed", by |-> u]
      BY <3>1 DEF GrantOK, Advance, Forward
    <3>4. grant[u].origin = "approval" =>
            \E r \in Requests : request'[r].user = u /\ request'[r].status \in {"approved", "denied"}
      BY <3>1 DEF GrantOK, Advance, Forward
    <3> QED
      BY <2>1, <3>1, <3>2, <3>3, <3>4 DEF GrantOK
  <2> QED
    BY <2>1 DEF Advance
<1> QED
  BY <1>1, <1>2, <1>3, <1>4, <1>5 DEF Earned, Advance

-----------------------------------------------------------------------------
(* The steps, one lemma for those that change the same rows. *)

\* A message that moves on or ends, while no row changes.
LEMMA MessageMoves ==
  ASSUME Earned, NEW m \in Messages, UNCHANGED <<authModel, rows, review>>,
         NEW x \in Message \cup {Idle}, message' = [message EXCEPT ![m] = x],
         message[m].pc # "inserting", MessageOK(m)'
  PROVE  Advance
  BY DEF Advance, Earned, RowTypes, Forward, rows

LEMMA MessagesEnd ==
  ASSUME Earned, NEW m \in Messages, Finish(m)
  PROVE  /\ message' = [message EXCEPT ![m] = Idle] /\ message'[m] = Idle
         /\ message' \in [Messages -> Message \cup {Idle}] /\ MessageOK(m)'
  BY MessageTypes DEF Finish, Earned, RowTypes, MessageOK

LEMMA MessagesGoOn ==
  ASSUME Earned, NEW m \in Messages, NEW pc, GoOn(m, pc),
         \/ message[m].pc \in Plain /\ pc \in Plain
         \/ message[m].pc \in WithCode /\ pc \in WithCode
  PROVE  /\ message' = [message EXCEPT ![m] = [message[m] EXCEPT !.pc = pc]]
         /\ message' \in [Messages -> Message \cup {Idle}]
         /\ message'[m].pc = pc /\ message'[m].user = message[m].user /\ message[m].user \in Users
         /\ message[m].pc \in WithCode =>
              /\ message'[m] = [pc |-> pc, user |-> message[m].user, code |-> message[m].code]
              /\ message'[m].code = message[m].code /\ message[m].code \in Codes
<1>1. message[m] \in Message \cup {Idle} /\ message \in [Messages -> Message \cup {Idle}]
  BY DEF Earned, RowTypes
<1>2. message' = [message EXCEPT ![m] = [message[m] EXCEPT !.pc = pc]]
  BY DEF GoOn
<1>3. CASE message[m].pc \in Plain /\ pc \in Plain
  <2>1. /\ message[m].user \in Users
        /\ [message[m] EXCEPT !.pc = pc] = [pc |-> pc, user |-> message[m].user]
    BY <1>1, <1>3, MessageShape
  <2>2. /\ [pc |-> pc, user |-> message[m].user] \in Message
        /\ [pc |-> pc, user |-> message[m].user].pc = pc
        /\ [pc |-> pc, user |-> message[m].user].user = message[m].user
    BY <1>3, <2>1, MessageTypes
  <2>3. message[m].pc \notin WithCode
    BY <1>3 DEF Plain, WithCode
  <2> QED
    BY <1>1, <1>2, <2>1, <2>2, <2>3
<1>4. CASE message[m].pc \in WithCode /\ pc \in WithCode
  <2>1. /\ message[m].user \in Users /\ message[m].code \in Codes
        /\ [message[m] EXCEPT !.pc = pc] = [pc |-> pc, user |-> message[m].user, code |-> message[m].code]
    BY <1>1, <1>4, MessageShape
  <2>2. /\ [pc |-> pc, user |-> message[m].user, code |-> message[m].code] \in Message
        /\ [pc |-> pc, user |-> message[m].user, code |-> message[m].code].pc = pc
        /\ [pc |-> pc, user |-> message[m].user, code |-> message[m].code].user = message[m].user
        /\ [pc |-> pc, user |-> message[m].user, code |-> message[m].code].code = message[m].code
    BY <1>4, <2>1, MessageTypes
  <2> QED
    BY <1>1, <1>2, <2>1, <2>2
<1> QED
  BY <1>3, <1>4

LEMMA MessagesBegin ==
  ASSUME Earned, NEW m \in Messages, NEW u \in Users,
         Receive(m, u) \/ \E c \in Codes : Redeem(m, u, c)
  PROVE  Advance
<1>1. PICK x \in Message : /\ x.pc \in {"resolved", "reading"}
                          /\ message[m] = Idle /\ message' = [message EXCEPT ![m] = x]
                          /\ UNCHANGED <<authModel, rows, review>>
  BY MessageTypes DEF Receive, Redeem, Plain, WithCode
<1>2. message'[m] = x /\ message[m].pc = "idle"
  BY <1>1, MessageTypes DEF Earned, RowTypes
<1>3. MessageOK(m)'
  BY <1>1, <1>2 DEF MessageOK
<1> QED
  BY <1>1, <1>2, <1>3, MessageMoves

\* A message that moves on, or ends, while no row changes.
LEMMA MessagesProceed ==
  ASSUME Earned, NEW m \in Messages, authorize(m) \/ AutoSelect(m) \/ Continue(m) \/ ReadCode(m)
  PROVE  Advance
<1>1. /\ message[m].pc \in {"resolved", "regranting", "admitted", "reading"}
      /\ UNCHANGED <<authModel, rows, review>>
  BY DEF authorize, AutoSelect, Continue, ReadCode
<1>2. CASE Finish(m)
  BY <1>1, <1>2, MessagesEnd, MessageMoves
<1>3. ASSUME NEW pc, GoOn(m, pc),
             \/ message[m].pc \in Plain /\ pc \in {"requesting", "granting", "admitted"}
             \/ message[m].pc \in WithCode /\ pc = "redeeming",
             pc = "granting" => authModel \in {"team", "open"},
             pc = "admitted" => grant[message[m].user].state # "none"
      PROVE  Advance
  <2>1. pc \in Plain \/ pc \in WithCode
    BY <1>3 DEF Plain, WithCode
  <2>2. /\ message' = [message EXCEPT ![m] = [message[m] EXCEPT !.pc = pc]]
        /\ message' \in [Messages -> Message \cup {Idle}]
        /\ message'[m].pc = pc /\ message'[m].user = message[m].user
    BY <1>3, MessagesGoOn DEF Plain, WithCode
  <2>3. MessageOK(m)'
    BY <1>1, <1>3, <2>2 DEF MessageOK, rows
  <2>4. [message[m] EXCEPT !.pc = pc] \in Message \cup {Idle}
    BY <2>2 DEF Earned, RowTypes
  <2> QED
    BY <1>1, <2>2, <2>3, <2>4, MessageMoves
<1>4. CASE authorize(m)
  <2>1. message[m].pc \in Plain
    BY <1>4 DEF authorize, Plain
  <2> QED
    BY <1>2, <1>3, <1>4, <2>1 DEF authorize, Decide
<1>5. CASE AutoSelect(m)
  <2>1. message[m].pc \in Plain /\ grant[message[m].user].state # "none"
    BY <1>5 DEF AutoSelect, Plain, Earned, MessageOK
  <2> QED
    BY <1>2, <1>3, <1>5, <2>1 DEF AutoSelect
<1>6. CASE ReadCode(m)
  <2>1. message[m].pc \in WithCode
    BY <1>6 DEF ReadCode, WithCode
  <2> QED
    BY <1>2, <1>3, <1>6, <2>1 DEF ReadCode
<1> QED
  BY <1>2, <1>4, <1>5, <1>6 DEF Continue

LEMMA RequestIsCreated ==
  ASSUME Earned, NEW m \in Messages, CreateRequest(m)
  PROVE  Advance
<1>1. /\ message' = [message EXCEPT ![m] = Idle]
      /\ message' \in [Messages -> Message \cup {Idle}] /\ MessageOK(m)'
      /\ message[m].pc = "requesting" /\ message[m].user \in Users
      /\ UNCHANGED <<authModel, grant, code, review>>
  BY MessagesEnd, MessageShape DEF CreateRequest, Earned, RowTypes, Plain
<1>2. CASE request' = request
  BY <1>1, <1>2 DEF Advance, Earned, RowTypes, Forward
<1>3. ASSUME NEW r \in Requests, request[r].status = "absent",
             request' = [request EXCEPT ![r] = [status |-> "pending", user |-> message[m].user]]
      PROVE  Advance
  <2>1. /\ request' \in [Requests -> Request]
        /\ \A q \in Requests : q # r => request'[q] = request[q]
        /\ request'[r] = [status |-> "pending", user |-> message[m].user]
    BY <1>1, <1>3 DEF Earned, RowTypes, Request
  <2>2. RequestOK(r)'
    BY <1>1, <2>1 DEF RequestOK
  <2>3. Forward
    BY <1>1, <1>3, <2>1 DEF Forward
  <2>4. RowTypes'
    BY <1>1, <2>1 DEF Earned, RowTypes
  <2> QED
    BY <1>1, <2>1, <2>2, <2>3, <2>4 DEF Advance, Earned, RowTypes
<1> QED
  BY <1>2, <1>3 DEF CreateRequest

LEMMA AutoGrantIsInserted ==
  ASSUME Earned, NEW m \in Messages, AutoInsert(m)
  PROVE  Advance
<1> DEFINE u == message[m].user
           pc == IF grant[u].state = "none" THEN "admitted" ELSE "regranting"
<1>1. /\ message[m].pc = "granting" /\ GoOn(m, pc) /\ InsertGrant(u, "auto")
      /\ UNCHANGED <<authModel, code, request, review>>
  BY DEF AutoInsert
<1>2. /\ message' = [message EXCEPT ![m] = [message[m] EXCEPT !.pc = pc]]
      /\ message' \in [Messages -> Message \cup {Idle}]
      /\ message'[m].pc = pc /\ message'[m].user = u /\ u \in Users
  BY <1>1, MessagesGoOn DEF Plain
<1>3. pc \in {"admitted", "regranting"} /\ authModel \in {"team", "open"}
  BY <1>1 DEF Earned, MessageOK
<1> HIDE DEF u, pc
<1>4. /\ grant' \in [Users -> Grant] /\ grant'[u].state # "none"
      /\ \A v \in Users : grant[v].state # "none" => grant'[v] = grant[v]
      /\ \A v \in Users : grant'[v] # grant[v] => v = u /\ grant'[v].origin = "auto"
  BY <1>1, <1>2, InsertsForward DEF Earned
<1>5. MessageOK(m)'
  BY <1>2, <1>3, <1>4, <1>1 DEF MessageOK
<1>6. \A v \in Users : grant'[v].origin = grant[v].origin \/ GrantOK(v)'
  BY <1>1, <1>3, <1>4 DEF GrantOK
<1>7. Forward /\ RowTypes'
  BY <1>1, <1>2, <1>4 DEF Forward, Earned, RowTypes
<1> QED
  BY <1>1, <1>2, <1>5, <1>6, <1>7 DEF Advance, Earned, RowTypes

LEMMA CodeIsMarked ==
  ASSUME Earned, NEW m \in Messages, MarkRedeemed(m)
  PROVE  Advance
<1>1. /\ message[m].pc = "redeeming"
      /\ UNCHANGED <<authModel, grant, request, review>>
  BY DEF MarkRedeemed
<1>2. PICK u \in Users, c \in Codes : message[m].user = u /\ message[m].code = c
  BY <1>1, MessageShape DEF Earned, RowTypes, WithCode
<1>3. CASE code' = code /\ Finish(m)
  <2>1. UNCHANGED <<authModel, rows, review>>
    BY <1>1, <1>3 DEF rows
  <2> QED
    BY <1>1, <1>3, <2>1, MessagesEnd, MessageMoves
<1>4. CASE /\ code[c].state \in {"open", "expired"}
           /\ code' = [code EXCEPT ![c] = [state |-> "redeemed", by |-> u]]
           /\ GoOn(m, "inserting")
  <2>1. /\ message' = [message EXCEPT ![m] = [message[m] EXCEPT !.pc = "inserting"]]
        /\ message' \in [Messages -> Message \cup {Idle}]
        /\ message'[m] = [pc |-> "inserting", user |-> u, code |-> c]
        /\ message'[m].pc = "inserting" /\ message'[m].user = u /\ message'[m].code = c
    BY <1>1, <1>2, <1>4, MessagesGoOn DEF WithCode
  <2>2. /\ code' \in [Codes -> Code]
        /\ code'[c] = [state |-> "redeemed", by |-> u]
        /\ \A d \in Codes : d # c => code'[d] = code[d]
    BY <1>1, <1>4 DEF Earned, RowTypes, Code
  <2>3. MessageOK(m)'
    BY <2>1, <2>2 DEF MessageOK
  <2>4. CodeOK(c)'
    <3>1. u # None
      BY <1>1, AccessAssumption
    <3>2. code'[c].state = "redeemed" /\ code'[c].by = u
      BY <2>2
    <3>3. \E n \in Messages : message'[n] = [pc |-> "inserting", user |-> code'[c].by, code |-> c]
      BY <2>1, <3>2
    <3> QED
      BY <3>1, <3>2, <3>3 DEF CodeOK
  <2>5. Forward /\ RowTypes'
    BY <1>1, <1>4, <2>1, <2>2 DEF Forward, Earned, RowTypes
  <2>6. \A n \in Messages : n # m => message'[n] = message[n]
    BY <2>1 DEF Earned, RowTypes
  <2> QED
    BY <1>1, <2>2, <2>3, <2>4, <2>5, <2>6 DEF Advance
<1> QED
  BY <1>2, <1>3, <1>4 DEF MarkRedeemed

LEMMA PairedGrantIsInserted ==
  ASSUME Earned, NEW m \in Messages, InsertPaired(m)
  PROVE  Advance
<1> DEFINE u == message[m].user
<1>1. /\ message[m].pc = "inserting" /\ InsertGrant(u, "pairing_code") /\ Finish(m)
      /\ UNCHANGED <<authModel, code, request, review>>
  BY DEF InsertPaired
<1>2. u \in Users /\ message[m].code \in Codes
      /\ code[message[m].code] = [state |-> "redeemed", by |-> u]
  BY <1>1, MessageShape DEF Earned, RowTypes, MessageOK, WithCode
<1>3. /\ message' = [message EXCEPT ![m] = Idle] /\ message' \in [Messages -> Message \cup {Idle}]
      /\ MessageOK(m)'
  BY <1>1, MessagesEnd
<1>4. \A n \in Messages : n # m => message'[n] = message[n]
  BY <1>3 DEF Earned, RowTypes
<1>5. /\ grant' \in [Users -> Grant] /\ grant'[u].state # "none"
      /\ \A v \in Users : grant[v].state # "none" => grant'[v] = grant[v]
      /\ \A v \in Users : grant'[v] # grant[v] => v = u /\ grant'[v].origin = "pairing_code"
  BY <1>1, <1>2, InsertsForward DEF Earned
<1>6. \A v \in Users : grant'[v].origin = grant[v].origin \/ GrantOK(v)'
  BY <1>1, <1>2, <1>5 DEF GrantOK
<1>7. Forward /\ RowTypes'
  BY <1>1, <1>3, <1>5 DEF Forward, Earned, RowTypes
<1> QED
  BY <1>1, <1>3, <1>4, <1>5, <1>6, <1>7 DEF Advance

\* A code that is generated, withdrawn or out of date.
LEMMA CodesMove ==
  ASSUME Earned, NEW c \in Codes, generate(c) \/ revoke(c) \/ CodeExpires(c)
  PROVE  Advance
<1>1. PICK s \in {"open", "expired", "revoked"} : code' = [code EXCEPT ![c] = [code[c] EXCEPT !.state = s]]
  BY DEF generate, revoke, CodeExpires
<1>2. /\ code[c].state \in {"absent", "open", "expired"}
      /\ UNCHANGED <<authModel, grant, request, message, review>>
  BY DEF generate, revoke, CodeExpires
<1>3. code[c] \in Code
  BY DEF Earned, RowTypes
<1>4. /\ [code[c] EXCEPT !.state = s] \in Code /\ [code[c] EXCEPT !.state = s].state = s
      /\ [code[c] EXCEPT !.state = s].by = code[c].by
  BY <1>3 DEF Code
<1>5. /\ code' \in [Codes -> Code] /\ code'[c].state = s /\ code'[c].by = code[c].by
      /\ \A d \in Codes : d # c => code'[d] = code[d]
  BY <1>1, <1>4 DEF Earned, RowTypes
<1>6. CodeOK(c)'
  BY <1>2, <1>5 DEF Earned, CodeOK
<1>7. Forward /\ RowTypes'
  BY <1>2, <1>5 DEF Forward, Earned, RowTypes
<1> QED
  BY <1>2, <1>5, <1>6, <1>7 DEF Advance

\* A grant that runs out, is revoked or given another level.
LEMMA GrantsMove ==
  ASSUME Earned, NEW u \in Users, NEW l \in Valid, GrantExpires(u) \/ RevokeGrant(u) \/ SetLevel(u, l)
  PROVE  Advance
<1>1. PICK s \in Valid \cup {"expired", "revoked"} :
        grant' = [grant EXCEPT ![u] = [grant[u] EXCEPT !.state = s]]
  BY DEF GrantExpires, RevokeGrant, SetLevel
<1>2. /\ grant[u].state # "none"
      /\ UNCHANGED <<authModel, code, request, message, review>>
  BY DEF GrantExpires, RevokeGrant, SetLevel, Valid
<1>3. grant[u] \in Grant
  BY DEF Earned, RowTypes
<1>4. /\ [grant[u] EXCEPT !.state = s] \in Grant /\ [grant[u] EXCEPT !.state = s].state = s
      /\ [grant[u] EXCEPT !.state = s].origin = grant[u].origin
  BY <1>2, <1>3 DEF Grant, NoGrant
<1>5. /\ grant' \in [Users -> Grant] /\ grant'[u].state = s /\ grant'[u].origin = grant[u].origin
      /\ \A v \in Users : v # u => grant'[v] = grant[v]
  BY <1>1, <1>4 DEF Earned, RowTypes
<1>6. s # "none"
  BY DEF Valid
<1>7. Forward /\ RowTypes'
  BY <1>2, <1>5, <1>6 DEF Forward, Earned, RowTypes
<1> QED
  BY <1>2, <1>5, <1>7 DEF Advance

\* A review that begins, or ends, while no row changes.
LEMMA ReviewMoves ==
  ASSUME Earned, NEW o \in Reviews, UNCHANGED <<authModel, rows, message>>,
         NEW x \in Review \cup {Idle}, review' = [review EXCEPT ![o] = x],
         review[o].pc # "approved", ReviewOK(o)'
  PROVE  Advance
  BY DEF Advance, Earned, RowTypes, Forward, rows

LEMMA ReviewsClose ==
  ASSUME Earned, NEW o \in Reviews, Close(o)
  PROVE  /\ review' = [review EXCEPT ![o] = Idle] /\ review'[o] = Idle
         /\ review' \in [Reviews -> Review \cup {Idle}] /\ ReviewOK(o)'
         /\ \A p \in Reviews : p # o => review'[p] = review[p]
  BY MessageTypes DEF Close, Earned, RowTypes, ReviewOK, Decides

LEMMA ReviewsBegin ==
  ASSUME Earned, NEW o \in Reviews, NEW r \in Requests, NEW pc \in {"approving", "denying"},
         BeginReview(o, r, pc)
  PROVE  Advance
<1> DEFINE x == [pc |-> pc, request |-> r, user |-> request[r].user]
<1>1. /\ review[o] = Idle /\ review' = [review EXCEPT ![o] = x] /\ request[r].status = "pending"
      /\ UNCHANGED <<authModel, rows, message>>
  BY DEF BeginReview
<1>2. request[r].user \in Users
  BY <1>1 DEF Earned, RequestOK
<1>3. x \in Review /\ x.pc = pc /\ x.request = r /\ x.user = request[r].user
  BY <1>2, ReviewTypes DEF Decides
<1> HIDE DEF x
<1>4. review'[o] = x /\ request' = request
  BY <1>1 DEF Earned, RowTypes, rows
<1>5. ReviewOK(o)'
  BY <1>1, <1>3, <1>4 DEF ReviewOK
<1>6. review[o].pc # "approved"
  BY <1>1, MessageTypes
<1> QED
  BY <1>1, <1>3, <1>5, <1>6, ReviewMoves

LEMMA InvitationsBegin ==
  ASSUME Earned, NEW o \in Reviews, NEW u \in Users, BeginGrant(o, u)
  PROVE  Advance
<1> DEFINE pc == IF grant[u].state = "none" THEN "inviting" ELSE "reactivating"
           x == [pc |-> pc, user |-> u]
<1>1. /\ review[o] = Idle /\ review' = [review EXCEPT ![o] = x]
      /\ UNCHANGED <<authModel, rows, message>>
  BY DEF BeginGrant
<1>2. x \in Review /\ x.pc = pc /\ pc \in Writes
  BY ReviewTypes DEF Writes
<1> HIDE DEF pc, x
<1>3. review'[o] = x
  BY <1>1 DEF Earned, RowTypes
<1>4. ReviewOK(o)'
  BY <1>2, <1>3 DEF ReviewOK, Decides, Writes
<1>5. review[o].pc # "approved"
  BY <1>1, MessageTypes
<1> QED
  BY <1>1, <1>2, <1>4, <1>5, ReviewMoves

\* What a step does to the requests is what Decided does; the rest is as DecidesForward says.
LEMMA DecisionsForward ==
  ASSUME Earned, NEW o \in Reviews, NEW status \in {"approved", "denied"},
         review[o].pc \in Decides, Decided(o, status), UNCHANGED <<authModel, grant, code, message>>,
         review' \in [Reviews -> Review \cup {Idle}]
  PROVE  Forward /\ RowTypes'
<1>1. /\ request' \in [Requests -> Request]
      /\ \A r \in Requests :
           /\ request'[r].user = request[r].user
           /\ request[r].status # "pending" => request'[r] = request[r]
           /\ request'[r] # request[r] => request'[r].status = status
  BY DecidesForward DEF Earned
<1> QED
  BY <1>1 DEF Forward, Earned, RowTypes

LEMMA RequestIsApproved ==
  ASSUME Earned, NEW o \in Reviews, MarkApproved(o)
  PROVE  Advance
<1> DEFINE r == review[o].request
           u == review[o].user
<1>1. /\ review[o].pc = "approving" /\ Decided(o, "approved")
      /\ UNCHANGED <<authModel, grant, code, message>>
  BY DEF MarkApproved
<1>2. /\ r \in Requests /\ u \in Users
      /\ \A pc \in Decides : [review[o] EXCEPT !.pc = pc] = [pc |-> pc, request |-> r, user |-> u]
  BY <1>1, ReviewShape DEF Earned, RowTypes, Decides
<1>3. request[r].user = u /\ request[r].status # "absent"
  BY <1>1 DEF Earned, ReviewOK, Decides
<1>4. /\ request' \in [Requests -> Request]
      /\ \A q \in Requests :
           /\ request'[q].user = request[q].user
           /\ request[q].status # "pending" => request'[q] = request[q]
           /\ request'[q] # request[q] => q = r /\ request'[q].status = "approved"
      /\ \/ request'[r].status \in {"approved", "denied"}
         \/ request' = request /\ request[r].status = "pending" /\ Taken(u, "approved")
  BY <1>1, DecidesForward DEF Earned, Decides
<1>5. CASE request[r].status = "pending" /\ Taken(u, "approved")
  <2>1. Close(o) /\ request' = request
    BY <1>1, <1>5 DEF MarkApproved, Decided
  <2>2. UNCHANGED <<authModel, rows, message>>
    BY <1>1, <2>1 DEF rows
  <2>3. review' = [review EXCEPT ![o] = Idle] /\ ReviewOK(o)'
    BY <2>1, ReviewsClose
  <2> QED
    BY <1>1, <2>2, <2>3, ReviewMoves
<1>6. CASE ~(request[r].status = "pending" /\ Taken(u, "approved"))
  <2> DEFINE x == [pc |-> "approved", request |-> r, user |-> u]
  <2>1. review' = [review EXCEPT ![o] = x]
    <3>1. review' = [review EXCEPT ![o] = [review[o] EXCEPT !.pc = "approved"]]
      BY <1>6 DEF MarkApproved
    <3>2. [review[o] EXCEPT !.pc = "approved"] = x
      BY <1>2 DEF Decides
    <3> QED
      BY <3>1, <3>2
  <2>2. x \in Review /\ x.pc = "approved" /\ x.request = r /\ x.user = u
    BY <1>2, ReviewTypes DEF Decides
  <2>3. request'[r].status \in {"approved", "denied"}
    BY <1>4, <1>6
  <2> HIDE DEF x
  <2>4. /\ review'[o] = x /\ review' \in [Reviews -> Review \cup {Idle}]
        /\ \A p \in Reviews : p # o => review'[p] = review[p]
    BY <2>1, <2>2 DEF Earned, RowTypes
  <2>5. ReviewOK(o)'
    <3>1. request'[r].user = u
      BY <1>2, <1>3, <1>4
    <3>2. request'[r].status # "absent"
      BY <2>3
    <3> QED
      BY <2>2, <2>3, <2>4, <3>1, <3>2 DEF ReviewOK
  <2>6. ASSUME NEW q \in Requests, request'[q] # request[q] PROVE RequestOK(q)'
    <3>1. q = r /\ request'[q].user = u /\ request'[q].status = "approved"
      BY <1>3, <1>4, <2>6
    <3>2. review'[o] = [pc |-> "approved", request |-> q, user |-> request'[q].user]
      BY <2>4, <3>1 DEF x
    <3> QED
      BY <1>2, <3>1, <3>2 DEF RequestOK
  <2>7. Forward /\ RowTypes'
    BY <1>1, <2>4, DecisionsForward DEF Decides
  <2> QED
    BY <1>1, <2>4, <2>5, <2>6, <2>7 DEF Advance
<1> QED
  BY <1>5, <1>6

LEMMA RequestIsDenied ==
  ASSUME Earned, NEW o \in Reviews, deny(o)
  PROVE  Advance
<1> DEFINE r == review[o].request
<1>1. /\ review[o].pc = "denying" /\ Decided(o, "denied") /\ Close(o)
      /\ UNCHANGED <<authModel, grant, code, message>>
  BY DEF deny
<1>2. /\ review' \in [Reviews -> Review \cup {Idle}] /\ ReviewOK(o)'
      /\ \A p \in Reviews : p # o => review'[p] = review[p]
  BY <1>1, ReviewsClose
<1>3. \A q \in Requests :
        /\ request'[q].user = request[q].user
        /\ request[q].status # "pending" => request'[q] = request[q]
        /\ request'[q] # request[q] => request'[q].status = "denied"
  BY <1>1, DecidesForward DEF Earned, Decides
<1>4. ASSUME NEW q \in Requests, request'[q] # request[q] PROVE RequestOK(q)'
  <2>1. request[q].status = "pending" /\ request[q] \in Request /\ RequestOK(q)
    BY <1>3, <1>4 DEF Earned, RowTypes
  <2> QED
    BY <1>3, <1>4, <2>1 DEF RequestOK
<1>5. Forward /\ RowTypes'
  BY <1>1, <1>2, DecisionsForward DEF Decides
<1> QED
  BY <1>1, <1>2, <1>4, <1>5 DEF Advance

LEMMA ApprovedGrantIsInserted ==
  ASSUME Earned, NEW o \in Reviews, InsertApproved(o)
  PROVE  Advance
<1> DEFINE u == review[o].user
           r == review[o].request
<1>1. /\ review[o].pc = "approved" /\ InsertGrant(u, "approval") /\ Close(o)
      /\ UNCHANGED <<authModel, code, request, message>>
  BY DEF InsertApproved
<1>2. /\ u \in Users /\ r \in Requests
      /\ request[r].user = u /\ request[r].status \in {"approved", "denied"}
  BY <1>1, ReviewShape DEF Earned, RowTypes, ReviewOK, Decides
<1>3. /\ review' \in [Reviews -> Review \cup {Idle}] /\ ReviewOK(o)'
      /\ \A p \in Reviews : p # o => review'[p] = review[p]
  BY <1>1, ReviewsClose
<1>4. /\ grant' \in [Users -> Grant] /\ grant'[u].state # "none"
      /\ \A v \in Users : grant[v].state # "none" => grant'[v] = grant[v]
      /\ \A v \in Users : grant'[v] # grant[v] => v = u /\ grant'[v].origin = "approval"
  BY <1>1, <1>2, InsertsForward DEF Earned
<1>5. \A v \in Users : grant'[v].origin = grant[v].origin \/ GrantOK(v)'
  BY <1>1, <1>2, <1>4 DEF GrantOK
<1>6. Forward /\ RowTypes'
  BY <1>1, <1>3, <1>4 DEF Forward, Earned, RowTypes
<1> QED
  BY <1>1, <1>3, <1>4, <1>5, <1>6 DEF Advance

LEMMA OperatorsGrantIsWritten ==
  ASSUME Earned, NEW o \in Reviews, WriteGrant(o)
  PROVE  Advance
<1> DEFINE u == review[o].user
<1>1. /\ review[o].pc \in {"inviting", "reactivating"} /\ Close(o)
      /\ UNCHANGED <<authModel, code, request, message>>
      /\ grant' = grant \/ \E g \in Invitations : grant' = [grant EXCEPT ![u] = g]
  BY DEF WriteGrant
<1>2. u \in Users
  BY <1>1, ReviewShape DEF Earned, RowTypes, Writes
<1>3. /\ review' \in [Reviews -> Review \cup {Idle}] /\ ReviewOK(o)'
      /\ \A p \in Reviews : p # o => review'[p] = review[p]
  BY <1>1, ReviewsClose
<1>4. /\ grant' \in [Users -> Grant]
      /\ \A v \in Users : grant'[v] = grant[v]
                          \/ (grant'[v].origin = "dashboard_invite" /\ grant'[v].state \in Valid)
  <2>1. CASE grant' = grant
    BY <2>1 DEF Earned, RowTypes
  <2>2. ASSUME NEW g \in Invitations, grant' = [grant EXCEPT ![u] = g]
        PROVE <1>4
    <3>1. g \in Grant /\ g.origin = "dashboard_invite" /\ g.state \in Valid
      BY DEF Invitations, Grant
    <3> QED
      BY <1>2, <2>2, <3>1 DEF Earned, RowTypes
  <2> QED
    BY <1>1, <2>1, <2>2
<1>5. \A v \in Users : grant'[v].origin = grant[v].origin \/ GrantOK(v)'
  BY <1>4 DEF GrantOK
<1>6. Forward /\ RowTypes'
  BY <1>1, <1>3, <1>4 DEF Forward, Earned, RowTypes, Valid
<1> QED
  BY <1>1, <1>3, <1>4, <1>5, <1>6 DEF Advance

-----------------------------------------------------------------------------
(* The theorems. *)

LEMMA StepsAdvance ==
  ASSUME Earned, Next
  PROVE  Advance
<1>1. ASSUME NEW m \in Messages, MessageStep(m) PROVE Advance
  BY <1>1, MessagesProceed, RequestIsCreated, AutoGrantIsInserted, CodeIsMarked, PairedGrantIsInserted
     DEF MessageStep
<1>2. ASSUME NEW m \in Messages, NEW u \in Users, Receive(m, u) \/ \E c \in Codes : Redeem(m, u, c)
      PROVE  Advance
  BY <1>2, MessagesBegin
<1>3. ASSUME NEW o \in Reviews, ReviewStep(o) PROVE Advance
  BY <1>3, RequestIsApproved, ApprovedGrantIsInserted, RequestIsDenied, OperatorsGrantIsWritten
     DEF ReviewStep
<1>4. ASSUME NEW o \in Reviews, NEW r \in Requests, BeginReview(o, r, "approving") \/ BeginReview(o, r, "denying")
      PROVE  Advance
  BY <1>4, ReviewsBegin
<1>5. ASSUME NEW o \in Reviews, NEW u \in Users, BeginGrant(o, u) PROVE Advance
  BY <1>5, InvitationsBegin
<1>6. ASSUME NEW c \in Codes, generate(c) \/ revoke(c) \/ CodeExpires(c) PROVE Advance
  BY <1>6, CodesMove
<1>7. ASSUME NEW u \in Users, GrantExpires(u) \/ RevokeGrant(u) \/ \E l \in Valid : SetLevel(u, l)
      PROVE  Advance
  <2>1. "read" \in Valid
    BY DEF Valid
  <2> QED
    BY <1>7, <2>1, GrantsMove
<1> QED
  BY <1>1, <1>2, <1>3, <1>4, <1>5, <1>6, <1>7 DEF Next

LEMMA NothingIsEarnedYet ==
  Init => Earned
<1> SUFFICES ASSUME Init PROVE Earned
  OBVIOUS
<1>1. RowTypes
  BY DEF Init, RowTypes, Grant, NoGrant, Code, Request
<1>2. \A m \in Messages : MessageOK(m)
  BY MessageTypes DEF Init, MessageOK
<1>3. \A o \in Reviews : ReviewOK(o)
  BY MessageTypes DEF Init, ReviewOK, Decides
<1>4. /\ \A c \in Codes : CodeOK(c)
      /\ \A r \in Requests : RequestOK(r)
      /\ \A u \in Users : GrantOK(u)
  BY DEF Init, CodeOK, RequestOK, GrantOK, NoGrant
<1> QED
  BY <1>1, <1>2, <1>3, <1>4 DEF Earned

\* At every moment of the calls under way the rows are earned: Earned is inductive.
THEOREM EarnedHolds ==
  Spec => []Earned
<1>1. Init => Earned
  BY NothingIsEarnedYet
<1>2. Earned /\ [Next]_vars => Earned'
  <2> SUFFICES ASSUME Earned, [Next]_vars PROVE Earned'
    OBVIOUS
  <2>1. CASE Next
    BY <2>1, StepsAdvance, AdvancesKeep
  <2>2. CASE UNCHANGED vars
    BY <2>2 DEF Earned, RowTypes, MessageOK, ReviewOK, CodeOK, RequestOK, GrantOK, vars, rows
  <2> QED
    BY <2>1, <2>2
<1> QED
  BY <1>1, <1>2, PTL DEF Spec

\* Redemptions, approvals and messages race each other and the operators' calls, and yet no
\* code is spent, nobody approved and no message admitted without a grant, and every grant
\* has the origin it names.
THEOREM GrantsHold ==
  Spec => []GrantsAreEarned
  BY EarnedHolds, EarnedIsEnough, PTL

\* A revoked grant is given back by an operator's reactivation and by no other statement.
THEOREM RevokedStays ==
  Spec => RevocationHolds
<1> DEFINE Reactivated(u) == \E o \in Reviews : review[o] = [pc |-> "reactivating", user |-> u]
           Holds == \A u \in Users : grant[u].state = "revoked" /\ grant'[u].state # "revoked" => Reactivated(u)
<1>1. Earned /\ [Next]_vars => [Holds]_vars
  <2> SUFFICES ASSUME Earned, Next, NEW u \in Users, grant[u].state = "revoked", grant'[u].state # "revoked"
               PROVE  Reactivated(u)
    OBVIOUS
  <2>1. ASSUME NEW v \in Users, NEW origin \in {"pairing_code", "auto", "approval"}, InsertGrant(v, origin)
        PROVE  FALSE
    BY <2>1, InsertsForward DEF Earned
  <2>2. ASSUME NEW m \in Messages, MessageStep(m)
        PROVE  FALSE
    <3>1. message[m].pc \in {"granting", "inserting"} => message[m].user \in Users
      BY MessageShape DEF Earned, RowTypes, Plain, WithCode
    <3> QED
      BY <2>1, <2>2, <3>1 DEF MessageStep, authorize, CreateRequest, AutoInsert, AutoSelect, Continue,
         ReadCode, MarkRedeemed, InsertPaired, rows
  <2>3. ASSUME NEW o \in Reviews, ReviewStep(o)
        PROVE  Reactivated(u)
    <3>1. CASE MarkApproved(o) \/ deny(o)
      BY <3>1 DEF MarkApproved, deny
    <3>2. CASE InsertApproved(o)
      <4>1. review[o].user \in Users
        BY <3>2, ReviewShape DEF InsertApproved, Earned, RowTypes, Decides
      <4> QED
        BY <2>1, <3>2, <4>1 DEF InsertApproved
    <3>3. CASE WriteGrant(o)
      <4>1. review[o].pc \in Writes
        BY <3>3 DEF WriteGrant, Writes
      <4>2. review[o].user \in Users /\ review[o] = [pc |-> review[o].pc, user |-> review[o].user]
        BY <4>1, ReviewShape DEF Earned, RowTypes
      <4>3. grant' # grant
        BY DEF Earned, RowTypes
      <4>4. \E g \in Invitations : grant' = [grant EXCEPT ![review[o].user] = g]
        BY <3>3, <4>3 DEF WriteGrant
      <4>5. u = review[o].user
        BY <4>2, <4>4 DEF Earned, RowTypes
      <4>6. review[o].pc = "reactivating"
        BY <3>3, <4>3, <4>5 DEF WriteGrant
      <4> QED
        BY <4>2, <4>5, <4>6
    <3> QED
      BY <2>3, <3>1, <3>2, <3>3 DEF ReviewStep
  <2>4. ASSUME NEW v \in Users, GrantExpires(v) \/ RevokeGrant(v) \/ \E l \in Valid : SetLevel(v, l)
        PROVE  FALSE
    <3>1. grant \in [Users -> Grant]
      BY DEF Earned, RowTypes
    <3> QED
      BY <2>4, <3>1 DEF GrantExpires, RevokeGrant, SetLevel, Valid
  <2> QED
    BY <2>2, <2>3, <2>4 DEF Next, Receive, Redeem, BeginReview, BeginGrant, generate, revoke, CodeExpires, rows
<1> QED
  BY <1>1, EarnedHolds, PTL DEF Spec, RevocationHolds

\* Decisions of reviewers, redemptions and withdrawals of codes are never undone.
THEOREM DecisionsStay ==
  Spec => DecisionsAreFinal
<1>1. Earned /\ [Next]_vars =>
        [/\ \A r \in Requests : request[r].status \in {"approved", "denied"} => request'[r] = request[r]
         /\ \A c \in Codes : code[c].state \in {"redeemed", "revoked"} => code'[c] = code[c]]_vars
  BY StepsAdvance DEF Advance, Forward
<1> QED
  BY <1>1, EarnedHolds, PTL DEF Spec, DecisionsAreFinal
=============================================================================
