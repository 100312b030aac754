---------------------------- MODULE SettingsPage ----------------------------
(*****************************************************************************)
(* The settings page: the channels of the platform and the agents bound to   *)
(* them, and the popup that connects a provider. The parts share no state.   *)
(*****************************************************************************)
EXTENDS Naturals, FiniteSets

(*****************************************************************************)
(* Channels of one type, as operators create, switch and remove them in the  *)
(* settings while chats are bound to agents: the requests of the page and    *)
(* the statements of the routes behind them.                                 *)
(*****************************************************************************)

CONSTANTS
  Channels,  \* rows of channel_config, each used once
  NoChannel,
  Chats,     \* chats of this channel type
  Names,     \* names of channels
  Creators   \* "page", and others who create channels

ASSUME ChannelAssumption ==
  NoChannel \notin Channels /\ "page" \in Creators /\ Names \cap {"none", "gone"} = {}

VARIABLES
  named,     \* per row its name; "none" before it is inserted and "gone" after it is deleted
  enabled,   \* rows that are enabled
  bindings,  \* chats bound to an agent
  making,    \* per creator the name that was found free
  chanList,  \* the rows that the page lists, with what it knows of them
  confirm,   \* deleteConfirm: the row, and whether the dialog shows a conflict
  removing   \* the deletion under way: row, force, next statement or answer

deskOfChannels == <<named, enabled, bindings, making, chanList, confirm, removing>>

chanRows == <<named, enabled>>

NoConfirm == <<NoChannel, FALSE>>
NotRemoving == <<NoChannel, FALSE, "none">>
Nothing == [ids |-> {}, on |-> {}]

ChannelsInit ==
  /\ named = [c \in Channels |-> "none"] /\ enabled = {} /\ bindings = {}
  /\ making = [o \in Creators |-> "none"] /\ chanList = Nothing
  /\ confirm = NoConfirm /\ removing = NotRemoving

Rows == {c \in Channels : named[c] \in Names}
findByTypeName(n) == {c \in Rows : named[c] = n}

--------------------------------------------------------------------------------
\* What the page offers.

\* Its cards are there unless a dialog covers them.
Card(c) == c \in chanList.ids /\ confirm = NoConfirm

\* The form refuses a name that the page lists.
isDuplicate(n) == \E c \in chanList.ids : named[c] = n

\* GET /channels
fetchChannels ==
  /\ chanList' = [ids |-> Rows, on |-> enabled] /\ chanList' # chanList
  /\ UNCHANGED <<chanRows, bindings, making, confirm, removing>>

\* "Remove" asks first; the dialog can't be left while its request is under way.
AskRemove(c) ==
  /\ Card(c) /\ confirm' = <<c, FALSE>> /\ UNCHANGED <<chanRows, bindings, making, chanList, removing>>

ConfirmDialog == confirm # NoConfirm /\ removing = NotRemoving

LeaveDialog == ConfirmDialog /\ confirm' = NoConfirm /\ UNCHANGED <<chanRows, bindings, making, chanList, removing>>

\* Mutant: the first request already says force.
handleDeleteForced ==
  /\ ConfirmDialog /\ removing' = <<confirm[1], TRUE, "read">>
  /\ UNCHANGED <<chanRows, bindings, making, chanList, confirm>>

\* Confirmed once without force; with it when the dialog shows the conflict.
handleDelete ==
  /\ ConfirmDialog /\ removing' = <<confirm[1], confirm[2], "read">>
  /\ UNCHANGED <<chanRows, bindings, making, chanList, confirm>>

\* The page switches to the opposite of what it lists.
handleToggle(c) ==
  /\ Card(c) /\ enabled' = (IF c \in chanList.on THEN enabled \ {c} ELSE enabled \cup {c}) \cap Rows
  /\ UNCHANGED <<named, bindings, making, chanList, confirm, removing>>

--------------------------------------------------------------------------------
\* Creation.

\* POST /channels: a name is looked for; a telegram bot's identity is fetched meanwhile.
CreateChannel(o, n) ==
  /\ making[o] = "none" /\ findByTypeName(n) = {} /\ (o = "page" => ~isDuplicate(n))
  /\ making' = [making EXCEPT ![o] = n] /\ UNCHANGED <<chanRows, bindings, chanList, confirm, removing>>

\* Mutant: there is no unique index on type and name.
InsertChannelTwice(o) ==
  /\ making[o] # "none" /\ making' = [making EXCEPT ![o] = "none"]
  /\ \E c \in Channels : named[c] = "none" /\ named' = [named EXCEPT ![c] = making[o]] /\ enabled' = enabled \cup {c}
  /\ UNCHANGED <<bindings, chanList, confirm, removing>>

\* The insertion throws when the name has been taken since.
InsertChannel(o) ==
  /\ making[o] # "none" /\ making' = [making EXCEPT ![o] = "none"]
  /\ IF findByTypeName(making[o]) = {}
     THEN \E c \in Channels : named[c] = "none" /\ named' = [named EXCEPT ![c] = making[o]] /\ enabled' = enabled \cup {c}
     ELSE UNCHANGED chanRows
  /\ UNCHANGED <<bindings, chanList, confirm, removing>>

--------------------------------------------------------------------------------
\* Bindings.

bindChannel(h) == bindings' = bindings \cup {h} /\ UNCHANGED <<chanRows, making, chanList, confirm, removing>>
unbindById(h) == h \in bindings /\ bindings' = bindings \ {h} /\ UNCHANGED <<chanRows, making, chanList, confirm, removing>>

\* The page binds a chat from the card of a channel, with the dialog for it, and unbinds it there.
handleBind(h) == (\E c \in Channels : Card(c)) /\ bindChannel(h)
handleUnbindFromChannel(h) == (\E c \in Channels : Card(c)) /\ unbindById(h)

\* POST and DELETE /agents/:agentId/channels by others: no channel of the type need be there.
BindAnyChat(h) == bindChannel(h)
UnbindAnyChat(h) == unbindById(h)

--------------------------------------------------------------------------------
\* DELETE /channels/:id, as the page asks for it.

RemovalGoes(at) == removing' = [removing EXCEPT ![3] = at]

CheckRemoval ==
  /\ removing[3] = "read"
  /\ IF removing[1] \notin Rows THEN RemovalGoes("not_found")
     ELSE IF bindings = {} THEN RemovalGoes("delete")
     ELSE IF removing[2] THEN RemovalGoes("unbind") ELSE RemovalGoes("conflict")
  /\ UNCHANGED <<chanRows, bindings, making, chanList, confirm>>

\* All bindings of the type go, those of its other channels too.
removeBindingsByChannelType ==
  /\ removing[3] = "unbind" /\ RemovalGoes("delete") /\ bindings' = {}
  /\ UNCHANGED <<chanRows, making, chanList, confirm>>

DeleteChannel ==
  /\ removing[3] = "delete"
  /\ IF removing[1] \in Rows
     THEN named' = [named EXCEPT ![removing[1]] = "gone"] /\ enabled' = enabled \ {removing[1]} /\ RemovalGoes("deleted")
     ELSE RemovalGoes("not_found") /\ UNCHANGED chanRows
  /\ UNCHANGED <<bindings, making, chanList, confirm>>

\* A conflict turns the dialog into that of a forced removal; an error leaves it as it is.
RemovalAnswered ==
  /\ removing[3] \in {"not_found", "conflict", "deleted"} /\ removing' = NotRemoving
  /\ confirm' = CASE removing[3] = "conflict" -> <<removing[1], TRUE>>
                  [] removing[3] = "deleted" -> NoConfirm
                  [] OTHER -> confirm
  /\ UNCHANGED <<chanRows, bindings, making, chanList>>

\* Someone else removes a channel no chat is bound to.
OthersRemove(c) ==
  /\ c \in Rows /\ bindings = {} /\ named' = [named EXCEPT ![c] = "gone"] /\ enabled' = enabled \ {c}
  /\ UNCHANGED <<bindings, making, chanList, confirm, removing>>

ChannelsNext ==
  \/ fetchChannels \/ LeaveDialog \/ handleDelete \/ CheckRemoval \/ removeBindingsByChannelType
  \/ DeleteChannel \/ RemovalAnswered
  \/ \E c \in Channels : AskRemove(c) \/ handleToggle(c) \/ OthersRemove(c)
  \/ \E h \in Chats : handleBind(h) \/ handleUnbindFromChannel(h) \/ BindAnyChat(h) \/ UnbindAnyChat(h)
  \/ \E o \in Creators : InsertChannel(o) \/ \E n \in Names : CreateChannel(o, n)

--------------------------------------------------------------------------------
\* A name is given to one channel, though its check and its insertion are apart.
OneOfAName == \A n \in Names : Cardinality(findByTypeName(n)) <= 1

\* The page never detaches several chats unless its dialog shows the conflict of the very
\* channel it removes.
DetachedAreWarned ==
  [][Cardinality(bindings \ bindings') > 1 => confirm = <<removing[1], TRUE>>]_deskOfChannels

-----------------------------------------------------------------------------

(*****************************************************************************)
(* Connecting providers on the settings page: flows with a popup window that *)
(* is polled, time-outs, the paste of a code as the way out, and flows that  *)
(* go on after they were cancelled or overtaken.                             *)
(*****************************************************************************)

CONSTANTS
  Flows,   \* calls of startFlow
  NoFlow

ASSUME PopupAssumption == NoFlow \notin Flows

VARIABLES
  popupStatus, \* what the hook reports: "idle", "waiting", "fallback", "success"
  context,     \* the flow whose verifier and state fallbackContext holds
  dialogFor,   \* popupProvider of the page
  stage,       \* per flow how far it is
  intervals,   \* flows whose poll runs
  nets,        \* flows whose safety net runs
  timerRef,    \* the interval, and the safety net, that cleanup() knows of
  netRef,
  window,      \* flows whose handle is the popup that is open
  landed,      \* the flow whose redirect the popup shows
  pasted,      \* a pasted code under way: its provider and the flow of its verifier
  connected,   \* providers with a credential
  credList,    \* those that the page lists
  leaving      \* provider whose disconnection is being confirmed

popupVars == <<popupStatus, context, dialogFor, stage, intervals, nets, timerRef, netRef,
               window, landed, pasted, connected, credList, leaving>>

timers == <<intervals, nets, timerRef, netRef>>
server == <<connected, credList, leaving>>

Providers == {"google", "anthropic"}
shouldSkipOAuthPopup(p) == p = "anthropic"
NotPasting == <<"none", NoFlow>>

PopupInit ==
  /\ popupStatus = "idle" /\ context = NoFlow /\ dialogFor = "none" /\ stage = [f \in Flows |-> <<"none", "none">>]
  /\ intervals = {} /\ nets = {} /\ timerRef = NoFlow /\ netRef = NoFlow
  /\ window = {} /\ landed = NoFlow /\ pasted = NotPasting
  /\ connected = {} /\ credList = {} /\ leaving = "none"

\* The dialog covers the page while a flow waits or asks for a code.
Dialog == dialogFor # "none" /\ popupStatus \in {"waiting", "fallback"}

\* The row of a provider offers "Connect", or "Disconnect" for one that is listed.
ProviderRow(p) == IF Dialog \/ leaving # "none" THEN "covered" ELSE IF p \in credList THEN "disconnect" ELSE "connect"

cleanup ==
  /\ intervals' = intervals \ {timerRef} /\ timerRef' = NoFlow
  /\ nets' = nets \ {netRef} /\ netRef' = NoFlow

\* A waiting flow falls back; any other status stays.
FallBack == popupStatus' = IF popupStatus = "waiting" THEN "fallback" ELSE popupStatus

At(f, s) == stage[f][1] = s
Move(f, s) == stage' = [stage EXCEPT ![f][1] = s]

--------------------------------------------------------------------------------
\* A flow.

\* cancel(), then the control plane is asked for the address and the verifier.
startFlow(f, p) ==
  /\ At(f, "none") /\ ProviderRow(p) = "connect"
  /\ cleanup /\ window' = {} /\ context' = NoFlow /\ popupStatus' = "waiting" /\ dialogFor' = p
  /\ stage' = [stage EXCEPT ![f] = <<"init", p>>] /\ UNCHANGED <<landed, pasted, server>>

InitFails(f) ==
  /\ At(f, "init") /\ Move(f, "over") /\ popupStatus' = "idle"
  /\ UNCHANGED <<context, dialogFor, timers, window, landed, pasted, server>>

\* Providers that only know codes, and a popup that is blocked: the code is to be pasted.
ToPaste(f) ==
  /\ At(f, "init") /\ Move(f, "over") /\ context' = f /\ popupStatus' = "fallback"
  /\ UNCHANGED <<dialogFor, timers, window, landed, pasted, server>>

\* The popup has one name: a second flow loads its page into the window that is open.
OpenPopup(f) ==
  /\ At(f, "init") /\ ~shouldSkipOAuthPopup(stage[f][2]) /\ Move(f, "open") /\ context' = f
  /\ window' = window \cup {f} /\ landed' = NoFlow
  /\ intervals' = intervals \cup {f} /\ timerRef' = f /\ nets' = nets \cup {f} /\ netRef' = f
  /\ UNCHANGED <<popupStatus, dialogFor, pasted, server>>

\* The user closes the popup, or the provider sends it back to localhost.
UserCloses == window # {} /\ window' = {} /\ landed' = NoFlow /\ UNCHANGED <<popupStatus, context, dialogFor, stage, timers, pasted, server>>
Redirected(f) ==
  /\ f = context /\ f \in window /\ landed = NoFlow /\ landed' = f
  /\ UNCHANGED <<popupStatus, context, dialogFor, stage, timers, window, pasted, server>>

\* Mutant: a popup that was closed only ends the poll.
TickClosedQuietly(f) ==
  /\ f \in intervals /\ f \notin window /\ cleanup
  /\ UNCHANGED <<popupStatus, context, dialogFor, stage, window, landed, pasted, server>>

\* The poll sees the popup closed.  What it clears is the newest poll, its own or not.
TickClosed(f) ==
  /\ f \in intervals /\ f \notin window /\ cleanup /\ FallBack
  /\ UNCHANGED <<context, dialogFor, stage, window, landed, pasted, server>>

TickTimedOut(f) ==
  /\ f \in intervals /\ f \in window /\ cleanup /\ popupStatus' = "fallback"
  /\ UNCHANGED <<context, dialogFor, stage, window, landed, pasted, server>>

\* The poll sees the redirect: its code is exchanged, with the verifier of the poll's own flow.
TickLanded(f) ==
  /\ f \in intervals /\ f \in window /\ landed # NoFlow /\ cleanup /\ window' = {} /\ landed' = NoFlow
  /\ Move(f, IF landed = f THEN "exchange" ELSE "mismatch") /\ popupStatus' = "waiting"
  /\ UNCHANGED <<context, dialogFor, pasted, server>>

SafetyNet(f) ==
  /\ f \in nets /\ nets' = nets \ {f} /\ intervals' = intervals \ {timerRef} /\ timerRef' = NoFlow /\ FallBack
  /\ UNCHANGED <<netRef, context, dialogFor, stage, window, landed, pasted, server>>

Exchanged(f) ==
  /\ At(f, "exchange") /\ Move(f, "over") /\ popupStatus' = "success" /\ context' = NoFlow
  /\ connected' = connected \cup {stage[f][2]} /\ UNCHANGED <<dialogFor, timers, window, landed, pasted, credList, leaving>>

ExchangeFails(f) ==
  /\ stage[f][1] \in {"exchange", "mismatch"} /\ Move(f, "over") /\ popupStatus' = "fallback"
  /\ UNCHANGED <<context, dialogFor, timers, window, landed, pasted, server>>

--------------------------------------------------------------------------------
\* The page.

Cancelled == cleanup /\ window' = {} /\ landed' = NoFlow /\ popupStatus' = "idle" /\ context' = NoFlow /\ dialogFor' = "none"

Cancel == Dialog /\ Cancelled /\ UNCHANGED <<stage, pasted, server>>

\* The code goes to the provider of the dialog with whatever verifier is at hand.
submitCodePaste ==
  /\ Dialog /\ popupStatus = "fallback" /\ context # NoFlow /\ pasted = NotPasting
  /\ pasted' = <<dialogFor, context>>
  /\ UNCHANGED <<popupStatus, context, dialogFor, stage, timers, window, landed, server>>

PasteAnswered ==
  /\ pasted # NotPasting /\ pasted' = NotPasting
  /\ \/ /\ stage[pasted[2]][2] = pasted[1] /\ connected' = connected \cup {pasted[1]}
        /\ Cancelled /\ UNCHANGED <<stage, credList, leaving>>
     \/ UNCHANGED <<popupStatus, context, dialogFor, stage, timers, window, landed, server>>

\* The list as it is when it is read again.
fetchData == credList # connected /\ credList' = connected /\ UNCHANGED <<popupStatus, context, dialogFor, stage, timers, window, landed, pasted, connected, leaving>>

AskDisconnect(p) ==
  /\ ProviderRow(p) = "disconnect" /\ leaving' = p
  /\ UNCHANGED <<popupStatus, context, dialogFor, stage, timers, window, landed, pasted, connected, credList>>

\* Confirmed, refused by the server, or not confirmed: the question is closed.
handleDeleteCredential ==
  /\ leaving # "none" /\ leaving' = "none" /\ connected' \in {connected, connected \ {leaving}}
  /\ UNCHANGED <<popupStatus, context, dialogFor, stage, timers, window, landed, pasted, credList>>

PopupNext ==
  \/ UserCloses \/ Cancel \/ submitCodePaste \/ PasteAnswered \/ fetchData \/ handleDeleteCredential
  \/ \E p \in Providers : AskDisconnect(p) \/ \E f \in Flows : startFlow(f, p)
  \/ \E f \in Flows :
       \/ InitFails(f) \/ ToPaste(f) \/ OpenPopup(f) \/ Redirected(f) \/ TickClosed(f) \/ TickTimedOut(f)
       \/ TickLanded(f) \/ SafetyNet(f) \/ Exchanged(f) \/ ExchangeFails(f)

--------------------------------------------------------------------------------
\* The page never waits for nothing: while it shows that it waits there is an answer, a poll
\* or a safety net that will end it, whatever flows were cancelled or overtaken before.
WaitingIsAwaited ==
  popupStatus = "waiting" =>
    intervals \cup nets # {} \/ \E f \in Flows : stage[f][1] \in {"init", "exchange", "mismatch"}
=============================================================================
