----------------------------- MODULE MCConsole -----------------------------
(***************************************************************************)
(* The instance of the console's parts for TLC: the pages, requests and    *)
(* the routes and services behind them.  They share no state here: a       *)
(* behaviour moves one of them, its part, and the others rest where they   *)
(* start.                                                                  *)
(***************************************************************************)
EXTENDS ApiClient, AgentAdmin, ChatView, ApprovalDesk, SettingsPage, ToolSecrets, ModelContract,
  Capabilities, AgentPages, JobPages, McpDeploys, SkillIndex

VARIABLE part

Parts == {"query", "call", "admin", "chat", "desk", "popup", "secrets", "channels",
          "contract", "guard", "delegate", "forms", "page", "agentforms", "users", "jobs",
          "drawer", "mcppage", "cluster", "skills"}

Init ==
  /\ part \in Parts
  /\ QueryInit
  /\ part # "query" => filter = 1
  /\ CallInit
  /\ part # "call" => endpoint = "listAgents"
  /\ AdminInit
  /\ ChatViewInit
  /\ part # "chat" => chat = [i \in ChatIds |-> "none"]
  /\ DeskInit
  /\ PopupInit
  /\ SecretsInit
  /\ ChannelsInit
  /\ ContractInit
  /\ part # "contract" => capable = {} /\ ~apiKeyEnv
  /\ GuardInit
  /\ DelegationInit
  /\ part # "delegate" => parentTools = {} /\ parentScope = [k \in ScopeKeys |-> Missing]
  /\ FormsInit
  /\ PageInit
  /\ AgentFormsInit
  /\ UsersInit
  /\ part # "users" => grant = [u \in Users |-> "none"]
  /\ JobsDeskInit
  /\ part # "jobs" => jobStatus = "RUNNING"
  /\ DrawerInit
  /\ McpPageInit
  /\ part # "mcppage" => mcpRow = "c1"
  /\ ClusterInit
  /\ SkillInit
  /\ part # "skills" => agentTools = {} /\ skillFile = [k \in SkillFiles |-> NoFile]

Next ==
  /\ part' = part
  /\ part # "query" => UNCHANGED queryVars
  /\ part # "call" => UNCHANGED callVars
  /\ part # "admin" => UNCHANGED adminVars
  /\ part # "chat" => UNCHANGED viewVars
  /\ part # "desk" => UNCHANGED deskVars
  /\ part # "popup" => UNCHANGED popupVars
  /\ part # "secrets" => UNCHANGED secretVars
  /\ part # "channels" => UNCHANGED deskOfChannels
  /\ part # "contract" => UNCHANGED contractVars
  /\ part # "guard" => UNCHANGED guardVars
  /\ part # "delegate" => UNCHANGED delegationVars
  /\ part # "forms" => UNCHANGED formVars
  /\ part # "page" => UNCHANGED pageVars
  /\ part # "agentforms" => UNCHANGED agentFormVars
  /\ part # "users" => UNCHANGED usersVars
  /\ part # "jobs" => UNCHANGED jobsDeskVars
  /\ part # "drawer" => UNCHANGED drawerVars
  /\ part # "mcppage" => UNCHANGED mcpPageVars
  /\ part # "cluster" => UNCHANGED clusterVars
  /\ part # "skills" => UNCHANGED skillVars
  /\ \/ part = "query" /\ QueryNext
     \/ part = "call" /\ CallNext
     \/ part = "admin" /\ AdminNext
     \/ part = "chat" /\ ChatViewNext
     \/ part = "desk" /\ DeskNext
     \/ part = "popup" /\ PopupNext
     \/ part = "secrets" /\ SecretsNext
     \/ part = "channels" /\ ChannelsNext
     \/ part = "contract" /\ ContractNext
     \/ part = "guard" /\ GuardNext
     \/ part = "delegate" /\ DelegationNext
     \/ part = "forms" /\ FormsNext
     \/ part = "page" /\ PageNext
     \/ part = "agentforms" /\ AgentFormsNext
     \/ part = "users" /\ UsersNext
     \/ part = "jobs" /\ JobsDeskNext
     \/ part = "drawer" /\ DrawerNext
     \/ part = "mcppage" /\ McpPageNext
     \/ part = "cluster" /\ ClusterNext
     \/ part = "skills" /\ SkillNext

Spec == Init /\ [][Next]_<<part, queryVars, callVars, adminVars, viewVars, deskVars, popupVars, secretVars,
      deskOfChannels, contractVars, guardVars, delegationVars, formVars, pageVars,
      agentFormVars, usersVars, jobsDeskVars, drawerVars, mcpPageVars, clusterVars,
      skillVars>>

\* A page shows what its user picked, and no page waits for what will not come: whatever
\* order the answers of requests, polls and loads arrive in.
PagesAreCurrent ==
  /\ QueryTypeOK /\ LoadingAwaits /\ ShownIsWanted /\ InputIsFreed /\ TextIsKept
  /\ DrawerIsOfPicked /\ WaitingIsAwaited /\ TickedUnderServer /\ PagedUnderFilter
  /\ UntouchedIsShown /\ UntouchedFollows

\* A dialog that asks for a decision stands as long as the decision is open, over what it was
\* opened for.
DialogsStand ==
  /\ DialogFitsStatus /\ ModalStands /\ InviteStands /\ ConfirmStands /\ DeletionStands
  /\ RetryIsOfFailed

\* What a user is told of a request is what became of it, although requests are repeated, cut
\* off, overtaken and decided by others.
OutcomesAreTold ==
  /\ CallTypeOK /\ OutcomeIsTrue /\ AnswerIsSaved /\ ToldIsDecided /\ BoundOrTold
  /\ RetriedIsQueued /\ FailureIsExplained /\ KeysAreAskedFor

\* What the routes and services leave behind fits together: agents and sessions, decisions and
\* their trail, secrets and their log, channels, model configurations, bound tools and their
\* limits, skills, deployed servers.
RowsAreSound ==
  /\ AdminTypeOK /\ CondemnedAfresh /\ ArchivedIsEmpty /\ TrailIsTrue /\ AccessIsLogged
  /\ BoundExists /\ OneOfAName /\ ConfigIsCapable /\ ReadyRuns /\ BarredNeverRuns
  /\ OverrunIsBounded /\ DelegatedIsOwned /\ ActiveIsItsOwn /\ NothingIsLeft
  /\ FreshIsTrue /\ TaskIsNarrowed

\* Nothing happens behind a user's back: a caller that gave up sends nothing, chats are detached
\* after a warning, access withdrawn stays so, a job runs on what is bound, and is offered the
\* skills there are.
OnlyAsAsked ==
  /\ NothingAfterAbort /\ DetachedAreWarned /\ ResolvedIsBound /\ WithdrawnStays
  /\ SettledIsOffered
=============================================================================
