----------------------------- MODULE MCClients -----------------------------
(***************************************************************************)
(* The plugins of the OpenCode server and of its TUI, the services beside  *)
(* them and the web client, one component at a time.  The components share *)
(* no state (each talks to the server, never to another one of these), so  *)
(* a run of any of them is a run of its own module: the variable scene     *)
(* names the component that runs and the others keep their initial values. *)
(* The states checked are the sum of the components' states, not their     *)
(* product, and every component is checked in full.                        *)
(***************************************************************************)
EXTENDS RequestGate, TurnContext, FallbackBodies, GoalLoop, ManagedRegistry, DndWait,
        DndTables, McpRecovery, ModelTransition, ChatHistory, PromptQueue,
        SessionList, Composer, QuestionCard, PanelRefresh, ProjectSettings,
        AgentModel, LimitsFeed, HardwareTurn, PanelDock, McpExposure,
        WebServerControl, LocationRecovery, UiEnhancements, PlanViews,
        DndServices, PageViews, PermissionBanner, ModalHistory

\* An ordinary session s1 with a main and an auxiliary request, and another one.
GateRequestsC == {[session |-> "s1", primary |-> TRUE, id |-> 1],
                  [session |-> "s1", primary |-> FALSE, id |-> 2],
                  [session |-> "s2", primary |-> TRUE, id |-> 4]}

\* Two attempts of one origin in a session, and one of another session.
AttemptsC == {[session |-> "s1", origin |-> "o1", id |-> 1],
              [session |-> "s1", origin |-> "o1", id |-> 2],
              [session |-> "s2", origin |-> "o3", id |-> 4]}

\* The profile p enables both tools, q only y; kid is a session under root.
ToolsOfC == [p \in {"p", "q"} |-> IF p = "p" THEN {"x", "y"} ELSE {"y"}]
ParentOfC == [s \in {"root", "kid"} |-> IF s = "kid" THEN "root" ELSE "nobody"]

\* The service is not installed, or installed, running and started with the machine.
FoundServicesC == {[deployed |-> FALSE, running |-> FALSE, autostart |-> FALSE],
                   [deployed |-> TRUE, running |-> TRUE, autostart |-> FALSE]}

\* Every permission request is of chat a.
AskChatC == [r \in {"o"} |-> "a"]

\* Two copies of codex on the path.
CopiesC == <<"local", "system">>

-----------------------------------------------------------------------------
VARIABLE scene \* the component that runs

Scenes ==
  {"gate", "context", "fallback", "goal", "goalWatch", "registry", "dndWait",
   "dndTables", "mcp", "switch", "history", "queue", "list", "composer", "question",
   "panel", "settings", "agent", "limits", "retry", "baseline", "hardware",
   "transition", "dock", "exposure", "webServer", "location", "slash", "picker",
   "folder", "plan", "view", "art", "route", "skill", "follow", "recall", "probe",
   "pull", "target", "trace", "custom", "permission", "modal", "awake", "cli",
   "handover", "git", "poller"}

\* The components that do not run keep their state.
Rest ==
  /\ IF scene = "gate" THEN TRUE ELSE UNCHANGED gateVars
  /\ IF scene = "context" THEN TRUE ELSE UNCHANGED ctxVars
  /\ IF scene = "fallback" THEN TRUE ELSE UNCHANGED fallbackVars
  /\ IF scene = "goal" THEN TRUE ELSE UNCHANGED goalVars
  /\ IF scene = "goalWatch" THEN TRUE ELSE UNCHANGED watchVars
  /\ IF scene = "registry" THEN TRUE ELSE UNCHANGED registryVars
  /\ IF scene = "dndWait" THEN TRUE ELSE UNCHANGED dndWaitVars
  /\ IF scene = "dndTables" THEN TRUE ELSE UNCHANGED dndTablesVars
  /\ IF scene = "mcp" THEN TRUE ELSE UNCHANGED recoveryVars
  /\ IF scene = "switch" THEN TRUE ELSE UNCHANGED switchVars
  /\ IF scene = "history" THEN TRUE ELSE UNCHANGED chatVars
  /\ IF scene = "queue" THEN TRUE ELSE UNCHANGED promptVars
  /\ IF scene = "list" THEN TRUE ELSE UNCHANGED listVars
  /\ IF scene = "composer" THEN TRUE ELSE UNCHANGED composerVars
  /\ IF scene = "question" THEN TRUE ELSE UNCHANGED questionVars
  /\ IF scene = "panel" THEN TRUE ELSE UNCHANGED panelVars
  /\ IF scene = "settings" THEN TRUE ELSE UNCHANGED settingVars
  /\ IF scene = "agent" THEN TRUE ELSE UNCHANGED agentVars
  /\ IF scene = "limits" THEN TRUE ELSE UNCHANGED feedVars
  /\ IF scene = "retry" THEN TRUE ELSE UNCHANGED countdownVars
  /\ IF scene = "baseline" THEN TRUE ELSE UNCHANGED baselineVars
  /\ IF scene = "hardware" THEN TRUE ELSE UNCHANGED hardwareVars
  /\ IF scene = "transition" THEN TRUE ELSE UNCHANGED transitionVars
  /\ IF scene = "dock" THEN TRUE ELSE UNCHANGED dockVars
  /\ IF scene = "exposure" THEN TRUE ELSE UNCHANGED mcpVars
  /\ IF scene = "webServer" THEN TRUE ELSE UNCHANGED webServerVars
  /\ IF scene = "location" THEN TRUE ELSE UNCHANGED locationVars
  /\ IF scene = "slash" THEN TRUE ELSE UNCHANGED slashVars
  /\ IF scene = "picker" THEN TRUE ELSE UNCHANGED pickerVars
  /\ IF scene = "folder" THEN TRUE ELSE UNCHANGED folderVars
  /\ IF scene = "plan" THEN TRUE ELSE UNCHANGED planVars
  /\ IF scene = "view" THEN TRUE ELSE UNCHANGED viewVars
  /\ IF scene = "art" THEN TRUE ELSE UNCHANGED artVars
  /\ IF scene = "route" THEN TRUE ELSE UNCHANGED routeVars
  /\ IF scene = "skill" THEN TRUE ELSE UNCHANGED skillVars
  /\ IF scene = "follow" THEN TRUE ELSE UNCHANGED followVars
  /\ IF scene = "recall" THEN TRUE ELSE UNCHANGED recallVars
  /\ IF scene = "probe" THEN TRUE ELSE UNCHANGED probeVars
  /\ IF scene = "pull" THEN TRUE ELSE UNCHANGED pullVars
  /\ IF scene = "target" THEN TRUE ELSE UNCHANGED targetVars
  /\ IF scene = "trace" THEN TRUE ELSE UNCHANGED traceVars
  /\ IF scene = "custom" THEN TRUE ELSE UNCHANGED customVars
  /\ IF scene = "permission" THEN TRUE ELSE UNCHANGED bannerVars
  /\ IF scene = "modal" THEN TRUE ELSE UNCHANGED modalVars
  /\ IF scene = "awake" THEN TRUE ELSE UNCHANGED awakeVars
  /\ IF scene = "cli" THEN TRUE ELSE UNCHANGED cliVars
  /\ IF scene = "handover" THEN TRUE ELSE UNCHANGED handoverVars
  /\ IF scene = "git" THEN TRUE ELSE UNCHANGED gitVars
  /\ IF scene = "poller" THEN TRUE ELSE UNCHANGED pollVars
  /\ UNCHANGED scene

\* A component that does not run starts in one of its initial states.
Init ==
  /\ scene \in Scenes
  /\ GateInit
  /\ CtxInit
  /\ FbInit
  /\ GoalInit
  /\ WatchInit
  /\ RegistryInit
  /\ DndWaitInit
  /\ DndTablesInit
  /\ RecoveryInit /\ (scene # "mcp" => native = [x \in Servers |-> "failed"])
  /\ SwitchInit /\ (scene # "switch" => serverModel = "m1")
  /\ ChatInit
  /\ PromptInit
  /\ ListInit
  /\ ComposerInit
  /\ QuestionInit
  /\ PanelInit
  /\ SettingInit
  /\ AgentModelInit /\ (scene # "agent" => chatState = NoChatState /\ lastPlain = NoRef)
  /\ FeedInit
  /\ CountdownInit
  /\ BaselineInit
  /\ HardwareInit
  /\ TransitionInit
  /\ DockInit /\ (scene # "dock" => zones["right"].enabled /\ ~zones["right"].pinned)
  /\ ExposureInit
  /\ WebServerInit /\ (scene # "webServer" => ~webServer.deployed)
  /\ LocationInit
  /\ SlashInit
  /\ PickerInit /\ (scene # "picker" => pickerChat = "a")
  /\ FolderInit
  /\ PlanInit
  /\ ViewInit /\ (scene # "view" => \A c \in ViewChats : ~viewFacts[c].old)
  /\ ArtInit
  /\ RouteInit
  /\ SkillInit
  /\ FollowInit
  /\ RecallInit
  /\ ProbeInit
  /\ PullInit
  /\ TargetInit
  /\ TraceInit
  /\ CustomInit
  /\ BannerInit
  /\ ModalInit
  /\ AwakeInit
  /\ CliInit /\ (scene # "cli" => chosenCopy = 0 /\ programs["bl"].life = "none")
  /\ HandoverInit
  /\ GitInit
  /\ PollInit

Next ==
  \/ scene = "gate" /\ Rest /\ GateNext
  \/ scene = "context" /\ Rest /\ CtxNext
  \/ scene = "fallback" /\ Rest /\ FbNext
  \/ scene = "goal" /\ Rest /\ GoalNext
  \/ scene = "goalWatch" /\ Rest /\ WatchNext
  \/ scene = "registry" /\ Rest /\ RegistryNext
  \/ scene = "dndWait" /\ Rest /\ DndWaitNext
  \/ scene = "dndTables" /\ Rest /\ DndTablesNext
  \/ scene = "mcp" /\ Rest /\ RecoveryNext
  \/ scene = "switch" /\ Rest /\ SwitchNext
  \/ scene = "history" /\ Rest /\ ChatNext
  \/ scene = "queue" /\ Rest /\ PromptNext
  \/ scene = "list" /\ Rest /\ ListNext
  \/ scene = "composer" /\ Rest /\ ComposerNext
  \/ scene = "question" /\ Rest /\ QuestionNext
  \/ scene = "panel" /\ Rest /\ PanelNext
  \/ scene = "settings" /\ Rest /\ SettingNext
  \/ scene = "agent" /\ Rest /\ AgentModelNext
  \/ scene = "limits" /\ Rest /\ FeedNext
  \/ scene = "retry" /\ Rest /\ CountdownNext
  \/ scene = "baseline" /\ Rest /\ BaselineNext
  \/ scene = "hardware" /\ Rest /\ HardwareNext
  \/ scene = "transition" /\ Rest /\ TransitionNext
  \/ scene = "dock" /\ Rest /\ DockNext
  \/ scene = "exposure" /\ Rest /\ ExposureNext
  \/ scene = "webServer" /\ Rest /\ WebServerNext
  \/ scene = "location" /\ Rest /\ LocationNext
  \/ scene = "slash" /\ Rest /\ SlashNext
  \/ scene = "picker" /\ Rest /\ PickerNext
  \/ scene = "folder" /\ Rest /\ FolderNext
  \/ scene = "plan" /\ Rest /\ PlanNext
  \/ scene = "view" /\ Rest /\ ViewNext
  \/ scene = "art" /\ Rest /\ ArtNext
  \/ scene = "route" /\ Rest /\ RouteNext
  \/ scene = "skill" /\ Rest /\ SkillNext
  \/ scene = "follow" /\ Rest /\ FollowNext
  \/ scene = "recall" /\ Rest /\ RecallNext
  \/ scene = "probe" /\ Rest /\ ProbeNext
  \/ scene = "pull" /\ Rest /\ PullNext
  \/ scene = "target" /\ Rest /\ TargetNext
  \/ scene = "trace" /\ Rest /\ TraceNext
  \/ scene = "custom" /\ Rest /\ CustomNext
  \/ scene = "permission" /\ Rest /\ BannerNext
  \/ scene = "modal" /\ Rest /\ ModalNext
  \/ scene = "awake" /\ Rest /\ AwakeNext
  \/ scene = "cli" /\ Rest /\ CliNext
  \/ scene = "handover" /\ Rest /\ HandoverNext
  \/ scene = "git" /\ Rest /\ GitNext
  \/ scene = "poller" /\ Rest /\ PollNext

\* What tells two states of a run apart: the other components never move (the cases with
\* the most states first).
OfScene ==
  CASE scene = "list" -> <<scene, listVars>>
    [] scene = "queue" -> <<scene, promptVars>>
    [] scene = "dndTables" -> <<scene, dndTablesVars>>
    [] scene = "permission" -> <<scene, bannerVars>>
    [] scene = "mcp" -> <<scene, recoveryVars>>
    [] scene = "baseline" -> <<scene, baselineVars>>
    [] scene = "history" -> <<scene, chatVars>>
    [] scene = "hardware" -> <<scene, hardwareVars>>
    [] scene = "modal" -> <<scene, modalVars>>
    [] scene = "plan" -> <<scene, planVars>>
    [] scene = "question" -> <<scene, questionVars>>
    [] scene = "gate" -> <<scene, gateVars>>
    [] scene = "settings" -> <<scene, settingVars>>
    [] scene = "folder" -> <<scene, folderVars>>
    [] scene = "target" -> <<scene, targetVars>>
    [] scene = "switch" -> <<scene, switchVars>>
    [] scene = "retry" -> <<scene, countdownVars>>
    [] scene = "agent" -> <<scene, agentVars>>
    [] scene = "goal" -> <<scene, goalVars>>
    [] scene = "skill" -> <<scene, skillVars>>
    [] scene = "art" -> <<scene, artVars>>
    [] scene = "limits" -> <<scene, feedVars>>
    [] scene = "context" -> <<scene, ctxVars>>
    [] scene = "fallback" -> <<scene, fallbackVars>>
    [] scene = "goalWatch" -> <<scene, watchVars>>
    [] scene = "registry" -> <<scene, registryVars>>
    [] scene = "dndWait" -> <<scene, dndWaitVars>>
    [] scene = "composer" -> <<scene, composerVars>>
    [] scene = "panel" -> <<scene, panelVars>>
    [] scene = "transition" -> <<scene, transitionVars>>
    [] scene = "dock" -> <<scene, dockVars>>
    [] scene = "exposure" -> <<scene, mcpVars>>
    [] scene = "webServer" -> <<scene, webServerVars>>
    [] scene = "location" -> <<scene, locationVars>>
    [] scene = "slash" -> <<scene, slashVars>>
    [] scene = "picker" -> <<scene, pickerVars>>
    [] scene = "view" -> <<scene, viewVars>>
    [] scene = "route" -> <<scene, routeVars>>
    [] scene = "follow" -> <<scene, followVars>>
    [] scene = "recall" -> <<scene, recallVars>>
    [] scene = "probe" -> <<scene, probeVars>>
    [] scene = "pull" -> <<scene, pullVars>>
    [] scene = "trace" -> <<scene, traceVars>>
    [] scene = "custom" -> <<scene, customVars>>
    [] scene = "awake" -> <<scene, awakeVars>>
    [] scene = "cli" -> <<scene, cliVars>>
    [] scene = "handover" -> <<scene, handoverVars>>
    [] scene = "git" -> <<scene, gitVars>>
    [] scene = "poller" -> <<scene, pollVars>>

turnVars == <<gateVars, ctxVars, fallbackVars, goalVars, promptVars, dndTablesVars,
              recoveryVars, panelVars>>
pluginVars == <<registryVars, agentVars, mcpVars, webServerVars, dndWaitVars,
                baselineVars, hardwareVars, artVars, routeVars, skillVars, awakeVars>>
tuiVars == <<watchVars, feedVars, countdownVars, dockVars, locationVars, planVars,
             viewVars, cliVars>>
chatPageVars == <<chatVars, listVars, composerVars, questionVars, settingVars,
                  switchVars, transitionVars, bannerVars, modalVars, handoverVars>>
pageVars == <<slashVars, pickerVars, folderVars, followVars, recallVars, probeVars,
              pullVars, targetVars, traceVars, customVars, gitVars, pollVars>>
clientVars == <<scene, turnVars, pluginVars, tuiVars, chatPageVars, pageVars>>

Spec == Init /\ [][Next]_clientVars

-----------------------------------------------------------------------------
\* Every component keeps its variables to their types.
TypeOK ==
  CASE scene = "list" -> ListTypeOK
    [] scene = "queue" -> PromptTypeOK
    [] scene = "dndTables" -> DndTablesTypeOK
    [] scene = "permission" -> BannerTypeOK
    [] scene = "mcp" -> RecoveryTypeOK
    [] scene = "baseline" -> BaselineTypeOK
    [] scene = "history" -> ChatTypeOK
    [] scene = "hardware" -> HardwareTypeOK
    [] scene = "modal" -> ModalTypeOK
    [] scene = "plan" -> PlanTypeOK
    [] scene = "question" -> QuestionTypeOK
    [] scene = "gate" -> GateTypeOK
    [] scene = "settings" -> SettingTypeOK
    [] scene = "folder" -> FolderTypeOK
    [] scene = "target" -> TargetTypeOK
    [] scene = "switch" -> SwitchTypeOK
    [] scene = "retry" -> CountdownTypeOK
    [] scene = "agent" -> AgentModelTypeOK
    [] scene = "goal" -> GoalTypeOK
    [] scene = "skill" -> SkillTypeOK
    [] scene = "art" -> ArtTypeOK
    [] scene = "limits" -> FeedTypeOK
    [] scene = "context" -> CtxTypeOK
    [] scene = "fallback" -> FbTypeOK
    [] scene = "goalWatch" -> WatchTypeOK
    [] scene = "registry" -> RegistryTypeOK
    [] scene = "dndWait" -> DndWaitTypeOK
    [] scene = "composer" -> ComposerTypeOK
    [] scene = "panel" -> PanelTypeOK
    [] scene = "transition" -> TransitionTypeOK
    [] scene = "dock" -> DockTypeOK
    [] scene = "exposure" -> ExposureTypeOK
    [] scene = "webServer" -> WebServerTypeOK
    [] scene = "location" -> LocationTypeOK
    [] scene = "slash" -> SlashTypeOK
    [] scene = "picker" -> PickerTypeOK
    [] scene = "view" -> ViewTypeOK
    [] scene = "route" -> RouteTypeOK
    [] scene = "follow" -> FollowTypeOK
    [] scene = "recall" -> RecallTypeOK
    [] scene = "probe" -> ProbeTypeOK
    [] scene = "pull" -> PullTypeOK
    [] scene = "trace" -> TraceTypeOK
    [] scene = "custom" -> CustomTypeOK
    [] scene = "awake" -> AwakeTypeOK
    [] scene = "cli" -> CliTypeOK
    [] scene = "handover" -> HandoverTypeOK
    [] scene = "git" -> GitTypeOK
    [] scene = "poller" -> PollTypeOK

\* What a model is asked to do for money is asked once: an image is generated again only
\* after its target was found to have one meanwhile, a Hardware turn pays for a
\* consultation once and within its budget, and a user turn is classified again only
\* after its plan failed or gave way (dnd-art.js, hardware-orchestrator.js and
\* dnd-super-orchestrator.js, stated in ArtOnce, ConsultsBounded and RoutedOnce).
PaidOnce ==
  /\ scene = "art" => ArtOnce
  /\ scene = "hardware" => ConsultsBounded
  /\ scene = "route" => RoutedOnce

\* What was settled survives what others do beside it: the registry keeps what its
\* commands answered, the web server its start with the machine, a caller the tools it
\* was promised, a narrator the complete list of skills, a session an agent that fits its
\* model, and a machine with a session at work its keeper (each part is stated with its
\* code in the module of its component).
SettingsKept ==
  /\ scene = "registry" => RegistryKept
  /\ scene = "webServer" => AutostartStays
  /\ scene = "exposure" => ExposureSound
  /\ scene = "skill" => CompleteStays
  /\ scene = "agent" => AgentFitsModel
  /\ scene = "awake" => KeptAwake

\* The TUI shows what is of now and of the session on screen, in whatever order answers
\* come and plugins are loaded again: the limits with their queries and programs, the
\* countdown, the goal line, the dock, the banner of a recovery, the plan and the views
\* of a session (each part is stated with its code in the module of its component).
TuiSound ==
  /\ scene = "limits" => FeedSound
  /\ scene = "retry" => CountdownKept
  /\ scene = "goalWatch" => ShownIsSelected
  /\ scene = "dock" => DockIsExact
  /\ scene = "location" => BannerIsLive
  /\ scene = "plan" => PlanFirst
  /\ scene = "view" => ViewsFollow
  /\ scene = "cli" => ProgramsEnd

\* What the web client promises, each stated with the code it is about in the module of
\* its component.
PageSound ==
  /\ scene = "history" => HistoryComplete
  /\ scene = "list" => RowsHonest
  /\ scene = "composer" => SendIsWhole
  /\ scene = "question" => CardIsLive
  /\ scene = "settings" => DefaultsYield
  /\ scene = "switch" => PanelFollowsServer
  /\ scene = "transition" => PicksAreWhole
  /\ scene = "slash" => SlashSound
  /\ scene = "picker" => GroupedAsRendered
  /\ scene = "folder" => FolderIsAsked
  /\ scene = "follow" => FollowsUser
  /\ scene = "recall" => DraftKept
  /\ scene = "probe" => ProbesSound
  /\ scene = "pull" => PullEnds
  /\ scene = "target" => OneCreation
  /\ scene = "trace" => TraceIsOwn
  /\ scene = "custom" => CustomIsShown
  /\ scene = "permission" => BannerSound
  /\ scene = "modal" => HistoryFits
  /\ scene = "handover" => HandoversKeep
  /\ scene = "git" => GitIsOwn
  /\ scene = "poller" => PollsGoOn
=============================================================================
