-------------------------- MODULE MCClientsProofs --------------------------
(***************************************************************************)
(* The promises of all plugins and of all parts of the web page in the sum *)
(* of the clients (MCClients), for every value of the constants: the       *)
(* component that runs keeps its own inductive invariant, the others are   *)
(* not concerned.                                                          *)
(***************************************************************************)
EXTENDS MCClients, PluginProofs, TuiProofs, ChatProofs, PageProofs

\* The component that runs keeps its inductive invariant.
PluginsIInv ==
  /\ scene = "registry" => RegistryIInv
  /\ scene = "dndWait" => WaitInductive
  /\ scene = "baseline" => BaselineIInv
  /\ scene = "hardware" => HardwareIInv
  /\ scene = "limits" => FeedIInv
  /\ scene = "retry" => CountdownIInv
  /\ scene = "goalWatch" => WatchIInv
  /\ scene = "agent" => AgentIInv
  /\ scene = "dock" => DockIInv
  /\ scene = "exposure" => ExposureIInv
  /\ scene = "webServer" => WebServerIInv
  /\ scene = "location" => LocationIInv
  /\ scene = "plan" => PlanIInv
  /\ scene = "view" => ViewIInv
  /\ scene = "art" => ArtIInv
  /\ scene = "route" => RouteIInv
  /\ scene = "skill" => SkillIInv
  /\ scene = "awake" => AwakeIInv
  /\ scene = "cli" => CliIInv

\* The sum starts with every component in an initial state of its own.
LEMMA PluginsStart ==
  ASSUME Init
  PROVE  PluginsIInv
<1>1. RegistryInit
  BY DEF Init
<1>2. DndWaitInit
  BY DEF Init
<1>3. BaselineInit
  BY DEF Init
<1>4. HardwareInit
  BY DEF Init
<1>5. FeedInit
  BY DEF Init
<1>6. CountdownInit
  BY DEF Init
<1>7. WatchInit
  BY DEF Init
<1>8. AgentModelInit
  BY DEF Init
<1>9. DockInit
  BY DEF Init
<1>10. ExposureInit
  BY DEF Init
<1>11. WebServerInit
  BY DEF Init
<1>12. LocationInit
  BY DEF Init
<1>13. PlanInit
  BY DEF Init
<1>14. ViewInit
  BY DEF Init
<1>15. ArtInit
  BY DEF Init
<1>16. RouteInit
  BY DEF Init
<1>17. SkillInit
  BY DEF Init
<1>18. AwakeInit
  BY DEF Init
<1>19. CliInit
  BY DEF Init
<1>21. RegistryIInv
  BY <1>1, RegistryInitOK, RegistryAssumption
<1>22. WaitInductive
  BY <1>2, WaitInitOK, DndWaitAssumption
<1>23. BaselineIInv
  BY <1>3, BaselineInitOK
<1>24. HardwareIInv
  BY <1>4, HardwareInitOK
<1>25. FeedIInv
  BY <1>5, FeedInitOK
<1>26. CountdownIInv
  BY <1>6, CountdownInitOK
<1>27. WatchIInv
  BY <1>7, WatchInitOK
<1>28. AgentIInv
  BY <1>8, AgentInitOK, AgentModelAssumption
<1>29. DockIInv
  BY <1>9, DockInitOK
<1>30. ExposureIInv
  BY <1>10, ExposureInitOK, McpExposureAssumption
<1>31. WebServerIInv
  BY <1>11, WebServerInitOK
<1>32. LocationIInv
  BY <1>12, LocationInitOK
<1>33. PlanIInv
  BY <1>13, PlanInitOK, PlanAssumption
<1>34. ViewIInv
  BY <1>14, ViewInitOK, PlanAssumption
<1>35. ArtIInv
  BY <1>15, ArtInitOK
<1>36. RouteIInv
  BY <1>16, RouteInitOK, DndServicesAssumption
<1>37. SkillIInv
  BY <1>17, SkillInitOK
<1>38. AwakeIInv
  BY <1>18, AwakeInitOK
<1>39. CliIInv
  BY <1>19, CliInitOK
<1>. QED
  BY <1>21, <1>22, <1>23, <1>24, <1>25, <1>26, <1>27, <1>28, <1>29, <1>30, <1>31, <1>32,
     <1>33, <1>34, <1>35, <1>36, <1>37, <1>38, <1>39 DEF PluginsIInv

\* A step of the sum is one of the component that runs.
LEMMA OneComponentSteps ==
  ASSUME [Next]_clientVars
  PROVE  /\ scene' = scene
         /\ scene = "registry" => [RegistryNext]_registryVars
         /\ scene = "dndWait" => [DndWaitNext]_dndWaitVars
         /\ scene = "baseline" => [BaselineNext]_baselineVars
         /\ scene = "hardware" => [HardwareNext]_hardwareVars
         /\ scene = "limits" => [FeedNext]_feedVars
         /\ scene = "retry" => [CountdownNext]_countdownVars
         /\ scene = "goalWatch" => [WatchNext]_watchVars
         /\ scene = "agent" => [AgentModelNext]_agentVars
         /\ scene = "dock" => [DockNext]_dockVars
         /\ scene = "exposure" => [ExposureNext]_mcpVars
         /\ scene = "webServer" => [WebServerNext]_webServerVars
         /\ scene = "location" => [LocationNext]_locationVars
         /\ scene = "plan" => [PlanNext]_planVars
         /\ scene = "view" => [ViewNext]_viewVars
         /\ scene = "art" => [ArtNext]_artVars
         /\ scene = "route" => [RouteNext]_routeVars
         /\ scene = "skill" => [SkillNext]_skillVars
         /\ scene = "awake" => [AwakeNext]_awakeVars
         /\ scene = "cli" => [CliNext]_cliVars
<1>1. CASE Next
  <2>1. Rest
    BY <1>1, Zenon DEF Next
  <2>2. scene' = scene
    BY <2>1, Zenon DEF Rest
  <2>3. scene = "registry" => RegistryNext
    BY <1>1, Zenon DEF Next
  <2>4. scene = "dndWait" => DndWaitNext
    BY <1>1, Zenon DEF Next
  <2>5. scene = "baseline" => BaselineNext
    BY <1>1, Zenon DEF Next
  <2>6. scene = "hardware" => HardwareNext
    BY <1>1, Zenon DEF Next
  <2>7. scene = "limits" => FeedNext
    BY <1>1, Zenon DEF Next
  <2>8. scene = "retry" => CountdownNext
    BY <1>1, Zenon DEF Next
  <2>9. scene = "goalWatch" => WatchNext
    BY <1>1, Zenon DEF Next
  <2>10. scene = "agent" => AgentModelNext
    BY <1>1, Zenon DEF Next
  <2>11. scene = "dock" => DockNext
    BY <1>1, Zenon DEF Next
  <2>12. scene = "exposure" => ExposureNext
    BY <1>1, Zenon DEF Next
  <2>13. scene = "webServer" => WebServerNext
    BY <1>1, Zenon DEF Next
  <2>14. scene = "location" => LocationNext
    BY <1>1, Zenon DEF Next
  <2>15. scene = "plan" => PlanNext
    BY <1>1, Zenon DEF Next
  <2>16. scene = "view" => ViewNext
    BY <1>1, Zenon DEF Next
  <2>17. scene = "art" => ArtNext
    BY <1>1, Zenon DEF Next
  <2>18. scene = "route" => RouteNext
    BY <1>1, Zenon DEF Next
  <2>19. scene = "skill" => SkillNext
    BY <1>1, Zenon DEF Next
  <2>20. scene = "awake" => AwakeNext
    BY <1>1, Zenon DEF Next
  <2>21. scene = "cli" => CliNext
    BY <1>1, Zenon DEF Next
  <2>. QED
    BY <2>2, <2>3, <2>4, <2>5, <2>6, <2>7, <2>8, <2>9, <2>10, <2>11, <2>12, <2>13, <2>14,
       <2>15, <2>16, <2>17, <2>18, <2>19, <2>20, <2>21
<1>2. CASE UNCHANGED clientVars
  <2>1. /\ scene' = scene /\ UNCHANGED turnVars /\ UNCHANGED pluginVars
        /\ UNCHANGED tuiVars /\ UNCHANGED chatPageVars /\ UNCHANGED pageVars
    BY <1>2, SMT DEF clientVars
  <2>2. UNCHANGED registryVars
    BY <2>1, SMT DEF pluginVars
  <2>3. UNCHANGED dndWaitVars
    BY <2>1, SMT DEF pluginVars
  <2>4. UNCHANGED baselineVars
    BY <2>1, SMT DEF pluginVars
  <2>5. UNCHANGED hardwareVars
    BY <2>1, SMT DEF pluginVars
  <2>6. UNCHANGED feedVars
    BY <2>1, SMT DEF tuiVars
  <2>7. UNCHANGED countdownVars
    BY <2>1, SMT DEF tuiVars
  <2>8. UNCHANGED watchVars
    BY <2>1, SMT DEF tuiVars
  <2>9. UNCHANGED agentVars
    BY <2>1, SMT DEF pluginVars
  <2>10. UNCHANGED dockVars
    BY <2>1, SMT DEF tuiVars
  <2>11. UNCHANGED mcpVars
    BY <2>1, SMT DEF pluginVars
  <2>12. UNCHANGED webServerVars
    BY <2>1, SMT DEF pluginVars
  <2>13. UNCHANGED locationVars
    BY <2>1, SMT DEF tuiVars
  <2>14. UNCHANGED planVars
    BY <2>1, SMT DEF tuiVars
  <2>15. UNCHANGED viewVars
    BY <2>1, SMT DEF tuiVars
  <2>16. UNCHANGED artVars
    BY <2>1, SMT DEF pluginVars
  <2>17. UNCHANGED routeVars
    BY <2>1, SMT DEF pluginVars
  <2>18. UNCHANGED skillVars
    BY <2>1, SMT DEF pluginVars
  <2>19. UNCHANGED awakeVars
    BY <2>1, SMT DEF pluginVars
  <2>20. UNCHANGED cliVars
    BY <2>1, SMT DEF tuiVars
  <2>. QED
    BY <2>1, <2>2, <2>3, <2>4, <2>5, <2>6, <2>7, <2>8, <2>9, <2>10, <2>11, <2>12, <2>13,
       <2>14, <2>15, <2>16, <2>17, <2>18, <2>19, <2>20
<1>. QED
  BY <1>1, <1>2

\* The component that runs keeps its invariant, by its own proof.
LEMMA PluginsStep ==
  ASSUME PluginsIInv, [Next]_clientVars
  PROVE  PluginsIInv'
<1>. USE OneComponentSteps
<1>1. scene' = scene
  OBVIOUS
<1>2. CASE scene = "registry"
  <2>1. RegistryIInv /\ [RegistryNext]_registryVars
    BY <1>2 DEF PluginsIInv
  <2>2. RegistryIInv'
    BY <2>1, RegistryStepOK, RegistryAssumption
  <2>. QED
    BY <1>1, <1>2, <2>2 DEF PluginsIInv
<1>3. CASE scene = "dndWait"
  <2>1. WaitInductive /\ [DndWaitNext]_dndWaitVars
    BY <1>3 DEF PluginsIInv
  <2>2. WaitInductive'
    BY <2>1, WaitStepOK, DndWaitAssumption
  <2>. QED
    BY <1>1, <1>3, <2>2 DEF PluginsIInv
<1>4. CASE scene = "baseline"
  <2>1. BaselineIInv /\ [BaselineNext]_baselineVars
    BY <1>4 DEF PluginsIInv
  <2>2. BaselineIInv'
    BY <2>1, BaselineStepOK
  <2>. QED
    BY <1>1, <1>4, <2>2 DEF PluginsIInv
<1>5. CASE scene = "hardware"
  <2>1. HardwareIInv /\ [HardwareNext]_hardwareVars
    BY <1>5 DEF PluginsIInv
  <2>2. HardwareIInv'
    BY <2>1, HardwareStepOK
  <2>. QED
    BY <1>1, <1>5, <2>2 DEF PluginsIInv
<1>6. CASE scene = "limits"
  <2>1. FeedIInv /\ [FeedNext]_feedVars
    BY <1>6 DEF PluginsIInv
  <2>2. FeedIInv'
    BY <2>1, FeedStepOK
  <2>. QED
    BY <1>1, <1>6, <2>2 DEF PluginsIInv
<1>7. CASE scene = "retry"
  <2>1. CountdownIInv /\ [CountdownNext]_countdownVars
    BY <1>7 DEF PluginsIInv
  <2>2. CountdownIInv'
    BY <2>1, CountdownStepOK
  <2>. QED
    BY <1>1, <1>7, <2>2 DEF PluginsIInv
<1>8. CASE scene = "goalWatch"
  <2>1. WatchIInv /\ [WatchNext]_watchVars
    BY <1>8 DEF PluginsIInv
  <2>2. WatchIInv'
    BY <2>1, WatchStepOK
  <2>. QED
    BY <1>1, <1>8, <2>2 DEF PluginsIInv
<1>9. CASE scene = "agent"
  <2>1. AgentIInv /\ [AgentModelNext]_agentVars
    BY <1>9 DEF PluginsIInv
  <2>2. AgentIInv'
    BY <2>1, AgentStepOK, AgentModelAssumption
  <2>. QED
    BY <1>1, <1>9, <2>2 DEF PluginsIInv
<1>10. CASE scene = "dock"
  <2>1. DockIInv /\ [DockNext]_dockVars
    BY <1>10 DEF PluginsIInv
  <2>2. DockIInv'
    BY <2>1, DockStepOK
  <2>. QED
    BY <1>1, <1>10, <2>2 DEF PluginsIInv
<1>11. CASE scene = "exposure"
  <2>1. ExposureIInv /\ [ExposureNext]_mcpVars
    BY <1>11 DEF PluginsIInv
  <2>2. ExposureIInv'
    BY <2>1, ExposureStepOK, McpExposureAssumption
  <2>. QED
    BY <1>1, <1>11, <2>2 DEF PluginsIInv
<1>12. CASE scene = "webServer"
  <2>1. WebServerIInv /\ [WebServerNext]_webServerVars
    BY <1>12 DEF PluginsIInv
  <2>2. WebServerIInv'
    BY <2>1, WebServerStepOK
  <2>. QED
    BY <1>1, <1>12, <2>2 DEF PluginsIInv
<1>13. CASE scene = "location"
  <2>1. LocationIInv /\ [LocationNext]_locationVars
    BY <1>13 DEF PluginsIInv
  <2>2. LocationIInv'
    BY <2>1, LocationStepOK
  <2>. QED
    BY <1>1, <1>13, <2>2 DEF PluginsIInv
<1>14. CASE scene = "plan"
  <2>1. PlanIInv /\ [PlanNext]_planVars
    BY <1>14 DEF PluginsIInv
  <2>2. PlanIInv'
    BY <2>1, PlanStepOK, PlanAssumption
  <2>. QED
    BY <1>1, <1>14, <2>2 DEF PluginsIInv
<1>15. CASE scene = "view"
  <2>1. ViewIInv /\ [ViewNext]_viewVars
    BY <1>15 DEF PluginsIInv
  <2>2. ViewIInv'
    BY <2>1, ViewStepOK, PlanAssumption
  <2>. QED
    BY <1>1, <1>15, <2>2 DEF PluginsIInv
<1>16. CASE scene = "art"
  <2>1. ArtIInv /\ [ArtNext]_artVars
    BY <1>16 DEF PluginsIInv
  <2>2. ArtIInv'
    BY <2>1, ArtStepOK
  <2>. QED
    BY <1>1, <1>16, <2>2 DEF PluginsIInv
<1>17. CASE scene = "route"
  <2>1. RouteIInv /\ [RouteNext]_routeVars
    BY <1>17 DEF PluginsIInv
  <2>2. RouteIInv'
    BY <2>1, RouteStepOK, DndServicesAssumption
  <2>. QED
    BY <1>1, <1>17, <2>2 DEF PluginsIInv
<1>18. CASE scene = "skill"
  <2>1. SkillIInv /\ [SkillNext]_skillVars
    BY <1>18 DEF PluginsIInv
  <2>2. SkillIInv'
    BY <2>1, SkillStepOK
  <2>. QED
    BY <1>1, <1>18, <2>2 DEF PluginsIInv
<1>19. CASE scene = "awake"
  <2>1. AwakeIInv /\ [AwakeNext]_awakeVars
    BY <1>19 DEF PluginsIInv
  <2>2. AwakeIInv'
    BY <2>1, AwakeStepOK
  <2>. QED
    BY <1>1, <1>19, <2>2 DEF PluginsIInv
<1>20. CASE scene = "cli"
  <2>1. CliIInv /\ [CliNext]_cliVars
    BY <1>20 DEF PluginsIInv
  <2>2. CliIInv'
    BY <2>1, CliStepOK
  <2>. QED
    BY <1>1, <1>20, <2>2 DEF PluginsIInv
<1>. QED
  BY <1>1, <1>2, <1>3, <1>4, <1>5, <1>6, <1>7, <1>8, <1>9, <1>10, <1>11, <1>12, <1>13,
     <1>14, <1>15, <1>16, <1>17, <1>18, <1>19, <1>20 DEF PluginsIInv

\* A model is asked once for what costs money, over lost answers, crashes, superseded
\* turns and failed plans (dnd-art.js, hardware-orchestrator.js, dnd-super-orchestrator.js).
THEOREM PaymentsAreSingle == Spec => []PaidOnce
<1>1. Init => PluginsIInv
  BY PluginsStart
<1>2. PluginsIInv /\ [Next]_clientVars => PluginsIInv'
  BY PluginsStep
<1>3. PluginsIInv => PaidOnce
  <2>1. ArtIInv => ArtOnce
    BY DEF ArtIInv, ArtTypes, ArtRecord, ArtOnce, ArtRecs, LibraryRecs
  <2>2. HardwareIInv => ConsultsBounded
    BY HardwareKept
  <2>3. RouteIInv => RoutedOnce
    BY DEF RouteIInv, RoutedOnce
  <2>. QED
    BY SMTT(30), <2>1, <2>2, <2>3 DEF PluginsIInv, PaidOnce
<1>. QED
  BY <1>1, <1>2, <1>3, PTL DEF Spec

\* What was settled survives the wizards, instances, turns and sessions beside it
\* (the registry, the web server, MCP exposure, game skills, agents, keep-awake).
THEOREM SettingsAreKept == Spec => []SettingsKept
<1>1. Init => PluginsIInv
  BY PluginsStart
<1>2. PluginsIInv /\ [Next]_clientVars => PluginsIInv'
  BY PluginsStep
<1>3. PluginsIInv => SettingsKept
  <2>1. RegistryIInv => RegistryKept
    BY RegistryIsKept
  <2>2. WebServerIInv => AutostartStays
    BY DEF WebServerIInv, WebServerTypes, AutostartStays
  <2>3. ExposureIInv => ExposureSound
    BY DEF ExposureIInv, ExposureSound
  <2>4. SkillIInv => CompleteStays
    BY DEF SkillIInv, CompleteStays
  <2>5. AgentIInv => AgentFitsModel
    BY AgentFits, AgentModelAssumption
  <2>6. AwakeIInv => KeptAwake
    BY DEF AwakeIInv
  <2>. QED
    BY SMTT(30), <2>1, <2>2, <2>3, <2>4, <2>5, <2>6 DEF PluginsIInv, SettingsKept
<1>. QED
  BY <1>1, <1>2, <1>3, PTL DEF Spec

\* The TUI shows what is of now and of the session on screen, in whatever order the
\* answers come (the plugins of the TUI).
THEOREM TuiIsSound == Spec => []TuiSound
<1>1. Init => PluginsIInv
  BY PluginsStart
<1>2. PluginsIInv /\ [Next]_clientVars => PluginsIInv'
  BY PluginsStep
<1>3. PluginsIInv => TuiSound
  <2>1. FeedIInv => FeedSound
    BY DEF FeedIInv
  <2>2. CountdownIInv => CountdownKept
    BY DEF CountdownIInv
  <2>3. WatchIInv => ShownIsSelected
    BY DEF WatchIInv, ShownIsSelected
  <2>4. DockIInv => DockIsExact
    BY DEF DockIInv
  <2>5. LocationIInv => BannerIsLive
    BY DEF LocationIInv, RunsKept, BannerKept, BannerIsLive
  <2>6. PlanIInv => PlanFirst
    BY DEF PlanIInv, PlanFirst
  <2>7. ViewIInv => ViewsFollow
    BY ViewKept
  <2>8. CliIInv => ProgramsEnd
    BY CliIsSound
  <2>. QED
    BY SMTT(30), <2>1, <2>2, <2>3, <2>4, <2>5, <2>6, <2>7, <2>8 DEF PluginsIInv, TuiSound
<1>. QED
  BY <1>1, <1>2, <1>3, PTL DEF Spec

-----------------------------------------------------------------------------
(* The parts of the page, in the same way.                                *)

PageIInv ==
  /\ scene = "history" => ChatIInv
  /\ scene = "list" => ListIInv
  /\ scene = "composer" => ComposerIInv
  /\ scene = "question" => QuestionIInv
  /\ scene = "settings" => SettingIInv
  /\ scene = "switch" => SwitchIInv
  /\ scene = "transition" => TransitionIInv
  /\ scene = "slash" => SlashIInv /\ PaletteIInv
  /\ scene = "picker" => PickerIInv
  /\ scene = "folder" => FolderIInv
  /\ scene = "follow" => FollowIInv
  /\ scene = "recall" => RecallIInv
  /\ scene = "probe" => ProbeAll
  /\ scene = "pull" => PullIInv
  /\ scene = "target" => TargetIInv
  /\ scene = "trace" => TraceIInv
  /\ scene = "custom" => CustomIInv
  /\ scene = "permission" => BannerIInv
  /\ scene = "modal" => ModalIInv
  /\ scene = "handover" => HandoverIInv
  /\ scene = "git" => GitIInv
  /\ scene = "poller" => PollIInv

\* Every part of the page starts in an initial state of its own.
LEMMA PageStart ==
  ASSUME Init
  PROVE  PageIInv
<1>1. ChatIInv
  <2>1. ChatInit
    BY Zenon DEF Init
  <2>. QED
    BY <2>1, ChatInitOK
<1>2. ListIInv
  <2>1. ListInit
    BY Zenon DEF Init
  <2>. QED
    BY <2>1, ListInitOK
<1>3. ComposerIInv
  <2>1. ComposerInit
    BY Zenon DEF Init
  <2>. QED
    BY <2>1, ComposerInitOK
<1>4. QuestionIInv
  <2>1. QuestionInit
    BY Zenon DEF Init
  <2>. QED
    BY <2>1, QuestionInitOK
<1>5. SettingIInv
  <2>1. SettingInit
    BY Zenon DEF Init
  <2>. QED
    BY <2>1, SettingInitOK
<1>6. SwitchIInv
  <2>1. SwitchInit
    BY Zenon DEF Init
  <2>. QED
    BY <2>1, SwitchInitOK
<1>7. TransitionIInv
  <2>1. TransitionInit
    BY Zenon DEF Init
  <2>. QED
    BY <2>1, TransitionInitOK
<1>8. SlashIInv /\ PaletteIInv
  <2>1. SlashInit
    BY Zenon DEF Init
  <2>. QED
    BY <2>1, SlashInitOK
<1>9. PickerIInv
  <2>1. PickerInit
    BY Zenon DEF Init
  <2>. QED
    BY <2>1, PickerInitOK
<1>10. FolderIInv
  <2>1. FolderInit
    BY Zenon DEF Init
  <2>. QED
    BY <2>1, FolderInitOK
<1>11. FollowIInv
  <2>1. FollowInit
    BY Zenon DEF Init
  <2>. QED
    BY <2>1, FollowInitOK
<1>12. RecallIInv
  <2>1. RecallInit
    BY Zenon DEF Init
  <2>. QED
    BY <2>1, RecallInitOK
<1>13. ProbeAll
  <2>1. ProbeInit
    BY Zenon DEF Init
  <2>. QED
    BY <2>1, ProbeInitOK
<1>14. PullIInv
  <2>1. PullInit
    BY Zenon DEF Init
  <2>. QED
    BY <2>1, PullInitOK
<1>15. TargetIInv
  <2>1. TargetInit
    BY Zenon DEF Init
  <2>. QED
    BY <2>1, TargetInitOK
<1>16. TraceIInv
  <2>1. TraceInit
    BY Zenon DEF Init
  <2>. QED
    BY <2>1, TraceInitOK
<1>17. CustomIInv
  <2>1. CustomInit
    BY Zenon DEF Init
  <2>. QED
    BY <2>1, CustomInitOK
<1>18. BannerIInv
  <2>1. BannerInit
    BY Zenon DEF Init
  <2>. QED
    BY <2>1, BannerInitOK
<1>19. ModalIInv
  <2>1. ModalInit
    BY Zenon DEF Init
  <2>. QED
    BY <2>1, ModalInitOK
<1>20. HandoverIInv
  <2>1. HandoverInit
    BY Zenon DEF Init
  <2>. QED
    BY <2>1, HandoverInitOK
<1>21. GitIInv
  <2>1. GitInit
    BY Zenon DEF Init
  <2>. QED
    BY <2>1, GitInitOK
<1>22. PollIInv
  <2>1. PollInit
    BY Zenon DEF Init
  <2>. QED
    BY <2>1, PollInitOK
<1>. QED
  BY <1>1, <1>2, <1>3, <1>4, <1>5, <1>6, <1>7, <1>8, <1>9, <1>10, <1>11, <1>12, <1>13,
     <1>14, <1>15, <1>16, <1>17, <1>18, <1>19, <1>20, <1>21, <1>22 DEF PageIInv

\* A step of the sum is one of the part that runs.
LEMMA OnePartSteps ==
  ASSUME [Next]_clientVars
  PROVE  /\ scene' = scene
         /\ scene = "history" => [ChatNext]_chatVars
         /\ scene = "list" => [ListNext]_listVars
         /\ scene = "composer" => [ComposerNext]_composerVars
         /\ scene = "question" => [QuestionNext]_questionVars
         /\ scene = "settings" => [SettingNext]_settingVars
         /\ scene = "switch" => [SwitchNext]_switchVars
         /\ scene = "transition" => [TransitionNext]_transitionVars
         /\ scene = "slash" => [SlashNext]_slashVars
         /\ scene = "picker" => [PickerNext]_pickerVars
         /\ scene = "folder" => [FolderNext]_folderVars
         /\ scene = "follow" => [FollowNext]_followVars
         /\ scene = "recall" => [RecallNext]_recallVars
         /\ scene = "probe" => [ProbeNext]_probeVars
         /\ scene = "pull" => [PullNext]_pullVars
         /\ scene = "target" => [TargetNext]_targetVars
         /\ scene = "trace" => [TraceNext]_traceVars
         /\ scene = "custom" => [CustomNext]_customVars
         /\ scene = "permission" => [BannerNext]_bannerVars
         /\ scene = "modal" => [ModalNext]_modalVars
         /\ scene = "handover" => [HandoverNext]_handoverVars
         /\ scene = "git" => [GitNext]_gitVars
         /\ scene = "poller" => [PollNext]_pollVars
<1>1. CASE Next
  <2>1. Rest
    BY <1>1, Zenon DEF Next
  <2>2. scene' = scene
    BY <2>1, Zenon DEF Rest
  <2>3. scene = "history" => ChatNext
    BY <1>1, Zenon DEF Next
  <2>4. scene = "list" => ListNext
    BY <1>1, Zenon DEF Next
  <2>5. scene = "composer" => ComposerNext
    BY <1>1, Zenon DEF Next
  <2>6. scene = "question" => QuestionNext
    BY <1>1, Zenon DEF Next
  <2>7. scene = "settings" => SettingNext
    BY <1>1, Zenon DEF Next
  <2>8. scene = "switch" => SwitchNext
    BY <1>1, Zenon DEF Next
  <2>9. scene = "transition" => TransitionNext
    BY <1>1, Zenon DEF Next
  <2>10. scene = "slash" => SlashNext
    BY <1>1, Zenon DEF Next
  <2>11. scene = "picker" => PickerNext
    BY <1>1, Zenon DEF Next
  <2>12. scene = "folder" => FolderNext
    BY <1>1, Zenon DEF Next
  <2>13. scene = "follow" => FollowNext
    BY <1>1, Zenon DEF Next
  <2>14. scene = "recall" => RecallNext
    BY <1>1, Zenon DEF Next
  <2>15. scene = "probe" => ProbeNext
    BY <1>1, Zenon DEF Next
  <2>16. scene = "pull" => PullNext
    BY <1>1, Zenon DEF Next
  <2>17. scene = "target" => TargetNext
    BY <1>1, Zenon DEF Next
  <2>18. scene = "trace" => TraceNext
    BY <1>1, Zenon DEF Next
  <2>19. scene = "custom" => CustomNext
    BY <1>1, Zenon DEF Next
  <2>20. scene = "permission" => BannerNext
    BY <1>1, Zenon DEF Next
  <2>21. scene = "modal" => ModalNext
    BY <1>1, Zenon DEF Next
  <2>22. scene = "handover" => HandoverNext
    BY <1>1, Zenon DEF Next
  <2>23. scene = "git" => GitNext
    BY <1>1, Zenon DEF Next
  <2>24. scene = "poller" => PollNext
    BY <1>1, Zenon DEF Next
  <2>. QED
    BY SMTT(30), <2>2, <2>3, <2>4, <2>5, <2>6, <2>7, <2>8, <2>9, <2>10, <2>11, <2>12, <2>13, <2>14,
       <2>15, <2>16, <2>17, <2>18, <2>19, <2>20, <2>21, <2>22, <2>23, <2>24
<1>2. CASE UNCHANGED clientVars
  <2>1. /\ scene' = scene /\ UNCHANGED turnVars /\ UNCHANGED pluginVars
        /\ UNCHANGED tuiVars /\ UNCHANGED chatPageVars /\ UNCHANGED pageVars
    BY <1>2, SMT DEF clientVars
  <2>2. UNCHANGED chatVars
    BY <2>1, SMT DEF chatPageVars
  <2>3. UNCHANGED listVars
    BY <2>1, SMT DEF chatPageVars
  <2>4. UNCHANGED composerVars
    BY <2>1, SMT DEF chatPageVars
  <2>5. UNCHANGED questionVars
    BY <2>1, SMT DEF chatPageVars
  <2>6. UNCHANGED settingVars
    BY <2>1, SMT DEF chatPageVars
  <2>7. UNCHANGED switchVars
    BY <2>1, SMT DEF chatPageVars
  <2>8. UNCHANGED transitionVars
    BY <2>1, SMT DEF chatPageVars
  <2>9. UNCHANGED slashVars
    BY <2>1, SMT DEF pageVars
  <2>10. UNCHANGED pickerVars
    BY <2>1, SMT DEF pageVars
  <2>11. UNCHANGED folderVars
    BY <2>1, SMT DEF pageVars
  <2>12. UNCHANGED followVars
    BY <2>1, SMT DEF pageVars
  <2>13. UNCHANGED recallVars
    BY <2>1, SMT DEF pageVars
  <2>14. UNCHANGED probeVars
    BY <2>1, SMT DEF pageVars
  <2>15. UNCHANGED pullVars
    BY <2>1, SMT DEF pageVars
  <2>16. UNCHANGED targetVars
    BY <2>1, SMT DEF pageVars
  <2>17. UNCHANGED traceVars
    BY <2>1, SMT DEF pageVars
  <2>18. UNCHANGED customVars
    BY <2>1, SMT DEF pageVars
  <2>19. UNCHANGED bannerVars
    BY <2>1, SMT DEF chatPageVars
  <2>20. UNCHANGED modalVars
    BY <2>1, SMT DEF chatPageVars
  <2>21. UNCHANGED handoverVars
    BY <2>1, SMT DEF chatPageVars
  <2>22. UNCHANGED gitVars
    BY <2>1, SMT DEF pageVars
  <2>23. UNCHANGED pollVars
    BY <2>1, SMT DEF pageVars
  <2>. QED
    BY <2>1, <2>2, <2>3, <2>4, <2>5, <2>6, <2>7, <2>8, <2>9, <2>10, <2>11, <2>12, <2>13,
       <2>14, <2>15, <2>16, <2>17, <2>18, <2>19, <2>20, <2>21, <2>22, <2>23
<1>. QED
  BY <1>1, <1>2

\* The part that runs keeps its invariant, by its own proof.
LEMMA PageStep ==
  ASSUME PageIInv, [Next]_clientVars
  PROVE  PageIInv'
<1>. USE OnePartSteps
<1>1. scene' = scene
  OBVIOUS
<1>2. CASE scene = "history"
  <2>1. ChatIInv /\ [ChatNext]_chatVars
    BY <1>2 DEF PageIInv
  <2>2. ChatIInv'
    BY <2>1, ChatStepOK
  <2>. QED
    BY <1>1, <1>2, <2>2 DEF PageIInv
<1>3. CASE scene = "list"
  <2>1. ListIInv /\ [ListNext]_listVars
    BY <1>3 DEF PageIInv
  <2>2. ListIInv'
    BY <2>1, ListStepOK
  <2>. QED
    BY <1>1, <1>3, <2>2 DEF PageIInv
<1>4. CASE scene = "composer"
  <2>1. ComposerIInv /\ [ComposerNext]_composerVars
    BY <1>4 DEF PageIInv
  <2>2. ComposerIInv'
    BY <2>1, ComposerStepOK
  <2>. QED
    BY <1>1, <1>4, <2>2 DEF PageIInv
<1>5. CASE scene = "question"
  <2>1. QuestionIInv /\ [QuestionNext]_questionVars
    BY <1>5 DEF PageIInv
  <2>2. QuestionIInv'
    BY <2>1, QuestionStepOK
  <2>. QED
    BY <1>1, <1>5, <2>2 DEF PageIInv
<1>6. CASE scene = "settings"
  <2>1. SettingIInv /\ [SettingNext]_settingVars
    BY <1>6 DEF PageIInv
  <2>2. SettingIInv'
    BY <2>1, SettingStepOK
  <2>. QED
    BY <1>1, <1>6, <2>2 DEF PageIInv
<1>7. CASE scene = "switch"
  <2>1. SwitchIInv /\ [SwitchNext]_switchVars
    BY <1>7 DEF PageIInv
  <2>2. SwitchIInv'
    BY <2>1, SwitchStepOK
  <2>. QED
    BY <1>1, <1>7, <2>2 DEF PageIInv
<1>8. CASE scene = "transition"
  <2>1. TransitionIInv /\ [TransitionNext]_transitionVars
    BY <1>8 DEF PageIInv
  <2>2. TransitionIInv'
    BY <2>1, TransitionStepOK
  <2>. QED
    BY <1>1, <1>8, <2>2 DEF PageIInv
<1>9. CASE scene = "slash"
  <2>1. SlashIInv /\ PaletteIInv /\ [SlashNext]_slashVars
    BY <1>9 DEF PageIInv
  <2>2. (SlashIInv /\ PaletteIInv)'
    BY <2>1, SlashStepOK, PaletteStepOK
  <2>. QED
    BY <1>1, <1>9, <2>2 DEF PageIInv
<1>10. CASE scene = "picker"
  <2>1. PickerIInv /\ [PickerNext]_pickerVars
    BY <1>10 DEF PageIInv
  <2>2. PickerIInv'
    BY <2>1, PickerStepOK
  <2>. QED
    BY <1>1, <1>10, <2>2 DEF PageIInv
<1>11. CASE scene = "folder"
  <2>1. FolderIInv /\ [FolderNext]_folderVars
    BY <1>11 DEF PageIInv
  <2>2. FolderIInv'
    BY <2>1, FolderStepOK
  <2>. QED
    BY <1>1, <1>11, <2>2 DEF PageIInv
<1>12. CASE scene = "follow"
  <2>1. FollowIInv /\ [FollowNext]_followVars
    BY <1>12 DEF PageIInv
  <2>2. FollowIInv'
    BY <2>1, FollowStepOK
  <2>. QED
    BY <1>1, <1>12, <2>2 DEF PageIInv
<1>13. CASE scene = "recall"
  <2>1. RecallIInv /\ [RecallNext]_recallVars
    BY <1>13 DEF PageIInv
  <2>2. RecallIInv'
    BY <2>1, RecallStepOK
  <2>. QED
    BY <1>1, <1>13, <2>2 DEF PageIInv
<1>14. CASE scene = "probe"
  <2>1. ProbeAll /\ [ProbeNext]_probeVars
    BY <1>14 DEF PageIInv
  <2>2. ProbeAll'
    BY <2>1, ProbeStepOK
  <2>. QED
    BY <1>1, <1>14, <2>2 DEF PageIInv
<1>15. CASE scene = "pull"
  <2>1. PullIInv /\ [PullNext]_pullVars
    BY <1>15 DEF PageIInv
  <2>2. PullIInv'
    BY <2>1, PullStepOK
  <2>. QED
    BY <1>1, <1>15, <2>2 DEF PageIInv
<1>16. CASE scene = "target"
  <2>1. TargetIInv /\ [TargetNext]_targetVars
    BY <1>16 DEF PageIInv
  <2>2. TargetIInv'
    BY <2>1, TargetStepOK
  <2>. QED
    BY <1>1, <1>16, <2>2 DEF PageIInv
<1>17. CASE scene = "trace"
  <2>1. TraceIInv /\ [TraceNext]_traceVars
    BY <1>17 DEF PageIInv
  <2>2. TraceIInv'
    BY <2>1, TraceStepOK
  <2>. QED
    BY <1>1, <1>17, <2>2 DEF PageIInv
<1>18. CASE scene = "custom"
  <2>1. CustomIInv /\ [CustomNext]_customVars
    BY <1>18 DEF PageIInv
  <2>2. CustomIInv'
    BY <2>1, CustomStepOK
  <2>. QED
    BY <1>1, <1>18, <2>2 DEF PageIInv
<1>19. CASE scene = "permission"
  <2>1. BannerIInv /\ [BannerNext]_bannerVars
    BY <1>19 DEF PageIInv
  <2>2. BannerIInv'
    BY <2>1, BannerStepOK
  <2>. QED
    BY <1>1, <1>19, <2>2 DEF PageIInv
<1>20. CASE scene = "modal"
  <2>1. ModalIInv /\ [ModalNext]_modalVars
    BY <1>20 DEF PageIInv
  <2>2. ModalIInv'
    BY <2>1, ModalStepOK
  <2>. QED
    BY <1>1, <1>20, <2>2 DEF PageIInv
<1>21. CASE scene = "handover"
  <2>1. HandoverIInv /\ [HandoverNext]_handoverVars
    BY <1>21 DEF PageIInv
  <2>2. HandoverIInv'
    BY <2>1, HandoverStepOK
  <2>. QED
    BY <1>1, <1>21, <2>2 DEF PageIInv
<1>22. CASE scene = "git"
  <2>1. GitIInv /\ [GitNext]_gitVars
    BY <1>22 DEF PageIInv
  <2>2. GitIInv'
    BY <2>1, GitStepOK
  <2>. QED
    BY <1>1, <1>22, <2>2 DEF PageIInv
<1>23. CASE scene = "poller"
  <2>1. PollIInv /\ [PollNext]_pollVars
    BY <1>23 DEF PageIInv
  <2>2. PollIInv'
    BY <2>1, PollStepOK
  <2>. QED
    BY <1>1, <1>23, <2>2 DEF PageIInv
<1>. QED
  BY <1>1, <1>2, <1>3, <1>4, <1>5, <1>6, <1>7, <1>8, <1>9, <1>10, <1>11, <1>12, <1>13,
     <1>14, <1>15, <1>16, <1>17, <1>18, <1>19, <1>20, <1>21, <1>22, <1>23 DEF PageIInv

\* Each part of the page keeps its promise as long as it runs: no row, card, banner, draft
\* or model is shown that the server, the user or the history of the browser belies
\* (app/app.js and the modules beside it).
THEOREM PageIsSound == Spec => []PageSound
<1>1. Init => PageIInv
  BY PageStart
<1>2. PageIInv /\ [Next]_clientVars => PageIInv'
  BY PageStep
<1>3. PageIInv => PageSound
  <2>1. ChatIInv => HistoryComplete
    BY HistoryIsWhole
  <2>2. ListIInv => RowsHonest
    BY DEF ListIInv
  <2>3. ComposerIInv => SendIsWhole
    BY SendsAreWhole
  <2>4. QuestionIInv => CardIsLive
    BY QuestionAssumption DEF QuestionIInv, CardIsLive, MayLeave, EndUnderWay
  <2>5. SettingIInv => DefaultsYield
    BY DEF SettingIInv
  <2>6. SwitchIInv => PanelFollowsServer
    BY DEF SwitchIInv, SwitchTold, PanelFollowsServer
  <2>7. TransitionIInv => PicksAreWhole
    BY PicksAreSound
  <2>8. SlashIInv /\ PaletteIInv => SlashSound
    BY SlashIsSound
  <2>9. PickerIInv => GroupedAsRendered
    BY DEF PickerIInv
  <2>10. FolderIInv => FolderIsAsked
    BY DEF FolderIInv
  <2>11. FollowIInv => FollowsUser
    BY DEF FollowIInv
  <2>12. RecallIInv => DraftKept
    BY DEF RecallIInv, RecallKept, DraftKept, ShowsPrompt, RecallChats
  <2>13. ProbeAll => ProbesSound
    BY DEF ProbeAll, ProbeIInv, ProbeShown, ProbesSound, Unanswered
  <2>14. PullIInv => PullEnds
    BY DEF PullIInv
  <2>15. TargetIInv => OneCreation
    BY DEF TargetIInv
  <2>16. TraceIInv => TraceIsOwn
    BY TraceIsSound
  <2>17. CustomIInv => CustomIsShown
    BY OneRowIsShown
  <2>18. BannerIInv => BannerSound
    BY BannerIsSound
  <2>19. ModalIInv => HistoryFits
    BY HistoryIsFit
  <2>20. HandoverIInv => HandoversKeep
    BY HandoversAreKept
  <2>21. GitIInv => GitIsOwn
    BY GitIsOfChat
  <2>22. PollIInv => PollsGoOn
    BY DEF PollIInv
  <2>. QED
    BY SMTT(30), <2>1, <2>2, <2>3, <2>4, <2>5, <2>6, <2>7, <2>8, <2>9, <2>10, <2>11, <2>12, <2>13,
       <2>14, <2>15, <2>16, <2>17, <2>18, <2>19, <2>20, <2>21, <2>22 DEF PageIInv, PageSound
<1>. QED
  BY <1>1, <1>2, <1>3, PTL DEF Spec
=============================================================================
