SPECIFICATION Spec

CONSTANTS
  \* RequestGate
  GateSessions = {"s1", "s2"}
  GateRequests <- GateRequestsC
  CallLimit = 1
  MaxGrants = 1
  MaxArrived = 2
  \* TurnContext
  CtxSteps = {1, 2, 3}
  CtxTurns = 2
  \* FallbackBodies
  Attempts <- AttemptsC
  MaxEntries = 2
  \* GoalLoop
  Commands = {"c1"}
  MaxGoals = 1
  MaxFailures = 2
  MaxWrites = 1
  \* GoalLoop: the goal line
  WatchSessions = {"a", "b"}
  NoSession = "none"
  MaxSelections = 3
  \* ManagedRegistry
  Folders = {"p", "q"}
  WizardFolders = {"p"}
  Entries = {"x"}
  MaxRequests = 2
  MaxMutations = 1
  \* DndWait
  MaxInputs = 1
  MaxAttempts = 2
  MaxQueued = 1
  \* DndTables
  Narrators = {"a", "b"}
  Campaigns = {"c"}
  NoNarrator = "nobody"
  NoCampaign = "none"
  \* McpRecovery
  Servers = {"a", "b"}
  MaxDelays = 2
  MaxScans = 2
  \* ModelTransition: the model a chat shows
  Models = {"m1", "m2"}
  NoModel = "none"
  MaxSwitches = 2
  MaxReads = 2
  \* ChatHistory
  Chats = {"a", "b"}
  Answering = {"a"}
  NoChat = "none"
  MaxWords = 1
  MaxEvents = 1
  \* PromptQueue
  Prompts = {"p", "q"}
  MaxSignals = 1
  MaxFailed = 1
  \* SessionList
  Rows = {"x", "y"}
  NoRow = "none"
  Handovers = {"m", "n"}
  MaxSaid = 1
  MaxRetyped = 1
  \* Composer
  Texts = {"t"}
  Files = {"f"}
  OpenChats = {"a"}
  NewChat = "new"
  MadeChat = "made"
  NoText = "none"
  MaxOpens = 2
  \* QuestionCard
  Questions = {"p", "q"}
  NoQuestion = "none"
  MaxNews = 1
  MaxLeaves = 1
  \* PanelRefresh
  PanelChats = {"a", "b"}
  NoPanelChat = "none"
  MaxVisits = 3
  MaxChanges = 1
  \* ProjectSettings
  SettingChats = {"a", "b"}
  NoSettingChat = "none"
  MaxOpenings = 2
  MaxRequested = 1
  \* AgentModel
  PlainModels = {"m1"}
  DndModel = "dnd"
  NoRef = "none"
  MaxChoices = 2
  \* LimitsFeed
  LimitViews = {"v", "w"}
  \* LimitsFeed: retry countdowns
  Providers = {"codex", "qwen"}
  Instances = {"p", "q"}
  MaxClock = 2
  MaxDelay = 1
  \* LimitsFeed: the programs of a refresh
  Copies <- CopiesC
  MaxVersion = 1
  \* DndServices: BaselineSpec
  Projections = {"live"}
  MaxCalls = 2
  MaxRevision = 2
  MaxResets = 1
  \* HardwareTurn
  Turns = {"t", "u"}
  Consults = {"c", "d"}
  CallBudget = 1
  ActiveLimit = 1
  MaxRecords = 2
  \* ModelTransition
  PickChats = {"a", "b"}
  MaxPicks = 2
  \* PanelDock
  Sides = {"right", "top"}
  Hosts = {"h", "k"}
  NoHost = "none"
  MinSize = 2
  MaxSize = 3
  MaxZoneChanges = 1
  \* McpExposure
  McpTools = {"x", "y"}
  McpProfiles = {"p", "q"}
  ToolsOf <- ToolsOfC
  DndTools = {"y"}
  Callers = {"root", "kid"}
  ParentOf <- ParentOfC
  NoCaller = "nobody"
  MaxEager = 1
  MaxKnown = 1
  MaxAlterations = 1
  MaxModelSteps = 2
  \* WebServerControl
  FoundServices <- FoundServicesC
  Wizards = {"server", "webserver"}
  Menus = {"server"}
  Users = {"u"}
  MaxControls = 2
  \* LocationRecovery
  Locations = {"p", "q"}
  NoPlace = "none"
  MaxRuns = 2
  MaxRechecks = 2
  \* UiEnhancements: the slash commands
  CommandChats = {"a"}
  NoCommandChat = "none"
  QuickChat = "quick"
  Slashes = {"r", "s"}
  Plain = "plain"
  MaxTyped = 2
  MaxRan = 1
  \* UiEnhancements
  PickerChats = {"a", "b"}
  NoKeys = "none"
  MaxRenders = 3
  MaxFreeReads = 2
  Paths = {"x", "y"}
  Top = "top"
  OnlyRoot = "x"
  MaxBrowses = 2
  MaxPosts = 1
  \* PlanViews
  PlanChats = {"p", "q"}
  MaxTurns = 1
  Askers = {"build", "narrator"}
  MaxAsks = 2
  ViewChats = {"a", "b"}
  NoViewChat = "none"
  MaxFacts = 1
  MaxRoutes = 2
  MaxMissed = 1
  \* DndServices
  MaxArtRuns = 3
  MaxArtFaults = 3
  Portrait = TRUE
  MaxCommits = 1
  Pushes = 2
  Gamers = {"g", "h"}
  Strict = TRUE
  MaxGameTurns = 2
  MaxRouted = 3
  MaxDecisions = 1
  SkillTurns = {"t", "u"}
  ColdRetries = 1
  MaxSkillNews = 2
  AwakeSessions = {"x", "y"}
  \* PageViews
  PageChats = {"a", "b"}
  WriteChats = {"a"}
  NoPageChat = "none"
  MaxStream = 2
  MaxShows = 2
  DraftTexts = {"d"}
  NoDraft = ""
  Earlier = "e"
  Older = "o"
  MaxDrafts = 1
  MaxRecallTurns = 2
  ProbeLimit = 2
  MaxProbes = 2
  MaxPulls = 2
  MaxTargets = 3
  MaxItems = 2
  \* PageViews: the Git state
  GitChats = {"a", "b"}
  NoGitChat = "none"
  Elsewhere = "elsewhere"
  MaxGitVisits = 3
  MaxDiffReads = 2
  MaxTraceVisits = 2
  Tabs = {"t1", "t2"}
  ModelKeys = {"m"}
  \* PermissionBanner
  BannerChats = {"a"}
  NoBannerChat = "none"
  PermAsks = {"o"}
  NoAsk = "nothing"
  AskChat <- AskChatC
  AskKids = {}
  MaxClicks = 2
  \* ModalHistory
  Modals = {"d", "e"}
  NoModal = "none"
  SheetModals = {"d"}
  LongModals = {"e"}
  MaxModalShows = 2
  MaxWalks = 1

INVARIANTS
  TypeOK
  UsageIsAttributed
  HaltStands
  OneNarrator
  ReconnectBudget
  PanelFollows
  FallbackIsOwn
  PromptsAccounted
  QuietWaitHasSeen
  BaselineProven
  PaidOnce
  SettingsKept
  TuiSound
  PageSound

PROPERTY
  FrozenWhileKept

\* Only the component that runs changes.
VIEW OfScene

\* The components stop at the bounds of their inputs.
CHECK_DEADLOCK FALSE
