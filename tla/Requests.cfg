SPECIFICATION MCSpec
CONSTANTS
  Clients = {a1, a2}
  Tokens = {t1, t2}
  Requests = {r1, r2}
  Window = 2
  MaxRequests = 2
  MaxPolls = 2
  MaxDistinct = 1
  MaxEntries = 2
  None = None
  NewsPool = 4
  RefreshSlots = 1
  MaxNewsRuns = 1
  TitleExpiries = 1
  ToolTurns = 2
  CallsPerTurn = 2
  ToolWorkers = 2
  ToolHistorySlots = 1
  CallShapes = {"quick", "slow", "huge", "junk", "odd"}
  PortfolioTabs = {"c1"}
  PortfolioThemes = {"custom-1"}
  PortfolioPresets = {}
  MaxPortfolios = 1
  HandoffTries = 2
  MaxPortfolioEdits = 1
  HistoryKeys = {"k1", "k2"}
  HistoryThreshold = 2
  HistoryPermits = 1
  HistoryRoom = 2
  HistoryTries = 2
  HistoryCancels = 1
  Searchers = {"w1", "w2"}
  SearchPlans = {"langsearch+tavily"}
  SearchQueries = 2
  EnoughResults = 1
  SearchTimeout = 2
  CallTimeout = 2
  SlotMaxWait = 2
  SearchInterval = 1
  SearchCooldowns = {4}
  SearchTries = 2
  FailuresToOpen = 2
  OpenSeconds = 5
  DdgsPool = 2
  LastStart = 0
  DdgsShutdowns = 1
INVARIANTS
  StatusIsTrue
  EveryCallAnswered
  SlotHasOwner
  BudgetHolds
PROPERTIES
  NothingLeaks
  EndsByDeadline
