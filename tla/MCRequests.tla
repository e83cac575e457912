------------------------------ MODULE MCRequests ------------------------------
(***************************************************************************)
(* What a request does with the services behind it, checked in one run:    *)
(* the history quotes and their circuit, the search and the gathering of   *)
(* the news, the tools a model may call, the AI portfolios and the rate    *)
(* limit.  Each behaviour is a behaviour of one part, chosen at the start. *)
(***************************************************************************)
EXTENDS RateLimit, Sequences

VARIABLE which   \* the part that runs, chosen at the start

\* In the run two searches start together, by LangSearch or Tavily, then by DDGS.
CONSTANTS Searchers, SearchPlans, SearchQueries, EnoughResults, SearchTimeout, CallTimeout,
          SlotMaxWait, SearchInterval, SearchCooldowns, SearchTries, FailuresToOpen,
          OpenSeconds, DdgsPool,
          LastStart,      \* bound: the last tick a search starts in
          DdgsShutdowns   \* bound: teardowns of the DDGS pool
ASSUME SearchAssumption ==
    /\ SearchQueries \in Nat /\ EnoughResults \in Nat /\ SearchTimeout \in Nat /\ CallTimeout \in Nat
    /\ SlotMaxWait \in Nat /\ SearchInterval \in Nat /\ SearchCooldowns \subseteq Nat
    /\ SearchTries \in Nat \ {0} /\ FailuresToOpen \in Nat \ {0} /\ OpenSeconds \in Nat
    /\ DdgsPool \in Nat /\ LastStart \in Nat /\ DdgsShutdowns \in Nat

VARIABLES searchNow, searchNext, searchCircuit, searchLastSent, searchPc, searchPlan,
          searchDeadline, searchQuery, searchTries, searchGot, searchWake, searchOwns,
          searchJob, searchShutdowns
Se == INSTANCE SearchChain WITH
    Workers <- Searchers, Plans <- SearchPlans, Queries <- SearchQueries,
    Limit <- EnoughResults, Total <- SearchTimeout, CallMax <- CallTimeout,
    MaxWait <- SlotMaxWait, Interval <- SearchInterval, Cooldowns <- SearchCooldowns,
    MaxTries <- SearchTries, Threshold <- FailuresToOpen, OpenFor <- OpenSeconds,
    PoolSize <- DdgsPool, MaxStart <- LastStart, MaxShutdowns <- DdgsShutdowns,
    now <- searchNow, next <- searchNext, circuit <- searchCircuit, lastSent <- searchLastSent,
    pc <- searchPc, plan <- searchPlan, deadline <- searchDeadline, query <- searchQuery,
    tries <- searchTries, got <- searchGot, wake <- searchWake, owns <- searchOwns,
    job <- searchJob, shutdowns <- searchShutdowns
searchVars == <<searchNow, searchNext, searchCircuit, searchLastSent, searchPc, searchPlan,
      searchDeadline, searchQuery, searchTries, searchGot, searchWake, searchOwns, searchJob,
      searchShutdowns>>

CONSTANTS NewsPool, RefreshSlots,
          MaxNewsRuns,    \* bound: runs of the news job
          TitleExpiries   \* bound: expiries of cached titles
ASSUME NewsAssumption ==
    NewsPool \in Nat /\ RefreshSlots \in Nat /\ MaxNewsRuns \in Nat /\ TitleExpiries \in Nat

VARIABLES newsPc, newsForced, newsFut, newsOrphans, newsDone, newsStatus, newsUsed, newsBundle,
          newsStored, newsTitles, newsInflight, newsRefresh, newsRuns, newsExpiries
Ng == INSTANCE NewsGather WITH
    PoolSize <- NewsPool, Slots <- RefreshSlots, MaxRuns <- MaxNewsRuns,
    MaxExpiries <- TitleExpiries, pc <- newsPc, forced <- newsForced, fut <- newsFut,
    orphans <- newsOrphans, done <- newsDone,
    status <- newsStatus, used <- newsUsed, bundle <- newsBundle, stored <- newsStored,
    titles <- newsTitles, inflight <- newsInflight, refresh <- newsRefresh, runs <- newsRuns,
    expiries <- newsExpiries
newsVars == <<newsPc, newsForced, newsFut, newsOrphans, newsDone, newsStatus, newsUsed,
      newsBundle, newsStored, newsTitles, newsInflight, newsRefresh, newsRuns, newsExpiries>>

\* A model gives its calls ids, of a length that both loops take.
CONSTANTS ToolTurns, CallsPerTurn, ToolWorkers, ToolHistorySlots, CallShapes
ASSUME ToolsAssumption ==
    /\ ToolTurns \in Nat \ {0} /\ CallsPerTurn \in Nat \ {0}
    /\ ToolWorkers \in Nat /\ ToolHistorySlots \in Nat
    /\ CallShapes \subseteq {"quick", "slow", "huge", "junk", "odd"}

VARIABLES toolsProvider, toolsTurn, toolsPc, toolsCalls, toolsSaid, toolsTold, toolsTask,
          toolsRaised
Tl == INSTANCE ToolLoop WITH
    Iterations <- ToolTurns, MaxPerTurn <- CallsPerTurn, Workers <- ToolWorkers,
    HistorySlots <- ToolHistorySlots, Shapes <- CallShapes, provider <- toolsProvider,
    turn <- toolsTurn, pc <- toolsPc, calls <- toolsCalls, said <- toolsSaid,
    told <- toolsTold, task <- toolsTask, raised <- toolsRaised
toolsVars == <<toolsProvider, toolsTurn, toolsPc, toolsCalls, toolsSaid, toolsTold, toolsTask,
      toolsRaised>>

CONSTANTS PortfolioTabs, PortfolioThemes, PortfolioPresets, MaxPortfolios, HandoffTries,
          MaxPortfolioEdits   \* bound: portfolios saved or deleted by the user
ASSUME PortfolioAssumption ==
    /\ PortfolioThemes # {} /\ None \notin {"generate", "rebalance"} \X PortfolioThemes
    /\ MaxPortfolios \in Nat \ {0} /\ HandoffTries \in Nat /\ MaxPortfolioEdits \in Nat

VARIABLES portfolioSaved, portfolioInflight, portfolioResults, portfolioSlot, portfolioJob,
          portfolioTab, portfolioEdits, portfolioEdited
Ap == INSTANCE AiPortfolios WITH
    Tabs <- PortfolioTabs, Themes <- PortfolioThemes, Presets <- PortfolioPresets,
    MaxSaved <- MaxPortfolios, Attempts <- HandoffTries, None <- None,
    MaxEdits <- MaxPortfolioEdits, saved <- portfolioSaved, inflight <- portfolioInflight,
    results <- portfolioResults, slot <- portfolioSlot, job <- portfolioJob,
    tab <- portfolioTab, edits <- portfolioEdits, edited <- portfolioEdited
portfolioVars == <<portfolioSaved, portfolioInflight, portfolioResults, portfolioSlot,
      portfolioJob, portfolioTab, portfolioEdits, portfolioEdited>>

\* In the run two periods of the symbol share one permit.
CONSTANTS HistoryKeys, HistoryThreshold, HistoryPermits, HistoryRoom, HistoryTries,
          HistoryCancels   \* bound: jobs cancelled in the queue
ASSUME HistoryAssumption ==
    /\ IsFiniteSet(HistoryKeys) /\ HistoryPermits \in Nat
    /\ HistoryThreshold \in Nat \ {0} /\ HistoryTries \in Nat \ {0} /\ HistoryCancels \in Nat

VARIABLES historyCircuit, historyLimited, historyFree, historyInflight, historyJob,
          historyCache, historyCancels, historyOrphans
Hf == INSTANCE HistoryFetch WITH
    Keys <- HistoryKeys, Threshold <- HistoryThreshold, Slots <- HistoryPermits,
    Room <- HistoryRoom, Tries <- HistoryTries, MaxCancels <- HistoryCancels,
    circuit <- historyCircuit, limited <- historyLimited, free <- historyFree,
    inflight <- historyInflight, job <- historyJob, cache <- historyCache,
    cancels <- historyCancels, orphans <- historyOrphans
historyVars == <<historyCircuit, historyLimited, historyFree, historyInflight, historyJob,
      historyCache, historyCancels, historyOrphans>>

allVars == <<which, vars, searchVars, newsVars, toolsVars, portfolioVars, historyVars>>

-----------------------------------------------------------------------------
\* A part that is not chosen stays in one of its initial states.
MCInit ==
    /\ which \in {"rate", "search", "news", "tools", "portfolio", "history"}
    /\ Init
    /\ Se!Init /\ (which # "search" => searchCircuit.status = "CLOSED")
    /\ Ng!Init /\ (which # "news" => newsOrphans = 0 /\ newsStored = {})
    /\ Tl!Init /\ (which # "tools" => toolsProvider = "mistral")
    /\ Ap!Init
    /\ Hf!Init

RateRuns ==
    /\ which = "rate" /\ Next
    /\ UNCHANGED <<which, searchVars, newsVars, toolsVars, portfolioVars, historyVars>>
SearchRuns ==
    /\ which = "search" /\ Se!Next
    /\ UNCHANGED <<which, vars, newsVars, toolsVars, portfolioVars, historyVars>>
NewsRuns ==
    /\ which = "news" /\ Ng!Next
    /\ UNCHANGED <<which, vars, searchVars, toolsVars, portfolioVars, historyVars>>
ToolsRuns ==
    /\ which = "tools" /\ Tl!Next
    /\ UNCHANGED <<which, vars, searchVars, newsVars, portfolioVars, historyVars>>
PortfolioRuns ==
    /\ which = "portfolio" /\ Ap!Next
    /\ UNCHANGED <<which, vars, searchVars, newsVars, toolsVars, historyVars>>
HistoryRuns ==
    /\ which = "history" /\ Hf!Next
    /\ UNCHANGED <<which, vars, searchVars, newsVars, toolsVars, portfolioVars>>
\* The bounds of these parts run out; the others may never stop.
Stops == which \in {"rate", "search", "news", "tools", "portfolio", "history"} /\ UNCHANGED allVars

MCNext ==
    RateRuns \/ SearchRuns \/ NewsRuns \/ ToolsRuns \/ PortfolioRuns \/ HistoryRuns \/ Stops

MCSpec == MCInit /\ [][MCNext]_allVars

-----------------------------------------------------------------------------
\* langsearch.py: a search is over by its deadline, a claimed probe has its
\* search, and no two requests leave in one interval.
EndsByDeadline == [](Se!TypeOK /\ Se!EndsByDeadline /\ Se!ProbeHasSearch) /\ Se!OnePerInterval

\* services/news: what the page is told of a source is what the model was given,
\* no summary is drawn from nothing, and a mark has its refresh.
StatusIsTrue == Ng!TypeOK /\ Ng!StatusIsTrue /\ Ng!NothingInvented /\ Ng!MarkHasRefresh

\* ai_service.py, openai_service.py: every message with tool calls is followed
\* by one answer for each, under the id of the call.
EveryCallAnswered == Tl!TypeOK /\ Tl!EveryCallAnswered

\* routes/stocks/ai_portfolio.py: a theme is generated by one job at a time,
\* and who waits on an entry waits on a job.
SlotHasOwner == Ap!TypeOK /\ Ap!SlotHasOwner /\ Ap!EntryHasJob

\* route_helpers.py: the budget of a client bounds what passes in a window,
\* whatever tokens it polls with and whatever the store evicts.
BudgetHolds == TypeOK /\ BudgetIsOfBuckets /\ QuotaHolds /\ StoreIsBounded

\* services/stock/quotes.py: no permit or key in flight is left behind, and a
\* probe job resolves its claim.
NothingLeaks == [](Hf!TypeOK /\ Hf!NothingLeaks) /\ Hf!ProbeIsResolved
=============================================================================
