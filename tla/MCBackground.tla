----------------------------- MODULE MCBackground -----------------------------
(***************************************************************************)
(* The parts that work in the background, checked in one run: the control  *)
(* of the sync, the realtime workers, the saved watchlist and the removal  *)
(* of symbols that cannot be fetched.  Each behaviour is a behaviour of    *)
(* one part, chosen at the start.                                          *)
(***************************************************************************)
EXTENDS SyncControl, Sequences

CONSTANTS Absent, Name, NoFile

VARIABLE which   \* the part that runs, chosen at the start

\* In the run three threads per producer: the current one, an old one and one more.
CONSTANTS WorkerSlots,
          WorkerCrashes   \* bound: workers that die by themselves
ASSUME WorkersAssumption == "none" \notin WorkerSlots

VARIABLES workersOn, workersThread, workersWorker, workersOp, workersCrashes
Rw == INSTANCE RealtimeWorkers WITH
    Slots <- WorkerSlots, MaxCrashes <- WorkerCrashes, on <- workersOn,
    thread <- workersThread, worker <- workersWorker, op <- workersOp, crashes <- workersCrashes
workersVars == <<workersOn, workersThread, workersWorker, workersOp, workersCrashes>>

\* In the run two requests are about two symbols, one of them a default, with
\* room for one.
CONSTANTS ListSymbols, ListDefaults, ListRequests, ListCapacity,
          ListLoads   \* bound: reloads after the first
ASSUME ListAssumption ==
    /\ ListSymbols \ ListDefaults # {} /\ ListLoads \in Nat
    /\ Absent \notin ListRequests \cup {Name} /\ Name \notin ListRequests
    /\ NoFile \notin [ListSymbols -> ListRequests \cup {Name, Absent}]

VARIABLES watchlistMem, watchlistLoadError, watchlistFile, watchlistLegacy, watchlistSaver,
          watchlistReq, watchlistBooted, watchlistLoads, watchlistLoaded, watchlistTainted,
          watchlistAcked
Wl == INSTANCE Watchlist WITH
    Symbols <- ListSymbols, Defaults <- ListDefaults, Requests <- ListRequests,
    Capacity <- ListCapacity, MaxLoads <- ListLoads, Absent <- Absent, Name <- Name,
    NoFile <- NoFile, mem <- watchlistMem,
    loadError <- watchlistLoadError, file <- watchlistFile, legacy <- watchlistLegacy,
    saver <- watchlistSaver, req <- watchlistReq, booted <- watchlistBooted,
    loads <- watchlistLoads, loaded <- watchlistLoaded, tainted <- watchlistTainted,
    acked <- watchlistAcked
watchlistVars == <<watchlistMem, watchlistLoadError, watchlistFile, watchlistLegacy,
      watchlistSaver, watchlistReq, watchlistBooted, watchlistLoads, watchlistLoaded,
      watchlistTainted, watchlistAcked>>

\* What the user has stocks of, and what of it the provider refuses.
CONSTANTS FetchListed, FetchDead, RemovalThreshold, SingleFetches,
          FetchEdits,    \* bound: changes the user makes
          FetchOutages   \* bound: answers and saves that fail, rate limits
ASSUME FetchAssumption ==
    /\ FetchListed \in Seq({FetchListed[i] : i \in DOMAIN FetchListed})
    /\ \A i, j \in DOMAIN FetchListed : FetchListed[i] = FetchListed[j] => i = j
    /\ RemovalThreshold \in Nat \ {0} /\ SingleFetches \in Nat
    /\ FetchEdits \in Nat /\ FetchOutages \in Nat

\* Of the three symbols checked the provider refuses two.
CheckedListed == <<"a", "b", "c">>

VARIABLES fetchList, fetchFile, fetchRows, fetchStreak, fetchPc, fetchItems, fetchResults,
          fetchRemoved, fetchEdits, fetchOutages, fetchDropped
Sf == INSTANCE SyncFetch WITH
    Listed <- FetchListed, Dead <- FetchDead, Threshold <- RemovalThreshold,
    Fallbacks <- SingleFetches, MaxEdits <- FetchEdits, MaxOutages <- FetchOutages,
    list <- fetchList, file <- fetchFile, rows <- fetchRows,
    streak <- fetchStreak, pc <- fetchPc, items <- fetchItems, results <- fetchResults,
    removed <- fetchRemoved, edits <- fetchEdits, outages <- fetchOutages,
    dropped <- fetchDropped
fetchVars == <<fetchList, fetchFile, fetchRows, fetchStreak, fetchPc, fetchItems, fetchResults,
      fetchRemoved, fetchEdits, fetchOutages, fetchDropped>>

allVars == <<which, vars, workersVars, watchlistVars, fetchVars>>

-----------------------------------------------------------------------------
\* A part that is not chosen stays in one of its initial states.
MCInit ==
    /\ which \in {"sync", "workers", "watchlist", "fetch"}
    /\ Init
    /\ Rw!Init
    /\ Wl!Init /\ (which # "watchlist" => watchlistFile = NoFile /\ ~watchlistLegacy)
    /\ Sf!Init

SyncRuns == which = "sync" /\ Next /\ UNCHANGED <<which, workersVars, watchlistVars, fetchVars>>
WorkersRuns ==
    /\ which = "workers" /\ Rw!Next
    /\ UNCHANGED <<which, vars, watchlistVars, fetchVars>>
WatchlistRuns ==
    /\ which = "watchlist" /\ Wl!Next
    /\ UNCHANGED <<which, vars, workersVars, fetchVars>>
FetchRuns == which = "fetch" /\ Sf!Next /\ UNCHANGED <<which, vars, workersVars, watchlistVars>>
\* The bounds of these parts run out; the others may never stop.
Stops == which \in {"workers", "watchlist"} /\ UNCHANGED allVars

MCNext ==
    SyncRuns \/ WorkersRuns \/ WatchlistRuns \/ FetchRuns \/ Stops

\* The fairness of the chosen part, as its module states it.
MCFairness ==
    /\ \A l \in Loops : WF_vars(which = "sync" /\ LoopSync(l))
    /\ \A t \in Threads : WF_vars(which = "sync" /\ ScheduleStep(t))
    /\ \A t \in Runners : WF_vars(which = "sync" /\ SyncStep(t))
    /\ \A w \in Workers : WF_vars(which = "sync" /\ (StartJob(w) \/ JobEnd(w)))
    /\ \A p \in Rw!Producers, i \in WorkerSlots :
          WF_workersVars(which = "workers" /\ Rw!WorkerStep(p, i))
    /\ WF_workersVars(which = "workers" /\ Rw!Start) /\ WF_workersVars(which = "workers" /\ Rw!Watch)
    /\ WF_workersVars(which = "workers" /\ Rw!Stop)
    /\ WF_fetchVars(which = "fetch" /\ Sf!Run)
    /\ SF_fetchVars(which = "fetch" /\ Sf!Prepare /\ fetchItems' # <<>>)

MCSpec == MCInit /\ [][MCNext]_allVars /\ MCFairness

-----------------------------------------------------------------------------
\* Every scheduled sync ends, a request that was told to wait is followed by a
\* sync (control.py:222-228, 279-283), and syncs rid the list of a symbol that the
\* provider refuses.
RequestsAreServed ==
    /\ ScheduledIsServed /\ PendingIsFollowed
    /\ which = "fetch" => Sf!DeadIsDropped

\* services/realtime/engine.py: no two workers of one producer run with the newest
\* epoch, and after crashes and deferred restarts the producers are at work again,
\* TradingView's unless its worker failed while it was the current one.
ProducersComeBack ==
    /\ [](Rw!TypeOK /\ Rw!OneCurrentWorker)
    /\ which = "workers" => Rw!ProducersComeBack

\* storage.py and portfolio.py: the portfolio on disk is not overwritten before
\* it was read, and overlapping saves leave no older snapshot there.
UnreadIsKept == [](Wl!TypeOK /\ Wl!QuietFileMatches) /\ Wl!UnreadIsKept

\* bg/sync/process.py: outages never add up to the removal of a live symbol, and an
\* undone removal puts no old entry over a new one.
LiveStays == [](Sf!TypeOK /\ Sf!LiveStays) /\ Sf!NoStaleEntry
=============================================================================
