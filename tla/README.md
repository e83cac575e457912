# Verification of mistral_nex_stocks

TLA+ models of the concurrent and fault-handling parts of the stock dashboard, the TLC runs that
check them, and TLAPS proofs of what matters most. The program is a Flask application served by
threads: requests, a handful of background loops and a few small executors share in-memory caches,
counters and flags under locks, write a few files, call services that fail, block and rate-limit,
and feed open pages over server-sent events (SSE). What is hard to test in it is what its threads
and processes do *between* two locks, two writes or two calls. That is what the modules are about.

`PROJECT.json` is the index: components, runs, the mutants each property must reject, the map from
definitions to the lines they model, findings, hazards and theorems.

## 1. The system

### Parts and state

| Part | Files | State | Operations | Module |
|---|---|---|---|---|
| SSE announcer and replay log | `messaging.py`, `bg/common.py` | listener queues (bounded), window of recorded events, id counter that wraps | listen, announce, close; emit, contains, replay_after | SseStream |
| SSE endpoint and page | `routes/stocks/stream.py`, `static/js/api*.js` | one generator per connection, the page's last event id | register, replay, initial snapshot, loop, unwind; receive, reconnect | SseStream |
| SSE admission limiter | `messaging.py`, `routes/stocks/stream.py` | count of reservations | reserve, release (three places) | SseLimiter, AdmissionBudget |
| Market publishing | `bg/common.py`, `bg/sync/process.py`, `bg/sse_interpolator.py`, `route_helpers.py` | target and shown rows, payload generation, base of the next diff | write rows, invalidate, announce, shared snapshot | MarketPublish |
| Realtime engine | `services/realtime/engine.py` | registration tokens, epoch, rows, clients with dirty sets | register, fetch, deliver, wait, drain, purge | RealtimeEngine |
| Realtime workers | `engine.py`, `tv_client.py`, `scrapers.py`, the watchdog in `bg/sync/control.py` | three worker threads, their epochs | start, stop, restart, replace itself | RealtimeWorkers |
| Quote providers | `services/realtime/scrapers.py`, `market_state.py` | pauses, cooldowns, streaks, block window | ask primary and fallbacks, mark blocked | ScraperChain |
| Sync control | `bg/sync/control.py`, `state.py`, `execution_state.py` | execution lock, `is_syncing`, scheduled / pending / forced, executor queue | sync, recover, take over, schedule, run a job | SyncControl |
| Sync fetch | `bg/sync/fetch.py`, `process.py` | items, failure streaks | fetch batches, judge, remove, save, roll back, merge | SyncFetch |
| Watchlist storage | `utils/storage.py`, `routes/stocks/views.py`, `portfolio.py` | list in memory, file, legacy file, load error | add, update, delete, reset, save, undo, load, migrate | Watchlist |
| Configuration, credentials | `config/*.py`, `credential_manager.py`, `crypto_utils.py` | file, keyring, cache per process, lock | load, save, put secrets, undo | ConfigStore |
| Shutdown token | `shutdown_manager.py`, `routes/system/shutdown.py` | token in memory and file, used-marker, legacy copies | get or create, consume, validate, commit, rotate | ShutdownToken |
| Leader election | `bg/leader_election.py` | advisory lock or lock file | try, judge stale, reclaim, release | LeaderElection |
| Disk cache | `utils/disk_cache.py`, `app_factory/boot.py` | entry files | set, get, has, clean up, migrate | DiskCache |
| Start of the backend | `native_host/start_backend.py` | start-up lock, PID file, port | look, spawn, write PID, await | BackendStart |
| Native host | `native_host/native_host.py` | pipe position, budgets, manifest cache | read a frame, authenticate, answer | NativeHost |
| Circuit breaker | `market_state.py` and its callers | status, streak, open window, probe claim | ask, claim, report, release | CircuitBreaker (and HistoryFetch, SearchChain) |
| AI calls | `ai_state.py`, `services/ai_service.py`, `openai_service.py` | pacing time stamp, semaphores | reserve, wait, call, roll back, retry | AiCalls |
| AI tools | the same, `services/ai_tools.py` | messages of one request, tool tasks | ask, execute, time out, answer | ToolLoop |
| AI portfolios | `services/ai_portfolio_service.py`, `routes/stocks/ai_portfolio.py` | jobs in flight, theme slots, results, saved file | generate, rebalance, wait, save, delete | AiPortfolios |
| Yahoo sessions | `session_manager.py`, `services/stock/*.py` | sessions, epoch, active set, slots, 429 window | send, rotate, sweep, reap, evict, retry | YahooPool |
| History quotes | `routes/stocks/quotes.py`, `services/stock_service.py` | keys in flight, semaphore, circuit per symbol | request, probe, fetch, cancel, cache | HistoryFetch |
| Single-flight cache | `utils/caching.py` | bucket, event of a fetch, negative entry | get_cached, negative wrapper, clear | CacheFetch |
| Chat | `routes/api_analysis.py`, `utils/chat_history.py` | tokens in flight, outcomes, permits, transcripts | claim, record, run, stream, close, roll back | ChatJobs over ChatHistory |
| Analyses and news jobs | `routes/api_analysis.py` | keys in flight, kept results | claim, submit, finish, renew, poll | AnalysisJobs |
| Search | `services/search/*.py`, `search_service.py` | pacing, circuit, pool | pace, post, retry, collect | SearchChain |
| News | `services/news_service.py`, `search_service.py` | futures, trends being refreshed | fan out, wait, gather, summarise | NewsGather |
| Request rate limit | `route_helpers.py` | buckets of clients and tokens | count, bypass, expire, clean up, evict | RateLimit |
| Validation, formatting, pages, extension, configuration | see `PROJECT.json` | none | | |

### How the parts interact

* A sync that sync control admits reads the watchlist again, fetches through the Yahoo pool, removes
  symbols that do not exist, saves the list and publishes the rows.
* The interpolator and the watchlist routes write the same rows. Publishing diffs them against the last
  published ones and hands the frame to replay log and announcer under one lock.
* A page's stream reserves a slot, registers a queue, reads the log with the cursor the page
  presents, or waits on the realtime engine (mode 2), which the workers and their providers feed.
* Routes that take long claim a key, submit a job and answer "still fetching"; the page polls. Jobs
  pass the circuit, the pace and the semaphores of their service.
* Processes meet in files: the leader's lock, the configuration and the keyring, the disk cache, the
  shutdown token, the PID file and the port.

### Hard behaviours, and what correct means

* *Queues that fill, windows that slide while a page joins, ids that wrap*: no frame falls between
  replay and queue, a dropped page is told and its stream ends.
* *Rows copied under one lock and published under another*: diffs compose for every listener.
* *A fetch that ends after its symbol was removed, registered again, or its engine restarted*: no row
  without a registration; a waiting client catches up.
* *A run that outlasts its time, its recovery and its takeover*: no flag outlives what it stands for.
* *A removal, an edit or an update saved outside the lock that made it*: what cannot be saved is undone and
  nothing else is; a file that was not read is not overwritten.
* *Crashes between two writes, two files, a file and the keyring*: a spent token stays spent, a committed setting
  stays, credentials and their entries agree.
* *Services that fail for a while, block, answer late or never*: every claim, permit, slot and key
  comes back, and every wait ends.
* *Requests that share a store under several locks*: one job per key; quotas and counts are exact.

Every such place is a hazard in `PROJECT.json`, at its line, with the property that would catch it.

## 2. Modules

Conventions. A variable carries the name of the field it models, where TLA+ allows. A step is what the
code does under one lock, one write to the disk or one call; whatever the code does not hold a lock
over is split. `pc` says where a thread stands. Variables marked *History* are read by the
properties only. Definitions ending in `Mutant` (or named for the fault, such as `JobEndStuck`) are
faulty variants of the definition that follows; nothing uses them, they state which fault a property
is there to reject. Constants whose names begin with `Max` and that a comment calls a bound exist in
the model only; every other constant is a parameter of the program.

* **SseStream**: `Publish` is `_announce_frame`, `StartAnnounce`/`Put` the two halves of `announce`,
  `Connect` … `Disconnect` the generator of `api_stocks_stream`. A frame is the number of its emission,
  `CodeId` the id on the wire, which wraps at `IdMod` (2^32). `MayEmit` bounds how far the counter runs ahead
  of an id that is recorded, queued or held: less than one cycle.
* **SseLimiter** is the count, the reservation with its flag and a request's life through three
  releases; it implements **AdmissionBudget**, a set never larger than `Limit`.
* **MarketPublish**: writers `SyncFetched`/`SyncShow`, `RouteAdd`/`RouteRemove`, `InterpRead`/`InterpWrite`,
  each followed by `Invalidate`, `CopyRows`, `Announce`; `Snapshot*` is a connecting stream's.
* **RealtimeEngine**: one symbol. Callers register (alone or in bulk), unregister and purge; their fetches check, then
  deliver with a second check under the store's lock; the loops check before their callback. A
  registration token is kept as whether it still is the newest. One client drains, waits, is woken,
  stalls and is purged.
* **RealtimeWorkers**: per producer the threads alive, which the engine knows, and whether a thread's
  epoch is the newest. `Stop` walks through `stop()` in its order, `Watch` is the watchdog. Any of the three may crash;
  TradingView's then runs its `finally`, which forgets the thread, and no watchdog sees it.
* **ScraperChain**: one symbol and its four providers; `Ask` is one question, `Tick` makes all windows
  shorter. `steady` is the provider that answers when asked (`QuotesKeepComing` needs one).
* **SyncControl**: `TryLock` … `Release` is `sync_all_stocks_now`, `CheckSyncing`/`Claim`/`Submit` is
  `schedule_sync_all_stocks_now`, `StartJob`/`JobEnd` `_run_scheduled_sync_job`. Time is one bit, `overdue`.
* **SyncFetch**: `Prepare`, `Batch*`, `Judge` or (in a rate limit) `JudgeLater`, `SaveOk`/`SaveFails`, `CleanUp`, `Merge` is a run, `Add` and
  `Delete` the user beside it; `Dead` are the symbols that do not exist.
* **Places**: the items at some places of a sequence, found by counting and not by recursion, so that what a removal, a filter
  or a trim leaves can be proved about. SyncFetch, ToolLoop, NativeHost and ChatHistory use it.
* **Watchlist**: `Add`, `AddFromExtension`, `Update`, `Delete`, `Reset`, then `SaveBegin` (snapshot), the
  write, and `Publish` or `Undo`; `Load*` at start and `LoadTurn` in a sync; `Migrated` the plaintext file.
* **ConfigStore**: two processes; an update is `Enter` (both locks), `Loads`, the change of the keyring, `Saved`,
  `Undo`. `Break`/`Repair` is a hand that edits the file badly and puts it right.
* **ShutdownToken**: `Start` … `Serve` is a start with its migration, `Consume`/`Accept`/`Rotate*`,
  `Validate`/`Commit` the operations; `Crash` may follow any write.
* **LeaderElection**: `TryLock` for advisory locks; `Create`, `WritePid`, `Judge`, `Reclaim` for the
  fallback file. Pids are used again.
* **DiskCache**: entries with the time they carry and the time of their file, damage, restores, busy
  locks; `BootBegin`, `MigrateOne`, `MigrateBusy`, `BootEnd` are the removal of portfolio fields.
* **BackendStart**: hosts walk through `start()`; backends bind, wedge and die; another program may
  take a pid or the port, and a PID file may be unreadable. **NativeHost**: the bytes of a frame are counted, not represented.
* **CircuitBreaker**: five operations and three kinds of callers. **AiCalls**: pace, slots and second
  attempts of the chat, stream and compatible callers; `longest` (history) is the last end of all back-offs there
  were. **ToolLoop**: one request; a call is its shape (quick, slow, huge, junk, odd, bare, long), `Cut` and
  `Objects` are what the compatible loop truncates and filters before it builds the message.
* **YahooPool**: threads in requests, sweeps, reaper, eviction, rotation and the retry loop.
  **HistoryFetch**: periods of one symbol that share its circuit and the semaphore.
* **CacheFetch**: one key. **ChatHistory** gives the store's transactions as operators, **ChatJobs** the
  requests, jobs and streams over it. **AnalysisJobs**: news keys (kept and renewed) and analysis keys.
  **AiPortfolios**: tabs, jobs per operation and theme, the theme's slot.
* **SearchChain**: searches with a clock; **NewsGather**: one gathering, its futures and orphans;
  **RateLimit**: buckets as counts per age.

## 3. Runs

A passing run checks several modules that share no variable. Its MC module instantiates each with
variables of its own and lets `which` choose, at the start, the part that runs; the others stay in an initial
state. So the reachable states are the union, not the product, and a run says of each part exactly
what a run of that part alone would say. Two things are done for this. A property of a part that a
part left alone would violate for lack of steps is stated under `which = "…"`, and fairness is guarded the same
way. And several properties of a part are conjoined with its `TypeOK` into one definition, listed below.

The parameters of the parts that the proofs are about are CONSTANTS of the MC module with named assumptions, and get
their values in the .cfg: what a theorem says for all of them, the run checks for these.

| Run | Parts | Properties |
|---|---|---|
| `sse_stream` | SseStream (two pages), MarketPublish, RealtimeEngine | `NoFrameBetweenReplayAndQueue`, `DroppedIsTold`, `ListenerTracksBase`, `SnapshotCoversGeneration`, `BoundRowHasOwner`, `ClientCatchesUp` |
| `streaming` | SseLimiter, SseStream (one page, a server restart) | `BudgetSpec` (implements AdmissionBudget), `SlotComesBack`; `DroppedStreamEnds` (with `LogSound`: the window has no hole), `StreamReachesLoop` |
| `processes` | ShutdownToken, LeaderElection, ConfigStore, DiskCache, BackendStart, NativeHost | `SingleUse`, `ConsumptionIsDurable`; `OneLeader`; `CommittedIsKept` (and a broken file is never replaced), `CredentialsWhole`; `NoHoldingsOnDisk` (and has agrees with get); `NoTwins` (and a backend comes, and somebody is elected again); `AlignedOrClosed` (and secrets are bounded) |
| `background` | SyncControl, RealtimeWorkers, Watchlist, SyncFetch | `SyncingHasRunner`, `ExactlyOneJob`, `RequestsAreServed` (scheduled comes down, pending is followed; dead symbols go); `ProducersComeBack` (but for a TradingView worker that failed with the newest epoch; and neither TradingView nor PTS runs twice); `UnreadIsKept` (and quiet file and memory agree); `LiveStays` (and no stale entry) |
| `upstreams` | CircuitBreaker, ScraperChain, YahooPool, AiCalls | `ProbeHasOwner`, `ProbeSlotReturns`; `QuotesKeepComing`; `NoCloseInFlight`; `NoPhantomSlot`; `CallsReturn` (Yahoo and AI) |
| `jobs` | CacheFetch, ChatJobs over ChatHistory, AnalysisJobs, AiPortfolios | `SingleFlight`; `SlotsExact` (and a transcript keeps the system message of its introduction); `OneJobPerKey`; `ClaimsAreReleased` (keys and tokens of all four) |
| `requests` | HistoryFetch, SearchChain, NewsGather, ToolLoop, AiPortfolios, RateLimit | `NothingLeaks` (and a probe is resolved); `EndsByDeadline` (and one request per interval); `StatusIsTrue` (and nothing is invented); `EveryCallAnswered`; `SlotHasOwner` (and entries have jobs); `BudgetHolds` (quota, distinct tokens, size) |
| `sse_stream_hole` | SseStream | **Refuted**: `NoStreamHole` |
| `market_publish_lost` | MarketPublish | **Refuted**: `InvalidationIsPublished` |
| `shutdown_token_revival` | ShutdownToken | **Refuted**: `NoRevivalOnRestart` |
| `sync_control_stale` | SyncControl | **Refuted**: `OverdueRunIsTakenOver` |
| `key_opens_data` | ConfigStore | **Refuted**: `KeyOpensData` |

### Bounds, and why they are enough

* SSE: a queue of two already separates its oldest frame from its newest; three broadcasts overflow
  queue and window, and with `IdMod = 4` the counter wraps in the model. `MayEmit` keeps it from lapping a
  page by a whole cycle, 2^32 emissions in the program: a window spanning more than a cycle, which no
  memory holds, or a cursor that old would be taken for a current id. In `sse_stream` the server does not
  restart; in `streaming` it does, once, with one page that keeps its cursor.
* MarketPublish: three writes let every pair of the three writers interleave; `FullEvery = 2` mixes full
  frames and diffs. RealtimeEngine: two callers are a registration with a late fetch and its successor; one quote
  tells a row that is there from one that is not, and a page that shows it from one that does not.
* Processes: ShutdownToken has four tokens and three starts (a legacy token, a start's, two rotations, a crash in two
  starts); LeaderElection two processes and two crashes, so that a pid is used again; ConfigStore two
  processes, one credential or setting each, one failure and one bad edit; DiskCache two keys with room for one;
  BackendStart two hosts, two pids, two faults; NativeHost frames of at most two chunks over the limit.
* Background: one worker is what the executor has; two requests are needed for a duplicate. RealtimeWorkers
  has three places for threads of a producer and two crashes. Watchlist has a default symbol and another, two requests,
  capacity one. SyncFetch has a live and two dead symbols, threshold two.
* Upstreams: the thresholds are small, their comparison is the code's; slots of one make every wait a wait for
  somebody. Two Yahoo threads with a pool of one let eviction, sweep and reaper meet a request.
* Jobs: two requests poll one token and a third competes for the session's place and the one permit. Six rows
  hold an introduction of three and what makes a second session or a trim (`MaxMsgs` five) necessary.
* Requests: two searches under one deadline of two ticks; two tool calls a turn and two turns; two
  periods of one symbol with one permit; two clients and two tokens with a store of two.

Counters without a bound in the code (failures, faults, edits, expiries) are bounded in the guards by the constants
above; liveness properties hold with the bounded faults behind them, that is, once the faults stop.

### Fairness, and why the code justifies it

Fairness is given to steps of threads that are not waiting for anything, and to waits and calls that
have a timeout: a stream's generator and the puts of a broadcast; the unwinding of a request; the end of
an upstream call; threads inside a sync, a scheduling call, `get_cached`, a job or a retry loop; the
watchdog's and the election's polling; the start-up of a spawned backend; the passing of time. Strong
fairness stands where a step is enabled again and again and not continuously: taking a lock others
also take (`TakeLock`, the semaphore of a Yahoo slot), a write that may fail but not for ever
(`WritePid`, `Reclaim`), a sync's turn when the list has something to fetch, and time in the provider chain. `BackendComes`
assumes that the user keeps asking, as it says. Nothing is assumed of pages connecting or
leaving, data changing, requests arriving or values expiring. MarketPublish, RealtimeEngine, Watchlist,
ConfigStore, DiskCache, NativeHost and all of `requests` state safety only and have no fairness.

Deadlock is checked in all passing runs; `Stops` stutters in the parts whose bounds run out and in no other.
The runs of ShutdownToken, MarketPublish and ConfigStore that refute a property switch it off for the same reason.

### Findings

Each is a run whose trace was read against the source.

* `sse_stream_hole`: to end an overflowing listener, `announce` evicts its oldest frame to make room
  for `None` (`messaging.py:131-135`). The page still receives the later frames and resumes from the
  last of them, so the evicted one is never replayed; the comment at `messaging.py:166-168` says why that
  must not be.
* `market_publish_lost`: the generation is read after the rows were copied (`bg/common.py:132-156`). An
  announce of old rows consumes the generation of a newer write, whose own announce then finds
  nothing to do, until the next invalidation.
* `shutdown_token_revival`: a start removes the used-marker before it writes the new token
  (`shutdown_manager.py:116-118`, `155`). After a crash between the two the next start loads the spent
  token. `SingleUse` holds up to exactly this: `torn` is the history variable that records it.
* `sync_control_stale`: recovery by a request clears `is_syncing` and the start time, so the takeover
  in `sync_all_stocks_now` finds nothing stale and the job that the request scheduled skips, as all later syncs
  do until the overdue run ends.
* `key_opens_data`: a configuration file that does not parse is loaded as the defaults, which name no
  master key. `get_or_create_master_key` therefore generates one and `_encode_secret` puts it over the
  stored one in the keyring (`config/master_key.py:93`); `save_config` refuses only then. When the
  file is repaired, what was encrypted before does not open. The comment at `config/master_key.py:75-80`
  promises to fail closed rather than that.

Further properties in the modules are refuted by the same steps as the code; the comment at each gives the
reason and the text it comes from. They are no runs, each being a smaller or rarer case. One has a
configuration beside the runs: `CircuitBreakerProbes.cfg` (`OneProbeAtATime`: batches and second attempts probe
without a claim, and a second release frees another's). The others need only their name as an INVARIANT or
PROPERTY of their module:

| Module | Property | What happens |
|---|---|---|
| SseStream | `NoStreamHole` with `Cap = 20`, `MaxRestarts = 1` | After a restart ids start again, so an old cursor can pass for a current one. |
| AiCalls | `RollbackLeavesNoSlot` with `Backoffs = {2, 4}` | A reservation is rolled back to the end of a back-off, and a later 429 sets that end to an earlier time: the pace stays ahead of the back-off in force (`ai_state.py:241`, `services/ai_service.py:781-789`). |
| MarketPublish | `BuildsPublishedInOrder` with `Syms = {a}`, `MaxWrites = 8` | Rows are copied under one lock and published under another, so older copies may be published after newer ones (`bg/common.py:141`). |
| ShutdownToken | `AuthorisedOnce` with `Committers = {d1}` | `commit_shutdown_token` takes no token and spends the rotated one. |
| HistoryFetch | `ClaimHasProbe` | A probe whose key is already in flight is taken for a running probe although the job in flight is an ordinary one; the claim stays (`routes/stocks/quotes.py:391-397`). |
| AiPortfolios | `DeletedStaysGone` | A job stores its result in the cache after the portfolio was deleted (`routes/stocks/ai_portfolio.py:338`). |
| AiPortfolios | `StubNeverOverwrites` | For a preset theme the fallback stub is saved over a portfolio the model made (`services/ai_portfolio_service.py:1017`). |
| Watchlist | `AckedIsPersisted` | A sync's reload replaces memory between a request's change and its snapshot; the request answers success (`bg/sync/process.py:133`). |
| Watchlist | `UndoIsOwn` | Two updates of one symbol share a dictionary; the undo of one takes back the other's (`routes/stocks/portfolio.py:216`). |
| ChatJobs | `AskedOnce` | A request looks for the outcome before the job ends and claims after it (`routes/api_analysis.py:484`). |
| AnalysisJobs | `RefreshIsDrawnWhenComplete` | A page that asked with `force=true` polls without it and is shown the old bundle (`static/js/api.js:1541`). |
| YahooPool | `WindowIsKept` | A success that passed the test before a 429 was recorded lifts the new window (`services/stock/retry.py:166-172`). |
| DiskCache | `CacheNeverFailsBoot` | An entry that is no text raises an error the start does not catch there (`app_factory/boot.py:112`). |
| ToolLoop | `EveryCallAnswered` with the shape `bare` or `long` | A call without an id is answered under an invented one, one with an id of over 128 characters under the head of it, and the message that is sent keeps the id whole (`services/openai_service.py:1393-1395`). |
| RealtimeWorkers | `DeadProducersComeBack` | A TradingView worker that fails while its epoch is the newest forgets its own thread and switches the client off (`services/realtime/tv_client.py:416-426`); `worker_threads()` omits it, so the watchdog that is to restart the engine "when any internal producer thread died" (`bg/sync/control.py:301`) finds none. |
| LeaderElection | `SoleLeader` | Two processes judge one fallback lock file stale; the second removes what the first just created (`bg/leader_election.py:134-170`). |
| ConfigStore | `CommittedIsKept` with `MaxReadFailures = 1` or `FirstStarts = "together"` | A read error is cached as the defaults, or two first starts both write them (`config/io.py:118`, `:333`). |

## 4. Proofs

TLC checks the instances above; these hold for every value of the constants, under the assumptions
the modules name (`ThreadsAssumption`, `CallersAssumption`, `ConfigAssumption`, …: disjoint kinds of threads, positive
bounds, names that are no marker). A proof module EXTENDS the MC module of its run, so that a theorem is about the very
definition the run checks, and `Xy!Spec` is the specification of the part with its constants left open.

| Module | Theorems |
|---|---|
| SseStreamProofs | `ListenerTracksBaseHolds`, `SnapshotCoversGenerationHolds`; `BoundRowHasOwnerHolds`, `ClientCatchesUpHolds`; `DroppedIsToldHolds`, `NoFrameBetweenReplayAndQueueHolds`, `LogSoundHolds`, `StreamTypeOKHolds` |
| SseLimiterProofs | `BudgetIsExact`, `ListenersWithinBudget`, `LimiterImplementsBudget` |
| ProcessesProofs | `TypesHold`, `SpentOnce`, `SpentIsMarked`; `CredentialsWholeHolds`, `CommittedIsKeptHolds`; `NoHoldingsOnDiskHolds`; `OneLeaderHolds`; `NoTwinsHolds`; `AlignedOrClosedHolds` |
| UpstreamsProofs | `ClaimHasOwner`, `OpensOnlyByFailures`, `CircuitTypes`; `NoPhantomSlotHolds`; `NoCloseInFlightHolds` |
| BackgroundProofs | `SyncTypes`, `SyncingIsRun`, `OneScheduledJob`, `PendingIsBacked`; `UnreadIsKeptHolds`; `OneCurrentWorkerHolds`; `LiveStaysHolds` |
| JobsProofs | `CacheTypes`, `OneFetchAtATime`, `WaitersAreWoken`, `NegativesAreEarned`; `OneJobPerKeyHolds`; `SlotsExactHolds` |
| RequestsProofs | `BudgetHoldsAlways`; `SlotHasOwnerHolds`; `StatusIsTrueHolds`; `EveryCallAnsweredHolds`; `EndsByDeadlineHolds`; `NothingLeaksHolds` |
| PlacesProofs | no theorem of a part: the lemmas about `Places` that the others cite (`Ranks`, `PlacesAre`, `ItemsAre`, `KeptIsCounted`) |

### The arguments

* **Frames (SseStream).** `QueueInv`: the types, the capacity of the queues included; who is attached is served, who was
  dropped has its `None`, and until the server closes the `None` is the last item of its queue. `CursorInv` adds
  that the log is a window of the emissions without a hole (`Window`) and that log, queues, cursors and frames on their way carry numbers less than one cycle
  behind the counter (`Near`), so that wrapped ids compare as the numbers do (`NoWrapBetween`, `RankTells`).
  `FrameInv` adds that what was broadcast since a listener joined is stored for it (`SinceJoined`). A replay then covers
  everything after the cursor (`ReplayCovers`). Each part needs the ones before.
* **Rows (MarketPublish).** `MarketInv`: the base of the next diff is what every listener has; a snapshot's key is never ahead of
  the generation, and what was served under a key covers the writes that the key's invalidation had seen (`Filed`);
  generations never outnumber writes.
* **Realtime engine.** `EngineInv`: a job whose registration is the newest has its symbol registered, so a late fetch
  delivers for somebody or not at all; what is pending was not told and what is not pending was (`Told`); a waiting
  page shows what its client was told (`Shown`).
* **Limiter.** The count is the cardinality of `Holding` and the stage of each request tells its slot: the guard against underflow
  never acts. The refinement follows: a step that changes `Holding` adds one below the limit or removes one.
* **Shutdown token.** One operation is inside the lock; what each caller's stage and each boot step know of memory and
  files; and `Sound` (a spent token in the file has a marker, one in memory is flagged), needed while
  nothing was `torn`. Between the marker and the rotation the file holds a spent token, hence the stages.
* **Configuration and keyring.** `ConfigInv`: one update at a time (`Mutex`); who found no file missed nothing
  (`Blank`); a cache is the file or the mark of a broken one (`CacheTrue`); what an update loaded is still the file
  (`Loaded`); settings are kept; and the entries of the file, the ring and what an update will put back agree
  (`Entries`, `RingWanted`, `BeforeWanted`, `RingNew`). The theorems are about good files that are read (`MaxReadFailures` 0) and first
  starts one after the other (`FirstStarts` "alone"): without these `CommittedIsKept` is refuted, see above.
* **Disk cache.** An entry with portfolio fields is still to do or was skipped; eviction and cleanup only shrink what is
  there. That has agrees with get (`Agreement`) is a fact about every state, as the time to live is at most
  the longest one.
* **Circuit.** A claim implies HALF_OPEN and a unique claimed caller in its call; the streak never
  exceeds the failures since the last success, and an open or half-open circuit has had a full streak.
* **Pace (AiCalls).** `Covered`: the pace is ahead of the clock by at most the longest back-off, or somebody owes it
  (`Owes`): a caller that will abort, or whose wait reaches as far. The back-off has to be the longest there *was*, not the
  one in force, because `mark_mistral_429` may shorten it (`RollbackLeavesNoSlot` above). That semaphores
  are not exceeded needs that who is in a call has its slot (`Held`), a stream that tries again included.
* **Yahoo pool.** Only whoever holds the lock closes, and only a session that was idle when it looked: `BusyIsSeen` says
  that a thread paced or sent had marked its session busy by then, so a sweep, the reaper and an eviction pass it by.
* **Sync control.** `LockHeld` makes the stages between acquire and release exclusive, so whoever clears `is_syncing` in its
  `finally` is the latest run. `OneJob` says without counting where the single job is, which
  also shows that a submit is never refused for lack of room before shutdown.
* **Watchlist.** A change that is in memory and not in the file, of a symbol that no reload or undo took from a request, has
  an owner that will save it or undo it (`ChangeHasOwner`); an older snapshot on its way to the file has one that will save again (`OldSnapshotHasOwner`); and
  a list that could not be read refuses what would overwrite it. Hence an unread file keeps its content.
* **Realtime workers.** Of the PTS threads the one alive is the one the engine knows (`KnownLives`); of TradingView's,
  stopped by epoch, only the last spawned has the newest (`OneGivenEpoch`), whatever crashed or lingers.
* **Sync fetch.** `FetchInv`: only a symbol that does not exist and was answered for has a streak, a refusal or was taken off
  (`OnlyDeadCount`); list, file and what was taken off hold each symbol once, and what they share is the same entry
  (`ListsAgree`), whoever adds or deletes meanwhile. That a removal keeps order and entries (`Part`) and that a rollback
  appends what nobody added again (`Joined`) are lemmas about the places of a sequence.
* **Leader.** Who was given the advisory lock keeps it until it exits, whether its loop has learnt it or not,
  and a process that ended starts without the flag. Assumes that no process is named "free".
* **Start of the backend.** `StartInv`: who is past the start-up lock has it (`StarterHasLock`); a host that
  is about to write an entry spawned the one backend that is not lost (`NoOther`); and a backend that is not lost is named by the PID file or about to be (`BackendIsNamed`), so
  there is one. The theorem is the safety half of `NoTwins`.
* **Native host.** `HostInv`: at each stage the bytes read and the bytes left of the frame add up (`Framed`), so a header
  is read at a boundary; and as far back as stamps are kept, what was given was stamped, but for the one whose request is
  in work (`GivenIsStamped`). What a trim keeps of the stamps in a window is all of them (`RecentKeeps`, by `KeptIsCounted`). The
  second half bounds secrets per window of the clock by the budget and one.
* **Single flight.** `Stage` and `Told`: what event and what answer a caller holds at each stage; `EventHasSetter`: an event
  not set has a setter, also after it left `fetch_events` and another fetch began.
* **Analysis jobs.** `JobInv`: an active job and the claim of its key name each other, and the page between claim and
  submit is the one owner of its job: whoever ends a job frees its own claim.
* **Chat.** `ChatInv`: a permit that is not free is out for one of the open streams (`PermitsAreOut`), which a request joins
  once, as it has no job before (`NoJobYet`), and leaves with the first of its two closers; a question is asked for a recorded request
  (`AskedByRecorded`). The store is `StoreOK`: a session exists exactly when its transcript is not empty, which then begins with the
  system message of its introduction and is short. Each transaction keeps that (`RecordTurnKeeps`, `AppendKeeps`, `PopKeepsStore`), because the
  oldest row of others that a prune deletes is never the first (`PrunedIs`), and a message that is taken back is a user's. That a session without rows
  does not exist is needed for `AppendKeeps`: it would append an answer without an introduction.
* **Rate limit.** `RateInv`: the types and bounds of the store (`StoreOK`), and `Tracks`: as long as a client's
  bucket lives it counts at least what passed in its window, which a trim, a cleanup, an expiry or a tick shifts alike in
  both. Buckets are counted by the set of their stamps, and `Clients`, `Tokens` are finite.
* **AI portfolios.** `PortfolioInv`: the file holds no theme twice and no more than its bound (`FileOK`); a job has its slot
  exactly in the stages between taking and releasing it (`SlotsOK`, a waiter never has); every entry in flight has the job or the tab that will remove it (`EntriesOK`, `JobsOK`).
* **News.** `NewsInv`: live futures of the gathering and orphans of earlier ones fit the pool (`PoolFits`); what is done has a
  result; and the page's status and what the model was given agree (`Agree`).
* **Tools.** `ToolsInv`: while the tools run, what was said are the ids of the calls kept, in their order, no more than a turn
  may have; the tasks in work and those that ask for history are within workers and slots (`TasksOK`). What is kept of the calls is few and in order
  by `ObjectsType`, from `ItemsAre`. The theorem is about calls whose
  ids are answered whole; `bare` and `long` are refuted, see above.
* **Search.** `SearchInv`: who sleeps wakes not before now nor after its deadline; the slots reserved lie an interval apart
  from one another and from the last request (`Spaced`), which is what `OnePerInterval` needs of two searchers; and a claimed
  probe is owned by a search that is in its query.
* **History.** `HistoryInv`: the permits out are exactly the calls (`PermitsOut`); a key is in flight when it has a job or was
  orphaned by a cancellation (`KeysHaveJobs`); no row without a job claims anything, and who asks has a try left
  (`RowsOK`). Every operation is a move of one row (`HistoryMoves`), about which the invariant is shown once.

### What stays with TLC

* Everything under fairness and with ENABLED (`SlotComesBack`, `ProbeSlotReturns`, `QuotesKeepComing`, `CallsReturn`,
  `ClaimsAreReleased`, `RequestsAreServed`, `ProducersComeBack`, `DroppedStreamEnds`, `StreamReachesLoop`, the elections and starts in
  `NoTwins`): out of the prover's reach. The invariants above are what they rest on.
* What a recursion or a fold computes for every input: induction over data takes an operator as a parameter.

`BudgetExact`, `ListenersHoldSlots`, `OpenedByFailures`, `PendingHasJob`, `WaiterHasFetcher`, `NegativeIsEarned` and the
`TypeOK` of the proved modules are proved and not run again; they were model-checked before they were proved, as was
every strengthening.

## 5. Not modelled, and the plan

Not modelled: rendering, parsing, cryptography, HTTP clients, prompts, validation of input, value
conversions, the browser extension, configuration (pure I/O or data without a state machine), the SSE ticket (one
pop under one lock). Left out inside the modelled parts: the indices cache, the market-open flags and the mode-2 announce
(MarketPublish), what `force=True` changes in a fetch (SyncControl), the `openai_compatible` circuit, whose
callers have the form of those modelled, the merging of legacy configuration (ConfigStore), response caches and token
accounting of the AI services, `close_all` at shutdown, which closes Yahoo sessions in use too, and several symbols at once in RealtimeEngine, ScraperChain and HistoryFetch, which keep
everything modelled per symbol except the shared semaphore and block window.

A few steps stand for more than one critical section, each said at its action: the removal of an overflowing listener and
its `None` (`SseStream!Put`), the last record of a stream with what follows it (`ChatJobs!FinishStream`), the look at a
finished job and its removal (`AiPortfolios!AskGenerate`); and `RateLimit` reads its clock when it takes the lock.
`ListenerTracksBase` is about frames and their base: a removed row that the interpolator writes back for one tick
(`bg/sse_interpolator.py:230`) travels like any other. `SoleLeader`, not `OneLeader`, is about the fallback lock file.

Parts that share no variable here touch in the program through narrow interfaces: a frame, a submit, a row, a list that
was saved. Where two real components share state they are in one module: log and announcer; limiter and
both places that release; all writers of the rows; sync and scheduling; requests, loads and saves of the list; job tables
and history.

What is observed and stated nowhere in the repository, so that no property says it: a history write that raises leaves its chat token
claimed for good (`routes/api_analysis.py:523`; `ClaimIsReleased` excepts it by `lost`); a failed job that is no stream keeps its
question in the history; a rolled-back reservation may shorten the pace below a later one's.

Every invariant and every other safety property that a passing run checks is a theorem, but for the types of ScraperChain;
what the runs check beyond them is liveness.
Next: more of what the routes and services do between two calls (the least covered files are listed in `PROJECT.json`
as not modelled or partly modelled), each with its invariant proved as it is added.
