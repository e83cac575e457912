---------------------------- MODULE SyncControl ----------------------------
(***************************************************************************)
(* Who runs a market sync and when: bg/sync/control.py with the staleness  *)
(* guard of bg/sync/state.py and the copies in app_bg.py.  Three kinds of  *)
(* thread meet here.  bg_yahoo_fetch_loop calls sync_all_stocks_now on its *)
(* own schedule; requests call schedule_sync_all_stocks_now, which hands   *)
(* _run_scheduled_sync_job to the sync executor; and a sync that removed a *)
(* symbol schedules the next one from inside its own body.                 *)
(*                                                                         *)
(* The scheduling call is a little process of its own (spc), because any   *)
(* of those threads may be inside it; the thread's other steps wait for it *)
(* to return.  Time is one bit: has the run that set _sync_start_time gone *)
(* on for longer than SYNC_STALE_TIMEOUT_SEC?  What a sync fetches and     *)
(* publishes is MarketPublish's subject.                                   *)
(***************************************************************************)
EXTENDS Naturals, FiniteSets

CONSTANTS Loops,       \* the bg_yahoo_fetch_loop thread
          Workers,     \* the worker of sync_refresh_executor
          Requesters,  \* request threads
          QueueSize,   \* jobs the executor takes: max_workers + max_queue_size
          NoOne        \* nobody holds the lock

ASSUME ThreadsAssumption ==
  /\ Loops \cap Workers = {} /\ (Loops \cup Workers) \cap Requesters = {}
  /\ NoOne \notin Loops \cup Workers
ASSUME QueueAssumption == QueueSize \in Nat \ {0}

Runners == Loops \cup Workers
Threads == Runners \cup Requesters

VARIABLES
  lock,       \* _sync_execution_lock: who holds it
  syncing,    \* is_syncing
  started,    \* _sync_start_time is not 0.0
  overdue,    \* more than SYNC_STALE_TIMEOUT_SEC since it was last set
  latest,     \* whose generation _sync_generation is
  scheduled,  \* sync_scheduled
  pending,    \* sync_pending
  forced,     \* sync_forced
  queued,     \* jobs in the executor's queue
  shut,       \* the executor was shut down
  pc,         \* pc[t]: where runner t stands in its job and its sync
  spc,        \* spc[t]: where t stands in schedule_sync_all_stocks_now
  \* History, read by the properties only.
  owed,       \* a request was told to wait and no sync began since
  looped      \* the fetch loop woke up, which it does after a first long sleep

run   == <<lock, syncing, started, overdue, latest>>
flags == <<scheduled, pending, forced>>
pool  == <<queued, shut>>
vars  == <<run, flags, pool, pc, spc, owed, looped>>

InBody == {"fetch", "publish", "clear"}

TypeOK ==
  /\ lock \in Runners \cup {NoOne} /\ latest \in Runners \cup {NoOne}
  /\ syncing \in BOOLEAN /\ started \in BOOLEAN /\ overdue \in BOOLEAN
  /\ scheduled \in BOOLEAN /\ pending \in BOOLEAN /\ forced \in BOOLEAN
  /\ queued \in 0..QueueSize /\ shut \in BOOLEAN
  /\ owed \in BOOLEAN /\ looped \in BOOLEAN
  /\ pc \in [Runners -> {"idle", "try", "busy", "wait", "begin", "release", "jobend"}
                          \cup InBody]
  /\ spc \in [Threads -> {"idle", "check", "claim", "submit"}]

Init ==
  /\ lock = NoOne /\ latest = NoOne
  /\ syncing = FALSE /\ started = FALSE /\ overdue = FALSE
  /\ scheduled = FALSE /\ pending = FALSE /\ forced = FALSE
  /\ queued = 0 /\ shut = FALSE /\ owed = FALSE /\ looped = FALSE
  /\ pc = [t \in Runners |-> "idle"]
  /\ spc = [t \in Threads |-> "idle"]

At(t, where) == pc[t] = where /\ spc[t] = "idle"
Go(t, where) == pc' = [pc EXCEPT ![t] = where]

-----------------------------------------------------------------------------
(* _recover_stale_sync_state_if_needed.  With the start time cleared the   *)
(* elapsed time counts as zero, so one recovery hides the run from the     *)
(* next.                                                                   *)
Stale == syncing /\ started /\ overdue

Recover ==
  /\ Stale
  /\ syncing' = FALSE /\ started' = FALSE
  /\ UNCHANGED <<lock, overdue, latest>>

(* schedule_sync_all_stocks_now, from its first lock to its last.          *)
CheckSyncing(t) ==
  /\ spc[t] = "check"
  /\ \/ /\ ~syncing
        /\ spc' = [spc EXCEPT ![t] = "claim"]
        /\ UNCHANGED <<run, flags, owed>>
     \/ /\ Recover
        /\ spc' = [spc EXCEPT ![t] = "claim"]
        /\ UNCHANGED <<flags, owed>>
     \/ /\ syncing /\ ~Stale
        /\ pending' = TRUE /\ owed' = TRUE
        /\ spc' = [spc EXCEPT ![t] = "idle"]
        /\ UNCHANGED <<run, scheduled, forced>>
  /\ UNCHANGED <<pool, pc, looped>>

ClaimMutant(t) ==  \* without the duplicate check
  /\ spc[t] = "claim"
  /\ scheduled' = TRUE
  /\ spc' = [spc EXCEPT ![t] = "submit"]
  /\ UNCHANGED <<run, pending, forced, pool, pc, owed, looped>>

Claim(t) ==
  /\ spc[t] = "claim"
  /\ \/ /\ scheduled
        /\ pending' = TRUE /\ owed' = TRUE
        /\ spc' = [spc EXCEPT ![t] = "idle"]
        /\ UNCHANGED scheduled
     \/ /\ ~scheduled
        /\ scheduled' = TRUE
        /\ spc' = [spc EXCEPT ![t] = "submit"]
        /\ UNCHANGED <<pending, owed>>
  /\ UNCHANGED <<run, forced, pool, pc, looped>>

(* DaemonThreadPoolExecutor.submit counts running jobs against the bound   *)
(* too.                                                                    *)
Occupied == queued + Cardinality({w \in Workers : pc[w] # "idle"})

Submit(t) ==
  /\ spc[t] = "submit"
  /\ spc' = [spc EXCEPT ![t] = "idle"]
  /\ \/ /\ ~shut /\ Occupied < QueueSize
        /\ queued' = queued + 1
        /\ UNCHANGED scheduled
     \/ /\ shut \/ Occupied >= QueueSize
        /\ scheduled' = FALSE
        /\ UNCHANGED queued
  /\ UNCHANGED <<run, pending, forced, shut, pc, owed, looped>>

(* A route calls it, with force=True when the page asked for it.           *)
Request(r, force) ==
  /\ spc[r] = "idle"
  /\ forced' = (forced \/ force)
  /\ spc' = [spc EXCEPT ![r] = "check"]
  /\ UNCHANGED <<run, scheduled, pending, pool, pc, owed, looped>>

-----------------------------------------------------------------------------

(* _run_scheduled_sync_job up to its call of sync_all_stocks_now.  The job *)
(* takes the forced flag with it; what force_fetch does to the fetch is    *)
(* not modelled.                                                           *)
StartJob(w) ==
  /\ At(w, "idle") /\ queued > 0
  /\ queued' = queued - 1
  /\ forced' = FALSE
  /\ Go(w, "try")
  /\ UNCHANGED <<run, scheduled, pending, shut, spc, owed, looped>>

(* The fetch loop wakes up.                                                *)
LoopSync(l) ==
  /\ At(l, "idle") /\ ~shut
  /\ looped' = TRUE
  /\ Go(l, "try")
  /\ UNCHANGED <<run, flags, pool, spc, owed>>

AfterSync(t) == IF t \in Workers THEN "jobend" ELSE "idle"

(* sync_all_stocks_now: lock.acquire(blocking=False).                      *)
TryLock(t) ==
  /\ At(t, "try")
  /\ \/ lock = NoOne /\ lock' = t /\ Go(t, "begin")
     \/ lock # NoOne /\ UNCHANGED lock /\ Go(t, "busy")
  /\ UNCHANGED <<syncing, started, overdue, latest, flags, pool, spc, owed, looped>>

(* The lock was held: take over a stale run, or skip.                      *)
TakeOver(t) ==
  /\ At(t, "busy")
  /\ Recover
  /\ Go(t, "wait")
  /\ UNCHANGED <<flags, pool, spc, owed, looped>>

Skip(t) ==
  /\ At(t, "busy")
  /\ ~Stale
  /\ Go(t, AfterSync(t))
  /\ UNCHANGED <<run, flags, pool, spc, owed, looped>>

(* lock.acquire(timeout=SYNC_STALE_LOCK_WAIT_SEC).                         *)
WaitForLock(t) ==
  /\ At(t, "wait")
  /\ \/ lock = NoOne /\ lock' = t /\ Go(t, "begin")
     \/ lock # NoOne /\ UNCHANGED lock /\ Go(t, AfterSync(t))
  /\ UNCHANGED <<syncing, started, overdue, latest, flags, pool, spc, owed, looped>>

Begin(t) ==
  /\ At(t, "begin")
  /\ syncing' = TRUE /\ started' = TRUE /\ overdue' = FALSE
  /\ latest' = t
  /\ owed' = FALSE
  /\ Go(t, "fetch")
  /\ UNCHANGED <<lock, flags, pool, spc, looped>>

(* The fetch returned.  _auto_remove_invalid_symbols may have dropped a    *)
(* symbol, or failed to, and calls schedule_sync_all_stocks_now.           *)
Fetched(t) ==
  /\ At(t, "fetch")
  /\ Go(t, "publish")
  /\ spc' \in {spc, [spc EXCEPT ![t] = "check"]}
  /\ UNCHANGED <<run, flags, pool, owed, looped>>

LeaveBodyMutant(t) ==  \* is_syncing is cleared on success only, not in finally
  /\ At(t, "fetch") \/ At(t, "publish")
  /\ Go(t, IF pc[t] = "fetch" THEN "release" ELSE "clear")
  /\ UNCHANGED <<run, flags, pool, spc, owed, looped>>

(* A follower's early return, an exception, an empty result, or the end.   *)
LeaveBody(t) ==
  /\ At(t, "fetch") \/ At(t, "publish")
  /\ Go(t, "clear")
  /\ UNCHANGED <<run, flags, pool, spc, owed, looped>>

Clear(t) ==
  /\ At(t, "clear")
  /\ syncing' = (syncing /\ latest # t)
  /\ Go(t, "release")
  /\ UNCHANGED <<lock, started, overdue, latest, flags, pool, spc, owed, looped>>

Release(t) ==
  /\ At(t, "release")
  /\ lock' = NoOne
  /\ Go(t, AfterSync(t))
  /\ UNCHANGED <<syncing, started, overdue, latest, flags, pool, spc, owed, looped>>

JobEndStuck(w) ==  \* a rerun keeps sync_scheduled up
  /\ At(w, "jobend")
  /\ scheduled' = pending
  /\ pending' = FALSE
  /\ spc' = IF pending THEN [spc EXCEPT ![w] = "check"] ELSE spc
  /\ Go(w, "idle")
  /\ UNCHANGED <<run, forced, pool, owed, looped>>

(* The finally block of _run_scheduled_sync_job.                           *)
JobEnd(w) ==
  /\ At(w, "jobend")
  /\ scheduled' = FALSE
  /\ pending' = FALSE
  /\ spc' = IF pending THEN [spc EXCEPT ![w] = "check"] ELSE spc
  /\ Go(w, "idle")
  /\ UNCHANGED <<run, forced, pool, owed, looped>>

(* ExecutionState.shutdown: executors stop with cancel_futures=True.       *)
Shutdown ==
  /\ ~shut
  /\ shut' = TRUE /\ queued' = 0
  /\ UNCHANGED <<run, flags, pc, spc, owed, looped>>

(* SYNC_STALE_TIMEOUT_SEC passes while a run is in its body.               *)
RunOutlasts ==
  /\ started /\ ~overdue
  /\ overdue' = TRUE
  /\ UNCHANGED <<lock, syncing, started, latest, flags, pool, pc, spc, owed, looped>>

ScheduleStep(t) == CheckSyncing(t) \/ Claim(t) \/ Submit(t)

SyncStep(t) ==
  \/ TryLock(t) \/ TakeOver(t) \/ Skip(t) \/ WaitForLock(t) \/ Begin(t)
  \/ Fetched(t) \/ LeaveBody(t) \/ Clear(t) \/ Release(t)

Next ==
  \/ \E r \in Requesters, force \in BOOLEAN : Request(r, force)
  \/ \E t \in Threads : ScheduleStep(t)
  \/ \E t \in Runners : SyncStep(t)
  \/ \E l \in Loops : LoopSync(l)
  \/ \E w \in Workers : StartJob(w) \/ JobEnd(w)
  \/ Shutdown
  \/ RunOutlasts

(* Threads run, a sync body ends since every fetch in it has a timeout, and *)
(* the loop's sleep is a wait with a timeout.                              *)
Fairness ==
  /\ \A l \in Loops : WF_vars(LoopSync(l))
  /\ \A t \in Threads : WF_vars(ScheduleStep(t))
  /\ \A t \in Runners : WF_vars(SyncStep(t))
  /\ \A w \in Workers : WF_vars(StartJob(w) \/ JobEnd(w))

Spec     == Init /\ [][Next]_vars
FairSpec == Spec /\ Fairness

-----------------------------------------------------------------------------
(* is_syncing is up only while the run that raised it is inside its body   *)
(* holding the execution lock.  A flag left up by a run that is gone would *)
(* turn every later request into a pending one (control.py:243-247).       *)
SyncingHasRunner ==
  syncing => /\ lock # NoOne /\ latest = lock
             /\ pc[lock] \in InBody

(* sync_scheduled stands for exactly one job: being submitted, queued or   *)
(* running up to its finally block.  Two jobs would run back to back for   *)
(* one request; a flag without a job would refuse every later one          *)
(* (control.py:249-267 and 221-228).                                       *)
Jobs == queued + Cardinality({w \in Workers : pc[w] # "idle"})
               + Cardinality({t \in Threads : spc[t] = "submit"})
ExactlyOneJob == ~shut => Jobs = IF scheduled THEN 1 ELSE 0

(* A request that was told a sync is under way (pending, False) has a      *)
(* scheduled job behind it, whose finally block will see the flag, until   *)
(* the fetch loop comes in: it syncs and does not look at sync_pending, so *)
(* a request that met its sync has to wait for the next (control.py:       *)
(* 243-253).                                                               *)
PendingHasJob == pending /\ ~shut /\ ~looped => scheduled

(* A scheduled sync ends: the flag always comes down again.                *)
ScheduledIsServed == scheduled ~> (~scheduled \/ shut)

(* After a request was told to wait, a sync begins: the one its job runs   *)
(* or schedules, or the next of the loop (control.py:222-228, 279-283).    *)
PendingIsFollowed == owed ~> (~owed \/ shut)

(* A sync attempt that finds the lock held skips only a run within         *)
(* SYNC_STALE_TIMEOUT_SEC.  tests/test_sync_stale_recovery.py:3-6: "A sync *)
(* that exceeds SYNC_STALE_TIMEOUT_SEC must not wedge the app forever:     *)
(* _recover_stale_sync_state_if_needed clears the stuck is_syncing flag so *)
(* scheduling and the UI recover, and sync_all_stocks_now attempts a       *)
(* *bounded* lock takeover instead of silently skipping every subsequent   *)
(* sync."  The recovery done by a request clears the flag the takeover     *)
(* looks at (state.py:112-129, control.py:66-69).                          *)
OverdueRunIsTakenOver ==
  [][\A t \in Runners :
        /\ pc[t] = "busy"
        /\ overdue /\ lock # NoOne /\ latest = lock /\ pc[lock] \in InBody
        => pc'[t] \in {"busy", "wait"}]_vars
=============================================================================
