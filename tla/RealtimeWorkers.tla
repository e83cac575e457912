-------------------------- MODULE RealtimeWorkers --------------------------
(***************************************************************************)
(* The threads of the realtime engine: the TradingView worker, the Yahoo   *)
(* scraper's worker and the PTS worker, the engine's start, stop and       *)
(* restart, and the watchdog that restarts it when it sees a dead worker.  *)
(*                                                                         *)
(* Every wait for a thread is bounded, so an old worker may still run when *)
(* the next one is started.  An epoch counter tells it to leave.  A thread *)
(* holds whether the epoch it knows is the newest one; the counters        *)
(* themselves are not kept.                                                *)
(***************************************************************************)
EXTENDS Naturals, FiniteSets

CONSTANTS Slots,      \* thread objects per producer, dead ones are used again
          MaxCrashes  \* bound: workers that die by themselves

Producers == {"tv", "yahoo", "pts"}
None == "none"

VARIABLES
    on,       \* tv_client.running, yahoojp_scraper.running, engine.running
    thread,   \* tv_client.thread, yahoojp_scraper.thread, pts_thread
    worker,   \* the threads of each producer
    op,       \* the step of the engine operation that holds _lifecycle_lock
    crashes

vars == <<on, thread, worker, op, crashes>>

Ops == {"start", "watch", "stop-pts", "join-pts", "stop-tv", "join-tv", "stop-yahoo",
        "join-yahoo", "restarted"}

TypeOK ==
    /\ on \in [Producers -> BOOLEAN]
    /\ thread \in [Producers -> Slots \cup {None}]
    /\ worker \in [Producers -> [Slots ->
          [pc : {"dead", "born", "work", "leave", "replace"}, current : BOOLEAN]]]
    /\ op \in Ops /\ crashes \in 0 .. MaxCrashes

Dead == [pc |-> "dead", current |-> FALSE]

Init ==
    /\ on = [p \in Producers |-> FALSE]
    /\ thread = [p \in Producers |-> None]
    /\ worker = [p \in Producers |-> [i \in Slots |-> Dead]]
    /\ op = "start" /\ crashes = 0

Alive(p, i) == worker[p][i].pc # "dead"
Free(p) == CHOOSE i \in Slots : ~Alive(p, i) /\ thread[p] # i
HasFree(p) == \E i \in Slots : ~Alive(p, i) /\ thread[p] # i

\* epoch += 1: no thread that has read the counter is of the newest epoch.
Outdated(p) == [i \in Slots |-> [worker[p][i] EXCEPT !.current = FALSE]]

\* ... and a new thread.  TradingView's is given its epoch; the others read the
\* counter when they first run.
Spawned(p) == [Outdated(p) EXCEPT ![Free(p)] = [pc |-> "born", current |-> p = "tv"]]

(***************************************************************************)
(* The workers.                                                            *)
(***************************************************************************)
Begin(p, i) ==
    /\ worker[p][i].pc = "born"
    /\ worker' = [worker EXCEPT ![p][i] = [pc |-> "work",
                                          current |-> p # "tv" \/ @.current]]
    /\ UNCHANGED <<on, thread, op, crashes>>

\* The condition of the loop, after any fetch or sleep: what a fetch delivers
\* is RealtimeEngine's.
Leave(p, i) ==
    /\ worker[p][i].pc = "work"
    /\ ~(on[p] /\ worker[p][i].current)
    /\ worker' = [worker EXCEPT ![p][i].pc = IF p = "tv" THEN "leave" ELSE "dead"]
    /\ UNCHANGED <<on, thread, op, crashes>>

\* An error that no handler of the loop catches.  Of the three only TradingView's
\* worker has a finally.
Crash(p, i) ==
    /\ worker[p][i].pc = "work" /\ crashes < MaxCrashes
    /\ crashes' = crashes + 1
    /\ worker' = [worker EXCEPT ![p][i].pc = IF p = "tv" THEN "leave" ELSE "dead"]
    /\ UNCHANGED <<on, thread, op>>

TvLeavesMutant(i) ==  \* a worker that was told to leave forgets a newer thread
    /\ worker["tv"][i].pc = "leave"
    /\ thread' = [thread EXCEPT !["tv"] = None]
    /\ on' = [on EXCEPT !["tv"] = FALSE]
    /\ worker' = [worker EXCEPT !["tv"][i].pc = "dead"]
    /\ UNCHANGED <<op, crashes>>

\* The finally of _run_ws.  A worker that was told to leave and finds the client
\* started again meanwhile prepares a replacement; one that failed with the newest
\* epoch switches the client off and is forgotten ...
TvLeaves(i) ==
    /\ worker["tv"][i].pc = "leave"
    /\ LET mine == thread["tv"] = i
           again == mine /\ on["tv"] /\ ~worker["tv"][i].current
       IN /\ thread' = [thread EXCEPT !["tv"] = IF mine THEN None ELSE @]
          /\ on' = [on EXCEPT !["tv"] = @ /\ ~worker["tv"][i].current]
          /\ worker' = [worker EXCEPT !["tv"][i].pc = IF again THEN "replace" ELSE "dead"]
    /\ UNCHANGED <<op, crashes>>

\* ... and starts it unless a stop or a start came first.
TvReplaces(i) ==
    /\ worker["tv"][i].pc = "replace"
    /\ IF on["tv"] /\ thread["tv"] = None
       THEN /\ HasFree("tv")
            /\ thread' = [thread EXCEPT !["tv"] = Free("tv")]
            /\ worker' = [worker EXCEPT !["tv"] = [Spawned("tv") EXCEPT ![i] = Dead]]
       ELSE /\ worker' = [worker EXCEPT !["tv"][i] = Dead]
            /\ UNCHANGED thread
    /\ UNCHANGED <<on, op, crashes>>

(***************************************************************************)
(* RealtimeMarketEngine.start, stop and restart under _lifecycle_lock.     *)
(***************************************************************************)
\* tv_client.start: a live thread is left to notice, or to replace itself.
TvBusy == thread["tv"] # None /\ Alive("tv", thread["tv"])
\* yahoojp_scraper.start: only when not running; it does not look at the thread.
Starts(p) == CASE p = "tv" -> ~TvBusy [] p = "yahoo" -> ~on["yahoo"] [] p = "pts" -> TRUE

Start ==
    /\ op \in {"start", "restarted"}
    /\ op' = "watch"
    /\ IF on["pts"] \/ (thread["pts"] # None /\ Alive("pts", thread["pts"]))
       THEN UNCHANGED <<on, thread, worker>>
       ELSE /\ \A p \in Producers : Starts(p) => HasFree(p)
            /\ on' = [p \in Producers |-> TRUE]
            /\ thread' = [p \in Producers |-> IF Starts(p) THEN Free(p) ELSE thread[p]]
            /\ worker' = [p \in Producers |-> IF Starts(p) THEN Spawned(p) ELSE worker[p]]
    /\ UNCHANGED crashes

\* The watchdog finds a thread that is referenced and not alive.
Watch ==
    /\ op = "watch"
    /\ \E p \in Producers : thread[p] # None /\ ~Alive(p, thread[p])
    /\ op' = "stop-pts"
    /\ UNCHANGED <<on, thread, worker, crashes>>

TurnOff(p) ==
    /\ on' = [on EXCEPT ![p] = FALSE]
    /\ worker' = [worker EXCEPT ![p] = Outdated(p)]
    /\ UNCHANGED <<thread, crashes>>

\* The bounded join is over, the thread dead or not; a dead one is forgotten.
\* When the PTS worker is still alive the restart is deferred.
Join(p) ==
    /\ thread' = [thread EXCEPT ![p] = IF @ # None /\ Alive(p, @) THEN @ ELSE None]
    /\ UNCHANGED <<on, worker, crashes>>

Stop ==
    \/ op = "stop-pts"   /\ op' = "join-pts"   /\ TurnOff("pts")
    \/ op = "join-pts"   /\ op' = "stop-tv"    /\ Join("pts")
    \/ op = "stop-tv"    /\ op' = "join-tv"    /\ TurnOff("tv")
    \/ op = "join-tv"    /\ op' = "stop-yahoo" /\ Join("tv")
    \/ op = "stop-yahoo" /\ op' = "join-yahoo" /\ TurnOff("yahoo")
    \/ op = "join-yahoo" /\ Join("yahoo")
                         /\ op' = IF thread["pts"] = None THEN "restarted" ELSE "watch"

WorkerStep(p, i) == Begin(p, i) \/ Leave(p, i) \/ (p = "tv" /\ (TvLeaves(i) \/ TvReplaces(i)))

Next ==
    \/ \E p \in Producers, i \in Slots : WorkerStep(p, i) \/ Crash(p, i)
    \/ Start \/ Watch \/ Stop

\* Threads run, fetches end (every request has a timeout), the watchdog ticks
\* every minute and the engine operations end.
Fairness ==
    /\ \A p \in Producers, i \in Slots : WF_vars(WorkerStep(p, i))
    /\ WF_vars(Start) /\ WF_vars(Watch) /\ WF_vars(Stop)

Spec == Init /\ [][Next]_vars /\ Fairness

(***************************************************************************)
(* Properties                                                              *)
(***************************************************************************)
Working(p) == {i \in Slots : worker[p][i].pc = "work" /\ worker[p][i].current}

\* At most one TradingView and one PTS worker run with the newest epoch, however
\* starts, stops that gave up waiting and self-replacements overlap: no second
\* connection, no second poller.  (The Yahoo worker reads the counter only when
\* it first runs; one that was not scheduled for a whole restart reads the next
\* worker's.)
OneCurrentWorker == \A p \in {"tv", "pts"} : Cardinality(Working(p)) <= 1

AtWork(p) == thread[p] # None /\ thread[p] \in Working(p)

\* A TradingView worker that failed while its epoch was the newest: only a step of
\* its own takes a thread with the newest epoch out of its loop.
TvFailed == \E i \in Slots : worker["tv"][i].pc = "leave" /\ worker["tv"][i].current

\* After crashes, and after a restart deferred because the old PTS worker was still
\* fetching, the PTS and the Yahoo worker are at work again; and whenever the
\* TradingView client is on or an operation of the engine is under way, a worker of
\* the client comes to work, unless it fails with the newest epoch: nothing but the
\* next restart for another worker's sake brings the client back then.
ProducersComeBack ==
    /\ []<>(on["pts"] /\ AtWork("pts") /\ AtWork("yahoo"))
    /\ (on["tv"] \/ op # "watch") ~> (AtWork("tv") \/ TvFailed)

\* control.py:301: "Restart the realtime engine when any internal producer thread
\* died."  TLC refutes it for TradingView's: its finally forgets the thread
\* (tv_client.py:420), so worker_threads() omits it and the watchdog sees no dead one.
DeadProducersComeBack == []<>(on["pts"] /\ \A p \in Producers : AtWork(p))
=============================================================================
