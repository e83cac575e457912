----------------------------- MODULE YahooPool -----------------------------
(***************************************************************************)
(* Requests to Yahoo.  Every thread has an HTTP session of its own in one  *)
(* pool.  A block (401, 402, 403, 429, 439) starts a new identity: the     *)
(* sessions of the old one are closed, except those in a request, and all  *)
(* requests but after a 401 stop until a window is over.  A reaper closes  *)
(* idle sessions.  The retry wrapper tries a blocked call again and, after *)
(* a success, lifts the window.                                            *)
(*                                                                         *)
(* _lock is held across the two steps in which a sweep looks who is in a   *)
(* request and then closes the others; entering a request does not take    *)
(* it, pacing does.  The length of a window is abstracted to when it ends. *)
(***************************************************************************)
EXTENDS Naturals, FiniteSets

CONSTANTS Threads,
          PoolMax,     \* YFINANCE_SESSION_POOL_MAX
          Slots,       \* YFINANCE_MAX_CONCURRENT_REQUESTS
          MaxRetries,  \* max_retries of with_yfinance_retry
          MaxBlocks,   \* bound: blocked answers
          MaxReaps     \* bound: rounds of the reaper

VARIABLES
    pc,        \* of each thread
    open,      \* the threads whose session is open
    fresh,     \* those whose session has the current epoch
    pool,      \* _all_sessions
    active,    \* _active_sessions
    lock,      \* who holds _lock, or "free"
    seen,      \* the copy of _active_sessions its holder took
    holding,   \* who holds the concurrency semaphore
    excluded,  \* time.time() < _excluded_until["yfinance"]
    tries,     \* attempts of the wrapper
    atStart,   \* initial_rate_limited
    blocks, reaps

vars == <<pc, open, fresh, pool, active, lock, seen, holding, excluded, tries,
          atStart, blocks, reaps>>
sessions == <<open, fresh, pool>>
wrapper == <<tries, atStart>>

Labels == {"idle", "gate", "got", "active", "paced", "calling", "refresh",
           "block", "rotate", "sweep", "sweeping", "failed", "mark", "sweep2",
           "sweeping2", "again", "ok", "clear"}
TypeOK ==
    /\ pc \in [Threads -> Labels]
    /\ open \subseteq Threads /\ fresh \subseteq Threads /\ pool \subseteq Threads
    /\ active \subseteq Threads /\ seen \subseteq Threads
    /\ holding \subseteq Threads /\ Cardinality(holding) <= Slots
    /\ lock \in Threads \cup {"free", "reaper"} /\ excluded \in BOOLEAN
    /\ tries \in [Threads -> 0 .. MaxRetries] /\ atStart \in [Threads -> BOOLEAN]
    /\ blocks \in 0 .. MaxBlocks /\ reaps \in 0 .. MaxReaps

Init ==
    /\ pc = [t \in Threads |-> "idle"]
    /\ open = {} /\ fresh = {} /\ pool = {} /\ active = {} /\ seen = {}
    /\ lock = "free" /\ holding = {} /\ excluded \in BOOLEAN
    /\ tries = [t \in Threads |-> 0] /\ atStart = [t \in Threads |-> FALSE]
    /\ blocks = 0 /\ reaps = 0

Goes(t, label) == pc' = [pc EXCEPT ![t] = label]

\* with_yfinance_retry begins.
Start(t) ==
    /\ pc[t] = "idle" /\ Goes(t, "gate")
    /\ tries' = [tries EXCEPT ![t] = 0]
    /\ atStart' = [atStart EXCEPT ![t] = excluded]
    /\ UNCHANGED sessions
    /\ UNCHANGED <<active, lock, seen, holding, excluded, blocks, reaps>>

\* get_ticker and get_history: nothing is asked inside a window.
Turned(t) ==
    /\ pc[t] = "gate" /\ excluded /\ Goes(t, "ok")
    /\ UNCHANGED sessions /\ UNCHANGED wrapper
    /\ UNCHANGED <<active, lock, seen, holding, excluded, blocks, reaps>>

\* get_session: the session of the thread, or a new one, for which the pool
\* may drop one that is in no request.
Usable(t) == t \in fresh /\ t \in pool
Evictable(t) == {u \in pool \ {t} : u \notin active}
GetSession(t) ==
    /\ lock = "free"
    /\ IF Usable(t) THEN UNCHANGED sessions
       ELSE LET over == Cardinality(pool \cup {t}) > PoolMax IN
            \E gone \in IF over /\ Evictable(t) # {}
                        THEN {{u} : u \in Evictable(t)} ELSE {{}} :
              /\ open' = (open \cup {t}) \ gone
              /\ pool' = (pool \cup {t}) \ gone
              /\ fresh' = fresh \cup {t}
    /\ Goes(t, "got") /\ UNCHANGED wrapper
    /\ UNCHANGED <<active, lock, seen, holding, excluded, blocks, reaps>>
Asks(t) == pc[t] = "gate" /\ ~excluded /\ GetSession(t)
\* The session was closed meanwhile: the call is made again with another one,
\* inside the slot it has.
Refresh(t) == pc[t] = "refresh" /\ GetSession(t)

\* custom_request: the session is marked busy, the request paced, then sent.
Activate(t) ==
    /\ pc[t] = "got" /\ Goes(t, "active") /\ active' = active \cup {t}
    /\ UNCHANGED sessions /\ UNCHANGED wrapper
    /\ UNCHANGED <<lock, seen, holding, excluded, blocks, reaps>>
Pace(t) ==
    /\ pc[t] = "active" /\ lock = "free" /\ Goes(t, "paced")
    /\ UNCHANGED sessions /\ UNCHANGED wrapper
    /\ UNCHANGED <<active, lock, seen, holding, excluded, blocks, reaps>>
HasSlotMutant(t) == Cardinality(holding) < Slots  \* a second slot for the second request
HasSlot(t) == t \in holding \/ Cardinality(holding) < Slots
Send(t) ==
    /\ pc[t] = "paced" /\ HasSlot(t) /\ Goes(t, "calling")
    /\ holding' = holding \cup {t}
    /\ UNCHANGED sessions /\ UNCHANGED wrapper
    /\ UNCHANGED <<active, lock, seen, excluded, blocks, reaps>>
SaysClosed(t) ==
    /\ pc[t] = "calling" /\ t \notin open /\ Goes(t, "refresh")
    /\ UNCHANGED sessions /\ UNCHANGED wrapper
    /\ UNCHANGED <<active, lock, seen, holding, excluded, blocks, reaps>>
Answers(t) ==
    /\ pc[t] = "calling" /\ t \in open /\ holding' = holding \ {t}
    /\ \/ Goes(t, "ok") /\ active' = active \ {t} /\ UNCHANGED blocks
       \/ /\ blocks < MaxBlocks /\ blocks' = blocks + 1
          /\ (Goes(t, "rotate") \/ Goes(t, "block")) /\ UNCHANGED active
    /\ UNCHANGED sessions /\ UNCHANGED wrapper
    /\ UNCHANGED <<lock, seen, excluded, reaps>>

\* mark_rate_limited, from _handle_block and from mark_yf_429: only a window
\* that ends later than the one there is counts, and starts a new identity.
Longer(t, sweep, next) ==
    /\ excluded' = TRUE
    /\ \/ fresh' = {} /\ Goes(t, sweep)
       \/ excluded /\ Goes(t, next) /\ UNCHANGED fresh
HandleBlock(t) ==
    /\ lock = "free"
    /\ \/ pc[t] = "block" /\ Longer(t, "sweep", "failed")
       \/ pc[t] = "mark" /\ Longer(t, "sweep2", "again")
    /\ UNCHANGED wrapper
    /\ UNCHANGED <<open, pool, active, lock, seen, holding, blocks, reaps>>
\* _rotate_user_agent, for a 401: a new identity and no window.
Rotate(t) ==
    /\ pc[t] = "rotate" /\ lock = "free" /\ fresh' = {} /\ Goes(t, "sweep")
    /\ UNCHANGED wrapper
    /\ UNCHANGED <<open, pool, active, lock, seen, holding, excluded, blocks, reaps>>

\* _reclaim_epoch_sessions and _reclaim_idle_and_cap.
Look(who) == lock = "free" /\ lock' = who /\ seen' = active
SparedMutant == {}  \* a sweep closes what is in a request
Spared == seen
Close(gone) ==
    /\ lock' = "free" /\ open' = open \ gone /\ pool' = pool \ gone
    /\ seen' = {}
SweepLooks(t) ==
    /\ pc[t] \in {"sweep", "sweep2"} /\ Look(t)
    /\ Goes(t, IF pc[t] = "sweep" THEN "sweeping" ELSE "sweeping2")
    /\ UNCHANGED sessions /\ UNCHANGED wrapper
    /\ UNCHANGED <<active, holding, excluded, blocks, reaps>>
SweepCloses(t) ==
    /\ pc[t] \in {"sweeping", "sweeping2"} /\ Close(pool \ (fresh \cup Spared))
    /\ Goes(t, IF pc[t] = "sweeping" THEN "failed" ELSE "again")
    /\ UNCHANGED wrapper
    /\ UNCHANGED <<fresh, active, holding, excluded, blocks, reaps>>
ReaperLooks ==
    /\ reaps < MaxReaps /\ reaps' = reaps + 1 /\ Look("reaper")
    /\ UNCHANGED sessions /\ UNCHANGED wrapper
    /\ UNCHANGED <<pc, active, holding, excluded, blocks>>
ReaperCloses ==
    /\ lock = "reaper" /\ \E idle \in SUBSET (pool \ Spared) : Close(idle)
    /\ UNCHANGED wrapper
    /\ UNCHANGED <<pc, fresh, active, holding, excluded, blocks, reaps>>

\* The request is over; yfinance raises, and the wrapper records the block.
Failed(t) ==
    /\ pc[t] = "failed" /\ Goes(t, "mark") /\ active' = active \ {t}
    /\ UNCHANGED sessions /\ UNCHANGED wrapper
    /\ UNCHANGED <<lock, seen, holding, excluded, blocks, reaps>>
Again(t) ==
    /\ pc[t] = "again"
    /\ IF ~atStart[t] /\ tries[t] < MaxRetries
       THEN Goes(t, "gate") /\ tries' = [tries EXCEPT ![t] = @ + 1]
       ELSE Goes(t, "idle") /\ UNCHANGED tries
    /\ UNCHANGED sessions
    /\ UNCHANGED <<active, lock, seen, holding, excluded, atStart, blocks, reaps>>

\* A success: unless a window is seen, it is lifted, in a step of its own.
Succeeds(t) ==
    /\ pc[t] = "ok" /\ Goes(t, IF atStart[t] \/ excluded THEN "idle" ELSE "clear")
    /\ UNCHANGED sessions /\ UNCHANGED wrapper
    /\ UNCHANGED <<active, lock, seen, holding, excluded, blocks, reaps>>
ClearRateLimit(t) ==
    /\ pc[t] = "clear" /\ lock = "free" /\ Goes(t, "idle") /\ excluded' = FALSE
    /\ UNCHANGED sessions /\ UNCHANGED wrapper
    /\ UNCHANGED <<active, lock, seen, holding, blocks, reaps>>

WindowLapses ==
    /\ excluded /\ excluded' = FALSE
    /\ UNCHANGED sessions /\ UNCHANGED wrapper
    /\ UNCHANGED <<pc, active, lock, seen, holding, blocks, reaps>>

Continue(t) ==
    \/ Turned(t) \/ Asks(t) \/ Refresh(t) \/ Activate(t) \/ Pace(t) \/ Send(t)
    \/ SaysClosed(t) \/ Answers(t) \/ HandleBlock(t) \/ Rotate(t)
    \/ SweepLooks(t) \/ SweepCloses(t) \/ Failed(t) \/ Again(t)
    \/ Succeeds(t) \/ ClearRateLimit(t)
Next ==
    \/ \E t \in Threads : Start(t) \/ Continue(t)
    \/ ReaperLooks \/ ReaperCloses \/ WindowLapses
\* Threads run, the lock is given to each waiter in the end, and so is a slot.
Fairness == (\A t \in Threads : SF_vars(Continue(t))) /\ WF_vars(ReaperCloses)
Spec == Init /\ [][Next]_vars /\ Fairness

(***************************************************************************)
(* Properties                                                              *)
(***************************************************************************)
\* No sweep, reaper or eviction closes the session of a request that has been
\* sent (session_manager.py: never close a socket mid-flight), although
\* requests begin without the lock the sweeps hold.
NoCloseInFlight ==
    [][\A t \in Threads : (pc[t] = "calling" /\ t \in open) => t \in open']_vars

\* Every call comes back: the request repeated on a new session inside the
\* slot of the first one waits for no slot, its own included.
CallsReturn == \A t \in Threads : (pc[t] # "idle") ~> (pc[t] = "idle")

\* A window is over when its time is: no success of another call lifts it.
WindowIsKept == [][(excluded /\ ~excluded') => pc' = pc]_vars
=============================================================================
