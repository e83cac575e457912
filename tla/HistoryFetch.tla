---------------------------- MODULE HistoryFetch ----------------------------
(***************************************************************************)
(* The price history of one symbol: the requests for its periods, the      *)
(* background jobs that fetch them, the semaphore their calls share, and   *)
(* the circuit of the symbol.  While the circuit is half open one request  *)
(* claims the probe and submits a job that is to resolve it.               *)
(***************************************************************************)
EXTENDS Naturals, FiniteSets

CONSTANTS Keys,        \* the cache keys, one per period and interval
          Threshold,   \* HISTORY_CIRCUIT_BREAKER_THRESHOLD
          Slots,       \* yfinance_history_semaphore
          Room,        \* workers and queue of data_executor
          Tries,       \* the fetch and its fallbacks
          MaxCancels   \* bound: jobs cancelled in the queue

VARIABLES
    circuit,   \* [status, streak, lapsed, probing]
    limited,   \* yfinance is rate limited
    free,      \* permits of the semaphore
    inflight,  \* history_fetch_inflight
    job,       \* per key: [pc, probe, tries, got]
    cache,     \* per key: "none", "rows", "error"
    cancels,
    orphans    \* history: keys whose job was cancelled and that stay in flight

vars == <<circuit, limited, free, inflight, job, cache, cancels, orphans>>

Off == [pc |-> "none", probe |-> FALSE, tries |-> 0, got |-> "none"]
TypeOK ==
    /\ circuit \in [status : {"CLOSED", "OPEN", "HALF_OPEN"}, streak : 0 .. Threshold - 1,
                    lapsed : BOOLEAN, probing : BOOLEAN]
    /\ limited \in BOOLEAN /\ free \in 0 .. Slots /\ inflight \subseteq Keys
    /\ job \in [Keys -> [pc : {"none", "queued", "asks", "waits", "calls", "ends"}, probe : BOOLEAN,
                         tries : 0 .. Tries, got : {"none", "rows", "empty", "busy", "failed"}]]
    /\ cache \in [Keys -> {"none", "rows", "error"}]
    /\ cancels \in 0 .. MaxCancels /\ orphans \subseteq Keys

Closed == [status |-> "CLOSED", streak |-> 0, lapsed |-> FALSE, probing |-> FALSE]
Init ==
    /\ circuit = Closed /\ limited = FALSE /\ free = Slots /\ inflight = {}
    /\ job = [k \in Keys |-> Off] /\ cache = [k \in Keys |-> "none"]
    /\ cancels = 0 /\ orphans = {}

\* The circuit of the symbol (CircuitBreaker has its operations one by one).
Refuses == circuit.status = "OPEN" /\ ~circuit.lapsed
Asked == IF circuit.status = "OPEN" /\ circuit.lapsed
         THEN [circuit EXCEPT !.status = "HALF_OPEN"] ELSE circuit
Failed(c) ==
    IF c.status = "HALF_OPEN" \/ c.streak + 1 >= Threshold
    THEN [status |-> "OPEN", streak |-> 0, lapsed |-> FALSE, probing |-> FALSE]
    ELSE [c EXCEPT !.streak = @ + 1]

WindowLapses ==
    /\ Refuses /\ circuit' = [circuit EXCEPT !.lapsed = TRUE]
    /\ UNCHANGED <<limited, free, inflight, job, cache, cancels, orphans>>

\* A 429 and the end of its window, of any caller of Yahoo (see YahooPool).
RateLimit ==
    /\ limited' = ~limited
    /\ UNCHANGED <<circuit, free, inflight, job, cache, cancels, orphans>>

(***************************************************************************)
(* api_stock_history.                                                      *)
(***************************************************************************)
HasRoom == Cardinality({k \in Keys : job[k].pc # "none"}) < Room

\* _submit_async_history_fetch: once per key; a full queue takes it back.
Submitted(k, probe) ==
    IF k \notin inflight /\ HasRoom
    THEN /\ job' = [job EXCEPT ![k] = [Off EXCEPT !.pc = "queued", !.probe = probe]]
         /\ inflight' = inflight \cup {k}
    ELSE UNCHANGED <<job, inflight>>

\* The circuit is half open: the claim and the submission, under its lock.  A
\* job that is in flight already is taken for the probe.
RequestProbe(k) ==
    /\ Asked.status = "HALF_OPEN"
    /\ IF Asked.probing THEN circuit' = Asked /\ UNCHANGED <<job, inflight>>
       ELSE /\ Submitted(k, TRUE)
            /\ circuit' = IF k \notin inflight /\ ~HasRoom THEN Failed(Asked)
                          ELSE [Asked EXCEPT !.probing = TRUE]
    /\ UNCHANGED <<limited, free, cache, cancels, orphans>>

\* Closed: the cached answer, or a job.  Open: 503.  The request's two looks at the
\* circuit may be old by now: it is submitted whatever became of the circuit.  Its
\* look at the cache is taken as made now.
Request(k) ==
    /\ cache[k] # "rows" /\ Submitted(k, FALSE)
    /\ UNCHANGED <<circuit, limited, free, cache, cancels, orphans>>

Expire(k) ==
    /\ cache[k] # "none" /\ cache' = [cache EXCEPT ![k] = "none"]
    /\ UNCHANGED <<circuit, limited, free, inflight, job, cancels, orphans>>

(***************************************************************************)
(* fetch_history_async_task and fetch_history_sync_impl.                   *)
(***************************************************************************)
Goto(k, stage) == job' = [job EXCEPT ![k].pc = stage]
Ends(k, got) == job' = [job EXCEPT ![k].pc = "ends", ![k].got = got]

\* An earlier payload, or no ticker for the symbol.
Begin(k) ==
    /\ job[k].pc = "queued"
    /\ Ends(k, "rows") \/ Ends(k, "empty") \/ Goto(k, "asks")
    /\ UNCHANGED <<circuit, limited, free, inflight, cache, cancels, orphans>>

\* A try without rows is followed by the next fallback.
Empty(k) == job' = [job EXCEPT ![k].tries = @ + 1,
                               ![k].pc = IF @ = "none" \/ job[k].tries + 1 >= Tries THEN "ends" ELSE "asks",
                               ![k].got = "empty"]

\* _history_with_timeout: nothing is asked in a window or of an open circuit.
Ask(k) ==
    /\ job[k].pc = "asks"
    /\ IF limited THEN Empty(k) /\ UNCHANGED circuit
       ELSE /\ circuit' = Asked
            /\ IF Refuses THEN Empty(k) ELSE Goto(k, "waits")
    /\ UNCHANGED <<limited, free, inflight, cache, cancels, orphans>>

Acquire(k) ==
    /\ job[k].pc = "waits" /\ free > 0 /\ free' = free - 1 /\ Goto(k, "calls")
    /\ UNCHANGED <<circuit, limited, inflight, cache, cancels, orphans>>
\* HISTORY_SEMAPHORE_TIMEOUT; the retries of the caller are further turns.
SemaphoreTimeout(k) ==
    /\ job[k].pc = "waits" /\ free = 0
    /\ Ends(k, "busy") \/ Goto(k, "asks")
    /\ UNCHANGED <<circuit, limited, free, inflight, cache, cancels, orphans>>

ReleasedMutant == free
Released == free + 1
Reply(k) ==
    /\ job[k].pc = "calls" /\ free' = Released
    /\ \/ circuit' = Closed /\ (Ends(k, "rows") \/ Empty(k))
       \/ circuit' = Failed(circuit) /\ (Ends(k, "failed") \/ Goto(k, "asks"))
       \/ UNCHANGED circuit /\ (Empty(k) \/ Ends(k, "failed"))
    /\ UNCHANGED <<limited, inflight, cache, cancels, orphans>>

\* The result is cached, an error only when it is not transient; a probe nobody
\* resolved is resolved now; the key is free again.
Transient(k) == job[k].got = "busy" \/ (job[k].got = "empty" /\ (limited \/ Refuses))
Stored(k) ==
    IF job[k].got = "rows" THEN "rows" ELSE IF Transient(k) THEN cache[k] ELSE "error"
Resolved(k) ==
    IF job[k].probe /\ circuit.status = "HALF_OPEN" /\ circuit.probing
    THEN IF job[k].got = "rows" THEN Closed ELSE Failed(circuit)
    ELSE circuit
Finish(k) ==
    /\ job[k].pc = "ends"
    /\ cache' = [cache EXCEPT ![k] = Stored(k)]
    /\ circuit' = Resolved(k)
    /\ job' = [job EXCEPT ![k] = Off] /\ inflight' = inflight \ {k}
    /\ UNCHANGED <<limited, free, cancels, orphans>>

\* The executor is stopped: _handle_cancelled_probe frees a probe's key only.
Cancel(k) ==
    /\ job[k].pc = "queued" /\ cancels < MaxCancels /\ cancels' = cancels + 1
    /\ job' = [job EXCEPT ![k] = Off]
    /\ IF job[k].probe
       THEN circuit' = Failed(circuit) /\ inflight' = inflight \ {k} /\ UNCHANGED orphans
       ELSE orphans' = orphans \cup {k} /\ UNCHANGED <<circuit, inflight>>
    /\ UNCHANGED <<limited, free, cache>>

Next ==
    \/ WindowLapses \/ RateLimit
    \/ \E k \in Keys :
        \/ RequestProbe(k) \/ Request(k) \/ Expire(k)
        \/ Begin(k) \/ Ask(k) \/ Acquire(k) \/ SemaphoreTimeout(k) \/ Reply(k) \/ Finish(k)
        \/ Cancel(k)

Spec == Init /\ [][Next]_vars

-----------------------------------------------------------------------------
\* Every permit of the semaphore is free or held by a call, and every key in
\* flight has a job, but for a job cancelled in the queue.
NothingLeaks ==
    /\ free + Cardinality({k \in Keys : job[k].pc = "calls"}) = Slots
    /\ \A k \in Keys : k \in inflight \ orphans <=> job[k].pc # "none"

\* A probe job never ends with its claim open: its end, its cancellation or the
\* circuit's own verdict resolves it.
ProbeIsResolved ==
    [][\A k \in Keys :
          job[k].probe /\ ~job'[k].probe => ~(circuit'.status = "HALF_OPEN" /\ circuit'.probing)]_vars

\* The claim of the probe has a job that will resolve it, as the comment on a
\* duplicate submission assumes.  (Violated: the job in flight may be an
\* ordinary one, from before the circuit opened, that reports nothing.)
ClaimHasProbe ==
    circuit.status = "HALF_OPEN" /\ circuit.probing => \E k \in Keys : job[k].probe
=============================================================================
