---------------------------- MODULE SearchChain ----------------------------
(***************************************************************************)
(* Searches for news and research: several threads ask LangSearch query by *)
(* query, under one deadline, one rate limit and one circuit; a search     *)
(* that gets nothing there goes on to DDGS, whose queries run in a bounded *)
(* pool, and to Tavily when DDGS is sparse.                                *)
(*                                                                         *)
(* Time is counted in ticks and steps take none, so that a sleeper wakes   *)
(* in its tick.  Results are counted, up to what the code tells apart.     *)
(***************************************************************************)
EXTENDS Naturals, FiniteSets

CONSTANTS Workers,      \* the threads that search
          Plans,        \* the API keys a search may have
          Queries,      \* query_limit
          Limit,        \* results a search is content with
          Total,        \* LANGSEARCH_TOTAL_TIMEOUT_SEC
          CallMax,      \* LANGSEARCH_TIMEOUT, connect and read
          MaxWait,      \* _LANGSEARCH_SLOT_MAX_WAIT_SEC
          Interval,     \* langsearch_min_interval_sec
          Cooldowns,    \* the waits a 429 asks for
          MaxTries,     \* stop_after_attempt
          Threshold,    \* failures that open the circuit
          OpenFor,      \* open_sec of the circuit
          PoolSize,     \* workers and queue of the DDGS pool
          MaxStart,     \* bound: the last tick a search starts in
          MaxShutdowns  \* bound: teardowns of the DDGS pool

VARIABLES
    now,
    next,      \* langsearch_next_allowed_ts
    circuit,   \* the "langsearch" circuit: [status, streak, until, probing]
    lastSent,  \* history: the tick after which a request may follow the last
    pc, plan,  \* per worker: where it is; the keys it has
    deadline,  \* _LANGSEARCH_SHARED_DEADLINE
    query, tries, got,
    wake,      \* the end of a sleep or of a call
    owns,      \* circuit_probe_claimed
    job,       \* per worker and query: the DDGS job
    shutdowns

lang == <<next, circuit, lastSent>>
ddgs == <<job, shutdowns>>
vars == <<now, lang, pc, plan, deadline, query, tries, got, wake, owns, ddgs>>

QueryIds == 1 .. Queries
Asleep == {"slot", "sent", "back"}
JobStages == {"none", "queued", "running", "rows", "empty", "cut"}
Horizon == MaxStart + Total
Most == 2 * Limit

TypeOK ==
    /\ now \in 0 .. Horizon /\ next \in Nat /\ lastSent \in 0 .. Horizon + Interval
    /\ circuit \in [status : {"CLOSED", "OPEN", "HALF_OPEN"}, streak : 0 .. Threshold,
                    until : Nat, probing : BOOLEAN]
    /\ pc \in [Workers -> {"idle", "query", "attempt", "ddgs", "collect", "tavily", "done"} \cup Asleep]
    /\ plan \in [Workers -> Plans] /\ deadline \in [Workers -> Nat]
    /\ query \in [Workers -> 1 .. Queries + 1] /\ tries \in [Workers -> 0 .. MaxTries]
    /\ got \in [Workers -> 0 .. Most] /\ wake \in [Workers -> Nat]
    /\ owns \in [Workers -> BOOLEAN]
    /\ job \in [Workers -> [QueryIds -> JobStages]]
    /\ shutdowns \in 0 .. MaxShutdowns

\* An earlier search may have opened the circuit, long ago.
Init ==
    /\ now = 0 /\ next = 0 /\ lastSent = 0
    /\ \E s \in {"CLOSED", "OPEN"} :
          circuit = [status |-> s, streak |-> 0, until |-> 0, probing |-> FALSE]
    /\ pc = [w \in Workers |-> "idle"] /\ plan \in [Workers -> Plans]
    /\ deadline = [w \in Workers |-> 0] /\ query = [w \in Workers |-> 1]
    /\ tries = [w \in Workers |-> 0] /\ got = [w \in Workers |-> 0]
    /\ wake = [w \in Workers |-> 0] /\ owns = [w \in Workers |-> FALSE]
    /\ job = [w \in Workers |-> [q \in QueryIds |-> "none"]]
    /\ shutdowns = 0

Least(a, b) == IF a < b THEN a ELSE b
Largest(a, b) == IF a < b THEN b ELSE a
Goto(w, stage) == pc' = [pc EXCEPT ![w] = stage]
Adds(w, n) == [got EXCEPT ![w] = Least(Most, @ + n)]

(***************************************************************************)
(* The circuit, in the steps LangSearch takes with it.                     *)
(***************************************************************************)
Refuses == circuit.status = "OPEN" /\ now < circuit.until
Asked == IF circuit.status = "OPEN" /\ ~Refuses
         THEN [circuit EXCEPT !.status = "HALF_OPEN"] ELSE circuit
Closed == [status |-> "CLOSED", streak |-> 0, until |-> 0, probing |-> FALSE]
Failed == IF circuit.status = "HALF_OPEN" \/ circuit.streak + 1 >= Threshold
          THEN [status |-> "OPEN", streak |-> 0, until |-> now + OpenFor, probing |-> FALSE]
          ELSE [circuit EXCEPT !.streak = @ + 1]

(***************************************************************************)
(* One search.                                                             *)
(***************************************************************************)
\* The first source follows from the keys the caller has.
Start(w) ==
    /\ pc[w] = "idle" /\ now <= MaxStart
    /\ IF plan[w] \in {"langsearch", "langsearch+tavily"}
       THEN Goto(w, "query") /\ deadline' = [deadline EXCEPT ![w] = now + Total]
       ELSE Goto(w, "ddgs") /\ UNCHANGED deadline
    /\ UNCHANGED <<now, lang, plan, query, tries, got, wake, owns, ddgs>>

\* _execute_search_strategy: nothing from LangSearch means DDGS.
LangSearchEnds(w) ==
    /\ pc[w] = "query" /\ (query[w] > Queries \/ got[w] >= Most)
    /\ got' = [got EXCEPT ![w] = Least(@, Limit)]
    /\ Goto(w, IF got[w] > 0 THEN "done" ELSE "ddgs")
    /\ deadline' = [deadline EXCEPT ![w] = 0] /\ query' = [query EXCEPT ![w] = 1]
    /\ UNCHANGED <<now, lang, plan, tries, wake, owns, ddgs>>

GivesBack(w, state) == IF owns[w] THEN [state EXCEPT !.probing = FALSE] ELSE state

\* The query is over, with n results, and the circuit left as given; a probe
\* is given back.
QueryEnds(w, n, state) ==
    /\ circuit' = GivesBack(w, state)
    /\ owns' = [owns EXCEPT ![w] = FALSE]
    /\ got' = Adds(w, n) /\ query' = [query EXCEPT ![w] = @ + 1]
    /\ Goto(w, "query")
    /\ tries' = [tries EXCEPT ![w] = 0] /\ wake' = [wake EXCEPT ![w] = 0]

\* The test, the claim of a probe and the deadline (CircuitBreaker has them as
\* steps of their own).
Post(w) ==
    /\ pc[w] = "query" /\ query[w] <= Queries /\ got[w] < Most
    /\ LET c == Asked
           probe == c.status = "HALF_OPEN"
       IN IF Refuses \/ (probe /\ c.probing) \/ deadline[w] <= now
          THEN QueryEnds(w, 0, c)
          ELSE /\ circuit' = [c EXCEPT !.probing = @ \/ probe]
               /\ owns' = [owns EXCEPT ![w] = probe]
               /\ Goto(w, "attempt")
               /\ UNCHANGED <<got, query, tries, wake>>
    /\ UNCHANGED <<now, next, lastSent, plan, deadline, ddgs>>

Remaining(w) == IF deadline[w] > now THEN deadline[w] - now ELSE 0

\* tenacity: not again after the last try, nor if the sleep crosses the deadline;
\* the sleep after the n-th try doubles up to the longest.
Backoff(n) == CASE n = 1 -> 1 [] n = 2 -> 2 [] n = 3 -> 4 [] n = 4 -> 8 [] OTHER -> 16
Retries(w) == tries[w] + 1 < MaxTries /\ now + Backoff(tries[w] + 1) < deadline[w]

AttemptFails(w, state) ==
    IF Retries(w)
    THEN /\ tries' = [tries EXCEPT ![w] = @ + 1]
         /\ wake' = [wake EXCEPT ![w] = now + Backoff(tries[w] + 1)]
         /\ Goto(w, "back")
         /\ circuit' = state /\ UNCHANGED <<owns, got, query>>
    ELSE QueryEnds(w, 0, state)

\* _langsearch_acquire_slot: the wait fits the deadline and is not too long.
SlotWait == IF next > now THEN next - now ELSE 0
MayWait(w) == SlotWait <= Remaining(w) /\ SlotWait <= MaxWait

ReservedMutant == Largest(next, now)
Reserved == Largest(next, now) + Interval

Attempt(w) ==
    /\ pc[w] = "attempt"
    /\ IF Refuses \/ (Remaining(w) > 0 /\ ~MayWait(w))
       THEN QueryEnds(w, 0, Asked) /\ UNCHANGED next
       ELSE IF Remaining(w) = 0 THEN AttemptFails(w, Failed) /\ UNCHANGED next
       ELSE /\ next' = Reserved
            /\ wake' = [wake EXCEPT ![w] = now + SlotWait]
            /\ Goto(w, "slot")
            /\ circuit' = Asked /\ UNCHANGED <<owns, tries, got, query>>
    /\ UNCHANGED <<now, lastSent, plan, deadline, ddgs>>

\* _langsearch_timeout_within: a call gets what is left of the deadline.
Send(w) ==
    /\ pc[w] = "slot" /\ wake[w] <= now
    /\ IF Remaining(w) = 0 THEN AttemptFails(w, Failed) /\ UNCHANGED lastSent
       ELSE /\ wake' = [wake EXCEPT ![w] = now + Least(CallMax, Remaining(w))]
            /\ lastSent' = now + Interval
            /\ Goto(w, "sent")
            /\ UNCHANGED <<circuit, owns, tries, got, query>>
    /\ UNCHANGED <<now, next, plan, deadline, ddgs>>

Answers(w, n) == pc[w] = "sent" /\ QueryEnds(w, n, Closed) /\ UNCHANGED next

\* 429: every caller waits, and the circuit hears nothing.
IsLimited(w) ==
    /\ pc[w] = "sent"
    /\ \E c \in Cooldowns : next' = Largest(next, now + c)
    /\ AttemptFails(w, circuit)

\* A timeout, at the end of the call, a lost connection or a 503 is tried again.
IsLost(w) == pc[w] = "sent" /\ AttemptFails(w, Failed) /\ UNCHANGED next
\* Another 5xx is a failure of the service, a 4xx or an error in the body is not.
IsRefused(w) ==
    pc[w] = "sent" /\ (QueryEnds(w, 0, Failed) \/ QueryEnds(w, 0, circuit)) /\ UNCHANGED next

CallEnds(w) ==
    /\ (\E n \in 0 .. Limit : Answers(w, n)) \/ IsLimited(w) \/ IsLost(w) \/ IsRefused(w)
    /\ UNCHANGED <<now, lastSent, plan, deadline, ddgs>>

Retry(w) ==
    /\ pc[w] = "back" /\ wake[w] <= now /\ Goto(w, "attempt")
    /\ UNCHANGED <<now, lang, plan, deadline, query, tries, got, wake, owns, ddgs>>

(***************************************************************************)
(* DDGS and Tavily.                                                        *)
(***************************************************************************)
Busy == {"queued", "running"}
InPool == Cardinality({x \in Workers \X QueryIds : job[x[1]][x[2]] \in Busy})

\* All queries, or those before the one the pool refuses; then the search
\* drops what it has submitted.
SubmitAll(w) ==
    /\ pc[w] = "ddgs"
    /\ LET room == PoolSize - InPool
       IN /\ job' = [job EXCEPT ![w] = [q \in QueryIds |-> IF q <= room THEN "queued" ELSE "none"]]
          /\ Goto(w, IF room >= Queries THEN "collect"
                     ELSE IF plan[w] \in {"tavily", "langsearch+tavily"} THEN "tavily" ELSE "done")
    /\ UNCHANGED <<now, lang, plan, deadline, query, tries, got, wake, owns, shutdowns>>

\* A job searches the news, then texts, each in a cascade of tries that ends
\* with the first rows and swallows every error.
NewsRows == 0 .. 1
TextRows == 0 .. 1
RunJob(w, q) ==
    /\ \/ job[w][q] = "queued" /\ job' = [job EXCEPT ![w][q] = "running"]
       \/ /\ job[w][q] = "running"
          /\ \E n \in NewsRows, t \in TextRows :
                job' = [job EXCEPT ![w][q] = IF n + t > 0 THEN "rows" ELSE "empty"]
    /\ UNCHANGED <<now, lang, pc, plan, deadline, query, tries, got, wake, owns, shutdowns>>

\* as_completed: up to enough rows; a job cancelled in the queue never completes.
Found(w) == Cardinality({q \in QueryIds : job[w][q] = "rows"})
Collected(w) == Found(w) >= Most \/ \A q \in QueryIds : job[w][q] \in {"rows", "empty"}
Collect(w) ==
    /\ pc[w] = "collect" /\ Collected(w)
    /\ got' = [got EXCEPT ![w] = Least(Found(w), Limit)]
    /\ Goto(w, IF Found(w) < Limit /\ plan[w] \in {"tavily", "langsearch+tavily"}
               THEN "tavily" ELSE "done")
    /\ UNCHANGED <<now, lang, plan, deadline, query, tries, wake, owns, ddgs>>

\* shutdown_ddgs_pool: what waits in the queue is cancelled.
Shutdown ==
    /\ shutdowns < MaxShutdowns /\ shutdowns' = shutdowns + 1
    /\ job' = [w \in Workers |-> [q \in QueryIds |-> IF job[w][q] = "queued" THEN "cut" ELSE job[w][q]]]
    /\ UNCHANGED <<now, lang, pc, plan, deadline, query, tries, got, wake, owns>>

\* An error is the end of its query only.
TavilyQuery(w) ==
    /\ pc[w] = "tavily" /\ query[w] <= Queries
    /\ \E n \in 0 .. 1 : got' = [got EXCEPT ![w] = Least(Limit, @ + n)]
    /\ query' = [query EXCEPT ![w] = @ + 1]
    /\ UNCHANGED <<now, lang, pc, plan, deadline, tries, wake, owns, ddgs>>
TavilyEnds(w) ==
    /\ pc[w] = "tavily" /\ query[w] > Queries /\ Goto(w, "done")
    /\ UNCHANGED <<now, lang, plan, deadline, query, tries, got, wake, owns, ddgs>>

(***************************************************************************)
(* Time.                                                                   *)
(***************************************************************************)
\* A tick goes by while someone sleeps, never over a due event.
Tick ==
    /\ now < Horizon /\ (\E w \in Workers : pc[w] \in Asleep \cup {"idle"})
    /\ \A w \in Workers : pc[w] \in Asleep => wake[w] > now
    /\ \A w \in Workers : pc[w] \notin {"query", "attempt"} /\ (pc[w] = "idle" => now < MaxStart)
    /\ now' = now + 1
    /\ UNCHANGED <<lang, pc, plan, deadline, query, tries, got, wake, owns, ddgs>>

Step(w) ==
    \/ Start(w) \/ LangSearchEnds(w) \/ Post(w) \/ Attempt(w) \/ Send(w) \/ CallEnds(w)
    \/ Retry(w) \/ SubmitAll(w) \/ Collect(w) \/ TavilyQuery(w) \/ TavilyEnds(w)
    \/ \E q \in QueryIds : RunJob(w, q)

Next == Tick \/ Shutdown \/ \E w \in Workers : Step(w)

Spec == Init /\ [][Next]_vars

-----------------------------------------------------------------------------
\* Sleeps for the rate limit, sleeps between tries and calls, whatever the
\* order of the queries and of the other threads, end within the deadline of
\* their search.
EndsByDeadline == \A w \in Workers : pc[w] \in Asleep => wake[w] <= deadline[w]

\* Two requests, of one thread or of two, are an interval apart.
OnePerInterval == [][\A w \in Workers : pc[w] = "slot" /\ pc'[w] = "sent" => now >= lastSent]_vars

\* The claim of the probe has a search that gives it back.
ProbeHasSearch == circuit.probing => \E w \in Workers : owns[w]
=============================================================================
