----------------------------- MODULE NewsGather -----------------------------
(***************************************************************************)
(* One run of the market news: the contexts and the trending titles of two *)
(* markets are gathered in a bounded pool, for a limited time; what came   *)
(* in is summarised by the model, or by a bundle cached for the same       *)
(* contexts.  Titles that could not be had are asked for again by a        *)
(* refresh of their own, one per market.                                   *)
(***************************************************************************)
EXTENDS Naturals, FiniteSets

CONSTANTS PoolSize,   \* workers and queue of the fan-out pool
          Slots,      \* ... of the executor the refreshes run in
          MaxRuns,    \* bound: runs of the news job
          MaxExpiries \* bound: expiries of cached titles

Markets == {"us", "jp"}
Trends == {"usTrends", "jpTrends"}
Sources == Markets \cup Trends
MarketOf == [usTrends |-> "us", jpTrends |-> "jp"]
Results == {"rows", "empty", "error"}
Statuses == Results \cup {"success", "pending", "timeout"}
Parts == Markets \cup {"trends"}

VARIABLES
    pc,        \* of the news job: "idle", "submit", "wait", "told", "ask", "end"
    forced,    \* force_refresh
    fut,       \* the futures of this run
    orphans,   \* futures of earlier runs that still hold the pool
    done,      \* what wait() returned
    status,    \* retrieve_status
    used,      \* the sources whose text goes to the model
    bundle,    \* "none", "empty", "summary", "parsing"
    stored,    \* the contexts a bundle is cached for
    titles,    \* the cached titles of a market: "none", "rows", "empty"
    inflight,  \* trends_refresh_inflight
    refresh,   \* the refresh of a market: "none", "submit", "queued", "built"
    runs, expiries

gather == <<pc, forced, fut, orphans, done, status, used, bundle, stored, runs>>
trend == <<titles, inflight, refresh, expiries>>
vars == <<gather, trend>>

TypeOK ==
    /\ pc \in {"idle", "submit", "wait", "told", "ask", "end"} /\ forced \in BOOLEAN
    /\ fut \in [Sources -> {"none", "live", "cancelled"} \cup Results]
    /\ orphans \in 0 .. PoolSize /\ done \subseteq Sources
    /\ status \in [Parts -> Statuses] /\ used \subseteq Sources
    /\ bundle \in {"none", "empty", "summary", "parsing"}
    /\ stored \subseteq SUBSET Sources
    /\ titles \in [Markets -> {"none", "rows", "empty"}] /\ inflight \subseteq Markets
    /\ refresh \in [Markets -> {"none", "submit", "queued", "built"}]
    /\ runs \in 0 .. MaxRuns /\ expiries \in 0 .. MaxExpiries

Pending == [p \in Parts |-> "pending"]
\* Other runs may hold the pool and have left a bundle.
Init ==
    /\ pc = "idle" /\ forced = FALSE /\ fut = [s \in Sources |-> "none"]
    /\ orphans \in 0 .. PoolSize
    /\ done = {} /\ status = Pending /\ used = {} /\ bundle = "none"
    /\ stored \in {{}, {Markets}, {Sources}}
    /\ titles = [m \in Markets |-> "none"] /\ inflight = {}
    /\ refresh = [m \in Markets |-> "none"] /\ runs = 0 /\ expiries = 0

(***************************************************************************)
(* The news job.                                                           *)
(***************************************************************************)
InPool == orphans + Cardinality({s \in Sources : fut[s] = "live"})

Begin ==
    /\ pc \in {"idle", "end"} /\ runs < MaxRuns /\ runs' = runs + 1
    /\ forced' \in BOOLEAN
    /\ orphans' = InPool
    /\ fut' = [s \in Sources |-> "none"] /\ done' = {} /\ status' = Pending
    /\ used' = {} /\ bundle' = "none" /\ pc' = "submit"
    /\ UNCHANGED <<stored, trend>>

Order == [us |-> 1, jp |-> 2, usTrends |-> 3, jpTrends |-> 4]

\* A refused submission ends the gathering; what was submitted goes on.
Submit ==
    /\ pc = "submit"
    /\ LET room == PoolSize - InPool
       IN /\ fut' = [s \in Sources |-> IF Order[s] <= room THEN "live" ELSE "none"]
          /\ IF room >= 4 THEN pc' = "wait" /\ UNCHANGED status
             ELSE pc' = "ask" /\ status' = [p \in Parts |-> "error"]
    /\ UNCHANGED <<forced, orphans, done, used, bundle, stored, runs, trend>>

Ended(s) == fut[s] \in Results

\* All ended, or NEWS_CONTEXT_WAIT_TIMEOUT went by.
Waited ==
    /\ pc = "wait"
    /\ done' = {s \in Sources : Ended(s)} /\ pc' = "told"
    /\ UNCHANGED <<forced, fut, orphans, status, used, bundle, stored, runs, trend>>

Result(s) == IF s \notin done THEN "timeout" ELSE IF fut[s] = "rows" THEN "success" ELSE fut[s]
\* Titles of one market are enough; else the more telling of the two failures.
TrendsStatusMutant ==
    LET r == {Result(s) : s \in Trends}
    IN IF "timeout" \in r THEN "timeout" ELSE IF "error" \in r THEN "error"
       ELSE IF "success" \in r THEN "success" ELSE "empty"
TrendsStatus ==
    LET r == {Result(s) : s \in Trends}
    IN IF "success" \in r THEN "success" ELSE IF "timeout" \in r THEN "timeout"
       ELSE IF "error" \in r THEN "error" ELSE "empty"

\* What has not begun by now is cancelled, the rest goes on unheard.
Gathered ==
    /\ pc = "told" /\ pc' = "ask"
    /\ \E begun \in SUBSET {s \in Sources : fut[s] = "live"} :
          fut' = [s \in Sources |->
                    IF fut[s] = "live" /\ s \notin begun THEN "cancelled" ELSE fut[s]]
    /\ status' = [p \in Parts |-> IF p = "trends" THEN TrendsStatus ELSE Result(p)]
    /\ used' = {s \in done : fut[s] = "rows"}
    /\ UNCHANGED <<forced, orphans, done, bundle, stored, runs, trend>>

\* The model answers, answers badly, or with an error that ends the job.
Summarised == {"summary", "parsing", "none"}
Kept(b) == b = "summary"

Asks == used # {}

Answer ==
    /\ pc = "ask" /\ pc' = "end"
    /\ IF ~Asks THEN bundle' = "empty" /\ UNCHANGED stored
       ELSE \/ ~forced /\ used \in stored /\ bundle' = "summary" /\ UNCHANGED stored
            \/ /\ forced \/ used \notin stored
               /\ \E b \in Summarised :
                     /\ bundle' = b
                     /\ stored' = IF ~forced /\ Kept(b) THEN stored \cup {used} ELSE stored
    /\ UNCHANGED <<forced, fut, orphans, done, status, used, runs, trend>>

(***************************************************************************)
(* The pool.                                                               *)
(***************************************************************************)
Context(m) ==
    /\ fut[m] = "live" /\ \E r \in Results : fut' = [fut EXCEPT ![m] = r]
    /\ UNCHANGED <<pc, forced, orphans, done, status, used, bundle, stored, runs, trend>>

\* Without cached titles they are built here; without any, in a refresh.
Titles(s) ==
    LET m == MarketOf[s] IN
    /\ fut[s] = "live"
    /\ \/ titles[m] # "none" /\ fut' = [fut EXCEPT ![s] = titles[m]] /\ UNCHANGED trend
       \/ titles[m] = "none" /\ fut' = [fut EXCEPT ![s] = "rows"]
          /\ titles' = [titles EXCEPT ![m] = "rows"] /\ UNCHANGED <<inflight, refresh, expiries>>
       \/ /\ titles[m] = "none" /\ fut' = [fut EXCEPT ![s] = "empty"]
          /\ IF m \in inflight THEN UNCHANGED <<inflight, refresh>>
             ELSE inflight' = inflight \cup {m} /\ refresh' = [refresh EXCEPT ![m] = "submit"]
          /\ UNCHANGED <<titles, expiries>>
    /\ UNCHANGED <<pc, forced, orphans, done, status, used, bundle, stored, runs>>

OrphanEnds ==
    /\ orphans > 0 /\ orphans' = orphans - 1
    /\ UNCHANGED <<pc, forced, fut, done, status, used, bundle, stored, runs, trend>>

(***************************************************************************)
(* The refresh of a market's titles.                                       *)
(***************************************************************************)
Unmarked(m) == inflight \ {m}
Schedule(m) ==
    /\ refresh[m] = "submit"
    /\ IF Cardinality({n \in Markets : refresh[n] = "queued"}) < Slots
       THEN refresh' = [refresh EXCEPT ![m] = "queued"] /\ UNCHANGED inflight
       ELSE refresh' = [refresh EXCEPT ![m] = "none"] /\ inflight' = Unmarked(m)
    /\ UNCHANGED <<titles, expiries, gather>>

Rebuild(m) ==
    /\ refresh[m] = "queued" /\ refresh' = [refresh EXCEPT ![m] = "built"]
    /\ \E r \in {"rows", "empty"} : titles' = [titles EXCEPT ![m] = r]
    /\ UNCHANGED <<inflight, expiries, gather>>
Refreshed(m) ==
    /\ refresh[m] = "built" /\ refresh' = [refresh EXCEPT ![m] = "none"] /\ inflight' = Unmarked(m)
    /\ UNCHANGED <<titles, expiries, gather>>

Expire(m) ==
    /\ titles[m] # "none" /\ expiries < MaxExpiries
    /\ titles' = [titles EXCEPT ![m] = "none"] /\ expiries' = expiries + 1
    /\ UNCHANGED <<inflight, refresh, gather>>

News == Begin \/ Submit \/ Waited \/ Gathered \/ Answer
Next ==
    \/ News \/ OrphanEnds
    \/ \E m \in Markets : Context(m) \/ Schedule(m) \/ Rebuild(m) \/ Refreshed(m) \/ Expire(m)
    \/ \E s \in Trends : Titles(s)
Spec == Init /\ [][Next]_vars

-----------------------------------------------------------------------------
\* What the page is told of a part agrees with what the model was given of it,
\* however the futures, the timeout and a full pool fall together.
StatusIsTrue ==
    pc = "end" =>
        /\ \A m \in Markets : status[m] = "success" <=> m \in used
        /\ status["trends"] = "success" <=> used \cap Trends # {}

\* No summary, fresh or cached, without a text it is drawn from.
NothingInvented == (bundle = "summary" => used # {}) /\ {} \notin stored

\* A market is marked as being refreshed only while a refresh of it lives, and
\* no market has a refresh without the mark.
MarkHasRefresh == \A m \in Markets : m \in inflight <=> refresh[m] # "none"
=============================================================================
