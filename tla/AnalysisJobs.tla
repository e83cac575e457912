----------------------------- MODULE AnalysisJobs -----------------------------
(***************************************************************************)
(* POST /api/news and /api/analyze-v2: work that takes longer than a       *)
(* request may, done once per key by a job of an executor.  A request      *)
(* claims the key and starts the job or joins the one that runs, waits a   *)
(* while, and its page polls again when that is not enough.  The key of an *)
(* analysis is its operation token, that of the news its strategy; the     *)
(* news also show an old bundle at once and renew it in the background.    *)
(***************************************************************************)
EXTENDS Integers, Sequences, FiniteSets

CONSTANTS Pages,       \* pages that ask
          KeyOf,       \* [Pages -> keys]
          News,        \* the keys of the news; the others are analyses
          Forced,      \* pages that ask for news with force=true
          MaxJobs,     \* bound: jobs that are started
          MaxExpiries  \* bound: entries of the caches that grow old

Keys == {KeyOf[p] : p \in Pages}
Analyses == Keys \ News

VARIABLES
    pc,        \* where the request of each page is
    force,     \* pages whose request has force=true
    holder,    \* the job the request waits for, 0 for none
    jobs,      \* the jobs in the order they were claimed; told: whether the
               \* end of the job reaches who joined it
    inflight,  \* news_fetch_inflight, analyze_fetch_inflight: a job or 0
    kept,      \* news_bundle_latest_..., analyze_result_cache
    expiries

vars == <<pc, force, holder, jobs, inflight, kept, expiries>>

States == {"claimed", "queued", "stored", "ok", "error"}

TypeOK ==
    /\ pc \in [Pages -> {"new", "missed", "renew", "claimed", "waiting", "over"}]
    /\ force \subseteq Forced
    /\ jobs \in Seq([key : Keys, how : States, told : BOOLEAN]) /\ Len(jobs) <= MaxJobs
    /\ holder \in [Pages -> 0 .. Len(jobs)] /\ inflight \in [Keys -> 0 .. Len(jobs)]
    /\ kept \in [Keys -> {"none", "fresh", "stale", "error"}]
    /\ \A k \in Keys \ Analyses : kept[k] # "error"
    /\ expiries \in 0 .. MaxExpiries

Init ==
    /\ pc = [p \in Pages |-> "new"] /\ force = Forced
    /\ holder = [p \in Pages |-> 0] /\ jobs = <<>> /\ inflight = [k \in Keys |-> 0]
    /\ kept \in [Keys -> {"none", "stale"}] /\ \A k \in Analyses : kept[k] = "none"
    /\ expiries = 0

Key(p) == KeyOf[p]
Goes(p, label) == pc' = [pc EXCEPT ![p] = label]
Freed(k) == inflight' = [inflight EXCEPT ![k] = 0]
Finished(j) == jobs[j].how \in {"ok", "error"} /\ jobs[j].told

\* The cache is looked up.  A bundle is shown at once unless the page insists;
\* an old one is renewed after that.
Look(p) ==
    /\ pc[p] = "new"
    /\ Goes(p, CASE kept[Key(p)] = "none" \/ p \in force -> "missed"
                 [] kept[Key(p)] = "stale" -> "renew"
                 [] OTHER -> "over")
    /\ UNCHANGED <<force, holder, jobs, inflight, kept, expiries>>

NoneRunsMutant(p) == TRUE  \* a forced refresh joins nobody

\* Under the lock of the table: the key is claimed or its job joined.  Who has
\* shown an old bundle joins nobody.
NoneRuns(p) == inflight[Key(p)] = 0

Claim(p) ==
    /\ pc[p] \in {"missed", "renew"} /\ NoneRuns(p) /\ Len(jobs) < MaxJobs
    /\ jobs' = Append(jobs, [key |-> Key(p), how |-> "claimed", told |-> pc[p] = "missed"])
    /\ inflight' = [inflight EXCEPT ![Key(p)] = Len(jobs')]
    /\ holder' = [holder EXCEPT ![p] = Len(jobs')] /\ Goes(p, "claimed")
    /\ UNCHANGED <<force, kept, expiries>>

Join(p) ==
    /\ pc[p] \in {"missed", "renew"} /\ inflight[Key(p)] # 0
    /\ holder' = [holder EXCEPT ![p] = inflight[Key(p)]]
    /\ Goes(p, IF pc[p] = "missed" THEN "waiting" ELSE "over")
    /\ UNCHANGED <<force, jobs, inflight, kept, expiries>>

\* The executor takes the job; the page waits for it, or has its answer.
Submit(p) ==
    /\ pc[p] = "claimed" /\ Goes(p, IF jobs[holder[p]].told THEN "waiting" ELSE "over")
    /\ jobs' = [jobs EXCEPT ![holder[p]].how = "queued", ![holder[p]].told = FALSE]
    /\ UNCHANGED <<force, holder, inflight, kept, expiries>>

RefusedMutant(p) ==  \* a refused job keeps its claim
    /\ pc[p] = "claimed" /\ Goes(p, "over")
    /\ jobs' = [jobs EXCEPT ![holder[p]].how = "error"]
    /\ UNCHANGED <<force, holder, inflight, kept, expiries>>

\* The queue is full or the executor stopped: the claim goes.  Who joined is
\* woken with the error, but not who joined the renewal of an old bundle.
Refused(p) ==
    /\ pc[p] = "claimed" /\ Goes(p, "over") /\ Freed(Key(p))
    /\ jobs' = [jobs EXCEPT ![holder[p]].how = "error"]
    /\ UNCHANGED <<force, holder, kept, expiries>>

\* _run_news_job: a bundle worth keeping is kept before the claim goes.
StoreBundle(j) ==
    /\ jobs[j].how = "queued" /\ jobs[j].key \in News
    /\ jobs' = [jobs EXCEPT ![j].how = "stored"]
    /\ kept' = [kept EXCEPT ![jobs[j].key] = "fresh"]
    /\ UNCHANGED <<pc, force, holder, inflight, expiries>>

Ends(j, how) == jobs' = [jobs EXCEPT ![j].how = how, ![j].told = TRUE]

FinishNews(j) ==
    /\ jobs[j].key \in News /\ Freed(jobs[j].key)
    /\ \/ jobs[j].how \in {"stored", "queued"} /\ Ends(j, "ok")
       \/ jobs[j].how = "queued" /\ Ends(j, "error")
    /\ UNCHANGED <<pc, force, holder, kept, expiries>>

\* _run_analyze_job: prices, research, the model, the summary into the chat.
\* The claim goes and the outcome is kept under one lock.
FinishAnalysis(j) ==
    /\ jobs[j].how = "queued" /\ jobs[j].key \in Analyses /\ Freed(jobs[j].key)
    /\ \/ Ends(j, "ok") /\ kept' = [kept EXCEPT ![jobs[j].key] = "fresh"]
       \/ Ends(j, "error") /\ kept' = [kept EXCEPT ![jobs[j].key] = "error"]
    /\ UNCHANGED <<pc, force, holder, expiries>>

\* The wait ends with the job ...
Answer(p) ==
    /\ pc[p] = "waiting" /\ Finished(holder[p]) /\ Goes(p, "over")
    /\ UNCHANGED <<force, holder, jobs, inflight, kept, expiries>>

\* ... or with its time limit.  An analysis looks once more; else the page
\* polls, with the same key but without force=true.
StillFetching(p) ==
    /\ pc[p] = "waiting" /\ ~Finished(holder[p])
    /\ Goes(p, IF Key(p) \in Analyses /\ kept[Key(p)] # "none" THEN "over" ELSE "new")
    /\ force' = force \ {p}
    /\ UNCHANGED <<holder, jobs, inflight, kept, expiries>>

\* A bundle grows old; the outcome of an analysis is forgotten.
Expire(k) ==
    /\ expiries < MaxExpiries /\ expiries' = expiries + 1
    /\ kept[k] \in {"fresh", "error"}
    /\ kept' = [kept EXCEPT ![k] = IF k \in News THEN "stale" ELSE "none"]
    /\ UNCHANGED <<pc, force, holder, jobs, inflight>>

Handle(p) == Look(p) \/ Claim(p) \/ Join(p) \/ Submit(p) \/ Refused(p) \/ Answer(p)
                \/ StillFetching(p)
Work(j) == StoreBundle(j) \/ FinishNews(j) \/ FinishAnalysis(j)
Next == \/ \E p \in Pages : Handle(p)
        \/ \E j \in DOMAIN jobs : Work(j)
        \/ \E k \in Keys : Expire(k)

\* The server handles its requests and the executors run their jobs.
Fairness == /\ \A p \in Pages : WF_vars(Submit(p) \/ Refused(p))
            /\ \A j \in 1 .. MaxJobs : WF_vars(j \in DOMAIN jobs /\ Work(j))
Spec == Init /\ [][Next]_vars /\ Fairness

(***************************************************************************)
(* Properties                                                              *)
(***************************************************************************)
\* A key has one job at a time, and that job holds its claim: two pages, a
\* forced refresh and the renewal of an old bundle never do the work twice at
\* once, and the end of a job never frees the claim of another.
OneJobPerKey ==
    \A j \in DOMAIN jobs : jobs[j].how \in {"claimed", "queued", "stored"}
                              => inflight[jobs[j].key] = j

\* A claimed key is free again in the end, whatever became of the job:
\* otherwise every later request of the key would wait for nothing.
KeyIsReleased == \A k \in Keys : inflight[k] # 0 ~> inflight[k] = 0

\* api.js:1527-1528: a page that is told that the bundle is still being made
\* draws it when it is complete.  One that asked with force=true polls without
\* it, and is shown the bundle it wanted to replace.
RefreshIsDrawnWhenComplete ==
    [][\A p \in Forced : pc[p] = "new" => pc'[p] # "renew"]_vars
=============================================================================
