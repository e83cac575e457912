---------------------------- MODULE AiPortfolios ----------------------------
(* AI portfolios: routes/stocks/ai_portfolio.py and                          *)
(* services/ai_portfolio_service.py.  A browser tab asks for a portfolio to  *)
(* be generated or rebalanced and polls the same request until it is told;   *)
(* the work is a background job per (operation, theme), its result waits in  *)
(* a result cache.  Generations of one theme hand a slot to each other.  The *)
(* user saves and deletes portfolios meanwhile.  A portfolio is its theme    *)
(* and whether it is real (the AI's or the user's) or the built-in stub.     *)
EXTENDS Naturals, Sequences, FiniteSets

CONSTANTS
  Tabs,        \* tabs of one conversation scope
  Themes,      \* themes; the id of a portfolio is its theme
  Presets,     \* those with an entry in DEFAULT_PRESET_CONFIGS
  MaxSaved,    \* MAX_SAVED_AI_PORTFOLIOS
  Attempts,    \* _AI_GEN_HANDOFF_MAX_ATTEMPTS
  None,        \* no owner of a slot
  MaxEdits     \* bound: portfolios saved or deleted by the user

Ops == {"generate", "rebalance"}
Keys == Ops \X Themes           \* the in-flight key, its scope being the same
Op(k) == k[1]
Theme(k) == k[2]

VARIABLES
  saved,       \* ai_portfolios.json: portfolios, oldest first
  inflight,    \* ai_portfolio_fetch_inflight
  results,     \* ai_portfolio_result_cache: "none", "error" or how it came
  slot,        \* _AI_GEN_INFLIGHT: the job that generates each theme
  job,         \* the job of each key: where it is, its result, its attempts
  tab,         \* what each tab's request does, and for which key
  edits,       \* edits so far
  edited       \* themes whose edit is saved and whose results are not dropped

vars == <<saved, inflight, results, slot, job, tab, edits, edited>>

Makes == {"real", "stub"}
Holds(pc) == pc \in {"ask", "persist", "release"}

TypeOK ==
  /\ Len(saved) <= MaxSaved
  /\ \A i \in 1..Len(saved) : saved[i] \in [theme : Themes, made : Makes]
  /\ \A i, j \in 1..Len(saved) : saved[i].theme = saved[j].theme => i = j
  /\ inflight \subseteq Keys /\ results \in [Keys -> Makes \cup {"none", "error"}]
  /\ slot \in [Themes -> Keys \cup {None}]
  /\ job \in [Keys -> [pc : {"idle", "find", "slot", "wait", "woken", "ask", "persist", "release", "publish"},
                       result : Makes \cup {"none", "error"}, tries : 0..Attempts]]
  /\ tab \in [Tabs -> [pc : {"idle", "miss", "submit", "wait", "told"}, key : Keys]]
  /\ edits \in 0..MaxEdits /\ edited \subseteq Themes

Idle == [pc |-> "idle", key |-> CHOOSE k \in Keys : TRUE]
NoJob == [pc |-> "idle", result |-> "none", tries |-> 0]

Init ==
  /\ saved = <<>> /\ inflight = {} /\ results = [k \in Keys |-> "none"]
  /\ slot = [t \in Themes |-> None] /\ job = [k \in Keys |-> NoJob]
  /\ tab = [c \in Tabs |-> Idle]
  /\ edits = 0 /\ edited = {}

Store == <<saved, edits, edited>>

(* ------------------------------- the store ------------------------------- *)

Positions(t) == {i \in 1..Len(saved) : saved[i].theme = t}
IsSaved(t) == Positions(t) # {}
Found(t) == IF IsSaved(t) THEN saved[CHOOSE i \in Positions(t) : TRUE].made ELSE "none"

\* save_custom_ai_portfolio: replace in place, or append and drop the oldest.
Put(t, made) ==
  LET entry == [theme |-> t, made |-> made]
  IN IF IsSaved(t) THEN [i \in 1..Len(saved) |-> IF i \in Positions(t) THEN entry ELSE saved[i]]
     ELSE Append(IF Len(saved) < MaxSaved THEN saved ELSE Tail(saved), entry)

\* delete_custom_ai_portfolio filters by the id; no theme is saved twice.
Without(t) ==
  LET i == CHOOSE i \in Positions(t) : TRUE
  IN SubSeq(saved, 1, i - 1) \o SubSeq(saved, i + 1, Len(saved))

(* ------------------------------ the requests ----------------------------- *)

Asks(c, k) == tab' = [tab EXCEPT ![c] = IF results[k] = "none" THEN [pc |-> "miss", key |-> k] ELSE Idle]

\* The result cache first: a generated portfolio stays for later polls, an
\* error is told once ...  The get and the pop of an error are one step: a result
\* that a new job of the key stores between them would go with the error, and be
\* made again.
AskGenerate(c, k) ==
  /\ tab[c].pc = "idle" /\ Op(k) = "generate" /\ Asks(c, k)
  /\ results' = IF results[k] = "error" THEN [results EXCEPT ![k] = "none"] ELSE results
  /\ UNCHANGED <<Store, inflight, slot, job>>

\* ... and so is whatever a rebalance left.
AskRebalance(c, k) ==
  /\ tab[c].pc = "idle" /\ Op(k) = "rebalance" /\ Asks(c, k)
  /\ results' = [results EXCEPT ![k] = "none"]
  /\ UNCHANGED <<Store, inflight, slot, job>>

\* Then, in a critical section of its own, the table of jobs.
Claim(c) ==
  /\ tab[c].pc = "miss"
  /\ tab' = [tab EXCEPT ![c].pc = IF tab[c].key \in inflight THEN "wait" ELSE "submit"]
  /\ inflight' = inflight \cup {tab[c].key}
  /\ UNCHANGED <<Store, results, slot, job>>

\* Every tab that waits on this holder sees its event set.
Told(k) == [c \in Tabs |-> IF tab[c].key = k /\ tab[c].pc = "wait"
                             THEN [tab[c] EXCEPT !.pc = "told"] ELSE tab[c]]

Submit(c) ==
  /\ tab[c].pc = "submit" /\ tab' = [tab EXCEPT ![c].pc = "wait"]
  /\ job' = [job EXCEPT ![tab[c].key] = [NoJob EXCEPT !.pc = "find"]]
  /\ UNCHANGED <<Store, inflight, results, slot>>

\* queue.Full, or no executor: the entry goes and its waiters get the error.
SubmitFails(c) ==
  /\ tab[c].pc = "submit" /\ inflight' = inflight \ {tab[c].key}
  /\ tab' = [Told(tab[c].key) EXCEPT ![c] = Idle]
  /\ UNCHANGED <<Store, results, slot, job>>

\* Three seconds passed: "fetching", and the tab polls again.
StillFetching(c) ==
  /\ tab[c].pc = "wait" /\ tab' = [tab EXCEPT ![c] = Idle]
  /\ UNCHANGED <<Store, inflight, results, slot, job>>

\* The holder is done: an error leaves the cache ...
AnswerGenerate(c) ==
  /\ tab[c].pc = "told" /\ Op(tab[c].key) = "generate" /\ tab' = [tab EXCEPT ![c] = Idle]
  /\ LET k == tab[c].key IN
       results' = IF results[k] = "error" THEN [results EXCEPT ![k] = "none"] ELSE results
  /\ UNCHANGED <<Store, inflight, slot, job>>

\* ... and a rebalance whatever came.
AnswerRebalance(c) ==
  /\ tab[c].pc = "told" /\ Op(tab[c].key) = "rebalance" /\ tab' = [tab EXCEPT ![c] = Idle]
  /\ results' = [results EXCEPT ![tab[c].key] = "none"]
  /\ UNCHANGED <<Store, inflight, slot, job>>

(* ------------------------------- the job --------------------------------- *)

Step(k, pc, result) == job' = [job EXCEPT ![k].pc = pc, ![k].result = result]

\* generate_ai_portfolio_by_theme: a saved portfolio answers a generate; a
\* rebalance only remembers what was there.
Find(k) ==
  /\ job[k].pc = "find"
  /\ Step(k, IF Op(k) = "generate" /\ IsSaved(Theme(k)) THEN "publish" ELSE "slot", Found(Theme(k)))
  /\ UNCHANGED <<Store, inflight, results, slot, tab>>

TakesMutant(k) == TRUE  \* the slot is taken without a look at its owner
Takes(k) == slot[Theme(k)] = None

TakeSlot(k) ==
  /\ job[k].pc = "slot"
  /\ IF Takes(k)
       THEN slot' = [slot EXCEPT ![Theme(k)] = k] /\ Step(k, "ask", job[k].result)
       ELSE Step(k, "wait", job[k].result) /\ UNCHANGED slot
  /\ UNCHANGED <<Store, inflight, results, tab>>

\* The owner's event; another job may take the slot before this one wakes.
Wake(k) ==
  /\ job[k].pc = "wait" /\ Takes(k) /\ Step(k, "woken", job[k].result)
  /\ UNCHANGED <<Store, inflight, results, slot, tab>>

\* What the owner persisted is reused; else the slot is tried again, so often.
Handoff(k) ==
  /\ job[k].pc = "woken"
  /\ LET t == Theme(k) IN
       \/ IsSaved(t) /\ Step(k, "publish", Found(t)) /\ UNCHANGED slot
       \/ /\ ~IsSaved(t) /\ Takes(k)
          /\ slot' = [slot EXCEPT ![t] = k] /\ Step(k, "ask", job[k].result)
       \/ /\ ~IsSaved(t) /\ ~Takes(k) /\ UNCHANGED slot
          /\ IF job[k].tries + 1 < Attempts
               THEN job' = [job EXCEPT ![k].pc = "wait", ![k].tries = @ + 1]
               ELSE Step(k, "publish", "error")
  /\ UNCHANGED <<Store, inflight, results, tab>>

\* The 180 seconds of the handoff are over.
HandoffEnds(k) ==
  /\ job[k].pc = "wait" /\ Step(k, "publish", "error")
  /\ UNCHANGED <<Store, inflight, results, slot, tab>>

\* Search, prompt, model, schema: a portfolio of the model.
ModelAnswers(k) ==
  /\ job[k].pc = "ask" /\ Step(k, "persist", "real")
  /\ UNCHANGED <<Store, inflight, results, slot, tab>>

\* A custom theme that was saved when the job began is shown as it was.
ReusesSaved(k) == job[k].result # "none" /\ Theme(k) \notin Presets

ModelFails(k) ==
  /\ job[k].pc = "ask"
  /\ IF ReusesSaved(k) THEN Step(k, "release", job[k].result) ELSE Step(k, "persist", "stub")
  /\ UNCHANGED <<Store, inflight, results, slot, tab>>

Persist(k) ==
  /\ job[k].pc = "persist" /\ Step(k, "release", job[k].result)
  /\ saved' = Put(Theme(k), job[k].result)
  /\ UNCHANGED <<edits, edited, inflight, results, slot, tab>>

\* A storage error leaves the file as it was.
PersistFails(k) ==
  /\ job[k].pc = "persist" /\ Step(k, "release", "error")
  /\ UNCHANGED <<Store, inflight, results, slot, tab>>

\* _release_ai_generation_slot, whatever happened.
Release(k) ==
  /\ job[k].pc = "release" /\ Step(k, "publish", job[k].result)
  /\ slot' = [slot EXCEPT ![Theme(k)] = None]
  /\ UNCHANGED <<Store, inflight, results, tab>>

\* The job's finally: out of the table, into the result cache; a rebalance
\* also renews what a generate of its theme would find there.
Ends(k) == /\ job[k].pc = "publish" /\ job' = [job EXCEPT ![k] = NoJob]
           /\ inflight' = inflight \ {k} /\ tab' = Told(k)

PublishGenerate(k) ==
  /\ Op(k) = "generate" /\ Ends(k)
  /\ results' = [results EXCEPT ![k] = job[k].result]
  /\ UNCHANGED <<Store, slot>>

PublishRebalance(k) ==
  /\ Op(k) = "rebalance" /\ Ends(k)
  /\ results' = [j \in Keys |->
       IF j = k \/ (j = <<"generate", Theme(k)>> /\ job[k].result # "error")
         THEN job[k].result ELSE results[j]]
  /\ UNCHANGED <<Store, slot>>

(* ------------------------------- the user -------------------------------- *)

\* api_save_ai_portfolio and api_delete_ai_portfolio: the file, then the cache.
SavesOwn(t) ==
  /\ edits < MaxEdits /\ edits' = edits + 1 /\ edited' = edited \cup {t}
  /\ saved' = Put(t, "real")
  /\ UNCHANGED <<inflight, results, slot, job, tab>>

Deletes(t) ==
  /\ edits < MaxEdits /\ IsSaved(t) /\ edits' = edits + 1 /\ edited' = edited \cup {t}
  /\ saved' = Without(t)
  /\ UNCHANGED <<inflight, results, slot, job, tab>>

DropResults(t) ==
  /\ t \in edited /\ edited' = edited \ {t}
  /\ results' = [k \in Keys |-> IF Theme(k) = t THEN "none" ELSE results[k]]
  /\ UNCHANGED <<saved, edits, inflight, slot, job, tab>>

\* AI_PORTFOLIO_RESULT_CACHE_TTL
Expire(k) ==
  /\ results[k] # "none" /\ results' = [results EXCEPT ![k] = "none"]
  /\ UNCHANGED <<Store, inflight, slot, job, tab>>

JobStep(k) ==
  \/ Find(k) \/ TakeSlot(k) \/ Wake(k) \/ Handoff(k) \/ HandoffEnds(k)
  \/ ModelAnswers(k) \/ ModelFails(k) \/ Persist(k) \/ PersistFails(k)
  \/ Release(k) \/ PublishGenerate(k) \/ PublishRebalance(k)

Next ==
  \/ \E c \in Tabs : \/ \E k \in Keys : AskGenerate(c, k) \/ AskRebalance(c, k)
                     \/ Claim(c) \/ Submit(c) \/ SubmitFails(c)
                     \/ StillFetching(c) \/ AnswerGenerate(c) \/ AnswerRebalance(c)
  \/ \E k \in Keys : JobStep(k) \/ Expire(k)
  \/ \E t \in Themes : SavesOwn(t) \/ Deletes(t) \/ DropResults(t)

\* Worker threads run; a request thread that claimed a key submits its job.
Fairness ==
  /\ \A k \in Keys : WF_vars(JobStep(k))
  /\ \A c \in Tabs : WF_vars(Submit(c) \/ SubmitFails(c))

Spec == Init /\ [][Next]_vars /\ Fairness

\* A theme's slot is held by exactly the job that generates it: two tabs, or a
\* generate and a rebalance, never ask the model for one theme at a time, and
\* no failure leaves a slot that nobody will release.
SlotHasOwner ==
  \A k \in Keys : Holds(job[k].pc) <=> slot[Theme(k)] = k

\* A key in the table of jobs is about to be submitted or has its job, so
\* every tab that waits on it is told.
EntryHasJob ==
  \A k \in Keys : k \in inflight <=>
    \/ job[k].pc # "idle"
    \/ \E c \in Tabs : tab[c].pc = "submit" /\ tab[c].key = k

\* Every claimed key leaves the table again, however the model, the store,
\* the executor and the other jobs of its theme behave.
JobsEnd == \A k \in Keys : k \in inflight ~> k \notin inflight

\* What api_delete_ai_portfolio says it prevents: a cached result that
\* resurrects a portfolio the user deleted.
DeletedStaysGone ==
  \A k \in Keys : results[k] \in Makes /\ Theme(k) \notin edited => IsSaved(Theme(k))

\* What the fallback path says of itself: a saved portfolio is never
\* overwritten with the stub.
StubNeverOverwrites ==
  [][\A t \in Themes : Found(t) = "real" => Found(t)' # "stub"]_vars
=============================================================================
