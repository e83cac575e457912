------------------------------ MODULE SyncFetch ------------------------------
(***************************************************************************)
(* What one run of sync_all_stocks_now does with the stocks of the user:   *)
(* it reloads the list, fetches the prices in one batch with at most two   *)
(* single fetches after it, removes a symbol the provider has refused      *)
(* Threshold times running, saves the list outside the locks, and merges   *)
(* the rows.  Requests add and delete stocks meanwhile (their own saves    *)
(* are in Watchlist; here they succeed).                                   *)
(*                                                                         *)
(* One market.  A run is the only one: the sync lock is in SyncControl.  A *)
(* streak is forgotten after a day without a result, which no run of the   *)
(* worker is late enough to see.                                           *)
(***************************************************************************)
EXTENDS Integers, Sequences, SequencesExt, Places

CONSTANTS Listed,     \* the symbols on the list at first, in order
          Dead,       \* symbols the provider says do not exist
          Threshold,  \* INVALID_SYMBOL_REMOVAL_THRESHOLD
          Fallbacks,  \* max_fallbacks
          MaxEdits,   \* bound: changes the user makes
          MaxOutages  \* bound: answers and saves that fail, rate limits

Syms == ToSet(Listed)
Live == Syms \ Dead

VARIABLES
    list,      \* user_us: entries [sym, ver] in the order they were added
    file,      \* user_stocks.json
    rows,      \* target_stocks_cache: no row, a placeholder or a price
    streak,    \* invalid_symbol_streak
    pc,        \* where the run of the worker is
    items,     \* the symbols it fetches
    results,   \* what it got for them
    removed,   \* the entries it took off the list and has not saved
    edits, outages,
    dropped    \* symbols that auto-removal has taken off the list for good

vars == <<list, file, rows, streak, pc, items, results, removed, edits, outages, dropped>>

Versions == 0 .. MaxEdits
Entries == [sym : Syms, ver : Versions]
Outcomes == {"row", "none", "invalid"}
SymsOf(entries) == {entries[i].sym : i \in DOMAIN entries}
Only(entries, ss) == ItemsAt(entries, {i \in DOMAIN entries : entries[i].sym \in ss})
Without(entries, ss) == Only(entries, Syms \ ss)

TypeOK ==
    /\ list \in Seq(Entries) /\ file \in Seq(Entries) /\ removed \in Seq(Entries)
    /\ IsInjective([i \in DOMAIN list |-> list[i].sym])
    /\ rows \in [Syms -> {"absent", "placeholder", "priced"}]
    /\ streak \in [Syms -> 0 .. Threshold]
    /\ pc \in {"idle", "fetch", "judge", "save", "clean", "merge"}
    /\ items \in Seq(Syms) /\ results \in Seq(Outcomes)
    /\ edits \in Versions /\ outages \in 0 .. MaxOutages /\ dropped \subseteq Syms

Init ==
    /\ list = [i \in DOMAIN Listed |-> [sym |-> Listed[i], ver |-> 0]] /\ file = list
    /\ rows = [s \in Syms |-> "placeholder"] /\ streak = [s \in Syms |-> 0]
    /\ pc = "idle" /\ items = <<>> /\ results = <<>> /\ removed = <<>>
    /\ edits = 0 /\ outages = 0 /\ dropped = {}

(***************************************************************************)
(* Requests.                                                               *)
(***************************************************************************)
Edit == edits < MaxEdits /\ edits' = edits + 1

Add(s) ==
    /\ Edit /\ s \notin SymsOf(list)
    /\ list' = Append(list, [sym |-> s, ver |-> edits + 1]) /\ file' = list'
    /\ rows' = [rows EXCEPT ![s] = IF @ = "absent" THEN "placeholder" ELSE @]
    /\ UNCHANGED <<streak, pc, items, results, removed, outages, dropped>>

Delete(s) ==
    /\ Edit /\ s \in SymsOf(list)
    /\ list' = Without(list, {s}) /\ file' = list'
    /\ rows' = [rows EXCEPT ![s] = "absent"]
    /\ UNCHANGED <<streak, pc, items, results, removed, outages, dropped>>

(***************************************************************************)
(* The run of the worker.                                                  *)
(***************************************************************************)
\* _prepare_sync_items: the list is read again, and everything on it fetched
\* while the market is open or a symbol of it has no price.  A closed market
\* with every price there has nothing to fetch.
Reloaded == file

Prepare ==
    /\ pc = "idle" /\ list' = Reloaded
    /\ \E open \in BOOLEAN :
          items' = IF open \/ \E s \in SymsOf(list') : rows[s] # "priced"
                   THEN [i \in DOMAIN list' |-> list'[i].sym] ELSE <<>>
    /\ pc' = IF items' = <<>> THEN "idle" ELSE "fetch"
    /\ UNCHANGED <<file, rows, streak, results, removed, edits, outages, dropped>>

Outage == outages < MaxOutages /\ outages' = outages + 1
Fetched(rs) == results' = rs /\ pc' = "judge"

\* fetch_stocks_batch without a slot, with a degraded disk cache or with a
\* failed download: nothing for anybody.
BatchFails ==
    /\ pc = "fetch" /\ Outage /\ Fetched([i \in DOMAIN items |-> "none"])
    /\ UNCHANGED <<list, file, rows, streak, items, removed, edits, dropped>>

\* The first of a batch that is cut short by the rate limit have their rows,
\* the others are not in the answer; no single fetch follows.
BatchIsCut ==
    /\ pc = "fetch" /\ Outage
    /\ \E n \in 1 .. Len(items) - 1 :
          Fetched([i \in 1 .. n |-> IF items[i] \in Live THEN "row" ELSE "none"])
    /\ UNCHANGED <<list, file, rows, streak, items, removed, edits, dropped>>

\* fetch_stock, for one symbol the batch did not have: the provider's answer or,
\* for want of one (no slot, no data), the row of an earlier run from the disk
\* cache, which hides a refusal, or nothing (a time limit, a full executor too).
Answer(s) == IF s \in Dead THEN "invalid" ELSE "row"
FetchStock(s) == {Answer(s), "row", "none"}

\* The batch has rows for some symbols; the first Fallbacks of the others are
\* fetched one by one.  Not to get the provider's answer is an outage.
Batch ==
    /\ pc = "fetch"
    /\ \E got \in SUBSET {i \in DOMAIN items : items[i] \in Live} :
       LET missing == DOMAIN items \ got
           tried == {i \in missing : Cardinality({j \in missing : j < i}) < Fallbacks}
       IN \E rs \in [DOMAIN items -> Outcomes] :
            /\ \A i \in DOMAIN items :
                  \/ i \in got /\ rs[i] = "row"
                  \/ i \in tried /\ rs[i] \in FetchStock(items[i])
                  \/ i \in missing \ tried /\ rs[i] = "none"
            /\ IF \A i \in DOMAIN items : (items[i] \in Live \/ i \in tried) => rs[i] = Answer(items[i])
               THEN UNCHANGED outages ELSE Outage
            /\ Fetched(rs)
    /\ UNCHANGED <<list, file, rows, streak, items, removed, edits, dropped>>

CountedMutant(n, outcome) ==  \* no data counts like a refusal
    IF outcome # "row" THEN (IF n < Threshold THEN n + 1 ELSE n) ELSE 0

\* record_symbol_fetch_result: only a refusal counts.
Counted(n, outcome) == IF outcome = "invalid" THEN (IF n < Threshold THEN n + 1 ELSE n) ELSE 0

\* _auto_remove_invalid_symbols, up to the save: not for a batch that was cut
\* or that brought nothing, and not for symbols that are on no list.
Judge ==
    /\ pc = "judge"
    /\ LET judged == Len(results) = Len(items) /\ \E i \in DOMAIN results : results[i] # "none"
           Got(s) == results[CHOOSE i \in DOMAIN items : items[i] = s]
           counts == [s \in Syms |-> IF s \in ToSet(items) THEN Counted(streak[s], Got(s))
                                                           ELSE streak[s]]
           gone == {s \in SymsOf(list) : counts[s] >= Threshold}
       IN IF ~judged THEN pc' = "merge" /\ UNCHANGED <<list, streak, removed>>
          ELSE /\ list' = Without(list, gone)
               /\ removed' = Only(list, gone)
               /\ streak' = [s \in Syms |-> IF s \in gone THEN 0 ELSE counts[s]]
               /\ pc' = IF gone = {} THEN "merge" ELSE "save"
    /\ UNCHANGED <<file, rows, items, results, edits, outages, dropped>>

\* The provider has meanwhile said that it limits the rate: no cleanup.
JudgeLater ==
    /\ pc = "judge" /\ Outage /\ pc' = "merge"
    /\ UNCHANGED <<list, file, rows, streak, items, results, removed, edits, dropped>>

SaveOk ==
    /\ pc = "save" /\ pc' = "clean" /\ file' = list
    /\ dropped' = dropped \cup SymsOf(removed)
    /\ UNCHANGED <<list, rows, streak, items, results, removed, edits, outages>>

\* The rollback: what was removed comes back with its streak, unless the user
\* has added it again; then the run goes on, and another is scheduled.
Restored == Without(removed, SymsOf(list))

SaveFails ==
    /\ pc = "save" /\ Outage /\ pc' = "merge"
    /\ list' = Without(list, SymsOf(Restored)) \o Restored
    /\ streak' = [s \in Syms |-> IF s \in SymsOf(Restored) THEN Threshold ELSE streak[s]]
    /\ removed' = <<>>
    /\ UNCHANGED <<file, rows, items, results, edits, dropped>>

\* The caches forget what was removed, even if it is on the list again.
CleanUp ==
    /\ pc = "clean" /\ pc' = "merge"
    /\ rows' = [s \in Syms |-> IF s \in SymsOf(removed) THEN "absent" ELSE rows[s]]
    /\ removed' = <<>>
    /\ UNCHANGED <<list, file, streak, items, results, edits, outages, dropped>>

\* _process_fetched_stocks: fetched rows replace or join the others, also that
\* of a symbol deleted since.
Merge ==
    /\ pc = "merge" /\ pc' = "idle"
    /\ rows' = [s \in Syms |-> IF \E i \in DOMAIN results : items[i] = s /\ results[i] = "row"
                               THEN "priced" ELSE rows[s]]
    /\ items' = <<>> /\ results' = <<>>
    /\ UNCHANGED <<list, file, streak, removed, edits, outages, dropped>>

\* _update_indices_data: a new rate of the yen is saved with the list.
SaveRate ==
    /\ pc = "idle" /\ file # list /\ file' = list
    /\ UNCHANGED <<list, rows, streak, pc, items, results, removed, edits, outages, dropped>>

Run == \/ Prepare \/ BatchFails \/ BatchIsCut \/ Batch \/ Judge \/ JudgeLater
       \/ SaveOk \/ SaveFails \/ CleanUp \/ Merge
Next == Run \/ SaveRate \/ \E s \in Syms : Add(s) \/ Delete(s)

\* The worker runs on, and the market opens again and again.
Fairness == WF_vars(Run) /\ SF_vars(Prepare /\ items' # <<>>)
Spec == Init /\ [][Next]_vars /\ Fairness

(***************************************************************************)
(* Properties                                                              *)
(***************************************************************************)
\* market_state.py:196-200: outages, cut batches, refused slots and time
\* limits never add up to the silent removal of a symbol that exists.
LiveStays == dropped \subseteq Dead

\* The rollback of a removal that could not be saved never puts an old entry
\* over one the user has stored meanwhile.
NoStaleEntry ==
    [][\A i \in DOMAIN list, j \in DOMAIN list' :
          list[i].sym = list'[j].sym => list'[j].ver >= list[i].ver]_vars

\* A symbol the provider refuses does not stay on the list for ever, although
\* outages start its count again and saves of the shorter list fail.
DeadIsDropped == \A s \in Dead : s \in SymsOf(list) ~> s \notin SymsOf(list)

=============================================================================
