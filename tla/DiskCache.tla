------------------------------ MODULE DiskCache ------------------------------
(***************************************************************************)
(* utils/disk_cache.py: StockDiskCache, shared by the threads of a server  *)
(* and by the servers of a host.  Every public operation runs under the    *)
(* lock of the threads and the lock file of the processes, so it is one    *)
(* step; where the lock is not free in time it does nothing.  The removal  *)
(* of portfolio fields from an old cache takes the lock for each entry,    *)
(* and so does the start of a server that waits for it.                    *)
(*                                                                         *)
(* Entries also change behind the cache: a clock is set back, a backup is  *)
(* restored (the times of the files are new, their content is not), a file *)
(* is damaged so that it is no JSON or no text at all.                     *)
(***************************************************************************)
EXTENDS Integers, FiniteSets

CONSTANTS Keys, MaxEntries, Ttl, MaxTtl, MaxTime,
          MaxFaults  \* bound: restores, damages, set-back clocks, busy locks

VARIABLES
    entry,    \* the files: content, field, stored_at (-1: no finite number), mtime
    now,
    todo,     \* entries the migration listed and has not done
    boot,     \* the server that starts
    skipped,  \* entries the migration skipped
    faults

vars == <<entry, now, todo, boot, skipped, faults>>

Contents == {"json", "broken", "binary"}
Absent == [content |-> "none", field |-> FALSE, stored |-> -1, mtime |-> 0]
Times == 0 .. MaxTime
Entries == [content : Contents, field : BOOLEAN, stored : Times \cup {-1}, mtime : Times]
               \cup {Absent}

TypeOK ==
    /\ entry \in [Keys -> Entries]
    /\ now \in Times /\ faults \in 0 .. MaxFaults
    /\ todo \subseteq Keys /\ skipped \subseteq Keys
    /\ boot \in {"off", "migrating", "ready", "failed"}

\* An older release has left entries with the portfolio in them.
Init ==
    /\ \E old \in SUBSET Keys :
          /\ Cardinality(old) <= MaxEntries
          /\ entry = [k \in Keys |-> IF k \in old
                THEN [content |-> "json", field |-> TRUE, stored |-> 0, mtime |-> 0] ELSE Absent]
    /\ now = 0 /\ todo = {} /\ boot = "off" /\ skipped = {} /\ faults = 0

Present(e) == {k \in Keys : e[k] # Absent}

\* _entry_age_seconds: stored_at, unless it is no number or not yet; then the
\* time of the file.
Age(f) == IF f.content = "json" /\ f.stored \in 0 .. now THEN now - f.stored
          ELSE IF f.mtime <= now THEN now - f.mtime ELSE 0

\* _remove_stale_entries and _evict_if_needed: what is too old for any caller
\* goes, then the files that were written first.  Files of one time go in any
\* order.
Unstale(e) == [k \in Keys |-> IF e[k] # Absent /\ Age(e[k]) > MaxTtl THEN Absent ELSE e[k]]

Evictions(e) ==
    LET surplus == Cardinality(Present(e)) - MaxEntries
    IN IF surplus <= 0 THEN {e}
       ELSE {[k \in Keys |-> IF k \in gone THEN Absent ELSE e[k]] :
                gone \in {g \in SUBSET Present(e) :
                             /\ Cardinality(g) = surplus
                             /\ \A k \in g, l \in Present(e) \ g : e[k].mtime <= e[l].mtime}}

\* A cleanup is due every ten minutes, and when it is asked for.
CleanUps(e) == {e} \cup Evictions(Unstale(e))

\* get looks at the files its cleanup leaves, has at those that are there.
Expired(f) == f.content = "json" /\ Age(f) > Ttl
GetAnswers(e, k) == e[k].content = "json" /\ ~Expired(e[k])
HasAnswers(k) == entry[k].content = "json" /\ Age(entry[k]) <= Ttl

(***************************************************************************)
(* Operations.                                                             *)
(***************************************************************************)
Rest == <<now, todo, boot, skipped, faults>>
Fault == faults < MaxFaults /\ faults' = faults + 1

\* get: after a cleanup that is due, an old entry and one that is no JSON are
\* removed; one that is no text is left, and the call raises.
Get(k) ==
    /\ \E e \in CleanUps(entry) :
          entry' = IF e[k].content = "broken" \/ Expired(e[k])
                   THEN [e EXCEPT ![k] = Absent] ELSE e
    /\ UNCHANGED Rest

\* set: a new file replaces the old one, then the cap and a cleanup.  Callers
\* of this release store no portfolio fields.
Set(k) ==
    /\ \E e \in Evictions([entry EXCEPT ![k] =
                 [content |-> "json", field |-> FALSE, stored |-> now, mtime |-> now]]) :
          entry' \in CleanUps(e)
    /\ UNCHANGED Rest

\* delete, delete_prefix, clear
Delete(ks) ==
    /\ ks \cap Present(entry) # {}
    /\ entry' = [k \in Keys |-> IF k \in ks THEN Absent ELSE entry[k]]
    /\ UNCHANGED Rest

CleanUp == entry' \in Evictions(Unstale(entry)) /\ UNCHANGED Rest

(***************************************************************************)
(* remove_fields_recursive, called by the start of a server.               *)
(***************************************************************************)
BootBegin ==
    /\ boot \in {"off", "ready", "failed"} /\ boot' = "migrating"
    /\ todo' = Present(entry) /\ skipped' = {}
    /\ UNCHANGED <<entry, now, faults>>

ScrubbedMutant(f) == IF f.content = "broken" THEN Absent ELSE f  \* fields are left

\* The file as it is now, under the lock: its fields go; what is no JSON goes
\* itself; what is no text raises through the migration and the start.
Scrubbed(f) ==
    CASE f.content = "json" -> [f EXCEPT !.field = FALSE, !.mtime = IF f.field THEN now ELSE @]
      [] f.content = "broken" -> Absent
      [] OTHER -> f

MigrateOne(k) ==
    /\ boot = "migrating" /\ k \in todo /\ todo' = todo \ {k}
    /\ entry' = [entry EXCEPT ![k] = Scrubbed(@)]
    /\ boot' = IF entry[k].content = "binary" THEN "failed" ELSE boot
    /\ UNCHANGED <<now, skipped, faults>>

\* The lock file is not free in ten seconds: the entry is skipped.
MigrateBusy(k) ==
    /\ boot = "migrating" /\ k \in todo /\ Fault
    /\ todo' = todo \ {k} /\ skipped' = skipped \cup {k}
    /\ UNCHANGED <<entry, now, boot>>

BootEnd ==
    /\ boot = "migrating" /\ todo = {} /\ boot' = "ready"
    /\ UNCHANGED <<entry, now, todo, skipped, faults>>

(***************************************************************************)
(* What happens to the files from outside.                                 *)
(***************************************************************************)
Tick == now < MaxTime /\ now' = now + 1 /\ UNCHANGED <<entry, todo, boot, skipped, faults>>
SetBack == now > 0 /\ Fault /\ now' = now - 1 /\ UNCHANGED <<entry, todo, boot, skipped>>
\* An earlier file comes back with a new time, while no server runs.
Restore(k) ==
    /\ boot \in {"off", "failed"} /\ Fault
    /\ \E old \in 0 .. now :
          entry' = [entry EXCEPT ![k] = [content |-> "json", field |-> TRUE,
                                         stored |-> old, mtime |-> now]]
    /\ UNCHANGED <<now, todo, boot, skipped>>

Damage(k) ==
    /\ entry[k].content = "json" /\ Fault
    /\ \E f \in {[entry[k] EXCEPT !.stored = -1]}
                 \cup {[entry[k] EXCEPT !.content = c, !.stored = -1] : c \in {"broken", "binary"}} :
          entry' = [entry EXCEPT ![k] = f]
    /\ UNCHANGED <<now, todo, boot, skipped>>

Next ==
    \/ \E k \in Keys : Get(k) \/ Set(k) \/ Delete({k}) \/ Restore(k) \/ Damage(k)
    \/ Delete(Keys) \/ CleanUp \/ Tick \/ SetBack 
    \/ BootBegin \/ BootEnd \/ \E k \in Keys : MigrateOne(k) \/ MigrateBusy(k)

Spec == Init /\ [][Next]_vars

(***************************************************************************)
(* Properties                                                              *)
(***************************************************************************)
\* disk_cache.py:84-86, :445-450: has and get agree on every entry, restored,
\* damaged or from the future, and whatever cleanup get has to do first, while
\* no restore has put more files there than may be.
HasAgreesWithGet ==
    Cardinality(Present(entry)) <= MaxEntries =>
        \A k \in Keys, e \in CleanUps(entry) : HasAnswers(k) = GetAnswers(e, k)

\* Once a server is up, no entry that is JSON holds a portfolio field, but for
\* those whose lock was busy: neither a write during the migration nor the
\* eviction of what it listed lets one through.
NoHoldingsOnDisk ==
    boot = "ready" =>
        \A k \in Keys : entry[k].content = "json" /\ entry[k].field => k \in skipped

\* boot.py:113-114: the cache is disposable and must not make the start fail.
CacheNeverFailsBoot == boot # "failed"
=============================================================================
