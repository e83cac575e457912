--------------------------- MODULE MarketPublish ---------------------------
(***************************************************************************)
(* How a change of the in-memory market data reaches the pages of mode 1:  *)
(* the threads that write the caches (bg/sync/control.py and process.py,   *)
(* bg/sse_interpolator.py, the watchlist routes), the generation counter   *)
(* they bump, _raw_announce_current_market_state of bg/common.py, which    *)
(* diffs against the last published rows, and the generation-keyed initial *)
(* snapshot of routes/stocks/stream.py.                                    *)
(*                                                                         *)
(* A row is the number of the write that produced its price, 0 when the    *)
(* symbol is not in the cache.  SseStream is about how frames travel; here *)
(* one attached listener receives each frame when it is announced.         *)
(***************************************************************************)
EXTENDS Naturals

CONSTANTS Syms,        \* symbols of the watchlist
          Syncs,       \* threads that run sync_all_stocks_now
          Routes,      \* request threads that change the watchlist
          Interps,     \* the bg_interpolate_loop thread
          Streams,     \* requests that build an initial snapshot
          FullEvery,   \* FULL_SNAPSHOT_INTERVAL
          MaxWrites    \* bound of the model: writes to the caches

Procs == Syncs \cup Routes \cup Interps
Rows  == [Syms -> 0..MaxWrites]
Empty == [s \in Syms |-> 0]
NoBuild == [rows |-> Empty, at |-> 0]
NoSnapshot == [gen |-> 0, at |-> 0, some |-> FALSE]

VARIABLES
  target,      \* target_stocks_cache: what was fetched
  current,     \* current_stocks_cache: what is shown
  writes,      \* writes to the caches so far
  gen,         \* _sse_payload_generation
  cachedGen,   \* _sse_payload_cached_generation
  prev,        \* _sse_prev_stocks: the base of the next diff
  counter,     \* _sse_full_snapshot_counter, modulo FullEvery
  pc,          \* pc[p]: where thread p stands
  build,       \* build[p]: p's copy of the rows and when it was taken
  seen,        \* seen[p]: target rows an interpolator read
  snapshot,    \* _initial_snapshot_cache[1]
  spc, key, served,  \* per stream: stage, generation read, write it was served
  \* History, read by the properties only.
  view,        \* the rows an attached listener shows
  pubAt,       \* when the copy that was published last was taken
  invAt        \* invAt[g]: writes when the generation became g

market  == <<target, current, writes>>
payload == <<gen, cachedGen, prev, counter>>
threads == <<pc, build, seen>>
stream  == <<snapshot, spc, key, served>>
vars == <<market, payload, threads, stream, view, pubAt, invAt>>

TypeOK ==
  /\ target \in Rows /\ current \in Rows /\ prev \in Rows /\ view \in Rows
  /\ writes \in 0..MaxWrites /\ pubAt \in 0..MaxWrites
  /\ gen \in 0..MaxWrites /\ cachedGen \in 0..MaxWrites
  /\ counter \in 0..(FullEvery - 1)
  /\ pc \in [Procs -> {"idle", "read", "fetched", "written", "invalidated", "built"}]
  /\ build \in [Procs -> [rows : Rows, at : 0..MaxWrites]]
  /\ seen \in [Interps -> Rows]
  /\ snapshot \in [gen : 0..MaxWrites, at : 0..MaxWrites, some : BOOLEAN]
  /\ spc \in [Streams -> {"off", "joined", "keyed", "resolved", "served"}]
  /\ key \in [Streams -> 0..MaxWrites] /\ served \in [Streams -> 0..MaxWrites]
  /\ invAt \in [0..MaxWrites -> 0..MaxWrites]

Init ==
  /\ target = Empty /\ current = Empty /\ writes = 0
  /\ gen = 0 /\ cachedGen = 0 /\ prev = Empty /\ counter = 0
  /\ pc = [p \in Procs |-> "idle"]
  /\ build = [p \in Procs |-> NoBuild]
  /\ seen = [p \in Interps |-> Empty]
  /\ snapshot = NoSnapshot
  /\ spc = [r \in Streams |-> "off"]
  /\ key = [r \in Streams |-> 0] /\ served = [r \in Streams |-> 0]
  /\ view = Empty /\ pubAt = 0
  /\ invAt = [g \in 0..MaxWrites |-> 0]

Goto(p, from, to) == pc[p] = from /\ pc' = [pc EXCEPT ![p] = to]

(***************************************************************************)
(* Writers.  Each write holds sse_data_lock; what follows it does not.     *)
(***************************************************************************)
NewWrite == writes < MaxWrites /\ writes' = writes + 1

\* _process_fetched_stocks: fetched rows replace or join the target rows.
\* Rows still to be shown for the first time are shown at once.
SyncFetched(p) ==
  /\ Goto(p, "idle", "fetched")
  /\ NewWrite
  /\ \E got \in SUBSET Syms \ {{}} :
       target' = [s \in Syms |-> IF s \in got THEN writes + 1 ELSE target[s]]
  /\ current' = IF current = Empty THEN target' ELSE current
  /\ UNCHANGED <<payload, build, seen, stream, view, pubAt, invAt>>

\* sync_all_stocks_now: the shown rows become a copy of the target rows.
SyncShow(p) ==
  /\ Goto(p, "fetched", "written")
  /\ NewWrite
  /\ current' = target
  /\ UNCHANGED <<target, payload, build, seen, stream, view, pubAt, invAt>>

\* remove_stock_from_caches: the row leaves both caches.
RouteRemove(p) ==
  /\ Goto(p, "idle", "written")
  /\ NewWrite
  /\ \E s \in Syms : /\ target' = [target EXCEPT ![s] = 0]
                     /\ current' = [current EXCEPT ![s] = 0]
  /\ UNCHANGED <<payload, build, seen, stream, view, pubAt, invAt>>

\* ensure_stock_placeholder_in_caches: a missing row joins both caches.
RouteAdd(p) ==
  /\ Goto(p, "idle", "written")
  /\ NewWrite
  /\ \E s \in Syms :
       LET Placed(rows) == [rows EXCEPT ![s] = IF @ = 0 THEN writes + 1 ELSE @]
       IN target' = Placed(target) /\ current' = Placed(current)
  /\ UNCHANGED <<payload, build, seen, stream, view, pubAt, invAt>>

\* bg_interpolate_loop reads both caches ...
InterpRead(p) ==
  /\ Goto(p, "idle", "read")
  /\ target # Empty
  /\ seen' = [seen EXCEPT ![p] = target]
  /\ build' = [build EXCEPT ![p] = [rows |-> current, at |-> writes]]
  /\ UNCHANGED <<market, payload, stream, view, pubAt, invAt>>

\* ... computes without the lock, and writes the result over whatever is shown
\* by then: every symbol it saw, on its old price or on the target's.
InterpWrite(p) ==
  /\ Goto(p, "read", "written")
  /\ NewWrite
  /\ \E moved \in SUBSET Syms :
       current' = [s \in Syms |->
         IF seen[p][s] = 0 THEN 0
         ELSE IF s \in moved \/ build[p].rows[s] = 0 THEN seen[p][s]
         ELSE build[p].rows[s]]
  /\ UNCHANGED <<target, payload, build, seen, stream, view, pubAt, invAt>>

\* _invalidate_sse_payload_cache.
Invalidate(p) ==
  /\ Goto(p, "written", "invalidated")
  /\ gen' = gen + 1
  /\ invAt' = [invAt EXCEPT ![gen + 1] = writes]
  /\ UNCHANGED <<market, cachedGen, prev, counter, build, seen, stream, view, pubAt>>

(***************************************************************************)
(* _raw_announce_current_market_state.                                     *)
(***************************************************************************)
\* The rows are copied under sse_data_lock, before _sse_payload_lock is taken.
CopyRows(p) ==
  /\ Goto(p, "invalidated", "built")
  /\ build' = [build EXCEPT ![p] = [rows |-> current, at |-> writes]]
  /\ UNCHANGED <<market, payload, seen, stream, view, pubAt, invAt>>

\* _build_sse_diff: the rows that changed; a removed symbol is marked by 0.
Changed(rows, base) == {s \in Syms : rows[s] # base[s]}

\* The page: a full snapshot replaces its rows, a diff overwrites the changed.
ApplyDiff(shown, rows, changed) ==
  [s \in Syms |-> IF s \in changed THEN rows[s] ELSE shown[s]]

NextBaseMutant(rows) == prev    \* the base of the diffs is never moved

\* What the next diff is computed against, and the generation that counts as
\* announced, once an announce is through.
NextBase(rows) == rows
AnnouncedGen == gen

\* The rest runs under _sse_payload_lock: nothing when the generation was
\* published already, else a full snapshot or a diff, unless that is empty.
Announce(p) ==
  /\ Goto(p, "built", "idle")
  /\ build' = [build EXCEPT ![p] = NoBuild]
  /\ LET rows    == build[p].rows
         full    == (counter + 1) % FullEvery = 0
         changed == Changed(rows, prev)
         Publish == /\ prev' = NextBase(rows)
                    /\ view' = IF full THEN rows ELSE ApplyDiff(view, rows, changed)
                    /\ pubAt' = build[p].at
     IN IF gen = cachedGen
        THEN UNCHANGED <<payload, view, pubAt>>
        ELSE /\ cachedGen' = AnnouncedGen
             /\ counter' = (counter + 1) % FullEvery
             /\ IF full \/ changed # {} THEN Publish ELSE UNCHANGED <<prev, view, pubAt>>
             /\ UNCHANGED gen
  /\ UNCHANGED <<market, seen, stream, invAt>>

(***************************************************************************)
(* The initial snapshot of api_stocks_stream.                              *)
(***************************************************************************)
StreamGoto(r, from, to) == spc[r] = from /\ spc' = [spc EXCEPT ![r] = to]

\* The queue is registered; frames announced before are not in it.
StreamJoin(r) ==
  /\ StreamGoto(r, "off", "joined")
  /\ UNCHANGED <<market, payload, threads, snapshot, key, served, view, pubAt, invAt>>

\* The generation is read before the rows are; a cached snapshot of the same
\* generation is served as it is.
SnapshotLookup(r) ==
  /\ spc[r] = "joined"
  /\ key' = [key EXCEPT ![r] = gen]
  /\ IF snapshot.some /\ snapshot.gen = gen
     THEN /\ served' = [served EXCEPT ![r] = snapshot.at]
          /\ spc' = [spc EXCEPT ![r] = "served"]
     ELSE /\ spc' = [spc EXCEPT ![r] = "keyed"]
          /\ UNCHANGED served
  /\ UNCHANGED <<market, payload, threads, snapshot, view, pubAt, invAt>>

\* resolve_stocks_for_response copies the shown rows under sse_data_lock.
SnapshotBuild(r) ==
  /\ StreamGoto(r, "keyed", "resolved")
  /\ served' = [served EXCEPT ![r] = writes]
  /\ UNCHANGED <<market, payload, threads, snapshot, key, view, pubAt, invAt>>

SnapshotKeyMutant(r) == gen  \* filed under the generation at the time of storing

SnapshotKey(r) == key[r]

SnapshotStore(r) ==
  /\ StreamGoto(r, "resolved", "served")
  /\ snapshot' = [gen |-> SnapshotKey(r), at |-> served[r], some |-> TRUE]
  /\ UNCHANGED <<market, payload, threads, key, served, view, pubAt, invAt>>

StreamLeave(r) ==
  /\ StreamGoto(r, "served", "off")
  /\ key' = [key EXCEPT ![r] = 0]
  /\ served' = [served EXCEPT ![r] = 0]
  /\ UNCHANGED <<market, payload, threads, snapshot, view, pubAt, invAt>>

Next ==
  \/ \E p \in Syncs : SyncFetched(p) \/ SyncShow(p)
  \/ \E p \in Routes : RouteRemove(p) \/ RouteAdd(p)
  \/ \E p \in Interps : InterpRead(p) \/ InterpWrite(p)
  \/ \E p \in Procs : Invalidate(p) \/ CopyRows(p) \/ Announce(p)
  \/ \E r \in Streams : \/ StreamJoin(r) \/ SnapshotLookup(r) \/ SnapshotBuild(r)
                        \/ SnapshotStore(r) \/ StreamLeave(r)

Spec == Init /\ [][Next]_vars

(***************************************************************************)
(* Properties.                                                             *)
(***************************************************************************)
\* Diffs compose: whoever applied every frame shows exactly the rows the next
\* diff will be computed against, whatever threads published them, through
\* removals, empty diffs and full snapshots.
ListenerTracksBase == view = prev

\* A cached initial snapshot contains every write that was invalidated by the
\* time of the generation it is filed under: the generation is read first.
SnapshotCoversGeneration == snapshot.some => snapshot.at >= invAt[snapshot.gen]

\* bg/common.py:101-102: invalidating forces the next announce to serialize
\* again.  When every thread is done, what was announced is what is shown.
InvalidationIsPublished == (\A p \in Procs : pc[p] = "idle") => prev = current

\* bg/common.py:237-242: an older build is never published after a newer one.
BuildsPublishedInOrder == [][pubAt' >= pubAt]_vars
=============================================================================
