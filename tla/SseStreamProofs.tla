--------------------------- MODULE SseStreamProofs ---------------------------
(***************************************************************************)
(* Proofs about what is published to the pages, for any pages, symbols,    *)
(* threads and sizes: the rows behind the frames (Mp, MarketPublish), the  *)
(* realtime engine behind mode 2 (Re, RealtimeEngine) and the frames on    *)
(* their way through queues, log and replay (SseStream itself).            *)
(***************************************************************************)
EXTENDS MCSseStream, FiniteSetTheorems, SequenceTheorems, TLAPS

(***************************************************************************)
(* MarketPublish.  The diffs compose and a snapshot is filed under a       *)
(* generation it covers.                                                   *)
(***************************************************************************)
(* Who has written the caches and is yet to bump the generation.           *)
Written == {p \in Mp!Procs : marketPc[p] = "written"}

(* No more generations than writes: why they fit their bound.              *)
GenBehindWrites == IsFiniteSet(Written) /\ marketGen + Cardinality(Written) <= marketWrites

(* What was true when a generation began stays covered by what was read    *)
(* after it.                                                               *)
Filed ==
  /\ marketSnapshot.some => marketSnapshot.gen <= marketGen
  /\ \A g \in 0 .. MaxWrites : marketInvAt[g] <= marketWrites
  /\ \A r \in Streams :
       /\ marketKey[r] <= marketGen
       /\ marketSpc[r] = "resolved" => marketServed[r] >= marketInvAt[marketKey[r]]

MarketInv ==
  /\ Mp!TypeOK
  /\ GenBehindWrites
  /\ Mp!ListenerTracksBase
  /\ Filed
  /\ Mp!SnapshotCoversGeneration

\* The definitions the steps of the market are about.
LEMMA MarketInit == Mp!Init => MarketInv
<1> SUFFICES ASSUME Mp!Init  PROVE MarketInv
  OBVIOUS
<1> USE MarketAssumption DEF Mp!Init, Mp!Empty, Mp!NoBuild, Mp!NoSnapshot
<1>1. Mp!TypeOK
  BY DEF Mp!TypeOK, Mp!Rows
<1>2. GenBehindWrites
  <2>1. Written = {}
    BY DEF Written
  <2> QED  BY <2>1, FS_EmptySet DEF GenBehindWrites
<1>3. Mp!ListenerTracksBase /\ Filed /\ Mp!SnapshotCoversGeneration
  BY DEF Mp!ListenerTracksBase, Filed, Mp!SnapshotCoversGeneration
<1> QED  BY <1>1, <1>2, <1>3 DEF MarketInv

LEMMA ModInRange ==
  ASSUME NEW a \in Nat, NEW b \in Nat \ {0}
  PROVE  (a + 1) % b \in 0 .. b - 1
OBVIOUS

\* One element more is at most one more to count.
LEMMA AtMostOneMore ==
  ASSUME NEW S, NEW T, NEW x, IsFiniteSet(S), T \subseteq S \cup {x}
  PROVE  /\ IsFiniteSet(T) /\ Cardinality(T) \in Nat /\ Cardinality(S) \in Nat
         /\ Cardinality(T) <= Cardinality(S) + 1
<1>1. Cardinality(S) \in Nat
  BY FS_CardinalityType
<1>2. IsFiniteSet(S \cup {x})
  BY FS_AddElement
<1>3. Cardinality(S \cup {x}) = IF x \in S THEN Cardinality(S) ELSE Cardinality(S) + 1
  BY FS_AddElement
<1>4. IsFiniteSet(T) /\ Cardinality(T) <= Cardinality(S \cup {x})
  BY <1>2, FS_Subset
<1>5. Cardinality(T) \in Nat
  BY <1>4, FS_CardinalityType
<1> QED  BY <1>1, <1>3, <1>4, <1>5

\* One element less is one less to count.
LEMMA OneLess ==
  ASSUME NEW S, NEW T, NEW x \in S, IsFiniteSet(S), T \subseteq S \ {x}
  PROVE  /\ IsFiniteSet(T) /\ Cardinality(T) \in Nat /\ Cardinality(S) \in Nat
         /\ Cardinality(T) + 1 <= Cardinality(S)
<1>1. Cardinality(S) \in Nat
  BY FS_CardinalityType
<1>2. IsFiniteSet(S \ {x}) /\ Cardinality(S \ {x}) = Cardinality(S) - 1
  BY FS_RemoveElement
<1>3. IsFiniteSet(T) /\ Cardinality(T) <= Cardinality(S \ {x})
  BY <1>2, FS_Subset
<1>4. Cardinality(T) \in Nat
  BY <1>3, FS_CardinalityType
<1> QED  BY <1>1, <1>2, <1>3, <1>4

\* A write, by a thread that goes on to "written" or not.
LEMMA WriteCounts ==
  ASSUME Mp!TypeOK, GenBehindWrites, NEW p \in Mp!Procs, Mp!NewWrite, marketGen' = marketGen,
         NEW to, marketPc' = [marketPc EXCEPT ![p] = to]
  PROVE  GenBehindWrites'
<1>1. Written' \subseteq Written \cup {p}
  BY DEF Written, Mp!TypeOK
<1>2. /\ IsFiniteSet(Written') /\ Cardinality(Written') \in Nat /\ Cardinality(Written) \in Nat
      /\ Cardinality(Written') <= Cardinality(Written) + 1
  BY <1>1, AtMostOneMore DEF GenBehindWrites
<1>3. marketGen \in Nat /\ marketWrites \in Nat
  BY MarketAssumption DEF Mp!TypeOK
<1> QED  BY <1>2, <1>3 DEF GenBehindWrites, Mp!NewWrite

\* A step of one thread from or to elsewhere.
LEMMA ElsewhereCounts ==
  ASSUME Mp!TypeOK, GenBehindWrites, UNCHANGED <<marketGen, marketWrites>>,
         \/ UNCHANGED marketPc
         \/ \E p \in Mp!Procs : \E to \in {"idle", "read", "built"} :
               marketPc' = [marketPc EXCEPT ![p] = to]
  PROVE  GenBehindWrites'
<1>1. Written' \subseteq Written
  BY DEF Written, Mp!TypeOK
<1>2. IsFiniteSet(Written') /\ Cardinality(Written') <= Cardinality(Written)
  BY <1>1, FS_Subset DEF GenBehindWrites
<1>3. Cardinality(Written') \in Nat /\ Cardinality(Written) \in Nat
  BY <1>2, FS_CardinalityType DEF GenBehindWrites
<1>4. marketGen \in Nat /\ marketWrites \in Nat
  BY MarketAssumption DEF Mp!TypeOK
<1> QED  BY <1>2, <1>3, <1>4 DEF GenBehindWrites

\* What a write may put into the caches.
LEMMA WriteTypes ==
  ASSUME Mp!TypeOK, NEW p \in Mp!Procs, NEW to \in {"written", "fetched"}, Mp!NewWrite,
         marketTarget' \in Mp!Rows, marketCurrent' \in Mp!Rows,
         marketPc' = [marketPc EXCEPT ![p] = to],
         UNCHANGED <<Mp!payload, marketBuild, marketSeen, Mp!stream, marketView, marketPubAt,
                     marketInvAt>>
  PROVE  Mp!TypeOK'
<1>1. marketWrites' \in 0 .. MaxWrites
  BY MarketAssumption DEF Mp!TypeOK, Mp!NewWrite
<1>2. marketPc' \in [Mp!Procs -> {"idle", "read", "fetched", "written", "invalidated", "built"}]
  BY DEF Mp!TypeOK
<1> QED  BY <1>1, <1>2 DEF Mp!TypeOK, Mp!payload, Mp!stream

\* The threads that write, in what they leave alone and what they do.
Writes(p, to) ==
  /\ Mp!NewWrite
  /\ marketTarget' \in Mp!Rows /\ marketCurrent' \in Mp!Rows
  /\ marketPc' = [marketPc EXCEPT ![p] = to]
  /\ UNCHANGED <<Mp!payload, marketBuild, marketSeen, Mp!stream, marketView, marketPubAt,
                 marketInvAt>>

\* A row is replaced.
LEMMA RowsExcept ==
  ASSUME NEW rows \in Mp!Rows, NEW s \in Syms, NEW n \in 0 .. MaxWrites
  PROVE  [rows EXCEPT ![s] = n] \in Mp!Rows
BY DEF Mp!Rows

LEMMA WritersWrite ==
  ASSUME Mp!TypeOK,
         \/ \E p \in Syncs : Mp!SyncFetched(p) \/ Mp!SyncShow(p)
         \/ \E p \in Routes : Mp!RouteRemove(p) \/ Mp!RouteAdd(p)
         \/ \E p \in Interps : Mp!InterpWrite(p)
  PROVE  \E p \in Mp!Procs, to \in {"written", "fetched"} : Writes(p, to)
<1> USE MarketAssumption DEF Mp!Procs, Mp!Goto
<1>0. 0 \in 0 .. MaxWrites
  OBVIOUS
<1>1. ASSUME NEW p \in Syncs, Mp!SyncFetched(p)  PROVE Writes(p, "fetched")
  <2>1. marketTarget' \in Mp!Rows
    BY <1>1 DEF Mp!SyncFetched, Mp!TypeOK, Mp!Rows, Mp!NewWrite
  <2>2. marketCurrent' \in Mp!Rows
    BY <1>1, <2>1 DEF Mp!SyncFetched, Mp!TypeOK
  <2> QED  BY <1>1, <2>1, <2>2 DEF Mp!SyncFetched, Writes
<1>2. ASSUME NEW p \in Syncs, Mp!SyncShow(p)  PROVE Writes(p, "written")
  BY <1>2 DEF Mp!SyncShow, Writes, Mp!TypeOK
<1>3. ASSUME NEW p \in Routes, Mp!RouteRemove(p)  PROVE Writes(p, "written")
  <2>1. marketTarget' \in Mp!Rows /\ marketCurrent' \in Mp!Rows
    <3>1. PICK s \in Syms : /\ marketTarget' = [marketTarget EXCEPT ![s] = 0]
                            /\ marketCurrent' = [marketCurrent EXCEPT ![s] = 0]
      BY <1>3 DEF Mp!RouteRemove
    <3> QED  BY <1>0, <3>1, RowsExcept DEF Mp!TypeOK
  <2> QED  BY <1>3, <2>1 DEF Mp!RouteRemove, Writes
<1>4. ASSUME NEW p \in Routes, Mp!RouteAdd(p)  PROVE Writes(p, "written")
  <2> USE <1>4 DEF Mp!RouteAdd
  <2>1. marketWrites + 1 \in 0 .. MaxWrites
    BY DEF Mp!TypeOK, Mp!NewWrite
  <2>2. PICK s \in Syms :
          /\ marketTarget' = [marketTarget EXCEPT ![s] = IF @ = 0 THEN marketWrites + 1 ELSE @]
          /\ marketCurrent' = [marketCurrent EXCEPT ![s] = IF @ = 0 THEN marketWrites + 1 ELSE @]
    OBVIOUS
  <2>3. marketTarget[s] \in 0 .. MaxWrites /\ marketCurrent[s] \in 0 .. MaxWrites
    BY DEF Mp!TypeOK, Mp!Rows
  <2>4. marketTarget' \in Mp!Rows /\ marketCurrent' \in Mp!Rows
    BY <2>1, <2>2, <2>3, RowsExcept DEF Mp!TypeOK
  <2> QED  BY <2>4 DEF Writes
<1>5. ASSUME NEW p \in Interps, Mp!InterpWrite(p)  PROVE Writes(p, "written")
  <2>1. marketCurrent' \in Mp!Rows /\ marketTarget' \in Mp!Rows
    <3>1. marketSeen[p] \in Mp!Rows /\ marketBuild[p].rows \in Mp!Rows
      BY DEF Mp!TypeOK
    <3>2. \A s \in Syms : /\ marketSeen[p][s] \in 0 .. MaxWrites
                          /\ marketBuild[p].rows[s] \in 0 .. MaxWrites
      BY <3>1 DEF Mp!Rows
    <3>3. marketCurrent' \in [Syms -> 0 .. MaxWrites]
      BY <1>5, <1>0, <3>2 DEF Mp!InterpWrite
    <3> QED  BY <1>5, <3>3 DEF Mp!InterpWrite, Mp!TypeOK, Mp!Rows
  <2> QED  BY <1>5, <2>1 DEF Mp!InterpWrite, Writes
<1> QED  BY <1>1, <1>2, <1>3, <1>4, <1>5

LEMMA WriterKeeps ==
  ASSUME MarketInv, NEW p \in Mp!Procs, NEW to \in {"written", "fetched"}, Writes(p, to)
  PROVE  MarketInv'
<1> USE MarketAssumption DEF MarketInv, Writes, Mp!payload, Mp!stream
<1>1. Mp!TypeOK'
  BY WriteTypes
<1>2. GenBehindWrites'
  BY WriteCounts
<1>3. Mp!ListenerTracksBase'
  BY DEF Mp!ListenerTracksBase
<1>4. Filed'
  <2>1. \A g \in 0 .. MaxWrites : marketInvAt[g] <= marketWrites + 1
    BY DEF Filed, Mp!TypeOK
  <2> QED  BY <2>1 DEF Filed, Mp!NewWrite
<1>5. Mp!SnapshotCoversGeneration'
  BY DEF Mp!SnapshotCoversGeneration
<1> QED  BY <1>1, <1>2, <1>3, <1>4, <1>5

\* What the steps that do not write leave alone, but for the step's own.
LEMMA InterpReadKeeps ==
  ASSUME MarketInv, NEW p \in Interps, Mp!InterpRead(p)
  PROVE  MarketInv'
<1> USE DEF MarketInv, Mp!InterpRead, Mp!Goto, Mp!market, Mp!payload, Mp!stream
<1>0. p \in Mp!Procs
  BY DEF Mp!Procs
<1>1. Mp!TypeOK'
  <2>1. marketPc' \in [Mp!Procs -> {"idle", "read", "fetched", "written", "invalidated", "built"}]
    BY <1>0 DEF Mp!TypeOK
  <2>2. marketBuild' \in [Mp!Procs -> [rows : Mp!Rows, at : 0 .. MaxWrites]]
    BY <1>0 DEF Mp!TypeOK
  <2>3. marketSeen' \in [Interps -> Mp!Rows]
    BY DEF Mp!TypeOK
  <2> QED  BY <2>1, <2>2, <2>3 DEF Mp!TypeOK
<1>2. GenBehindWrites'
  BY <1>0, ElsewhereCounts
<1>3. Mp!ListenerTracksBase' /\ Filed' /\ Mp!SnapshotCoversGeneration'
  BY DEF Mp!ListenerTracksBase, Filed, Mp!SnapshotCoversGeneration
<1> QED  BY <1>1, <1>2, <1>3

\* The generation moves on: what is filed is filed under one of before.
LEMMA InvalidateKeeps ==
  ASSUME MarketInv, NEW p \in Mp!Procs, Mp!Invalidate(p)
  PROVE  MarketInv'
<1> USE MarketAssumption DEF MarketInv, Mp!Invalidate, Mp!Goto, Mp!market, Mp!stream
<1>1. GenBehindWrites' /\ marketGen + 1 <= marketWrites
  <2>1. p \in Written /\ Written' \subseteq Written \ {p}
    BY DEF Written, Mp!TypeOK
  <2>2. /\ IsFiniteSet(Written') /\ Cardinality(Written') \in Nat /\ Cardinality(Written) \in Nat
        /\ Cardinality(Written') + 1 <= Cardinality(Written)
    BY <2>1, OneLess DEF GenBehindWrites
  <2>3. marketGen \in Nat /\ marketWrites \in Nat
    BY DEF Mp!TypeOK
  <2> QED  BY <2>2, <2>3 DEF GenBehindWrites
<1>2. marketGen + 1 \in 0 .. MaxWrites
  BY <1>1 DEF Mp!TypeOK
<1>3. marketInvAt' \in [0 .. MaxWrites -> 0 .. MaxWrites]
  BY <1>2 DEF Mp!TypeOK
<1>4. Mp!TypeOK'
  <2>1. marketPc' \in [Mp!Procs -> {"idle", "read", "fetched", "written", "invalidated", "built"}]
    BY DEF Mp!TypeOK
  <2> QED  BY <1>2, <1>3, <2>1 DEF Mp!TypeOK
<1>5. \A g \in 0 .. marketGen : marketInvAt'[g] = marketInvAt[g]
  BY DEF Mp!TypeOK
<1>6. Filed'
  <2>1. \A g \in 0 .. MaxWrites : marketInvAt'[g] <= marketWrites
    BY DEF Filed, Mp!TypeOK
  <2>2. \A r \in Streams : marketKey[r] \in 0 .. marketGen
    BY DEF Filed, Mp!TypeOK
  <2>3. marketSnapshot.some => marketSnapshot.gen <= marketGen + 1
    BY DEF Filed, Mp!TypeOK
  <2>4. ASSUME NEW r \in Streams
        PROVE  /\ marketKey[r] <= marketGen + 1
               /\ marketSpc[r] = "resolved" => marketServed[r] >= marketInvAt'[marketKey[r]]
    <3>1. marketKey[r] \in 0 .. marketGen /\ marketInvAt'[marketKey[r]] = marketInvAt[marketKey[r]]
      BY <1>5, <2>2
    <3>2. marketGen \in Nat /\ marketKey[r] \in Nat /\ marketKey[r] <= marketGen
      BY <3>1 DEF Mp!TypeOK
    <3> QED  BY <3>1, <3>2 DEF Filed
  <2> QED  BY <2>1, <2>3, <2>4 DEF Filed
<1>7. Mp!SnapshotCoversGeneration'
  <2>1. marketSnapshot.some => marketSnapshot.gen \in 0 .. marketGen
    BY DEF Filed, Mp!TypeOK
  <2> QED  BY <1>5, <2>1 DEF Mp!SnapshotCoversGeneration
<1>8. Mp!ListenerTracksBase'
  BY DEF Mp!ListenerTracksBase
<1> QED  BY <1>1, <1>4, <1>6, <1>7, <1>8

LEMMA CopyRowsKeeps ==
  ASSUME MarketInv, NEW p \in Mp!Procs, Mp!CopyRows(p)
  PROVE  MarketInv'
<1> USE DEF MarketInv, Mp!CopyRows, Mp!Goto, Mp!market, Mp!payload, Mp!stream
<1>1. Mp!TypeOK'
  <2>1. marketPc' \in [Mp!Procs -> {"idle", "read", "fetched", "written", "invalidated", "built"}]
    BY DEF Mp!TypeOK
  <2>2. marketBuild' \in [Mp!Procs -> [rows : Mp!Rows, at : 0 .. MaxWrites]]
    BY DEF Mp!TypeOK
  <2> QED  BY <2>1, <2>2 DEF Mp!TypeOK
<1>2. GenBehindWrites'
  BY ElsewhereCounts
<1>3. Mp!ListenerTracksBase' /\ Filed' /\ Mp!SnapshotCoversGeneration'
  BY DEF Mp!ListenerTracksBase, Filed, Mp!SnapshotCoversGeneration
<1> QED  BY <1>1, <1>2, <1>3

\* The diffs compose: what is left as it was is as the base had it.
LEMMA AnnounceKeeps ==
  ASSUME MarketInv, NEW p \in Mp!Procs, Mp!Announce(p)
  PROVE  MarketInv'
<1> USE DEF MarketInv, Mp!Announce, Mp!Goto, Mp!market, Mp!payload, Mp!stream
<1>0. /\ marketBuild[p].rows \in Mp!Rows /\ marketBuild[p].at \in 0 .. MaxWrites
      /\ Mp!NoBuild \in [rows : Mp!Rows, at : 0 .. MaxWrites]
  <2>1. marketBuild[p] \in [rows : Mp!Rows, at : 0 .. MaxWrites]
    BY DEF Mp!TypeOK
  <2>2. Mp!Empty \in Mp!Rows
    BY MarketAssumption DEF Mp!Empty, Mp!Rows
  <2> QED  BY <2>1, <2>2, MarketAssumption DEF Mp!NoBuild
<1>1. Mp!ListenerTracksBase' /\ marketPrev' \in Mp!Rows
  <2> DEFINE rows == marketBuild[p].rows
  <2>1. Mp!ApplyDiff(marketPrev, rows, Mp!Changed(rows, marketPrev)) = rows
    BY <1>0 DEF Mp!ApplyDiff, Mp!Changed, Mp!Rows, Mp!TypeOK
  <2> QED  BY <1>0, <2>1 DEF Mp!ListenerTracksBase, Mp!NextBase, Mp!TypeOK
<1>2. Mp!TypeOK'
  <2>1. marketPc' \in [Mp!Procs -> {"idle", "read", "fetched", "written", "invalidated", "built"}]
    BY DEF Mp!TypeOK
  <2>2. marketBuild' \in [Mp!Procs -> [rows : Mp!Rows, at : 0 .. MaxWrites]]
    BY <1>0 DEF Mp!TypeOK
  <2>3. marketCounter' \in 0 .. FullEvery - 1
    <3>1. marketCounter \in Nat
      BY MarketAssumption DEF Mp!TypeOK
    <3>2. (marketCounter + 1) % FullEvery \in 0 .. FullEvery - 1
      BY <3>1, MarketAssumption, ModInRange
    <3> QED  BY <3>2 DEF Mp!TypeOK
  <2>4. marketView' \in Mp!Rows
    BY <1>1 DEF Mp!ListenerTracksBase
  <2>5. marketCachedGen' \in 0 .. MaxWrites /\ marketPubAt' \in 0 .. MaxWrites
    BY <1>0 DEF Mp!TypeOK, Mp!AnnouncedGen
  <2> QED  BY <1>1, <2>1, <2>2, <2>3, <2>4, <2>5 DEF Mp!TypeOK
<1>3. GenBehindWrites'
  BY ElsewhereCounts
<1>4. Filed' /\ Mp!SnapshotCoversGeneration'
  BY DEF Filed, Mp!SnapshotCoversGeneration
<1> QED  BY <1>1, <1>2, <1>3, <1>4

LEMMA StreamKeeps ==
  ASSUME MarketInv, NEW r \in Streams,
         \/ Mp!StreamJoin(r) \/ Mp!SnapshotLookup(r) \/ Mp!SnapshotBuild(r)
         \/ Mp!SnapshotStore(r) \/ Mp!StreamLeave(r)
  PROVE  MarketInv'
<1> DEFINE Snapshots == [gen : 0 .. MaxWrites, at : 0 .. MaxWrites, some : BOOLEAN]
           Stages == {"off", "joined", "keyed", "resolved", "served"}
<1> USE DEF Mp!StreamGoto
<1>0. /\ 0 \in 0 .. MaxWrites /\ marketGen \in 0 .. MaxWrites /\ marketWrites \in 0 .. MaxWrites
      /\ marketInvAt \in [0 .. MaxWrites -> 0 .. MaxWrites] /\ marketSnapshot \in Snapshots
      /\ marketSpc \in [Streams -> Stages]
      /\ marketKey \in [Streams -> 0 .. MaxWrites] /\ marketServed \in [Streams -> 0 .. MaxWrites]
  <2>1. 0 \in 0 .. MaxWrites
    BY MarketAssumption
  <2> QED  BY <2>1 DEF MarketInv, Mp!TypeOK
<1>1. UNCHANGED <<Mp!market, Mp!payload, Mp!threads, marketView, marketPubAt, marketInvAt>>
  BY DEF Mp!StreamJoin, Mp!SnapshotLookup, Mp!SnapshotBuild, Mp!SnapshotStore, Mp!StreamLeave
<1>2. UNCHANGED <<marketGen, marketWrites, marketPc, marketPrev, marketView, marketInvAt>>
  BY <1>1 DEF Mp!market, Mp!payload, Mp!threads
<1>3. /\ marketSnapshot' \in Snapshots /\ marketSpc' \in [Streams -> Stages]
      /\ marketKey' \in [Streams -> 0 .. MaxWrites]
      /\ marketServed' \in [Streams -> 0 .. MaxWrites]
      /\ Filed' /\ Mp!SnapshotCoversGeneration'
  <2> USE <1>0, <1>2 DEF MarketInv, Filed, Mp!SnapshotCoversGeneration
  <2>1. CASE Mp!StreamJoin(r)
    BY <2>1 DEF Mp!StreamJoin
  <2>2. CASE Mp!SnapshotLookup(r)
    <3> USE <2>2 DEF Mp!SnapshotLookup
    <3>1. /\ marketSnapshot' = marketSnapshot /\ marketSpc' \in [Streams -> Stages]
          /\ marketKey' \in [Streams -> 0 .. MaxWrites]
          /\ marketServed' \in [Streams -> 0 .. MaxWrites]
      BY ZenonT(40)
    <3>2. Mp!SnapshotCoversGeneration'
      BY <3>1
    <3>3. \A x \in Streams : marketKey'[x] <= marketGen
      BY MarketAssumption
    <3>4. \A x \in Streams : marketSpc'[x] = "resolved" =>
            x # r /\ marketServed'[x] = marketServed[x] /\ marketKey'[x] = marketKey[x]
                 /\ marketSpc[x] = "resolved"
      OBVIOUS
    <3>5. Filed'
      BY <3>1, <3>3, <3>4
    <3> QED  BY <3>1, <3>2, <3>5
  <2>3. CASE Mp!SnapshotBuild(r)
    BY <2>3 DEF Mp!SnapshotBuild
  <2>4. CASE Mp!SnapshotStore(r)
    <3> USE <2>4 DEF Mp!SnapshotStore, Mp!SnapshotKey
    <3>1. /\ marketKey[r] \in 0 .. MaxWrites /\ marketServed[r] \in 0 .. MaxWrites
          /\ marketSpc[r] = "resolved"
      OBVIOUS
    <3>2. /\ marketSnapshot' \in Snapshots /\ marketSpc' \in [Streams -> Stages]
          /\ marketKey' = marketKey /\ marketServed' = marketServed
      BY <3>1
    <3>3. Filed'
      BY <3>2
    <3>4. Mp!SnapshotCoversGeneration'
      BY <3>1
    <3> QED  BY <3>2, <3>3, <3>4
  <2>5. CASE Mp!StreamLeave(r)
    BY <2>5 DEF Mp!StreamLeave
  <2> QED  BY <2>1, <2>2, <2>3, <2>4, <2>5
<1>4. Mp!TypeOK'
  <2> HIDE DEF Snapshots, Stages
  <2>1. /\ marketTarget' = marketTarget /\ marketCurrent' = marketCurrent
        /\ marketWrites' = marketWrites /\ marketGen' = marketGen
        /\ marketCachedGen' = marketCachedGen /\ marketPrev' = marketPrev
        /\ marketCounter' = marketCounter /\ marketPc' = marketPc /\ marketBuild' = marketBuild
        /\ marketSeen' = marketSeen /\ marketView' = marketView /\ marketPubAt' = marketPubAt
        /\ marketInvAt' = marketInvAt
    BY <1>1 DEF Mp!market, Mp!payload, Mp!threads
  <2> QED  BY <1>3, <2>1 DEF MarketInv, Mp!TypeOK, Snapshots, Stages
<1>5. GenBehindWrites'
  BY <1>2, ElsewhereCounts DEF MarketInv
<1>6. Mp!ListenerTracksBase'
  BY <1>2 DEF MarketInv, Mp!ListenerTracksBase
<1> QED  BY <1>3, <1>4, <1>5, <1>6 DEF MarketInv

LEMMA MarketStep == MarketInv /\ [Mp!Next]_(Mp!vars) => MarketInv'
<1> SUFFICES ASSUME MarketInv, [Mp!Next]_(Mp!vars)  PROVE MarketInv'
  OBVIOUS
<1>1. ASSUME NEW p \in Syncs, Mp!SyncFetched(p) \/ Mp!SyncShow(p)  PROVE MarketInv'
  BY <1>1, WritersWrite, WriterKeeps DEF MarketInv
<1>2. ASSUME NEW p \in Routes, Mp!RouteRemove(p) \/ Mp!RouteAdd(p)  PROVE MarketInv'
  BY <1>2, WritersWrite, WriterKeeps DEF MarketInv
<1>3. ASSUME NEW p \in Interps, Mp!InterpRead(p)  PROVE MarketInv'
  BY <1>3, InterpReadKeeps
<1>4. ASSUME NEW p \in Interps, Mp!InterpWrite(p)  PROVE MarketInv'
  BY <1>4, WritersWrite, WriterKeeps DEF MarketInv
<1>5. ASSUME NEW p \in Mp!Procs, Mp!Invalidate(p) \/ Mp!CopyRows(p) \/ Mp!Announce(p)
      PROVE  MarketInv'
  BY <1>5, InvalidateKeeps, CopyRowsKeeps, AnnounceKeeps
<1>6. ASSUME NEW r \in Streams,
             \/ Mp!StreamJoin(r) \/ Mp!SnapshotLookup(r) \/ Mp!SnapshotBuild(r)
             \/ Mp!SnapshotStore(r) \/ Mp!StreamLeave(r)
      PROVE  MarketInv'
  BY <1>6, StreamKeeps
<1>7. CASE UNCHANGED Mp!vars
  BY <1>7 DEF Mp!vars, Mp!market, Mp!payload, Mp!threads, Mp!stream, MarketInv, Mp!TypeOK,
       GenBehindWrites, Written, Mp!ListenerTracksBase, Filed, Mp!SnapshotCoversGeneration
<1> QED  BY <1>1, <1>2, <1>3, <1>4, <1>5, <1>6, <1>7 DEF Mp!Next

LEMMA MarketInvariant == Mp!Spec => []MarketInv
<1>1. Mp!Init => MarketInv
  BY MarketInit
<1>2. MarketInv /\ [Mp!Next]_(Mp!vars) => MarketInv'
  BY MarketStep
<1> QED  BY <1>1, <1>2, PTL DEF Mp!Spec

\* bg/common.py: whoever applied every frame shows the rows the next diff is
\* computed against, for any symbols, threads and interval of full snapshots.
THEOREM ListenerTracksBaseHolds == Mp!Spec => []ListenerTracksBase
<1>1. MarketInv => ListenerTracksBase
  BY DEF MarketInv, ListenerTracksBase
<1> QED  BY <1>1, MarketInvariant, PTL

\* stream.py: a cached snapshot contains every write that was invalidated by
\* the generation it is filed under, however many streams build one at a time.
THEOREM SnapshotCoversGenerationHolds == Mp!Spec => []SnapshotCoversGeneration
<1>1. MarketInv => SnapshotCoversGeneration
  BY DEF MarketInv, SnapshotCoversGeneration
<1> QED  BY <1>1, MarketInvariant, PTL

(***************************************************************************)
(* RealtimeEngine.  A fetch that may deliver belongs to a registration     *)
(* that stands, and what a stream was not told of is pending.              *)
(***************************************************************************)
CurrentIsRegistered == \A c \in Clients : engineJob[c].current => engineToken

(* The regular row: rows are numbered by quotes, what is pending was not   *)
(* told, and what is not pending was.                                      *)
Told ==
  /\ \A f \in Re!Feeds : engineRow[f] <= engineQuotes /\ engineSeen[f] <= engineQuotes
  /\ engineRow["regular"] = 0 => engineSeen["regular"] = 0
  /\ "regular" \in enginePending =>
       engineRow["regular"] # 0 /\ engineSeen["regular"] # engineRow["regular"]
  /\ engineCursor /\ "regular" \notin enginePending =>
       engineSeen["regular"] = engineRow["regular"]

(* The page: nothing before the first frame, then what it was told.        *)
Shown ==
  /\ engineStream \in {"new", "snapshot"} => engineView = 0
  /\ /\ engineStream \in {"wait", "deltas", "stalled"} /\ engineCursor
     /\ "regular" \notin enginePending /\ engineRow["regular"] # 0
     => \/ engineView = engineRow["regular"]
        \/ engineStream = "deltas" /\ engineView = 0

EngineInv ==
  /\ Re!TypeOK
  /\ CurrentIsRegistered
  /\ Re!BoundRowHasOwner
  /\ Told
  /\ Shown

LEMMA EngineInit == Re!Init => EngineInv
<1> SUFFICES ASSUME Re!Init  PROVE EngineInv
  OBVIOUS
<1> USE DEF Re!Init, Re!None, Re!Feeds
<1>1. Re!TypeOK
  <2>1. Re!NoJob \in Re!Job
    BY DEF Re!NoJob, Re!Job
  <2>2. 0 \in 0 .. MaxQuotes
    BY EngineAssumption
  <2>3. engineJob \in [Clients -> Re!Job] /\ engineCaller \in [Clients -> Re!CallerSteps]
    BY <2>1 DEF Re!CallerSteps
  <2> QED  BY <2>2, <2>3 DEF Re!TypeOK
<1>2. CurrentIsRegistered /\ Re!BoundRowHasOwner
  BY DEF CurrentIsRegistered, Re!BoundRowHasOwner, Re!NoJob
<1>3. Told /\ Shown
  BY DEF Told, Shown
<1> QED  BY <1>1, <1>2, <1>3 DEF EngineInv

(* What the registrations, the stop and the producers do to the engine.    *)
EngineTypes ==
  /\ engineToken \in BOOLEAN /\ enginePolled \in BOOLEAN /\ engineStopped \in BOOLEAN
  /\ engineCaller \in [Clients -> Re!CallerSteps] /\ engineJob \in [Clients -> Re!Job]
  /\ engineLoop \in [Re!Feeds -> [pc : {"idle", "fetch", "checked"}, current : BOOLEAN]]

(* ... and to the rows and the client.                                     *)
RowTypes ==
  /\ engineRow \in [Re!Feeds -> 0 .. MaxQuotes] /\ engineQuotes \in 0 .. MaxQuotes
  /\ engineBound \subseteq Re!Feeds
  /\ engineCursor \in BOOLEAN /\ enginePending \subseteq Re!Feeds
  /\ engineSeen \in [Re!Feeds -> 0 .. MaxQuotes] /\ engineView \in 0 .. MaxQuotes
  /\ engineStream \in {"new", "snapshot", "deltas", "full", "wait", "stalled"}

LEMMA TypesSplit == (Re!TypeOK <=> EngineTypes /\ RowTypes) /\ (Re!TypeOK' <=> EngineTypes' /\ RowTypes')
BY DEF Re!TypeOK, EngineTypes, RowTypes

\* _activate_registration: no fetch of before is current any more ...
LEMMA OutdatedJobs ==
  ASSUME EngineTypes
  PROVE  Re!Outdated \in [Clients -> Re!Job] /\ \A c \in Clients : ~Re!Outdated[c].current
BY DEF EngineTypes, Re!Outdated, Re!Job

\* ... and the new one is well formed.
LEMMA NewJob ==
  ASSUME EngineTypes, NEW c \in Clients, NEW kind \in {"priority", "background"},
         NEW f \in Re!Feeds, NEW at \in {"held", "fetch"}
  PROVE  Re!WithJob(c, kind, f, at) \in [Clients -> Re!Job]
<1>1. [kind |-> kind, current |-> TRUE, feed |-> f, pc |-> at] \in Re!Job
  BY DEF Re!Job
<1> QED  BY <1>1, OutdatedJobs DEF Re!WithJob

\* The registrations, but for the purge, leave rows and client alone.
LEMMA RegistrationKeeps ==
  ASSUME EngineInv, NEW c \in Clients,
         \/ Re!Register(c) \/ Re!RegisterPolls(c) \/ Re!Bulk(c) \/ Re!BulkActivate(c)
         \/ Re!Unregister(c) \/ Re!StopPolling(c)
  PROVE  EngineInv'
<1>0. /\ engineRow' = engineRow /\ engineBound' = engineBound /\ engineQuotes' = engineQuotes
      /\ engineCursor' = engineCursor /\ enginePending' = enginePending
      /\ engineSeen' = engineSeen /\ engineStream' = engineStream /\ engineView' = engineView
  BY DEF Re!Register, Re!RegisterPolls, Re!Bulk, Re!BulkActivate, Re!Unregister, Re!StopPolling,
         Re!rowVars, Re!clientVars
<1>1. Told' /\ Shown' /\ RowTypes'
  BY <1>0, TypesSplit DEF EngineInv, Told, Shown, RowTypes
<1>2. EngineTypes' /\ CurrentIsRegistered' /\ Re!BoundRowHasOwner'
  <2>0. EngineTypes /\ CurrentIsRegistered /\ Re!BoundRowHasOwner
    BY TypesSplit DEF EngineInv
  <2> USE <1>0, <2>0 DEF CurrentIsRegistered, Re!BoundRowHasOwner, Re!To, EngineTypes, Re!CallerSteps
  <2>1. CASE Re!Register(c)
    <3>1. Re!WithJob(c, "priority", "regular", "held") \in [Clients -> Re!Job]
      BY NewJob DEF Re!Feeds
    <3> QED  BY <2>1, <3>1 DEF Re!Register
  <2>2. CASE Re!RegisterPolls(c)
    <3>1. /\ engineJob' \in [Clients -> Re!Job]
          /\ \A d \in Clients : engineJob'[d].current = engineJob[d].current
      BY <2>2 DEF Re!RegisterPolls, Re!Job
    <3> QED  BY <2>2, <3>1 DEF Re!RegisterPolls, Re!Poll
  <2>3. CASE Re!Bulk(c)
    BY <2>3 DEF Re!Bulk, Re!Poll
  <2>4. CASE Re!BulkActivate(c)
    <3>1. Re!WithJob(c, "background", "pts", "fetch") \in [Clients -> Re!Job]
      BY NewJob DEF Re!Feeds
    <3> QED  BY <2>4, <3>1, OutdatedJobs DEF Re!BulkActivate
  <2>5. CASE Re!Unregister(c)
    BY <2>5, OutdatedJobs DEF Re!Unregister
  <2>6. CASE Re!StopPolling(c)
    BY <2>6 DEF Re!StopPolling, Re!Poll
  <2> QED  BY <2>1, <2>2, <2>3, <2>4, <2>5, <2>6
<1> QED  BY <1>1, <1>2, TypesSplit DEF EngineInv

\* unregister_symbol's last step takes the rows, what was told and what is
\* pending at once.
LEMMA PurgeKeeps ==
  ASSUME EngineInv, NEW c \in Clients, Re!Purge(c)
  PROVE  EngineInv'
<1> USE DEF Re!Purge
<1>1. EngineTypes' /\ CurrentIsRegistered' /\ Re!BoundRowHasOwner'
  BY TypesSplit DEF EngineInv, EngineTypes, CurrentIsRegistered, Re!BoundRowHasOwner, Re!To,
     Re!CallerSteps
<1>2. RowTypes'
  <2>1. 0 \in 0 .. MaxQuotes
    BY EngineAssumption
  <2> QED  BY <2>1, TypesSplit DEF EngineInv, RowTypes, Re!None
<1>3. Told' /\ Shown'
  BY TypesSplit, EngineAssumption DEF EngineInv, RowTypes, Told, Shown, Re!None, Re!Feeds
<1> QED  BY <1>1, <1>2, <1>3, TypesSplit DEF EngineInv

\* stop(): every fetch that goes on is of an older epoch.
LEMMA StopKeeps ==
  ASSUME EngineInv, Re!Stop
  PROVE  EngineInv'
<1> USE DEF Re!Stop
<1>0. /\ engineRow' = engineRow /\ engineBound' = engineBound /\ engineQuotes' = engineQuotes
      /\ engineCursor' = engineCursor /\ enginePending' = enginePending
      /\ engineSeen' = engineSeen /\ engineStream' = engineStream /\ engineView' = engineView
  BY DEF Re!rowVars, Re!clientVars
<1>1. Told' /\ Shown' /\ RowTypes'
  BY <1>0, TypesSplit DEF EngineInv, Told, Shown, RowTypes
<1>2. EngineTypes /\ CurrentIsRegistered /\ Re!BoundRowHasOwner
  BY TypesSplit DEF EngineInv
<1>3. engineJob' \in [Clients -> Re!Job] /\ \A c \in Clients : ~engineJob'[c].current
  <2>1. Re!NoJob \in Re!Job /\ ~Re!NoJob.current
    BY DEF Re!NoJob, Re!Job, Re!Feeds
  <2> QED  BY <1>2, <2>1, OutdatedJobs
<1>4. EngineTypes' /\ CurrentIsRegistered' /\ Re!BoundRowHasOwner'
  BY <1>0, <1>2, <1>3 DEF EngineTypes, CurrentIsRegistered, Re!BoundRowHasOwner
<1> QED  BY <1>1, <1>4, TypesSplit DEF EngineInv

\* A quote is written: its row is new, so a client that follows has it pending.
LEMMA StoreKeeps ==
  ASSUME EngineInv, NEW f \in Re!Feeds, NEW owned \in BOOLEAN, Re!Store(f, owned)
  PROVE  RowTypes' /\ Told' /\ Shown' /\ engineBound' \subseteq engineBound \cup (IF owned THEN {f} ELSE {})
<1> USE DEF Re!Store
<1>0. RowTypes /\ Told /\ Shown /\ MaxQuotes \in Nat
  BY TypesSplit, EngineAssumption DEF EngineInv
<1>1. engineQuotes + 1 \in 0 .. MaxQuotes
  BY <1>0 DEF RowTypes
<1>2. engineRow' \in [Re!Feeds -> 0 .. MaxQuotes]
  BY <1>0, <1>1 DEF RowTypes
<1>3. RowTypes'
  BY <1>0, <1>1, <1>2 DEF RowTypes
<1>4. "regular" \in Re!Feeds /\ "pts" \in Re!Feeds
  BY DEF Re!Feeds
<1>5. \A g \in Re!Feeds : engineRow'[g] = IF g = f THEN engineQuotes + 1 ELSE engineRow[g]
  BY <1>0 DEF RowTypes
<1>6. \A g \in Re!Feeds : /\ engineRow[g] \in Nat /\ engineSeen[g] \in Nat /\ engineQuotes \in Nat
                         /\ engineRow[g] <= engineQuotes /\ engineSeen[g] <= engineQuotes
  BY <1>0 DEF RowTypes, Told
<1>7. Told'
  <2>1. \A g \in Re!Feeds : engineRow'[g] <= engineQuotes' /\ engineSeen'[g] <= engineQuotes'
    BY <1>5, <1>6
  <2>2. engineRow'["regular"] = 0 => engineSeen'["regular"] = 0
    BY <1>0, <1>4, <1>5, <1>6 DEF Told
  <2>3. "regular" \in enginePending' =>
           engineRow'["regular"] # 0 /\ engineSeen'["regular"] # engineRow'["regular"]
    <3>1. CASE f = "regular"
      BY <3>1, <1>4, <1>5, <1>6
    <3>2. CASE f # "regular"
      BY <3>2, <1>0, <1>4, <1>5, <1>6 DEF Told
    <3> QED  BY <3>1, <3>2
  <2>4. engineCursor' /\ "regular" \notin enginePending' =>
          engineSeen'["regular"] = engineRow'["regular"]
    BY <1>0, <1>4, <1>5 DEF Told
  <2> QED  BY <2>1, <2>2, <2>3, <2>4 DEF Told
<1>8. Shown'
  BY <1>0, <1>4, <1>5 DEF Shown
<1> QED  BY <1>3, <1>7, <1>8

\* A fetch goes on to the other feed, or ends.
LEMMA AfterFetchKeeps ==
  ASSUME EngineTypes, CurrentIsRegistered, NEW c \in Clients, Re!AfterFetch(c), engineToken' = engineToken
  PROVE  engineJob' \in [Clients -> Re!Job] /\ CurrentIsRegistered'
<1>1. Re!NoJob \in Re!Job /\ ~Re!NoJob.current
  BY DEF Re!NoJob, Re!Job, Re!Feeds
<1>2. [[engineJob[c] EXCEPT !.feed = "pts"] EXCEPT !.pc = "fetch"] \in Re!Job
  BY ZenonT(40) DEF EngineTypes, Re!Job, Re!Feeds
<1> QED  BY <1>1, <1>2 DEF Re!AfterFetch, EngineTypes, CurrentIsRegistered

LEMMA ProductionKeeps ==
  ASSUME EngineInv, Re!Production
  PROVE  EngineInv'
<1> USE DEF Re!engineVars
<1>0. EngineTypes /\ RowTypes /\ CurrentIsRegistered /\ Re!BoundRowHasOwner /\ Told /\ Shown
  BY TypesSplit DEF EngineInv
<1>a. UNCHANGED <<engineToken, enginePolled, engineStopped, engineCaller>>
  BY DEF Re!Production, Re!FetchEmpty, Re!FetchChecked, Re!Deliver, Re!LoopFetch, Re!LoopCheck,
         Re!LoopDispatch, Re!TvMessage
<1>b. ASSUME UNCHANGED <<Re!rowVars, Re!clientVars>>
      PROVE  RowTypes' /\ Told' /\ Shown' /\ engineBound' = engineBound
  BY <1>0, <1>b DEF RowTypes, Told, Shown, Re!rowVars, Re!clientVars
<1>c. ASSUME engineLoop' \in [Re!Feeds -> [pc : {"idle", "fetch", "checked"}, current : BOOLEAN]],
             engineJob' = engineJob
      PROVE  EngineTypes' /\ CurrentIsRegistered'
  BY <1>0, <1>a, <1>c DEF EngineTypes, CurrentIsRegistered
<1>d. ASSUME engineBound' \subseteq engineBound  PROVE Re!BoundRowHasOwner'
  BY <1>0, <1>a, <1>d DEF Re!BoundRowHasOwner
<1>1. ASSUME NEW c \in Clients, Re!FetchEmpty(c)  PROVE EngineInv'
  <2>1. engineJob' \in [Clients -> Re!Job] /\ CurrentIsRegistered'
    BY <1>0, <1>a, <1>1, AfterFetchKeeps DEF Re!FetchEmpty
  <2>2. EngineTypes'
    BY <1>0, <1>a, <1>1, <2>1 DEF EngineTypes, Re!FetchEmpty
  <2> QED  BY <1>1, <1>b, <1>d, <2>1, <2>2, TypesSplit DEF Re!FetchEmpty, EngineInv
<1>2. ASSUME NEW c \in Clients, Re!FetchChecked(c)  PROVE EngineInv'
  <2>1. /\ engineJob' \in [Clients -> Re!Job]
        /\ \A d \in Clients : engineJob'[d].current = engineJob[d].current
    BY <1>0, <1>2 DEF EngineTypes, Re!Job, Re!FetchChecked
  <2>2. EngineTypes' /\ CurrentIsRegistered'
    BY <1>0, <1>a, <1>2, <2>1 DEF EngineTypes, CurrentIsRegistered, Re!FetchChecked
  <2> QED  BY <1>2, <1>b, <1>d, <2>2, TypesSplit DEF Re!FetchChecked, EngineInv
<1>3. ASSUME NEW c \in Clients, Re!Deliver(c)  PROVE EngineInv'
  <2>1. engineJob' \in [Clients -> Re!Job] /\ CurrentIsRegistered'
    BY <1>0, <1>a, <1>3, AfterFetchKeeps DEF Re!Deliver
  <2>2. EngineTypes'
    BY <1>0, <1>a, <1>3, <2>1 DEF EngineTypes, Re!Deliver
  <2>3. CASE engineJob[c].current
    <3>1. engineJob[c].feed \in Re!Feeds
      BY <1>0 DEF EngineTypes, Re!Job
    <3>2. RowTypes' /\ Told' /\ Shown'
      BY <1>3, <2>3, <3>1, StoreKeeps DEF Re!Deliver
    <3>3. Re!BoundRowHasOwner'
      BY <1>0, <1>a, <2>3 DEF CurrentIsRegistered, Re!BoundRowHasOwner
    <3> QED  BY <2>1, <2>2, <3>2, <3>3, TypesSplit DEF EngineInv
  <2>4. CASE ~engineJob[c].current
    BY <1>3, <1>b, <1>d, <2>1, <2>2, <2>4, TypesSplit DEF Re!Deliver, EngineInv
  <2> QED  BY <2>3, <2>4
<1>4. ASSUME NEW f \in Re!Feeds, Re!LoopFetch(f) \/ Re!LoopCheck(f)  PROVE EngineInv'
  <2>1. engineLoop' \in [Re!Feeds -> [pc : {"idle", "fetch", "checked"}, current : BOOLEAN]]
    <3>1. CASE Re!LoopFetch(f)
      BY <1>0, <3>1 DEF EngineTypes, Re!LoopFetch
    <3>2. CASE Re!LoopCheck(f)
      BY <1>0, <3>2 DEF EngineTypes, Re!LoopCheck
    <3> QED  BY <1>4, <3>1, <3>2
  <2>2. EngineTypes' /\ CurrentIsRegistered'
    BY <1>4, <1>c, <2>1 DEF Re!LoopFetch, Re!LoopCheck
  <2> QED  BY <1>4, <1>b, <1>d, <2>2, TypesSplit DEF Re!LoopFetch, Re!LoopCheck, EngineInv
<1>5. ASSUME Re!TvMessage  PROVE EngineInv'
  <2>1. engineLoop' \in [Re!Feeds -> [pc : {"idle", "fetch", "checked"}, current : BOOLEAN]]
    <3>1. "regular" \in Re!Feeds
      BY DEF Re!Feeds
    <3> QED  BY <1>0, <1>5, <3>1 DEF EngineTypes, Re!TvMessage
  <2>2. EngineTypes' /\ CurrentIsRegistered'
    BY <1>5, <1>c, <2>1 DEF Re!TvMessage
  <2> QED  BY <1>5, <1>b, <1>d, <2>2, TypesSplit DEF Re!TvMessage, EngineInv
<1>6. ASSUME NEW f \in Re!Feeds, Re!LoopDispatch(f)  PROVE EngineInv'
  <2>1. engineLoop' \in [Re!Feeds -> [pc : {"idle", "fetch", "checked"}, current : BOOLEAN]]
    BY <1>0, <1>6 DEF EngineTypes, Re!LoopDispatch
  <2>2. EngineTypes' /\ CurrentIsRegistered'
    BY <1>6, <1>c, <2>1 DEF Re!LoopDispatch
  <2>3. RowTypes' /\ Told' /\ Shown' /\ engineBound' \subseteq engineBound
    BY <1>6, StoreKeeps DEF Re!LoopDispatch
  <2> QED  BY <1>d, <2>2, <2>3, TypesSplit DEF EngineInv
<1> QED  BY <1>1, <1>2, <1>3, <1>4, <1>5, <1>6 DEF Re!Production

\* The stream: a drain tells the client every row it was not told.
LEMMA DrainKeeps ==
  ASSUME RowTypes, Told, NEW next, NEW shown \in BOOLEAN, Re!Drain(next, shown),
         next \in {"deltas", "full", "wait"}
  PROVE  /\ RowTypes' /\ Told'
         /\ engineCursor => engineSeen'["regular"] = engineRow["regular"]
         /\ engineView' = IF shown /\ engineSeen'["regular"] # engineSeen["regular"]
                          THEN engineSeen'["regular"] ELSE engineView
<1> USE DEF Re!Drain, Re!rowVars, Re!engineVars
<1>0. /\ "regular" \in Re!Feeds /\ engineRow' = engineRow /\ engineQuotes' = engineQuotes
      /\ engineBound' = engineBound /\ engineCursor' = engineCursor
  BY DEF Re!Feeds
<1>1. \A f \in Re!Feeds : /\ Re!Told(f) \in {engineRow[f], engineSeen[f]}
                         /\ engineSeen'[f] = Re!Told(f)
  BY DEF Re!Told
<1>2. engineSeen' \in [Re!Feeds -> 0 .. MaxQuotes]
  BY <1>1 DEF RowTypes
<1>3. engineView' = IF shown /\ engineSeen'["regular"] # engineSeen["regular"]
                   THEN engineSeen'["regular"] ELSE engineView
  BY <1>0, <1>1
<1>4. engineView' \in 0 .. MaxQuotes
  BY <1>0, <1>2, <1>3 DEF RowTypes
<1>5. RowTypes'
  BY <1>0, <1>2, <1>4 DEF RowTypes
<1>6. engineCursor => engineSeen'["regular"] = engineRow["regular"]
  BY <1>0, <1>1 DEF Told, Re!Told, Re!None
<1>7. ~engineCursor => engineSeen'["regular"] = engineSeen["regular"]
  BY <1>0, <1>1 DEF Re!Told
<1>8. Told'
  <2>1. \A f \in Re!Feeds : engineRow'[f] <= engineQuotes' /\ engineSeen'[f] <= engineQuotes'
    BY <1>0, <1>1 DEF Told
  <2>2. engineRow'["regular"] = 0 => engineSeen'["regular"] = 0
    BY <1>0, <1>6, <1>7 DEF Told
  <2>3. "regular" \in enginePending' =>
           engineRow'["regular"] # 0 /\ engineSeen'["regular"] # engineRow'["regular"]
    BY <1>0, <1>7 DEF Told
  <2> QED  BY <1>0, <1>6, <2>1, <2>2, <2>3 DEF Told
<1> QED  BY <1>3, <1>5, <1>6, <1>8

LEMMA StreamStepKeeps ==
  ASSUME EngineInv, Re!Stream
  PROVE  EngineInv'
<1> USE DEF Re!engineVars, Re!rowVars
<1>0. EngineTypes /\ RowTypes /\ CurrentIsRegistered /\ Re!BoundRowHasOwner /\ Told /\ Shown
  BY TypesSplit DEF EngineInv
<1>1. UNCHANGED <<Re!engineVars, engineLoop, Re!rowVars>>
  BY DEF Re!Stream, Re!Connect, Re!Initial, Re!Deltas, Re!Drain, Re!Full, Re!Wake, Re!Stalled,
         Re!Disconnect
<1>2. EngineTypes' /\ CurrentIsRegistered' /\ Re!BoundRowHasOwner'
  BY <1>0, <1>1 DEF EngineTypes, CurrentIsRegistered, Re!BoundRowHasOwner
<1>3. "regular" \in Re!Feeds /\ MaxQuotes \in Nat
  BY EngineAssumption DEF Re!Feeds
<1>4. \A f \in Re!Feeds : engineRow[f] \in Nat /\ engineRow[f] <= engineQuotes /\ engineQuotes \in Nat
  BY <1>0, <1>3 DEF RowTypes, Told
<1>5. RowTypes' /\ Told' /\ Shown'
  <2>1. CASE Re!Connect
    BY <1>0, <1>4, <2>1 DEF Re!Connect, RowTypes, Told, Shown
  <2>2. CASE Re!Initial
    <3>1. RowTypes' /\ Told' /\ engineView' = engineView /\ engineStream' = "deltas"
      BY <1>0, <2>2, DrainKeeps DEF Re!Initial, Re!Drain
    <3> QED  BY <1>0, <2>2, <3>1 DEF Re!Initial, Shown
  <2>3. CASE Re!Deltas
    <3>1. PICK full \in BOOLEAN :
            /\ engineStream = "deltas" /\ (engineView = 0 => full)
            /\ Re!Drain(IF full THEN "full" ELSE "wait", TRUE)
      BY <2>3 DEF Re!Deltas, Re!None
    <3>2. /\ RowTypes' /\ Told'
          /\ engineCursor => engineSeen'["regular"] = engineRow["regular"]
          /\ engineView' = IF engineSeen'["regular"] # engineSeen["regular"]
                           THEN engineSeen'["regular"] ELSE engineView
      BY <1>0, <3>1, DrainKeeps
    <3>3. /\ engineStream' = IF full THEN "full" ELSE "wait"
          /\ engineRow' = engineRow /\ engineCursor' = engineCursor
      BY <3>1 DEF Re!Drain
    <3>4. ~full /\ engineCursor /\ engineRow["regular"] # 0 => engineView' = engineRow["regular"]
      BY <1>0, <3>1, <3>2 DEF Told, Shown
    <3> QED  BY <3>2, <3>3, <3>4 DEF Shown
  <2>4. CASE Re!Full
    BY <1>0, <1>1, <1>3, <2>4 DEF Re!Full, Re!None, RowTypes, Told, Shown
  <2>5. CASE Re!Wake
    BY <1>0, <2>5 DEF Re!Wake, RowTypes, Told, Shown
  <2>6. CASE Re!Stalled \/ Re!Disconnect
    <3>1. engineSeen' = [f \in Re!Feeds |-> 0] /\ 0 \in 0 .. MaxQuotes
      BY <1>3, <2>6 DEF Re!Stalled, Re!Disconnect, Re!None
    <3>2. /\ engineRow' = engineRow /\ engineQuotes' = engineQuotes /\ engineBound' = engineBound
          /\ ~engineCursor' /\ engineCursor' \in BOOLEAN /\ enginePending' = {}
          /\ engineStream' \in {"new", "deltas"} /\ engineView' \in {0, engineView}
          /\ engineStream' = "new" => engineView' = 0
      BY <2>6 DEF Re!Stalled, Re!Disconnect, Re!None
    <3>3. RowTypes'
      BY <1>0, <3>1, <3>2 DEF RowTypes
    <3>4. Told'
      <4>1. \A f \in Re!Feeds : engineSeen'[f] = 0 /\ engineQuotes \in Nat /\ 0 <= engineQuotes
        BY <1>4, <3>1
      <4>2. \A f \in Re!Feeds : engineRow'[f] <= engineQuotes' /\ engineSeen'[f] <= engineQuotes'
        BY <1>4, <3>2, <4>1
      <4> QED  BY <1>3, <3>2, <4>1, <4>2 DEF Told
    <3>5. Shown'
      BY <3>2 DEF Shown
    <3> QED  BY <3>3, <3>4, <3>5
  <2> QED  BY <2>1, <2>2, <2>3, <2>4, <2>5, <2>6 DEF Re!Stream
<1> QED  BY <1>2, <1>5, TypesSplit DEF EngineInv

LEMMA EngineStep == EngineInv /\ [Re!Next]_(Re!vars) => EngineInv'
<1> SUFFICES ASSUME EngineInv, [Re!Next]_(Re!vars)  PROVE EngineInv'
  OBVIOUS
<1>1. CASE Re!Registration
  BY <1>1, RegistrationKeeps, PurgeKeeps DEF Re!Registration
<1>2. CASE Re!Stop
  BY <1>2, StopKeeps
<1>3. CASE Re!Production
  BY <1>3, ProductionKeeps
<1>4. CASE Re!Stream
  BY <1>4, StreamStepKeeps
<1>5. CASE UNCHANGED Re!vars
  BY <1>5 DEF Re!vars, EngineInv, Re!TypeOK, CurrentIsRegistered, Re!BoundRowHasOwner, Told, Shown
<1> QED  BY <1>1, <1>2, <1>3, <1>4, <1>5 DEF Re!Next

LEMMA EngineInvariant == Re!Spec => []EngineInv
<1> QED  BY EngineInit, EngineStep, PTL DEF Re!Spec

\* services/realtime/engine.py: whatever late fetches of a registration
\* deliver, no row of theirs outlives the registration and its purge.
THEOREM BoundRowHasOwnerHolds == Re!Spec => []BoundRowHasOwner
<1>1. EngineInv => BoundRowHasOwner
  BY DEF EngineInv, BoundRowHasOwner
<1> QED  BY <1>1, EngineInvariant, PTL

\* engine.py and stream.py, mode 2: no quote falls between the drain of a
\* client's pending set and a producer's write.
THEOREM ClientCatchesUpHolds == Re!Spec => []ClientCatchesUp
<1>1. EngineInv => ClientCatchesUp
  BY DEF EngineInv, Shown, ClientCatchesUp, Re!ClientCatchesUp, Re!None
<1> QED  BY <1>1, EngineInvariant, PTL

-----------------------------------------------------------------------------
(***************************************************************************)
(* SseStream.  Queues first: what types they have, who is attached, and    *)
(* where the None stands.                                                  *)
(***************************************************************************)
LastOnly(s) == \A i \in DOMAIN s : s[i] = Sentinel => i = Len(s)

QueueTypes ==
  /\ listeners \subseteq Clients
  /\ q \in [Clients -> Seq(Items)] /\ \A c \in Clients : Len(q[c]) <= Cap
  /\ pub \in [item : Items, to : SUBSET Clients]
  /\ closed \in BOOLEAN

StreamTypes ==
  /\ seq \in Nat /\ restarts \in Nat
  /\ log \in Seq(Nat) /\ Len(log) <= LogMax
  /\ pc \in [Clients -> {"off", "check", "fetch", "yield", "initial", "loop"}]
  /\ out \in [Clients -> Seq(Nat)]
  /\ need \in [Clients -> BOOLEAN]
  /\ last \in [Clients -> Nat]

HistoryTypes ==
  /\ sent \subseteq Nat /\ got \in [Clients -> SUBSET Nat]
  /\ joined \in [Clients -> Nat] /\ resume \in [Clients -> Nat]
  /\ floor \in [Clients -> Nat]

(* An attached listener is served; a broadcast in progress has an item; a  *)
(* dropped one has its None, and until the server closes nobody who is     *)
(* attached or will be put to has one.                                     *)
Attached ==
  /\ \A c \in listeners : Live(c)
  /\ closed => listeners = {}
  /\ pub.to # {} => pub.item # Sentinel
  /\ \A c \in pub.to : Live(c)
  /\ \A c \in Clients : Live(c) /\ c \notin listeners => Sentinel \in ToSet(q[c])
  /\ ~closed => \A c \in Clients :
       /\ LastOnly(q[c])
       /\ Sentinel \in ToSet(q[c]) => c \notin listeners /\ c \notin pub.to

QueueInv == QueueTypes /\ StreamTypes /\ HistoryTypes /\ Attached

LEMMA StreamTypesSplit == TypeOK <=> QueueTypes /\ StreamTypes /\ HistoryTypes
BY DEF TypeOK, QueueTypes, StreamTypes, HistoryTypes

-----------------------------------------------------------------------------
(* Sequences and what is in them.                                          *)
LEMMA NothingIn == ToSet(<<>>) = {}
BY DEF ToSet

LEMMA AppendIn ==
  ASSUME NEW S, NEW s \in Seq(S), NEW e \in S
  PROVE  /\ Append(s, e) \in Seq(S) /\ Len(Append(s, e)) = Len(s) + 1
         /\ ToSet(Append(s, e)) = ToSet(s) \cup {e}
<1>1. /\ Append(s, e) \in Seq(S) /\ Len(Append(s, e)) = Len(s) + 1 /\ Len(s) \in Nat
      /\ \A i \in 1 .. Len(s) : Append(s, e)[i] = s[i]
      /\ Append(s, e)[Len(s) + 1] = e
  BY AppendProperties
<1>2. /\ ToSet(Append(s, e)) = {Append(s, e)[i] : i \in 1 .. Len(s) + 1}
      /\ ToSet(s) = {s[i] : i \in 1 .. Len(s)}
  BY <1>1 DEF ToSet
<1>3. 1 .. Len(s) + 1 = (1 .. Len(s)) \cup {Len(s) + 1}
  BY <1>1
<1> QED  BY <1>1, <1>2, <1>3

LEMMA TailIn ==
  ASSUME NEW S, NEW s \in Seq(S), s # <<>>
  PROVE  /\ Tail(s) \in Seq(S) /\ Len(Tail(s)) = Len(s) - 1 /\ Head(s) \in S /\ Len(s) \in Nat
         /\ ToSet(s) = {Head(s)} \cup ToSet(Tail(s))
<1>1. /\ Tail(s) \in Seq(S) /\ Len(Tail(s)) = Len(s) - 1 /\ Head(s) \in S /\ Len(s) \in Nat
      /\ Head(s) = s[1] /\ Len(s) >= 1 /\ \A i \in 1 .. Len(s) - 1 : Tail(s)[i] = s[i + 1]
  BY HeadTailProperties
<1>2. ToSet(Tail(s)) = {s[i] : i \in 2 .. Len(s)}
  <2>1. DOMAIN Tail(s) = 1 .. Len(s) - 1
    BY <1>1
  <2>2. ASSUME NEW x \in ToSet(Tail(s))  PROVE x \in {s[i] : i \in 2 .. Len(s)}
    <3>1. PICK i \in 1 .. Len(s) - 1 : x = Tail(s)[i]
      BY <2>1, <2>2 DEF ToSet
    <3> QED  BY <1>1, <3>1
  <2>3. ASSUME NEW i \in 2 .. Len(s)  PROVE s[i] \in ToSet(Tail(s))
    <3>1. i - 1 \in 1 .. Len(s) - 1 /\ Tail(s)[i - 1] = s[i]
      BY <1>1
    <3> QED  BY <2>1, <3>1 DEF ToSet
  <2> QED  BY <2>2, <2>3
<1>3. ToSet(s) = {s[i] : i \in 1 .. Len(s)}
  BY DEF ToSet
<1>4. 1 .. Len(s) = {1} \cup (2 .. Len(s))
  BY <1>1
<1> QED  BY <1>1, <1>2, <1>3, <1>4

\* The None comes last into a queue that had none.
LEMMA SentinelIn ==
  ASSUME NEW s \in Seq(Items), Len(s) <= Cap
  PROVE  /\ WithSentinel(s) \in Seq(Items) /\ Len(WithSentinel(s)) <= Cap
         /\ Sentinel \in ToSet(WithSentinel(s))
         /\ ToSet(WithSentinel(s)) \subseteq ToSet(s) \cup {Sentinel}
         /\ Sentinel \notin ToSet(s) => LastOnly(WithSentinel(s))
<1>1. Sentinel \in Items /\ Cap \in Nat \ {0} /\ Len(s) \in Nat
  BY QueueAssumption DEF Items
<1>2. CASE Len(s) < Cap
  <2>1. Append(s, Sentinel) \in Seq(Items) /\ Len(Append(s, Sentinel)) = Len(s) + 1
        /\ ToSet(Append(s, Sentinel)) = ToSet(s) \cup {Sentinel}
    BY <1>1, AppendIn
  <2>2. Sentinel \notin ToSet(s) => LastOnly(Append(s, Sentinel))
    BY <1>1 DEF LastOnly, ToSet
  <2> QED  BY <1>1, <1>2, <2>1, <2>2 DEF WithSentinel
<1>3. CASE ~(Len(s) < Cap)
  <2>1. s # <<>>
    BY <1>1, <1>3
  <2>2. Tail(s) \in Seq(Items) /\ Len(Tail(s)) = Len(s) - 1 /\ ToSet(Tail(s)) \subseteq ToSet(s)
    BY <2>1, TailIn
  <2>3. PICK t \in Seq(Items) : t = Tail(s)
    BY <2>2
  <2>4. /\ Append(t, Sentinel) \in Seq(Items) /\ Len(Append(t, Sentinel)) = Len(t) + 1
        /\ ToSet(Append(t, Sentinel)) = ToSet(t) \cup {Sentinel}
    BY <1>1, AppendIn
  <2>5. Sentinel \notin ToSet(t) => LastOnly(Append(t, Sentinel))
    BY <1>1 DEF LastOnly, ToSet
  <2>6. WithSentinel(s) = Append(t, Sentinel)
    BY <1>3, <2>3 DEF WithSentinel
  <2> QED  BY <1>1, <2>2, <2>3, <2>4, <2>5, <2>6
<1> QED  BY <1>2, <1>3

-----------------------------------------------------------------------------
(* The queues, step by step.  A step that touches none of them ...         *)
LEMMA QueuesAlone ==
  ASSUME QueueTypes, Attached, UNCHANGED <<listeners, q, pub, closed>>,
         \A c \in Clients : Live(c)' <=> Live(c)
  PROVE  QueueTypes' /\ Attached'
BY DEF QueueTypes, Attached

\* Some queues get the None, the others stay.
LEMMA Terminated ==
  ASSUME q \in [Clients -> Seq(Items)], \A c \in Clients : Len(q[c]) <= Cap, NEW O,
         q' = [c \in Clients |-> IF c \in O THEN WithSentinel(q[c]) ELSE q[c]]
  PROVE  /\ q' \in [Clients -> Seq(Items)]
         /\ \A c \in Clients : Len(q'[c]) <= Cap
         /\ \A c \in Clients : c \in O => Sentinel \in ToSet(q'[c])
         /\ \A c \in Clients : c \in O /\ Sentinel \notin ToSet(q[c]) => LastOnly(q'[c])
         /\ \A c \in Clients : c \notin O => q'[c] = q[c]
         /\ \A c \in Clients : ToSet(q'[c]) \subseteq ToSet(q[c]) \cup {Sentinel}
<1>1. \A c \in Clients : q'[c] = IF c \in O THEN WithSentinel(q[c]) ELSE q[c]
  OBVIOUS
<1>2. ASSUME NEW c \in Clients
      PROVE  /\ q'[c] \in Seq(Items) /\ Len(q'[c]) <= Cap
             /\ c \in O => Sentinel \in ToSet(q'[c])
             /\ c \in O /\ Sentinel \notin ToSet(q[c]) => LastOnly(q'[c])
             /\ c \notin O => q'[c] = q[c]
             /\ ToSet(q'[c]) \subseteq ToSet(q[c]) \cup {Sentinel}
  <2>1. q[c] \in Seq(Items) /\ Len(q[c]) <= Cap
    OBVIOUS
  <2>2. CASE c \in O
    <3>1. q'[c] = WithSentinel(q[c])
      BY <1>1, <2>2
    <3> QED  BY <2>1, <2>2, <3>1, SentinelIn
  <2>3. CASE c \notin O
    BY <1>1, <2>1, <2>3
  <2> QED  BY <2>2, <2>3
<1>3. q' = [c \in Clients |-> q'[c]]
  OBVIOUS
<1>4. q' \in [Clients -> Seq(Items)]
  <2>1. \A c \in Clients : q'[c] \in Seq(Items)
    BY <1>2
  <2> QED  BY <1>3, <2>1
<1> QED  BY <1>2, <1>4

\* announce(): an overloaded listener gets its None, the others are put to.
LEMMA AnnounceQueues ==
  ASSUME QueueTypes, Attached, NEW item \in Items \ {Sentinel}, StartAnnounce(item),
         UNCHANGED <<pc, closed>>
  PROVE  QueueTypes' /\ Attached'
<1>0. /\ Overloaded \subseteq listeners /\ listeners \subseteq Clients
      /\ q \in [Clients -> Seq(Items)] /\ \A c \in Clients : Len(q[c]) <= Cap
      /\ pub.to = {}
  BY DEF QueueTypes, Overloaded, Idle, StartAnnounce
<1>1. /\ q' = [c \in Clients |-> IF c \in Overloaded THEN WithSentinel(q[c]) ELSE q[c]]
      /\ listeners' = listeners \ Overloaded
      /\ pub' = IF listeners = Overloaded THEN Idle
                ELSE [item |-> item, to |-> listeners \ Overloaded]
  BY DEF StartAnnounce
<1>2. /\ q' \in [Clients -> Seq(Items)]
      /\ \A c \in Clients : Len(q'[c]) <= Cap
      /\ \A c \in Clients : c \in Overloaded => Sentinel \in ToSet(q'[c])
      /\ \A c \in Clients : c \in Overloaded /\ Sentinel \notin ToSet(q[c]) => LastOnly(q'[c])
      /\ \A c \in Clients : c \notin Overloaded => q'[c] = q[c]
  BY <1>0, <1>1, Terminated
<1>3. pub' \in [item : Items, to : SUBSET Clients]
  BY <1>0, <1>1 DEF Idle, Items
<1>4. QueueTypes'
  BY <1>0, <1>1, <1>2, <1>3 DEF QueueTypes
<1>5. (pub'.to # {} => pub'.item # Sentinel) /\ pub'.to \subseteq listeners \ Overloaded
  BY <1>1 DEF Idle
<1>6. \A c \in Clients : Live(c)' <=> Live(c)
  BY DEF Live
<1>8. \A c \in Clients : Live(c) /\ c \notin listeners' => Sentinel \in ToSet(q'[c])
  BY <1>1, <1>2 DEF Attached
<1>9. ~closed => \A c \in Clients :
        /\ LastOnly(q'[c])
        /\ Sentinel \in ToSet(q'[c]) => c \notin listeners' /\ c \notin pub'.to
  BY <1>0, <1>1, <1>2, <1>5 DEF Attached
<1>10. Attached'
  <2>1. (\A c \in listeners' : Live(c)') /\ (\A c \in pub'.to : Live(c)') /\ (closed' => listeners' = {})
    BY <1>0, <1>1, <1>5, <1>6 DEF Attached
  <2> QED  BY <1>5, <1>6, <1>8, <1>9, <2>1 DEF Attached
<1> QED  BY <1>4, <1>10

\* put_nowait: an item behind the others, or the None of a full queue.
LEMMA PutQueues ==
  ASSUME QueueTypes, Attached, NEW d \in Clients, Put(d)
  PROVE  QueueTypes' /\ Attached'
<1> USE DEF Put
<1>0. /\ listeners \subseteq Clients /\ pub.item \in Items /\ pub.item # Sentinel
      /\ q \in [Clients -> Seq(Items)] /\ \A c \in Clients : Len(q[c]) <= Cap
      /\ pub \in [item : Items, to : SUBSET Clients] /\ Cap \in Nat /\ Len(q[d]) \in Nat
      /\ UNCHANGED <<pc, closed>>
  BY QueueAssumption DEF QueueTypes, Attached, streams
<1>1. /\ pub' \in [item : Items, to : SUBSET Clients] /\ pub'.to = pub.to \ {d}
      /\ pub'.to # {} => pub'.item # Sentinel
  BY <1>0 DEF Idle, Items
<1>2. CASE Len(q[d]) < Cap
  <2>1. /\ Append(q[d], pub.item) \in Seq(Items) /\ Len(Append(q[d], pub.item)) <= Cap
        /\ ToSet(Append(q[d], pub.item)) = ToSet(q[d]) \cup {pub.item}
    BY <1>0, <1>2, AppendIn
  <2>2. Sentinel \notin ToSet(q[d]) => LastOnly(Append(q[d], pub.item))
    BY <1>0, <2>1 DEF LastOnly, ToSet
  <2>3. listeners' = listeners /\ q' = [q EXCEPT ![d] = Append(q[d], pub.item)]
    BY <1>2
  <2>4. QueueTypes'
    BY <1>0, <1>1, <2>1, <2>3 DEF QueueTypes
  <2> QED  BY <1>0, <1>1, <2>1, <2>2, <2>3, <2>4 DEF Attached, Live
<1>3. CASE ~(Len(q[d]) < Cap)
  <2>1. /\ WithSentinel(q[d]) \in Seq(Items) /\ Len(WithSentinel(q[d])) <= Cap
        /\ Sentinel \in ToSet(WithSentinel(q[d]))
        /\ Sentinel \notin ToSet(q[d]) => LastOnly(WithSentinel(q[d]))
    BY <1>0, SentinelIn
  <2>2. listeners' = listeners \ {d} /\ q' = [q EXCEPT ![d] = WithSentinel(q[d])]
    BY <1>3
  <2>3. QueueTypes'
    BY <1>0, <1>1, <2>1, <2>2 DEF QueueTypes
  <2> QED  BY <1>0, <1>1, <2>1, <2>2, <2>3 DEF Attached, Live
<1> QED  BY <1>2, <1>3

LEMMA CloseQueues ==
  ASSUME QueueTypes, Attached, Close
  PROVE  QueueTypes' /\ Attached'
<1>0. /\ q \in [Clients -> Seq(Items)] /\ \A c \in Clients : Len(q[c]) <= Cap
      /\ UNCHANGED <<pc, pub>>
  BY DEF QueueTypes, streams, Close
<1>1. /\ q' = [c \in Clients |-> IF c \in listeners THEN WithSentinel(q[c]) ELSE q[c]]
      /\ listeners' = {} /\ closed' = TRUE
  BY DEF Close
<1>2. /\ q' \in [Clients -> Seq(Items)]
      /\ \A c \in Clients : Len(q'[c]) <= Cap
      /\ \A c \in Clients : c \in listeners => Sentinel \in ToSet(q'[c])
      /\ \A c \in Clients : c \notin listeners => q'[c] = q[c]
  BY <1>0, <1>1, Terminated
<1>3. QueueTypes'
  BY <1>0, <1>1, <1>2 DEF QueueTypes
<1>4. \A c \in Clients : Live(c)' => Sentinel \in ToSet(q'[c])
  BY <1>0, <1>2 DEF Attached, Live
<1>5. \A c \in pub'.to : Live(c)'
  BY <1>0 DEF Attached, Live
<1> QED  BY <1>0, <1>1, <1>3, <1>4, <1>5 DEF Attached

\* A connection starts with an empty queue.
LEMMA ConnectQueues ==
  ASSUME QueueTypes, Attached, StreamTypes, NEW d \in Clients, Connect(d)
  PROVE  QueueTypes' /\ Attached'
<1>1. <<>> \in Seq(Items) /\ Len(<<>>) = 0 /\ 0 <= Cap /\ LastOnly(<<>>) /\ ToSet(<<>>) = {}
  BY QueueAssumption, NothingIn DEF LastOnly
<1>2. /\ listeners' = listeners \cup {d} /\ q' = [q EXCEPT ![d] = <<>>]
      /\ pc' = [pc EXCEPT ![d] = "check"] /\ ~closed /\ UNCHANGED <<pub, closed>>
      /\ d \notin pub.to
  BY DEF Connect, Attached, Live
<1>3. QueueTypes'
  BY <1>1, <1>2 DEF QueueTypes
<1>4. \A c \in Clients : /\ Live(c)' <=> c = d \/ Live(c)
                        /\ q'[c] = IF c = d THEN <<>> ELSE q[c]
  BY <1>2 DEF Live, QueueTypes, StreamTypes
<1>5. listeners \subseteq Clients /\ pub.to \subseteq Clients
  BY DEF QueueTypes
<1>6. (\A c \in listeners' : Live(c)') /\ (\A c \in pub'.to : Live(c)')
  BY <1>2, <1>4, <1>5 DEF Attached
<1>7. \A c \in Clients : Live(c)' /\ c \notin listeners' => Sentinel \in ToSet(q'[c])
  BY <1>2, <1>4 DEF Attached
<1>8. ~closed' => \A c \in Clients :
        /\ LastOnly(q'[c])
        /\ Sentinel \in ToSet(q'[c]) => c \notin listeners' /\ c \notin pub'.to
  BY <1>1, <1>2, <1>4 DEF Attached
<1>9. (closed' => listeners' = {}) /\ (pub'.to # {} => pub'.item # Sentinel)
  BY <1>2 DEF Attached
<1> QED  BY <1>3, <1>6, <1>7, <1>8, <1>9 DEF Attached

\* The end of a connection takes its queue and its part of a broadcast.
LEMMA HangupQueues ==
  ASSUME QueueTypes, Attached, StreamTypes, NEW d \in Clients, Hangup(d), UNCHANGED closed
  PROVE  QueueTypes' /\ Attached' /\ pub'.to = pub.to \ {d}
<1>1. <<>> \in Seq(Items) /\ Len(<<>>) = 0 /\ 0 <= Cap /\ LastOnly(<<>>) /\ ToSet(<<>>) = {}
  BY QueueAssumption, NothingIn DEF LastOnly
<1>2. /\ pub' \in [item : Items, to : SUBSET Clients] /\ pub'.to = pub.to \ {d}
      /\ pub'.to # {} => pub'.item # Sentinel
  BY DEF QueueTypes, Attached, Idle, Items, Hangup
<1>3. /\ listeners' = listeners \ {d} /\ q' = [q EXCEPT ![d] = <<>>]
      /\ pc' = [pc EXCEPT ![d] = "off"] /\ closed' = closed
  BY DEF Hangup
<1>4. QueueTypes'
  BY <1>1, <1>2, <1>3 DEF QueueTypes
<1>5. \A c \in Clients : /\ Live(c)' <=> c # d /\ Live(c)
                        /\ q'[c] = IF c = d THEN <<>> ELSE q[c]
  BY <1>3 DEF Live, QueueTypes, StreamTypes
<1>6. listeners \subseteq Clients /\ pub.to \subseteq Clients
  BY DEF QueueTypes
<1>7. (\A c \in listeners' : Live(c)') /\ (\A c \in pub'.to : Live(c)')
  BY <1>2, <1>3, <1>5, <1>6 DEF Attached
<1>8. \A c \in Clients : Live(c)' /\ c \notin listeners' => Sentinel \in ToSet(q'[c])
  BY <1>3, <1>5 DEF Attached
<1>9. ~closed => \A c \in Clients :
        /\ LastOnly(q'[c])
        /\ Sentinel \in ToSet(q'[c]) => c \notin listeners' /\ c \notin pub'.to
  BY <1>1, <1>2, <1>3, <1>5 DEF Attached
<1>10. Attached'
  <2>1. closed' => listeners' = {}
    BY <1>3 DEF Attached
  <2> QED  BY <1>2, <1>3, <1>7, <1>8, <1>9, <2>1 DEF Attached
<1> QED  BY <1>2, <1>4, <1>10

\* An item is taken: the None is not, and stays last.
LEMMA TakeQueues ==
  ASSUME QueueTypes, Attached, StreamTypes, NEW d \in Clients, Take(d)
  PROVE  QueueTypes' /\ Attached'
<1> USE DEF Take
<1>1. CASE Head(q[d]) = Sentinel
  BY <1>1, HangupQueues
<1>2. CASE Head(q[d]) # Sentinel
  <2>0. q[d] \in Seq(Items) /\ q[d] # <<>> /\ Len(q[d]) <= Cap /\ Cap \in Nat
    BY QueueAssumption DEF QueueTypes
  <2>1. /\ Tail(q[d]) \in Seq(Items) /\ Len(Tail(q[d])) <= Cap
        /\ Sentinel \in ToSet(Tail(q[d])) <=> Sentinel \in ToSet(q[d])
    BY <1>2, <2>0, TailIn
  <2>2. LastOnly(q[d]) => LastOnly(Tail(q[d]))
    <3>1. /\ Len(Tail(q[d])) = Len(q[d]) - 1 /\ Len(q[d]) \in Nat
          /\ \A i \in 1 .. Len(q[d]) - 1 : Tail(q[d])[i] = q[d][i + 1]
      BY <2>0, HeadTailProperties
    <3> QED  BY <2>0, <2>1, <3>1 DEF LastOnly
  <2>3. q' = [q EXCEPT ![d] = Tail(q[d])] /\ UNCHANGED <<listeners, pub, pc, closed>>
    BY <1>2
  <2>4. QueueTypes'
    BY <2>1, <2>3 DEF QueueTypes
  <2> QED  BY <2>1, <2>2, <2>3, <2>4 DEF Attached, Live, QueueTypes
<1> QED  BY <1>1, <1>2

-----------------------------------------------------------------------------
(* The window and the replay.                                              *)
LEMMA ConstantTypes == /\ Cap \in Nat \ {0} /\ LogMax \in Nat \ {0} /\ IdMod \in Nat \ {0, 1}
                       /\ Sentinel \notin Nat /\ KeepAlive \notin Nat /\ Sentinel # KeepAlive
BY QueueAssumption, SeqAssumption, MarksAssumption

\* deque(maxlen): the new entry is last, what goes is the oldest.
LEMMA RecordedIn ==
  ASSUME NEW lg \in Seq(Nat), Len(lg) <= LogMax, NEW n \in Nat
  PROVE  /\ Recorded(lg, n) \in Seq(Nat) /\ Len(Recorded(lg, n)) <= LogMax
         /\ ToSet(Recorded(lg, n)) \subseteq ToSet(lg) \cup {n}
<1>1. Len(lg) \in Nat
  OBVIOUS
<1>2. CASE Len(lg) < LogMax
  BY <1>1, <1>2, ConstantTypes, AppendIn DEF Recorded
<1>3. CASE ~(Len(lg) < LogMax)
  <2>1. lg # <<>>
    BY <1>1, <1>3, ConstantTypes
  <2>2. PICK t \in Seq(Nat) : t = Tail(lg) /\ Len(t) = Len(lg) - 1 /\ ToSet(t) \subseteq ToSet(lg)
    BY <2>1, TailIn
  <2>3. /\ Append(t, n) \in Seq(Nat) /\ Len(Append(t, n)) = Len(t) + 1
        /\ ToSet(Append(t, n)) = ToSet(t) \cup {n}
    BY AppendIn
  <2>4. Recorded(lg, n) = Append(t, n)
    BY <1>3, <2>2 DEF Recorded
  <2> QED  BY <1>1, <2>2, <2>3, <2>4
<1> QED  BY <1>2, <1>3

\* Counting up through a finite set of numbers meets each of them once.
LEMMA RankIsOneToOne ==
  ASSUME NEW K, IsFiniteSet(K), K \subseteq Nat,
         NEW i \in K, NEW j \in K, i < j
  PROVE  /\ Cardinality({k \in K : k <= i}) \in 1 .. Cardinality(K)
         /\ Cardinality({k \in K : k <= i}) < Cardinality({k \in K : k <= j})
<1> DEFINE A == {k \in K : k <= i}
           B == {k \in K : k <= j}
<1>0. i \in Nat /\ j \in Nat /\ i <= i /\ j <= j /\ ~(j <= i) /\ \A k \in K : k <= i => k <= j
  OBVIOUS
<1>1. A \subseteq B /\ B \subseteq K /\ i \in A /\ j \in B /\ j \notin A
  BY <1>0
<1>2. IsFiniteSet(A) /\ IsFiniteSet(B) /\ Cardinality(A) \in Nat /\ Cardinality(B) \in Nat
      /\ Cardinality(K) \in Nat
  BY <1>1, FS_Subset, FS_CardinalityType
<1>3. Cardinality(A) <= Cardinality(K)
  BY <1>1, FS_Subset
<1>4. Cardinality(A) # 0
  BY <1>1, <1>2, FS_EmptySet
<1>5. Cardinality(A) < Cardinality(B)
  BY <1>1, <1>2, FS_Subset
<1> HIDE DEF A, B
<1>6. Cardinality(A) \in 1 .. Cardinality(K) /\ Cardinality(A) < Cardinality(B)
  BY <1>2, <1>3, <1>4, <1>5
<1> QED  BY <1>6 DEF A, B

LEMMA RankInRange ==
  ASSUME NEW K, IsFiniteSet(K), K \subseteq Nat, NEW i \in K
  PROVE  Cardinality({k \in K : k <= i}) \in 1 .. Cardinality(K)
<1> DEFINE A == {k \in K : k <= i}
<1>1. A \subseteq K /\ i \in A
  OBVIOUS
<1>2. IsFiniteSet(A) /\ Cardinality(A) \in Nat /\ Cardinality(K) \in Nat
      /\ Cardinality(A) <= Cardinality(K)
  BY <1>1, FS_Subset, FS_CardinalityType
<1>3. Cardinality(A) # 0
  BY <1>1, <1>2, FS_EmptySet
<1> HIDE DEF A
<1>4. Cardinality(A) \in 1 .. Cardinality(K)
  BY <1>2, <1>3
<1> QED  BY <1>4 DEF A

LEMMA RankTells ==
  ASSUME NEW K, IsFiniteSet(K), K \subseteq Nat, NEW i \in K, NEW j \in K,
         Cardinality({k \in K : k <= i}) = Cardinality({k \in K : k <= j})
  PROVE  i = j
<1>1. /\ Cardinality({k \in K : k <= i}) \in 1 .. Cardinality(K)
      /\ Cardinality({k \in K : k <= j}) \in 1 .. Cardinality(K)
      /\ Cardinality(K) \in Nat
  BY RankInRange, FS_CardinalityType
<1>2. ~(Cardinality({k \in K : k <= i}) < Cardinality({k \in K : k <= j}))
  BY <1>1
<1>3. ~(Cardinality({k \in K : k <= j}) < Cardinality({k \in K : k <= i}))
  BY <1>1
<1>4. ~(i < j)
  BY <1>2, RankIsOneToOne
<1>5. ~(j < i)
  BY <1>3, RankIsOneToOne
<1>6. i \in Nat /\ j \in Nat
  OBVIOUS
<1> QED  BY <1>4, <1>5, <1>6

LEMMA RankOnto ==
  ASSUME NEW K, IsFiniteSet(K), K \subseteq Nat, NEW n \in 1 .. Cardinality(K)
  PROVE  \E i \in K : Cardinality({k \in K : k <= i}) = n
<1> DEFINE f == [i \in K |-> Cardinality({k \in K : k <= i})]
<1>1. Cardinality(K) \in Nat
  BY FS_CardinalityType
<1>2. IsFiniteSet(1 .. Cardinality(K)) /\ Cardinality(1 .. Cardinality(K)) = Cardinality(K)
  BY <1>1, FS_Interval
<1>3. f \in [K -> 1 .. Cardinality(K)]
  BY RankInRange
<1>4. ASSUME NEW i \in K, NEW j \in K, f[i] = f[j]  PROVE i = j
  BY <1>4, RankTells
<1>5. f \in Injection(K, 1 .. Cardinality(K))
  BY <1>3, <1>4 DEF Injection, IsInjective
<1>6. f \in Surjection(K, 1 .. Cardinality(K))
  BY <1>2, <1>5, FS_Injection
<1>7. PICK i \in K : f[i] = n
  BY <1>6 DEF Surjection
<1> QED  BY <1>7

\* replay_after(): exactly the recorded events behind the cursor.
LEMMA ReplayIn ==
  ASSUME NEW lg \in Seq(Nat), NEW n \in Nat
  PROVE  /\ ReplayAfter(lg, n) \in Seq(Nat)
         /\ ToSet(ReplayAfter(lg, n)) = {m \in ToSet(lg) : CodeId(m) > CodeId(n)}
<1> DEFINE K      == {i \in DOMAIN lg : CodeId(lg[i]) > CodeId(n)}
           rank(i) == Cardinality({j \in K : j <= i})
           Nth(k) == CHOOSE i \in K : rank(i) = k
<1>1. DOMAIN lg = 1 .. Len(lg) /\ Len(lg) \in Nat
  OBVIOUS
<1>2. K \subseteq Nat /\ IsFiniteSet(K) /\ Cardinality(K) \in Nat
  <2>1. IsFiniteSet(1 .. Len(lg))
    BY <1>1, FS_Interval
  <2>2. K \in SUBSET (1 .. Len(lg))
    BY <1>1
  <2> QED  BY <2>1, <2>2, FS_Subset, FS_CardinalityType
<1>3. ReplayAfter(lg, n) = [k \in 1 .. Cardinality(K) |-> lg[Nth(k)]]
  BY DEF ReplayAfter
<1>4. \A k \in 1 .. Cardinality(K) : Nth(k) \in K /\ rank(Nth(k)) = k
  <2>1. ASSUME NEW k \in 1 .. Cardinality(K)  PROVE \E i \in K : rank(i) = k
    BY <1>2, RankOnto
  <2> HIDE DEF K, rank
  <2> QED  BY <2>1
<1>5. \A i \in K : rank(i) \in 1 .. Cardinality(K)
  BY <1>2, RankInRange
<1>6. \A i \in K, j \in K : rank(i) = rank(j) => i = j
  BY <1>2, RankTells
<1>7. \A i \in K : Nth(rank(i)) = i
  <2> HIDE DEF K, rank, Nth
  <2> QED  BY <1>4, <1>5, <1>6
<1>8. \A i \in K : i \in 1 .. Len(lg) /\ lg[i] \in Nat /\ CodeId(lg[i]) > CodeId(n)
  BY <1>1
<1>9. \A k \in 1 .. Cardinality(K) : lg[Nth(k)] \in Nat
  <2> HIDE DEF K, rank, Nth
  <2> QED  BY <1>4, <1>8
<1>10. ReplayAfter(lg, n) \in Seq(Nat)
  <2> HIDE DEF K, rank, Nth
  <2>1. [k \in 1 .. Cardinality(K) |-> lg[Nth(k)]] \in [1 .. Cardinality(K) -> Nat]
    BY <1>9, Zenon
  <2>2. PICK N \in Nat : N = Cardinality(K)
    BY <1>2
  <2>3. \A s \in [1 .. N -> Nat] : s \in Seq(Nat)
    OBVIOUS
  <2> QED  BY <1>3, <2>1, <2>2, <2>3, Zenon
<1>11. ToSet(ReplayAfter(lg, n)) = {lg[Nth(k)] : k \in 1 .. Cardinality(K)}
  <2> HIDE DEF K, rank, Nth
  <2> QED  BY <1>3 DEF ToSet
<1>12. ToSet(lg) = {lg[i] : i \in 1 .. Len(lg)}
  BY <1>1 DEF ToSet
<1>13. ASSUME NEW m \in ToSet(ReplayAfter(lg, n))  PROVE m \in ToSet(lg) /\ CodeId(m) > CodeId(n)
  <2>1. PICK k \in 1 .. Cardinality(K) : m = lg[Nth(k)]
    BY <1>11, <1>13
  <2>2. Nth(k) \in K
    BY <1>4
  <2> HIDE DEF Nth
  <2> QED  BY <1>8, <1>12, <2>1, <2>2
<1>14. ASSUME NEW m \in ToSet(lg), CodeId(m) > CodeId(n)  PROVE m \in ToSet(ReplayAfter(lg, n))
  <2>1. PICK i \in 1 .. Len(lg) : m = lg[i]
    BY <1>12, <1>14
  <2>2. i \in K
    BY <1>1, <1>14, <2>1
  <2>3. rank(i) \in 1 .. Cardinality(K) /\ Nth(rank(i)) = i
    BY <1>5, <1>7, <2>2
  <2> HIDE DEF K, rank, Nth
  <2> QED  BY <1>11, <2>1, <2>3
<1> QED  BY <1>10, <1>13, <1>14

-----------------------------------------------------------------------------
(* The types of the rest.                                                  *)
LEMMA ReceiveTypes ==
  ASSUME last \in [Clients -> Nat], got \in [Clients -> SUBSET Nat], sent \subseteq Nat,
         NEW d \in Clients, NEW n \in Nat, Receive(d, n)
  PROVE  last' \in [Clients -> Nat] /\ got' \in [Clients -> SUBSET Nat]
BY DEF Receive

LEMMA HangupTypes ==
  ASSUME StreamTypes, HistoryTypes, NEW d \in Clients, Hangup(d),
         UNCHANGED <<seq, log, restarts, sent, floor>>,
         last' \in [Clients -> Nat], got' \in [Clients -> SUBSET Nat]
  PROVE  StreamTypes' /\ HistoryTypes'
<1>1. <<>> \in Seq(Nat) /\ 0 \in Nat
  OBVIOUS
<1>2. /\ pc' = [pc EXCEPT ![d] = "off"] /\ out' = [out EXCEPT ![d] = <<>>]
      /\ need' = [need EXCEPT ![d] = FALSE] /\ joined' = [joined EXCEPT ![d] = 0]
      /\ resume' = [resume EXCEPT ![d] = 0]
  BY DEF Hangup
<1>3. pc' \in [Clients -> {"off", "check", "fetch", "yield", "initial", "loop"}]
  BY <1>2 DEF StreamTypes
<1>4. out' \in [Clients -> Seq(Nat)]
  BY <1>1, <1>2 DEF StreamTypes
<1>5. need' \in [Clients -> BOOLEAN]
  BY <1>2 DEF StreamTypes
<1>6. joined' \in [Clients -> Nat] /\ resume' \in [Clients -> Nat]
  BY <1>1, <1>2 DEF HistoryTypes
<1> QED  BY <1>3, <1>4, <1>5, <1>6 DEF StreamTypes, HistoryTypes

LEMMA PublishTypes ==
  ASSUME StreamTypes, HistoryTypes, Publish
  PROVE  StreamTypes' /\ HistoryTypes'
<1>1. seq + 1 \in Nat /\ seq' = seq + 1 /\ log' = Recorded(log, seq + 1)
      /\ sent' = sent \cup {seq + 1}
      /\ UNCHANGED <<pc, out, need, last, restarts, got, joined, resume, floor>>
  BY DEF Publish, StreamTypes, streams
<1>2. log' \in Seq(Nat) /\ Len(log') <= LogMax
  BY <1>1, RecordedIn DEF StreamTypes
<1> QED  BY <1>1, <1>2 DEF StreamTypes, HistoryTypes

LEMMA ConnectTypes ==
  ASSUME StreamTypes, HistoryTypes, NEW d \in Clients, Connect(d)
  PROVE  StreamTypes' /\ HistoryTypes'
<1>1. /\ pc' = [pc EXCEPT ![d] = "check"] /\ joined' = [joined EXCEPT ![d] = seq]
      /\ resume' = [resume EXCEPT ![d] = last[d]]
      /\ UNCHANGED <<seq, log, out, need, last, restarts, sent, got, floor>>
  BY DEF Connect
<1>2. pc' \in [Clients -> {"off", "check", "fetch", "yield", "initial", "loop"}]
  BY <1>1 DEF StreamTypes
<1>3. joined' \in [Clients -> Nat] /\ resume' \in [Clients -> Nat]
  BY <1>1 DEF HistoryTypes, StreamTypes
<1> QED  BY <1>1, <1>2, <1>3 DEF StreamTypes, HistoryTypes

LEMMA CheckTypes ==
  ASSUME StreamTypes, HistoryTypes, NEW d \in Clients, CheckCursor(d)
  PROVE  StreamTypes' /\ HistoryTypes'
<1>1. /\ pc' = [pc EXCEPT ![d] = IF CodeId(last[d]) > 0 THEN "fetch" ELSE "initial"]
      /\ need' = [need EXCEPT ![d] = ~LogContains(log, last[d])]
      /\ UNCHANGED <<seq, log, out, last, restarts, sent, got, joined, resume, floor>>
  BY DEF CheckCursor, server, history
<1>2. pc' \in [Clients -> {"off", "check", "fetch", "yield", "initial", "loop"}]
  BY <1>1 DEF StreamTypes
<1>3. need' \in [Clients -> BOOLEAN]
  BY <1>1 DEF StreamTypes, LogContains
<1> QED  BY <1>1, <1>2, <1>3 DEF StreamTypes, HistoryTypes

LEMMA FetchTypes ==
  ASSUME StreamTypes, HistoryTypes, NEW d \in Clients, FetchReplay(d)
  PROVE  StreamTypes' /\ HistoryTypes'
<1>1. /\ UNCHANGED <<seq, need, last, restarts, sent, got, joined, resume, floor>>
      /\ log' = <<>> \/ log' = log
      /\ \/ pc' = [pc EXCEPT ![d] = "yield"] /\ out' = [out EXCEPT ![d] = ReplayAfter(log', last[d])]
         \/ pc' = [pc EXCEPT ![d] = "initial"] /\ out' = out
  BY DEF FetchReplay, history
<1>2. log' \in Seq(Nat) /\ Len(log') <= LogMax
  <2>1. <<>> \in Seq(Nat) /\ Len(<<>>) = 0 /\ 0 <= LogMax
    BY ConstantTypes
  <2> QED  BY <1>1, <2>1 DEF StreamTypes
<1>3. pc' \in [Clients -> {"off", "check", "fetch", "yield", "initial", "loop"}]
  BY <1>1 DEF StreamTypes
<1>4. out' \in [Clients -> Seq(Nat)]
  <2>1. last[d] \in Nat
    BY DEF StreamTypes
  <2>2. ReplayAfter(log', last[d]) \in Seq(Nat)
    BY <1>2, <2>1, ReplayIn
  <2> QED  BY <1>1, <2>2 DEF StreamTypes
<1> QED  BY <1>1, <1>2, <1>3, <1>4 DEF StreamTypes, HistoryTypes

LEMMA YieldTypes ==
  ASSUME StreamTypes, HistoryTypes, NEW d \in Clients, Yield(d)
  PROVE  StreamTypes' /\ HistoryTypes'
<1>1. /\ Receive(d, Head(out[d])) /\ out' = [out EXCEPT ![d] = Tail(out[d])] /\ out[d] # <<>>
      /\ UNCHANGED <<seq, log, pc, need, restarts, sent, joined, resume, floor>>
  BY DEF Yield, server
<1>2. out[d] \in Seq(Nat)
  BY DEF StreamTypes
<1>3. Head(out[d]) \in Nat /\ Tail(out[d]) \in Seq(Nat)
  BY <1>1, <1>2, TailIn
<1>4. last' \in [Clients -> Nat] /\ got' \in [Clients -> SUBSET Nat]
  BY <1>1, <1>3, ReceiveTypes DEF StreamTypes, HistoryTypes
<1>5. out' \in [Clients -> Seq(Nat)]
  BY <1>1, <1>3 DEF StreamTypes
<1> QED  BY <1>1, <1>4, <1>5 DEF StreamTypes, HistoryTypes

LEMMA EmitTypes ==
  ASSUME StreamTypes, HistoryTypes, NEW d \in Clients, EmitInitial(d)
  PROVE  StreamTypes' /\ HistoryTypes'
<1>1. /\ seq + 1 \in Nat /\ <<seq + 1>> \in Seq(Nat)
      /\ seq' = seq + 1 /\ log' = Recorded(log, seq + 1)
      /\ out' = [out EXCEPT ![d] = <<seq + 1>>] /\ need' = [need EXCEPT ![d] = FALSE]
      /\ pc' = [pc EXCEPT ![d] = "yield"] /\ floor' = [floor EXCEPT ![d] = seq + 1]
      /\ resume' = [resume EXCEPT ![d] = joined[d]]
      /\ UNCHANGED <<last, restarts, sent, got, joined>>
  BY DEF EmitInitial, StreamTypes
<1>2. log' \in Seq(Nat) /\ Len(log') <= LogMax
  BY <1>1, RecordedIn DEF StreamTypes
<1>3. pc' \in [Clients -> {"off", "check", "fetch", "yield", "initial", "loop"}]
      /\ need' \in [Clients -> BOOLEAN]
  BY <1>1 DEF StreamTypes
<1>4. out' \in [Clients -> Seq(Nat)]
  BY <1>1 DEF StreamTypes
<1>5. floor' \in [Clients -> Nat] /\ resume' \in [Clients -> Nat]
  BY <1>1 DEF HistoryTypes
<1> QED  BY <1>1, <1>2, <1>3, <1>4, <1>5 DEF StreamTypes, HistoryTypes

LEMMA TakeTypes ==
  ASSUME QueueTypes, StreamTypes, HistoryTypes, NEW d \in Clients, Take(d)
  PROVE  StreamTypes' /\ HistoryTypes'
<1>1. UNCHANGED <<seq, log, restarts, sent, floor>> /\ q[d] # <<>>
  BY DEF Take
<1>2. CASE Head(q[d]) = Sentinel
  <2>1. Hangup(d) /\ UNCHANGED <<last, got>>
    BY <1>2 DEF Take
  <2> QED  BY <1>1, <2>1, HangupTypes DEF StreamTypes, HistoryTypes
<1>3. CASE Head(q[d]) # Sentinel
  <2>1. /\ UNCHANGED <<pc, out, need, joined, resume>>
        /\ \/ UNCHANGED <<last, got>>
           \/ Head(q[d]) # KeepAlive /\ Receive(d, Head(q[d]))
    BY <1>3 DEF Take
  <2>2. q[d] \in Seq(Items)
    BY DEF QueueTypes
  <2>3. Head(q[d]) \in Items
    BY <1>1, <2>2, TailIn
  <2>4. last' \in [Clients -> Nat] /\ got' \in [Clients -> SUBSET Nat]
    <3>1. CASE UNCHANGED <<last, got>>
      BY <3>1 DEF StreamTypes, HistoryTypes
    <3>2. CASE Head(q[d]) # KeepAlive /\ Receive(d, Head(q[d]))
      <4>1. Head(q[d]) \in Nat
        BY <1>3, <2>3, <3>2 DEF Items
      <4> QED  BY <3>2, <4>1, ReceiveTypes DEF StreamTypes, HistoryTypes
    <3> QED  BY <2>1, <3>1, <3>2
  <2> QED  BY <1>1, <2>1, <2>4 DEF StreamTypes, HistoryTypes
<1> QED  BY <1>2, <1>3

LEMMA RestartTypes ==
  ASSUME QueueTypes, StreamTypes, HistoryTypes, Restart
  PROVE  QueueTypes' /\ StreamTypes' /\ HistoryTypes' /\ Attached'
<1>1. /\ <<>> \in Seq(Nat) /\ <<>> \in Seq(Items) /\ Len(<<>>) = 0 /\ 0 <= Cap /\ 0 <= LogMax
      /\ LastOnly(<<>>) /\ ToSet(<<>>) = {} /\ 0 \in Nat
  BY ConstantTypes, NothingIn DEF LastOnly
<1>2. /\ seq' = 0 /\ log' = <<>> /\ listeners' = {} /\ pub' = Idle /\ restarts' = restarts + 1
      /\ closed' = FALSE /\ sent' = {} /\ last' = last
      /\ q' = [c \in Clients |-> <<>>] /\ pc' = [c \in Clients |-> "off"]
      /\ out' = [c \in Clients |-> <<>>] /\ need' = [c \in Clients |-> FALSE]
      /\ got' = [c \in Clients |-> {}] /\ joined' = [c \in Clients |-> 0]
      /\ resume' = [c \in Clients |-> 0] /\ floor' = [c \in Clients |-> 0]
  BY DEF Restart
<1>3. StreamTypes'
  BY <1>1, <1>2 DEF StreamTypes
<1>4. HistoryTypes'
  BY <1>1, <1>2 DEF HistoryTypes
<1>5. QueueTypes'
  BY <1>1, <1>2 DEF QueueTypes, Idle, Items
<1>6. Attached'
  BY <1>1, <1>2 DEF Attached, Live, Idle
<1> QED  BY <1>3, <1>4, <1>5, <1>6

LEMMA QueueInvInit ==
  ASSUME Init
  PROVE  QueueInv
<1>1. /\ <<>> \in Seq(Nat) /\ <<>> \in Seq(Items) /\ Len(<<>>) = 0 /\ 0 <= Cap /\ 0 <= LogMax
      /\ LastOnly(<<>>) /\ ToSet(<<>>) = {} /\ 0 \in Nat
  BY ConstantTypes, NothingIn DEF LastOnly
<1>2. StreamTypes
  BY <1>1 DEF StreamTypes, Init
<1>3. HistoryTypes
  BY <1>1 DEF HistoryTypes, Init
<1>4. QueueTypes
  BY <1>1 DEF QueueTypes, Idle, Items, Init
<1>5. Attached
  BY <1>1 DEF Attached, Live, Idle, Init
<1> QED  BY <1>2, <1>3, <1>4, <1>5 DEF QueueInv

\* A step of a stream before its loop leaves the queues and who is live alone.
LEMMA LiveAfter ==
  ASSUME StreamTypes, NEW d \in Clients, Live(d), NEW p, p # "off", pc' = [pc EXCEPT ![d] = p]
  PROVE  \A c \in Clients : Live(c)' <=> Live(c)
BY DEF Live, StreamTypes

LEMMA QueueInvNext ==
  ASSUME QueueInv, [Next]_vars
  PROVE  QueueInv'
<1> USE DEF QueueInv
<1>1. CASE Publish
  <2>1. StartAnnounce(seq + 1) /\ UNCHANGED <<pc, closed>> /\ seq + 1 \in Items \ {Sentinel}
    BY <1>1, ConstantTypes DEF Publish, streams, Items, StreamTypes
  <2> QED  BY <1>1, <2>1, AnnounceQueues, PublishTypes
<1>2. CASE PublishKeepAlive
  <2>1. StartAnnounce(KeepAlive) /\ UNCHANGED <<pc, closed>> /\ KeepAlive \in Items \ {Sentinel}
    BY <1>2, ConstantTypes DEF PublishKeepAlive, streams, Items
  <2>2. StreamTypes' /\ HistoryTypes'
    BY <1>2 DEF PublishKeepAlive, streams, history, StreamTypes, HistoryTypes
  <2> QED  BY <2>1, <2>2, AnnounceQueues
<1>3. CASE OtherModeEmit
  <2>1. /\ seq' \in Nat
        /\ UNCHANGED <<log, listeners, q, pub, pc, out, need, last, closed, restarts>>
        /\ UNCHANGED <<sent, got, joined, resume, floor>>
    BY <1>3 DEF OtherModeEmit, streams, history, StreamTypes
  <2>2. StreamTypes' /\ HistoryTypes'
    BY <2>1 DEF StreamTypes, HistoryTypes
  <2>3. \A c \in Clients : Live(c)' <=> Live(c)
    BY <2>1 DEF Live
  <2> QED  BY <2>1, <2>2, <2>3, QueuesAlone
<1>4. CASE Close
  <2>1. StreamTypes' /\ HistoryTypes'
    BY <1>4 DEF Close, streams, history, StreamTypes, HistoryTypes
  <2> QED  BY <1>4, <2>1, CloseQueues
<1>5. CASE Restart
  BY <1>5, RestartTypes
<1>6. ASSUME NEW d \in Clients, Put(d)  PROVE QueueInv'
  <2>1. StreamTypes' /\ HistoryTypes'
    BY <1>6 DEF Put, streams, history, StreamTypes, HistoryTypes
  <2> QED  BY <1>6, <2>1, PutQueues
<1>7. ASSUME NEW d \in Clients, Connect(d)  PROVE QueueInv'
  BY <1>7, ConnectQueues, ConnectTypes
<1>8. ASSUME NEW d \in Clients, CheckCursor(d)  PROVE QueueInv'
  <2>1. /\ UNCHANGED <<listeners, q, pub, closed>> /\ Live(d)
        /\ pc' = [pc EXCEPT ![d] = "fetch"] \/ pc' = [pc EXCEPT ![d] = "initial"]
    BY <1>8 DEF CheckCursor, server, Live
  <2>2. \A c \in Clients : Live(c)' <=> Live(c)
    BY <2>1, LiveAfter
  <2> QED  BY <1>8, <2>1, <2>2, QueuesAlone, CheckTypes
<1>9. ASSUME NEW d \in Clients, FetchReplay(d)  PROVE QueueInv'
  <2>1. /\ UNCHANGED <<listeners, q, pub, closed>> /\ Live(d)
        /\ pc' = [pc EXCEPT ![d] = "yield"] \/ pc' = [pc EXCEPT ![d] = "initial"]
    BY <1>9 DEF FetchReplay, Live
  <2>2. \A c \in Clients : Live(c)' <=> Live(c)
    BY <2>1, LiveAfter
  <2> QED  BY <1>9, <2>1, <2>2, QueuesAlone, FetchTypes
<1>10. ASSUME NEW d \in Clients, Yield(d)  PROVE QueueInv'
  <2>1. UNCHANGED <<listeners, q, pub, closed, pc>>
    BY <1>10 DEF Yield, server
  <2>2. \A c \in Clients : Live(c)' <=> Live(c)
    BY <2>1 DEF Live
  <2> QED  BY <1>10, <2>1, <2>2, QueuesAlone, YieldTypes
<1>11. ASSUME NEW d \in Clients, YieldDone(d)  PROVE QueueInv'
  <2>1. /\ UNCHANGED <<listeners, q, pub, closed>> /\ Live(d)
        /\ pc' = [pc EXCEPT ![d] = "initial"] \/ pc' = [pc EXCEPT ![d] = "loop"]
        /\ UNCHANGED <<seq, log, out, need, last, restarts, sent, got, joined, resume, floor>>
    BY <1>11 DEF YieldDone, server, history, Live
  <2>2. \A c \in Clients : Live(c)' <=> Live(c)
    BY <2>1, LiveAfter
  <2>3. pc' \in [Clients -> {"off", "check", "fetch", "yield", "initial", "loop"}]
    BY <2>1 DEF StreamTypes
  <2>4. StreamTypes' /\ HistoryTypes'
    BY <2>1, <2>3 DEF StreamTypes, HistoryTypes
  <2> QED  BY <2>1, <2>2, <2>4, QueuesAlone
<1>12. ASSUME NEW d \in Clients, EmitInitial(d)  PROVE QueueInv'
  <2>1. UNCHANGED <<listeners, q, pub, closed>> /\ Live(d) /\ pc' = [pc EXCEPT ![d] = "yield"]
    BY <1>12 DEF EmitInitial, Live
  <2>2. \A c \in Clients : Live(c)' <=> Live(c)
    BY <2>1, LiveAfter
  <2> QED  BY <1>12, <2>1, <2>2, QueuesAlone, EmitTypes
<1>13. ASSUME NEW d \in Clients, Take(d)  PROVE QueueInv'
  BY <1>13, TakeQueues, TakeTypes
<1>14. ASSUME NEW d \in Clients, Disconnect(d)  PROVE QueueInv'
  <2>1. Hangup(d) /\ UNCHANGED <<seq, log, last, closed, restarts, sent, got, floor>>
    BY <1>14 DEF Disconnect
  <2>2. last' \in [Clients -> Nat] /\ got' \in [Clients -> SUBSET Nat]
    BY <2>1 DEF StreamTypes, HistoryTypes
  <2> QED  BY <2>1, <2>2, HangupQueues, HangupTypes
<1>15. ASSUME NEW d \in Clients, ForgetCursor(d)  PROVE QueueInv'
  <2>1. /\ UNCHANGED <<seq, log, listeners, q, pub, pc, out, need, closed, restarts>>
        /\ UNCHANGED <<sent, joined, resume>> /\ last' = [last EXCEPT ![d] = 0]
        /\ got' = [got EXCEPT ![d] = {}] /\ floor' = [floor EXCEPT ![d] = seq]
    BY <1>15 DEF ForgetCursor, server
  <2>2. /\ last' \in [Clients -> Nat]
        /\ got' \in [Clients -> SUBSET Nat]
        /\ floor' \in [Clients -> Nat]
    BY <2>1 DEF StreamTypes, HistoryTypes
  <2>3. StreamTypes' /\ HistoryTypes'
    BY <2>1, <2>2 DEF StreamTypes, HistoryTypes
  <2>4. \A c \in Clients : Live(c)' <=> Live(c)
    BY <2>1 DEF Live
  <2> QED  BY <2>1, <2>3, <2>4, QueuesAlone
<1>16. CASE UNCHANGED vars
  <2>1. /\ UNCHANGED <<seq, log, listeners, q, pub, pc, out, need, last, closed, restarts>>
        /\ UNCHANGED <<sent, got, joined, resume, floor>>
    BY <1>16 DEF vars, server, streams, history
  <2>2. StreamTypes' /\ HistoryTypes'
    BY <2>1 DEF StreamTypes, HistoryTypes
  <2>3. \A c \in Clients : Live(c)' <=> Live(c)
    BY <2>1 DEF Live
  <2> QED  BY <2>1, <2>2, <2>3, QueuesAlone
<1> QED
  BY <1>1, <1>2, <1>3, <1>4, <1>5, <1>6, <1>7, <1>8, <1>9, <1>10, <1>11, <1>12, <1>13, <1>14,
     <1>15, <1>16 DEF Next, StreamStep

\* messaging.py: whoever the announcer dropped has the None in its queue, last,
\* whatever the pages, the queue size and the broadcasts under way.
THEOREM DroppedIsToldHolds == Spec => []DroppedIsTold
<1>1. QueueInv => DroppedIsTold
  BY DEF QueueInv, Attached, LastOnly, DroppedIsTold
<1> QED  BY <1>1, QueueInvInit, QueueInvNext, PTL DEF Spec

-----------------------------------------------------------------------------
(* The window, apart from the state: a run of emissions without a hole.    *)
Window(lg, s, top) ==
  /\ \A i, j \in DOMAIN lg : i < j => lg[i] < lg[j]
  /\ \A i \in DOMAIN lg : lg[i] <= top
  /\ lg # <<>> => \A n \in s : n >= Head(lg) => n \in ToSet(lg)

LEMMA WindowTail ==
  ASSUME NEW lg \in Seq(Nat), lg # <<>>, NEW s \in SUBSET Nat, NEW top \in Nat, Window(lg, s, top)
  PROVE  Window(Tail(lg), s, top)
<1>1. /\ Tail(lg) \in Seq(Nat) /\ Len(Tail(lg)) = Len(lg) - 1 /\ Len(lg) \in Nat /\ Head(lg) = lg[1]
      /\ \A i \in 1 .. Len(lg) - 1 : Tail(lg)[i] = lg[i + 1]
  BY HeadTailProperties
<1>2. ToSet(lg) = {Head(lg)} \cup ToSet(Tail(lg))
  BY TailIn
<1>3. PICK t \in Seq(Nat) : t = Tail(lg)
  BY <1>1
<1>4. /\ DOMAIN t = 1 .. Len(lg) - 1 /\ DOMAIN lg = 1 .. Len(lg)
      /\ \A i \in DOMAIN t : t[i] = lg[i + 1] /\ i + 1 \in DOMAIN lg /\ i \in Nat
  BY <1>1, <1>3
<1>5. \A i, j \in DOMAIN t : i < j => t[i] < t[j]
  <2> SUFFICES ASSUME NEW i \in DOMAIN t, NEW j \in DOMAIN t, i < j  PROVE t[i] < t[j]
    OBVIOUS
  <2>1. i + 1 \in DOMAIN lg /\ j + 1 \in DOMAIN lg /\ i + 1 < j + 1
    BY <1>4
  <2>2. lg[i + 1] < lg[j + 1]
    BY <2>1 DEF Window
  <2> QED  BY <1>4, <2>2
<1>6. \A i \in DOMAIN t : t[i] <= top
  BY <1>4 DEF Window
<1>7. ASSUME t # <<>>, NEW n \in s, n >= Head(t)  PROVE n \in ToSet(t)
  <2>1. Head(t) = t[1] /\ 1 \in DOMAIN t
    BY <1>7
  <2>2. PICK i \in DOMAIN t : i = 1 /\ t[i] = lg[i + 1] /\ i + 1 \in DOMAIN lg
    BY <1>4, <2>1
  <2>3. lg[i] < lg[i + 1] /\ lg[i] \in Nat /\ lg[i + 1] \in Nat
    <3>1. i \in DOMAIN lg /\ i < i + 1
      BY <1>4, <2>2
    <3> QED  BY <2>2, <3>1 DEF Window
  <2>4. n >= Head(lg) /\ n # Head(lg)
    BY <1>1, <1>7, <2>1, <2>2, <2>3
  <2>5. n \in ToSet(lg)
    BY <2>4 DEF Window
  <2> QED  BY <1>2, <1>3, <2>4, <2>5
<1> QED  BY <1>3, <1>5, <1>6, <1>7 DEF Window

LEMMA WindowAppend ==
  ASSUME NEW lg \in Seq(Nat), NEW s \in SUBSET Nat, NEW top \in Nat, Window(lg, s, top),
         \A n \in s : n <= top, NEW s2 \in SUBSET (s \cup {top + 1})
  PROVE  Window(Append(lg, top + 1), s2, top + 1)
<1>1. PICK t : t = Append(lg, top + 1)
  OBVIOUS
<1>2. /\ DOMAIN t = 1 .. Len(lg) + 1 /\ DOMAIN lg = 1 .. Len(lg) /\ Len(lg) \in Nat
      /\ \A i \in 1 .. Len(lg) : t[i] = lg[i] /\ lg[i] \in Nat
      /\ t[Len(lg) + 1] = top + 1 /\ t \in Seq(Nat)
  BY <1>1, AppendProperties
<1>3. ToSet(t) = ToSet(lg) \cup {top + 1}
  BY <1>1, AppendIn
<1>4. \A i \in 1 .. Len(lg) : lg[i] <= top
  BY <1>2 DEF Window
<1>5. \A i \in DOMAIN t : t[i] <= top + 1
  BY <1>2, <1>4
<1>6. \A i, j \in DOMAIN t : i < j => t[i] < t[j]
  <2> SUFFICES ASSUME NEW i \in DOMAIN t, NEW j \in DOMAIN t, i < j  PROVE t[i] < t[j]
    OBVIOUS
  <2>1. i \in 1 .. Len(lg)
    BY <1>2
  <2>2. CASE j \in 1 .. Len(lg)
    BY <1>2, <2>1, <2>2 DEF Window
  <2>3. CASE j = Len(lg) + 1
    BY <1>2, <1>4, <2>1, <2>3
  <2> QED  BY <1>2, <2>2, <2>3
<1>7. ASSUME NEW n \in s2, n >= Head(t)  PROVE n \in ToSet(t)
  <2>1. Head(t) = t[1]
    BY <1>2
  <2>2. CASE n = top + 1
    BY <1>3, <2>2
  <2>3. CASE n \in s
    <3>1. lg # <<>>
      <4>1. SUFFICES ASSUME lg = <<>>  PROVE FALSE
        OBVIOUS
      <4>2. t[1] = top + 1
        BY <1>2, <4>1
      <4> QED  BY <1>7, <2>1, <2>3, <4>2
    <3>2. Head(lg) = lg[1] /\ 1 \in 1 .. Len(lg)
      BY <3>1, <1>2
    <3>3. n >= Head(lg)
      BY <1>2, <1>7, <2>1, <3>2
    <3> QED  BY <1>3, <2>3, <3>1, <3>3 DEF Window
  <2> QED  BY <2>2, <2>3
<1>8. Window(t, s2, top + 1)
  BY <1>5, <1>6, <1>7 DEF Window
<1> QED  BY <1>1, <1>8

LEMMA WindowRecorded ==
  ASSUME NEW lg \in Seq(Nat), Len(lg) <= LogMax, NEW s \in SUBSET Nat, NEW top \in Nat,
         Window(lg, s, top), \A n \in s : n <= top, NEW s2 \in SUBSET (s \cup {top + 1})
  PROVE  Window(Recorded(lg, top + 1), s2, top + 1)
<1>1. CASE Len(lg) < LogMax
  BY <1>1, WindowAppend DEF Recorded
<1>2. CASE ~(Len(lg) < LogMax)
  <2>1. lg # <<>>
    BY <1>2, ConstantTypes
  <2>2. Tail(lg) \in Seq(Nat) /\ Window(Tail(lg), s, top)
    BY <2>1, TailIn, WindowTail
  <2>3. Window(Append(Tail(lg), top + 1), s2, top + 1)
    BY <2>2, WindowAppend
  <2> QED  BY <1>2, <2>3 DEF Recorded
<1> QED  BY <1>1, <1>2

(* Division with remainder.                                                *)
LEMMA Division ==
  ASSUME NEW a \in Nat, NEW M \in Nat \ {0}
  PROVE  a \div M \in Nat /\ a % M \in 0 .. M - 1 /\ a = M * (a \div M) + (a % M)
OBVIOUS

LEMMA Quotients ==
  ASSUME NEW M \in Nat \ {0}, NEW d \in Nat, NEW e \in Nat, NEW r \in 0 .. M - 1, NEW x \in 0 .. M - 1,
         M * d + r <= M * e + x
  PROVE  d <= e
<1>1. SUFFICES ASSUME d >= e + 1  PROVE FALSE
  OBVIOUS
<1>2. M * (d - e) = M * d - M * e /\ M * (d - e) >= M
  BY <1>1
<1>3. M * d \in Int /\ M * e \in Int
  OBVIOUS
<1> QED  BY <1>2, <1>3

\* Within one turn of the wire id, the order of the ids is the order of the numbers.
LEMMA NoWrapBetween ==
  ASSUME NEW M \in Nat \ {0}, NEW a \in Nat, NEW b \in Nat, b < a + M, a % M <= b % M,
         NEW n \in Nat, a < n, n <= b
  PROVE  n % M > a % M
<1>1. PICK d \in Nat, r \in 0 .. M - 1 : d = a \div M /\ r = a % M /\ a = M * d + r
  BY Division
<1>2. PICK e \in Nat, s \in 0 .. M - 1 : e = b \div M /\ s = b % M /\ b = M * e + s
  BY Division
<1>3. PICK f \in Nat, t \in 0 .. M - 1 : f = n \div M /\ t = n % M /\ n = M * f + t
  BY Division
<1>4. d <= f /\ f <= e
  BY <1>1, <1>2, <1>3, Quotients
<1>5. e <= d
  <2>1. SUFFICES ASSUME e >= d + 1  PROVE FALSE
    BY <1>4
  <2>2. M * (e - d) = M * e - M * d /\ M * (e - d) >= M /\ M * d \in Int /\ M * e \in Int
    BY <2>1
  <2> QED  BY <1>1, <1>2, <2>2
<1>6. f = d
  BY <1>4, <1>5
<1> QED  BY <1>1, <1>3, <1>6

-----------------------------------------------------------------------------
(* What is on its way to a page, and how far the counter may be ahead.     *)
Carried(c) == ({last[c]} \ {0}) \cup ToSet(log) \cup Ids(q[c]) \cup ToSet(out[c])
                \cup (IF c \in pub.to THEN Ids(<<pub.item>>) ELSE {})

Near == \A c \in Clients : \A n \in Carried(c) : seq < n + IdMod

(* A stream presents the cursor its page has.                              *)
Started == \A c \in Clients :
  /\ pc[c] \in {"check", "fetch"} => resume[c] = last[c]
  /\ pc[c] = "fetch" => CodeId(last[c]) > 0

Counted == (\A n \in sent : n <= seq) /\ (\A c \in Clients : joined[c] <= seq)

CursorInv == QueueInv /\ Counted /\ Window(log, sent, seq) /\ Near /\ Started

\* A single frame in a sequence.
LEMMA OneIn == \A x : ToSet(<<x>>) = {x}
<1> SUFFICES ASSUME NEW x  PROVE ToSet(<<x>>) = {x}
  OBVIOUS
<1>1. DOMAIN <<x>> = {1} /\ <<x>>[1] = x
  OBVIOUS
<1> QED  BY <1>1 DEF ToSet

LEMMA CarriedAreNumbers ==
  ASSUME QueueInv, NEW c \in Clients
  PROVE  Carried(c) \subseteq Nat
<1>1. ToSet(log) \subseteq Nat
  BY DEF QueueInv, StreamTypes, ToSet
<1>2. ToSet(out[c]) \subseteq Nat
  <2>1. out[c] \in Seq(Nat)
    BY DEF QueueInv, StreamTypes
  <2> QED  BY <2>1 DEF ToSet
<1>3. ToSet(q[c]) \subseteq Items
  <2>1. q[c] \in Seq(Items)
    BY DEF QueueInv, QueueTypes
  <2> QED  BY <2>1 DEF ToSet
<1>4. pub.item \in Items
  BY DEF QueueInv, QueueTypes
<1>5. last[c] \in Nat
  BY DEF QueueInv, StreamTypes
<1> QED  BY <1>1, <1>2, <1>3, <1>4, <1>5, OneIn DEF Carried, Ids, Items

\* An emission keeps its distance from everything that is carried.
LEMMA EmitIsNear ==
  ASSUME QueueInv, MayEmit, seq' = seq + 1,
         \A c \in Clients : Carried(c)' \subseteq Carried(c) \cup {seq + 1}
  PROVE  Near'
<1> SUFFICES ASSUME NEW c \in Clients, NEW n \in Carried(c)'  PROVE seq + 1 < n + IdMod
  BY DEF Near
<1>1. seq \in Nat /\ IdMod \in Nat \ {0}
  BY ConstantTypes DEF QueueInv, StreamTypes
<1>2. CASE n = seq + 1
  BY <1>1, <1>2
<1>3. CASE n \in Carried(c)
  <2>1. n \in {last[c]} \cup ToSet(log) \cup Ids(q[c]) \cup ToSet(out[c]) \cup
               (IF c \in pub.to THEN Ids(<<pub.item>>) ELSE {})
    BY <1>3 DEF Carried
  <2> QED  BY <2>1 DEF MayEmit
<1> QED  BY <1>2, <1>3

LEMMA NoEmitIsNear ==
  ASSUME Near, seq' = seq, \A c \in Clients : Carried(c)' \subseteq Carried(c)
  PROVE  Near'
BY DEF Near

LEMMA HangupCarries ==
  ASSUME QueueInv, NEW d \in Clients, Hangup(d), UNCHANGED <<log, last>>
  PROVE  \A c \in Clients : Carried(c)' \subseteq Carried(c)
<1>1. /\ q' = [q EXCEPT ![d] = <<>>] /\ out' = [out EXCEPT ![d] = <<>>]
      /\ q \in [Clients -> Seq(Items)] /\ out \in [Clients -> Seq(Nat)]
      /\ UNCHANGED <<log, last>>
  BY DEF Hangup, QueueInv, QueueTypes, StreamTypes
<1>2. pub'.to = pub.to \ {d} /\ (pub'.to # {} => pub'.item = pub.item)
  BY DEF Hangup, Idle, QueueInv, QueueTypes
<1> SUFFICES ASSUME NEW c \in Clients  PROVE Carried(c)' \subseteq Carried(c)
  OBVIOUS
<1>3. ToSet(q'[c]) \subseteq ToSet(q[c]) /\ ToSet(out'[c]) \subseteq ToSet(out[c])
  <2>1. CASE c = d
    BY <1>1, <2>1, NothingIn
  <2>2. CASE c # d
    BY <1>1, <2>2
  <2> QED  BY <2>1, <2>2
<1>4. c \in pub'.to => c \in pub.to /\ pub'.item = pub.item
  BY <1>2
<1> QED  BY <1>1, <1>3, <1>4 DEF Carried, Ids

\* A step without an emission.
LEMMA QuietKeeps ==
  ASSUME CursorInv, QueueInv', UNCHANGED <<seq, sent>>, log' = log \/ log' = <<>>,
         \A c \in Clients : joined'[c] <= seq,
         \A c \in Clients : Carried(c)' \subseteq Carried(c), Started'
  PROVE  CursorInv'
<1>1. Counted'
  BY DEF CursorInv, Counted
<1>2. Window(log', sent', seq')
  BY DEF CursorInv, Window
<1>3. Near'
  BY NoEmitIsNear DEF CursorInv
<1> QED  BY <1>1, <1>2, <1>3 DEF CursorInv

\* An emission that is recorded, or not.
LEMMA EmitKeeps ==
  ASSUME CursorInv, QueueInv', MayEmit, seq' = seq + 1,
         \/ log' = log /\ sent' = sent
         \/ log' = Recorded(log, seq + 1) /\ sent' \subseteq sent \cup {seq + 1},
         UNCHANGED joined,
         \A c \in Clients : Carried(c)' \subseteq Carried(c) \cup {seq + 1}, Started'
  PROVE  CursorInv'
<1>1. /\ seq \in Nat /\ log \in Seq(Nat) /\ Len(log) <= LogMax /\ sent \subseteq Nat
      /\ joined \in [Clients -> Nat]
  BY DEF CursorInv, QueueInv, StreamTypes, HistoryTypes
<1>2. /\ \A n \in sent : n <= seq
      /\ \A c \in Clients : joined[c] <= seq
      /\ Window(log, sent, seq)
  BY DEF CursorInv, Counted
<1>3. Counted'
  <2>1. \A n \in sent' : n <= seq + 1
    <3>1. \A n \in sent : n \in Nat /\ n <= seq + 1
      BY <1>1, <1>2
    <3>2. sent' \subseteq sent \cup {seq + 1}
      OBVIOUS
    <3> QED  BY <1>1, <3>1, <3>2
  <2>2. \A c \in Clients : joined[c] <= seq + 1
    BY <1>1, <1>2
  <2> QED  BY <2>1, <2>2 DEF Counted
<1>4. Window(log', sent', seq')
  <2>1. CASE log' = log /\ sent' = sent
    <3>1. \A i \in DOMAIN log : log[i] \in Nat
      BY <1>1
    <3>2. \A i \in DOMAIN log : log[i] <= seq + 1
      BY <1>1, <1>2, <3>1 DEF Window
    <3> QED  BY <1>2, <2>1, <3>2 DEF Window
  <2>2. CASE log' = Recorded(log, seq + 1) /\ sent' \subseteq sent \cup {seq + 1}
    BY <1>1, <1>2, <2>2, WindowRecorded
  <2> QED  BY <2>1, <2>2
<1>5. Near'
  BY EmitIsNear DEF CursorInv
<1> QED  BY <1>3, <1>4, <1>5 DEF CursorInv

\* Terminating listeners adds no frame to any queue.
LEMMA TerminatedCarries ==
  ASSUME QueueInv, NEW O, NEW c \in Clients,
         q' = [b \in Clients |-> IF b \in O THEN WithSentinel(q[b]) ELSE q[b]]
  PROVE  Ids(q'[c]) \subseteq Ids(q[c])
<1>1. q \in [Clients -> Seq(Items)] /\ \A b \in Clients : Len(q[b]) <= Cap
  BY DEF QueueInv, QueueTypes
<1>2. ToSet(q'[c]) \subseteq ToSet(q[c]) \cup {Sentinel}
  BY <1>1, Terminated
<1> QED  BY <1>2 DEF Ids

LEMMA AnnounceCarries ==
  ASSUME QueueInv, NEW item, StartAnnounce(item), UNCHANGED <<last, out>>, NEW c \in Clients
  PROVE  Carried(c)' \subseteq Carried(c) \cup ToSet(log') \cup ({item} \ {Sentinel, KeepAlive})
<1>1. Ids(q'[c]) \subseteq Ids(q[c])
  BY TerminatedCarries DEF StartAnnounce
<1>2. c \in pub'.to => pub'.item = item
  BY DEF StartAnnounce, Idle
<1> QED  BY <1>1, <1>2, OneIn DEF Carried, Ids

LEMMA PutCarries ==
  ASSUME QueueInv, NEW d \in Clients, Put(d), NEW c \in Clients
  PROVE  Carried(c)' \subseteq Carried(c)
<1>1. /\ UNCHANGED <<last, out, log>> /\ d \in pub.to
      /\ q \in [Clients -> Seq(Items)]
      /\ pub.item \in Items
      /\ Len(q[d]) <= Cap
      /\ q[d] \in Seq(Items)
  BY DEF Put, streams, QueueInv, QueueTypes
<1>2. pub'.to \subseteq pub.to /\ (pub'.to # {} => pub'.item = pub.item)
  BY DEF Put, Idle, QueueInv, QueueTypes
<1>3. q' = [q EXCEPT ![d] = Append(q[d], pub.item)] \/ q' = [q EXCEPT ![d] = WithSentinel(q[d])]
  BY DEF Put
<1>4. Ids(q'[c]) \subseteq Ids(q[c]) \cup (IF c \in pub.to THEN Ids(<<pub.item>>) ELSE {})
  <2>1. CASE c # d
    BY <1>1, <1>3, <2>1
  <2>2. CASE c = d
    <3>1. ToSet(Append(q[d], pub.item)) = ToSet(q[d]) \cup {pub.item}
      BY <1>1, AppendIn
    <3>2. ToSet(WithSentinel(q[d])) \subseteq ToSet(q[d]) \cup {Sentinel}
      BY <1>1, SentinelIn
    <3>3. q'[c] = Append(q[d], pub.item) \/ q'[c] = WithSentinel(q[d])
      BY <1>1, <1>3, <2>2
    <3> QED  BY <1>1, <2>2, <3>1, <3>2, <3>3, OneIn DEF Ids
  <2> QED  BY <2>1, <2>2
<1> QED  BY <1>1, <1>2, <1>4 DEF Carried

LEMMA TakeCarries ==
  ASSUME QueueInv, NEW d \in Clients, Take(d), Head(q[d]) # Sentinel, NEW c \in Clients
  PROVE  Carried(c)' \subseteq Carried(c)
<1>1. /\ q' = [q EXCEPT ![d] = Tail(q[d])] /\ UNCHANGED <<pub, out, log>>
      /\ \/ UNCHANGED last
         \/ Head(q[d]) # KeepAlive /\ last' = [last EXCEPT ![d] = Head(q[d])]
  BY DEF Take, Receive
<1>2. /\ q[d] \in Seq(Items)
      /\ q[d] # <<>>
      /\ q \in [Clients -> Seq(Items)]
      /\ last \in [Clients -> Nat]
  BY DEF Take, QueueInv, QueueTypes, StreamTypes
<1>3. ToSet(q[d]) = {Head(q[d])} \cup ToSet(Tail(q[d]))
  BY <1>2, TailIn
<1>4. CASE c # d
  <2>1. q'[c] = q[c] /\ last'[c] = last[c]
    BY <1>1, <1>2, <1>4
  <2> QED  BY <1>1, <2>1 DEF Carried
<1>5. CASE c = d
  <2>1. /\ q'[c] = Tail(q[c])
        /\ (last'[c] = last[c] \/ (last'[c] = Head(q[c]) /\ Head(q[c]) # KeepAlive))
    BY <1>1, <1>2, <1>5
  <2> QED  BY <1>1, <1>3, <1>5, <2>1 DEF Carried, Ids
<1> QED  BY <1>4, <1>5

LEMMA YieldCarries ==
  ASSUME QueueInv, NEW d \in Clients, Yield(d), NEW c \in Clients
  PROVE  Carried(c)' \subseteq Carried(c)
<1>1. /\ out' = [out EXCEPT ![d] = Tail(out[d])] /\ UNCHANGED <<pub, q, log>>
      /\ last' = [last EXCEPT ![d] = Head(out[d])]
  BY DEF Yield, Receive, server
<1>2. /\ out[d] \in Seq(Nat)
      /\ out[d] # <<>>
      /\ out \in [Clients -> Seq(Nat)]
      /\ last \in [Clients -> Nat]
  BY DEF Yield, QueueInv, StreamTypes
<1>3. ToSet(out[d]) = {Head(out[d])} \cup ToSet(Tail(out[d]))
  BY <1>2, TailIn
<1>4. CASE c # d
  <2>1. out'[c] = out[c] /\ last'[c] = last[c]
    BY <1>1, <1>2, <1>4
  <2> QED  BY <1>1, <2>1 DEF Carried
<1>5. CASE c = d
  <2>1. out'[c] = Tail(out[c]) /\ last'[c] = Head(out[c])
    BY <1>1, <1>2, <1>5
  <2> QED  BY <1>1, <1>3, <1>5, <2>1 DEF Carried
<1> QED  BY <1>4, <1>5

\* The step of a stream that is neither in "check" nor in "fetch" afterwards.
LEMMA StartedKept ==
  ASSUME QueueInv, Started, NEW d \in Clients, NEW p \in {"off", "yield", "initial", "loop"},
         pc' = [pc EXCEPT ![d] = p],
         \A c \in Clients : c # d => resume'[c] = resume[c] /\ last'[c] = last[c]
  PROVE  Started'
<1>1. \A c \in Clients : pc'[c] = IF c = d THEN p ELSE pc[c]
  BY DEF QueueInv, StreamTypes
<1> QED  BY <1>1 DEF Started

LEMMA CursorInvInit ==
  ASSUME Init
  PROVE  CursorInv
<1>1. QueueInv
  BY QueueInvInit
<1>2. /\ seq = 0 /\ log = <<>> /\ sent = {} /\ pub.to = {}
      /\ joined = [c \in Clients |-> 0] /\ last = [c \in Clients |-> 0]
      /\ q = [c \in Clients |-> <<>>] /\ out = [c \in Clients |-> <<>>]
      /\ pc = [c \in Clients |-> "off"]
  BY DEF Init, Idle
<1>3. \A c \in Clients : Carried(c) = {}
  BY <1>2, NothingIn DEF Carried, Ids
<1>4. Near /\ Started /\ Counted /\ Window(log, sent, seq)
  BY <1>2, <1>3 DEF Near, Started, Counted, Window
<1> QED  BY <1>1, <1>4 DEF CursorInv

LEMMA CursorInvNext ==
  ASSUME CursorInv, [Next]_vars
  PROVE  CursorInv'
<1>0. QueueInv /\ QueueInv' /\ Started /\ seq \in Nat /\ joined \in [Clients -> Nat]
      /\ \A c \in Clients : joined[c] <= seq
  BY QueueInvNext DEF CursorInv, QueueInv, StreamTypes, HistoryTypes, Counted
<1>1. CASE Publish
  <2>1. /\ MayEmit /\ seq' = seq + 1 /\ log' = Recorded(log, seq + 1)
        /\ sent' = sent \cup {seq + 1} /\ StartAnnounce(seq + 1)
        /\ UNCHANGED <<pc, out, last, joined, resume>>
    BY <1>1 DEF Publish, streams
  <2>2. ToSet(log') \subseteq ToSet(log) \cup {seq + 1}
    BY <1>0, <2>1, RecordedIn DEF QueueInv, StreamTypes
  <2>3. \A c \in Clients : Carried(c)' \subseteq Carried(c) \cup {seq + 1}
    BY <1>0, <2>1, <2>2, AnnounceCarries DEF Carried
  <2>4. Started'
    BY <1>0, <2>1 DEF Started
  <2> QED  BY <1>0, <2>1, <2>3, <2>4, EmitKeeps
<1>2. CASE PublishKeepAlive
  <2>1. /\ StartAnnounce(KeepAlive)
        /\ UNCHANGED <<seq, log, pc, out, last, sent, joined, resume>>
    BY <1>2 DEF PublishKeepAlive, streams, history
  <2>2. \A c \in Clients : Carried(c)' \subseteq Carried(c)
    BY <1>0, <2>1, AnnounceCarries DEF Carried
  <2>3. Started'
    BY <1>0, <2>1 DEF Started
  <2> QED  BY <1>0, <2>1, <2>2, <2>3, QuietKeeps
<1>3. CASE OtherModeEmit
  <2>1. /\ MayEmit /\ seq' = seq + 1
        /\ UNCHANGED <<log, q, pub, pc, out, last, sent, joined, resume>>
    BY <1>3 DEF OtherModeEmit, streams, history
  <2>2. \A c \in Clients : Carried(c)' \subseteq Carried(c) \cup {seq + 1}
    BY <2>1 DEF Carried
  <2>3. Started'
    BY <1>0, <2>1 DEF Started
  <2> QED  BY <1>0, <2>1, <2>2, <2>3, EmitKeeps
<1>4. CASE Close
  <2>1. UNCHANGED <<seq, log, pub, pc, out, last, sent, joined, resume>>
    BY <1>4 DEF Close, streams, history
  <2>2. \A c \in Clients : Ids(q'[c]) \subseteq Ids(q[c])
    BY <1>0, <1>4, TerminatedCarries DEF Close
  <2>3. \A c \in Clients : Carried(c)' \subseteq Carried(c)
    BY <2>1, <2>2 DEF Carried
  <2>4. Started'
    BY <1>0, <2>1 DEF Started
  <2> QED  BY <1>0, <2>1, <2>3, <2>4, QuietKeeps
<1>5. CASE Restart
  <2>1. /\ seq' = 0 /\ log' = <<>> /\ sent' = {} /\ pub'.to = {} /\ last' = last
        /\ joined' = [c \in Clients |-> 0]
        /\ q' = [c \in Clients |-> <<>>] /\ out' = [c \in Clients |-> <<>>]
        /\ pc' = [c \in Clients |-> "off"]
    BY <1>5 DEF Restart, Idle
  <2>2. \A c \in Clients : Carried(c)' \subseteq {last[c]} \ {0}
    BY <2>1, NothingIn DEF Carried, Ids
  <2>3. \A c \in Clients : last[c] \in Nat
    BY <1>0 DEF QueueInv, StreamTypes
  <2>4. \A c \in Clients : \A n \in Carried(c)' : n \in Nat /\ n # 0
    BY <2>2, <2>3
  <2>5. Near'
    BY <2>1, <2>4, ConstantTypes DEF Near
  <2>6. Started' /\ Counted' /\ Window(log', sent', seq')
    BY <2>1 DEF Started, Counted, Window
  <2> QED  BY <1>0, <2>5, <2>6 DEF CursorInv
<1>6. ASSUME NEW d \in Clients, Put(d)  PROVE CursorInv'
  <2>1. UNCHANGED <<seq, log, pc, out, last, sent, joined, resume>>
    BY <1>6 DEF Put, streams, history
  <2>2. \A c \in Clients : Carried(c)' \subseteq Carried(c)
    BY <1>0, <1>6, PutCarries
  <2>3. Started'
    BY <1>0, <2>1 DEF Started
  <2> QED  BY <1>0, <2>1, <2>2, <2>3, QuietKeeps
<1>7. ASSUME NEW d \in Clients, Connect(d)  PROVE CursorInv'
  <2>1. /\ UNCHANGED <<seq, log, pub, out, last, sent>> /\ q' = [q EXCEPT ![d] = <<>>]
        /\ pc' = [pc EXCEPT ![d] = "check"] /\ joined' = [joined EXCEPT ![d] = seq]
        /\ resume' = [resume EXCEPT ![d] = last[d]]
    BY <1>7 DEF Connect
  <2>2. /\ q \in [Clients -> Seq(Items)]
        /\ pc \in [Clients -> {"off", "check", "fetch", "yield", "initial", "loop"}]
        /\ resume \in [Clients -> Nat]
    BY <1>0 DEF QueueInv, QueueTypes, StreamTypes, HistoryTypes
  <2>3. \A c \in Clients : ToSet(q'[c]) \subseteq ToSet(q[c])
    BY <2>1, <2>2, NothingIn
  <2>4. \A c \in Clients : Carried(c)' \subseteq Carried(c)
    BY <2>1, <2>3 DEF Carried, Ids
  <2>5. Started'
    <3>1. pc'[d] = "check" /\ resume'[d] = last[d]
      BY <2>1, <2>2
    <3>2. \A c \in Clients : c # d => pc'[c] = pc[c] /\ resume'[c] = resume[c]
      BY <2>1, <2>2
    <3> QED  BY <1>0, <2>1, <3>1, <3>2 DEF Started
  <2>6. \A c \in Clients : joined'[c] <= seq
    BY <1>0, <2>1
  <2> QED  BY <1>0, <2>1, <2>4, <2>5, <2>6, QuietKeeps
<1>8. ASSUME NEW d \in Clients, CheckCursor(d)  PROVE CursorInv'
  <2>1. /\ UNCHANGED <<seq, log, q, pub, out, last, sent, joined, resume>> /\ pc[d] = "check"
        /\ pc' = [pc EXCEPT ![d] = IF CodeId(last[d]) > 0 THEN "fetch" ELSE "initial"]
    BY <1>8 DEF CheckCursor, server, history
  <2>2. \A c \in Clients : Carried(c)' \subseteq Carried(c)
    BY <2>1 DEF Carried
  <2>3. Started'
    <3>1. pc \in [Clients -> {"off", "check", "fetch", "yield", "initial", "loop"}]
      BY <1>0 DEF QueueInv, StreamTypes
    <3>2. \A c \in Clients : c # d => pc'[c] = pc[c]
      BY <2>1, <3>1
    <3>3. pc'[d] = "fetch" => CodeId(last[d]) > 0
      BY <2>1, <3>1
    <3>4. resume[d] = last[d]
      BY <1>0, <2>1 DEF Started
    <3> QED  BY <1>0, <2>1, <3>2, <3>3, <3>4 DEF Started
  <2> QED  BY <1>0, <2>1, <2>2, <2>3, QuietKeeps
<1>9. ASSUME NEW d \in Clients, FetchReplay(d)  PROVE CursorInv'
  <2>1. /\ UNCHANGED <<seq, q, pub, last, sent, joined, resume>>
        /\ log' = log \/ log' = <<>>
    BY <1>9 DEF FetchReplay, history
  <2>2. \/ pc' = [pc EXCEPT ![d] = "yield"] /\ out' = [out EXCEPT ![d] = ReplayAfter(log', last[d])]
        \/ pc' = [pc EXCEPT ![d] = "initial"] /\ out' = out
    BY <1>9 DEF FetchReplay
  <2>3. log' \in Seq(Nat) /\ last[d] \in Nat /\ out \in [Clients -> Seq(Nat)]
    BY <1>0 DEF QueueInv, StreamTypes
  <2>4. ToSet(log') \subseteq ToSet(log)
    BY <2>1, NothingIn
  <2>5. ToSet(ReplayAfter(log', last[d])) \subseteq ToSet(log)
    BY <2>3, <2>4, ReplayIn
  <2>6. ASSUME NEW c \in Clients  PROVE ToSet(out'[c]) \subseteq ToSet(log) \cup ToSet(out[c])
    BY <2>2, <2>3, <2>5
  <2>7. \A c \in Clients : Carried(c)' \subseteq Carried(c)
    BY <2>1, <2>4, <2>6 DEF Carried
  <2>8. Started'
    <3>1. pc' = [pc EXCEPT ![d] = "yield"] \/ pc' = [pc EXCEPT ![d] = "initial"]
      BY <2>2
    <3> QED  BY <1>0, <2>1, <3>1, StartedKept
  <2> QED  BY <1>0, <2>1, <2>7, <2>8, QuietKeeps
<1>10. ASSUME NEW d \in Clients, Yield(d)  PROVE CursorInv'
  <2>1. /\ UNCHANGED <<seq, log, pc, sent, joined, resume>> /\ pc[d] = "yield"
        /\ last' = [last EXCEPT ![d] = Head(out[d])]
    BY <1>10 DEF Yield, Receive, server
  <2>2. \A c \in Clients : Carried(c)' \subseteq Carried(c)
    BY <1>0, <1>10, YieldCarries
  <2>3. Started'
    <3>1. \A c \in Clients : c # d => last'[c] = last[c]
      BY <1>0, <2>1 DEF QueueInv, StreamTypes
    <3> QED  BY <1>0, <2>1, <3>1 DEF Started
  <2> QED  BY <1>0, <2>1, <2>2, <2>3, QuietKeeps
<1>11. ASSUME NEW d \in Clients, YieldDone(d)  PROVE CursorInv'
  <2>1. /\ UNCHANGED <<seq, log, q, pub, out, last, sent, joined, resume>>
        /\ pc' = [pc EXCEPT ![d] = "initial"] \/ pc' = [pc EXCEPT ![d] = "loop"]
    BY <1>11 DEF YieldDone, server, history
  <2>2. \A c \in Clients : Carried(c)' \subseteq Carried(c)
    BY <2>1 DEF Carried
  <2>3. Started'
    BY <1>0, <2>1, StartedKept
  <2> QED  BY <1>0, <2>1, <2>2, <2>3, QuietKeeps
<1>12. ASSUME NEW d \in Clients, EmitInitial(d)  PROVE CursorInv'
  <2>1. /\ MayEmit /\ seq' = seq + 1 /\ log' = Recorded(log, seq + 1)
        /\ out' = [out EXCEPT ![d] = <<seq + 1>>] /\ pc' = [pc EXCEPT ![d] = "yield"]
        /\ resume' = [resume EXCEPT ![d] = joined[d]]
        /\ UNCHANGED <<q, pub, last, sent, joined>>
    BY <1>12 DEF EmitInitial
  <2>2. ToSet(log') \subseteq ToSet(log) \cup {seq + 1}
    BY <1>0, <2>1, RecordedIn DEF QueueInv, StreamTypes
  <2>3. out \in [Clients -> Seq(Nat)] /\ resume \in [Clients -> Nat]
    BY <1>0 DEF QueueInv, StreamTypes, HistoryTypes
  <2>4. ASSUME NEW c \in Clients  PROVE ToSet(out'[c]) \subseteq ToSet(out[c]) \cup {seq + 1}
    BY <2>1, <2>3, OneIn
  <2>5. \A c \in Clients : Carried(c)' \subseteq Carried(c) \cup {seq + 1}
    BY <2>1, <2>2, <2>4 DEF Carried
  <2>6. Started'
    BY <1>0, <2>1, <2>3, StartedKept
  <2> QED  BY <1>0, <2>1, <2>5, <2>6, EmitKeeps
<1>13. ASSUME NEW d \in Clients, Hangup(d), UNCHANGED <<seq, log, last, sent>>  PROVE CursorInv'
  <2>1. /\ pc' = [pc EXCEPT ![d] = "off"] /\ joined' = [joined EXCEPT ![d] = 0]
        /\ resume' = [resume EXCEPT ![d] = 0]
    BY <1>13 DEF Hangup
  <2>2. \A c \in Clients : Carried(c)' \subseteq Carried(c)
    BY <1>0, <1>13, HangupCarries
  <2>3. \A c \in Clients : joined'[c] <= seq
    BY <1>0, <2>1
  <2>4. \A c \in Clients : c # d => resume'[c] = resume[c]
    BY <1>0, <2>1 DEF QueueInv, HistoryTypes
  <2>5. Started'
    BY <1>0, <1>13, <2>1, <2>4, StartedKept
  <2> QED  BY <1>0, <1>13, <2>2, <2>3, <2>5, QuietKeeps
<1>14. ASSUME NEW d \in Clients, Take(d)  PROVE CursorInv'
  <2>1. CASE Head(q[d]) = Sentinel
    BY <1>13, <1>14, <2>1 DEF Take
  <2>2. CASE Head(q[d]) # Sentinel
    <3>1. /\ UNCHANGED <<seq, log, pc, sent, joined, resume>> /\ pc[d] = "loop"
          /\ last' = last \/ last' = [last EXCEPT ![d] = Head(q[d])]
      BY <1>14, <2>2 DEF Take, Receive
    <3>2. \A c \in Clients : Carried(c)' \subseteq Carried(c)
      BY <1>0, <1>14, <2>2, TakeCarries
    <3>3. Started'
      <4>1. \A c \in Clients : c # d => last'[c] = last[c]
        BY <1>0, <3>1 DEF QueueInv, StreamTypes
      <4> QED  BY <1>0, <3>1, <4>1 DEF Started
    <3> QED  BY <1>0, <3>1, <3>2, <3>3, QuietKeeps
  <2> QED  BY <2>1, <2>2
<1>15. ASSUME NEW d \in Clients, Disconnect(d)  PROVE CursorInv'
  BY <1>13, <1>15 DEF Disconnect
<1>16. ASSUME NEW d \in Clients, ForgetCursor(d)  PROVE CursorInv'
  <2>1. /\ UNCHANGED <<seq, log, q, pub, pc, out, sent, joined, resume>> /\ pc[d] = "off"
        /\ last' = [last EXCEPT ![d] = 0]
    BY <1>16 DEF ForgetCursor, server
  <2>2. \A c \in Clients : last'[c] = 0 \/ last'[c] = last[c]
    BY <1>0, <2>1 DEF QueueInv, StreamTypes
  <2>3. \A c \in Clients : Carried(c)' \subseteq Carried(c)
    BY <2>1, <2>2 DEF Carried
  <2>4. Started'
    <3>1. \A c \in Clients : c # d => last'[c] = last[c]
      BY <1>0, <2>1 DEF QueueInv, StreamTypes
    <3> QED  BY <1>0, <2>1, <3>1 DEF Started
  <2> QED  BY <1>0, <2>1, <2>3, <2>4, QuietKeeps
<1>17. CASE UNCHANGED vars
  <2>1. UNCHANGED <<seq, log, q, pub, pc, out, last, sent, joined, resume>>
    BY <1>17 DEF vars, server, streams, history
  <2>2. (\A c \in Clients : Carried(c)' \subseteq Carried(c)) /\ Started'
    BY <1>0, <2>1 DEF Carried, Started
  <2> QED  BY <1>0, <2>1, <2>2, QuietKeeps
<1> QED
  BY <1>1, <1>2, <1>3, <1>4, <1>5, <1>6, <1>7, <1>8, <1>9, <1>10, <1>11, <1>12, <1>14, <1>15,
     <1>16, <1>17 DEF Next, StreamStep

-----------------------------------------------------------------------------
(* Where a broadcast frame is for c once c is registered, apart from the   *)
(* replay.                                                                 *)
Stored(c) == got[c] \cup Ids(q[c]) \cup (IF c \in pub.to THEN {pub.item} ELSE {})

SinceJoined == \A c \in listeners : \A n \in sent : n > joined[c] => n \in Stored(c)

FrameInv == CursorInv /\ SinceJoined /\ NoFrameBetweenReplayAndQueue

\* The two ways to say where a frame is agree on frames.
LEMMA HeldIsStored ==
  \A c \in Clients, n \in Nat : Held(c, n) <=> n \in Stored(c) \cup ToSet(out[c])
<1> SUFFICES ASSUME NEW c \in Clients, NEW n \in Nat
             PROVE  Held(c, n) <=> n \in Stored(c) \cup ToSet(out[c])
  OBVIOUS
<1> QED  BY DEF Held, Stored

\* Three ways a step leaves what is stored for a listener in place: it does not
\* touch it, ...
LEMMA StoredUntouched ==
  ASSUME NEW c \in Clients, q'[c] = q[c], got[c] \subseteq got'[c],
         c \in pub.to => c \in pub'.to /\ pub'.item = pub.item
  PROVE  Stored(c) \subseteq Stored(c)'
BY DEF Stored

\* ... or it announces, puts or hangs up a connection, or it takes an item.
LEMMA StoredAnnounce ==
  ASSUME QueueInv, NEW item, StartAnnounce(item), UNCHANGED got,
         NEW c \in Clients, c \in listeners'
  PROVE  /\ c \in listeners /\ c \in pub'.to /\ pub'.item = item
         /\ Stored(c) \subseteq Stored(c)'
<1>1. c \in listeners /\ c \notin Overloaded /\ pub.to = {} /\ listeners # Overloaded
  BY DEF StartAnnounce, Idle
<1>2. c \in pub'.to /\ pub'.item = item
  BY <1>1 DEF StartAnnounce
<1>3. q'[c] = q[c]
  BY <1>1 DEF StartAnnounce
<1> QED  BY <1>1, <1>2, <1>3, StoredUntouched

LEMMA StoredPut ==
  ASSUME QueueInv, NEW d \in Clients, Put(d), NEW c \in Clients, c \in listeners'
  PROVE  c \in listeners /\ Stored(c) \cap Nat \subseteq Stored(c)'
<1>1. /\ got' = got /\ q \in [Clients -> Seq(Items)] /\ pub.item \in Items
      /\ pub \in [item : Items, to : SUBSET Clients]
  BY DEF Put, history, QueueInv, QueueTypes
<1>2. CASE c # d
  <2>1. q'[c] = q[c] /\ c \in listeners
    BY <1>1, <1>2 DEF Put
  <2>2. c \in pub.to => c \in pub'.to /\ pub'.item = pub.item
    BY <1>1, <1>2 DEF Put
  <2> QED  BY <1>1, <2>1, <2>2, StoredUntouched
<1>3. CASE c = d
  <2>1. c \in listeners /\ q'[c] = Append(q[c], pub.item)
    BY <1>1, <1>3 DEF Put
  <2>2. ToSet(Append(q[c], pub.item)) = ToSet(q[c]) \cup {pub.item}
    BY <1>1, AppendIn
  <2>3. \A n \in Nat : n # Sentinel /\ n # KeepAlive
    BY ConstantTypes
  <2> QED  BY <1>1, <2>1, <2>2, <2>3 DEF Stored, Ids
<1> QED  BY <1>2, <1>3

LEMMA StoredHangup ==
  ASSUME QueueInv, NEW d \in Clients, Hangup(d), UNCHANGED got,
         NEW c \in Clients, c # d
  PROVE  Stored(c) \subseteq Stored(c)'
<1>1. q'[c] = q[c] /\ (c \in pub.to => c \in pub'.to /\ pub'.item = pub.item)
  BY DEF Hangup, QueueInv, QueueTypes
<1> QED  BY <1>1, StoredUntouched

\* A frame that is taken is received.
LEMMA StoredTake ==
  ASSUME QueueInv, NEW d \in Clients, Take(d), Head(q[d]) # Sentinel,
         NEW c \in Clients, NEW n \in sent, n \in Stored(c)
  PROVE  n \in Stored(c)'
<1>1. /\ q' = [q EXCEPT ![d] = Tail(q[d])] /\ pub' = pub
      /\ \/ Head(q[d]) = KeepAlive /\ got' = got
         \/ got' = [got EXCEPT ![d] = got[d] \cup ({Head(q[d])} \cap sent)]
  BY DEF Take, Receive
<1>2. /\ q[d] \in Seq(Items) /\ q[d] # <<>> /\ q \in [Clients -> Seq(Items)]
      /\ got \in [Clients -> SUBSET Nat] /\ n \in Nat
  BY DEF Take, QueueInv, QueueTypes, HistoryTypes
<1>3. ToSet(q[d]) = {Head(q[d])} \cup ToSet(Tail(q[d]))
  BY <1>2, TailIn
<1>4. n # KeepAlive /\ n # Sentinel
  BY <1>2, ConstantTypes
<1>5. CASE c # d
  <2>1. q'[c] = q[c] /\ got'[c] = got[c]
    BY <1>1, <1>2, <1>5
  <2> QED  BY <1>1, <2>1 DEF Stored
<1>6. CASE c = d
  <2>1. q'[c] = Tail(q[c])
    BY <1>1, <1>2, <1>6
  <2>2. CASE n \in Ids(q[c])
    <3>1. CASE n \in ToSet(Tail(q[c]))
      BY <1>4, <2>1, <3>1 DEF Stored, Ids
    <3>2. CASE n = Head(q[c])
      <4>1. got'[c] = got[c] \cup ({Head(q[c])} \cap sent)
        BY <1>1, <1>2, <1>4, <1>6, <3>2
      <4> QED  BY <3>2, <4>1 DEF Stored
    <3> QED  BY <1>3, <1>6, <2>2, <3>1, <3>2 DEF Ids
  <2>3. CASE n \in got[c]
    <3>1. got[c] \subseteq got'[c]
      BY <1>1, <1>2, <1>6
    <3> QED  BY <2>3, <3>1 DEF Stored
  <2>4. CASE c \in pub.to /\ n = pub.item
    BY <1>1, <2>4 DEF Stored
  <2> QED  BY <2>2, <2>3, <2>4 DEF Stored
<1> QED  BY <1>5, <1>6

\* What is stored for a listener that stays one is kept, and a new frame is
\* stored for it at once.
LEMMA StoredNext ==
  ASSUME QueueInv, [Next]_vars, NEW c \in Clients, c \in listeners, c \in listeners'
  PROVE  /\ \A n \in sent : n \in Stored(c) => n \in Stored(c)'
         /\ \A n \in sent' : n \in sent \/ n \in Stored(c)'
<1> DEFINE Goal == /\ \A n \in sent : n \in Stored(c) => n \in Stored(c)'
                   /\ \A n \in sent' : n \in sent \/ n \in Stored(c)'
<1> SUFFICES Goal
  OBVIOUS
<1>0. /\ sent \subseteq Nat /\ got \in [Clients -> SUBSET Nat] /\ Live(c)
  BY DEF QueueInv, HistoryTypes, Attached
<1>a. ASSUME UNCHANGED <<sent, q, pub>>, got[c] \subseteq got'[c]  PROVE Goal
  BY <1>a, StoredUntouched
<1>1. CASE Publish
  <2>1. StartAnnounce(seq + 1) /\ sent' = sent \cup {seq + 1} /\ got' = got
    BY <1>1 DEF Publish
  <2>2. c \in pub'.to /\ pub'.item = seq + 1 /\ Stored(c) \subseteq Stored(c)'
    BY <2>1, StoredAnnounce
  <2>3. seq + 1 \in Stored(c)'
    BY <2>2 DEF Stored
  <2> QED  BY <2>1, <2>2, <2>3
<1>2. CASE PublishKeepAlive
  <2>1. StartAnnounce(KeepAlive) /\ UNCHANGED <<got, sent>>
    BY <1>2 DEF PublishKeepAlive, history
  <2> QED  BY <2>1, StoredAnnounce
<1>3. CASE OtherModeEmit
  BY <1>3, <1>a DEF OtherModeEmit, history
<1>4. CASE Close
  BY <1>4 DEF Close
<1>5. CASE Restart
  BY <1>5 DEF Restart
<1>6. ASSUME NEW d \in Clients, Put(d)  PROVE Goal
  <2>1. sent' = sent
    BY <1>6 DEF Put, history
  <2> QED  BY <1>0, <1>6, <2>1, StoredPut
<1>7. ASSUME NEW d \in Clients, Connect(d)  PROVE Goal
  <2>1. UNCHANGED <<sent, got, pub>> /\ q' = [q EXCEPT ![d] = <<>>] /\ c # d
    BY <1>0, <1>7 DEF Connect, Live
  <2>2. q'[c] = q[c]
    BY <2>1 DEF QueueInv, QueueTypes
  <2> QED  BY <2>1, <2>2, StoredUntouched
<1>8. ASSUME NEW d \in Clients, CheckCursor(d)  PROVE Goal
  BY <1>8, <1>a DEF CheckCursor, server, history
<1>9. ASSUME NEW d \in Clients, FetchReplay(d)  PROVE Goal
  BY <1>9, <1>a DEF FetchReplay, history
<1>10. ASSUME NEW d \in Clients, Yield(d)  PROVE Goal
  <2>1. /\ UNCHANGED <<sent, q, pub>>
        /\ got' = [got EXCEPT ![d] = got[d] \cup ({Head(out[d])} \cap sent)]
    BY <1>10 DEF Yield, Receive, server
  <2>2. got[c] \subseteq got'[c]
    BY <1>0, <2>1
  <2> QED  BY <2>1, <2>2, <1>a
<1>11. ASSUME NEW d \in Clients, YieldDone(d)  PROVE Goal
  BY <1>11, <1>a DEF YieldDone, server, history
<1>12. ASSUME NEW d \in Clients, EmitInitial(d)  PROVE Goal
  BY <1>12, <1>a DEF EmitInitial
<1>13. ASSUME NEW d \in Clients, Hangup(d), UNCHANGED <<sent, got>>  PROVE Goal
  <2>1. c # d
    BY <1>13 DEF Hangup
  <2> QED  BY <1>13, <2>1, StoredHangup
<1>14. ASSUME NEW d \in Clients, Take(d)  PROVE Goal
  <2>1. CASE Head(q[d]) = Sentinel
    BY <1>13, <1>14, <2>1 DEF Take
  <2>2. CASE Head(q[d]) # Sentinel
    <3>1. sent' = sent
      BY <1>14 DEF Take
    <3> QED  BY <1>14, <2>2, <3>1, StoredTake
  <2> QED  BY <2>1, <2>2
<1>15. ASSUME NEW d \in Clients, Disconnect(d)  PROVE Goal
  BY <1>13, <1>15 DEF Disconnect
<1>16. ASSUME NEW d \in Clients, ForgetCursor(d)  PROVE Goal
  <2>1. UNCHANGED <<sent, q, pub>> /\ c # d /\ got' = [got EXCEPT ![d] = {}]
    BY <1>0, <1>16 DEF ForgetCursor, server, Live
  <2>2. got'[c] = got[c]
    BY <1>0, <2>1
  <2> QED  BY <2>1, <2>2, <1>a
<1>17. CASE UNCHANGED vars
  BY <1>17, <1>a DEF vars, server, history
<1> HIDE DEF Goal
<1> QED
  BY <1>1, <1>2, <1>3, <1>4, <1>5, <1>6, <1>7, <1>8, <1>9, <1>10, <1>11, <1>12, <1>14, <1>15,
     <1>16, <1>17 DEF Next, StreamStep

\* A listener was one before, or it joins now.
LEMMA JoinedNext ==
  ASSUME QueueInv, [Next]_vars, NEW c \in listeners'
  PROVE  /\ c \in Clients
         /\ \/ c \in listeners /\ joined'[c] = joined[c]
            \/ joined'[c] = seq /\ sent' = sent
<1>0. listeners \subseteq Clients /\ joined \in [Clients -> Nat]
  BY DEF QueueInv, QueueTypes, HistoryTypes
<1>1. CASE Publish \/ PublishKeepAlive
  BY <1>0, <1>1 DEF Publish, PublishKeepAlive, StartAnnounce, history
<1>2. CASE OtherModeEmit \/ Close \/ Restart \/ UNCHANGED vars
  BY <1>0, <1>2 DEF OtherModeEmit, Close, Restart, vars, server, history
<1>3. ASSUME NEW d \in Clients, Put(d) \/ (StreamStep(d) /\ ~Take(d)) \/ ForgetCursor(d)
      PROVE  c \in listeners /\ joined' = joined
  BY <1>3 DEF Put, StreamStep, CheckCursor, FetchReplay, Yield, YieldDone, EmitInitial,
              ForgetCursor, server, history
<1>4. ASSUME NEW d \in Clients, Take(d) \/ Disconnect(d)
      PROVE  c \in listeners /\ joined'[c] = joined[c]
  <2>1. CASE Hangup(d)
    BY <1>0, <2>1 DEF Hangup
  <2>2. CASE ~Hangup(d)
    BY <1>4, <2>2 DEF Take, Disconnect
  <2> QED  BY <2>1, <2>2
<1>5. ASSUME NEW d \in Clients, Connect(d)
      PROVE  /\ c \in Clients
             /\ \/ c \in listeners /\ joined'[c] = joined[c]
                \/ joined'[c] = seq /\ sent' = sent
  <2>1. /\ listeners' = listeners \cup {d} /\ joined' = [joined EXCEPT ![d] = seq]
        /\ sent' = sent
    BY <1>5 DEF Connect
  <2> QED  BY <1>0, <2>1
<1> QED
  BY <1>0, <1>1, <1>2, <1>3, <1>4, <1>5 DEF Next, StreamStep

LEMMA SinceJoinedNext ==
  ASSUME FrameInv, [Next]_vars
  PROVE  SinceJoined'
<1>0. /\ QueueInv /\ SinceJoined /\ sent \subseteq Nat /\ seq \in Nat /\ \A n \in sent : n <= seq
  BY DEF FrameInv, CursorInv, QueueInv, StreamTypes, HistoryTypes, Counted
<1> SUFFICES ASSUME NEW c \in listeners', NEW n \in sent', n > joined'[c]  PROVE n \in Stored(c)'
  BY DEF SinceJoined
<1>1. c \in Clients
  BY <1>0, JoinedNext
<1>2. CASE c \in listeners /\ joined'[c] = joined[c]
  <2>1. n \in sent \/ n \in Stored(c)'
    BY <1>0, <1>1, <1>2, StoredNext
  <2>2. n \in sent => n \in Stored(c)
    BY <1>0, <1>2 DEF SinceJoined
  <2> QED  BY <1>0, <1>1, <1>2, <2>1, <2>2, StoredNext
<1>3. CASE joined'[c] = seq /\ sent' = sent
  <2>1. n \in Nat /\ n <= seq /\ n > seq
    BY <1>0, <1>3
  <2> QED  BY <1>0, <2>1
<1> QED  BY <1>0, <1>2, <1>3, JoinedNext

-----------------------------------------------------------------------------
(* The property, for one page.                                             *)
Kept(c) == Resumed(c) =>
             \A n \in sent : n > resume[c] => n \in Stored(c) \cup ToSet(out[c])

LEMMA KeptIsHeld ==
  ASSUME sent \subseteq Nat
  PROVE  NoFrameBetweenReplayAndQueue <=> \A c \in Clients : Kept(c)
<1>1. \A c \in Clients, n \in sent : Held(c, n) <=> n \in Stored(c) \cup ToSet(out[c])
  BY HeldIsStored
<1> QED  BY <1>1 DEF NoFrameBetweenReplayAndQueue, Kept

\* What replay_after() accepts reaches back to the cursor: every frame behind
\* the cursor is in the window, and none of them has wrapped below it.
LEMMA ReplayCovers ==
  ASSUME CursorInv, NEW d \in Clients, pc[d] = "fetch", Covered(log, last[d]),
         NEW n \in sent, n > last[d]
  PROVE  n \in ToSet(ReplayAfter(log, last[d]))
<1>1. /\ last[d] \in Nat /\ seq \in Nat /\ log \in Seq(Nat) /\ n \in Nat /\ IdMod \in Nat \ {0}
      /\ n <= seq /\ Window(log, sent, seq) /\ CodeId(last[d]) > 0
  BY ConstantTypes
     DEF CursorInv, QueueInv, StreamTypes, HistoryTypes, Counted, Started
<1>2. last[d] # 0
  BY <1>1 DEF CodeId
<1>3. seq < last[d] + IdMod
  <2>1. last[d] \in Carried(d)
    BY <1>2 DEF Carried
  <2> QED  BY <2>1 DEF CursorInv, Near
<1>4. /\ log # <<>> /\ CodeId(last[d]) <= CodeId(seq) /\ CodeId(Head(log)) <= CodeId(last[d])
  BY DEF Covered
<1>5. \A k \in Nat : last[d] < k /\ k <= seq => CodeId(k) > CodeId(last[d])
  BY <1>1, <1>3, <1>4, NoWrapBetween DEF CodeId
<1>6. PICK h \in Nat : h = Head(log) /\ h <= seq
  <2>1. Head(log) = log[1] /\ 1 \in DOMAIN log /\ Head(log) \in Nat
    BY <1>1, <1>4
  <2> QED  BY <1>1, <2>1 DEF Window
<1>7. h <= last[d]
  <2>1. SUFFICES ASSUME h > last[d]  PROVE FALSE
    BY <1>1
  <2>2. CodeId(h) > CodeId(last[d])
    BY <1>5, <1>6, <2>1
  <2>3. CodeId(h) \in Nat /\ CodeId(last[d]) \in Nat
    <3>1. h % IdMod \in 0 .. IdMod - 1
      BY <1>1, Division
    <3>2. last[d] % IdMod \in 0 .. IdMod - 1
      BY <1>1, Division
    <3> QED  BY <1>1, <3>1, <3>2 DEF CodeId
  <2> QED  BY <1>4, <1>6, <2>2, <2>3
<1>8. n \in ToSet(log)
  BY <1>1, <1>4, <1>6, <1>7 DEF Window
<1>9. CodeId(n) > CodeId(last[d])
  BY <1>1, <1>5
<1> QED  BY ZenonT(40), <1>1, <1>8, <1>9, ReplayIn

\* A resumed stream was resumed before and still has what it was about to yield,
\* or its snapshot or its replay has just been taken.
LEMMA ResumedNext ==
  ASSUME FrameInv, [Next]_vars, NEW c \in Clients, Resumed(c)'
  PROVE  \/ /\ Resumed(c) /\ resume'[c] = resume[c]
            /\ \A n \in sent : n \in ToSet(out[c]) => n \in ToSet(out'[c]) \/ n \in Stored(c)'
         \/ resume'[c] = joined'[c]
         \/ \A n \in sent' : n > resume'[c] => n \in ToSet(out'[c])
<1> DEFINE Goal ==
      \/ /\ Resumed(c) /\ resume'[c] = resume[c]
         /\ \A n \in sent : n \in ToSet(out[c]) => n \in ToSet(out'[c]) \/ n \in Stored(c)'
      \/ resume'[c] = joined'[c]
      \/ \A n \in sent' : n > resume'[c] => n \in ToSet(out'[c])
<1> SUFFICES Goal
  OBVIOUS
<1>0. /\ CursorInv /\ QueueInv /\ Started
      /\ pc \in [Clients -> {"off", "check", "fetch", "yield", "initial", "loop"}]
      /\ out \in [Clients -> Seq(Nat)] /\ need \in [Clients -> BOOLEAN]
      /\ joined \in [Clients -> Nat] /\ resume \in [Clients -> Nat]
      /\ got \in [Clients -> SUBSET Nat] /\ log \in Seq(Nat)
  BY DEF FrameInv, CursorInv, QueueInv, StreamTypes, HistoryTypes
<1>a. ASSUME pc'[c] = pc[c], need'[c] = need[c], out'[c] = out[c], resume'[c] = resume[c],
             c \in listeners' => c \in listeners
      PROVE  Goal
  BY <1>a DEF Resumed
<1>1. CASE Publish \/ PublishKeepAlive
  BY <1>1, <1>a DEF Publish, PublishKeepAlive, StartAnnounce, streams, history
<1>2. CASE OtherModeEmit \/ Close \/ UNCHANGED vars
  BY <1>2, <1>a DEF OtherModeEmit, Close, vars, server, streams, history
<1>3. CASE Restart
  BY <1>3 DEF Restart, Resumed
<1>4. ASSUME NEW d \in Clients, Put(d) \/ ForgetCursor(d)  PROVE Goal
  BY <1>4, <1>a DEF Put, ForgetCursor, server, streams, history
<1>5. ASSUME NEW d \in Clients, Connect(d)  PROVE Goal
  <2>1. /\ pc' = [pc EXCEPT ![d] = "check"] /\ listeners' = listeners \cup {d}
        /\ resume' = [resume EXCEPT ![d] = last[d]] /\ UNCHANGED <<out, need>>
    BY <1>5 DEF Connect
  <2>2. c # d
    BY <1>0, <2>1 DEF Resumed
  <2> QED  BY <1>0, <2>1, <2>2, <1>a
<1>6. ASSUME NEW d \in Clients, CheckCursor(d)  PROVE Goal
  <2>1. /\ pc' = [pc EXCEPT ![d] = "fetch"] \/ pc' = [pc EXCEPT ![d] = "initial"]
        /\ need' = [need EXCEPT ![d] = ~LogContains(log, last[d])]
        /\ UNCHANGED <<out, listeners, resume>>
    BY <1>6 DEF CheckCursor, server, history
  <2>2. c # d
    BY <1>0, <2>1 DEF Resumed
  <2> QED  BY <1>0, <2>1, <2>2, <1>a
<1>7. ASSUME NEW d \in Clients, FetchReplay(d)  PROVE Goal
  <2>1. /\ UNCHANGED <<seq, need, last, sent, listeners, resume>> /\ pc[d] = "fetch"
    BY <1>7 DEF FetchReplay, history
  <2>2. \/ /\ pc' = [pc EXCEPT ![d] = "yield"] /\ log' = log /\ Covered(log, last[d])
           /\ out' = [out EXCEPT ![d] = ReplayAfter(log, last[d])]
        \/ pc' = [pc EXCEPT ![d] = "initial"] /\ out' = out
    BY <1>7 DEF FetchReplay, Covered
  <2>3. CASE c # d
    BY <1>0, <2>1, <2>2, <2>3, <1>a
  <2>4. CASE c = d
    <3>1. Covered(log, last[d]) /\ out'[c] = ReplayAfter(log, last[d])
      BY <1>0, <2>2, <2>4 DEF Resumed
    <3>2. resume'[c] = last[d]
      BY <1>0, <2>1, <2>4 DEF Started
    <3>3. \A n \in sent : n > last[d] => n \in ToSet(ReplayAfter(log, last[d]))
      BY <1>0, <2>1, <3>1, ReplayCovers
    <3> QED  BY <2>1, <3>1, <3>2, <3>3
  <2> QED  BY <2>3, <2>4
<1>8. ASSUME NEW d \in Clients, Yield(d)  PROVE Goal
  <2>1. /\ UNCHANGED <<pc, need, listeners, resume>> /\ out' = [out EXCEPT ![d] = Tail(out[d])]
        /\ got' = [got EXCEPT ![d] = got[d] \cup ({Head(out[d])} \cap sent)] /\ out[d] # <<>>
    BY <1>8 DEF Yield, Receive, server
  <2>2. CASE c # d
    BY <1>0, <2>1, <2>2, <1>a
  <2>3. CASE c = d
    <3>1. /\ out'[c] = Tail(out[c]) /\ got'[c] = got[c] \cup ({Head(out[c])} \cap sent)
          /\ out[c] \in Seq(Nat) /\ out[c] # <<>>
      BY <1>0, <2>1, <2>3
    <3>2. ToSet(out[c]) = {Head(out[c])} \cup ToSet(Tail(out[c]))
      BY <3>1, TailIn
    <3>3. Resumed(c) /\ resume'[c] = resume[c]
      BY <2>1 DEF Resumed
    <3>4. \A n \in sent : n \in ToSet(out[c]) => n \in ToSet(out'[c]) \/ n \in Stored(c)'
      BY <3>1, <3>2 DEF Stored
    <3> QED  BY <3>3, <3>4
  <2> QED  BY <2>2, <2>3
<1>9. ASSUME NEW d \in Clients, YieldDone(d)  PROVE Goal
  <2>1. /\ UNCHANGED <<out, need, listeners, resume>> /\ pc[d] = "yield"
        /\ pc' = [pc EXCEPT ![d] = "initial"] \/ pc' = [pc EXCEPT ![d] = "loop"]
    BY <1>9 DEF YieldDone, server, history
  <2>2. CASE c # d
    BY <1>0, <2>1, <2>2, <1>a
  <2>3. CASE c = d
    <3>1. Resumed(c)
      BY <2>1, <2>3 DEF Resumed
    <3> QED  BY <2>1, <3>1
  <2> QED  BY <2>2, <2>3
<1>10. ASSUME NEW d \in Clients, EmitInitial(d)  PROVE Goal
  <2>1. /\ pc' = [pc EXCEPT ![d] = "yield"] /\ out' = [out EXCEPT ![d] = <<seq + 1>>]
        /\ need' = [need EXCEPT ![d] = FALSE] /\ resume' = [resume EXCEPT ![d] = joined[d]]
        /\ UNCHANGED <<listeners, joined>>
    BY <1>10 DEF EmitInitial
  <2>2. CASE c # d
    BY <1>0, <2>1, <2>2, <1>a
  <2>3. CASE c = d
    BY <1>0, <2>1, <2>3
  <2> QED  BY <2>2, <2>3
<1>11. ASSUME NEW d \in Clients, Hangup(d)  PROVE Goal
  <2>1. /\ pc' = [pc EXCEPT ![d] = "off"] /\ out' = [out EXCEPT ![d] = <<>>]
        /\ need' = [need EXCEPT ![d] = FALSE] /\ resume' = [resume EXCEPT ![d] = 0]
        /\ listeners' = listeners \ {d}
    BY <1>11 DEF Hangup
  <2>2. c # d
    BY <1>0, <2>1 DEF Resumed
  <2> QED  BY <1>0, <2>1, <2>2, <1>a
<1>12. ASSUME NEW d \in Clients, Take(d)  PROVE Goal
  <2>1. CASE Hangup(d)
    BY <1>11, <2>1
  <2>2. CASE ~Hangup(d)
    <3>1. UNCHANGED <<listeners, pc, out, need, resume>>
      BY <1>12, <2>2 DEF Take
    <3> QED  BY <3>1, <1>a
  <2> QED  BY <2>1, <2>2
<1>13. ASSUME NEW d \in Clients, Disconnect(d)  PROVE Goal
  BY <1>11, <1>13 DEF Disconnect
<1> HIDE DEF Goal
<1> QED
  BY <1>1, <1>2, <1>3, <1>4, <1>5, <1>6, <1>7, <1>8, <1>9, <1>10, <1>12, <1>13 DEF Next, StreamStep

LEMMA FrameInvNext ==
  ASSUME FrameInv, [Next]_vars
  PROVE  FrameInv'
<1>1. CursorInv' /\ SinceJoined'
  BY CursorInvNext, SinceJoinedNext DEF FrameInv
<1>2. /\ QueueInv /\ sent \subseteq Nat /\ sent' \subseteq Nat /\ \A c \in Clients : Kept(c)
  BY <1>1, KeptIsHeld DEF FrameInv, CursorInv, QueueInv, HistoryTypes
<1>3. ASSUME NEW c \in Clients, Resumed(c)'  PROVE Kept(c)'
  <2>1. CASE /\ Resumed(c) /\ resume'[c] = resume[c]
             /\ \A n \in sent : n \in ToSet(out[c]) => n \in ToSet(out'[c]) \/ n \in Stored(c)'
    <3>1. c \in listeners /\ c \in listeners'
      BY <1>3, <2>1 DEF Resumed
    <3>2. /\ \A n \in sent : n \in Stored(c) => n \in Stored(c)'
          /\ \A n \in sent' : n \in sent \/ n \in Stored(c)'
      BY <1>2, <3>1, StoredNext
    <3>3. \A n \in sent : n > resume[c] => n \in Stored(c) \cup ToSet(out[c])
      BY <1>2, <2>1 DEF Kept
    <3> QED  BY <2>1, <3>2, <3>3 DEF Kept
  <2>2. CASE resume'[c] = joined'[c]
    <3>1. c \in listeners'
      BY <1>3 DEF Resumed
    <3> QED  BY <1>1, <2>2, <3>1 DEF SinceJoined, Kept
  <2>3. CASE \A n \in sent' : n > resume'[c] => n \in ToSet(out'[c])
    BY <2>3 DEF Kept
  <2> QED  BY <1>3, <2>1, <2>2, <2>3, ResumedNext
<1>4. \A c \in Clients : Kept(c)'
  BY <1>3 DEF Kept
<1>5. NoFrameBetweenReplayAndQueue'
  <2>1. \A c \in Clients, n \in sent' : Held(c, n)' <=> n \in Stored(c)' \cup ToSet(out'[c])
    BY <1>2 DEF Held, Stored
  <2> QED  BY <1>4, <2>1 DEF NoFrameBetweenReplayAndQueue, Kept
<1> QED  BY <1>1, <1>5 DEF FrameInv

\* messaging.py and stream.py: a listener that has resumed holds or has received
\* every frame broadcast after its cursor, across wrapped ids, idle windows,
\* overflows and restarts, for any window and queue size.
THEOREM NoFrameBetweenReplayAndQueueHolds == Spec => []NoFrameBetweenReplayAndQueue
<1>1. Init => FrameInv
  <2> SUFFICES ASSUME Init  PROVE FrameInv
    OBVIOUS
  <2>1. CursorInv
    BY CursorInvInit
  <2>2. listeners = {} /\ sent = {}
    BY DEF Init
  <2> QED  BY <2>1, <2>2 DEF FrameInv, SinceJoined, NoFrameBetweenReplayAndQueue
<1>2. FrameInv => NoFrameBetweenReplayAndQueue
  BY DEF FrameInv
<1> QED  BY <1>1, <1>2, FrameInvNext, PTL DEF Spec

\* messaging.py: replay_after and contains take for granted that the replay log is
\* a run of emissions without a hole; no order of recording, idle drops, wrapped
\* ids, terminations and restarts breaks it.
THEOREM LogSoundHolds == Spec => []LogSound
<1>1. CursorInv => LogSound
  BY DEF CursorInv, Window, LogSound
<1>2. Init => CursorInv
  BY CursorInvInit
<1> QED  BY <1>1, <1>2, CursorInvNext, PTL DEF Spec

\* Queues and window keep their bounds and every variable its type, whatever
\* the steps of messaging.py and stream.py.
THEOREM StreamTypeOKHolds == Spec => []TypeOK
<1>1. QueueInv => TypeOK
  BY StreamTypesSplit DEF QueueInv
<1> QED  BY <1>1, QueueInvInit, QueueInvNext, PTL DEF Spec
=============================================================================
