------------------------------ MODULE MCSseStream -----------------------------
(***************************************************************************)
(* What is published to the pages, checked in one run: the frames of mode  *)
(* 1 on their way to two pages, the rows the frames are made from, and the *)
(* realtime engine behind mode 2.  Each behaviour is a behaviour of one    *)
(* part, chosen at the start.                                              *)
(***************************************************************************)
EXTENDS SseStream, TLC

CONSTANTS
  Syms, Syncs, Routes, Interps, Streams, FullEvery, MaxWrites,   \* of MarketPublish
  MaxQuotes                                                      \* of RealtimeEngine

\* FULL_SNAPSHOT_INTERVAL is positive, the bounds are numbers.
ASSUME MarketAssumption == FullEvery \in Nat \ {0} /\ MaxWrites \in Nat
ASSUME EngineAssumption == MaxQuotes \in Nat

VARIABLE which   \* the part that runs, chosen at the start

VARIABLES marketTarget, marketCurrent, marketWrites, marketGen, marketCachedGen, marketPrev,
          marketCounter, marketPc, marketBuild, marketSeen, marketSnapshot, marketSpc,
          marketKey, marketServed, marketView, marketPubAt, marketInvAt
Mp == INSTANCE MarketPublish WITH
    target <- marketTarget,
    current <- marketCurrent, writes <- marketWrites, gen <- marketGen,
    cachedGen <- marketCachedGen, prev <- marketPrev, counter <- marketCounter, pc <- marketPc,
    build <- marketBuild, seen <- marketSeen, snapshot <- marketSnapshot, spc <- marketSpc,
    key <- marketKey, served <- marketServed, view <- marketView, pubAt <- marketPubAt,
    invAt <- marketInvAt
marketVars == <<marketTarget, marketCurrent, marketWrites, marketGen, marketCachedGen,
      marketPrev, marketCounter, marketPc, marketBuild, marketSeen, marketSnapshot, marketSpc,
      marketKey, marketServed, marketView, marketPubAt, marketInvAt>>

\* The callers, two again, register and unregister the symbol.
VARIABLES engineToken, enginePolled, engineStopped, engineCaller, engineJob, engineLoop,
          engineRow, engineBound, engineQuotes, engineCursor, enginePending, engineSeen,
          engineStream, engineView
Re == INSTANCE RealtimeEngine WITH
    Callers <- Clients, token <- engineToken, polled <- enginePolled,
    stopped <- engineStopped, caller <- engineCaller, job <- engineJob, loop <- engineLoop,
    row <- engineRow, bound <- engineBound, quotes <- engineQuotes, cursor <- engineCursor,
    pending <- enginePending, seen <- engineSeen, stream <- engineStream, view <- engineView
engineVars == <<engineToken, enginePolled, engineStopped, engineCaller, engineJob, engineLoop,
      engineRow, engineBound, engineQuotes, engineCursor, enginePending, engineSeen,
      engineStream, engineView>>

allVars == <<which, vars, marketVars, engineVars>>

-----------------------------------------------------------------------------
\* A part that is not chosen stays in one of its initial states.
MCInit ==
    /\ which \in {"stream", "market", "engine"}
    /\ Init
    /\ Mp!Init
    /\ Re!Init

StreamRuns == which = "stream" /\ Next /\ UNCHANGED <<which, marketVars, engineVars>>
MarketRuns == which = "market" /\ Mp!Next /\ UNCHANGED <<which, vars, engineVars>>
EngineRuns == which = "engine" /\ Re!Next /\ UNCHANGED <<which, vars, marketVars>>
\* The bounds of these parts run out; the others may never stop.
Stops == which \in {"market", "engine"} /\ UNCHANGED allVars

MCNext ==
    StreamRuns \/ MarketRuns \/ EngineRuns \/ Stops

MCSpec == MCInit /\ [][MCNext]_allVars

-----------------------------------------------------------------------------
\* No definition tells pages, callers or symbols apart.
Symmetry == Permutations(Clients) \cup Permutations(Syms)

\* bg/common.py: whoever applied every frame shows the rows that are the base
\* of the next diff.
ListenerTracksBase == Mp!TypeOK /\ Mp!ListenerTracksBase

\* bg/common.py: a cached initial snapshot contains every write that was
\* invalidated by the time of the generation it is filed under.
SnapshotCoversGeneration == Mp!SnapshotCoversGeneration

\* services/realtime/engine.py: no late fetch of a registration brings a
\* removed symbol back for good.
BoundRowHasOwner == Re!TypeOK /\ Re!BoundRowHasOwner

\* engine.py and stream.py, mode 2: a waiting stream with nothing pending shows
\* the row of the moment.
ClientCatchesUp == Re!ClientCatchesUp
=============================================================================
