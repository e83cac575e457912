--------------------------- MODULE BackgroundProofs ---------------------------
(***************************************************************************)
(* Proofs about the parts that work in the background, for any threads,    *)
(* symbols and requests and any size of the queue.  The control of the     *)
(* sync: is_syncing has a runner, sync_scheduled stands for one job, and a *)
(* request told to wait has a job behind it.  The saved watchlist: the     *)
(* file at rest is what memory holds, and a portfolio that was not read is *)
(* not overwritten.  The realtime workers: at most one is the current one. *)
(* The fetch: outages never add up to the removal of a symbol that exists. *)
(***************************************************************************)
EXTENDS MCBackground, PlacesProofs

(***************************************************************************)
(* The control of the sync.                                                *)
(***************************************************************************)
(* The lock is held from the acquire that succeeded to the release.        *)
Holding  == {"begin", "release"} \cup InBody
LockHeld == \A t \in Runners : pc[t] \in Holding <=> lock = t

Running    == {w \in Workers : pc[w] # "idle"}
Submitting == {t \in Threads : spc[t] = "submit"}

(* ExactlyOneJob without counting: the job is submitted, queued or run.    *)
OneJob ==
  ~shut =>
    IF scheduled
    THEN \/ queued = 0 /\ Running = {} /\ \E t \in Threads : Submitting = {t}
         \/ queued = 1 /\ Running = {} /\ Submitting = {}
         \/ queued = 0 /\ (\E w \in Workers : Running = {w}) /\ Submitting = {}
    ELSE queued = 0 /\ Running = {} /\ Submitting = {}

LoopAsleep == ~looped => \A l \in Loops : pc[l] = "idle"

IInv ==
  /\ TypeOK
  /\ LockHeld
  /\ SyncingHasRunner
  /\ OneJob
  /\ LoopAsleep
  /\ PendingHasJob

LEMMA InitInv == Init => IInv
<1> SUFFICES ASSUME Init  PROVE IInv
  OBVIOUS
<1> USE ThreadsAssumption, QueueAssumption DEF Init, Runners, Threads
<1>1. TypeOK
  <2>1. queued \in 0..QueueSize
    OBVIOUS
  <2>2. pc \in [Runners -> {"idle", "try", "busy", "wait", "begin", "release", "jobend"}
                              \cup InBody]
    OBVIOUS
  <2> QED  BY <2>1, <2>2 DEF TypeOK
<1>2. LockHeld /\ SyncingHasRunner
  BY DEF LockHeld, SyncingHasRunner, Holding, InBody
<1>3. OneJob
  BY DEF OneJob, Running, Submitting
<1>4. LoopAsleep /\ PendingHasJob
  BY DEF LoopAsleep, PendingHasJob
<1> QED  BY <1>1, <1>2, <1>3, <1>4 DEF IInv

LEMMA RequestKeeps ==
  ASSUME IInv, NEW t \in Requesters, NEW force \in BOOLEAN, Request(t, force)
  PROVE  IInv'
<1> USE ThreadsAssumption, QueueAssumption
       DEF IInv, TypeOK, Runners, Threads, run, flags, pool, Request
<1>1. TypeOK'
  BY DEF InBody
<1>2. LockHeld'
  BY DEF LockHeld, Holding, InBody
<1>3. SyncingHasRunner'
  BY DEF SyncingHasRunner, LockHeld, Holding, InBody
<1>4. OneJob'
  BY DEF OneJob, Running, Submitting, InBody
<1>5. LoopAsleep'
  BY DEF LoopAsleep
<1>6. PendingHasJob'
  BY DEF PendingHasJob, OneJob, Running
<1> QED  BY <1>1, <1>2, <1>3, <1>4, <1>5, <1>6

LEMMA CheckSyncingKeeps ==
  ASSUME IInv, NEW t \in Threads, CheckSyncing(t)
  PROVE  IInv'
<1> USE ThreadsAssumption, QueueAssumption
       DEF IInv, TypeOK, Runners, Threads, run, flags, pool, CheckSyncing, Recover, Stale
<1>1. TypeOK'
  <2>1. spc' \in [Threads -> {"idle", "check", "claim", "submit"}]
    <3>1. spc' = [spc EXCEPT ![t] = "claim"] \/ spc' = [spc EXCEPT ![t] = "idle"]
      OBVIOUS
    <3>2. spc \in [Threads -> {"idle", "check", "claim", "submit"}]
      OBVIOUS
    <3> QED BY <3>1, <3>2
  <2>2. /\ UNCHANGED <<lock, latest, scheduled, forced, queued, shut, looped, pc>>
        /\ syncing' \in BOOLEAN /\ started' \in BOOLEAN /\ overdue' \in BOOLEAN
        /\ pending' \in BOOLEAN /\ owed' \in BOOLEAN
    BY Zenon
  <2> QED BY <2>1, <2>2
<1>2. LockHeld'
  BY DEF LockHeld, Holding, InBody
<1>3. SyncingHasRunner'
  BY DEF SyncingHasRunner, LockHeld, Holding, InBody
<1>4. OneJob'
  BY DEF OneJob, Running, Submitting, InBody
<1>5. LoopAsleep'
  BY DEF LoopAsleep
<1>6. PendingHasJob'
  BY DEF PendingHasJob, OneJob, Running, SyncingHasRunner, LoopAsleep, InBody
<1> QED  BY <1>1, <1>2, <1>3, <1>4, <1>5, <1>6

LEMMA ClaimKeeps ==
  ASSUME IInv, NEW t \in Threads, Claim(t)
  PROVE  IInv'
<1> USE ThreadsAssumption, QueueAssumption
       DEF IInv, TypeOK, Runners, Threads, run, flags, pool, Claim
<1>1. TypeOK'
  BY ZenonT(40) DEF InBody
<1>2. LockHeld'
  BY DEF LockHeld, Holding, InBody
<1>3. SyncingHasRunner'
  BY DEF SyncingHasRunner, LockHeld, Holding, InBody
<1>4. OneJob'
  BY DEF OneJob, Running, Submitting, InBody
<1>5. LoopAsleep'
  BY DEF LoopAsleep
<1>6. PendingHasJob'
  BY DEF PendingHasJob, OneJob, Running
<1> QED  BY <1>1, <1>2, <1>3, <1>4, <1>5, <1>6

LEMMA SubmitKeeps ==
  ASSUME IInv, NEW t \in Threads, Submit(t)
  PROVE  IInv'
<1> USE ThreadsAssumption, QueueAssumption
       DEF IInv, TypeOK, Runners, Threads, run, flags, pool, Submit
<1>0. ~shut => queued = 0 /\ Occupied = 0
  <2>1. ~shut => queued = 0 /\ Running = {}
    BY DEF OneJob, Submitting
  <2>2. Occupied = queued + Cardinality(Running)
    BY DEF Occupied, Running
  <2> QED  BY <2>1, <2>2, FS_EmptySet
<1>1. TypeOK'
  <2>1. queued' \in 0..QueueSize
    BY <1>0
  <2>2. scheduled' \in BOOLEAN /\ spc' \in [Threads -> {"idle", "check", "claim", "submit"}]
    OBVIOUS
  <2> QED  BY <2>1, <2>2
<1>2. LockHeld'
  BY DEF LockHeld, Holding, InBody
<1>3. SyncingHasRunner'
  BY DEF SyncingHasRunner, LockHeld, Holding, InBody
<1>4. OneJob'
  BY DEF OneJob, Running, Submitting, InBody
<1>5. LoopAsleep'
  BY DEF LoopAsleep
<1>6. PendingHasJob'
  <2>1. ~shut => scheduled' = scheduled
    BY <1>0
  <2> QED  BY <2>1 DEF PendingHasJob
<1> QED  BY <1>1, <1>2, <1>3, <1>4, <1>5, <1>6

LEMMA StartJobKeeps ==
  ASSUME IInv, NEW t \in Workers, StartJob(t)
  PROVE  IInv'
<1> USE ThreadsAssumption, QueueAssumption
       DEF IInv, TypeOK, Runners, Threads, run, flags, pool, StartJob, At, Go
<1>1. TypeOK'
  <2>1. queued' \in 0..QueueSize
    OBVIOUS
  <2> QED  BY ZenonT(40), <2>1 DEF InBody
<1>2. LockHeld'
  BY DEF LockHeld, Holding, InBody
<1>3. SyncingHasRunner'
  BY DEF SyncingHasRunner, LockHeld, Holding, InBody
<1>4. OneJob'
  BY DEF OneJob, Running, Submitting, InBody
<1>5. LoopAsleep'
  BY DEF LoopAsleep
<1>6. PendingHasJob'
  BY DEF PendingHasJob, OneJob, Running
<1> QED  BY <1>1, <1>2, <1>3, <1>4, <1>5, <1>6

LEMMA LoopSyncKeeps ==
  ASSUME IInv, NEW t \in Loops, LoopSync(t)
  PROVE  IInv'
<1> USE ThreadsAssumption, QueueAssumption
       DEF IInv, TypeOK, Runners, Threads, run, flags, pool, LoopSync, At, Go
<1>1. TypeOK'
  BY DEF InBody
<1>2. LockHeld'
  BY DEF LockHeld, Holding, InBody
<1>3. SyncingHasRunner'
  BY DEF SyncingHasRunner, LockHeld, Holding, InBody
<1>4. OneJob'
  BY DEF OneJob, Running, Submitting, InBody
<1>5. LoopAsleep'
  BY DEF LoopAsleep
<1>6. PendingHasJob'
  BY DEF PendingHasJob, OneJob, Running
<1> QED  BY <1>1, <1>2, <1>3, <1>4, <1>5, <1>6

LEMMA TryLockKeeps ==
  ASSUME IInv, NEW t \in Runners, TryLock(t)
  PROVE  IInv'
<1> USE ThreadsAssumption, QueueAssumption
       DEF IInv, TypeOK, Runners, Threads, run, flags, pool, TryLock, At, Go
<1>1. TypeOK'
  BY DEF InBody
<1>2. LockHeld'
  BY DEF LockHeld, Holding, InBody
<1>3. SyncingHasRunner'
  BY DEF SyncingHasRunner, LockHeld, Holding, InBody
<1>4. OneJob'
  BY DEF OneJob, Running, Submitting, InBody
<1>5. LoopAsleep'
  BY DEF LoopAsleep
<1>6. PendingHasJob'
  BY DEF PendingHasJob, OneJob, Running
<1> QED  BY <1>1, <1>2, <1>3, <1>4, <1>5, <1>6

LEMMA TakeOverKeeps ==
  ASSUME IInv, NEW t \in Runners, TakeOver(t)
  PROVE  IInv'
<1> USE ThreadsAssumption, QueueAssumption
       DEF IInv, TypeOK, Runners, Threads, run, flags, pool, TakeOver, At, Go, Recover, Stale
<1>1. TypeOK'
  BY DEF InBody
<1>2. LockHeld'
  BY DEF LockHeld, Holding, InBody
<1>3. SyncingHasRunner'
  BY DEF SyncingHasRunner, LockHeld, Holding, InBody
<1>4. OneJob'
  BY DEF OneJob, Running, Submitting, InBody
<1>5. LoopAsleep'
  BY DEF LoopAsleep
<1>6. PendingHasJob'
  BY DEF PendingHasJob, OneJob, Running
<1> QED  BY <1>1, <1>2, <1>3, <1>4, <1>5, <1>6

LEMMA SkipKeeps ==
  ASSUME IInv, NEW t \in Runners, Skip(t)
  PROVE  IInv'
<1> USE ThreadsAssumption, QueueAssumption
       DEF IInv, TypeOK, Runners, Threads, run, flags, pool, Skip, At, Go, AfterSync
<1>1. TypeOK'
  BY DEF InBody
<1>2. LockHeld'
  BY DEF LockHeld, Holding, InBody
<1>3. SyncingHasRunner'
  BY DEF SyncingHasRunner, LockHeld, Holding, InBody
<1>4. OneJob'
  BY DEF OneJob, Running, Submitting, InBody
<1>5. LoopAsleep'
  BY DEF LoopAsleep
<1>6. PendingHasJob'
  BY DEF PendingHasJob, OneJob, Running
<1> QED  BY <1>1, <1>2, <1>3, <1>4, <1>5, <1>6

LEMMA WaitForLockKeeps ==
  ASSUME IInv, NEW t \in Runners, WaitForLock(t)
  PROVE  IInv'
<1> USE ThreadsAssumption, QueueAssumption
       DEF IInv, TypeOK, Runners, Threads, run, flags, pool, WaitForLock, At, Go, AfterSync
<1>1. TypeOK'
  BY DEF InBody
<1>2. LockHeld'
  BY DEF LockHeld, Holding, InBody
<1>3. SyncingHasRunner'
  BY DEF SyncingHasRunner, LockHeld, Holding, InBody
<1>4. OneJob'
  BY DEF OneJob, Running, Submitting, InBody
<1>5. LoopAsleep'
  BY DEF LoopAsleep
<1>6. PendingHasJob'
  BY DEF PendingHasJob, OneJob, Running
<1> QED  BY <1>1, <1>2, <1>3, <1>4, <1>5, <1>6

LEMMA BeginKeeps ==
  ASSUME IInv, NEW t \in Runners, Begin(t)
  PROVE  IInv'
<1> USE ThreadsAssumption, QueueAssumption
       DEF IInv, TypeOK, Runners, Threads, run, flags, pool, Begin, At, Go
<1>1. TypeOK'
  BY DEF InBody
<1>2. LockHeld'
  BY DEF LockHeld, Holding, InBody
<1>3. SyncingHasRunner'
  BY DEF SyncingHasRunner, LockHeld, Holding, InBody
<1>4. OneJob'
  BY DEF OneJob, Running, Submitting, InBody
<1>5. LoopAsleep'
  BY DEF LoopAsleep
<1>6. PendingHasJob'
  BY DEF PendingHasJob, OneJob, Running
<1> QED  BY <1>1, <1>2, <1>3, <1>4, <1>5, <1>6

LEMMA FetchedKeeps ==
  ASSUME IInv, NEW t \in Runners, Fetched(t)
  PROVE  IInv'
<1> USE ThreadsAssumption, QueueAssumption
       DEF IInv, TypeOK, Runners, Threads, run, flags, pool, Fetched, At, Go
<1>1. TypeOK'
  BY DEF InBody
<1>2. LockHeld'
  BY DEF LockHeld, Holding, InBody
<1>3. SyncingHasRunner'
  BY DEF SyncingHasRunner, LockHeld, Holding, InBody
<1>4. OneJob'
  BY DEF OneJob, Running, Submitting, InBody
<1>5. LoopAsleep'
  BY DEF LoopAsleep
<1>6. PendingHasJob'
  BY DEF PendingHasJob, OneJob, Running
<1> QED  BY <1>1, <1>2, <1>3, <1>4, <1>5, <1>6

LEMMA LeaveBodyKeeps ==
  ASSUME IInv, NEW t \in Runners, LeaveBody(t)
  PROVE  IInv'
<1> USE ThreadsAssumption, QueueAssumption
       DEF IInv, TypeOK, Runners, Threads, run, flags, pool, LeaveBody, At, Go
<1>1. TypeOK'
  BY DEF InBody
<1>2. LockHeld'
  BY DEF LockHeld, Holding, InBody
<1>3. SyncingHasRunner'
  BY DEF SyncingHasRunner, LockHeld, Holding, InBody
<1>4. OneJob'
  BY DEF OneJob, Running, Submitting, InBody
<1>5. LoopAsleep'
  BY DEF LoopAsleep
<1>6. PendingHasJob'
  BY DEF PendingHasJob, OneJob, Running
<1> QED  BY <1>1, <1>2, <1>3, <1>4, <1>5, <1>6

LEMMA ClearKeeps ==
  ASSUME IInv, NEW t \in Runners, Clear(t)
  PROVE  IInv'
<1> USE ThreadsAssumption, QueueAssumption
       DEF IInv, TypeOK, Runners, Threads, run, flags, pool, Clear, At, Go
<1>1. TypeOK'
  BY DEF InBody
<1>2. LockHeld'
  BY DEF LockHeld, Holding, InBody
<1>3. SyncingHasRunner'
  BY DEF SyncingHasRunner, LockHeld, Holding, InBody
<1>4. OneJob'
  BY DEF OneJob, Running, Submitting, InBody
<1>5. LoopAsleep'
  BY DEF LoopAsleep
<1>6. PendingHasJob'
  BY DEF PendingHasJob, OneJob, Running
<1> QED  BY <1>1, <1>2, <1>3, <1>4, <1>5, <1>6

LEMMA ReleaseKeeps ==
  ASSUME IInv, NEW t \in Runners, Release(t)
  PROVE  IInv'
<1> USE ThreadsAssumption, QueueAssumption
       DEF IInv, TypeOK, Runners, Threads, run, flags, pool, Release, At, Go, AfterSync
<1>1. TypeOK'
  BY DEF InBody
<1>2. LockHeld'
  BY DEF LockHeld, Holding, InBody
<1>3. SyncingHasRunner'
  BY DEF SyncingHasRunner, LockHeld, Holding, InBody
<1>4. OneJob'
  BY DEF OneJob, Running, Submitting, InBody
<1>5. LoopAsleep'
  BY DEF LoopAsleep
<1>6. PendingHasJob'
  BY DEF PendingHasJob, OneJob, Running
<1> QED  BY <1>1, <1>2, <1>3, <1>4, <1>5, <1>6

LEMMA JobEndKeeps ==
  ASSUME IInv, NEW t \in Workers, JobEnd(t)
  PROVE  IInv'
<1> USE ThreadsAssumption, QueueAssumption
       DEF IInv, TypeOK, Runners, Threads, run, flags, pool, JobEnd, At, Go
<1>1. TypeOK'
  BY ZenonT(40) DEF InBody
<1>2. LockHeld'
  BY DEF LockHeld, Holding, InBody
<1>3. SyncingHasRunner'
  BY DEF SyncingHasRunner, LockHeld, Holding, InBody
<1>4. OneJob'
  BY DEF OneJob, Running, Submitting, InBody
<1>5. LoopAsleep'
  BY DEF LoopAsleep
<1>6. PendingHasJob'
  BY DEF PendingHasJob, OneJob, Running
<1> QED  BY <1>1, <1>2, <1>3, <1>4, <1>5, <1>6

LEMMA ShutdownKeeps ==
  ASSUME IInv, Shutdown
  PROVE  IInv'
<1> USE ThreadsAssumption, QueueAssumption
       DEF IInv, TypeOK, Runners, Threads, run, flags, pool, Shutdown
<1>1. TypeOK'
  BY DEF InBody
<1>2. LockHeld'
  BY DEF LockHeld, Holding, InBody
<1>3. SyncingHasRunner'
  BY DEF SyncingHasRunner, LockHeld, Holding, InBody
<1>4. OneJob'
  BY DEF OneJob, Running, Submitting, InBody
<1>5. LoopAsleep'
  BY DEF LoopAsleep
<1>6. PendingHasJob'
  BY DEF PendingHasJob, OneJob, Running
<1> QED  BY <1>1, <1>2, <1>3, <1>4, <1>5, <1>6

LEMMA RunOutlastsKeeps ==
  ASSUME IInv, RunOutlasts
  PROVE  IInv'
<1> USE ThreadsAssumption, QueueAssumption
       DEF IInv, TypeOK, Runners, Threads, run, flags, pool, RunOutlasts
<1>1. TypeOK'
  BY DEF InBody
<1>2. LockHeld'
  BY DEF LockHeld, Holding, InBody
<1>3. SyncingHasRunner'
  BY DEF SyncingHasRunner, LockHeld, Holding, InBody
<1>4. OneJob'
  BY DEF OneJob, Running, Submitting, InBody
<1>5. LoopAsleep'
  BY DEF LoopAsleep
<1>6. PendingHasJob'
  BY DEF PendingHasJob, OneJob, Running
<1> QED  BY <1>1, <1>2, <1>3, <1>4, <1>5, <1>6

LEMMA NextKeeps == IInv /\ [Next]_vars => IInv'
<1> SUFFICES ASSUME IInv, [Next]_vars  PROVE IInv'
  OBVIOUS
<1>1. ASSUME NEW r \in Requesters, NEW force \in BOOLEAN, Request(r, force)
      PROVE  IInv'
  BY <1>1, RequestKeeps
<1>2. ASSUME NEW t \in Threads, ScheduleStep(t)  PROVE IInv'
  BY <1>2, CheckSyncingKeeps, ClaimKeeps, SubmitKeeps DEF ScheduleStep
<1>3. ASSUME NEW t \in Runners, SyncStep(t)  PROVE IInv'
  BY <1>3, TryLockKeeps, TakeOverKeeps, SkipKeeps, WaitForLockKeeps, BeginKeeps,
     FetchedKeeps, LeaveBodyKeeps, ClearKeeps, ReleaseKeeps
  DEF SyncStep
<1>4. ASSUME NEW l \in Loops, LoopSync(l)  PROVE IInv'
  BY <1>4, LoopSyncKeeps
<1>5. ASSUME NEW w \in Workers, StartJob(w) \/ JobEnd(w)  PROVE IInv'
  BY <1>5, StartJobKeeps, JobEndKeeps
<1>6. CASE Shutdown \/ RunOutlasts
  BY <1>6, ShutdownKeeps, RunOutlastsKeeps
<1>7. CASE UNCHANGED vars
  BY <1>7
  DEF vars, run, flags, pool, IInv, TypeOK, LockHeld, SyncingHasRunner, OneJob, Running,
      Submitting, LoopAsleep, PendingHasJob
<1> QED  BY <1>1, <1>2, <1>3, <1>4, <1>5, <1>6, <1>7 DEF Next

LEMMA InvHolds == Spec => []IInv
  BY InitInv, NextKeeps, PTL DEF Spec

(* The variables keep their types (market_state.py:111-116,                *)
(* bg/sync/control.py:58-267).                                             *)
THEOREM SyncTypes == Spec => []TypeOK
<1>1. IInv => TypeOK
  BY DEF IInv
<1> QED  BY <1>1, InvHolds, PTL

(* is_syncing is never left up by a run that is gone (control.py:191-208). *)
THEOREM SyncingIsRun == Spec => []SyncingHasRunner
<1>1. IInv => SyncingHasRunner
  BY DEF IInv
<1> QED  BY <1>1, InvHolds, PTL

(* sync_scheduled stands for exactly one job, whatever the threads and the *)
(* size of the queue (control.py:211-267).                                 *)
THEOREM OneScheduledJob == Spec => []ExactlyOneJob
<1>1. IInv => ExactlyOneJob
  <2> SUFFICES ASSUME IInv, ~shut
               PROVE  Jobs = IF scheduled THEN 1 ELSE 0
    BY DEF ExactlyOneJob
  <2>1. Jobs = queued + Cardinality(Running) + Cardinality(Submitting)
    BY DEF Jobs, Running, Submitting
  <2>2. Cardinality({}) = 0 /\ \A x : Cardinality({x}) = 1
    BY FS_EmptySet, FS_Singleton
  <2>3. CASE scheduled
    <3>1. CASE queued = 0 /\ Running = {} /\ \E t \in Threads : Submitting = {t}
      <4>1. Cardinality(Submitting) = 1 /\ Cardinality(Running) = 0
        BY <2>2, <3>1
      <4> QED  BY <2>1, <2>3, <3>1, <4>1
    <3>2. CASE queued = 1 /\ Running = {} /\ Submitting = {}
      BY <2>1, <2>2, <2>3, <3>2
    <3>3. CASE queued = 0 /\ (\E w \in Workers : Running = {w}) /\ Submitting = {}
      BY <2>1, <2>2, <2>3, <3>3
    <3> QED  BY <2>3, <3>1, <3>2, <3>3 DEF IInv, OneJob
  <2>4. CASE ~scheduled
    BY <2>1, <2>2, <2>4 DEF IInv, OneJob
  <2> QED  BY <2>3, <2>4
<1> QED  BY <1>1, InvHolds, PTL

(* Until the fetch loop comes in, a request that was told to wait has a    *)
(* job behind it (control.py:220-228, 242-253).                            *)
THEOREM PendingIsBacked == Spec => []PendingHasJob
<1>1. IInv => PendingHasJob
  BY DEF IInv
<1> QED  BY <1>1, InvHolds, PTL

(***************************************************************************)
(* The watchlist on disk.  A change in memory that the file does not have  *)
(* belongs to a request that will still save it or undo it; who saves      *)
(* writes what memory was when it looked, and what changed since belongs   *)
(* to another.                                                             *)
(***************************************************************************)
Stored(s) == IF watchlistFile = NoFile THEN Absent ELSE watchlistFile[s]

\* The undo of r would take the change of s back.
Owns(r, s) ==
    /\ Wl!Popped(r, s) \/ watchlistMem[s] = Absent
    /\ watchlistReq[r].prev[s] # watchlistMem[s]
Pending(r) == watchlistReq[r].pc \in {"save", "undo"}
Owned(s) == \E r \in ListRequests : Owns(r, s) /\ Pending(r)
OwnedOrWritten(s) ==
    \E r \in ListRequests : Owns(r, s) /\ (Pending(r) \/ watchlistReq[r].pc = "write")

\* Of the symbols that no reload or undo took from a request.
ChangeHasOwner ==
    watchlistLoaded => \A s \in ListSymbols \ watchlistTainted :
        watchlistMem[s] # Stored(s) => OwnedOrWritten(s)
OldSnapshotHasOwner ==
    \A r \in ListRequests, s \in ListSymbols \ watchlistTainted :
        watchlistReq[r].pc = "write" /\ watchlistReq[r].snap[s] # watchlistMem[s] => Owned(s)

\* One saver, which a failed load refuses; and nobody before the first load.
WriterHasLock ==
    \A r \in ListRequests : watchlistReq[r].pc = "write" => watchlistSaver = r /\ watchlistLoaded
IdleIsFresh ==
    \A r \in ListRequests :
        watchlistReq[r].pc = "idle" => watchlistReq[r].prev = Wl!Empty /\ ~watchlistReq[r].alias
UnreadIsRefused ==
    /\ ~watchlistBooted =>
          /\ ~watchlistLoaded /\ watchlistMem = Wl!Empty
          /\ \A r \in ListRequests : watchlistReq[r].pc = "idle"
    /\ watchlistBooted /\ ~watchlistLoaded =>
          watchlistLoadError /\ (watchlistLegacy \/ watchlistFile # NoFile)

ListInv == Wl!TypeOK /\ WriterHasLock /\ IdleIsFresh /\ UnreadIsRefused
              /\ ChangeHasOwner /\ OldSnapshotHasOwner

ReqShape ==
    [pc : {"idle", "save", "write", "undo", "publish", "done"},
     kind : Wl!Kinds, sym : ListSymbols, val : Wl!Values \cup {Absent},
     alias : BOOLEAN, prev : Wl!Contents, snap : Wl!Contents]

LEMMA ListConstants ==
    /\ Wl!Empty \in Wl!Contents /\ Wl!Idle \in ReqShape /\ Wl!Original \in Wl!Contents
    /\ Wl!Idle.pc = "idle" /\ Wl!Idle.prev = Wl!Empty /\ ~Wl!Idle.alias /\ Wl!Idle.sym \in ListSymbols
    /\ \A s \in ListSymbols : Wl!Empty[s] = Absent
    /\ Absent \in Wl!Values \cup {Absent} /\ Name \in Wl!Values /\ NoFile \notin Wl!Contents
<1>1. Wl!Empty \in Wl!Contents /\ \A s \in ListSymbols : Wl!Empty[s] = Absent
  BY DEF Wl!Empty, Wl!Contents
<1>2. (CHOOSE s \in ListSymbols : TRUE) \in ListSymbols
  BY ListAssumption
<1>3. /\ Wl!Idle \in ReqShape /\ Wl!Idle.pc = "idle" /\ Wl!Idle.prev = Wl!Empty /\ ~Wl!Idle.alias
      /\ Wl!Idle.sym \in ListSymbols
  BY <1>1, <1>2 DEF Wl!Idle, ReqShape, Wl!Kinds, Wl!Values
<1>4. Name \in Wl!Values /\ NoFile \notin Wl!Contents
  <2>1. Wl!Contents = [ListSymbols -> ListRequests \cup {Name, Absent}]
    BY DEF Wl!Contents, Wl!Values
  <2> QED BY <2>1, ListAssumption DEF Wl!Values
<1>5. Wl!Original \in Wl!Contents
  <2> DEFINE own == CHOOSE s \in ListSymbols : s \notin ListDefaults
  <2>1. own \in ListSymbols
    BY ListAssumption
  <2> HIDE DEF own
  <2>2. [Wl!Empty EXCEPT ![own] = Name] \in Wl!Contents
    BY <1>1, <1>4, <2>1 DEF Wl!Contents
  <2> QED BY <2>2 DEF Wl!Original, own
<1> QED BY <1>1, <1>3, <1>4, <1>5

LEMMA InitList == Wl!Init => ListInv
<1> SUFFICES ASSUME Wl!Init PROVE ListInv
  OBVIOUS
<1> USE DEF Wl!Init
<1>1. Wl!TypeOK
  <2>1. watchlistReq \in [ListRequests -> ReqShape]
    BY ListConstants
  <2>2. watchlistMem \in Wl!Contents /\ watchlistFile \in Wl!Contents \cup {NoFile}
    BY ListConstants
  <2>3. watchlistLoads \in 0 .. ListLoads
    BY ListAssumption
  <2>4. watchlistAcked \in [ListRequests -> {"none", "saved", "unsaved"}]
    OBVIOUS
  <2> QED BY <2>1, <2>2, <2>3, <2>4 DEF Wl!TypeOK, ReqShape
<1>2. \A r \in ListRequests : watchlistReq[r] = Wl!Idle
  OBVIOUS
<1>3. WriterHasLock /\ IdleIsFresh /\ UnreadIsRefused
  BY <1>2, ListConstants DEF WriterHasLock, IdleIsFresh, UnreadIsRefused
<1>4. ChangeHasOwner /\ OldSnapshotHasOwner
  BY <1>2, ListConstants DEF ChangeHasOwner, OldSnapshotHasOwner
<1> QED BY <1>1, <1>3, <1>4 DEF ListInv

LEMMA SameReq ==
    ASSUME Wl!TypeOK
    PROVE  watchlistReq \in [ListRequests -> ReqShape] /\ watchlistMem \in Wl!Contents
  BY DEF Wl!TypeOK, ReqShape

\* An entry changes memory, one request and perhaps the marks of others.
LEMMA EntryKeeps ==
    ASSUME ListInv, NEW q \in ListRequests, watchlistReq[q].pc = "idle", watchlistBooted,
           UNCHANGED <<watchlistLoadError, watchlistFile, watchlistLegacy, watchlistSaver,
                       watchlistBooted, watchlistLoads, watchlistLoaded, watchlistTainted,
                       watchlistAcked>>,
           watchlistMem' \in Wl!Contents,
           watchlistReq' \in [ListRequests -> ReqShape],
           watchlistReq'[q].pc = "save",
           \A s \in ListSymbols : watchlistMem'[s] # watchlistMem[s] => Owns(q, s)',
           \A r \in ListRequests \ {q} :
              /\ watchlistReq'[r].pc = watchlistReq[r].pc
              /\ watchlistReq'[r].kind = watchlistReq[r].kind
              /\ watchlistReq'[r].sym = watchlistReq[r].sym
              /\ watchlistReq'[r].prev = watchlistReq[r].prev
              /\ watchlistReq'[r].snap = watchlistReq[r].snap
              /\ ~watchlistReq[r].alias => ~watchlistReq'[r].alias
              /\ \/ watchlistReq'[r].val = watchlistReq[r].val
                 \/ watchlistReq'[r].val = watchlistMem'[watchlistReq[r].sym]
    PROVE  ListInv'
<1> USE SameReq DEF ListInv
<1>1. Wl!TypeOK'
  BY DEF Wl!TypeOK, ReqShape
<1>2. WriterHasLock'
  BY DEF WriterHasLock
<1>3. IdleIsFresh' /\ UnreadIsRefused'
  BY DEF IdleIsFresh, UnreadIsRefused
<1>4. ASSUME NEW r \in ListRequests, NEW s \in ListSymbols,
             watchlistMem'[s] = watchlistMem[s], Owns(r, s), r # q
      PROVE  Owns(r, s)'
  BY <1>4 DEF Owns, Wl!Popped
<1>5. ASSUME NEW s \in ListSymbols, watchlistMem'[s] # watchlistMem[s]
      PROVE  Owned(s)'
  BY <1>5 DEF Owned, Pending
<1>6. ASSUME NEW s \in ListSymbols, watchlistMem'[s] = watchlistMem[s]
      PROVE  (Owned(s) => Owned(s)') /\ (OwnedOrWritten(s) => OwnedOrWritten(s)')
  BY <1>4, <1>6 DEF Owned, OwnedOrWritten, Pending
<1>7. ChangeHasOwner'
  <2>1. \A s \in ListSymbols : Owned(s)' => OwnedOrWritten(s)'
    BY DEF Owned, OwnedOrWritten
  <2>2. \A s : Stored(s)' = Stored(s)
    BY DEF Stored
  <2> QED BY <1>5, <1>6, <2>1, <2>2 DEF ChangeHasOwner
<1>8. OldSnapshotHasOwner'
  BY <1>5, <1>6 DEF OldSnapshotHasOwner
<1> QED BY <1>1, <1>2, <1>3, <1>7, <1>8

LEMMA RowOfAdd ==
    ASSUME NEW row \in ReqShape, NEW s \in ListSymbols
    PROVE  [row EXCEPT !.pc = "save", !.kind = "add", !.sym = s, !.val = Name] \in ReqShape
<1>1. Name \in Wl!Values \cup {Absent}
  BY ListConstants
<1> QED BY <1>1 DEF ReqShape, Wl!Kinds

LEMMA AddKeeps ==
    ASSUME ListInv, NEW q \in ListRequests, NEW s \in ListSymbols, Wl!Add(q, s)
    PROVE  ListInv'
<1> USE SameReq, ListConstants DEF ListInv, Wl!Add, Wl!Enter
<1>1. watchlistMem' \in Wl!Contents
  BY DEF Wl!Contents
<1>2. /\ watchlistReq' \in [ListRequests -> ReqShape]
      /\ watchlistReq'[q] = [watchlistReq[q] EXCEPT !.pc = "save", !.kind = "add",
                                                    !.sym = s, !.val = Name]
  <2> DEFINE row == [watchlistReq[q] EXCEPT !.pc = "save", !.kind = "add",
                                            !.sym = s, !.val = Name]
  <2>1. row \in ReqShape
    BY RowOfAdd
  <2>2. watchlistReq' = [watchlistReq EXCEPT ![q] = row]
    OBVIOUS
  <2> QED BY <2>1, <2>2
<1>3. /\ watchlistReq'[q].pc = "save" /\ watchlistReq'[q].kind = "add"
      /\ watchlistReq'[q].sym = s /\ watchlistReq'[q].val = Name
      /\ watchlistReq'[q].prev = Wl!Empty
  BY <1>2 DEF ReqShape, IdleIsFresh
<1>4. \A t \in ListSymbols : watchlistMem'[t] # watchlistMem[t] => Owns(q, t)'
  <2>1. watchlistMem'[s] = Name /\ \A t \in ListSymbols \ {s} : watchlistMem'[t] = watchlistMem[t]
    BY DEF Wl!Contents
  <2> QED BY <1>3, <2>1, ListAssumption DEF Owns, Wl!Popped
<1>5. \A r \in ListRequests \ {q} : watchlistReq'[r] = watchlistReq[r]
  OBVIOUS
<1> QED BY <1>1, <1>2, <1>3, <1>4, <1>5, EntryKeeps

LEMMA UpdateEntryKeeps ==
    ASSUME ListInv, NEW q \in ListRequests, NEW s \in ListSymbols, Wl!Update(q, s)
    PROVE  ListInv'
<1> DEFINE row == [watchlistReq[q] EXCEPT !.pc = "save", !.kind = "update", !.sym = s, !.val = q,
                       !.alias = TRUE, !.prev = [Wl!Empty EXCEPT ![s] = watchlistMem[s]]]
<1> USE SameReq, ListConstants DEF ListInv, Wl!Update, Wl!Enter
<1>1. /\ watchlistMem' \in Wl!Contents /\ watchlistMem'[s] = q
      /\ \A t \in ListSymbols \ {s} : watchlistMem'[t] = watchlistMem[t]
  BY DEF Wl!Contents, Wl!Values
<1>2. [Wl!Empty EXCEPT ![s] = watchlistMem[s]] \in Wl!Contents
  BY DEF Wl!Contents
<1>3. row \in ReqShape
  BY <1>2 DEF ReqShape, Wl!Kinds, Wl!Values
<1>4. /\ row.pc = "save" /\ row.kind = "update" /\ row.sym = s /\ row.val = q
      /\ row.prev[s] = watchlistMem[s]
  BY <1>2 DEF ReqShape, Wl!Empty
<1>5. watchlistReq'[q] = row
  OBVIOUS
<1> HIDE DEF row
<1>6. ASSUME NEW r \in ListRequests \ {q}
      PROVE  \/ watchlistReq'[r] = watchlistReq[r]
             \/ /\ watchlistReq'[r] = [watchlistReq[r] EXCEPT !.val = q]
                /\ watchlistReq[r].sym = s
  BY DEF ReqShape
<1>7. watchlistReq' \in [ListRequests -> ReqShape]
  <2>1. \A r \in ListRequests : watchlistReq'[r] \in ReqShape
    BY <1>3, <1>5, <1>6 DEF ReqShape, Wl!Values
  <2>2. watchlistReq' = [r \in ListRequests |-> watchlistReq'[r]]
    OBVIOUS
  <2> QED BY <2>1, <2>2
<1>8. ASSUME NEW r \in ListRequests \ {q}
      PROVE  /\ watchlistReq'[r].pc = watchlistReq[r].pc
             /\ watchlistReq'[r].kind = watchlistReq[r].kind
             /\ watchlistReq'[r].sym = watchlistReq[r].sym
             /\ watchlistReq'[r].prev = watchlistReq[r].prev
             /\ watchlistReq'[r].snap = watchlistReq[r].snap
             /\ watchlistReq'[r].alias = watchlistReq[r].alias
             /\ \/ watchlistReq'[r].val = watchlistReq[r].val
                \/ watchlistReq'[r].val = watchlistMem'[watchlistReq[r].sym]
  <2>1. CASE watchlistReq'[r] = watchlistReq[r]
    BY <2>1
  <2>2. CASE watchlistReq'[r] # watchlistReq[r]
    BY <1>1, <1>6, <2>2 DEF ReqShape
  <2> QED BY <2>1, <2>2
<1>9. \A t \in ListSymbols : watchlistMem'[t] # watchlistMem[t] => Owns(q, t)'
  BY <1>1, <1>4, <1>5 DEF Owns, Wl!Popped
<1>10. /\ watchlistReq[q].pc = "idle" /\ watchlistBooted
       /\ UNCHANGED <<watchlistLoadError, watchlistFile, watchlistLegacy, watchlistSaver,
                      watchlistBooted, watchlistLoads, watchlistLoaded, watchlistTainted,
                      watchlistAcked>>
  OBVIOUS
<1> HIDE DEF Wl!Update, Wl!Enter
<1> QED BY <1>1, <1>4, <1>5, <1>7, <1>8, <1>9, <1>10, EntryKeeps

\* Forgetting who shares a value changes nothing else.
LEMMA UnaliasKeeps ==
    ASSUME Wl!TypeOK, NEW ss, NEW r \in ListRequests
    PROVE  /\ Wl!Unalias(ss, r) \in ReqShape
           /\ Wl!Unalias(ss, r).pc = watchlistReq[r].pc
           /\ Wl!Unalias(ss, r).kind = watchlistReq[r].kind
           /\ Wl!Unalias(ss, r).sym = watchlistReq[r].sym
           /\ Wl!Unalias(ss, r).val = watchlistReq[r].val
           /\ Wl!Unalias(ss, r).prev = watchlistReq[r].prev
           /\ Wl!Unalias(ss, r).snap = watchlistReq[r].snap
           /\ ~watchlistReq[r].alias => ~Wl!Unalias(ss, r).alias
  BY SameReq DEF Wl!Unalias, ReqShape

LEMMA DeleteKeeps ==
    ASSUME ListInv, NEW q \in ListRequests, NEW s \in ListSymbols, Wl!Delete(q, s)
    PROVE  ListInv'
<1> DEFINE row == [watchlistReq[q] EXCEPT !.pc = "save", !.kind = "delete", !.sym = s,
                       !.prev = [Wl!Empty EXCEPT ![s] = watchlistMem[s]]]
<1> USE SameReq, ListConstants DEF ListInv, Wl!Delete, Wl!Enter
<1>1. /\ watchlistMem' \in Wl!Contents /\ watchlistMem'[s] = Absent
      /\ \A t \in ListSymbols \ {s} : watchlistMem'[t] = watchlistMem[t]
  BY DEF Wl!Contents, Wl!Values
<1>2. [Wl!Empty EXCEPT ![s] = watchlistMem[s]] \in Wl!Contents
  BY DEF Wl!Contents
<1>3. row \in ReqShape /\ row.pc = "save" /\ row.prev[s] = watchlistMem[s]
  BY <1>2 DEF ReqShape, Wl!Kinds, Wl!Empty
<1>4. /\ watchlistReq' = [r \in ListRequests |-> watchlistReq'[r]]
      /\ watchlistReq'[q] = row
      /\ \A r \in ListRequests \ {q} : watchlistReq'[r] = Wl!Unalias({s}, r)
  OBVIOUS
<1>5. /\ watchlistReq[q].pc = "idle" /\ watchlistBooted
      /\ UNCHANGED <<watchlistLoadError, watchlistFile, watchlistLegacy, watchlistSaver,
                     watchlistBooted, watchlistLoads, watchlistLoaded, watchlistTainted,
                     watchlistAcked>>
  OBVIOUS
<1> HIDE DEF row, Wl!Delete, Wl!Enter
<1>6. watchlistReq' \in [ListRequests -> ReqShape]
  <2>1. \A r \in ListRequests : watchlistReq'[r] \in ReqShape
    BY <1>3, <1>4, UnaliasKeeps
  <2> QED BY <1>4, <2>1
<1>7. \A t \in ListSymbols : watchlistMem'[t] # watchlistMem[t] => Owns(q, t)'
  BY <1>1, <1>3, <1>4 DEF Owns, Wl!Popped
<1> QED BY <1>1, <1>3, <1>4, <1>5, <1>6, <1>7, UnaliasKeeps, EntryKeeps

LEMMA ResetKeeps ==
    ASSUME ListInv, NEW q \in ListRequests, Wl!Reset(q)
    PROVE  ListInv'
<1> DEFINE row == [watchlistReq[q] EXCEPT !.pc = "save", !.kind = "reset", !.prev = watchlistMem]
<1> USE SameReq, ListConstants DEF ListInv, Wl!Reset, Wl!Enter
<1>1. watchlistMem' \in Wl!Contents /\ \A t \in ListSymbols : watchlistMem'[t] = Absent
  OBVIOUS
<1>2. row \in ReqShape /\ row.pc = "save" /\ row.prev = watchlistMem
  BY DEF ReqShape, Wl!Kinds
<1>3. /\ watchlistReq' = [r \in ListRequests |-> watchlistReq'[r]]
      /\ watchlistReq'[q] = row
      /\ \A r \in ListRequests \ {q} : watchlistReq'[r] = Wl!Unalias(ListSymbols, r)
  OBVIOUS
<1>4. /\ watchlistReq[q].pc = "idle" /\ watchlistBooted
      /\ UNCHANGED <<watchlistLoadError, watchlistFile, watchlistLegacy, watchlistSaver,
                     watchlistBooted, watchlistLoads, watchlistLoaded, watchlistTainted,
                     watchlistAcked>>
  OBVIOUS
<1> HIDE DEF row, Wl!Reset, Wl!Enter
<1>5. watchlistReq' \in [ListRequests -> ReqShape]
  <2>1. \A r \in ListRequests : watchlistReq'[r] \in ReqShape
    BY <1>2, <1>3, UnaliasKeeps
  <2> QED BY <1>3, <2>1
<1>6. \A t \in ListSymbols : watchlistMem'[t] # watchlistMem[t] => Owns(q, t)'
  BY <1>1, <1>2, <1>3 DEF Owns, Wl!Popped
<1> QED BY <1>1, <1>2, <1>3, <1>4, <1>5, <1>6, UnaliasKeeps, EntryKeeps

\* The steps of a save do not change memory.
LEMMA SaveBeginKeeps ==
    ASSUME ListInv, NEW q \in ListRequests, Wl!SaveBegin(q)
    PROVE  ListInv'
<1> USE SameReq DEF ListInv, Wl!SaveBegin
<1>1. ASSUME NEW r \in ListRequests
      PROVE  /\ watchlistReq'[r] \in ReqShape
             /\ watchlistReq'[r].kind = watchlistReq[r].kind
             /\ watchlistReq'[r].sym = watchlistReq[r].sym
             /\ watchlistReq'[r].val = watchlistReq[r].val
             /\ watchlistReq'[r].prev = watchlistReq[r].prev
             /\ watchlistReq'[r].alias = watchlistReq[r].alias
             /\ r # q => watchlistReq'[r] = watchlistReq[r]
  BY DEF ReqShape
<1>2. /\ watchlistReq' = [r \in ListRequests |-> watchlistReq'[r]]
      /\ \/ /\ watchlistReq'[q].pc = "undo" /\ UNCHANGED watchlistSaver
         \/ /\ watchlistReq'[q].pc = "write" /\ watchlistReq'[q].snap = watchlistMem
            /\ watchlistSaver = Absent /\ watchlistSaver' = q /\ ~watchlistLoadError
  BY DEF ReqShape
<1>3. /\ watchlistReq[q].pc = "save"
      /\ UNCHANGED <<watchlistMem, watchlistLoadError, watchlistFile, watchlistLegacy,
                     watchlistBooted, watchlistLoads, watchlistLoaded, watchlistTainted,
                     watchlistAcked>>
  OBVIOUS
<1> HIDE DEF Wl!SaveBegin
<1>4. Wl!TypeOK'
  <2>1. watchlistReq' \in [ListRequests -> ReqShape]
    BY <1>1, <1>2
  <2>2. watchlistSaver' \in ListRequests \cup {Absent}
    BY <1>2 DEF Wl!TypeOK
  <2> QED BY <1>3, <2>1, <2>2 DEF Wl!TypeOK, ReqShape
<1>5. WriterHasLock'
  <2>1. watchlistReq'[q].pc = "write" => watchlistLoaded
    BY <1>2, <1>3 DEF UnreadIsRefused
  <2>2. watchlistSaver = Absent => \A r \in ListRequests : watchlistReq[r].pc # "write"
    BY ListAssumption DEF WriterHasLock
  <2> QED BY <1>1, <1>2, <1>3, <2>1, <2>2 DEF WriterHasLock
<1>6. IdleIsFresh' /\ UnreadIsRefused'
  BY <1>1, <1>2, <1>3 DEF IdleIsFresh, UnreadIsRefused
<1>7. \A r \in ListRequests, s \in ListSymbols : Owns(r, s)' <=> Owns(r, s)
  BY <1>1, <1>3 DEF Owns, Wl!Popped
<1>8. ChangeHasOwner'
  <2>1. \A s \in ListSymbols : OwnedOrWritten(s) => OwnedOrWritten(s)'
    BY <1>1, <1>2, <1>7 DEF OwnedOrWritten, Pending
  <2>2. \A s : Stored(s)' = Stored(s)
    BY <1>3 DEF Stored
  <2> QED BY <1>3, <2>1, <2>2 DEF ChangeHasOwner
<1>9. OldSnapshotHasOwner'
  <2>1. ASSUME NEW r \in ListRequests, watchlistReq'[r].pc = "write", r # q
        PROVE  watchlistReq'[q].pc = "undo"
    BY <1>1, <1>2, <2>1, ListAssumption DEF WriterHasLock
  <2>2. ASSUME NEW s \in ListSymbols, watchlistReq'[q].pc = "undo"
        PROVE  Owned(s) => Owned(s)'
    BY <1>1, <1>7, <2>2 DEF Owned, Pending
  <2>3. watchlistReq'[q].pc = "write" => watchlistReq'[q].snap = watchlistMem'
    BY <1>2, <1>3
  <2> QED BY <1>1, <1>3, <2>1, <2>2, <2>3 DEF OldSnapshotHasOwner
<1> QED BY <1>4, <1>5, <1>6, <1>8, <1>9

\* A request goes on from its write, or to its end.
LEMMA WriteKeeps ==
    ASSUME ListInv, NEW q \in ListRequests, Wl!WriteOk(q) \/ Wl!WriteFails(q)
    PROVE  ListInv'
<1> USE SameReq DEF ListInv
<1>1. /\ watchlistReq[q].pc = "write"
      /\ watchlistSaver' = Absent
      /\ UNCHANGED <<watchlistMem, watchlistLoadError, watchlistLegacy, watchlistBooted,
                     watchlistLoads, watchlistLoaded, watchlistTainted, watchlistAcked>>
      /\ \/ watchlistReq' = [watchlistReq EXCEPT ![q].pc = "publish"]
               /\ watchlistFile' = watchlistReq[q].snap
         \/ watchlistReq' = [watchlistReq EXCEPT ![q].pc = "undo"]
               /\ watchlistFile' = watchlistFile
  BY DEF Wl!WriteOk, Wl!WriteFails
<1>2. ASSUME NEW r \in ListRequests
      PROVE  /\ watchlistReq'[r] \in ReqShape
             /\ watchlistReq'[r].kind = watchlistReq[r].kind
             /\ watchlistReq'[r].sym = watchlistReq[r].sym
             /\ watchlistReq'[r].val = watchlistReq[r].val
             /\ watchlistReq'[r].prev = watchlistReq[r].prev
             /\ watchlistReq'[r].snap = watchlistReq[r].snap
             /\ watchlistReq'[r].alias = watchlistReq[r].alias
             /\ r # q => watchlistReq'[r] = watchlistReq[r]
  BY <1>1 DEF ReqShape
<1>3. /\ watchlistReq' \in [ListRequests -> ReqShape]
      /\ \/ watchlistReq'[q].pc = "publish" /\ watchlistFile' = watchlistReq[q].snap
         \/ watchlistReq'[q].pc = "undo" /\ watchlistFile' = watchlistFile
  <2>1. watchlistReq' = [r \in ListRequests |-> watchlistReq'[r]]
    BY <1>1
  <2> QED BY <1>1, <1>2, <2>1 DEF ReqShape
<1>4. \A r \in ListRequests : watchlistReq'[r].pc # "write"
  BY <1>1, <1>2, <1>3 DEF WriterHasLock
<1>5. Wl!TypeOK'
  <2>1. watchlistFile' \in Wl!Contents \cup {NoFile}
    BY <1>3 DEF Wl!TypeOK, ReqShape
  <2> QED BY <1>1, <1>3, <2>1 DEF Wl!TypeOK, ReqShape
<1>6. WriterHasLock' /\ OldSnapshotHasOwner'
  BY <1>4 DEF WriterHasLock, OldSnapshotHasOwner
<1>7. IdleIsFresh'
  BY <1>1, <1>2, <1>3 DEF IdleIsFresh
<1>8. UnreadIsRefused'
  <2>1. watchlistLoaded /\ watchlistBooted
    BY <1>1 DEF WriterHasLock, UnreadIsRefused
  <2> QED BY <1>1, <2>1 DEF UnreadIsRefused
<1>9. \A r \in ListRequests, s \in ListSymbols : Owns(r, s)' <=> Owns(r, s)
  BY <1>1, <1>2 DEF Owns, Wl!Popped
<1>10. ChangeHasOwner'
  <2>1. CASE watchlistReq'[q].pc = "undo" /\ watchlistFile' = watchlistFile
    <3>1. \A s \in ListSymbols : OwnedOrWritten(s) => OwnedOrWritten(s)'
      BY <1>1, <1>2, <1>9, <2>1 DEF OwnedOrWritten, Pending
    <3>2. \A s : Stored(s)' = Stored(s)
      BY <2>1 DEF Stored
    <3> QED BY <1>1, <3>1, <3>2 DEF ChangeHasOwner
  <2>2. CASE watchlistReq'[q].pc = "publish" /\ watchlistFile' = watchlistReq[q].snap
    <3>1. watchlistReq[q].snap # NoFile
      BY ListConstants DEF ReqShape
    <3>2. \A s : Stored(s)' = watchlistReq[q].snap[s]
      BY <2>2, <3>1 DEF Stored
    <3>3. \A s \in ListSymbols : Owned(s) => OwnedOrWritten(s)'
      BY <1>1, <1>2, <1>9 DEF Owned, OwnedOrWritten, Pending
    <3> QED BY <1>1, <3>2, <3>3 DEF ChangeHasOwner, OldSnapshotHasOwner
  <2> QED BY <1>3, <2>1, <2>2
<1> QED BY <1>5, <1>6, <1>7, <1>8, <1>10

LEMMA PublishKeeps ==
    ASSUME ListInv, NEW q \in ListRequests, Wl!Publish(q)
    PROVE  ListInv'
<1> USE SameReq DEF ListInv
<1>1. /\ watchlistReq[q].pc = "publish"
      /\ watchlistReq' = [watchlistReq EXCEPT ![q].pc = "done"]
      /\ UNCHANGED <<watchlistMem, watchlistLoadError, watchlistFile, watchlistLegacy,
                     watchlistSaver, watchlistBooted, watchlistLoads, watchlistLoaded,
                     watchlistTainted>>
      /\ watchlistAcked' \in [ListRequests -> {"none", "saved", "unsaved"}]
  BY DEF Wl!Publish, Wl!TypeOK
<1>2. ASSUME NEW r \in ListRequests
      PROVE  /\ watchlistReq'[r] \in ReqShape
             /\ watchlistReq'[r].kind = watchlistReq[r].kind
             /\ watchlistReq'[r].sym = watchlistReq[r].sym
             /\ watchlistReq'[r].val = watchlistReq[r].val
             /\ watchlistReq'[r].prev = watchlistReq[r].prev
             /\ watchlistReq'[r].snap = watchlistReq[r].snap
             /\ watchlistReq'[r].alias = watchlistReq[r].alias
             /\ r # q => watchlistReq'[r] = watchlistReq[r]
  BY <1>1 DEF ReqShape
<1>3. watchlistReq' \in [ListRequests -> ReqShape] /\ watchlistReq'[q].pc = "done"
  <2>1. watchlistReq' = [r \in ListRequests |-> watchlistReq'[r]]
    BY <1>1
  <2> QED BY <1>1, <1>2, <2>1 DEF ReqShape
<1>4. Wl!TypeOK'
  BY <1>1, <1>3 DEF Wl!TypeOK, ReqShape
<1>5. WriterHasLock' /\ IdleIsFresh' /\ UnreadIsRefused'
  BY <1>1, <1>2, <1>3 DEF WriterHasLock, IdleIsFresh, UnreadIsRefused
<1>6. \A s \in ListSymbols :
         (Owned(s) => Owned(s)') /\ (OwnedOrWritten(s) => OwnedOrWritten(s)')
  BY <1>1, <1>2 DEF Owned, OwnedOrWritten, Owns, Wl!Popped, Pending
<1>7. ChangeHasOwner'
  <2>1. \A s : Stored(s)' = Stored(s)
    BY <1>1 DEF Stored
  <2> QED BY <1>1, <1>6, <2>1 DEF ChangeHasOwner
<1>8. OldSnapshotHasOwner'
  BY <1>1, <1>2, <1>3, <1>6 DEF OldSnapshotHasOwner
<1> QED BY <1>4, <1>5, <1>7, <1>8

\* An undo takes nothing back that nobody marks: the change of a symbol it left
\* alone belongs to another.
LEMMA UndoKeeps ==
    ASSUME ListInv, NEW q \in ListRequests, Wl!Undo(q)
    PROVE  ListInv'
<1> DEFINE undone == Wl!Undone(q)
           changed == {s \in ListSymbols : watchlistMem[s] # undone[s]}
<1> USE SameReq DEF ListInv
<1>1. /\ watchlistReq[q].pc = "undo" /\ watchlistMem' = undone
      /\ watchlistTainted' = watchlistTainted \cup changed
      /\ watchlistReq' = [r \in ListRequests |-> watchlistReq'[r]]
      /\ watchlistReq'[q] = [watchlistReq[q] EXCEPT !.pc = "done"]
      /\ \A r \in ListRequests \ {q} : watchlistReq'[r] = Wl!Unalias(changed, r)
      /\ UNCHANGED <<watchlistLoadError, watchlistFile, watchlistLegacy, watchlistSaver,
                     watchlistBooted, watchlistLoads, watchlistLoaded, watchlistAcked>>
  BY DEF Wl!Undo
<1>2. /\ undone \in Wl!Contents
      /\ \A s \in ListSymbols :
            undone[s] = IF Wl!Popped(q, s) \/ watchlistMem[s] = Absent
                        THEN watchlistReq[q].prev[s] ELSE watchlistMem[s]
  <2>1. watchlistReq[q].prev \in Wl!Contents
    BY DEF ReqShape
  <2> QED BY <2>1 DEF Wl!Undone, Wl!Contents
<1> HIDE DEF undone, changed
<1>3. ASSUME NEW r \in ListRequests \ {q}
      PROVE  /\ watchlistReq'[r] \in ReqShape
             /\ watchlistReq'[r].pc = watchlistReq[r].pc
             /\ watchlistReq'[r].kind = watchlistReq[r].kind
             /\ watchlistReq'[r].sym = watchlistReq[r].sym
             /\ watchlistReq'[r].val = watchlistReq[r].val
             /\ watchlistReq'[r].prev = watchlistReq[r].prev
             /\ watchlistReq'[r].snap = watchlistReq[r].snap
             /\ ~watchlistReq[r].alias => ~watchlistReq'[r].alias
  <2>1. watchlistReq'[r] = Wl!Unalias(changed, r)
    BY <1>1
  <2> QED BY <2>1, UnaliasKeeps
<1>4. watchlistReq'[q] \in ReqShape /\ watchlistReq'[q].pc = "done"
  BY <1>1 DEF ReqShape
<1>5. Wl!TypeOK'
  <2>1. watchlistReq' \in [ListRequests -> ReqShape]
    BY <1>1, <1>3, <1>4
  <2>2. watchlistTainted' \subseteq ListSymbols
    BY <1>1 DEF Wl!TypeOK, changed
  <2> QED BY <1>1, <1>2, <2>1, <2>2 DEF Wl!TypeOK, ReqShape
<1>6. WriterHasLock' /\ IdleIsFresh'
  BY <1>1, <1>3, <1>4 DEF WriterHasLock, IdleIsFresh
<1>7. UnreadIsRefused'
  BY <1>1 DEF UnreadIsRefused
<1>8. ASSUME NEW s \in ListSymbols \ watchlistTainted'
      PROVE  /\ s \notin watchlistTainted /\ watchlistMem'[s] = watchlistMem[s] /\ ~Owns(q, s)
  BY <1>1, <1>2, <1>8 DEF Owns, changed
<1>9. ASSUME NEW s \in ListSymbols \ watchlistTainted'
      PROVE  (Owned(s) => Owned(s)') /\ (OwnedOrWritten(s) => OwnedOrWritten(s)')
  <2>1. \A r \in ListRequests \ {q} : Owns(r, s) => Owns(r, s)'
    BY <1>3, <1>8 DEF Owns, Wl!Popped
  <2> QED BY <1>3, <1>8, <2>1 DEF Owned, OwnedOrWritten, Pending
<1>10. ChangeHasOwner'
  <2>1. \A s : Stored(s)' = Stored(s)
    BY <1>1 DEF Stored
  <2> QED BY <1>1, <1>8, <1>9, <2>1 DEF ChangeHasOwner
<1>11. OldSnapshotHasOwner'
  <2>1. ASSUME NEW r \in ListRequests, NEW s \in ListSymbols \ watchlistTainted',
               watchlistReq'[r].pc = "write", watchlistReq'[r].snap[s] # watchlistMem'[s]
        PROVE  Owned(s)'
    <3>1. r # q
      BY <1>4, <2>1
    <3>2. watchlistReq[r].pc = "write" /\ watchlistReq[r].snap[s] # watchlistMem[s]
      BY <1>3, <1>8, <2>1, <3>1
    <3> QED BY <1>8, <1>9, <3>2 DEF OldSnapshotHasOwner
  <2> QED BY <2>1 DEF OldSnapshotHasOwner
<1> QED BY <1>5, <1>6, <1>7, <1>10, <1>11

\* A reload makes memory the file; what that changes is marked.
LEMMA LoadKeeps ==
    ASSUME ListInv, Wl!Load
    PROVE  ListInv'
<1> USE SameReq DEF ListInv
<1>1. watchlistLoads' \in 0 .. ListLoads
  <2>1. Wl!LoadTurn
    BY DEF Wl!Load, Wl!LoadNothing, Wl!LoadOk, Wl!LoadFails
  <2> QED BY <2>1, ListAssumption DEF Wl!LoadTurn, Wl!TypeOK
<1>2. CASE Wl!LoadNothing
  <2>1. Wl!TypeOK'
    BY <1>1, <1>2 DEF Wl!LoadNothing, Wl!TypeOK
  <2>2. WriterHasLock' /\ IdleIsFresh' /\ UnreadIsRefused'
    BY <1>2 DEF Wl!LoadNothing, WriterHasLock, IdleIsFresh, UnreadIsRefused
  <2>3. UNCHANGED <<watchlistMem, watchlistFile, watchlistReq, watchlistTainted>>
    BY <1>2 DEF Wl!LoadNothing
  <2>4. /\ OldSnapshotHasOwner'
        /\ \A s \in ListSymbols :
              Stored(s)' = Stored(s) /\ (OwnedOrWritten(s) => OwnedOrWritten(s)')
    BY <2>3 DEF OldSnapshotHasOwner, Owned, OwnedOrWritten, Owns, Wl!Popped, Pending, Stored
  <2>5. ASSUME watchlistLoaded PROVE ChangeHasOwner'
    BY <2>3, <2>4, <2>5 DEF ChangeHasOwner
  <2>6. ASSUME ~watchlistLoaded PROVE ChangeHasOwner'
    <3>1. watchlistMem = Wl!Empty /\ watchlistFile = NoFile
      BY <1>2, <2>6 DEF Wl!LoadNothing, UnreadIsRefused
    <3>2. \A s \in ListSymbols : watchlistMem'[s] = Absent /\ Stored(s)' = Absent
      BY <2>3, <3>1, ListConstants DEF Stored
    <3> QED BY <3>2 DEF ChangeHasOwner
  <2> QED BY <2>1, <2>2, <2>4, <2>5, <2>6
<1>3. CASE Wl!LoadFails
  <2>1. UNCHANGED <<watchlistMem, watchlistFile, watchlistReq, watchlistTainted, watchlistLoaded>>
    BY <1>3 DEF Wl!LoadFails
  <2>2. Wl!TypeOK'
    BY <1>1, <1>3 DEF Wl!LoadFails, Wl!TypeOK
  <2>3. WriterHasLock' /\ IdleIsFresh' /\ UnreadIsRefused'
    BY <1>3 DEF Wl!LoadFails, WriterHasLock, IdleIsFresh, UnreadIsRefused
  <2>4. ChangeHasOwner' /\ OldSnapshotHasOwner'
    BY <2>1 DEF ChangeHasOwner, OldSnapshotHasOwner, Owned, OwnedOrWritten, Owns, Wl!Popped,
         Pending, Stored
  <2> QED BY <2>2, <2>3, <2>4
<1>4. CASE Wl!LoadOk
  <2>1. /\ watchlistMem' = watchlistFile' /\ watchlistMem' \in Wl!Contents
        /\ watchlistLoaded' /\ watchlistBooted'
        /\ watchlistLegacy' \in BOOLEAN /\ watchlistLoadError' \in BOOLEAN
        /\ watchlistTainted' =
              watchlistTainted \cup {s \in ListSymbols : watchlistMem[s] # watchlistMem'[s]}
        /\ watchlistReq' = [r \in ListRequests |-> Wl!Unalias(ListSymbols, r)]
        /\ UNCHANGED <<watchlistSaver, watchlistAcked>>
    BY <1>4, ListConstants DEF Wl!LoadOk, Wl!Migrated, Wl!TypeOK
  <2>2. ASSUME NEW r \in ListRequests
        PROVE  /\ watchlistReq'[r] \in ReqShape
               /\ watchlistReq'[r].pc = watchlistReq[r].pc
               /\ watchlistReq'[r].kind = watchlistReq[r].kind
               /\ watchlistReq'[r].sym = watchlistReq[r].sym
               /\ watchlistReq'[r].val = watchlistReq[r].val
               /\ watchlistReq'[r].prev = watchlistReq[r].prev
               /\ watchlistReq'[r].snap = watchlistReq[r].snap
               /\ ~watchlistReq[r].alias => ~watchlistReq'[r].alias
    BY <2>1, UnaliasKeeps
  <2>3. Wl!TypeOK'
    <3>1. watchlistReq' \in [ListRequests -> ReqShape]
      BY <2>1, <2>2
    <3>2. watchlistTainted' \subseteq ListSymbols /\ watchlistBooted' \in BOOLEAN
             /\ watchlistLoaded' \in BOOLEAN
      BY <1>4, <2>1 DEF Wl!TypeOK, Wl!LoadOk
    <3> QED BY <1>1, <2>1, <3>1, <3>2 DEF Wl!TypeOK, ReqShape
  <2>4. WriterHasLock' /\ IdleIsFresh' /\ UnreadIsRefused'
    BY <2>1, <2>2 DEF WriterHasLock, IdleIsFresh, UnreadIsRefused
  <2>5. ChangeHasOwner'
    <3>1. \A s : Stored(s)' = watchlistMem'[s]
      BY <2>1, ListConstants DEF Stored
    <3> QED BY <3>1 DEF ChangeHasOwner
  <2>6. OldSnapshotHasOwner'
    <3>1. ASSUME NEW s \in ListSymbols \ watchlistTainted'
          PROVE  s \notin watchlistTainted /\ watchlistMem'[s] = watchlistMem[s]
      BY <2>1, <3>1
    <3>2. ASSUME NEW s \in ListSymbols \ watchlistTainted'
          PROVE  Owned(s) => Owned(s)'
      BY <2>2, <3>1 DEF Owned, Owns, Wl!Popped, Pending
    <3> QED BY <2>2, <3>1, <3>2 DEF OldSnapshotHasOwner
  <2> QED BY <2>3, <2>4, <2>5, <2>6
<1> QED BY <1>2, <1>3, <1>4 DEF Wl!Load

LEMMA ListNext == ASSUME ListInv, [Wl!Next]_(Wl!vars) PROVE ListInv'
<1>1. CASE UNCHANGED Wl!vars
  BY <1>1 DEF Wl!vars, ListInv, Wl!TypeOK, WriterHasLock, IdleIsFresh, UnreadIsRefused,
       ChangeHasOwner, OldSnapshotHasOwner, Owned, OwnedOrWritten, Owns, Wl!Popped, Pending, Stored
<1>2. ASSUME NEW q \in ListRequests, Wl!RequestStep(q)
      PROVE  ListInv'
  BY <1>2, AddKeeps, UpdateEntryKeeps, DeleteKeeps, ResetKeeps, SaveBeginKeeps, WriteKeeps,
     UndoKeeps, PublishKeeps DEF Wl!RequestStep, Wl!AddFromExtension
<1> QED BY <1>1, <1>2, LoadKeeps DEF Wl!Next

\* Until the portfolio on disk was read it stays as it is: only a save writes the
\* file, and before the first good load none gets as far.
LEMMA UnreadStays ==
    ASSUME ListInv, Wl!Next, ~watchlistLoaded, watchlistLegacy \/ watchlistFile # NoFile
    PROVE  watchlistLoaded' \/ UNCHANGED <<watchlistFile, watchlistLegacy>>
<1>1. \A q \in ListRequests : ~Wl!WriteOk(q)
  BY DEF ListInv, WriterHasLock, Wl!WriteOk
<1>2. ASSUME NEW q \in ListRequests, Wl!RequestStep(q)
      PROVE  UNCHANGED <<watchlistFile, watchlistLegacy>>
  BY <1>1, <1>2 DEF Wl!RequestStep, Wl!Add, Wl!AddFromExtension, Wl!Update, Wl!Delete, Wl!Reset,
       Wl!Enter, Wl!SaveBegin, Wl!WriteFails, Wl!Undo, Wl!Publish
<1>3. Wl!Load => watchlistLoaded' \/ UNCHANGED <<watchlistFile, watchlistLegacy>>
  BY DEF Wl!Load, Wl!LoadNothing, Wl!LoadOk, Wl!LoadFails
<1> QED BY <1>2, <1>3 DEF Wl!Next

\* The portfolio on disk is not overwritten before it was read, and overlapping
\* saves leave no older snapshot there (storage.py, portfolio.py).
THEOREM UnreadIsKeptHolds == Wl!Spec => UnreadIsKept
<1>1. ListInv => Wl!TypeOK /\ Wl!QuietFileMatches
  <2> SUFFICES ASSUME ListInv PROVE Wl!QuietFileMatches
    BY DEF ListInv
  <2>1. ASSUME watchlistLoaded, \A r \in ListRequests : ~Wl!Open(r),
               NEW s \in ListSymbols \ watchlistTainted
        PROVE  watchlistMem[s] = Stored(s)
    <3>1. ~OwnedOrWritten(s)
      BY <2>1 DEF OwnedOrWritten, Pending, Wl!Open
    <3> QED BY <2>1, <3>1 DEF ListInv, ChangeHasOwner
  <2> QED BY <2>1 DEF Wl!QuietFileMatches, Stored
<1>2. ListInv /\ [Wl!Next]_(Wl!vars)
        => [~watchlistLoaded /\ (watchlistLegacy \/ watchlistFile # NoFile)
              => (watchlistLoaded' \/ UNCHANGED <<watchlistFile, watchlistLegacy>>)]_(Wl!vars)
  BY UnreadStays
<1> QED BY InitList, ListNext, <1>1, <1>2, PTL DEF Wl!Spec, UnreadIsKept, Wl!UnreadIsKept

(***************************************************************************)
(* The workers of the realtime engine.  A PTS worker that lives is the     *)
(* thread the engine knows, which start looks at; of TradingView's only    *)
(* the last one spawned was given the newest epoch.                        *)
(***************************************************************************)
WorkerRow == [pc : {"dead", "born", "work", "leave", "replace"}, current : BOOLEAN]
WorkerTypes ==
    /\ workersOn \in [Rw!Producers -> BOOLEAN]
    /\ workersThread \in [Rw!Producers -> WorkerSlots \cup {Rw!None}]
    /\ workersWorker \in [Rw!Producers -> [WorkerSlots -> WorkerRow]]
KnownLives == \A i \in WorkerSlots : Rw!Alive("pts", i) => workersThread["pts"] = i
OneGivenEpoch ==
    \A i, j \in WorkerSlots :
        workersWorker["tv"][i].current /\ workersWorker["tv"][j].current => i = j
WorkersInv == WorkerTypes /\ KnownLives /\ OneGivenEpoch

LEMMA InitWorkers == Rw!Init => WorkersInv
<1> SUFFICES ASSUME Rw!Init PROVE WorkersInv
  OBVIOUS
<1>1. Rw!Dead \in WorkerRow /\ Rw!Dead.pc = "dead" /\ ~Rw!Dead.current
  BY DEF Rw!Dead, WorkerRow
<1>2. \A p \in Rw!Producers, i \in WorkerSlots : workersWorker[p][i] = Rw!Dead
  BY DEF Rw!Init
<1>3. "pts" \in Rw!Producers /\ "tv" \in Rw!Producers
  BY DEF Rw!Producers
<1>4. WorkerTypes
  BY <1>1 DEF Rw!Init, WorkerTypes
<1> QED BY <1>1, <1>2, <1>3, <1>4 DEF WorkersInv, KnownLives, OneGivenEpoch, Rw!Alive

\* epoch += 1 leaves every thread as it is and none with the newest epoch.
LEMMA OutdatedIsNone ==
    ASSUME WorkersInv, NEW p \in Rw!Producers
    PROVE  /\ Rw!Outdated(p) \in [WorkerSlots -> WorkerRow]
           /\ \A i \in WorkerSlots :
                 Rw!Outdated(p)[i].pc = workersWorker[p][i].pc /\ ~Rw!Outdated(p)[i].current
<1>1. \A row \in WorkerRow :
         /\ [row EXCEPT !.current = FALSE] \in WorkerRow
         /\ [row EXCEPT !.current = FALSE].pc = row.pc
         /\ ~[row EXCEPT !.current = FALSE].current
  BY DEF WorkerRow
<1>2. \A i \in WorkerSlots : workersWorker[p][i] \in WorkerRow
  BY DEF WorkersInv, WorkerTypes
<1>3. \A i \in WorkerSlots :
         Rw!Outdated(p)[i] = [workersWorker[p][i] EXCEPT !.current = FALSE]
  BY DEF Rw!Outdated
<1>4. PICK F : F = Rw!Outdated(p)
  OBVIOUS
<1>5. DOMAIN F = WorkerSlots /\ F = [i \in DOMAIN F |-> F[i]]
  BY <1>4 DEF Rw!Outdated
<1>6. ASSUME NEW i \in WorkerSlots
      PROVE  /\ Rw!Outdated(p)[i] \in WorkerRow
             /\ Rw!Outdated(p)[i].pc = workersWorker[p][i].pc
             /\ ~Rw!Outdated(p)[i].current
  <2> DEFINE row == workersWorker[p][i]
  <2>1. row \in WorkerRow /\ Rw!Outdated(p)[i] = [row EXCEPT !.current = FALSE]
    BY <1>2, <1>3
  <2> HIDE DEF row
  <2> QED BY <1>1, <2>1 DEF row
<1>7. Rw!Outdated(p) \in [WorkerSlots -> WorkerRow]
  <2>1. F \in [WorkerSlots -> WorkerRow]
    BY <1>4, <1>5, <1>6
  <2> QED BY <1>4, <2>1
<1> QED BY <1>6, <1>7

\* What a new thread is, and what it makes of the others.
LEMMA SpawnedIsOne ==
    ASSUME WorkersInv, NEW p \in Rw!Producers, Rw!HasFree(p)
    PROVE  /\ Rw!Free(p) \in WorkerSlots /\ ~Rw!Alive(p, Rw!Free(p))
           /\ Rw!Spawned(p) \in [WorkerSlots -> WorkerRow]
           /\ Rw!Spawned(p)[Rw!Free(p)] = [pc |-> "born", current |-> p = "tv"]
           /\ \A i \in WorkerSlots \ {Rw!Free(p)} :
                 /\ Rw!Spawned(p)[i].pc = workersWorker[p][i].pc
                 /\ ~Rw!Spawned(p)[i].current
<1>1. Rw!Free(p) \in WorkerSlots /\ ~Rw!Alive(p, Rw!Free(p))
  BY DEF Rw!HasFree, Rw!Free
<1>2. [pc |-> "born", current |-> p = "tv"] \in WorkerRow
  BY DEF WorkerRow
<1>3. /\ Rw!Outdated(p) \in [WorkerSlots -> WorkerRow]
      /\ \A i \in WorkerSlots :
            Rw!Outdated(p)[i].pc = workersWorker[p][i].pc /\ ~Rw!Outdated(p)[i].current
  BY OutdatedIsNone
<1> QED BY <1>1, <1>2, <1>3 DEF Rw!Spawned

LEMMA WorkerStepKeeps ==
    ASSUME WorkersInv, NEW p \in Rw!Producers, NEW i \in WorkerSlots,
           Rw!Begin(p, i) \/ Rw!Leave(p, i) \/ Rw!Crash(p, i)
               \/ (p = "tv" /\ Rw!TvLeaves(i))
    PROVE  WorkersInv'
<1> USE DEF WorkersInv, WorkerTypes
<1>1. "pts" \in Rw!Producers /\ "tv" \in Rw!Producers
  BY DEF Rw!Producers
<1>2. /\ workersOn' \in [Rw!Producers -> BOOLEAN]
      /\ workersThread' \in [Rw!Producers -> WorkerSlots \cup {Rw!None}]
      /\ workersThread'["pts"] = workersThread["pts"]
  BY <1>1 DEF Rw!Begin, Rw!Leave, Rw!Crash, Rw!TvLeaves
<1>3. PICK row \in WorkerRow :
          /\ workersWorker' = [workersWorker EXCEPT ![p][i] = row]
          /\ p = "tv" => row.current = workersWorker[p][i].current
          /\ row.pc # "dead" => workersWorker[p][i].pc # "dead"
  <2>1. workersWorker[p][i] \in WorkerRow
    OBVIOUS
  <2>2. \A how \in {"dead", "leave", "replace"} :
           /\ [workersWorker[p][i] EXCEPT !.pc = how] \in WorkerRow
           /\ [workersWorker[p][i] EXCEPT !.pc = how].current = workersWorker[p][i].current
    BY <2>1 DEF WorkerRow
  <2>3. CASE Rw!Begin(p, i)
    <3> DEFINE row == [pc |-> "work", current |-> p # "tv" \/ workersWorker[p][i].current]
    <3>1. row \in WorkerRow /\ (p = "tv" => row.current = workersWorker[p][i].current)
      BY <2>1 DEF WorkerRow
    <3> QED BY <2>3, <3>1 DEF Rw!Begin
  <2>4. CASE Rw!Leave(p, i) \/ Rw!Crash(p, i)
    BY <2>2, <2>4 DEF Rw!Leave, Rw!Crash
  <2>5. CASE p = "tv" /\ Rw!TvLeaves(i)
    BY <2>2, <2>5 DEF Rw!TvLeaves
  <2> QED BY <2>3, <2>4, <2>5
<1>4. WorkerTypes'
  BY <1>2, <1>3
<1>5. \A j \in WorkerSlots :
         /\ Rw!Alive("pts", j)' => Rw!Alive("pts", j)
         /\ workersWorker'["tv"][j].current = workersWorker["tv"][j].current
  BY <1>1, <1>3 DEF Rw!Alive
<1> QED BY <1>2, <1>4, <1>5 DEF KnownLives, OneGivenEpoch

LEMMA TvReplacesKeeps ==
    ASSUME WorkersInv, NEW i \in WorkerSlots, Rw!TvReplaces(i)
    PROVE  WorkersInv'
<1> USE DEF WorkersInv, WorkerTypes
<1>1. "pts" \in Rw!Producers /\ "tv" \in Rw!Producers
  BY DEF Rw!Producers
<1>2. Rw!Dead \in WorkerRow /\ ~Rw!Dead.current
  BY DEF Rw!Dead, WorkerRow
<1>3. PICK tv \in [WorkerSlots -> WorkerRow] :
          /\ workersWorker' = [workersWorker EXCEPT !["tv"] = tv]
          /\ \A j, k \in WorkerSlots : tv[j].current /\ tv[k].current => j = k
  <2>1. CASE workersOn["tv"] /\ workersThread["tv"] = Rw!None
    <3> DEFINE tv == [Rw!Spawned("tv") EXCEPT ![i] = Rw!Dead]
    <3>1. Rw!HasFree("tv") /\ workersWorker' = [workersWorker EXCEPT !["tv"] = tv]
      BY <2>1 DEF Rw!TvReplaces
    <3>2. /\ tv \in [WorkerSlots -> WorkerRow]
          /\ \A j, k \in WorkerSlots : tv[j].current /\ tv[k].current => j = k
      BY <1>1, <1>2, <3>1, SpawnedIsOne
    <3> QED BY <3>1, <3>2
  <2>2. CASE ~(workersOn["tv"] /\ workersThread["tv"] = Rw!None)
    <3> DEFINE tv == [workersWorker["tv"] EXCEPT ![i] = Rw!Dead]
    <3>1. workersWorker' = [workersWorker EXCEPT !["tv"] = tv]
      BY <2>2 DEF Rw!TvReplaces
    <3>2. tv \in [WorkerSlots -> WorkerRow]
      BY <1>1, <1>2
    <3>3. \A j, k \in WorkerSlots : tv[j].current /\ tv[k].current => j = k
      BY <1>1, <1>2 DEF OneGivenEpoch
    <3> QED BY <3>1, <3>2, <3>3
  <2> QED BY <2>1, <2>2
<1>4. /\ workersThread' \in [Rw!Producers -> WorkerSlots \cup {Rw!None}]
      /\ workersThread'["pts"] = workersThread["pts"] /\ workersOn' = workersOn
  BY <1>1, SpawnedIsOne DEF Rw!TvReplaces
<1> QED BY <1>1, <1>3, <1>4 DEF KnownLives, OneGivenEpoch, Rw!Alive

LEMMA EngineStartKeeps == ASSUME WorkersInv, Rw!Start PROVE WorkersInv'
<1> USE DEF WorkersInv, WorkerTypes
<1>1. "pts" \in Rw!Producers /\ "tv" \in Rw!Producers
  BY DEF Rw!Producers
<1>2. CASE UNCHANGED <<workersOn, workersThread, workersWorker>>
  BY <1>2 DEF KnownLives, OneGivenEpoch, Rw!Alive
<1>3. CASE ~UNCHANGED <<workersOn, workersThread, workersWorker>>
  <2>1. /\ ~(workersThread["pts"] # Rw!None /\ Rw!Alive("pts", workersThread["pts"]))
        /\ \A p \in Rw!Producers : Rw!Starts(p) => Rw!HasFree(p)
        /\ workersOn' = [p \in Rw!Producers |-> TRUE]
        /\ workersThread' = [p \in Rw!Producers |->
              IF Rw!Starts(p) THEN Rw!Free(p) ELSE workersThread[p]]
        /\ workersWorker' = [p \in Rw!Producers |->
              IF Rw!Starts(p) THEN Rw!Spawned(p) ELSE workersWorker[p]]
    BY <1>3 DEF Rw!Start
  <2>2. ASSUME NEW p \in Rw!Producers, Rw!Starts(p)
        PROVE  /\ Rw!Free(p) \in WorkerSlots /\ Rw!Spawned(p) \in [WorkerSlots -> WorkerRow]
               /\ \A i \in WorkerSlots \ {Rw!Free(p)} :
                     /\ Rw!Spawned(p)[i].pc = workersWorker[p][i].pc
                     /\ ~Rw!Spawned(p)[i].current
    BY <2>1, <2>2, SpawnedIsOne
  <2>3. WorkerTypes'
    BY <2>1, <2>2
  <2>4. \A i \in WorkerSlots : ~Rw!Alive("pts", i)
    BY <2>1, WorkersAssumption DEF KnownLives, Rw!None
  <2>5. KnownLives'
    <3>1. Rw!Starts("pts")
      BY DEF Rw!Starts
    <3>2. workersThread'["pts"] = Rw!Free("pts") /\ workersWorker'["pts"] = Rw!Spawned("pts")
      BY <1>1, <2>1, <3>1
    <3> QED BY <1>1, <2>2, <2>4, <3>1, <3>2 DEF KnownLives, Rw!Alive
  <2>6. OneGivenEpoch'
    <3>1. workersWorker'["tv"] = IF Rw!Starts("tv") THEN Rw!Spawned("tv") ELSE workersWorker["tv"]
      BY <1>1, <2>1
    <3> QED BY <1>1, <2>2, <3>1 DEF OneGivenEpoch
  <2> QED BY <2>3, <2>5, <2>6
<1> QED BY <1>2, <1>3

LEMMA EngineStopKeeps == ASSUME WorkersInv, Rw!Stop \/ Rw!Watch PROVE WorkersInv'
<1> USE DEF WorkersInv, WorkerTypes
<1>1. "pts" \in Rw!Producers /\ "tv" \in Rw!Producers
  BY DEF Rw!Producers
<1>2. CASE UNCHANGED <<workersOn, workersThread, workersWorker>>
  BY <1>2 DEF KnownLives, OneGivenEpoch, Rw!Alive
<1>3. ASSUME NEW p \in Rw!Producers, Rw!TurnOff(p)
      PROVE  WorkersInv'
  <2>1. /\ Rw!Outdated(p) \in [WorkerSlots -> WorkerRow]
        /\ \A i \in WorkerSlots : /\ Rw!Outdated(p)[i].pc = workersWorker[p][i].pc
                                  /\ ~Rw!Outdated(p)[i].current
    BY OutdatedIsNone
  <2>2. /\ workersOn' \in [Rw!Producers -> BOOLEAN] /\ workersThread' = workersThread
        /\ workersWorker' = [workersWorker EXCEPT ![p] = Rw!Outdated(p)]
    BY <1>3 DEF Rw!TurnOff
  <2> QED BY <1>1, <2>1, <2>2 DEF KnownLives, OneGivenEpoch, Rw!Alive
<1>4. ASSUME NEW p \in Rw!Producers, Rw!Join(p)
      PROVE  WorkersInv'
  <2>1. UNCHANGED <<workersOn, workersWorker>>
        /\ workersThread' = [workersThread EXCEPT ![p] =
              IF workersThread[p] # Rw!None /\ Rw!Alive(p, workersThread[p])
              THEN workersThread[p] ELSE Rw!None]
    BY <1>4 DEF Rw!Join
  <2>2. workersThread' \in [Rw!Producers -> WorkerSlots \cup {Rw!None}]
    BY <2>1
  <2>3. KnownLives'
    BY <1>1, <2>1, WorkersAssumption DEF KnownLives, Rw!Alive, Rw!None
  <2> QED BY <2>1, <2>2, <2>3 DEF OneGivenEpoch
<1> QED BY <1>2, <1>3, <1>4 DEF Rw!Stop, Rw!Watch, Rw!Producers

\* At most one TradingView and one PTS worker run with the newest epoch, for any
\* number of threads and crashes (tradingview.py, realtime_engine.py).
THEOREM OneCurrentWorkerHolds == Rw!Spec => []Rw!OneCurrentWorker
<1>1. WorkersInv /\ [Rw!Next]_(Rw!vars) => WorkersInv'
  <2>1. CASE UNCHANGED Rw!vars
    BY <2>1 DEF Rw!vars, WorkersInv, WorkerTypes, KnownLives, OneGivenEpoch, Rw!Alive
  <2> QED BY <2>1, WorkerStepKeeps, TvReplacesKeeps, EngineStartKeeps, EngineStopKeeps
       DEF Rw!Next, Rw!WorkerStep
<1>2. WorkersInv => Rw!OneCurrentWorker
  <2> SUFFICES ASSUME WorkersInv, NEW p \in {"tv", "pts"}
               PROVE  Rw!Cardinality(Rw!Working(p)) <= 1
    BY DEF Rw!OneCurrentWorker
  <2>1. \A i, j \in Rw!Working(p) : i = j
    BY DEF WorkersInv, KnownLives, OneGivenEpoch, Rw!Working, Rw!Alive
  <2>2. Rw!Working(p) = {} \/ \E i \in Rw!Working(p) : Rw!Working(p) = {i}
    BY <2>1
  <2>3. Cardinality(Rw!Working(p)) \in {0, 1}
    BY <2>2, FS_EmptySet, FS_Singleton
  <2>4. Rw!Cardinality(Rw!Working(p)) = Cardinality(Rw!Working(p))
    BY DEF Rw!Cardinality, Cardinality
  <2> QED BY <2>3, <2>4
<1> QED BY InitWorkers, <1>1, <1>2, PTL DEF Rw!Spec

-----------------------------------------------------------------------------
(***************************************************************************)
(* The fetch.  A streak is of a symbol that the provider refused: nothing  *)
(* else counts, so nothing else is removed.  The list and the file never   *)
(* hold two versions of one symbol, and what was removed and not saved is  *)
(* of the file's version unless the user has added the symbol again.       *)
(***************************************************************************)
FetchSyms == {FetchListed[i] : i \in DOMAIN FetchListed}
OncePerSymbol(entries) ==
    \A i, j \in DOMAIN entries : entries[i].sym = entries[j].sym => i = j
SameVersion(entries, others) ==
    \A i \in DOMAIN entries, j \in DOMAIN others :
        entries[i].sym = others[j].sym => entries[i] = others[j]

FetchStages == {"idle", "fetch", "judge", "save", "clean", "merge"}
FetchTypes ==
    /\ fetchList \in Seq(Sf!Entries) /\ fetchFile \in Seq(Sf!Entries)
    /\ fetchRemoved \in Seq(Sf!Entries)
    /\ fetchRows \in [FetchSyms -> {"absent", "placeholder", "priced"}]
    /\ fetchStreak \in [FetchSyms -> 0 .. RemovalThreshold]
    /\ fetchPc \in FetchStages
    /\ fetchItems \in Seq(FetchSyms) /\ fetchResults \in Seq(Sf!Outcomes)
    /\ fetchEdits \in 0 .. FetchEdits /\ fetchOutages \in 0 .. FetchOutages
    /\ fetchDropped \subseteq FetchSyms \cap FetchDead
\* Symbols stand once in the list, the file and what was removed; the three
\* agree in what they share.
ListsAgree ==
    /\ OncePerSymbol(fetchList) /\ OncePerSymbol(fetchFile) /\ OncePerSymbol(fetchRemoved)
    /\ SameVersion(fetchList, fetchFile)
    /\ \A i \in DOMAIN fetchRemoved, j \in DOMAIN fetchFile :
          \/ fetchRemoved[i].sym # fetchFile[j].sym
          \/ fetchRemoved[i] = fetchFile[j]
          \/ fetchRemoved[i].sym \in Sf!SymsOf(fetchList)
\* Only what the provider refuses has a streak, a refusal or was removed.
OnlyDeadCount ==
    /\ \A s \in FetchSyms \ FetchDead : fetchStreak[s] = 0
    /\ Len(fetchResults) <= Len(fetchItems)
    /\ fetchPc \in {"idle", "fetch"} => fetchResults = <<>>
    /\ \A i \in DOMAIN fetchResults : fetchResults[i] = "invalid" => fetchItems[i] \in FetchDead
    /\ Sf!SymsOf(fetchRemoved) \subseteq FetchDead
FetchInv == FetchTypes /\ ListsAgree /\ OnlyDeadCount

LEMMA FetchConstants == Sf!Syms = FetchSyms /\ Sf!Live = FetchSyms \ FetchDead
                        /\ Sf!Versions = 0 .. FetchEdits
  BY DEF Sf!Syms, Sf!Live, Sf!ToSet, FetchSyms, Sf!Versions

LEMMA FetchTypeOK == FetchInv => Sf!TypeOK /\ Sf!LiveStays
<1> SUFFICES ASSUME FetchInv PROVE Sf!TypeOK /\ Sf!LiveStays
  OBVIOUS
<1>1. Sf!IsInjective([i \in DOMAIN fetchList |-> fetchList[i].sym])
  BY DEF FetchInv, ListsAgree, OncePerSymbol, Sf!IsInjective
<1> QED BY <1>1, FetchConstants DEF FetchInv, FetchTypes, FetchStages, Sf!TypeOK, Sf!LiveStays

\* What the fetch keeps of a list is what Places says.
LEMMA FetchItems == \A s, P : Sf!ItemsAt(s, P) = ItemsAt(s, P)
  BY Zenon DEF Sf!ItemsAt, ItemsAt, Sf!NthPlace, NthPlace, Sf!Cardinality, Cardinality

\* Part of a list of entries is entries of it, each once if they were.
LEMMA Part ==
    ASSUME NEW entries \in Seq(Sf!Entries), NEW ss
    PROVE  LET part == Sf!Only(entries, ss)
           IN  /\ part \in Seq(Sf!Entries)
               /\ \A i \in DOMAIN part : part[i].sym \in ss
               /\ \A i \in DOMAIN part : \E j \in DOMAIN entries : part[i] = entries[j]
               /\ OncePerSymbol(entries) => OncePerSymbol(part)
<1> DEFINE P == {i \in DOMAIN entries : entries[i].sym \in ss}
           part == Sf!Only(entries, ss)
           c == Cardinality(P)
<1>1. part = ItemsAt(entries, P)
  BY FetchItems DEF Sf!Only
<1>2. P \in SUBSET DOMAIN entries /\ \A i \in P : entries[i].sym \in ss
  OBVIOUS
<1> HIDE DEF P, c, part
<1>3. /\ part \in Seq(Sf!Entries) /\ DOMAIN part = 1 .. c
      /\ \A m \in 1 .. c : NthPlace(P, m) \in P /\ part[m] = entries[NthPlace(P, m)]
      /\ \A l, m \in 1 .. c : NthPlace(P, l) = NthPlace(P, m) => l = m
  BY <1>1, <1>2, ItemsAre DEF c
<1>4. \A i \in DOMAIN part : part[i].sym \in ss
  BY <1>2, <1>3
<1>5. \A i \in DOMAIN part : \E j \in DOMAIN entries : part[i] = entries[j]
  BY <1>2, <1>3
<1>6. OncePerSymbol(entries) => OncePerSymbol(part)
  BY <1>2, <1>3 DEF OncePerSymbol
<1> QED BY <1>3, <1>4, <1>5, <1>6 DEF part

LEMMA InitFetch == Sf!Init => FetchInv
<1> SUFFICES ASSUME Sf!Init PROVE FetchInv
  OBVIOUS
<1> USE FetchAssumption DEF Sf!Init
<1>1. Len(FetchListed) \in Nat /\ DOMAIN FetchListed = 1 .. Len(FetchListed)
      /\ \A i \in DOMAIN FetchListed : FetchListed[i] \in FetchSyms
  BY DEF FetchSyms
<1>2. 0 \in 0 .. FetchEdits /\ 0 \in 0 .. FetchOutages /\ 0 \in 0 .. RemovalThreshold
  OBVIOUS
<1>3. fetchList \in Seq(Sf!Entries) /\ DOMAIN fetchList = DOMAIN FetchListed
  <2>1. fetchList \in [1 .. Len(FetchListed) -> Sf!Entries]
    BY <1>1, <1>2, FetchConstants DEF Sf!Entries
  <2> QED BY <1>1, <2>1
<1>4. OncePerSymbol(fetchList)
  BY <1>3 DEF OncePerSymbol
<1>5. FetchTypes
  BY <1>2, <1>3, FetchConstants DEF FetchTypes, FetchStages, Sf!Outcomes
<1>6. ListsAgree
  BY <1>4 DEF ListsAgree, OncePerSymbol, SameVersion
<1>7. OnlyDeadCount
  BY FetchConstants DEF OnlyDeadCount, Sf!SymsOf
<1> QED BY <1>5, <1>6, <1>7 DEF FetchInv

\* Part of a list that has each symbol once agrees with it.
LEMMA PartAgrees ==
    ASSUME NEW a \in Seq(Sf!Entries), NEW ss, OncePerSymbol(a)
    PROVE  /\ SameVersion(a, Sf!Only(a, ss)) /\ SameVersion(Sf!Only(a, ss), a)
           /\ OncePerSymbol(Sf!Only(a, ss)) /\ Sf!Only(a, ss) \in Seq(Sf!Entries)
           /\ \A b : SameVersion(a, b) => SameVersion(Sf!Only(a, ss), b)
<1> DEFINE part == Sf!Only(a, ss)
<1>1. /\ part \in Seq(Sf!Entries) /\ OncePerSymbol(part)
      /\ \A i \in DOMAIN part : \E j \in DOMAIN a : part[i] = a[j]
  BY Part
<1> HIDE DEF part
<1>2. SameVersion(a, part) /\ SameVersion(part, a)
  BY <1>1 DEF SameVersion, OncePerSymbol
<1>3. ASSUME NEW b, SameVersion(a, b) PROVE SameVersion(part, b)
  BY <1>1, <1>3 DEF SameVersion
<1> QED BY <1>1, <1>2, <1>3 DEF part

\* A request writes the list it made to the file.
LEMMA EditKeeps ==
    ASSUME FetchInv, NEW s \in Sf!Syms, Sf!Add(s) \/ Sf!Delete(s)
    PROVE  FetchInv' /\ SameVersion(fetchList, fetchList')
<1> USE FetchAssumption
<1>1. FetchTypes /\ ListsAgree /\ OnlyDeadCount
  BY DEF FetchInv
<1>2. fetchEdits' \in 0 .. FetchEdits
  BY <1>1 DEF Sf!Add, Sf!Delete, Sf!Edit, FetchTypes
<1>3. ASSUME Sf!Add(s)
      PROVE  /\ fetchList' \in Seq(Sf!Entries) /\ OncePerSymbol(fetchList')
             /\ SameVersion(fetchList, fetchList') /\ fetchFile' = fetchList'
  <2> DEFINE e == [sym |-> s, ver |-> fetchEdits + 1]
  <2>1. e \in Sf!Entries
    BY <1>2, <1>3, FetchConstants DEF Sf!Add, Sf!Edit, Sf!Entries
  <2>2. /\ fetchList' = Append(fetchList, e) /\ fetchFile' = fetchList'
        /\ s \notin Sf!SymsOf(fetchList)
    BY <1>3 DEF Sf!Add
  <2>3. fetchList \in Seq(Sf!Entries) /\ \A i \in DOMAIN fetchList : fetchList[i].sym # s
    BY <1>1, <2>2 DEF FetchTypes, Sf!SymsOf
  <2>4. e.sym = s
    OBVIOUS
  <2> HIDE DEF e
  <2>5. /\ fetchList' \in Seq(Sf!Entries) /\ DOMAIN fetchList' = 1 .. Len(fetchList) + 1
        /\ \A i \in DOMAIN fetchList' :
              fetchList'[i] = IF i = Len(fetchList) + 1 THEN e ELSE fetchList[i]
        /\ DOMAIN fetchList = 1 .. Len(fetchList) /\ Len(fetchList) \in Nat
    BY <2>1, <2>2, <2>3
  <2>6. OncePerSymbol(fetchList)
    BY <1>1 DEF ListsAgree
  <2>7. OncePerSymbol(fetchList')
    BY <2>3, <2>4, <2>5, <2>6 DEF OncePerSymbol
  <2>8. SameVersion(fetchList, fetchList')
    BY <2>3, <2>4, <2>5, <2>6 DEF OncePerSymbol, SameVersion
  <2> QED BY <2>2, <2>5, <2>7, <2>8
<1>4. ASSUME Sf!Delete(s)
      PROVE  /\ fetchList' \in Seq(Sf!Entries) /\ OncePerSymbol(fetchList')
             /\ SameVersion(fetchList, fetchList') /\ fetchFile' = fetchList'
  <2>1. fetchList' = Sf!Only(fetchList, Sf!Syms \ {s}) /\ fetchFile' = fetchList'
    BY <1>4 DEF Sf!Delete, Sf!Without
  <2> QED BY <1>1, <2>1, PartAgrees DEF FetchTypes, ListsAgree
<1>5. /\ fetchRows' \in [FetchSyms -> {"absent", "placeholder", "priced"}]
      /\ UNCHANGED <<fetchStreak, fetchPc, fetchItems, fetchResults, fetchRemoved,
                     fetchOutages, fetchDropped>>
  BY <1>1, FetchConstants DEF FetchTypes, Sf!Add, Sf!Delete
<1>6. FetchTypes'
  BY <1>1, <1>2, <1>3, <1>4, <1>5 DEF FetchTypes
<1>7. ListsAgree'
  <2>1. OncePerSymbol(fetchList') /\ fetchFile' = fetchList'
    BY <1>3, <1>4
  <2>2. SameVersion(fetchList', fetchFile')
    BY <2>1 DEF SameVersion, OncePerSymbol
  <2>3. \A j \in DOMAIN fetchFile' : fetchFile'[j].sym \in Sf!SymsOf(fetchList')
    BY <2>1 DEF Sf!SymsOf
  <2>4. OncePerSymbol(fetchRemoved')
    BY <1>1, <1>5 DEF ListsAgree
  <2>5. ListsAgree' <=>
          /\ OncePerSymbol(fetchList') /\ OncePerSymbol(fetchFile') /\ OncePerSymbol(fetchRemoved')
          /\ SameVersion(fetchList', fetchFile')
          /\ \A i \in DOMAIN fetchRemoved', j \in DOMAIN fetchFile' :
                \/ fetchRemoved'[i].sym # fetchFile'[j].sym
                \/ fetchRemoved'[i] = fetchFile'[j]
                \/ fetchRemoved'[i].sym \in Sf!SymsOf(fetchList')
    BY DEF ListsAgree, SameVersion, OncePerSymbol, Sf!SymsOf
  <2> QED BY <2>1, <2>2, <2>3, <2>4, <2>5
<1>8. OnlyDeadCount'
  BY <1>1, <1>5 DEF OnlyDeadCount, Sf!SymsOf
<1> QED BY <1>3, <1>4, <1>6, <1>7, <1>8 DEF FetchInv

\* ListsAgree, one primed formula at a time.
LEMMA ListsAgreeAfter ==
    ASSUME OncePerSymbol(fetchList'), OncePerSymbol(fetchFile'), OncePerSymbol(fetchRemoved'),
           SameVersion(fetchList', fetchFile'),
           \A i \in DOMAIN fetchRemoved', j \in DOMAIN fetchFile' :
              \/ fetchRemoved'[i].sym # fetchFile'[j].sym
              \/ fetchRemoved'[i] = fetchFile'[j]
              \/ fetchRemoved'[i].sym \in Sf!SymsOf(fetchList')
    PROVE  ListsAgree'
  BY DEF ListsAgree, OncePerSymbol, SameVersion, Sf!SymsOf

\* The run reads the list again.
LEMMA PrepareKeeps ==
    ASSUME FetchInv, Sf!Prepare
    PROVE  FetchInv' /\ SameVersion(fetchList, fetchList')
<1> USE FetchAssumption
<1>1. FetchTypes /\ ListsAgree /\ OnlyDeadCount
  BY DEF FetchInv
<1>2. /\ fetchPc = "idle" /\ fetchList' = fetchFile /\ fetchFile' = fetchFile
      /\ fetchPc' \in {"idle", "fetch"}
      /\ UNCHANGED <<fetchRows, fetchStreak, fetchResults, fetchRemoved, fetchEdits,
                     fetchOutages, fetchDropped>>
  BY DEF Sf!Prepare, Sf!Reloaded
<1>3. fetchItems' \in Seq(FetchSyms)
  <2>1. /\ fetchFile \in Seq(Sf!Entries)
        /\ fetchItems' = [i \in DOMAIN fetchFile |-> fetchFile[i].sym] \/ fetchItems' = <<>>
    BY <1>1 DEF Sf!Prepare, Sf!Reloaded, FetchTypes
  <2>2. \A e \in Sf!Entries : e.sym \in FetchSyms
    BY FetchConstants DEF Sf!Entries
  <2>3. [i \in DOMAIN fetchFile |-> fetchFile[i].sym] \in [1 .. Len(fetchFile) -> FetchSyms]
    BY <2>1, <2>2
  <2>4. [i \in DOMAIN fetchFile |-> fetchFile[i].sym] \in Seq(FetchSyms)
    BY <2>1, <2>3
  <2>5. <<>> \in Seq(FetchSyms)
    OBVIOUS
  <2> HIDE FetchAssumption
  <2> QED BY <2>1, <2>4, <2>5, Zenon
<1>4. FetchTypes'
  BY <1>1, <1>2, <1>3 DEF FetchTypes, FetchStages
<1>5. ListsAgree'
  <2>1. \A j \in DOMAIN fetchFile' : fetchFile'[j].sym \in Sf!SymsOf(fetchList')
    BY <1>2 DEF Sf!SymsOf
  <2>2. OncePerSymbol(fetchFile) /\ OncePerSymbol(fetchRemoved)
    BY <1>1 DEF ListsAgree
  <2>3. SameVersion(fetchFile, fetchFile)
    BY <2>2 DEF SameVersion, OncePerSymbol
  <2> QED BY <1>2, <2>1, <2>2, <2>3, ListsAgreeAfter
<1>6. OnlyDeadCount'
  <2>1. fetchResults' = <<>> /\ Len(fetchItems') \in Nat
    BY <1>1, <1>2, <1>3 DEF OnlyDeadCount
  <2> QED BY <1>1, <1>2, <2>1 DEF OnlyDeadCount, Sf!SymsOf
<1>7. SameVersion(fetchList, fetchList')
  BY <1>1, <1>2 DEF ListsAgree
<1> QED BY <1>4, <1>5, <1>6, <1>7 DEF FetchInv

\* The lists rest, the results are as the provider gave them.
LEMMA AnswersKeep ==
    ASSUME FetchInv, Sf!BatchFails \/ Sf!BatchIsCut \/ Sf!Batch
    PROVE  FetchInv' /\ SameVersion(fetchList, fetchList')
<1> USE FetchAssumption
<1>1. FetchTypes /\ ListsAgree /\ OnlyDeadCount
  BY DEF FetchInv
<1>2. /\ fetchPc' = "judge" /\ fetchOutages' \in {fetchOutages, fetchOutages + 1}
      /\ fetchOutages' # fetchOutages => fetchOutages < FetchOutages
      /\ UNCHANGED <<fetchList, fetchFile, fetchRows, fetchStreak, fetchItems, fetchRemoved,
                     fetchEdits, fetchDropped>>
  BY DEF Sf!BatchFails, Sf!BatchIsCut, Sf!Batch, Sf!Outage, Sf!Fetched
<1>3. fetchItems \in Seq(FetchSyms) /\ Len(fetchItems) \in Nat
      /\ DOMAIN fetchItems = 1 .. Len(fetchItems)
  BY <1>1 DEF FetchTypes
<1>4. \E n \in 0 .. Len(fetchItems) :
         /\ fetchResults' \in [1 .. n -> Sf!Outcomes]
         /\ \A i \in 1 .. n : fetchResults'[i] = "invalid" => fetchItems[i] \in FetchDead
  <2>1. CASE Sf!BatchFails
    <3>1. fetchResults' = [i \in 1 .. Len(fetchItems) |-> "none"]
      BY <1>3, <2>1 DEF Sf!BatchFails, Sf!Fetched
    <3>2. /\ fetchResults' \in [1 .. Len(fetchItems) -> Sf!Outcomes]
          /\ \A i \in 1 .. Len(fetchItems) : fetchResults'[i] # "invalid"
      BY <3>1 DEF Sf!Outcomes
    <3>3. Len(fetchItems) \in 0 .. Len(fetchItems)
      BY <1>3
    <3> QED BY <3>2, <3>3
  <2>2. CASE Sf!BatchIsCut
    <3>1. PICK n \in 1 .. Len(fetchItems) - 1 :
             fetchResults' = [i \in 1 .. n |-> IF fetchItems[i] \in Sf!Live THEN "row" ELSE "none"]
      BY <2>2 DEF Sf!BatchIsCut, Sf!Fetched
    <3> QED BY <1>3, <3>1 DEF Sf!Outcomes
  <2>3. CASE Sf!Batch
    <3>1. PICK rs \in [DOMAIN fetchItems -> Sf!Outcomes] :
             /\ fetchResults' = rs
             /\ \A i \in DOMAIN fetchItems :
                   rs[i] = "row" \/ rs[i] = "none" \/ rs[i] \in Sf!FetchStock(fetchItems[i])
      BY <2>3 DEF Sf!Batch, Sf!Fetched
    <3>2. \A i \in DOMAIN fetchItems : rs[i] = "invalid" => fetchItems[i] \in FetchDead
      BY <3>1 DEF Sf!FetchStock, Sf!Answer
    <3>3. Len(fetchItems) \in 0 .. Len(fetchItems)
      BY <1>3
    <3>4. fetchResults' \in [1 .. Len(fetchItems) -> Sf!Outcomes]
      BY <1>3, <3>1
    <3>5. \A i \in 1 .. Len(fetchItems) :
             fetchResults'[i] = "invalid" => fetchItems[i] \in FetchDead
      BY <1>3, <3>1, <3>2
    <3> QED BY <3>3, <3>4, <3>5
  <2> QED BY <2>1, <2>2, <2>3
<1>5. fetchResults' \in Seq(Sf!Outcomes) /\ Len(fetchResults') <= Len(fetchItems)
      /\ \A i \in DOMAIN fetchResults' : fetchResults'[i] = "invalid" => fetchItems[i] \in FetchDead
  BY <1>3, <1>4
<1>6. FetchTypes'
  <2>1. fetchOutages' \in 0 .. FetchOutages
    BY <1>1, <1>2 DEF FetchTypes
  <2> QED BY <1>1, <1>2, <1>5, <2>1 DEF FetchTypes, FetchStages
<1>7. ListsAgree'
  BY <1>1, <1>2 DEF ListsAgree, OncePerSymbol, SameVersion, Sf!SymsOf
<1>8. OnlyDeadCount'
  BY <1>1, <1>2, <1>5 DEF OnlyDeadCount, Sf!SymsOf
<1>9. SameVersion(fetchList, fetchList')
  BY <1>1, <1>2 DEF ListsAgree, OncePerSymbol, SameVersion
<1> QED BY <1>6, <1>7, <1>8, <1>9 DEF FetchInv

\* What is removed was refused, as often as it takes.
LEMMA JudgeKeeps ==
    ASSUME FetchInv, Sf!Judge
    PROVE  FetchInv' /\ SameVersion(fetchList, fetchList')
<1> USE FetchAssumption
<1>1. FetchTypes /\ ListsAgree /\ OnlyDeadCount
  BY DEF FetchInv
<1>2. /\ fetchPc = "judge" /\ fetchPc' \in {"merge", "save"}
      /\ UNCHANGED <<fetchFile, fetchRows, fetchItems, fetchResults, fetchEdits,
                     fetchOutages, fetchDropped>>
  BY DEF Sf!Judge
<1>3. fetchList \in Seq(Sf!Entries) /\ OncePerSymbol(fetchList) /\ SameVersion(fetchList, fetchFile)
  BY <1>1 DEF FetchTypes, ListsAgree
<1>4. CASE UNCHANGED <<fetchList, fetchStreak, fetchRemoved>>
  <2>1. FetchTypes'
    BY <1>1, <1>2, <1>4 DEF FetchTypes, FetchStages
  <2>2. ListsAgree'
    BY <1>1, <1>2, <1>4 DEF ListsAgree, OncePerSymbol, SameVersion, Sf!SymsOf
  <2>3. OnlyDeadCount'
    BY <1>1, <1>2, <1>4 DEF OnlyDeadCount, Sf!SymsOf
  <2>4. SameVersion(fetchList, fetchList')
    BY <1>3, <1>4 DEF OncePerSymbol, SameVersion
  <2> QED BY <2>1, <2>2, <2>3, <2>4 DEF FetchInv
<1>5. CASE ~UNCHANGED <<fetchList, fetchStreak, fetchRemoved>>
  <2> DEFINE Got(s) == fetchResults[CHOOSE i \in DOMAIN fetchItems : fetchItems[i] = s]
             counts == [s \in Sf!Syms |-> IF s \in Sf!ToSet(fetchItems)
                                          THEN Sf!Counted(fetchStreak[s], Got(s))
                                          ELSE fetchStreak[s]]
             gone == {s \in Sf!SymsOf(fetchList) : counts[s] >= RemovalThreshold}
  <2>1. /\ Len(fetchResults) = Len(fetchItems)
        /\ fetchList' = Sf!Only(fetchList, Sf!Syms \ gone)
        /\ fetchRemoved' = Sf!Only(fetchList, gone)
        /\ fetchStreak' = [s \in Sf!Syms |-> IF s \in gone THEN 0 ELSE counts[s]]
    BY <1>5 DEF Sf!Judge, Sf!Without
  <2>2. \A s \in FetchSyms : /\ counts[s] \in 0 .. RemovalThreshold
                             /\ s \notin FetchDead => counts[s] = 0
    <3> SUFFICES ASSUME NEW s \in FetchSyms
                 PROVE  /\ counts[s] \in 0 .. RemovalThreshold
                        /\ s \notin FetchDead => counts[s] = 0
      OBVIOUS
    <3>1. /\ fetchStreak[s] \in 0 .. RemovalThreshold
          /\ s \notin FetchDead => fetchStreak[s] = 0
      BY <1>1 DEF FetchTypes, OnlyDeadCount
    <3>2. CASE s \in Sf!ToSet(fetchItems)
      <4> DEFINE i == CHOOSE i \in DOMAIN fetchItems : fetchItems[i] = s
      <4>1. i \in DOMAIN fetchItems /\ fetchItems[i] = s
        BY <3>2 DEF Sf!ToSet
      <4>2. i \in DOMAIN fetchResults
        BY <1>1, <2>1, <4>1 DEF FetchTypes
      <4> HIDE DEF i
      <4>3. fetchResults[i] = "invalid" => s \in FetchDead
        BY <1>1, <4>1, <4>2 DEF OnlyDeadCount
      <4>4. Sf!Counted(fetchStreak[s], fetchResults[i]) \in 0 .. RemovalThreshold
        BY <3>1 DEF Sf!Counted
      <4>5. s \notin FetchDead => Sf!Counted(fetchStreak[s], fetchResults[i]) = 0
        BY <4>3 DEF Sf!Counted
      <4>6. counts[s] = Sf!Counted(fetchStreak[s], fetchResults[i])
        BY <3>2, FetchConstants DEF i
      <4> QED BY <4>4, <4>5, <4>6
    <3>3. CASE s \notin Sf!ToSet(fetchItems)
      BY <3>1, <3>3, FetchConstants
    <3> QED BY <3>2, <3>3
  <2> HIDE DEF counts
  <2>3. gone \subseteq FetchDead
    <3>1. Sf!SymsOf(fetchList) \subseteq FetchSyms
      <4>1. \A e \in Sf!Entries : e.sym \in FetchSyms
        BY FetchConstants DEF Sf!Entries
      <4>2. \A i \in DOMAIN fetchList : fetchList[i] \in Sf!Entries
        BY <1>3
      <4> QED BY <4>1, <4>2 DEF Sf!SymsOf
    <3> QED BY <2>2, <3>1
  <2>4. fetchStreak' \in [FetchSyms -> 0 .. RemovalThreshold]
        /\ \A s \in FetchSyms \ FetchDead : fetchStreak'[s] = 0
    BY <2>1, <2>2, FetchConstants
  <2> HIDE DEF gone
  <2>5. FetchTypes'
    <3>1. fetchList' \in Seq(Sf!Entries) /\ fetchRemoved' \in Seq(Sf!Entries)
      BY <1>3, <2>1, Part
    <3> QED BY <1>1, <1>2, <2>4, <3>1 DEF FetchTypes, FetchStages
  <2>6. /\ OncePerSymbol(fetchList') /\ OncePerSymbol(fetchRemoved')
        /\ SameVersion(fetchList', fetchFile) /\ SameVersion(fetchRemoved', fetchFile)
        /\ SameVersion(fetchList, fetchList')
    BY <1>3, <2>1, PartAgrees
  <2>7. ListsAgree'
    <3>1. OncePerSymbol(fetchFile)
      BY <1>1 DEF ListsAgree
    <3>2. \A i \in DOMAIN fetchRemoved', j \in DOMAIN fetchFile' :
              \/ fetchRemoved'[i].sym # fetchFile'[j].sym
              \/ fetchRemoved'[i] = fetchFile'[j]
      BY <1>2, <2>6 DEF SameVersion
    <3> QED BY <1>2, <2>6, <3>1, <3>2, ListsAgreeAfter
  <2>8. OnlyDeadCount'
    <3>1. \A i \in DOMAIN fetchRemoved' : fetchRemoved'[i].sym \in gone
      BY <1>3, <2>1, Part
    <3> QED BY <1>1, <1>2, <2>3, <2>4, <3>1 DEF OnlyDeadCount, Sf!SymsOf
  <2> QED BY <2>5, <2>6, <2>7, <2>8 DEF FetchInv
<1> QED BY <1>4, <1>5

\* Two lists without a common symbol, one after the other.
LEMMA Joined ==
    ASSUME NEW a \in Seq(Sf!Entries), NEW b \in Seq(Sf!Entries),
           OncePerSymbol(a), OncePerSymbol(b),
           \A i \in DOMAIN a, j \in DOMAIN b : a[i].sym # b[j].sym
    PROVE  /\ a \o b \in Seq(Sf!Entries) /\ OncePerSymbol(a \o b)
           /\ \A i \in DOMAIN (a \o b) : \/ \E j \in DOMAIN a : (a \o b)[i] = a[j]
                                         \/ \E j \in DOMAIN b : (a \o b)[i] = b[j]
<1> DEFINE c == a \o b
<1>1. /\ Len(a) \in Nat /\ Len(b) \in Nat /\ DOMAIN a = 1 .. Len(a) /\ DOMAIN b = 1 .. Len(b)
      /\ c \in Seq(Sf!Entries) /\ DOMAIN c = 1 .. Len(a) + Len(b)
  OBVIOUS
<1>2. \A i \in DOMAIN c : c[i] = IF i <= Len(a) THEN a[i] ELSE b[i - Len(a)]
  BY <1>1
<1>3. \A i \in DOMAIN c : i <= Len(a) => i \in DOMAIN a
  BY <1>1
<1>4. \A i \in DOMAIN c : ~(i <= Len(a)) => i - Len(a) \in DOMAIN b
  BY <1>1
<1> HIDE DEF c
<1>5. ASSUME NEW i \in DOMAIN c, NEW j \in DOMAIN c, c[i].sym = c[j].sym PROVE i = j
  <2>1. CASE i <= Len(a) /\ j <= Len(a)
    BY <1>2, <1>3, <1>5, <2>1 DEF OncePerSymbol
  <2>2. CASE ~(i <= Len(a)) /\ ~(j <= Len(a))
    <3>1. i - Len(a) = j - Len(a)
      BY <1>2, <1>4, <1>5, <2>2 DEF OncePerSymbol
    <3> QED BY <1>1, <3>1
  <2>3. CASE i <= Len(a) /\ ~(j <= Len(a))
    BY <1>2, <1>3, <1>4, <1>5, <2>3
  <2>4. CASE ~(i <= Len(a)) /\ j <= Len(a)
    BY <1>2, <1>3, <1>4, <1>5, <2>4
  <2> QED BY <2>1, <2>2, <2>3, <2>4
<1>6. \A i \in DOMAIN c : \/ \E j \in DOMAIN a : c[i] = a[j]
                          \/ \E j \in DOMAIN b : c[i] = b[j]
  BY <1>2, <1>3, <1>4
<1> QED BY <1>1, <1>5, <1>6 DEF OncePerSymbol, c

\* A removal that was saved has taken off what was refused.
LEMMA SavedKeeps ==
    ASSUME FetchInv, Sf!SaveOk \/ Sf!SaveRate
    PROVE  FetchInv' /\ SameVersion(fetchList, fetchList')
<1>1. FetchTypes /\ ListsAgree /\ OnlyDeadCount
  BY DEF FetchInv
<1>2. /\ fetchList' = fetchList /\ fetchFile' = fetchList
      /\ fetchPc' # fetchPc => fetchPc' = "clean" /\ fetchPc = "save"
      /\ fetchDropped' \subseteq fetchDropped \cup Sf!SymsOf(fetchRemoved)
      /\ UNCHANGED <<fetchRows, fetchStreak, fetchItems, fetchResults, fetchRemoved,
                     fetchEdits, fetchOutages>>
  BY DEF Sf!SaveOk, Sf!SaveRate
<1>3. FetchTypes'
  <2>1. \A e \in Sf!Entries : e.sym \in FetchSyms
    BY FetchConstants DEF Sf!Entries
  <2>2. \A i \in DOMAIN fetchRemoved : fetchRemoved[i] \in Sf!Entries
    BY <1>1 DEF FetchTypes
  <2>3. Sf!SymsOf(fetchRemoved) \subseteq FetchSyms \cap FetchDead
    BY <1>1, <2>1, <2>2 DEF OnlyDeadCount, Sf!SymsOf
  <2>4. fetchDropped' \subseteq FetchSyms \cap FetchDead
    BY <1>1, <1>2, <2>3 DEF FetchTypes
  <2> QED BY <1>1, <1>2, <2>4 DEF FetchTypes, FetchStages
<1>4. SameVersion(fetchList, fetchList)
  BY <1>1 DEF ListsAgree, OncePerSymbol, SameVersion
<1>5. ListsAgree'
  <2>1. \A j \in DOMAIN fetchFile' : fetchFile'[j].sym \in Sf!SymsOf(fetchList')
    BY <1>2 DEF Sf!SymsOf
  <2>2. OncePerSymbol(fetchList) /\ OncePerSymbol(fetchRemoved)
    BY <1>1 DEF ListsAgree
  <2> QED BY <1>2, <1>4, <2>1, <2>2, ListsAgreeAfter
<1>6. OnlyDeadCount'
  BY <1>1, <1>2 DEF OnlyDeadCount, Sf!SymsOf
<1> QED BY <1>2, <1>3, <1>4, <1>5, <1>6 DEF FetchInv

\* What comes back was on no list meanwhile.
LEMMA RollbackKeeps ==
    ASSUME FetchInv, Sf!SaveFails
    PROVE  FetchInv' /\ SameVersion(fetchList, fetchList')
<1> USE FetchAssumption
<1>1. FetchTypes /\ ListsAgree /\ OnlyDeadCount
  BY DEF FetchInv
<1> DEFINE back == Sf!Restored
           left == Sf!Without(fetchList, Sf!SymsOf(back))
<1>2. /\ fetchPc = "save" /\ fetchPc' = "merge" /\ fetchOutages' = fetchOutages + 1
      /\ fetchOutages < FetchOutages
      /\ fetchList' = left \o back /\ fetchRemoved' = <<>>
      /\ fetchStreak' = [s \in Sf!Syms |-> IF s \in Sf!SymsOf(back) THEN RemovalThreshold
                                           ELSE fetchStreak[s]]
      /\ UNCHANGED <<fetchFile, fetchRows, fetchItems, fetchResults, fetchEdits, fetchDropped>>
  BY DEF Sf!SaveFails, Sf!Outage
<1>3. /\ fetchList \in Seq(Sf!Entries) /\ fetchRemoved \in Seq(Sf!Entries)
      /\ OncePerSymbol(fetchList) /\ OncePerSymbol(fetchRemoved)
      /\ SameVersion(fetchList, fetchFile) /\ OncePerSymbol(fetchFile)
  BY <1>1 DEF FetchTypes, ListsAgree
<1>4. /\ back \in Seq(Sf!Entries) /\ OncePerSymbol(back)
      /\ \A i \in DOMAIN back : /\ back[i].sym \notin Sf!SymsOf(fetchList)
                                /\ \E j \in DOMAIN fetchRemoved : back[i] = fetchRemoved[j]
  <2> DEFINE absent == Sf!Syms \ Sf!SymsOf(fetchList)
  <2>1. back = Sf!Only(fetchRemoved, absent)
    BY DEF Sf!Restored, Sf!Without
  <2>2. absent \cap Sf!SymsOf(fetchList) = {}
    OBVIOUS
  <2> HIDE DEF back, absent
  <2>3. /\ back \in Seq(Sf!Entries) /\ OncePerSymbol(back)
        /\ \A i \in DOMAIN back : back[i].sym \in absent
        /\ \A i \in DOMAIN back : \E j \in DOMAIN fetchRemoved : back[i] = fetchRemoved[j]
    <3>1. LET part == Sf!Only(fetchRemoved, absent)
          IN  /\ part \in Seq(Sf!Entries)
              /\ \A i \in DOMAIN part : part[i].sym \in absent
              /\ \A i \in DOMAIN part : \E j \in DOMAIN fetchRemoved : part[i] = fetchRemoved[j]
              /\ OncePerSymbol(fetchRemoved) => OncePerSymbol(part)
      BY <1>3, Part
    <3> QED BY <1>3, <2>1, <3>1, Zenon
  <2> QED BY <2>2, <2>3
<1> HIDE DEF back
<1>5. /\ left \in Seq(Sf!Entries) /\ OncePerSymbol(left)
      /\ \A i \in DOMAIN left : \E j \in DOMAIN fetchList : left[i] = fetchList[j]
  BY <1>3, Part DEF Sf!Without
<1> HIDE DEF left
<1>6. /\ fetchList' \in Seq(Sf!Entries) /\ OncePerSymbol(fetchList')
      /\ \A i \in DOMAIN fetchList' : \/ \E j \in DOMAIN left : fetchList'[i] = left[j]
                                      \/ \E j \in DOMAIN back : fetchList'[i] = back[j]
  <2>1. \A i \in DOMAIN left, j \in DOMAIN back : left[i].sym # back[j].sym
    BY <1>4, <1>5 DEF Sf!SymsOf
  <2>2. /\ left \o back \in Seq(Sf!Entries) /\ OncePerSymbol(left \o back)
        /\ \A i \in DOMAIN (left \o back) : \/ \E j \in DOMAIN left : (left \o back)[i] = left[j]
                                            \/ \E j \in DOMAIN back : (left \o back)[i] = back[j]
    BY <1>4, <1>5, <2>1, Joined
  <2>3. fetchList' = left \o back
    BY <1>2
  <2> HIDE FetchAssumption
  <2> QED BY <2>2, <2>3, Zenon
<1>7. SameVersion(fetchList, fetchList')
  <2> SUFFICES ASSUME NEW i \in DOMAIN fetchList, NEW k \in DOMAIN fetchList',
                      fetchList[i].sym = fetchList'[k].sym
               PROVE  fetchList[i] = fetchList'[k]
    BY DEF SameVersion
  <2>1. fetchList'[k].sym \in Sf!SymsOf(fetchList)
    BY DEF Sf!SymsOf
  <2>2. PICK j \in DOMAIN left : fetchList'[k] = left[j]
    BY <1>4, <1>6, <2>1
  <2> QED BY <1>3, <1>5, <2>2 DEF OncePerSymbol
<1>8. SameVersion(fetchList', fetchFile)
  <2> SUFFICES ASSUME NEW k \in DOMAIN fetchList', NEW j \in DOMAIN fetchFile,
                      fetchList'[k].sym = fetchFile[j].sym
               PROVE  fetchList'[k] = fetchFile[j]
    BY DEF SameVersion
  <2>1. CASE \E i \in DOMAIN left : fetchList'[k] = left[i]
    BY <1>3, <1>5, <2>1 DEF SameVersion
  <2>2. CASE \E i \in DOMAIN back : fetchList'[k] = back[i]
    <3>1. PICK i \in DOMAIN fetchRemoved : fetchList'[k] = fetchRemoved[i]
                                           /\ fetchRemoved[i].sym \notin Sf!SymsOf(fetchList)
      BY <1>4, <2>2
    <3> QED BY <1>1, <3>1 DEF ListsAgree
  <2> QED BY <1>6, <2>1, <2>2
<1>9. ListsAgree'
  <2>1. OncePerSymbol(fetchRemoved') /\ DOMAIN fetchRemoved' = {}
    BY <1>2 DEF OncePerSymbol
  <2> QED BY <1>2, <1>3, <1>6, <1>8, <2>1, ListsAgreeAfter
<1>10. Sf!SymsOf(back) \subseteq FetchDead
  BY <1>1, <1>4 DEF OnlyDeadCount, Sf!SymsOf
<1>11. FetchTypes'
  <2>1. fetchStreak' \in [FetchSyms -> 0 .. RemovalThreshold]
    BY <1>1, <1>2, FetchConstants DEF FetchTypes
  <2>2. fetchOutages' \in 0 .. FetchOutages
    BY <1>1, <1>2 DEF FetchTypes
  <2>3. fetchRemoved' \in Seq(Sf!Entries)
    BY <1>2
  <2> QED BY <1>1, <1>2, <1>6, <2>1, <2>2, <2>3 DEF FetchTypes, FetchStages
<1>12. OnlyDeadCount'
  <2>1. \A s \in FetchSyms \ FetchDead : fetchStreak'[s] = 0
    BY <1>1, <1>2, <1>10, FetchConstants DEF OnlyDeadCount
  <2>2. Sf!SymsOf(fetchRemoved)' \subseteq FetchDead
    BY <1>2 DEF Sf!SymsOf
  <2>3. /\ Len(fetchResults') <= Len(fetchItems')
        /\ fetchPc' \notin {"idle", "fetch"}
        /\ \A i \in DOMAIN fetchResults' :
              fetchResults'[i] = "invalid" => fetchItems'[i] \in FetchDead
    BY <1>1, <1>2 DEF OnlyDeadCount
  <2> QED BY <2>1, <2>2, <2>3 DEF OnlyDeadCount
<1> QED BY <1>7, <1>9, <1>11, <1>12 DEF FetchInv

LEMMA JudgeLaterKeeps ==
    ASSUME FetchInv, Sf!JudgeLater
    PROVE  FetchInv' /\ SameVersion(fetchList, fetchList')
<1>1. FetchTypes /\ ListsAgree /\ OnlyDeadCount
  BY DEF FetchInv
<1>2. /\ fetchPc' = "merge" /\ fetchOutages' \in 0 .. FetchOutages
      /\ UNCHANGED <<fetchList, fetchFile, fetchRows, fetchStreak, fetchItems, fetchResults,
                     fetchRemoved, fetchEdits, fetchDropped>>
  BY <1>1, FetchAssumption DEF Sf!JudgeLater, Sf!Outage, FetchTypes
<1>3. FetchTypes'
  BY <1>1, <1>2 DEF FetchTypes, FetchStages
<1>4. ListsAgree'
  BY <1>1, <1>2 DEF ListsAgree, OncePerSymbol, SameVersion, Sf!SymsOf
<1>5. OnlyDeadCount'
  BY <1>1, <1>2 DEF OnlyDeadCount, Sf!SymsOf
<1>6. SameVersion(fetchList, fetchList')
  BY <1>1, <1>2 DEF ListsAgree, OncePerSymbol, SameVersion
<1> QED BY <1>3, <1>4, <1>5, <1>6 DEF FetchInv

LEMMA EndOfRunKeeps ==
    ASSUME FetchInv, Sf!CleanUp \/ Sf!Merge
    PROVE  FetchInv' /\ SameVersion(fetchList, fetchList')
<1>1. FetchTypes /\ ListsAgree /\ OnlyDeadCount
  BY DEF FetchInv
<1>2. /\ \/ fetchPc' = "merge" /\ fetchPc = "clean"
            /\ UNCHANGED <<fetchItems, fetchResults>> /\ fetchRemoved' = <<>>
         \/ fetchPc' = "idle" /\ fetchItems' = <<>> /\ fetchResults' = <<>>
            /\ UNCHANGED fetchRemoved
      /\ UNCHANGED <<fetchList, fetchFile, fetchStreak, fetchEdits, fetchOutages, fetchDropped>>
  BY DEF Sf!CleanUp, Sf!Merge
<1>3. fetchRows' \in [FetchSyms -> {"absent", "placeholder", "priced"}]
  BY <1>1, FetchConstants DEF Sf!CleanUp, Sf!Merge, FetchTypes
<1>4. FetchTypes'
  <2>1. /\ fetchRemoved' \in Seq(Sf!Entries) /\ fetchItems' \in Seq(FetchSyms)
        /\ fetchResults' \in Seq(Sf!Outcomes)
    <3>1. /\ fetchRemoved' \in {fetchRemoved, <<>>} /\ fetchItems' \in {fetchItems, <<>>}
          /\ fetchResults' \in {fetchResults, <<>>}
      BY <1>2
    <3>2. <<>> \in Seq(Sf!Entries) /\ <<>> \in Seq(FetchSyms) /\ <<>> \in Seq(Sf!Outcomes)
      OBVIOUS
    <3> QED BY <1>1, <3>1, <3>2, Zenon DEF FetchTypes
  <2> QED BY <1>1, <1>2, <1>3, <2>1 DEF FetchTypes, FetchStages
<1>5. ListsAgree'
  <2>1. \/ fetchRemoved' = fetchRemoved
        \/ DOMAIN fetchRemoved' = {}
    BY <1>2
  <2> QED BY <1>1, <1>2, <2>1 DEF ListsAgree, OncePerSymbol, SameVersion, Sf!SymsOf
<1>6. OnlyDeadCount'
  BY <1>1, <1>2 DEF OnlyDeadCount, Sf!SymsOf
<1>7. SameVersion(fetchList, fetchList')
  BY <1>1, <1>2 DEF ListsAgree, OncePerSymbol, SameVersion
<1> QED BY <1>4, <1>5, <1>6, <1>7 DEF FetchInv

\* Outages and refused slots never take a symbol that exists off the list, and no
\* entry replaces a newer one of its symbol, for any list, dead symbols, bounds and
\* edits of the user meanwhile (bg/sync/process.py, market_state.py).
THEOREM LiveStaysHolds == Sf!Spec => LiveStays
<1>1. FetchInv /\ [Sf!Next]_(Sf!vars) => FetchInv' /\ SameVersion(fetchList, fetchList')
  <2>1. CASE UNCHANGED Sf!vars
    BY <2>1 DEF Sf!vars, FetchInv, FetchTypes, ListsAgree, OnlyDeadCount, OncePerSymbol,
                SameVersion, Sf!SymsOf
  <2> QED BY <2>1, EditKeeps, PrepareKeeps, AnswersKeep, JudgeKeeps, JudgeLaterKeeps, SavedKeeps,
             RollbackKeeps, EndOfRunKeeps
          DEF Sf!Next, Sf!Run
<1>2. FetchInv /\ SameVersion(fetchList, fetchList') /\ FetchInv' =>
        \A i \in DOMAIN fetchList, j \in DOMAIN fetchList' :
           fetchList[i].sym = fetchList'[j].sym => fetchList'[j].ver >= fetchList[i].ver
  <2> SUFFICES ASSUME FetchInv, SameVersion(fetchList, fetchList'),
                      NEW i \in DOMAIN fetchList, NEW j \in DOMAIN fetchList',
                      fetchList[i].sym = fetchList'[j].sym
               PROVE  fetchList'[j].ver >= fetchList[i].ver
    OBVIOUS
  <2>1. fetchList[i] = fetchList'[j]
    BY DEF SameVersion
  <2>2. fetchList[i] \in Sf!Entries
    BY DEF FetchInv, FetchTypes
  <2>3. fetchList[i].ver \in Nat
    BY <2>2, FetchAssumption, FetchConstants DEF Sf!Entries
  <2> QED BY <2>1, <2>3
<1> QED BY InitFetch, FetchTypeOK, <1>1, <1>2, PTL DEF Sf!Spec, Sf!NoStaleEntry, LiveStays
===============================================================================
