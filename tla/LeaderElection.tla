--------------------------- MODULE LeaderElection ---------------------------
(***************************************************************************)
(* Which worker process runs the background fetches.  Where the platform   *)
(* has advisory locks (flock, msvcrt.locking) the leader holds one on the  *)
(* leader file; where it has none, the leader is who created the file, and *)
(* a file whose owner is dead is removed and created again.                *)
(*                                                                         *)
(* A restarted process has a pid of its own or one that was used before.   *)
(* A file is known by the pid that created it, since a handle keeps        *)
(* referring to it after somebody removed it from the directory.           *)
(***************************************************************************)
EXTENDS Naturals, FiniteSets

CONSTANTS Procs, Pids,
          Modes,        \* subset of {"advisory", "atomic"}
          MaxCrashes    \* bound: processes that end

VARIABLES
    mode,
    pc,        \* the election loop: "down", "try", "judged", "opened", "won", "wait"
    pid,
    leader,    \* _is_sync_leader
    exiting,   \* release_leader_lock has run in this process
    lock,      \* the holder of the advisory lock, or "free"
    file,      \* the file at lock_path
    crashes

vars == <<mode, pc, pid, leader, exiting, lock, file, crashes>>

Absent == [by |-> "none", owner |-> "absent", old |-> FALSE]
Files == [by : Pids, owner : Pids \cup {"empty"}, old : BOOLEAN] \cup {Absent}
TypeOK ==
    /\ mode \in Modes
    /\ pc \in [Procs -> {"down", "try", "judged", "opened", "won", "wait"}]
    /\ pid \in [Procs -> Pids] /\ leader \in [Procs -> BOOLEAN]
    /\ exiting \in [Procs -> BOOLEAN]
    /\ lock \in Procs \cup {"free"} /\ file \in Files
    /\ crashes \in 0 .. MaxCrashes

Init ==
    /\ mode \in Modes
    /\ pc = [p \in Procs |-> "down"] /\ pid \in [Procs -> Pids]
    /\ leader = [p \in Procs |-> FALSE] /\ exiting = [p \in Procs |-> FALSE]
    /\ lock = "free" /\ file = Absent /\ crashes = 0

\* _pid_is_alive
Alive(n) == \E p \in Procs : pc[p] # "down" /\ pid[p] = n

Goes(p, label) == pc' = [pc EXCEPT ![p] = label]

\* bg_leader_election_loop starts.
Start(p) ==
    /\ pc[p] = "down" /\ Goes(p, "try")
    /\ \E n \in Pids : ~Alive(n) /\ pid' = [pid EXCEPT ![p] = n]
    /\ exiting' = [exiting EXCEPT ![p] = FALSE]
    /\ UNCHANGED <<mode, leader, lock, file, crashes>>

\* The next round of a follower; the leader only waits.
Poll(p) ==
    /\ pc[p] = "wait" /\ ~leader[p] /\ ~exiting[p] /\ Goes(p, "try")
    /\ UNCHANGED <<mode, pid, leader, exiting, lock, file, crashes>>

TryLockMutant(p) ==  \* a shared lock
    /\ mode = "advisory" /\ pc[p] = "try"
    /\ lock' = p /\ Goes(p, "won")
    /\ UNCHANGED <<mode, pid, leader, exiting, file, crashes>>

\* flock(LOCK_EX | LOCK_NB): refused while anybody holds it.
TryLock(p) ==
    /\ mode = "advisory" /\ pc[p] = "try"
    /\ IF lock = "free" THEN lock' = p /\ Goes(p, "won") ELSE lock' = lock /\ Goes(p, "wait")
    /\ UNCHANGED <<mode, pid, leader, exiting, file, crashes>>

\* The loop learns that it acquired.
Promote(p) ==
    /\ pc[p] = "won" /\ Goes(p, "wait") /\ leader' = [leader EXCEPT ![p] = TRUE]
    /\ UNCHANGED <<mode, pid, exiting, lock, file, crashes>>

(***************************************************************************)
(* The fallback: _try_acquire_atomic_lock.                                 *)
(***************************************************************************)
\* O_CREAT | O_EXCL.
Create(p) ==
    /\ mode = "atomic" /\ pc[p] = "try" /\ file = Absent /\ Goes(p, "opened")
    /\ file' = [by |-> pid[p], owner |-> "empty", old |-> FALSE]
    /\ UNCHANGED <<mode, pid, leader, exiting, lock, crashes>>

WritePid(p) ==
    /\ pc[p] = "opened" /\ Goes(p, "won")
    /\ file' = IF file.by = pid[p]
               THEN [file EXCEPT !.owner = pid[p]] ELSE file
    /\ UNCHANGED <<mode, pid, leader, exiting, lock, crashes>>

\* The write fails; the file is removed if it can be.
WriteFails(p) ==
    /\ pc[p] = "opened" /\ Goes(p, "wait") /\ file' \in {Absent, file}
    /\ UNCHANGED <<mode, pid, leader, exiting, lock, crashes>>

\* An empty file is stale when it is old, one with an owner when that is dead.
Stale == IF file.owner = "empty" THEN file.old ELSE ~Alive(file.owner)

\* The file exists: it is ours already, somebody else's, or stale.
Judge(p) ==
    /\ mode = "atomic" /\ pc[p] = "try" /\ file # Absent
    /\ Goes(p, IF file.owner = pid[p] THEN "won" ELSE IF Stale THEN "judged" ELSE "wait")
    /\ UNCHANGED <<mode, pid, leader, exiting, lock, file, crashes>>

\* The stale file is removed, by its name.
Reclaim(p) ==
    /\ pc[p] = "judged"
    /\ \/ file # Absent /\ file' = Absent /\ Goes(p, "try")
       \/ file' = file /\ Goes(p, "wait")
    /\ UNCHANGED <<mode, pid, leader, exiting, lock, crashes>>

Age ==
    /\ file # Absent /\ ~file.old /\ file' = [file EXCEPT !.old = TRUE]
    /\ UNCHANGED <<mode, pc, pid, leader, exiting, lock, crashes>>

(***************************************************************************)
(* The end of a process.                                                   *)
(***************************************************************************)
Unlocked(p) == IF lock = p THEN "free" ELSE lock

\* _release_leader_lock, at exit and at shutdown; the election thread lives on
\* for a moment.
Release(p) ==
    /\ pc[p] # "down" /\ ~exiting[p] /\ crashes < MaxCrashes
    /\ exiting' = [exiting EXCEPT ![p] = TRUE]
    /\ crashes' = crashes + 1
    /\ leader' = [leader EXCEPT ![p] = FALSE] /\ lock' = Unlocked(p)
    /\ UNCHANGED <<mode, pc, pid, file>>

Exit(p) ==
    /\ pc[p] # "down"
    /\ IF exiting[p] THEN crashes' = crashes
                      ELSE crashes < MaxCrashes /\ crashes' = crashes + 1
    /\ Goes(p, "down") /\ lock' = Unlocked(p)
    /\ leader' = [leader EXCEPT ![p] = FALSE]
    /\ UNCHANGED <<mode, pid, exiting, file>>

Loop(p) ==
    Start(p) \/ Poll(p) \/ TryLock(p) \/ Promote(p) \/ Create(p) \/ WritePid(p)
        \/ Judge(p) \/ Reclaim(p)
Next == Age \/ \E p \in Procs : Loop(p) \/ WriteFails(p) \/ Release(p) \/ Exit(p)

\* Every process is started again and runs its loop, files grow old, an exiting
\* process ends, and removing a file succeeds now and then.
Fairness ==
    /\ WF_vars(Age)
    /\ \A p \in Procs : /\ WF_vars(Loop(p)) /\ SF_vars(WritePid(p))
                        /\ SF_vars(Reclaim(p) /\ file' = Absent)
                        /\ WF_vars(exiting[p] /\ Exit(p))

Spec == Init /\ [][Next]_vars /\ Fairness

(***************************************************************************)
(* Properties                                                              *)
(***************************************************************************)
Leaders == {p \in Procs : leader[p] /\ ~exiting[p]}

\* With advisory locks at most one process that is not exiting believes to be
\* the leader, whoever crashes, exits or restarts between the steps of the
\* others: two leaders would both fetch and publish.
OneLeader == mode = "advisory" => Cardinality(Leaders) <= 1

\* The same without the condition.  Two processes that both judged the file of
\* a dead leader stale refute it: the second removes the file the first has
\* just created.
SoleLeader == Cardinality(Leaders) <= 1

\* Leadership never stays vacant: after every crash, exit, failed write or
\* half-made file somebody is elected in the end.
LeaderReturns == []<>(Leaders # {})
=============================================================================
