---------------------------- MODULE BackendStart ----------------------------
(* Starting the backend from the browser: native_host/start_backend.py.      *)
(* Every browser connection has a native host process of its own; several of *)
(* them may run `start` at once.  They share the startup lock file, the PID  *)
(* file and the TCP port; the backend they spawn is detached and outlives    *)
(* them.  The port is read once, before the PID file, and used afterwards.   *)
EXTENDS Naturals, FiniteSets

CONSTANTS
  Hosts,       \* native host processes
  Pids,        \* process ids of this machine
  None,        \* no owner, no process
  Grace,       \* PID_WARMUP_GRACE_SEC, in ticks of the PID file's age
  MaxFaults    \* bound: crashes, failed writes, hangs and deaths together

VARIABLES
  lock,        \* holder of STARTUP_LOCK_FILE
  pidFile,     \* the process PID_FILE names
  age,         \* age of PID_FILE, capped just above Grace
  proc,        \* what runs under each process id
  port,        \* the process listening on the backend's port
  pc,          \* where each host is inside start()
  inUse,       \* is_port_in_use as each host read it, FALSE when it is done with it
  mine,        \* the process each host spawned, while it is in start()
  lost,        \* live backends the PID file never named, or ceased to name, or that were not read
  faults       \* faults so far

vars == <<lock, pidFile, age, proc, port, pc, inUse, mine, lost, faults>>

Backends == {p \in Pids : proc[p] \in {"warming", "serving", "wedged"}}
IsRunning(p) == p # None /\ proc[p] # "free"
Healthy == port # None /\ proc[port] = "serving"

TypeOK ==
  /\ lock \in Hosts \cup {None} /\ pidFile \in Pids \cup {None}
  /\ age \in 0..(Grace + 1) /\ port \in Pids \cup {None}
  /\ proc \in [Pids -> {"free", "warming", "serving", "wedged", "foreign"}]
  /\ pc \in [Hosts -> {"idle", "lock", "port", "file", "health", "spawn", "write", "wait"}]
  /\ inUse \in [Hosts -> BOOLEAN] /\ mine \in [Hosts -> Pids \cup {None}]
  /\ lost \subseteq Pids /\ faults \in 0..MaxFaults

Init ==
  /\ lock = None /\ pidFile = None /\ age = 0 /\ port = None
  /\ proc = [p \in Pids |-> "free"] /\ pc = [h \in Hosts |-> "idle"]
  /\ inUse = [h \in Hosts |-> FALSE] /\ mine = [h \in Hosts |-> None]
  /\ lost = {} /\ faults = 0

Files == <<pidFile, age, lost>>
Machine == <<proc, port>>
Goes(h, where) == pc' = [pc EXCEPT ![h] = where]

\* Leaving the context manager: the answer is sent and the lock is free.
Answers(h) == Goes(h, "idle") /\ lock' = None

\* unlink(missing_ok=True); a live backend it named is no longer known.
Unlink == /\ pidFile' = None /\ age' = 0
          /\ lost' = lost \cup ({pidFile} \cap Backends)

Ask(h) ==
  /\ pc[h] = "idle" /\ Goes(h, "lock")
  /\ UNCHANGED <<lock, Files, Machine, inUse, mine, faults>>

TakeLockMutant(h) ==  \* the lock is not exclusive
  /\ pc[h] = "lock" /\ lock' = h /\ Goes(h, "port")
  /\ UNCHANGED <<Files, Machine, inUse, mine, faults>>

\* flock(LOCK_EX | LOCK_NB), retried ...
TakeLock(h) ==
  /\ pc[h] = "lock" /\ lock = None /\ lock' = h /\ Goes(h, "port")
  /\ UNCHANGED <<Files, Machine, inUse, mine, faults>>

\* ... within a budget: OSError, and the main loop answers "Retry".
LockBusy(h) ==
  /\ pc[h] = "lock" /\ lock # None /\ Goes(h, "idle")
  /\ UNCHANGED <<lock, Files, Machine, inUse, mine, faults>>

LookAtPort(h) ==
  /\ pc[h] = "port" /\ Goes(h, "file")
  /\ inUse' = [inUse EXCEPT ![h] = port # None]
  /\ UNCHANGED <<lock, Files, Machine, mine, faults>>

\* The PID file (the legacy one counts as the same file) names a live
\* process, or is removed, or is not there.
LookAtFile(h) ==
  /\ pc[h] = "file"
  /\ IF IsRunning(pidFile)
       THEN Goes(h, "health") /\ UNCHANGED Files
       ELSE Goes(h, "spawn") /\ Unlink
  /\ UNCHANGED <<lock, Machine, inUse, mine, faults>>

\* OSError or ValueError: the entry cannot be read, or not be examined or removed.
\* It stays, and the start goes on as if there were none.
Unreadable(h) ==
  /\ pc[h] \in {"file", "health"} /\ pidFile # None /\ (pc[h] = "health" => ~Healthy)
  /\ faults < MaxFaults /\ faults' = faults + 1 /\ Goes(h, "spawn")
  /\ UNCHANGED <<lock, Files, Machine, inUse, mine>>

Stale == age > Grace

\* The process lives: is it the backend, is it still warming up, or is the
\* entry too old to believe?
LookAtHealth(h) ==
  /\ pc[h] = "health"
  /\ \/ Healthy /\ Answers(h) /\ UNCHANGED Files
     \/ ~Healthy /\ inUse[h] /\ Answers(h) /\ Unlink
     \/ ~Healthy /\ ~inUse[h] /\ Stale /\ Goes(h, "spawn") /\ Unlink /\ UNCHANGED lock
     \/ ~Healthy /\ ~inUse[h] /\ ~Stale /\ Answers(h) /\ UNCHANGED Files
  /\ inUse' = [inUse EXCEPT ![h] = FALSE]
  /\ UNCHANGED <<Machine, mine, faults>>

\* Without a PID file an occupied port is answered for, never spawned over.
PortTaken(h) ==
  /\ pc[h] = "spawn" /\ inUse[h] /\ Answers(h)
  /\ inUse' = [inUse EXCEPT ![h] = FALSE]
  /\ UNCHANGED <<Files, Machine, mine, faults>>

\* An entry that could not be read is given up here.
Spawn(h) ==
  /\ pc[h] = "spawn" /\ ~inUse[h] /\ Goes(h, "write")
  /\ lost' = lost \cup ({pidFile} \cap Backends)
  /\ \E p \in Pids :
       /\ proc[p] = "free" /\ proc' = [proc EXCEPT ![p] = "warming"]
       /\ mine' = [mine EXCEPT ![h] = p]
  /\ UNCHANGED <<lock, pidFile, age, port, inUse, faults>>

WritePid(h) ==
  /\ pc[h] = "write" /\ Goes(h, "wait")
  /\ pidFile' = mine[h] /\ age' = 0
  /\ UNCHANGED <<lock, lost, Machine, inUse, mine, faults>>

\* Both the atomic and the plain write fail: only logged.
WriteFails(h) ==
  /\ pc[h] = "write" /\ faults < MaxFaults /\ Goes(h, "wait")
  /\ lost' = lost \cup ({mine[h]} \cap Backends) /\ faults' = faults + 1
  /\ UNCHANGED <<lock, pidFile, age, Machine, inUse, mine>>

\* Two seconds of health checks: ready, still starting, or already dead.
AwaitReady(h) ==
  /\ pc[h] = "wait" /\ Answers(h)
  /\ IF Healthy \/ IsRunning(mine[h]) THEN UNCHANGED Files ELSE Unlink
  /\ mine' = [mine EXCEPT ![h] = None]
  /\ UNCHANGED <<Machine, inUse, faults>>

\* The browser closes the connection and its host dies; flock is released.
HostDies(h) ==
  /\ pc[h] # "idle" /\ faults < MaxFaults /\ faults' = faults + 1
  /\ Goes(h, "idle") /\ lock' = IF lock = h THEN None ELSE lock
  /\ lost' = lost \cup (IF pc[h] = "write" THEN {mine[h]} \cap Backends ELSE {})
  /\ inUse' = [inUse EXCEPT ![h] = FALSE] /\ mine' = [mine EXCEPT ![h] = None]
  /\ UNCHANGED <<pidFile, age, Machine>>

\* app.py: bootstrap, then app.run binds the port; a taken port ends it.
Binds(p) ==
  /\ proc[p] = "warming"
  /\ IF port = None
       THEN proc' = [proc EXCEPT ![p] = "serving"] /\ port' = p /\ UNCHANGED lost
       ELSE proc' = [proc EXCEPT ![p] = "free"] /\ lost' = lost \ {p} /\ UNCHANGED port
  /\ UNCHANGED <<lock, pidFile, age, pc, inUse, mine, faults>>

Wedges(p) ==
  /\ proc[p] = "serving" /\ faults < MaxFaults /\ faults' = faults + 1
  /\ proc' = [proc EXCEPT ![p] = "wedged"]
  /\ UNCHANGED <<lock, Files, port, pc, inUse, mine>>

Dies(p) ==
  /\ p \in Backends /\ faults < MaxFaults /\ faults' = faults + 1
  /\ proc' = [proc EXCEPT ![p] = "free"] /\ lost' = lost \ {p}
  /\ port' = IF port = p THEN None ELSE port
  /\ UNCHANGED <<lock, pidFile, age, pc, inUse, mine>>

\* Another program gets a process id, perhaps a dead backend's, and may listen
\* (bound: one at a time).
Foreign(p) ==
  /\ proc[p] = "free" /\ \A q \in Pids : proc[q] # "foreign"
  /\ faults < MaxFaults /\ faults' = faults + 1
  /\ proc' = [proc EXCEPT ![p] = "foreign"]
  /\ port' \in {port, IF port = None THEN p ELSE port}
  /\ UNCHANGED <<lock, Files, pc, inUse, mine>>

ForeignEnds(p) ==
  /\ proc[p] = "foreign" /\ proc' = [proc EXCEPT ![p] = "free"]
  /\ port' = IF port = p THEN None ELSE port
  /\ UNCHANGED <<lock, Files, pc, inUse, mine, faults>>

Tick ==
  /\ pidFile # None /\ age <= Grace /\ age' = age + 1
  /\ UNCHANGED <<lock, pidFile, lost, Machine, pc, inUse, mine, faults>>

HostStep(h) ==
  \/ TakeLock(h) \/ LockBusy(h) \/ LookAtPort(h) \/ LookAtFile(h)
  \/ LookAtHealth(h) \/ PortTaken(h) \/ Spawn(h) \/ WritePid(h) \/ AwaitReady(h)

Next ==
  \/ \E h \in Hosts : Ask(h) \/ HostStep(h) \/ Unreadable(h) \/ WriteFails(h) \/ HostDies(h)
  \/ \E p \in Pids : Binds(p) \/ Wedges(p) \/ Dies(p) \/ Foreign(p) \/ ForeignEnds(p)
  \/ Tick

\* The user keeps asking; a started backend binds; time passes.  Nothing makes
\* a foreign program or a wedged backend go away.
Fairness ==
  /\ \A h \in Hosts : WF_vars(Ask(h)) /\ SF_vars(TakeLock(h)) /\ WF_vars(HostStep(h))
  /\ \A p \in Pids : WF_vars(Binds(p))
  /\ WF_vars(Tick)

Spec == Init /\ [][Next]_vars /\ Fairness

\* Hosts that start at the same moment spawn one backend.  A second one runs
\* only beside a backend the PID file lost: its entry was not written (the
\* host died, the disk refused), could not be read, was dropped because another
\* program held the port, or outlived the warm-up grace.
NoTwins == Cardinality(Backends \ lost) <= 1

\* While the user keeps asking, the port ends up occupied: a process id taken
\* over by another program, a dead host's lock or a lost entry delay a start
\* and never prevent it.
BackendComes == <>[](port # None)
=============================================================================
