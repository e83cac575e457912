------------------------------ MODULE MCProcesses -----------------------------
(***************************************************************************)
(* What processes share through files, locks and the keyring, checked in   *)
(* one run: the shutdown token, the election of the leader, configuration  *)
(* and credentials, the disk cache, the start of the backend and its       *)
(* native messaging host.  Each behaviour is a behaviour of one part,      *)
(* chosen at the start.                                                    *)
(***************************************************************************)
EXTENDS ShutdownToken, Integers, FiniteSets, Sequences

VARIABLE which   \* the part that runs, chosen at the start

CONSTANTS ElectionProcs, ElectionPids, ElectionModes,
          ElectionCrashes   \* bound: processes that end
ASSUME ElectionAssumption ==
    /\ "free" \notin ElectionProcs /\ ElectionPids # {}
    /\ ElectionModes \subseteq {"advisory", "atomic"} /\ ElectionModes # {}
    /\ ElectionCrashes \in Nat

VARIABLES electionMode, electionPc, electionPid, electionLeader, electionExiting, electionLock,
          electionFile, electionCrashes
Le == INSTANCE LeaderElection WITH
    Procs <- ElectionProcs, Pids <- ElectionPids, Modes <- ElectionModes,
    MaxCrashes <- ElectionCrashes, mode <- electionMode, pc <- electionPc,
    pid <- electionPid, leader <- electionLeader, exiting <- electionExiting,
    lock <- electionLock, file <- electionFile, crashes <- electionCrashes
electionVars == <<electionMode, electionPc, electionPid, electionLeader, electionExiting,
      electionLock, electionFile, electionCrashes>>

\* No update runs while a first start creates the file, and a good file is read.
CONSTANTS ConfigProcs, Credentials, Births,
          ConfigFaults,  \* bound: writes that fail, and crashes
          ConfigEdits    \* bound: hand edits that leave the file unreadable
ASSUME ConfigAssumption ==
    /\ "free" \notin ConfigProcs /\ ConfigProcs \cap {"none", "old"} = {}
    /\ "mns_master_key" \notin Credentials /\ Births \subseteq {"absent", "good", "broken"}
    /\ ConfigFaults \in Nat /\ ConfigEdits \in Nat

VARIABLES configFile, configRing, configOwner, configPc, configKind, configLoaded,
          configBefore, configCache, configFlagged, configCommitted, configWanted,
          configSealed, configTorn, configFaults, configReads, configEdits
Cs == INSTANCE ConfigStore WITH
    Procs <- ConfigProcs, Keys <- Credentials, FirstStarts <- "alone",
    MaxFaults <- ConfigFaults, MaxReadFailures <- 0, MaxEdits <- ConfigEdits, file <- configFile,
    ring <- configRing, owner <- configOwner, pc <- configPc, kind <- configKind,
    loaded <- configLoaded, before <- configBefore, cache <- configCache,
    flagged <- configFlagged, committed <- configCommitted, wanted <- configWanted,
    sealed <- configSealed, torn <- configTorn, faults <- configFaults, reads <- configReads,
    edits <- configEdits
configVars == <<configFile, configRing, configOwner, configPc, configKind, configLoaded,
      configBefore, configCache, configFlagged, configCommitted, configWanted, configSealed,
      configTorn, configFaults, configReads, configEdits>>

CONSTANTS CacheKeys, MaxEntries, CacheTtl, MaxTtl,
          DiskTime,    \* bound: ticks of the clock
          DiskFaults   \* bound: restores, damages, set-back clocks, busy locks
ASSUME DiskAssumption ==
    /\ IsFiniteSet(CacheKeys) /\ MaxEntries \in Nat
    /\ CacheTtl \in Nat /\ MaxTtl \in Nat /\ CacheTtl <= MaxTtl
    /\ DiskTime \in Nat /\ DiskFaults \in Nat

VARIABLES diskEntry, diskNow, diskTodo, diskBoot, diskSkipped, diskFaults
Dc == INSTANCE DiskCache WITH
    Keys <- CacheKeys, Ttl <- CacheTtl, MaxTime <- DiskTime, MaxFaults <- DiskFaults,
    entry <- diskEntry, now <- diskNow, todo <- diskTodo, boot <- diskBoot,
    skipped <- diskSkipped, faults <- diskFaults
diskVars == <<diskEntry, diskNow, diskTodo, diskBoot, diskSkipped, diskFaults>>

CONSTANTS BackendHosts, BackendPids,
          WarmupGrace,
          BackendFaults   \* bound: crashes, failed writes, hangs and deaths
ASSUME BackendAssumption ==
    "none" \notin BackendHosts \cup BackendPids /\ WarmupGrace \in Nat /\ BackendFaults \in Nat

VARIABLES backendLock, backendPidFile, backendAge, backendProc, backendPort, backendPc,
          backendInUse, backendMine, backendLost, backendFaults
Bs == INSTANCE BackendStart WITH
    Hosts <- BackendHosts, Pids <- BackendPids, None <- "none", Grace <- WarmupGrace,
    MaxFaults <- BackendFaults, lock <- backendLock, pidFile <- backendPidFile,
    age <- backendAge, proc <- backendProc,
    port <- backendPort, pc <- backendPc, inUse <- backendInUse, mine <- backendMine,
    lost <- backendLost, faults <- backendFaults
backendVars == <<backendLock, backendPidFile, backendAge, backendProc, backendPort, backendPc,
      backendInUse, backendMine, backendLost, backendFaults>>

CONSTANTS Header, MaxMessage, MaxDrain, ExtensionIds, OriginId, RateMax, SecretMax,
          SecretWindow,
          HostTime,   \* bound: ticks of the clock
          HostEdits   \* bound: changes of the manifest
ASSUME HostAssumption ==
    /\ Header \in Nat /\ MaxMessage \in Nat /\ MaxDrain \in Nat
    /\ OriginId \in ExtensionIds /\ RateMax \in Nat /\ SecretMax \in Nat
    /\ SecretWindow \in Nat /\ HostTime \in Nat /\ HostEdits \in Nat

VARIABLES hostPc, hostGot, hostLength, hostInFrame, hostReq, hostNow, hostStamps,
          hostSecretStamps, hostVerified, hostManifest, hostCache, hostBackend, hostGiven
Nh == INSTANCE NativeHost WITH
    Ids <- ExtensionIds, Origin <- OriginId, Window <- SecretWindow, MaxTime <- HostTime,
    MaxEdits <- HostEdits, pc <- hostPc, got <- hostGot, length <- hostLength,
    inFrame <- hostInFrame, req <- hostReq, now <- hostNow, stamps <- hostStamps,
    secretStamps <- hostSecretStamps, verified <- hostVerified, manifest <- hostManifest,
    cache <- hostCache, backend <- hostBackend, given <- hostGiven
hostVars == <<hostPc, hostGot, hostLength, hostInFrame, hostReq, hostNow, hostStamps,
      hostSecretStamps, hostVerified, hostManifest, hostCache, hostBackend, hostGiven>>

allVars == <<which, vars, electionVars, configVars, diskVars, backendVars, hostVars>>

-----------------------------------------------------------------------------
\* A part that is not chosen stays in one of its initial states.
MCInit ==
    /\ which \in {"token", "election", "config", "disk", "backend", "host"}
    /\ Init /\ (which # "token" => legacyFile = None)
    /\ Le!Init
    /\ which # "election" => /\ electionMode = CHOOSE m \in ElectionModes : TRUE
                             /\ electionPid = [p \in ElectionProcs |->
                                                 CHOOSE n \in ElectionPids : TRUE]
    /\ Cs!Init /\ (which # "config" => configFile.state = "absent")
    /\ Dc!Init /\ (which # "disk" => \A k \in CacheKeys : diskEntry[k] = Dc!Absent)
    /\ Bs!Init
    /\ Nh!Init

TokenRuns ==
    /\ which = "token" /\ Next
    /\ UNCHANGED <<which, electionVars, configVars, diskVars, backendVars, hostVars>>
ElectionRuns ==
    /\ which = "election" /\ Le!Next
    /\ UNCHANGED <<which, vars, configVars, diskVars, backendVars, hostVars>>
ConfigRuns ==
    /\ which = "config" /\ Cs!Next
    /\ UNCHANGED <<which, vars, electionVars, diskVars, backendVars, hostVars>>
DiskRuns ==
    /\ which = "disk" /\ Dc!Next
    /\ UNCHANGED <<which, vars, electionVars, configVars, backendVars, hostVars>>
BackendRuns ==
    /\ which = "backend" /\ Bs!Next
    /\ UNCHANGED <<which, vars, electionVars, configVars, diskVars, hostVars>>
HostRuns ==
    /\ which = "host" /\ Nh!Next
    /\ UNCHANGED <<which, vars, electionVars, configVars, diskVars, backendVars>>
\* The bounds of these parts run out; the others may never stop.
Stops == which \in {"token", "election", "config", "disk", "backend", "host"} /\ UNCHANGED allVars

MCNext ==
    TokenRuns \/ ElectionRuns \/ ConfigRuns \/ DiskRuns \/ BackendRuns \/ HostRuns \/ Stops

\* The fairness of the chosen part, as its module states it.
MCFairness ==
    /\ WF_electionVars(which = "election" /\ Le!Age)
    /\ \A p \in ElectionProcs :
         /\ WF_electionVars(which = "election" /\ Le!Loop(p))
         /\ SF_electionVars(which = "election" /\ Le!WritePid(p))
         /\ SF_electionVars(which = "election" /\ Le!Reclaim(p) /\ electionFile' = Le!Absent)
         /\ WF_electionVars(which = "election" /\ electionExiting[p] /\ Le!Exit(p))
    /\ \A h \in BackendHosts :
         /\ WF_backendVars(which = "backend" /\ Bs!Ask(h))
         /\ SF_backendVars(which = "backend" /\ Bs!TakeLock(h))
         /\ WF_backendVars(which = "backend" /\ Bs!HostStep(h))
    /\ \A p \in BackendPids : WF_backendVars(which = "backend" /\ Bs!Binds(p))
    /\ WF_backendVars(which = "backend" /\ Bs!Tick)

MCSpec == MCInit /\ [][MCNext]_allVars /\ MCFairness

-----------------------------------------------------------------------------
\* bg/leader_election.py: with advisory locks at most one leader, whoever
\* crashes, exits or starts again.
OneLeader == Le!TypeOK /\ Le!OneLeader

\* config/locks.py, config/io.py: a committed setting is in the file, and a
\* file that does not parse is never replaced.
CommittedIsKept == [](Cs!TypeOK /\ Cs!CommittedIsKept) /\ Cs!CorruptIsKept

\* credential_manager.py: between updates the keyring and the file hold the
\* credentials of the last update that succeeded.
CredentialsWhole == Cs!CredentialsWhole

\* disk_cache.py, boot.py: once the server is up no portfolio field is left in
\* the cache, and has agrees with get.
NoHoldingsOnDisk == Dc!TypeOK /\ Dc!NoHoldingsOnDisk /\ Dc!HasAgreesWithGet

\* native_host/start_backend.py: two hosts that start at once spawn one backend,
\* and while the user keeps asking, one comes.  Whoever crashes, one of the
\* backend's processes is elected again.
NoTwins ==
    /\ [](Bs!TypeOK /\ Bs!NoTwins)
    /\ which = "backend" => Bs!BackendComes
    /\ which = "election" => Le!LeaderReturns

\* native_host/native_host.py: a header is read only where a frame begins, and
\* no window sees more secrets than the budget and one.
AlignedOrClosed == Nh!TypeOK /\ Nh!AlignedOrClosed /\ Nh!SecretsBounded
=============================================================================
