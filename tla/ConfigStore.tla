---------------------------- MODULE ConfigStore ----------------------------
(***************************************************************************)
(* config.json and the keyring.  A settings update of any process takes    *)
(* the update lock, loads the configuration, writes its secrets to the     *)
(* keyring, and saves the configuration; when the save fails, the keyring  *)
(* is put back.  Readers take only their own process's lock, so a reader   *)
(* of one process and an update of another interleave.                     *)
(*                                                                         *)
(* A configuration is abstracted to the settings in it (one per process,   *)
(* its model name or prompt), the credentials that have an entry, and      *)
(* whether it names a master key.  The cache key, (mtime, size), is        *)
(* abstracted to whether it is still the file's.                           *)
(***************************************************************************)
EXTENDS Naturals, FiniteSets

CONSTANTS Procs, Keys,
          Births,           \* what the file may be at first
          FirstStarts,      \* "together", or "alone": see Alone
          MaxFaults,        \* bound: writes that fail, and crashes
          MaxReadFailures,  \* bound: reads of a good file that fail
          MaxEdits          \* bound: hand edits that leave the file unreadable

VARIABLES
    file,     \* config.json: "absent", "good" or "broken", and its contents
    ring,     \* the keyring: whose value a name holds
    owner,    \* who holds config_update_lock, or "free"
    pc, kind, \* where each process is, and in which update
    loaded,   \* what its update loaded
    before,   \* the keyring values its update found
    cache,    \* _CONFIG_CACHE of each process, and whether its key is the file's
    flagged,  \* _CONFIG_CORRUPTED of each process
    committed,\* settings an update reported saved
    wanted,   \* the credentials the last successful update left
    sealed,   \* the master key data has been sealed with
    torn,     \* a crash or a failed rollback left the keyring half written
    faults, reads, edits

vars == <<file, ring, owner, pc, kind, loaded, before, cache, flagged,
          committed, wanted, sealed, torn, faults, reads, edits>>
store == <<file, ring, owner, committed, wanted, sealed, torn>>
bounds == <<faults, reads, edits>>

Values == Procs \cup {"none", "old"}
Data == [set : SUBSET Procs, creds : SUBSET Keys, mk : BOOLEAN]
DefaultConfig == [set |-> {}, creds |-> {}, mk |-> FALSE]
NoEntry == [data |-> DefaultConfig, fresh |-> FALSE]
Names == Keys \cup {"mns_master_key"}
Master == "mns_master_key"

TypeOK ==
    /\ file \in [state : {"absent", "good", "broken"}, data : Data]
    /\ ring \in [Names -> Values] /\ owner \in Procs \cup {"free"}
    /\ pc \in [Procs -> {"idle", "missing", "load", "secrets", "save", "undo"}]
    /\ kind \in [Procs -> {"read", "setting", "credentials", "clear", "master"}]
    /\ loaded \in [Procs -> Data] /\ before \in [Procs -> [Names -> Values]]
    /\ cache \in [Procs -> [data : Data, fresh : BOOLEAN]]
    /\ flagged \in [Procs -> BOOLEAN] /\ committed \subseteq Procs
    /\ wanted \in [Keys -> Values] /\ sealed \in Values /\ torn \in BOOLEAN

\* A first start, or one with a credential and a master key stored before.
Init ==
    /\ \E had \in SUBSET Keys, b \in Births :
         /\ b = "absent" => had = {}
         /\ file = [state |-> b,
                    data |-> IF b = "absent" THEN DefaultConfig
                             ELSE [set |-> {}, creds |-> had, mk |-> TRUE]]
         /\ ring = [n \in Names |-> IF n \in had \/ (n = Master /\ b # "absent")
                                    THEN "old" ELSE "none"]
    /\ owner = "free" /\ pc = [p \in Procs |-> "idle"]
    /\ kind = [p \in Procs |-> "read"]
    /\ loaded = [p \in Procs |-> DefaultConfig]
    /\ before = [p \in Procs |-> [n \in Names |-> "none"]]
    /\ cache = [p \in Procs |-> NoEntry]
    /\ flagged = [p \in Procs |-> FALSE]
    /\ committed = {} /\ wanted = [k \in Keys |-> ring[k]]
    /\ sealed = ring[Master] /\ torn = FALSE
    /\ faults = 0 /\ reads = 0 /\ edits = 0

Goes(p, label) == pc' = [pc EXCEPT ![p] = label]
Nothing == [n \in Names |-> "none"]
\* The update of p is over, and forgets what it had loaded.
Ends(p) ==
    /\ Goes(p, "idle") /\ kind' = [kind EXCEPT ![p] = "read"]
    /\ loaded' = [loaded EXCEPT ![p] = DefaultConfig]
    /\ before' = [before EXCEPT ![p] = Nothing]
    /\ owner' = IF owner = p THEN "free" ELSE owner

WrittenMutant(d) ==  \* the cache is not keyed by the file's time
    /\ file' = [state |-> "good", data |-> d]
    /\ UNCHANGED cache

\* The file changes: no cached key is its key any more.
Written(d) ==
    /\ file' = [state |-> "good", data |-> d]
    /\ cache' = [q \in Procs |-> NoEntry]

\* load_config of an existing file returns d.
NegativeEntry == [data |-> DefaultConfig, fresh |-> TRUE]
Cached(p, d) ==
    /\ cache[p].fresh /\ d = cache[p].data
    /\ UNCHANGED <<cache, flagged, reads>>
ReadOk(p, d) ==
    /\ ~cache[p].fresh /\ file.state = "good" /\ d = file.data
    /\ cache' = [cache EXCEPT ![p] = [data |-> d, fresh |-> TRUE]]
    /\ flagged' = [flagged EXCEPT ![p] = FALSE] /\ UNCHANGED reads
ReadFails(p, d) ==
    /\ ~cache[p].fresh /\ d = DefaultConfig
    /\ file.state = "broken" \/ reads < MaxReadFailures
    /\ reads' = IF file.state = "broken" THEN reads ELSE reads + 1
    /\ cache' = [cache EXCEPT ![p] = NegativeEntry]
    /\ flagged' = [flagged EXCEPT ![p] = TRUE]
LoadConfig(p, d) == Cached(p, d) \/ ReadOk(p, d) \/ ReadFails(p, d)

\* A request reads a setting: no update lock.
Read(p) ==
    /\ pc[p] = "idle" /\ file.state # "absent"
    /\ \E d \in Data : LoadConfig(p, d)
    /\ UNCHANGED <<pc, kind, loaded, before, faults, edits>> /\ UNCHANGED store

\* Bound: no update runs while a reader creates the first file.
Alone == FirstStarts = "alone"

\* load_config finds no file, and saves the defaults, with no update lock
\* unless its caller holds it.
FindsNone(p) ==
    /\ file.state = "absent"
    /\ \/ pc[p] = "idle" /\ (Alone => owner = "free") /\ kind' = [kind EXCEPT ![p] = "read"]
       \/ pc[p] = "load" /\ UNCHANGED kind
    /\ Goes(p, "missing")
    /\ UNCHANGED <<loaded, before, cache, flagged>>
    /\ UNCHANGED store /\ UNCHANGED bounds
SavesDefaults(p) ==
    /\ pc[p] = "missing"
    /\ Goes(p, IF kind[p] = "read" THEN "idle" ELSE "load")
    /\ IF file.state = "broken" THEN UNCHANGED <<file, cache>>
                                ELSE Written(DefaultConfig)
    /\ UNCHANGED <<kind, loaded, before, flagged, ring, owner, committed,
                   wanted, sealed, torn>> /\ UNCHANGED bounds

\* config_update_lock
Enter(p, k) ==
    /\ pc[p] = "idle" /\ owner = "free" /\ owner' = p
    /\ Alone => \A q \in Procs : pc[q] # "missing"
    /\ Goes(p, "load") /\ kind' = [kind EXCEPT ![p] = k]
    \* get_or_create_master_key drops the cached configuration first
    /\ cache' = IF k = "master" THEN [cache EXCEPT ![p] = NoEntry] ELSE cache
    /\ UNCHANGED <<loaded, before, flagged, file, ring, committed, wanted,
                   sealed, torn>> /\ UNCHANGED bounds

\* save_api_credentials, clear_api_credentials, get_or_create_master_key and
\* what else saves a setting: the model, the session key, the extension token.
SaveApiCredentials(p) == Enter(p, "credentials")
ClearApiCredentials(p) == Enter(p, "clear")
GetOrCreateMasterKey(p) == Enter(p, "master")
SetModelName(p) == Enter(p, "setting")
GetFlaskSecretKey(p) == Enter(p, "setting")
GetExtensionToken(p) == Enter(p, "setting")
Update(p) ==
    \/ SaveApiCredentials(p) \/ ClearApiCredentials(p) \/ GetOrCreateMasterKey(p)
    \/ SetModelName(p) \/ GetFlaskSecretKey(p) \/ GetExtensionToken(p)

\* The update loads the configuration, and the keyring values it may change.
PutsBack(p) == kind[p] \in {"credentials", "clear"}
HasSecrets(p, d) ==
    PutsBack(p) \/ (kind[p] = "master" /\ ~d.mk)
Loads(p) ==
    /\ pc[p] = "load" /\ file.state # "absent"
    /\ \E d \in Data :
         /\ LoadConfig(p, d)
         /\ IF kind[p] = "master" /\ d.mk
            THEN /\ Ends(p)
                 /\ sealed' = IF sealed = "none" THEN ring[Master] ELSE sealed
            ELSE /\ Goes(p, IF HasSecrets(p, d) THEN "secrets" ELSE "save")
                 /\ loaded' = [loaded EXCEPT ![p] = d]
                 /\ before' = IF PutsBack(p) THEN [before EXCEPT ![p] = ring] ELSE before
                 /\ UNCHANGED <<kind, owner, sealed>>
    /\ UNCHANGED <<file, ring, committed, wanted, torn, faults, edits>>

\* _encode_secret of each new value, or delete_password of each credential.
NewRing(p) ==
    [n \in Names |->
        CASE kind[p] = "credentials" /\ n \in Keys   -> p
          [] kind[p] = "clear" /\ n \in Keys         -> "none"
          [] kind[p] = "master" /\ n = Master        -> p
          [] OTHER                                   -> ring[n]]
StoresSecrets(p) ==
    /\ pc[p] = "secrets"
    /\ \/ ring' = NewRing(p) /\ Goes(p, "save") /\ UNCHANGED faults
       \* one of them fails, after some of the others
       \/ /\ faults < MaxFaults /\ faults' = faults + 1 /\ Goes(p, "undo")
          /\ \E done \in SUBSET Keys : done # Keys /\
               ring' = [n \in Names |-> IF n \in done THEN NewRing(p)[n] ELSE ring[n]]
    /\ UNCHANGED <<kind, loaded, before, cache, flagged, file, owner, committed,
                   wanted, sealed, torn, reads, edits>>

Changed(p) ==
    CASE kind[p] = "setting"     -> [loaded[p] EXCEPT !.set = @ \cup {p}]
      [] kind[p] = "credentials" -> [loaded[p] EXCEPT !.creds = Keys]
      [] kind[p] = "clear"       -> [loaded[p] EXCEPT !.creds = {}]
      [] OTHER                   -> [loaded[p] EXCEPT !.mk = TRUE]

\* save_config.  A flag that the file no longer deserves is cleared; a file
\* that does not parse is refused, by the flag or by the backup of it, which
\* clear_api_credentials does not take.
Corrupted(p) == flagged[p] /\ file.state = "broken"
Refuses(p) == Corrupted(p) \/ (kind[p] # "clear" /\ file.state = "broken")
SaveRefused(p) ==
    /\ pc[p] = "save" /\ Refuses(p) /\ Goes(p, "undo")
    /\ flagged' = [flagged EXCEPT ![p] = TRUE]
    /\ UNCHANGED <<kind, loaded, before, cache>>
    /\ UNCHANGED store /\ UNCHANGED bounds
SaveFails(p) ==
    /\ pc[p] = "save" /\ ~Refuses(p) /\ Goes(p, "undo")
    /\ faults < MaxFaults /\ faults' = faults + 1
    /\ cache' = [cache EXCEPT ![p] = NoEntry]
    /\ flagged' = [flagged EXCEPT ![p] = FALSE]
    /\ UNCHANGED <<kind, loaded, before, reads, edits>> /\ UNCHANGED store
Saved(p) ==
    /\ pc[p] = "save" /\ ~Refuses(p)
    /\ Written(Changed(p)) /\ Ends(p)
    /\ flagged' = [flagged EXCEPT ![p] = FALSE]
    /\ committed' = IF kind[p] = "setting" THEN committed \cup {p} ELSE committed
    /\ wanted' = [k \in Keys |-> ring[k]]
    /\ sealed' = IF kind[p] = "master" /\ sealed = "none" THEN ring[Master] ELSE sealed
    /\ UNCHANGED <<ring, torn>> /\ UNCHANGED bounds

UndoMutant(p) ==  \* the keyring keeps what the failed update stored
    /\ pc[p] = "undo" /\ Ends(p)
    /\ UNCHANGED <<ring, torn, faults>>
    /\ IF kind[p] = "clear" /\ file.state = "good"
       THEN Written(loaded[p]) ELSE UNCHANGED <<file, cache>>
    /\ UNCHANGED <<flagged, committed, wanted, sealed, reads, edits>>

\* _restore_secret_storage, _restore_cleared_credentials.  The deletion also
\* saves the configuration it had loaded again.
Undo(p) ==
    /\ pc[p] = "undo" /\ Ends(p)
    /\ \/ /\ ring' = IF PutsBack(p) THEN before[p] ELSE ring
          /\ UNCHANGED <<torn, faults>>
       \/ /\ PutsBack(p) /\ faults < MaxFaults /\ faults' = faults + 1
          /\ torn' = TRUE /\ UNCHANGED ring
    /\ IF kind[p] = "clear" /\ file.state = "good"
       THEN Written(loaded[p]) ELSE UNCHANGED <<file, cache>>
    /\ UNCHANGED <<flagged, committed, wanted, sealed, reads, edits>>

\* The process ends, in its update or not, and starts again.
Crash(p) ==
    /\ pc[p] # "idle" /\ faults < MaxFaults /\ faults' = faults + 1
    /\ Ends(p)
    /\ torn' = (torn \/ (pc[p] \in {"save", "undo"} /\ PutsBack(p)))
    /\ cache' = [cache EXCEPT ![p] = NoEntry]
    /\ flagged' = [flagged EXCEPT ![p] = FALSE]
    /\ UNCHANGED <<file, ring, committed, wanted, sealed, reads, edits>>

\* Somebody edits the file by hand, badly, and later puts it right (bound: not
\* while an update runs; breaking it may meet any update but the deletion,
\* which takes no backup and would not notice after its load).
Break ==
    /\ file.state = "good" /\ edits < MaxEdits /\ edits' = edits + 1
    /\ \A p \in Procs : pc[p] \notin {"idle", "load"} => kind[p] # "clear"
    /\ file' = [file EXCEPT !.state = "broken"]
    /\ cache' = [q \in Procs |-> NoEntry]
    /\ UNCHANGED <<ring, owner, pc, kind, loaded, before, flagged, committed,
                   wanted, sealed, torn, faults, reads>>
Repair ==
    /\ file.state = "broken" /\ owner = "free" /\ Written(file.data)
    /\ UNCHANGED <<ring, owner, pc, kind, loaded, before, flagged, committed,
                   wanted, sealed, torn, faults, reads, edits>>

Step(p) ==
    \/ Read(p) \/ FindsNone(p) \/ SavesDefaults(p)
    \/ Update(p)
    \/ Loads(p) \/ StoresSecrets(p)
    \/ SaveRefused(p) \/ SaveFails(p) \/ Saved(p) \/ Undo(p) \/ Crash(p)
Next == (\E p \in Procs : Step(p)) \/ Break \/ Repair
Spec == Init /\ [][Next]_vars

(***************************************************************************)
(* Properties                                                              *)
(***************************************************************************)
\* A setting an update reported saved is in the file, whatever the updates of
\* the other processes wrote since (config/locks.py: no update is lost).
CommittedIsKept == file.state = "good" => committed \subseteq file.data.set

\* Between updates the keyring holds the credentials of the last update that
\* succeeded, and the file has an entry for exactly these: an update that
\* failed half way leaves nothing behind (unless it crashed, or could not put
\* the keyring back).
CredentialsWhole ==
    (owner = "free" /\ ~torn) =>
        /\ \A k \in Keys : ring[k] = wanted[k]
        /\ file.data.creds = {k \in Keys : ring[k] # "none"}

\* The program never replaces a file that does not parse: only the hand that
\* broke it puts it right.
CorruptIsKept == [][file.state = "broken" => file'.data = file.data]_vars

\* The master key that data was sealed with stays in the keyring
\* (config/master_key.py fails closed rather than orphan the data).
KeyOpensData == sealed # "none" => ring[Master] = sealed
=============================================================================
