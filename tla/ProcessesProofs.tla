--------------------------- MODULE ProcessesProofs --------------------------
(***************************************************************************)
(* Proofs about what processes share through files, locks and the keyring: *)
(* the shutdown token, for any callers, tokens and starts; the             *)
(* configuration and the credentials, for any processes, credentials,      *)
(* faults and hand edits; the disk cache, for any keys, caps and lives.    *)
(***************************************************************************)
EXTENDS MCProcesses, PlacesProofs, SequenceTheorems

-----------------------------------------------------------------------------
(* The shutdown token.                                                     *)

Unused(t) == t \in Tokens => spent[t] = 0

\* A spent token in a file is covered by a marker that the start will see.
Marked ==
    \/ marker
    \/ boot \in {"load", "write"} /\ wasUsed
    \/ boot \notin {"checkMarker", "load", "write"} /\ legacyMarker

\* At most one caller is inside the lock, and only while the server is up.
Exclusion ==
    \A c \in Callers : pc[c] \in Locked =>
        boot = "up" /\ \A d \in Callers : pc[d] \in Locked => d = c

\* What a caller inside the lock, or on its way to it, may rely on.
CallerInv ==
    \A c \in Callers :
        /\ pc[c] = "marked" => mem \in Tokens /\ ~used /\ marker
        /\ pc[c] \in {"validated", "marked"} => presented[c] \in Tokens
        /\ pc[c] \in {"written", "unmarked"} => file \in Tokens

\* The local was_used remembers a marker that could not be removed.
BootInv == boot \in {"load", "write"} /\ marker => wasUsed

\* Tokens not yet created are unspent.
Fresh == \A t \in Tokens : t >= next => spent[t] = 0

\* The heart of the argument, as long as no start was torn.
Sound ==
    /\ \A t \in Tokens : spent[t] <= 1
    /\ ~used => Unused(mem)
    /\ ~Marked => Unused(file)
    /\ ~Marked /\ file = None => Unused(legacyFile)
    /\ \A c \in Callers : pc[c] \in {"written", "unmarked"} => Unused(file)

IInv == TypeOK /\ Exclusion /\ CallerInv /\ BootInv /\ Fresh /\ (~torn => Sound)

-----------------------------------------------------------------------------
LEMMA InitIInv == Init => IInv
<1> SUFFICES ASSUME Init PROVE IInv
  OBVIOUS
<1> USE LegacyAssumption, BoundsAssumption DEF Init
<1>1. legacyFile \in Tokens \cup {None} /\ legacyFile < next
  BY DEF Tokens, None
<1>2. TypeOK
  <2>1. spent \in [Tokens -> Nat] /\ authorised \in [Tokens -> Nat]
    OBVIOUS
  <2>2. next \in 1..(MaxTokens + 1) /\ file < next /\ mem < next
    BY DEF Tokens, None
  <2>3. pc \in [Callers -> CallerSteps] /\ presented \in [Callers -> Tokens \cup {None}]
    BY DEF CallerSteps
  <2> QED
    BY <1>1, <2>2, <2>3 DEF TypeOK, BootSteps
<1>3. Exclusion /\ CallerInv /\ BootInv
  BY DEF Exclusion, CallerInv, BootInv, Locked
<1>4. Fresh
  BY <1>1 DEF Fresh, Tokens, None
<1>5. Sound
  BY DEF Sound, Marked, Unused, Tokens, None
<1> QED
  BY <1>2, <1>3, <1>4, <1>5 DEF IInv

\* The steps of a start: no caller is inside the lock, and each step keeps a
\* spent token covered or records that it could not.
LEMMA BootIInv == IInv /\ BootStep => IInv'
<1> SUFFICES ASSUME IInv, BootStep PROVE IInv'
  OBVIOUS
<1> USE DEF IInv, disk, memory, callers, history
<1>1. UNCHANGED <<pc, presented, spent, authorised>> /\ boot # "up"
  BY DEF BootStep, Start, Rebootstrap, MigrateToken, MigrateMarker, CheckMarker, LoadToken,
     WriteToken, Serve
<1>2. /\ \A c \in Callers : pc[c] \notin Locked
      /\ \A c \in Callers : pc[c] \notin {"marked", "written", "unmarked"}
  BY <1>1 DEF Exclusion, Locked
<1>3. Exclusion' /\ CallerInv'
  BY <1>1, <1>2 DEF Exclusion, CallerInv
<1>4. CASE Start
  BY <1>3, <1>4 DEF Start, TypeOK, BootSteps, BootInv, Fresh, Sound, Marked, Unused
<1>5. CASE Rebootstrap
  BY <1>3, <1>5 DEF Rebootstrap, TypeOK, BootSteps, BootInv, Fresh, Sound, Marked, Unused
<1>6. CASE MigrateToken
  <2>1. TypeOK' /\ BootInv' /\ Fresh'
    BY <1>6 DEF MigrateToken, TypeOK, BootSteps, BootInv, Fresh
  <2>2. ~torn => Sound'
    BY <1>2, <1>6 DEF MigrateToken, Sound, Marked, Unused
  <2> QED
    BY <1>3, <1>6, <2>1, <2>2 DEF MigrateToken
<1>7. CASE MigrateMarker
  <2>1. TypeOK' /\ BootInv' /\ Fresh'
    BY <1>7 DEF MigrateMarker, TypeOK, BootSteps, BootInv, Fresh
  <2>2. ~torn' => Sound'
    BY <1>7 DEF MigrateMarker, Sound, Marked, Unused
  <2> QED
    BY <1>3, <2>1, <2>2
<1>8. CASE CheckMarker
  <2>0. marker' \in BOOLEAN /\ wasUsed' \in BOOLEAN
    BY <1>8, Zenon DEF CheckMarker, TypeOK
  <2>1. TypeOK' /\ BootInv' /\ Fresh'
    BY <1>8, <2>0 DEF CheckMarker, TypeOK, BootSteps, BootInv, Fresh
  <2>2. ~torn => Sound'
    BY <1>8 DEF CheckMarker, Sound, Marked, Unused
  <2> QED
    BY <1>3, <1>8, <2>1, <2>2 DEF CheckMarker
<1>9. CASE LoadToken
  <2>1. TypeOK' /\ BootInv' /\ Fresh'
    BY <1>9 DEF LoadToken, TypeOK, BootSteps, BootInv, Fresh
  <2>2. ~torn => Sound'
    BY <1>9 DEF LoadToken, Sound, Marked, Unused, BootInv
  <2> QED
    BY <1>3, <1>9, <2>1, <2>2 DEF LoadToken
<1>10. CASE WriteToken
  <2>0. torn' \in BOOLEAN
    BY <1>10, Zenon DEF WriteToken, TypeOK
  <2>1. TypeOK'
    <3>1. /\ next' \in 1..(MaxTokens + 1) /\ next' = next + 1 /\ next \in Tokens
          /\ file' \in {file, next} /\ mem' = next
      BY <1>10, BoundsAssumption DEF WriteToken, TypeOK, Tokens
    <3>2. file' \in Tokens \cup {None} /\ file' < next' /\ mem' < next' /\ legacyFile' < next'
      BY <1>10 DEF WriteToken, TypeOK
    <3>3. boot' \in BootSteps /\ used' \in BOOLEAN
      BY <1>10 DEF WriteToken, BootSteps
    <3> QED
      BY <1>10, <3>1, <3>3 DEF WriteToken, TypeOK
  <2>4. BootInv' /\ Fresh'
    BY <1>10 DEF WriteToken, TypeOK, BootInv, Fresh
  <2>2. Unused(next) /\ next # None
    BY DEF Fresh, Unused, TypeOK, None
  <2>3. ~torn' => Sound'
    BY <1>10, <2>2 DEF WriteToken, TypeOK, Sound, Marked, Unused
  <2> QED
    BY <1>3, <2>1, <2>3, <2>4
<1>11. CASE Serve
  BY <1>3, <1>11 DEF Serve, TypeOK, BootSteps, BootInv, Fresh, Sound, Marked, Unused
<1> QED
  BY <1>4, <1>5, <1>6, <1>7, <1>8, <1>9, <1>10, <1>11 DEF BootStep

LEMMA CrashIInv == IInv /\ Crash => IInv'
<1> SUFFICES ASSUME IInv, Crash PROVE IInv'
  OBVIOUS
<1> USE DEF IInv, Crash, disk, history
<1>1. TypeOK'
  <2>1. torn' \in BOOLEAN
    OBVIOUS
  <2>2. pc' \in [Callers -> CallerSteps] /\ presented' \in [Callers -> Tokens \cup {None}]
    BY DEF CallerSteps
  <2>3. mem' \in Tokens \cup {None} /\ used' \in BOOLEAN /\ wasUsed' \in BOOLEAN
    OBVIOUS
  <2>4. next \in Nat \ {0} /\ mem' = 0
    BY BoundsAssumption DEF TypeOK, None
  <2>5. boot' \in BootSteps
    BY DEF BootSteps
  <2> QED
    BY <2>2, <2>3, <2>4, <2>5 DEF TypeOK
<1>2. Exclusion' /\ CallerInv' /\ BootInv' /\ Fresh'
  BY DEF Exclusion, CallerInv, BootInv, Fresh, Locked
<1>3. ~torn' => Sound'
  BY DEF TypeOK, Sound, Marked, Unused, None, Tokens
<1> QED
  BY <1>1, <1>2, <1>3

\* Entering the lock: the marker is on the disk and the caller is alone.
LEMMA PersistIInv ==
  ASSUME IInv, NEW c \in Callers, PersistMarker(c), LockFree, Unspent,
         presented' \in [Callers -> Tokens \cup {None}], presented'[c] \in Tokens,
         \A d \in Callers \ {c} : presented'[d] = presented[d]
  PROVE  IInv'
<1> USE DEF IInv, PersistMarker, memory, history
<1>1. TypeOK' /\ BootInv' /\ Fresh'
  BY DEF TypeOK, BootInv, Fresh, CallerSteps, Locked, LockFree
<1>2. Exclusion' /\ CallerInv'
  BY DEF Exclusion, CallerInv, TypeOK, LockFree, Unspent
<1>3. ~torn => Sound'
  BY DEF Sound, Marked, Unused
<1> QED
  BY <1>1, <1>2, <1>3

\* Marking the token used is the one step that spends it.
LEMMA AcceptIInv ==
  ASSUME IInv, NEW c \in Callers, Accept(c)
  PROVE  IInv'
<1> USE DEF IInv, Accept, disk
<1>1. mem \in Tokens /\ ~used /\ marker /\ presented[c] \in Tokens /\ pc[c] \in Locked
  BY DEF CallerInv, Locked
<1>2. \A d \in Callers \ {c} : pc'[d] = pc[d] /\ pc[d] \notin Locked
  BY <1>1 DEF Exclusion, TypeOK
<1>3. pc'[c] \in {"rotate", "done"}
  BY DEF TypeOK
<1>4. TypeOK'
  BY <1>1, <1>3 DEF TypeOK, CallerSteps
<1>5. Exclusion' /\ CallerInv' /\ BootInv'
  BY <1>1, <1>3 DEF Exclusion, CallerInv, BootInv
<1>6. Fresh'
  BY <1>1 DEF Fresh, TypeOK, Tokens
<1>7. ASSUME ~torn PROVE Sound'
  <2>1. spent[mem] = 0
    BY <1>1, <1>7 DEF Sound, Unused
  <2>2. \A t \in Tokens : spent'[t] <= 1
    BY <1>1, <1>7, <2>1 DEF Sound, TypeOK
  <2> QED
    BY <1>1, <1>2, <2>2 DEF Sound, Marked, Locked
<1> QED
  BY <1>4, <1>5, <1>6, <1>7

LEMMA CallerIInv ==
  ASSUME IInv, NEW c \in Callers, CallerStep(c)
  PROVE  IInv'
<1> USE DEF IInv, disk, memory, history
<1>1. CASE Consume(c)
  <2>1. /\ PersistMarker(c) /\ LockFree /\ Unspent
        /\ presented' = [presented EXCEPT ![c] = mem] /\ mem \in Tokens
    BY <1>1 DEF Consume
  <2> QED
    BY <2>1, PersistIInv DEF TypeOK
<1>2. CASE Validate(c)
  <2>1. TypeOK' /\ BootInv' /\ Fresh'
    BY <1>2 DEF Validate, TypeOK, BootInv, Fresh, CallerSteps
  <2>2. Exclusion' /\ CallerInv'
    BY <1>2 DEF Validate, Exclusion, CallerInv, TypeOK, Locked
  <2>3. ~torn => Sound'
    BY <1>2 DEF Validate, Sound, Marked, Unused
  <2> QED
    BY <1>2, <2>1, <2>2, <2>3 DEF Validate
<1>3. CASE Commit(c)
  <2>1. CASE Unspent
    <3>1. presented[c] \in Tokens
      BY <1>3 DEF Commit, CallerInv
    <3> QED
      BY <1>3, <2>1, <3>1, PersistIInv DEF Commit, TypeOK
  <2>2. CASE ~Unspent
    <3>1. TypeOK' /\ BootInv' /\ Fresh'
      BY <1>3, <2>2 DEF Commit, TypeOK, BootInv, Fresh, CallerSteps
    <3>2. Exclusion' /\ CallerInv'
      BY <1>3, <2>2 DEF Commit, Exclusion, CallerInv, TypeOK, Locked
    <3>3. ~torn => Sound'
      BY <1>3, <2>2 DEF Commit, TypeOK, Sound, Marked, Unused
    <3> QED
      BY <1>3, <2>2, <3>1, <3>2, <3>3 DEF Commit
  <2> QED
    BY <2>1, <2>2
<1>4. CASE Accept(c)
  BY <1>4, AcceptIInv
<1>5. CASE RotateWrite(c)
  <2>1. Unused(next) /\ next \in Tokens /\ next # None
    BY <1>5 DEF RotateWrite, Fresh, Unused, TypeOK, None
  <2>2. TypeOK' /\ BootInv' /\ Fresh'
    BY <1>5, BoundsAssumption DEF RotateWrite, TypeOK, BootInv, Fresh, CallerSteps, Locked,
       Tokens
  <2>3. Exclusion' /\ CallerInv'
    BY <1>5 DEF RotateWrite, Exclusion, CallerInv, LockFree
  <2>4. ~torn => Sound'
    BY <1>5, <2>1 DEF RotateWrite, Sound, Unused
  <2> QED
    BY <1>5, <2>2, <2>3, <2>4 DEF RotateWrite
<1>6. CASE RotateFails(c)
  <2>1. TypeOK' /\ BootInv' /\ Fresh'
    BY <1>6 DEF RotateFails, TypeOK, BootInv, Fresh, CallerSteps
  <2>2. Exclusion' /\ CallerInv'
    BY <1>6 DEF RotateFails, Exclusion, CallerInv, Locked
  <2>3. ~torn => Sound'
    BY <1>6 DEF RotateFails, Sound, Marked, Unused
  <2> QED
    BY <1>6, <2>1, <2>2, <2>3 DEF RotateFails
<1>7. CASE RotateUnmark(c)
  <2>0. marker' \in BOOLEAN /\ legacyMarker' \in BOOLEAN
    BY <1>7, Zenon DEF RotateUnmark, TypeOK
  <2>1. TypeOK' /\ BootInv' /\ Fresh'
    BY <1>7, <2>0 DEF RotateUnmark, TypeOK, BootInv, Fresh, CallerSteps, Locked
  <2>2. \A d \in Callers \ {c} : pc[d] \notin Locked
    BY <1>7 DEF RotateUnmark, Exclusion, Locked
  <2>3. Exclusion' /\ CallerInv'
    BY <1>7 DEF RotateUnmark, Exclusion, CallerInv, Locked
  <2>4. file \in Tokens /\ file # None
    BY <1>7 DEF RotateUnmark, CallerInv, Tokens, None
  <2>5. ~torn => Sound'
    BY <1>7, <2>4 DEF RotateUnmark, Sound, Unused
  <2> QED
    BY <1>7, <2>1, <2>3, <2>5 DEF RotateUnmark
<1>8. CASE RotatePublish(c)
  <2>1. TypeOK' /\ BootInv' /\ Fresh'
    BY <1>8 DEF RotatePublish, TypeOK, BootInv, Fresh, CallerSteps
  <2>2. \A d \in Callers \ {c} : pc[d] \notin Locked
    BY <1>8 DEF RotatePublish, Exclusion, Locked
  <2>3. Exclusion' /\ CallerInv'
    BY <1>8 DEF RotatePublish, Exclusion, CallerInv, Locked
  <2>4. ~torn => Sound'
    BY <1>8 DEF RotatePublish, Sound, Marked, Unused
  <2> QED
    BY <1>8, <2>1, <2>3, <2>4 DEF RotatePublish
<1> QED
  BY <1>1, <1>2, <1>3, <1>4, <1>5, <1>6, <1>7, <1>8 DEF CallerStep

LEMMA IInvHolds == Spec => []IInv
<1>1. IInv /\ [Next]_vars => IInv'
  <2> SUFFICES ASSUME IInv, [Next]_vars PROVE IInv'
    OBVIOUS
  <2>1. CASE UNCHANGED vars
    BY <2>1 DEF vars, disk, memory, callers, history, IInv, TypeOK, Exclusion, CallerInv,
       BootInv, Fresh, Sound, Marked, Unused
  <2> QED
    BY <2>1, BootIInv, CrashIInv, CallerIInv DEF Next
<1> QED
  BY <1>1, InitIInv, PTL DEF Spec

\* Types, and every token in use has been created (get_or_create_shutdown_token
\* and rotate_shutdown_token).
THEOREM TypesHold == Spec => []TypeOK
<1>1. IInv => TypeOK
  BY DEF IInv
<1> QED
  BY <1>1, IInvHolds, PTL

\* A token is spent at most once whatever the callers, the write failures, the
\* crashes and the restarts, unless a start lost the used-marker
\* (shutdown_manager.py).
THEOREM SpentOnce == Spec => []SingleUse
<1>1. IInv => SingleUse
  BY DEF IInv, SingleUse, Sound
<1> QED
  BY <1>1, IInvHolds, PTL

\* A spent token left in the file is always accompanied by a marker
\* (_persist_used_marker before shutdown_token_used).
THEOREM SpentIsMarked == Spec => []ConsumptionIsDurable
<1>1. IInv => ConsumptionIsDurable
  BY DEF IInv, ConsumptionIsDurable, Sound, Marked, Unused, TypeOK
<1> QED
  BY <1>1, IInvHolds, PTL

-----------------------------------------------------------------------------
(* The configuration and the credentials.                                  *)

Updating == {"secrets", "save", "undo"}

\* One update at a time; no update runs while somebody creates the file.
Mutex == \A p \in ConfigProcs :
    /\ configPc[p] = "idle" => configKind[p] = "read" /\ configOwner # p
    /\ configPc[p] = "load" \/ configPc[p] \in Updating => configKind[p] # "read"
    /\ configPc[p] # "idle" => configOwner = (IF configKind[p] = "read" THEN "free" ELSE p)

\* Who found no file has missed no settings.
Blank ==
    /\ \A p \in ConfigProcs : configPc[p] = "missing" => configFile.data = Cs!DefaultConfig
    /\ configFile.state = "absent" => configFile.data = Cs!DefaultConfig
    /\ configFile.state = "absent" => \A p \in ConfigProcs : ~configCache[p].fresh /\ configPc[p] \notin Updating

\* What is cached is what the file holds, or the mark of a broken file.
CacheTrue ==
    /\ configReads = 0
    /\ \A p \in ConfigProcs : configCache[p].fresh =>
          IF configFile.state = "broken" THEN configFlagged[p] ELSE configCache[p].data = configFile.data

\* What an update loaded is still in the file, or the file is broken, and then
\* the deletion of credentials has been told.
Loaded == \A p \in ConfigProcs : configPc[p] \in Updating =>
    IF configFile.state = "broken" THEN configKind[p] = "clear" /\ configPc[p] # "undo" => configFlagged[p]
    ELSE configLoaded[p] = configFile.data

SettingsKept == configCommitted \subseteq configFile.data.set

\* The entries of the file, the keyring and what an update will put back.
Entries == ~configTorn => configFile.data.creds = {k \in Credentials : configWanted[k] # "none"}
RingWanted ==
    ~configTorn /\ (\A p \in ConfigProcs : configPc[p] \in {"save", "undo"} => ~Cs!PutsBack(p))
        => \A k \in Credentials : configRing[k] = configWanted[k]
BeforeWanted ==
    ~configTorn => \A p \in ConfigProcs : configPc[p] \in Updating /\ Cs!PutsBack(p)
                => \A k \in Credentials : configBefore[p][k] = configWanted[k]
RingNew == \A p \in ConfigProcs : configPc[p] = "save" =>
    /\ configKind[p] = "credentials" => \A k \in Credentials : configRing[k] = p
    /\ configKind[p] = "clear" => \A k \in Credentials : configRing[k] = "none"

ConfigInv ==
    /\ Cs!TypeOK /\ Mutex /\ Blank /\ CacheTrue /\ Loaded /\ SettingsKept
    /\ Entries /\ RingWanted /\ BeforeWanted /\ RingNew

Entry == [data : Cs!Data, fresh : BOOLEAN]
LEMMA EntryTypes ==
    /\ Cs!DefaultConfig \in Cs!Data /\ Cs!NoEntry \in Entry /\ Cs!NegativeEntry \in Entry
    /\ \A d \in Cs!Data : [data |-> d, fresh |-> TRUE] \in Entry
  BY DEF Cs!DefaultConfig, Cs!Data, Cs!NoEntry, Cs!NegativeEntry, Entry

LEMMA EntryStored ==
    ASSUME configCache \in [ConfigProcs -> Entry], NEW p \in ConfigProcs, NEW e \in Entry,
           configCache' = [configCache EXCEPT ![p] = e]
    PROVE  configCache' \in [ConfigProcs -> Entry]
  OBVIOUS

LEMMA WrittenTypes ==
    ASSUME NEW d \in Cs!Data, Cs!Written(d)
    PROVE  /\ configFile' \in [state : {"absent", "good", "broken"}, data : Cs!Data]
           /\ configCache' \in [ConfigProcs -> Entry]
           /\ configFile'.data = d
           /\ configFile'.state = "good"
           /\ \A p \in ConfigProcs : ~configCache'[p].fresh
<1>1. /\ configFile' = [state |-> "good", data |-> d]
      /\ configCache' = [q \in ConfigProcs |-> Cs!NoEntry]
  BY DEF Cs!Written
<1>2. Cs!NoEntry \in Entry /\ ~Cs!NoEntry.fresh
  BY EntryTypes DEF Cs!NoEntry
<1> QED BY <1>1, <1>2

\* A configuration that is loaded is that of the file, or the defaults for a
\* broken file.
LEMMA LoadTells ==
    ASSUME ConfigInv, NEW p \in ConfigProcs, NEW d \in Cs!Data, Cs!LoadConfig(p, d), configFile' = configFile
    PROVE  /\ configCache' \in [ConfigProcs -> Entry] /\ configFlagged' \in [ConfigProcs -> BOOLEAN]
           /\ IF configFile.state = "broken" THEN configFlagged'[p] ELSE d = configFile.data
           /\ \A q \in ConfigProcs \ {p} : configCache'[q] = configCache[q] /\ configFlagged'[q] = configFlagged[q]
           /\ CacheTrue'
<1>1. configCache \in [ConfigProcs -> Entry] /\ configFlagged \in [ConfigProcs -> BOOLEAN]
  BY DEF ConfigInv, Cs!TypeOK, Entry
<1>2. CASE Cs!Cached(p, d)
  BY <1>1, <1>2 DEF ConfigInv, CacheTrue, Cs!Cached
<1>3. CASE Cs!ReadOk(p, d)
  <2> DEFINE e == [data |-> d, fresh |-> TRUE]
  <2>1. e \in Entry /\ e.data = d
    BY EntryTypes
  <2>2. /\ configCache' = [configCache EXCEPT ![p] = e]
        /\ configFlagged' = [configFlagged EXCEPT ![p] = FALSE]
        /\ configReads' = configReads /\ configFile.state = "good" /\ d = configFile.data
    BY <1>3 DEF Cs!ReadOk
  <2> HIDE DEF e
  <2> QED BY <1>1, <2>1, <2>2 DEF ConfigInv, CacheTrue
<1>4. CASE Cs!ReadFails(p, d)
  <2>1. configFile.state = "broken"
    BY <1>4 DEF Cs!ReadFails, ConfigInv, CacheTrue
  <2>2. /\ configCache' = [configCache EXCEPT ![p] = Cs!NegativeEntry]
        /\ configFlagged' = [configFlagged EXCEPT ![p] = TRUE] /\ configReads' = configReads
    BY <1>4, <2>1 DEF Cs!ReadFails
  <2> QED BY <1>1, <2>1, <2>2, EntryTypes DEF ConfigInv, CacheTrue
<1> QED BY <1>2, <1>3, <1>4 DEF Cs!LoadConfig

\* The end of an update.
LEMMA EndsTypes ==
    ASSUME ConfigInv, NEW p \in ConfigProcs, Cs!Ends(p)
    PROVE  /\ configPc' \in [ConfigProcs -> {"idle", "missing", "load", "secrets", "save", "undo"}]
           /\ configKind' \in [ConfigProcs -> {"read", "setting", "credentials", "clear", "master"}]
           /\ configLoaded' \in [ConfigProcs -> Cs!Data]
           /\ configBefore' \in [ConfigProcs -> [Cs!Names -> Cs!Values]]
           /\ configOwner' \in ConfigProcs \cup {"free"}
<1>1. Cs!Nothing \in [Cs!Names -> Cs!Values]
  BY DEF Cs!Nothing, Cs!Values
<1>2. configLoaded' \in [ConfigProcs -> Cs!Data]
  BY EntryTypes DEF ConfigInv, Cs!TypeOK, Cs!Ends
<1>3. configBefore' \in [ConfigProcs -> [Cs!Names -> Cs!Values]]
  BY <1>1 DEF ConfigInv, Cs!TypeOK, Cs!Ends
<1> QED BY <1>2, <1>3 DEF ConfigInv, Cs!TypeOK, Cs!Ends, Cs!Goes

\* A request reads a setting.
LEMMA ReadKeeps == ASSUME ConfigInv, NEW p \in ConfigProcs, Cs!Read(p) PROVE ConfigInv'
<1>1. Cs!TypeOK'
  <2>1. PICK d \in Cs!Data : Cs!LoadConfig(p, d) /\ configFile' = configFile
    BY DEF Cs!Read, Cs!store
  <2>2. configCache' \in [ConfigProcs -> Entry] /\ configFlagged' \in [ConfigProcs -> BOOLEAN]
    BY <2>1, LoadTells
  <2> QED BY <2>2 DEF ConfigInv, Cs!TypeOK, Entry, Cs!Read, Cs!store
<1>2. Mutex'
  BY DEF ConfigInv, Mutex, Cs!Read, Cs!store
<1>3. Blank'
  BY DEF ConfigInv, Blank, Cs!Read, Cs!store
<1>4. CacheTrue'
  BY LoadTells DEF Cs!Read, Cs!store
<1>5. Loaded'
  BY DEF ConfigInv, Loaded, Cs!TypeOK, Cs!Read, Cs!LoadConfig, Cs!Cached, Cs!ReadOk,
     Cs!ReadFails, Cs!store
<1>6. SettingsKept'
  BY DEF ConfigInv, SettingsKept, Cs!Read, Cs!store
<1>7. Entries'
  BY DEF ConfigInv, Entries, Cs!Read, Cs!store
<1>8. RingWanted'
  BY DEF ConfigInv, RingWanted, Cs!PutsBack, Cs!Read, Cs!store
<1>9. BeforeWanted'
  BY DEF ConfigInv, BeforeWanted, Cs!PutsBack, Cs!Read, Cs!store
<1>10. RingNew'
  BY DEF ConfigInv, RingNew, Cs!Read, Cs!store
<1> QED BY <1>1, <1>2, <1>3, <1>4, <1>5, <1>6, <1>7, <1>8, <1>9, <1>10 DEF ConfigInv

\* Nobody has created the file.
LEMMA FindsNoneKeeps == ASSUME ConfigInv, NEW p \in ConfigProcs, Cs!FindsNone(p) PROVE ConfigInv'
<1>1. Cs!TypeOK'
  BY DEF ConfigInv, Cs!TypeOK, Cs!FindsNone, Cs!Goes, Cs!store
<1>2. Mutex'
  BY DEF ConfigInv, Mutex, Updating, Cs!TypeOK, Cs!FindsNone, Cs!Goes, Cs!Alone, Cs!store
<1>3. Blank'
  BY DEF ConfigInv, Blank, Updating, Cs!FindsNone, Cs!Goes, Cs!store
<1>4. CacheTrue'
  BY DEF ConfigInv, CacheTrue, Blank, Cs!FindsNone, Cs!bounds
<1>5. Loaded'
  BY DEF ConfigInv, Loaded, Blank, Updating, Cs!FindsNone, Cs!Goes
<1>6. SettingsKept'
  BY DEF ConfigInv, SettingsKept, Cs!FindsNone, Cs!store
<1>7. Entries'
  BY DEF ConfigInv, Entries, Cs!FindsNone, Cs!store
<1>8. RingWanted'
  BY DEF ConfigInv, RingWanted, Cs!TypeOK, Cs!PutsBack, Cs!FindsNone, Cs!Goes, Cs!store
<1>9. BeforeWanted'
  BY ConfigAssumption DEF ConfigInv, BeforeWanted, Mutex, Updating, Cs!FindsNone, Cs!Goes,
     Cs!Alone
<1>10. RingNew'
  BY ConfigAssumption DEF ConfigInv, RingNew, Mutex, Updating, Cs!FindsNone, Cs!Goes,
     Cs!Alone
<1> QED BY <1>1, <1>2, <1>3, <1>4, <1>5, <1>6, <1>7, <1>8, <1>9, <1>10 DEF ConfigInv

\* The file is created, or created again with nothing in it yet.
LEMMA SavesDefaultsKeeps ==
  ASSUME ConfigInv, NEW p \in ConfigProcs, Cs!SavesDefaults(p)
  PROVE  ConfigInv'
<1>1. Cs!TypeOK'
  <2>1. /\ configFile' \in [state : {"absent", "good", "broken"}, data : Cs!Data]
        /\ configCache' \in [ConfigProcs -> Entry]
    BY WrittenTypes, EntryTypes DEF ConfigInv, Cs!TypeOK, Entry, Cs!SavesDefaults
  <2>2. configPc' \in [ConfigProcs -> {"idle", "missing", "load", "secrets", "save", "undo"}]
    BY DEF ConfigInv, Cs!TypeOK, Cs!SavesDefaults, Cs!Goes
  <2> QED BY <2>1, <2>2 DEF ConfigInv, Cs!TypeOK, Entry, Cs!SavesDefaults
<1>2. Mutex'
  BY ConfigAssumption DEF ConfigInv, Mutex, Updating, Cs!SavesDefaults, Cs!Goes
<1>3. Blank'
  BY DEF ConfigInv, Blank, Cs!SavesDefaults, Cs!Written
<1>4. CacheTrue'
  BY DEF ConfigInv, CacheTrue, Cs!SavesDefaults, Cs!Written, Cs!NoEntry, Cs!bounds
<1>5. Loaded'
  BY ConfigAssumption DEF ConfigInv, Loaded, Mutex, Updating, Cs!SavesDefaults, Cs!Goes
<1>6. SettingsKept'
  BY DEF ConfigInv, SettingsKept, Blank, Cs!DefaultConfig, Cs!SavesDefaults
<1>7. Entries'
  BY DEF ConfigInv, Entries, Blank, Cs!SavesDefaults, Cs!Written
<1>8. RingWanted'
  BY ConfigAssumption DEF ConfigInv, RingWanted, Mutex, Updating, Cs!SavesDefaults
<1>9. BeforeWanted'
  BY ConfigAssumption DEF ConfigInv, BeforeWanted, Mutex, Updating, Cs!SavesDefaults,
     Cs!Goes
<1>10. RingNew'
  BY DEF ConfigInv, RingNew, Cs!SavesDefaults, Cs!Goes
<1> QED BY <1>1, <1>2, <1>3, <1>4, <1>5, <1>6, <1>7, <1>8, <1>9, <1>10 DEF ConfigInv

\* An update takes the lock.
LEMMA UpdateKeeps == ASSUME ConfigInv, NEW p \in ConfigProcs, Cs!Update(p) PROVE ConfigInv'
<1>1. PICK k \in {"setting", "credentials", "clear", "master"} : Cs!Enter(p, k)
  BY DEF Cs!Update, Cs!SaveApiCredentials, Cs!ClearApiCredentials,
     Cs!GetOrCreateMasterKey, Cs!SetModelName, Cs!GetFlaskSecretKey, Cs!GetExtensionToken
<1>2. configPc' = [configPc EXCEPT ![p] = "load"] /\ configKind' = [configKind EXCEPT ![p] = k]
  BY <1>1 DEF Cs!Enter, Cs!Goes
<1>3. /\ configPc'[p] = "load" /\ configKind'[p] = k
      /\ \A q \in ConfigProcs \ {p} : configPc'[q] = configPc[q] /\ configKind'[q] = configKind[q]
  BY <1>2 DEF ConfigInv, Cs!TypeOK
<1>4. Cs!TypeOK'
  <2>1. configCache' \in [ConfigProcs -> Entry]
    BY <1>1, EntryTypes DEF ConfigInv, Cs!TypeOK, Entry, Cs!Enter
  <2>2. /\ configPc' \in [ConfigProcs -> {"idle", "missing", "load", "secrets", "save", "undo"}]
        /\ configKind' \in [ConfigProcs -> {"read", "setting", "credentials", "clear", "master"}]
        /\ configOwner' \in ConfigProcs \cup {"free"}
    BY <1>1, <1>2 DEF ConfigInv, Cs!TypeOK, Cs!Enter
  <2> QED BY <1>1, <2>1, <2>2 DEF ConfigInv, Cs!TypeOK, Entry, Cs!Enter
<1>5. Mutex'
  <2>1. \A q \in ConfigProcs : configPc[q] = "idle" \/ configKind[q] = "read"
    BY <1>1, ConfigAssumption DEF ConfigInv, Mutex, Cs!Enter
  <2>2. configOwner' = p /\ configOwner = "free" /\ \A q \in ConfigProcs : configPc[q] # "missing"
    BY <1>1 DEF Cs!Enter, Cs!Alone
  <2>3. \A q \in ConfigProcs : configPc[q] = "idle"
    BY <2>1, <2>2 DEF ConfigInv, Mutex, Updating, Cs!TypeOK
  <2> QED BY <1>3, <2>2, <2>3 DEF ConfigInv, Mutex, Updating
<1>6. Blank'
  BY <1>1, <1>3 DEF ConfigInv, Blank, Updating, Cs!TypeOK, Cs!Enter, Cs!NoEntry
<1>7. CacheTrue'
  BY <1>1 DEF ConfigInv, CacheTrue, Cs!TypeOK, Cs!Enter, Cs!NoEntry, Cs!bounds
<1>8. Loaded'
  BY <1>1, <1>3 DEF ConfigInv, Loaded, Updating, Cs!Enter
<1>9. SettingsKept' /\ Entries'
  BY <1>1 DEF ConfigInv, SettingsKept, Entries, Cs!Enter
<1>10. RingWanted'
  <2>1. \A q \in ConfigProcs : configPc'[q] \in {"save", "undo"} <=> configPc[q] \in {"save", "undo"}
    BY <1>1, <1>3 DEF Cs!Enter
  <2>2. \A q \in ConfigProcs : configPc[q] \in {"save", "undo"} => configKind'[q] = configKind[q]
    BY <1>1, <1>3 DEF Cs!Enter
  <2> QED BY <1>1, <2>1, <2>2 DEF ConfigInv, RingWanted, Cs!PutsBack, Cs!Enter
<1>11. BeforeWanted'
  BY <1>1, <1>3 DEF ConfigInv, BeforeWanted, Updating, Cs!PutsBack, Cs!Enter
<1>12. RingNew'
  BY <1>1, <1>3 DEF ConfigInv, RingNew, Cs!Enter
<1> QED BY <1>4, <1>5, <1>6, <1>7, <1>8, <1>9, <1>10, <1>11, <1>12 DEF ConfigInv

\* An update loads the configuration.
LEMMA LoadsKeeps == ASSUME ConfigInv, NEW p \in ConfigProcs, Cs!Loads(p) PROVE ConfigInv'
<1>1. Cs!TypeOK'
  <2>1. PICK d \in Cs!Data : /\ Cs!LoadConfig(p, d)
                          /\ IF configKind[p] = "master" /\ d.mk
                             THEN /\ Cs!Ends(p)
                                  /\ configSealed' = IF configSealed = "none" THEN configRing[Cs!Master] ELSE configSealed
                             ELSE /\ Cs!Goes(p, IF Cs!HasSecrets(p, d) THEN "secrets" ELSE "save")
                                  /\ configLoaded' = [configLoaded EXCEPT ![p] = d]
                                  /\ configBefore' = IF Cs!PutsBack(p) THEN [configBefore EXCEPT ![p] = configRing]
                                               ELSE configBefore
                                  /\ UNCHANGED <<configKind, configOwner, configSealed>>
    BY DEF Cs!Loads
  <2>2. configCache' \in [ConfigProcs -> Entry] /\ configFlagged' \in [ConfigProcs -> BOOLEAN]
    BY <2>1, LoadTells DEF Cs!Loads
  <2>3. UNCHANGED <<configFile, configRing, configCommitted, configWanted, configTorn>>
    BY DEF Cs!Loads
  <2>4. CASE configKind[p] = "master" /\ d.mk
    <3>1. Cs!Ends(p) /\ configSealed' \in {configSealed, configRing[Cs!Master]}
      BY <2>1, <2>4
    <3>2. configSealed' \in Cs!Values
      BY <3>1 DEF ConfigInv, Cs!TypeOK, Cs!Names, Cs!Master
    <3> QED BY <2>2, <2>3, <3>1, <3>2, EndsTypes DEF ConfigInv, Cs!TypeOK, Entry
  <2>5. CASE ~(configKind[p] = "master" /\ d.mk)
    <3>1. /\ configPc' \in [ConfigProcs -> {"idle", "missing", "load", "secrets", "save", "undo"}]
          /\ UNCHANGED <<configKind, configOwner, configSealed>>
      BY <2>1, <2>5 DEF ConfigInv, Cs!TypeOK, Cs!Goes
    <3>2. configLoaded' \in [ConfigProcs -> Cs!Data]
      BY <2>1, <2>5 DEF ConfigInv, Cs!TypeOK
    <3>3. configBefore' \in [ConfigProcs -> [Cs!Names -> Cs!Values]]
      BY <2>1, <2>5 DEF ConfigInv, Cs!TypeOK
    <3> QED BY <2>2, <2>3, <3>1, <3>2, <3>3 DEF ConfigInv, Cs!TypeOK, Entry
  <2> QED BY <2>4, <2>5
<1>2. Mutex'
  BY ConfigAssumption DEF ConfigInv, Mutex, Updating, Cs!TypeOK, Cs!Loads, Cs!Goes, Cs!Ends,
     Cs!PutsBack
<1>3. Blank'
  BY DEF ConfigInv, Blank, Cs!TypeOK, Cs!Loads, Cs!Goes, Cs!Ends
<1>4. CacheTrue'
  BY ConfigAssumption DEF ConfigInv, CacheTrue, Blank, Cs!TypeOK, Cs!Loads, Cs!LoadConfig,
     Cs!Cached, Cs!ReadOk, Cs!ReadFails, Cs!Goes, Cs!Ends, Cs!Nothing, Cs!HasSecrets,
     Cs!PutsBack
<1>5. Loaded'
  BY DEF ConfigInv, Loaded, CacheTrue, Mutex, Updating, Cs!TypeOK, Cs!Loads, Cs!LoadConfig,
     Cs!Cached, Cs!ReadOk, Cs!ReadFails, Cs!Goes, Cs!Ends
<1>6. SettingsKept'
  BY DEF ConfigInv, SettingsKept, Cs!Loads
<1>7. Entries'
  BY DEF ConfigInv, Entries, Cs!Loads
<1>8. RingWanted'
  BY ConfigAssumption DEF ConfigInv, RingWanted, Mutex, Cs!Loads
<1>9. BeforeWanted'
  BY DEF ConfigInv, BeforeWanted, RingWanted, Mutex, Updating, Cs!TypeOK, Cs!PutsBack,
     Cs!Loads, Cs!LoadConfig, Cs!ReadOk, Cs!Goes, Cs!Ends
<1>10. RingNew'
  BY DEF ConfigInv, RingNew, Mutex, Cs!TypeOK, Cs!Loads, Cs!Goes, Cs!Ends, Cs!HasSecrets,
     Cs!PutsBack
<1> QED BY <1>1, <1>2, <1>3, <1>4, <1>5, <1>6, <1>7, <1>8, <1>9, <1>10 DEF ConfigInv

\* It writes its secrets, or some of them.
LEMMA StoresSecretsKeeps ==
  ASSUME ConfigInv, NEW p \in ConfigProcs, Cs!StoresSecrets(p)
  PROVE  ConfigInv'
<1>1. Cs!TypeOK'
  <2>1. configRing' \in [Cs!Names -> Cs!Values]
    <3>1. Cs!NewRing(p) \in [Cs!Names -> Cs!Values] /\ configRing \in [Cs!Names -> Cs!Values]
      <4>1. \A n \in Cs!Names : configRing[n] \in Cs!Values /\ p \in Cs!Values /\ "none" \in Cs!Values
        BY DEF ConfigInv, Cs!TypeOK, Cs!Values
      <4> QED BY <4>1 DEF Cs!NewRing, ConfigInv, Cs!TypeOK
    <3>2. CASE configRing' = Cs!NewRing(p)
      BY <3>1, <3>2
    <3>3. ASSUME NEW done \in SUBSET Credentials,
                 configRing' = [n \in Cs!Names |-> IF n \in done THEN Cs!NewRing(p)[n] ELSE configRing[n]]
          PROVE  configRing' \in [Cs!Names -> Cs!Values]
      <4> DEFINE new == Cs!NewRing(p)
      <4>1. new \in [Cs!Names -> Cs!Values]
        BY <3>1
      <4> HIDE DEF new
      <4>2. configRing' = [n \in Cs!Names |-> IF n \in done THEN new[n] ELSE configRing[n]]
        BY <3>3 DEF new
      <4>3. \A n \in Cs!Names : new[n] \in Cs!Values /\ configRing[n] \in Cs!Values
        BY <4>1, <3>1
      <4> QED BY <4>2, <4>3
    <3> QED BY <3>2, <3>3 DEF Cs!StoresSecrets
  <2>2. configPc' \in [ConfigProcs -> {"idle", "missing", "load", "secrets", "save", "undo"}]
    BY DEF ConfigInv, Cs!TypeOK, Cs!StoresSecrets, Cs!Goes
  <2> QED BY <2>1, <2>2 DEF ConfigInv, Cs!TypeOK, Cs!StoresSecrets
<1>2. Mutex'
  BY DEF ConfigInv, Mutex, Updating, Cs!TypeOK, Cs!StoresSecrets, Cs!Goes
<1>3. Blank'
  BY DEF ConfigInv, Blank, Updating, Cs!TypeOK, Cs!StoresSecrets, Cs!Goes
<1>4. CacheTrue'
  BY DEF ConfigInv, CacheTrue, Cs!StoresSecrets
<1>5. Loaded'
  BY DEF ConfigInv, Loaded, Updating, Cs!TypeOK, Cs!StoresSecrets, Cs!Goes
<1>6. SettingsKept'
  BY DEF ConfigInv, SettingsKept, Cs!StoresSecrets
<1>7. Entries'
  BY DEF ConfigInv, Entries, Cs!StoresSecrets
<1>8. RingWanted'
  <2>1. ~Cs!PutsBack(p) => \A k \in Credentials : configRing'[k] = configRing[k]
    BY ConfigAssumption DEF Cs!StoresSecrets, Cs!NewRing, Cs!PutsBack, Cs!Names, Cs!Master
  <2>2. configPc' \in {[configPc EXCEPT ![p] = "save"], [configPc EXCEPT ![p] = "undo"]}
        /\ UNCHANGED <<configKind, configWanted, configTorn>> /\ configPc[p] = "secrets"
    BY DEF Cs!StoresSecrets, Cs!Goes
  <2>3. configPc'[p] \in {"save", "undo"} /\ \A q \in ConfigProcs \ {p} : configPc'[q] = configPc[q]
    BY <2>2 DEF ConfigInv, Cs!TypeOK
  <2> QED BY <2>1, <2>2, <2>3 DEF ConfigInv, RingWanted, Cs!PutsBack
<1>9. BeforeWanted'
  BY DEF ConfigInv, BeforeWanted, Mutex, Updating, Cs!PutsBack, Cs!StoresSecrets
<1>10. RingNew'
  <2>1. /\ UNCHANGED configKind /\ configPc[p] = "secrets"
        /\ \A q \in ConfigProcs \ {p} : configPc'[q] = configPc[q]
    BY DEF Cs!StoresSecrets, Cs!Goes, ConfigInv, Cs!TypeOK
  <2>2. \A q \in ConfigProcs \ {p} : configPc[q] # "save"
    BY <2>1 DEF ConfigInv, Mutex, Updating
  <2>3. configPc'[p] = "save" => configRing' = Cs!NewRing(p)
    BY <2>1 DEF Cs!StoresSecrets, Cs!Goes, ConfigInv, Cs!TypeOK
  <2> QED BY <2>1, <2>2, <2>3 DEF RingNew, Cs!NewRing, Cs!Names
<1> QED BY <1>1, <1>2, <1>3, <1>4, <1>5, <1>6, <1>7, <1>8, <1>9, <1>10 DEF ConfigInv

\* It meets a broken file.
LEMMA SaveRefusedKeeps ==
  ASSUME ConfigInv, NEW p \in ConfigProcs, Cs!SaveRefused(p)
  PROVE  ConfigInv'
<1>1. Cs!TypeOK'
  BY DEF ConfigInv, Cs!TypeOK, Cs!SaveRefused, Cs!Goes, Cs!store
<1>2. Mutex'
  BY DEF ConfigInv, Mutex, Updating, Cs!SaveRefused, Cs!Goes, Cs!store
<1>3. Blank'
  BY DEF ConfigInv, Blank, Updating, Cs!SaveRefused, Cs!Goes, Cs!store
<1>4. CacheTrue'
  BY DEF ConfigInv, CacheTrue, Cs!SaveRefused, Cs!store, Cs!bounds
<1>5. Loaded'
  BY ConfigAssumption DEF ConfigInv, Loaded, Mutex, Cs!SaveRefused, Cs!Refuses,
     Cs!Corrupted, Cs!store
<1>6. SettingsKept'
  BY DEF ConfigInv, SettingsKept, Cs!SaveRefused, Cs!store
<1>7. Entries'
  BY DEF ConfigInv, Entries, Cs!SaveRefused, Cs!store
<1>8. RingWanted'
  BY DEF ConfigInv, RingWanted, Cs!PutsBack, Cs!SaveRefused, Cs!Goes, Cs!store
<1>9. BeforeWanted'
  BY DEF ConfigInv, BeforeWanted, Mutex, Updating, Cs!PutsBack, Cs!SaveRefused, Cs!Refuses,
     Cs!store
<1>10. RingNew'
  BY ConfigAssumption DEF ConfigInv, RingNew, Mutex, Cs!TypeOK, Cs!SaveRefused, Cs!Goes
<1> QED BY <1>1, <1>2, <1>3, <1>4, <1>5, <1>6, <1>7, <1>8, <1>9, <1>10 DEF ConfigInv

\* Its save fails.
LEMMA SaveFailsKeeps == ASSUME ConfigInv, NEW p \in ConfigProcs, Cs!SaveFails(p) PROVE ConfigInv'
<1>1. Cs!TypeOK'
  <2>1. configCache' \in [ConfigProcs -> Entry]
    BY EntryTypes DEF Cs!SaveFails, ConfigInv, Cs!TypeOK, Entry
  <2>2. configPc' \in [ConfigProcs -> {"idle", "missing", "load", "secrets", "save", "undo"}]
        /\ configFlagged' \in [ConfigProcs -> BOOLEAN]
    BY DEF Cs!SaveFails, Cs!Goes, ConfigInv, Cs!TypeOK
  <2> QED BY <2>1, <2>2 DEF Cs!SaveFails, ConfigInv, Cs!TypeOK, Entry, Cs!store
<1>2. Mutex'
  BY DEF ConfigInv, Mutex, Updating, Cs!SaveFails, Cs!Goes, Cs!store
<1>3. Blank'
  BY DEF ConfigInv, Blank, Updating, Cs!SaveFails, Cs!Goes, Cs!store
<1>4. CacheTrue'
  BY DEF ConfigInv, CacheTrue, Cs!TypeOK, Cs!SaveFails, Cs!NoEntry, Cs!store
<1>5. Loaded'
  BY DEF ConfigInv, Loaded, Updating, Cs!TypeOK, Cs!SaveFails, Cs!Goes, Cs!store
<1>6. SettingsKept'
  BY DEF ConfigInv, SettingsKept, Cs!SaveFails, Cs!store
<1>7. Entries'
  BY DEF ConfigInv, Entries, Cs!SaveFails, Cs!store
<1>8. RingWanted'
  BY DEF ConfigInv, RingWanted, Cs!PutsBack, Cs!SaveFails, Cs!Goes, Cs!store
<1>9. BeforeWanted'
  BY DEF ConfigInv, BeforeWanted, Updating, Cs!PutsBack, Cs!SaveFails, Cs!Goes, Cs!store
<1>10. RingNew'
  BY ConfigAssumption DEF ConfigInv, RingNew, Mutex, Cs!TypeOK, Cs!SaveFails, Cs!Goes
<1> QED BY <1>1, <1>2, <1>3, <1>4, <1>5, <1>6, <1>7, <1>8, <1>9, <1>10 DEF ConfigInv

\* Its save succeeds.
LEMMA SavedKeeps == ASSUME ConfigInv, NEW p \in ConfigProcs, Cs!Saved(p) PROVE ConfigInv'
<1>1. Cs!TypeOK'
  <2>1. Cs!Changed(p) \in Cs!Data
    BY DEF Cs!Changed, Cs!Data, ConfigInv, Cs!TypeOK
  <2>2. /\ configFile' \in [state : {"absent", "good", "broken"}, data : Cs!Data]
        /\ configCache' \in [ConfigProcs -> Entry]
    BY <2>1, WrittenTypes DEF Cs!Saved
  <2>3. /\ configFlagged' \in [ConfigProcs -> BOOLEAN]
        /\ configCommitted' \subseteq ConfigProcs
        /\ UNCHANGED <<configRing, configTorn>>
    BY DEF Cs!Saved, ConfigInv, Cs!TypeOK
  <2>4. configWanted' \in [Credentials -> Cs!Values] /\ configSealed' \in Cs!Values
    BY DEF Cs!Saved, ConfigInv, Cs!TypeOK, Cs!Names, Cs!Master
  <2> QED BY <2>2, <2>4, EndsTypes DEF Cs!Saved, ConfigInv, Cs!TypeOK, Entry
<1>2. Mutex'
  BY ConfigAssumption DEF ConfigInv, Mutex, Updating, Cs!TypeOK, Cs!Saved, Cs!Ends, Cs!Goes
<1>3. Blank'
  <2>1. \A q \in ConfigProcs : configPc[q] # "missing"
    BY ConfigAssumption DEF ConfigInv, Mutex, Updating, Cs!Saved
  <2>2. \A q \in ConfigProcs : configPc'[q] # "missing"
    BY <2>1 DEF ConfigInv, Cs!TypeOK, Cs!Saved, Cs!Ends, Cs!Goes
  <2>3. configFile'.state # "absent"
    BY DEF Cs!Saved, Cs!Written
  <2> QED BY <2>2, <2>3 DEF Blank
<1>4. CacheTrue'
  BY DEF ConfigInv, CacheTrue, Cs!Saved, Cs!Written, Cs!NoEntry, Cs!bounds
<1>5. Loaded'
  BY DEF ConfigInv, Loaded, Mutex, Updating, Cs!TypeOK, Cs!Saved, Cs!Ends, Cs!Goes
<1>6. SettingsKept'
  BY DEF ConfigInv, SettingsKept, Loaded, Updating, Cs!Saved, Cs!Refuses, Cs!Corrupted,
     Cs!Written, Cs!Changed
<1>7. Entries'
  <2>1. configFile.state # "broken" /\ configFile.data = configLoaded[p]
    BY DEF Cs!Saved, Cs!Refuses, Cs!Corrupted, ConfigInv, Loaded, Updating
  <2>2. /\ configFile'.data = Cs!Changed(p)
        /\ configWanted' = [k \in Credentials |-> configRing[k]]
        /\ UNCHANGED <<configRing, configTorn>>
        /\ configPc[p] = "save"
    BY DEF Cs!Saved, Cs!Written
  <2>3. CASE configKind[p] = "credentials"
    <3>1. Cs!Changed(p).creds = Credentials
      BY <2>3 DEF Cs!Changed, ConfigInv, Cs!TypeOK, Cs!Data
    <3>2. \A k \in Credentials : configRing[k] = p
      BY <2>2, <2>3 DEF ConfigInv, RingNew
    <3>3. \A k \in Credentials : configWanted'[k] = p /\ p # "none"
      BY <2>2, <3>2, ConfigAssumption
    <3> QED BY <2>2, <3>1, <3>3 DEF Entries
  <2>4. CASE configKind[p] = "clear"
    <3>1. Cs!Changed(p).creds = {}
      BY <2>4 DEF Cs!Changed, ConfigInv, Cs!TypeOK, Cs!Data
    <3>2. \A k \in Credentials : configRing[k] = "none"
      BY <2>2, <2>4 DEF ConfigInv, RingNew
    <3>3. \A k \in Credentials : configWanted'[k] = "none"
      BY <2>2, <3>2
    <3> QED BY <2>2, <3>1, <3>3 DEF Entries
  <2>5. CASE configKind[p] \notin {"credentials", "clear"}
    <3>1. Cs!Changed(p).creds = configFile.data.creds
      BY <2>1, <2>5 DEF Cs!Changed
    <3>2. \A q \in ConfigProcs : configPc[q] \in {"save", "undo"} => q = p
      BY <2>2 DEF ConfigInv, Mutex, Updating
    <3>3. ~configTorn => \A k \in Credentials : configRing[k] = configWanted[k]
      BY <2>5, <3>2 DEF ConfigInv, RingWanted, Cs!PutsBack
    <3> QED BY <2>2, <3>1, <3>3 DEF ConfigInv, Entries
  <2> QED BY <2>3, <2>4, <2>5
<1>8. RingWanted'
  BY DEF RingWanted, Cs!Saved
<1>9. BeforeWanted'
  BY DEF ConfigInv, BeforeWanted, Mutex, Updating, Cs!TypeOK, Cs!PutsBack, Cs!Saved, Cs!Ends
<1>10. RingNew'
  BY ConfigAssumption DEF ConfigInv, RingNew, Mutex, Cs!Saved, Cs!Refuses, Cs!Ends
<1> QED BY <1>1, <1>2, <1>3, <1>4, <1>5, <1>6, <1>7, <1>8, <1>9, <1>10 DEF ConfigInv

\* It puts the keyring back, or fails to.
LEMMA UndoKeeps == ASSUME ConfigInv, NEW p \in ConfigProcs, Cs!Undo(p) PROVE ConfigInv'
<1>1. Cs!TypeOK'
  <2>1. configLoaded[p] \in Cs!Data
    BY DEF ConfigInv, Cs!TypeOK
  <2>2. /\ configFile' \in [state : {"absent", "good", "broken"}, data : Cs!Data]
        /\ configCache' \in [ConfigProcs -> Entry]
    BY WrittenTypes DEF Cs!Undo, ConfigInv, Cs!TypeOK, Entry
  <2>3. configRing' \in [Cs!Names -> Cs!Values] /\ configTorn' \in BOOLEAN
    <3>1. /\ configBefore[p] \in [Cs!Names -> Cs!Values]
          /\ configRing \in [Cs!Names -> Cs!Values]
          /\ configTorn \in BOOLEAN
      BY DEF ConfigInv, Cs!TypeOK
    <3>2. configRing' \in {configBefore[p], configRing}
      BY DEF Cs!Undo
    <3>3. configTorn' = configTorn \/ configTorn' = TRUE
      BY DEF Cs!Undo
    <3> QED BY <3>1, <3>2, <3>3
  <2> QED BY <2>2, <2>3, EndsTypes DEF Cs!Undo, ConfigInv, Cs!TypeOK, Entry
<1>2. Mutex'
  BY ConfigAssumption DEF ConfigInv, Mutex, Updating, Cs!TypeOK, Cs!Undo, Cs!Ends, Cs!Goes
<1>3. Blank'
  <2>1. configFile.data = configFile'.data /\ configFile.state = configFile'.state
    BY DEF Cs!Undo, Cs!Written, ConfigInv, Loaded, Updating
  <2>2. \A q \in ConfigProcs : configPc'[q] = (IF q = p THEN "idle" ELSE configPc[q])
    BY DEF Cs!Undo, Cs!Ends, Cs!Goes, ConfigInv, Cs!TypeOK
  <2>3. configFile.state # "absent"
    BY DEF Cs!Undo, ConfigInv, Blank, Updating
  <2> QED BY <2>1, <2>2, <2>3 DEF ConfigInv, Blank
<1>4. CacheTrue'
  BY DEF ConfigInv, CacheTrue, Cs!Undo, Cs!Written, Cs!NoEntry
<1>5. Loaded'
  BY DEF ConfigInv, Loaded, Mutex, Updating, Cs!TypeOK, Cs!Undo, Cs!Ends, Cs!Goes
<1>6. SettingsKept'
  BY DEF ConfigInv, SettingsKept, Loaded, Updating, Cs!Undo, Cs!Written
<1>7. Entries'
  BY DEF ConfigInv, Entries, Loaded, Updating, Cs!Undo, Cs!Written
<1>8. RingWanted'
  BY DEF ConfigInv, RingWanted, BeforeWanted, Mutex, Updating, Cs!Undo
<1>9. BeforeWanted'
  BY ConfigAssumption DEF ConfigInv, BeforeWanted, Mutex, Cs!TypeOK, Cs!PutsBack, Cs!Undo,
     Cs!Ends
<1>10. RingNew'
  BY DEF ConfigInv, RingNew, Mutex, Updating, Cs!TypeOK, Cs!Undo, Cs!Ends
<1> QED BY <1>1, <1>2, <1>3, <1>4, <1>5, <1>6, <1>7, <1>8, <1>9, <1>10 DEF ConfigInv

\* Its process ends.
LEMMA CrashKeeps == ASSUME ConfigInv, NEW p \in ConfigProcs, Cs!Crash(p) PROVE ConfigInv'
<1>1. Cs!TypeOK'
  <2>1. configCache' \in [ConfigProcs -> Entry]
    BY EntryTypes DEF Cs!Crash, ConfigInv, Cs!TypeOK, Entry
  <2>2. configFlagged' \in [ConfigProcs -> BOOLEAN] /\ configTorn' \in BOOLEAN
    BY DEF Cs!Crash, ConfigInv, Cs!TypeOK
  <2> QED BY <2>1, EndsTypes DEF Cs!Crash, ConfigInv, Cs!TypeOK, Entry
<1>2. Mutex'
  BY ConfigAssumption DEF ConfigInv, Mutex, Updating, Cs!TypeOK, Cs!Crash, Cs!Ends, Cs!Goes
<1>3. Blank'
  BY DEF ConfigInv, Blank, Updating, Cs!Crash, Cs!Ends, Cs!Goes, Cs!NoEntry
<1>4. CacheTrue'
  BY DEF ConfigInv, CacheTrue, Cs!TypeOK, Cs!Crash, Cs!NoEntry
<1>5. Loaded'
  BY DEF ConfigInv, Loaded, Updating, Cs!TypeOK, Cs!Crash, Cs!Ends, Cs!Goes
<1>6. SettingsKept'
  BY DEF ConfigInv, SettingsKept, Cs!Crash
<1>7. Entries'
  BY DEF ConfigInv, Entries, Cs!Crash
<1>8. RingWanted'
  BY ConfigAssumption DEF ConfigInv, RingWanted, Mutex, Cs!PutsBack, Cs!Crash, Cs!Ends,
     Cs!Goes
<1>9. BeforeWanted'
  BY ConfigAssumption DEF ConfigInv, BeforeWanted, RingWanted, Mutex, Updating, Cs!TypeOK,
     Cs!PutsBack, Cs!Crash, Cs!Ends
<1>10. RingNew'
  BY DEF ConfigInv, RingNew, Cs!Crash, Cs!Ends, Cs!Goes
<1> QED BY <1>1, <1>2, <1>3, <1>4, <1>5, <1>6, <1>7, <1>8, <1>9, <1>10 DEF ConfigInv

\* Somebody breaks the file, or puts it right.
LEMMA HandKeeps == ASSUME ConfigInv, Cs!Break \/ Cs!Repair PROVE ConfigInv'
<1>1. /\ configFile'.data = configFile.data /\ configFile'.state \in {"good", "broken"}
      /\ configFile' \in [state : {"absent", "good", "broken"}, data : Cs!Data]
      /\ configCache' \in [ConfigProcs -> Entry] /\ \A p \in ConfigProcs : ~configCache'[p].fresh
  <2>1. CASE Cs!Break
    <3>1. /\ configFile' = [configFile EXCEPT !.state = "broken"]
          /\ configCache' = [q \in ConfigProcs |-> Cs!NoEntry]
      BY <2>1 DEF Cs!Break
    <3> QED BY <3>1, EntryTypes DEF ConfigInv, Cs!TypeOK, Cs!NoEntry
  <2>2. CASE Cs!Repair
    BY <2>2, WrittenTypes DEF Cs!Repair, ConfigInv, Cs!TypeOK
  <2> QED BY <2>1, <2>2
<1>2. UNCHANGED <<configRing, configOwner, configPc, configKind, configLoaded, configBefore, configFlagged, configCommitted, configWanted, configSealed,
                  configTorn, configReads>>
  BY DEF Cs!Break, Cs!Repair
<1>3. configFile.state # "absent" /\ (configFile'.state = "good" => configOwner = "free")
      /\ (configFile'.state = "broken" => configFile.state = "good" /\
             \A p \in ConfigProcs : configPc[p] \notin {"idle", "load"} => configKind[p] # "clear")
  BY <1>1 DEF Cs!Break, Cs!Repair, Cs!Written
<1>4. Loaded'
  <2>1. CASE configFile'.state = "good"
    BY <1>2, <1>3, <2>1, ConfigAssumption DEF ConfigInv, Loaded, Mutex
  <2>2. CASE configFile'.state = "broken"
    BY <1>2, <1>3, <2>2 DEF Loaded, Updating
  <2> QED BY <1>1, <2>1, <2>2
<1>5. Cs!TypeOK'
  BY <1>1, <1>2 DEF ConfigInv, Cs!TypeOK, Entry
<1>6. Mutex' /\ Blank' /\ CacheTrue'
  BY <1>1, <1>2 DEF ConfigInv, Mutex, Blank, CacheTrue
<1>7. SettingsKept' /\ Entries' /\ RingWanted' /\ BeforeWanted' /\ RingNew'
  BY <1>1, <1>2 DEF ConfigInv, SettingsKept, Entries, RingWanted, BeforeWanted, RingNew,
     Cs!PutsBack
<1> QED BY <1>4, <1>5, <1>6, <1>7 DEF ConfigInv

LEMMA InitConfig == Cs!Init => ConfigInv
<1> SUFFICES ASSUME Cs!Init PROVE ConfigInv
  OBVIOUS
<1>1. PICK had \in SUBSET Credentials, b \in Births :
         /\ b = "absent" => had = {}
         /\ configFile = [state |-> b,
                    data |-> IF b = "absent" THEN Cs!DefaultConfig
                             ELSE [set |-> {}, creds |-> had, mk |-> TRUE]]
         /\ configRing = [n \in Cs!Names |-> IF n \in had \/ (n = Cs!Master /\ b # "absent")
                                    THEN "old" ELSE "none"]
  BY DEF Cs!Init
<1>2. /\ configFile \in [state : {"absent", "good", "broken"}, data : Cs!Data]
      /\ configFile.state = "absent" => configFile.data = Cs!DefaultConfig
      /\ configFile.data.creds = had
  BY <1>1, ConfigAssumption DEF Cs!Data, Cs!DefaultConfig
<1>3. /\ configRing \in [Cs!Names -> Cs!Values]
      /\ configWanted \in [Credentials -> Cs!Values]
      /\ configSealed \in Cs!Values
      /\ \A k \in Credentials : configWanted[k] = configRing[k] /\ configRing[k] = (IF k \in had THEN "old" ELSE "none")
  BY <1>1, ConfigAssumption DEF Cs!Init, Cs!Names, Cs!Values, Cs!Master
<1>4. configLoaded \in [ConfigProcs -> Cs!Data] /\ configCache \in [ConfigProcs -> Entry]
      /\ configBefore \in [ConfigProcs -> [Cs!Names -> Cs!Values]]
  BY EntryTypes DEF Cs!Init, Cs!Values
<1>5. Cs!TypeOK
  BY <1>2, <1>3, <1>4 DEF Cs!Init, Cs!TypeOK, Entry
<1>6. Mutex /\ Loaded /\ BeforeWanted /\ RingNew
  BY ConfigAssumption DEF Cs!Init, Mutex, Loaded, BeforeWanted, RingNew, Updating
<1>7. Blank /\ CacheTrue
  BY DEF Cs!Init, Blank, CacheTrue, Updating, Cs!NoEntry
<1>8. SettingsKept /\ Entries /\ RingWanted
  BY <1>2, <1>3 DEF Cs!Init, SettingsKept, Entries, RingWanted
<1> QED BY <1>5, <1>6, <1>7, <1>8 DEF ConfigInv

LEMMA NextConfig == ConfigInv /\ [Cs!Next]_(Cs!vars) => ConfigInv'
<1> SUFFICES ASSUME ConfigInv, [Cs!Next]_(Cs!vars) PROVE ConfigInv'
  OBVIOUS
<1>1. ASSUME NEW p \in ConfigProcs, Cs!Step(p) PROVE ConfigInv'
  BY <1>1, ReadKeeps, FindsNoneKeeps, SavesDefaultsKeeps, UpdateKeeps, LoadsKeeps,
     StoresSecretsKeeps, SaveRefusedKeeps, SaveFailsKeeps, SavedKeeps, UndoKeeps, CrashKeeps
     DEF Cs!Step
<1>2. CASE UNCHANGED Cs!vars
  <2> USE <1>2 DEF Cs!vars, ConfigInv
  <2>1. Cs!TypeOK' /\ Mutex' /\ Blank' /\ CacheTrue' /\ Loaded'
    BY DEF Cs!TypeOK, Mutex, Blank, CacheTrue, Loaded
  <2>2. SettingsKept' /\ Entries' /\ RingWanted' /\ BeforeWanted' /\ RingNew'
    BY DEF SettingsKept, Entries, RingWanted, BeforeWanted, RingNew, Cs!PutsBack
  <2> QED BY <2>1, <2>2
<1> QED BY <1>1, <1>2, HandKeeps DEF Cs!Next

\* Between updates the keyring holds the credentials of the last update that
\* succeeded and the file has an entry for exactly these, unless a crash or a
\* failed rollback tore them (services/credential_manager.py).
THEOREM CredentialsWholeHolds == Cs!Spec => []CredentialsWhole
<1>1. ConfigInv => CredentialsWhole
  <2> SUFFICES ASSUME ConfigInv, configOwner = "free", ~configTorn
               PROVE  /\ \A k \in Credentials : configRing[k] = configWanted[k]
                      /\ configFile.data.creds = {k \in Credentials : configRing[k] # "none"}
    BY DEF CredentialsWhole, Cs!CredentialsWhole
  <2>1. \A p \in ConfigProcs : configPc[p] \notin {"save", "undo"}
    BY ConfigAssumption DEF ConfigInv, Mutex, Updating
  <2> QED BY <2>1 DEF ConfigInv, RingWanted, Entries
<1> QED BY InitConfig, NextConfig, <1>1, PTL DEF Cs!Spec

\* A setting that an update reported saved stays in the file, whatever the
\* updates of other processes write, and a file that does not parse is never
\* replaced (config/locks.py, config/io.py).
THEOREM CommittedIsKeptHolds == Cs!Spec => CommittedIsKept
<1>1. ConfigInv => Cs!TypeOK /\ Cs!CommittedIsKept
  BY DEF ConfigInv, SettingsKept, Cs!CommittedIsKept
<1>2. ConfigInv /\ [Cs!Next]_(Cs!vars) => [configFile.state = "broken" => configFile'.data = configFile.data]_(Cs!vars)
  <2> SUFFICES ASSUME ConfigInv, Cs!Next, configFile.state = "broken" PROVE configFile'.data = configFile.data
    OBVIOUS
  <2>1. ASSUME NEW p \in ConfigProcs, Cs!Step(p), ~Cs!Saved(p) PROVE configFile' = configFile
    BY <2>1 DEF Cs!Step, Cs!Read, Cs!FindsNone, Cs!SavesDefaults, Cs!Update,
       Cs!SaveApiCredentials, Cs!ClearApiCredentials, Cs!GetOrCreateMasterKey,
       Cs!SetModelName, Cs!GetFlaskSecretKey, Cs!GetExtensionToken, Cs!Enter, Cs!Loads,
       Cs!StoresSecrets, Cs!SaveRefused, Cs!SaveFails, Cs!Undo, Cs!Crash, Cs!store
  <2>2. ASSUME NEW p \in ConfigProcs, Cs!Saved(p) PROVE FALSE
    BY <2>2 DEF Cs!Saved, Cs!Refuses, Cs!Corrupted, ConfigInv, Loaded, Updating
  <2>3. CASE Cs!Break \/ Cs!Repair
    BY <2>3 DEF Cs!Break, Cs!Repair, Cs!Written
  <2> QED BY <2>1, <2>2, <2>3 DEF Cs!Next
<1> QED BY InitConfig, NextConfig, <1>1, <1>2, PTL DEF Cs!Spec, CommittedIsKept,
           Cs!CorruptIsKept

-----------------------------------------------------------------------------
(* The disk cache.                                                         *)

\* The entry of k holds a portfolio field.
Holds(k) == diskEntry[k].content = "json" /\ diskEntry[k].field

\* What a starting server has not yet cleaned, it has listed or skipped.
DiskInv ==
    /\ Dc!TypeOK
    /\ diskBoot = "ready" => \A k \in CacheKeys : Holds(k) => k \in diskSkipped
    /\ diskBoot = "migrating" =>
          \A k \in CacheKeys : Holds(k) => k \in diskTodo \cup diskSkipped

\* Evictions and cleanups only remove entries.
LEMMA EvictionsShrink ==
    ASSUME NEW f \in [CacheKeys -> Dc!Entries], NEW e \in Dc!Evictions(f)
    PROVE  /\ e \in [CacheKeys -> Dc!Entries]
           /\ \A k \in CacheKeys : e[k] \in {f[k], Dc!Absent}
<1>1. e = f \/ \E gone \in SUBSET Dc!Present(f) :
                  e = [k \in CacheKeys |-> IF k \in gone THEN Dc!Absent ELSE f[k]]
  BY DEF Dc!Evictions
<1>2. Dc!Absent \in Dc!Entries
  BY DEF Dc!Entries
<1> QED BY <1>1, <1>2

LEMMA UnstaleShrinks ==
    ASSUME NEW f \in [CacheKeys -> Dc!Entries]
    PROVE  /\ Dc!Unstale(f) \in [CacheKeys -> Dc!Entries]
           /\ \A k \in CacheKeys : Dc!Unstale(f)[k] \in {f[k], Dc!Absent}
  BY DEF Dc!Unstale, Dc!Entries

LEMMA CleanUpsShrink ==
    ASSUME NEW f \in [CacheKeys -> Dc!Entries], NEW e \in Dc!CleanUps(f)
    PROVE  /\ e \in [CacheKeys -> Dc!Entries]
           /\ \A k \in CacheKeys : e[k] \in {f[k], Dc!Absent}
<1>1. CASE e = f
  BY <1>1
<1>2. CASE e \in Dc!Evictions(Dc!Unstale(f))
  <2> DEFINE g == Dc!Unstale(f)
  <2>1. g \in [CacheKeys -> Dc!Entries] /\ \A k \in CacheKeys : g[k] \in {f[k], Dc!Absent}
    BY UnstaleShrinks
  <2>2. e \in Dc!Evictions(g)
    BY <1>2
  <2> HIDE DEF g
  <2> QED BY <2>1, <2>2, EvictionsShrink
<1> QED BY <1>1, <1>2 DEF Dc!CleanUps

\* A step that only removes entries, or writes one without the field, keeps the
\* invariant while nothing else changes.
LEMMA ShrinkKeeps ==
    ASSUME DiskInv, UNCHANGED <<diskNow, diskTodo, diskBoot, diskSkipped, diskFaults>>,
           diskEntry' \in [CacheKeys -> Dc!Entries],
           \A k \in CacheKeys : \/ diskEntry'[k] \in {diskEntry[k], Dc!Absent}
                                \/ ~diskEntry'[k].field
    PROVE  DiskInv'
<1>1. \A k \in CacheKeys : Holds(k)' => Holds(k)
  BY DEF Holds, Dc!Absent
<1>2. Dc!TypeOK'
  BY DEF DiskInv, Dc!TypeOK, Dc!Times
<1> QED BY <1>1, <1>2 DEF DiskInv

LEMMA GetKeeps == ASSUME DiskInv, NEW k \in CacheKeys, Dc!Get(k) PROVE DiskInv'
<1>1. PICK e \in Dc!CleanUps(diskEntry) :
         diskEntry' = IF e[k].content = "broken" \/ Dc!Expired(e[k])
                      THEN [e EXCEPT ![k] = Dc!Absent] ELSE e
  BY DEF Dc!Get
<1>2. e \in [CacheKeys -> Dc!Entries] /\ \A l \in CacheKeys : e[l] \in {diskEntry[l], Dc!Absent}
  BY CleanUpsShrink DEF DiskInv, Dc!TypeOK
<1>3. diskEntry' \in {e, [e EXCEPT ![k] = Dc!Absent]} /\ Dc!Absent \in Dc!Entries
  BY <1>1 DEF Dc!Entries
<1> QED BY <1>2, <1>3, ShrinkKeeps DEF Dc!Get, Dc!Rest

LEMMA SetKeeps == ASSUME DiskInv, NEW k \in CacheKeys, Dc!Set(k) PROVE DiskInv'
<1> DEFINE new == [content |-> "json", field |-> FALSE, stored |-> diskNow, mtime |-> diskNow]
           f == [diskEntry EXCEPT ![k] = new]
<1>1. new \in Dc!Entries /\ ~new.field
  BY DEF DiskInv, Dc!TypeOK, Dc!Entries, Dc!Contents
<1>2. f \in [CacheKeys -> Dc!Entries] /\ \A l \in CacheKeys : f[l] = diskEntry[l] \/ ~f[l].field
  BY <1>1 DEF DiskInv, Dc!TypeOK
<1>3. PICK e \in Dc!Evictions(f) : diskEntry' \in Dc!CleanUps(e)
  BY DEF Dc!Set
<1> HIDE DEF f
<1>4. e \in [CacheKeys -> Dc!Entries] /\ \A l \in CacheKeys : e[l] \in {f[l], Dc!Absent}
  BY <1>2, EvictionsShrink
<1>5. /\ diskEntry' \in [CacheKeys -> Dc!Entries]
      /\ \A l \in CacheKeys : diskEntry'[l] \in {e[l], Dc!Absent}
  BY <1>3, <1>4, CleanUpsShrink
<1>6. \A l \in CacheKeys : diskEntry'[l] \in {diskEntry[l], Dc!Absent} \/ ~diskEntry'[l].field
  BY <1>2, <1>4, <1>5
<1> QED BY <1>5, <1>6, ShrinkKeeps DEF Dc!Set, Dc!Rest

LEMMA DeleteKeeps == ASSUME DiskInv, NEW ks \in SUBSET CacheKeys, Dc!Delete(ks) PROVE DiskInv'
<1>1. diskEntry' = [k \in CacheKeys |-> IF k \in ks THEN Dc!Absent ELSE diskEntry[k]]
  BY DEF Dc!Delete
<1>2. Dc!Absent \in Dc!Entries /\ diskEntry \in [CacheKeys -> Dc!Entries]
  BY DEF Dc!Entries, DiskInv, Dc!TypeOK
<1> QED BY <1>1, <1>2, ShrinkKeeps DEF Dc!Delete, Dc!Rest

LEMMA CleanUpKeeps == ASSUME DiskInv, Dc!CleanUp PROVE DiskInv'
<1>1. diskEntry' \in Dc!CleanUps(diskEntry) /\ diskEntry \in [CacheKeys -> Dc!Entries]
  BY DEF Dc!CleanUp, Dc!CleanUps, DiskInv, Dc!TypeOK
<1> QED BY <1>1, CleanUpsShrink, ShrinkKeeps DEF Dc!CleanUp, Dc!Rest

\* The steps of the migration: an entry leaves the list cleaned or skipped.
LEMMA MigrateKeeps ==
    ASSUME DiskInv, Dc!BootBegin \/ Dc!BootEnd \/ \E k \in CacheKeys : Dc!MigrateOne(k) \/ Dc!MigrateBusy(k)
    PROVE  DiskInv'
<1>1. CASE Dc!BootBegin
  <2>1. Dc!TypeOK'
    BY <1>1 DEF DiskInv, Dc!TypeOK, Dc!BootBegin, Dc!Present
  <2>2. \A k \in CacheKeys : Holds(k)' => k \in diskTodo'
    BY <1>1 DEF Dc!BootBegin, Dc!Present, Holds, Dc!Absent
  <2> QED BY <1>1, <2>1, <2>2 DEF DiskInv, Dc!BootBegin
<1>2. CASE Dc!BootEnd
  <2>1. \A k \in CacheKeys : Holds(k)' => Holds(k)
    BY <1>2 DEF Dc!BootEnd, Holds
  <2> QED BY <1>2, <2>1 DEF DiskInv, Dc!TypeOK, Dc!BootEnd
<1>3. ASSUME NEW k \in CacheKeys, Dc!MigrateOne(k) PROVE DiskInv'
  <2> DEFINE f == Dc!Scrubbed(diskEntry[k])
  <2>1. diskEntry[k] \in Dc!Entries /\ diskNow \in Dc!Times
    BY DEF DiskInv, Dc!TypeOK
  <2>2. f \in Dc!Entries
    <3>1. CASE diskEntry[k].content = "json"
      <4>1. diskEntry[k] \in Dc!Entries \ {Dc!Absent}
        BY <2>1, <3>1 DEF Dc!Absent
      <4>2. \E t \in Dc!Times : f = [diskEntry[k] EXCEPT !.field = FALSE, !.mtime = t]
        BY <2>1, <3>1, <4>1 DEF Dc!Scrubbed, Dc!Entries
      <4> QED BY <4>1, <4>2 DEF Dc!Entries
    <3>2. CASE diskEntry[k].content # "json"
      BY <2>1, <3>2 DEF Dc!Scrubbed, Dc!Entries
    <3> QED BY <3>1, <3>2
  <2>3. f.content = "json" => ~f.field
    <3>1. CASE diskEntry[k].content = "json"
      BY <2>1, <3>1 DEF Dc!Scrubbed, Dc!Entries, Dc!Absent
    <3>2. CASE diskEntry[k].content # "json"
      BY <3>2 DEF Dc!Scrubbed, Dc!Absent
    <3> QED BY <3>1, <3>2
  <2> HIDE DEF f
  <2>4. diskEntry' = [diskEntry EXCEPT ![k] = f] /\ diskEntry \in [CacheKeys -> Dc!Entries]
    BY <1>3 DEF Dc!MigrateOne, DiskInv, Dc!TypeOK, f
  <2>5. ~Holds(k)' /\ \A l \in CacheKeys \ {k} : Holds(l)' => Holds(l)
    BY <2>3, <2>4 DEF Holds
  <2>6. diskEntry' \in [CacheKeys -> Dc!Entries]
    BY <2>2, <2>4
  <2> QED BY <1>3, <2>5, <2>6 DEF DiskInv, Dc!TypeOK, Dc!MigrateOne
<1>4. ASSUME NEW k \in CacheKeys, Dc!MigrateBusy(k) PROVE DiskInv'
  <2>1. Dc!TypeOK'
    BY <1>4, DiskAssumption DEF DiskInv, Dc!TypeOK, Dc!MigrateBusy, Dc!Fault
  <2>2. \A l \in CacheKeys : Holds(l)' => Holds(l)
    BY <1>4 DEF Dc!MigrateBusy, Holds
  <2> QED BY <1>4, <2>1, <2>2 DEF DiskInv, Dc!MigrateBusy
<1> QED BY <1>1, <1>2, <1>3, <1>4

\* What happens from outside: no entry gets the field while a server is up.
LEMMA OutsideKeeps ==
    ASSUME DiskInv, Dc!Tick \/ Dc!SetBack \/ \E k \in CacheKeys : Dc!Restore(k) \/ Dc!Damage(k)
    PROVE  DiskInv'
<1>1. CASE Dc!Tick \/ Dc!SetBack
  <2>1. Dc!TypeOK'
    BY <1>1, DiskAssumption DEF DiskInv, Dc!TypeOK, Dc!Tick, Dc!SetBack, Dc!Fault, Dc!Times
  <2>2. \A l \in CacheKeys : Holds(l)' => Holds(l)
    BY <1>1 DEF Dc!Tick, Dc!SetBack, Holds
  <2> QED BY <1>1, <2>1, <2>2 DEF DiskInv, Dc!Tick, Dc!SetBack
<1>2. ASSUME NEW k \in CacheKeys, Dc!Restore(k) PROVE DiskInv'
  <2>1. PICK old \in 0 .. diskNow :
           diskEntry' = [diskEntry EXCEPT ![k] = [content |-> "json", field |-> TRUE,
                                                  stored |-> old, mtime |-> diskNow]]
    BY <1>2 DEF Dc!Restore
  <2>2. [content |-> "json", field |-> TRUE, stored |-> old, mtime |-> diskNow] \in Dc!Entries
    BY DiskAssumption DEF DiskInv, Dc!TypeOK, Dc!Entries, Dc!Contents, Dc!Times
  <2>3. diskEntry' \in [CacheKeys -> Dc!Entries]
    BY <2>1, <2>2 DEF DiskInv, Dc!TypeOK
  <2> QED BY <1>2, <2>3, DiskAssumption DEF DiskInv, Dc!TypeOK, Dc!Restore, Dc!Fault
<1>3. ASSUME NEW k \in CacheKeys, Dc!Damage(k) PROVE DiskInv'
  <2>1. PICK f : /\ diskEntry' = [diskEntry EXCEPT ![k] = f]
                 /\ \/ f = [diskEntry[k] EXCEPT !.stored = -1]
                    \/ \E c \in {"broken", "binary"} :
                          f = [diskEntry[k] EXCEPT !.content = c, !.stored = -1]
    BY <1>3 DEF Dc!Damage
  <2>2. /\ diskEntry[k].content = "json" /\ diskEntry[k] # Dc!Absent
        /\ diskEntry[k] \in Dc!Entries /\ diskEntry \in [CacheKeys -> Dc!Entries]
    <3>1. diskEntry[k].content = "json"
      BY <1>3 DEF Dc!Damage
    <3>2. diskEntry[k] # Dc!Absent
      BY <3>1 DEF Dc!Absent
    <3> QED BY <3>1, <3>2 DEF DiskInv, Dc!TypeOK
  <2>3. f \in Dc!Entries /\ f.field = diskEntry[k].field
    BY <2>1, <2>2 DEF Dc!Entries, Dc!Contents
  <2>4. diskEntry' \in [CacheKeys -> Dc!Entries] /\ \A l \in CacheKeys : Holds(l)' => Holds(l)
    BY <2>1, <2>2, <2>3 DEF Holds
  <2>5. Dc!TypeOK'
    <3>1. UNCHANGED <<diskNow, diskTodo, diskBoot, diskSkipped>> /\ Dc!Fault
      BY <1>3, Zenon DEF Dc!Damage
    <3>2. diskFaults' \in 0 .. DiskFaults
      BY <3>1, DiskAssumption DEF DiskInv, Dc!TypeOK, Dc!Fault
    <3> QED BY <2>4, <3>1, <3>2 DEF DiskInv, Dc!TypeOK
  <2> QED BY <1>3, <2>4, <2>5 DEF DiskInv, Dc!Damage
<1> QED BY <1>1, <1>2, <1>3

LEMMA NextDisk == DiskInv /\ [Dc!Next]_(Dc!vars) => DiskInv'
<1> SUFFICES ASSUME DiskInv, [Dc!Next]_(Dc!vars) PROVE DiskInv'
  OBVIOUS
<1>1. ASSUME NEW k \in CacheKeys, Dc!Delete({k}) \/ Dc!Delete(CacheKeys) PROVE DiskInv'
  BY <1>1, DeleteKeeps
<1>2. CASE UNCHANGED Dc!vars
  BY <1>2 DEF Dc!vars, DiskInv, Dc!TypeOK, Holds
<1>3. CASE Dc!Delete(CacheKeys)
  BY <1>3, DeleteKeeps
<1> QED BY <1>1, <1>2, <1>3, GetKeeps, SetKeeps, CleanUpKeeps, MigrateKeeps, OutsideKeeps
           DEF Dc!Next

LEMMA InitDisk == Dc!Init => DiskInv
<1> SUFFICES ASSUME Dc!Init PROVE DiskInv
  OBVIOUS
<1> DEFINE held == [content |-> "json", field |-> TRUE, stored |-> 0, mtime |-> 0]
<1>1. held \in Dc!Entries /\ Dc!Absent \in Dc!Entries
  BY DiskAssumption DEF Dc!Entries, Dc!Contents, Dc!Times
<1> HIDE DEF held
<1>2. diskEntry \in [CacheKeys -> Dc!Entries]
  BY <1>1 DEF Dc!Init, held
<1> QED BY <1>2, DiskAssumption DEF Dc!Init, DiskInv, Dc!TypeOK, Dc!Times

LEMMA SameCount == \A S : Dc!Cardinality(S) = Cardinality(S)
  BY DEF Dc!Cardinality, Cardinality

\* The age of an entry is a number.
LEMMA AgeIsNumber ==
    ASSUME Dc!TypeOK, NEW k \in CacheKeys
    PROVE  Dc!Age(diskEntry[k]) \in Int
<1>1. diskEntry[k].mtime \in Int /\ diskNow \in Int
      /\ (diskEntry[k].stored \in 0 .. diskNow => diskEntry[k].stored \in Int)
  BY DiskAssumption DEF Dc!TypeOK, Dc!Entries, Dc!Times, Dc!Absent
<1> QED BY <1>1 DEF Dc!Age

\* A cleanup of a cache that is not over its cap removes stale entries only.
LEMMA CleanUpsOfFew ==
    ASSUME Dc!TypeOK, Dc!Cardinality(Dc!Present(diskEntry)) <= MaxEntries,
           NEW e \in Dc!CleanUps(diskEntry)
    PROVE  e \in {diskEntry, Dc!Unstale(diskEntry)}
<1> DEFINE u == Dc!Unstale(diskEntry)
<1>1. Dc!Present(u) \subseteq Dc!Present(diskEntry) /\ Dc!Present(diskEntry) \subseteq CacheKeys
  BY DEF Dc!Present, Dc!Unstale
<1>2. /\ Cardinality(Dc!Present(u)) <= Cardinality(Dc!Present(diskEntry))
      /\ Cardinality(Dc!Present(u)) \in Nat /\ Cardinality(Dc!Present(diskEntry)) \in Nat
  BY <1>1, DiskAssumption, FS_Subset, FS_CardinalityType
<1> HIDE DEF u
<1>3. Dc!Cardinality(Dc!Present(u)) - MaxEntries <= 0
  BY <1>2, SameCount, DiskAssumption
<1>4. Dc!Evictions(u) = {u}
  BY <1>3 DEF Dc!Evictions
<1> QED BY <1>4 DEF Dc!CleanUps, u

LEMMA Agreement == Dc!TypeOK => Dc!HasAgreesWithGet
<1> SUFFICES ASSUME Dc!TypeOK, Dc!Cardinality(Dc!Present(diskEntry)) <= MaxEntries,
                    NEW k \in CacheKeys, NEW e \in Dc!CleanUps(diskEntry)
             PROVE  Dc!HasAnswers(k) = Dc!GetAnswers(e, k)
  BY DEF Dc!HasAgreesWithGet
<1> DEFINE age == Dc!Age(diskEntry[k])
<1>1. age \in Int /\ CacheTtl \in Nat /\ MaxTtl \in Nat /\ CacheTtl <= MaxTtl
  BY AgeIsNumber, DiskAssumption
<1>2. CASE e[k] = diskEntry[k]
  BY <1>1, <1>2 DEF Dc!HasAnswers, Dc!GetAnswers, Dc!Expired
<1>3. CASE e[k] = Dc!Absent /\ age > MaxTtl
  <2>1. ~Dc!GetAnswers(e, k)
    BY <1>3 DEF Dc!GetAnswers, Dc!Absent
  <2>2. ~Dc!HasAnswers(k)
    BY <1>1, <1>3 DEF Dc!HasAnswers
  <2> QED BY <2>1, <2>2 DEF Dc!GetAnswers, Dc!HasAnswers
<1>4. e[k] = diskEntry[k] \/ (e[k] = Dc!Absent /\ age > MaxTtl)
  BY CleanUpsOfFew DEF Dc!Unstale
<1> QED BY <1>2, <1>3, <1>4

\* Once a server is up, no portfolio field is left in the cache but where a lock
\* was busy, whatever is written, evicted, damaged or cleaned while the server
\* migrates; and has and get agree (utils/disk_cache.py, boot.py).
THEOREM NoHoldingsOnDiskHolds == Dc!Spec => []NoHoldingsOnDisk
<1>1. DiskInv => NoHoldingsOnDisk
  <2> SUFFICES ASSUME DiskInv PROVE Dc!TypeOK /\ Dc!NoHoldingsOnDisk /\ Dc!HasAgreesWithGet
    BY DEF NoHoldingsOnDisk
  <2> QED BY Agreement DEF DiskInv, Dc!NoHoldingsOnDisk, Holds
<1> QED BY InitDisk, NextDisk, <1>1, PTL DEF Dc!Spec

-----------------------------------------------------------------------------
(* The election.                                                           *)
(*                                                                         *)
(* Who was given the lock keeps it until it exits, and who exits does not  *)
(* count.  A process that ended must not wake up as a leader: it has no    *)
(* flag when it starts again.                                              *)

\* The fallback is never entered where there are advisory locks.
NoFallback ==
    electionMode = "advisory" => \A p \in ElectionProcs : electionPc[p] \notin {"opened", "judged"}

\* Who acquired, known to its loop or not yet, holds the lock unless it exits.
WinnerHolds ==
    electionMode = "advisory" =>
        \A p \in ElectionProcs :
            (electionPc[p] = "won" \/ electionLeader[p]) /\ ~electionExiting[p] => electionLock = p

\* A process that ended has given up its leadership.
EndedIsNoLeader == \A p \in ElectionProcs : electionPc[p] = "down" => ~electionLeader[p]

ElectionInv == Le!TypeOK /\ NoFallback /\ WinnerHolds /\ EndedIsNoLeader

LEMMA InitElection == Le!Init => ElectionInv
  BY ElectionAssumption DEF Le!Init, Le!TypeOK, Le!Files, ElectionInv, NoFallback, WinnerHolds,
     EndedIsNoLeader

\* What the file may be: it stays one of Files.
LEMMA FilesStay ==
    ASSUME electionFile \in Le!Files, NEW n \in ElectionPids
    PROVE  /\ Le!Absent \in Le!Files
           /\ [by |-> n, owner |-> "empty", old |-> FALSE] \in Le!Files
           /\ electionFile.by = n => [electionFile EXCEPT !.owner = n] \in Le!Files
           /\ electionFile # Le!Absent => [electionFile EXCEPT !.old = TRUE] \in Le!Files
<1> DEFINE Made == [by : ElectionPids, owner : ElectionPids \cup {"empty"}, old : BOOLEAN]
<1>1. Le!Files = Made \cup {Le!Absent}
  BY DEF Le!Files
<1>2. CASE electionFile \in Made
  BY <1>1, <1>2
<1>3. CASE electionFile = Le!Absent
  BY <1>1, <1>3 DEF Le!Absent
<1> QED BY <1>1, <1>2, <1>3

\* A process starts, or polls again: it is no leader and has acquired nothing.
LEMMA StartStep ==
    ASSUME ElectionInv, NEW p \in ElectionProcs, Le!Start(p) \/ Le!Poll(p) PROVE ElectionInv'
<1>1. CASE Le!Start(p)
  BY <1>1 DEF ElectionInv, Le!TypeOK, NoFallback, WinnerHolds, EndedIsNoLeader, Le!Start, Le!Goes
<1>2. CASE Le!Poll(p)
  BY <1>2 DEF ElectionInv, Le!TypeOK, NoFallback, WinnerHolds, EndedIsNoLeader, Le!Poll, Le!Goes
<1> QED BY <1>1, <1>2

\* The lock goes to one that asks while it is free: nobody else is a leader then.
LEMMA LockStep ==
    ASSUME ElectionInv, NEW p \in ElectionProcs, Le!TryLock(p) \/ Le!Promote(p)
    PROVE  ElectionInv'
<1>1. CASE Le!TryLock(p)
  BY <1>1, ElectionAssumption DEF ElectionInv, Le!TypeOK, NoFallback, WinnerHolds,
     EndedIsNoLeader, Le!TryLock, Le!Goes
<1>2. CASE Le!Promote(p)
  BY <1>2 DEF ElectionInv, Le!TypeOK, NoFallback, WinnerHolds, EndedIsNoLeader, Le!Promote, Le!Goes
<1> QED BY <1>1, <1>2

\* The steps of the fallback are not taken where there are advisory locks.
LEMMA FallbackStep ==
    ASSUME ElectionInv, NEW p \in ElectionProcs,
           Le!Create(p) \/ Le!WritePid(p) \/ Le!WriteFails(p) \/ Le!Judge(p) \/ Le!Reclaim(p)
    PROVE  ElectionInv'
<1>1. electionFile \in Le!Files /\ electionPid[p] \in ElectionPids
  BY DEF ElectionInv, Le!TypeOK
<1>2. electionFile' \in Le!Files
  BY <1>1, FilesStay DEF Le!Create, Le!WritePid, Le!WriteFails, Le!Judge, Le!Reclaim
<1>3. UNCHANGED <<electionMode, electionPid, electionLeader, electionExiting, electionLock,
                  electionCrashes>>
  BY DEF Le!Create, Le!WritePid, Le!WriteFails, Le!Judge, Le!Reclaim
<1>4. CASE Le!Create(p) \/ Le!Judge(p)
  BY <1>2, <1>3, <1>4 DEF ElectionInv, Le!TypeOK, NoFallback, WinnerHolds, EndedIsNoLeader,
     Le!Create, Le!Judge, Le!Goes
<1>5. CASE Le!WritePid(p) \/ Le!WriteFails(p) \/ Le!Reclaim(p)
  BY <1>2, <1>3, <1>5 DEF ElectionInv, Le!TypeOK, NoFallback, WinnerHolds, EndedIsNoLeader,
     Le!WritePid, Le!WriteFails, Le!Reclaim, Le!Goes
<1> QED BY <1>4, <1>5

\* Who exits or ends gives up its own lock only.
LEMMA EndStep ==
    ASSUME ElectionInv, NEW p \in ElectionProcs, Le!Release(p) \/ Le!Exit(p) PROVE ElectionInv'
<1> USE ElectionAssumption
<1>1. CASE Le!Release(p)
  BY <1>1 DEF ElectionInv, Le!TypeOK, NoFallback, WinnerHolds, EndedIsNoLeader, Le!Release,
     Le!Unlocked
<1>2. CASE Le!Exit(p)
  BY <1>2 DEF ElectionInv, Le!TypeOK, NoFallback, WinnerHolds, EndedIsNoLeader, Le!Exit,
     Le!Unlocked, Le!Goes
<1> QED BY <1>1, <1>2

LEMMA NextElection == ElectionInv /\ [Le!Next]_(Le!vars) => ElectionInv'
<1> SUFFICES ASSUME ElectionInv, [Le!Next]_(Le!vars) PROVE ElectionInv'
  OBVIOUS
<1>1. CASE Le!Age
  <2>1. electionFile' \in Le!Files
    BY <1>1, ElectionAssumption, FilesStay DEF ElectionInv, Le!TypeOK, Le!Age
  <2> QED BY <1>1, <2>1 DEF ElectionInv, Le!TypeOK, NoFallback, WinnerHolds, EndedIsNoLeader, Le!Age
<1>2. ASSUME NEW p \in ElectionProcs,
             Le!Loop(p) \/ Le!WriteFails(p) \/ Le!Release(p) \/ Le!Exit(p)
      PROVE  ElectionInv'
  BY <1>2, StartStep, LockStep, FallbackStep, EndStep DEF Le!Loop
<1>3. CASE UNCHANGED Le!vars
  BY <1>3 DEF ElectionInv, Le!TypeOK, NoFallback, WinnerHolds, EndedIsNoLeader, Le!vars
<1> QED BY <1>1, <1>2, <1>3 DEF Le!Next

\* Leaders that hold the same lock are one.
LEMMA HolderIsOne == ElectionInv => OneLeader
<1> SUFFICES ASSUME ElectionInv, electionMode = "advisory" PROVE Le!Cardinality(Le!Leaders) <= 1
  BY DEF OneLeader, Le!OneLeader, ElectionInv
<1>1. \A S : Le!Cardinality(S) = Cardinality(S)
  BY DEF Le!Cardinality, Cardinality
<1>2. Le!Leaders = {} \/ Le!Leaders = {electionLock}
  BY DEF ElectionInv, WinnerHolds, Le!Leaders
<1>3. Cardinality({}) = 0 /\ Cardinality({electionLock}) = 1
  BY FS_EmptySet, FS_Singleton
<1> QED BY <1>1, <1>2, <1>3

\* With advisory locks at most one process that is not exiting believes to be
\* the leader, at any time, for any processes, ids and number of crashes, exits
\* and restarts: two would both fetch and publish (bg/leader_election.py).
THEOREM OneLeaderHolds == Le!Spec => []OneLeader
  BY InitElection, NextElection, HolderIsOne, PTL DEF Le!Spec

-----------------------------------------------------------------------------
(* The start of the backend.                                               *)

\* Who is between its lock and its answer has the lock.
Starting == {"port", "file", "health", "spawn", "write", "wait"}
StarterHasLock == \A h \in BackendHosts : backendPc[h] \in Starting => backendLock = h

\* Who is about to write an entry has spawned the only backend that is not lost.
NoOther ==
    \A h \in BackendHosts :
        backendPc[h] = "write" => Bs!Backends \ backendLost \subseteq {backendMine[h]}

\* A backend that is not lost is named by its file, or will be.
BackendIsNamed ==
    \A p \in Bs!Backends \ backendLost :
        \/ backendPidFile = p
        \/ \E h \in BackendHosts : backendPc[h] = "write" /\ backendMine[h] = p

StartInv == Bs!TypeOK /\ StarterHasLock /\ NoOther /\ BackendIsNamed

LEMMA InitStart == Bs!Init => StartInv
  BY BackendAssumption DEF Bs!Init, StartInv, Bs!TypeOK, StarterHasLock, NoOther, BackendIsNamed,
     Bs!Backends, Starting

\* The steps of a host that leave file and processes alone.
LEMMA HostLooks ==
    ASSUME StartInv, NEW h \in BackendHosts,
           \/ Bs!Ask(h) \/ Bs!TakeLock(h) \/ Bs!LockBusy(h) \/ Bs!LookAtPort(h)
           \/ Bs!PortTaken(h) \/ Bs!Unreadable(h)
    PROVE  StartInv'
<1> USE BackendAssumption DEF StartInv, Starting, Bs!Goes, Bs!Files, Bs!Machine, Bs!Answers
<1>1. Bs!TypeOK'
  <2>1. CASE Bs!Unreadable(h)
    BY <2>1 DEF Bs!TypeOK, Bs!Unreadable
  <2>2. CASE Bs!TakeLock(h) \/ Bs!LookAtPort(h)
    BY <2>2 DEF Bs!TypeOK, Bs!TakeLock, Bs!LookAtPort
  <2>3. CASE Bs!Ask(h) \/ Bs!LockBusy(h) \/ Bs!PortTaken(h)
    BY <2>3 DEF Bs!TypeOK, Bs!Ask, Bs!LockBusy, Bs!PortTaken
  <2> QED BY <2>1, <2>2, <2>3
<1>2. StarterHasLock'
  BY DEF Bs!TypeOK, StarterHasLock, Bs!Ask, Bs!TakeLock, Bs!LockBusy, Bs!LookAtPort,
     Bs!PortTaken, Bs!Unreadable
<1>3. \A g \in BackendHosts : backendPc[g] = "write" <=> backendPc'[g] = "write"
  BY DEF Bs!TypeOK, Bs!Ask, Bs!TakeLock, Bs!LockBusy, Bs!LookAtPort, Bs!PortTaken, Bs!Unreadable
<1>4. UNCHANGED <<backendPidFile, backendLost, backendProc, backendMine>>
  BY DEF Bs!Ask, Bs!TakeLock, Bs!LockBusy, Bs!LookAtPort, Bs!PortTaken, Bs!Unreadable
<1>5. NoOther' /\ BackendIsNamed'
  BY <1>3, <1>4 DEF NoOther, BackendIsNamed, Bs!Backends
<1> QED BY <1>1, <1>2, <1>5

\* An entry goes only in the hands of who has the lock; its backend is lost then.
LEMMA HostUnlinks ==
    ASSUME StartInv, NEW h \in BackendHosts,
           Bs!LookAtFile(h) \/ Bs!LookAtHealth(h) \/ Bs!AwaitReady(h)
    PROVE  StartInv'
<1> USE BackendAssumption DEF StartInv, Starting, Bs!Goes, Bs!Files, Bs!Machine, Bs!Answers
<1>1. Bs!Unlink \/ UNCHANGED Bs!Files
  BY DEF Bs!LookAtFile, Bs!LookAtHealth, Bs!AwaitReady
<1>2. Bs!Backends \subseteq BackendPids
  BY DEF Bs!Backends
<1>3. Bs!TypeOK'
  <2>1. /\ backendPidFile' \in BackendPids \cup {"none"} /\ backendAge' \in 0..(WarmupGrace + 1)
        /\ backendLost' \subseteq BackendPids
    BY <1>1, <1>2 DEF Bs!TypeOK, Bs!Unlink
  <2>2. CASE Bs!LookAtFile(h)
    BY <2>1, <2>2 DEF Bs!TypeOK, Bs!LookAtFile
  <2>3. CASE Bs!LookAtHealth(h)
    BY <2>1, <2>3 DEF Bs!TypeOK, Bs!LookAtHealth
  <2>4. CASE Bs!AwaitReady(h)
    BY <2>1, <2>4 DEF Bs!TypeOK, Bs!AwaitReady
  <2> QED BY <2>2, <2>3, <2>4
<1>4. backendPc[h] \in Starting /\ backendPc[h] # "write"
  BY DEF Bs!LookAtFile, Bs!LookAtHealth, Bs!AwaitReady
<1>5. \A g \in BackendHosts : backendPc[g] \in Starting => g = h
  BY <1>4 DEF StarterHasLock
<1>6. \A g \in BackendHosts : g # h => backendPc'[g] = backendPc[g]
  BY DEF Bs!TypeOK, Bs!LookAtFile, Bs!LookAtHealth, Bs!AwaitReady
<1>7. backendPc'[h] \in {"idle", "health", "spawn"}
      /\ (backendPc'[h] # "idle" => backendLock' = h)
  BY <1>4 DEF Bs!TypeOK, Bs!LookAtFile, Bs!LookAtHealth, Bs!AwaitReady, Bs!Unlink, StarterHasLock
<1>8. StarterHasLock' /\ NoOther'
  BY <1>5, <1>6, <1>7 DEF StarterHasLock, NoOther
<1>9. Bs!Backends' = Bs!Backends
  BY DEF Bs!Backends, Bs!LookAtFile, Bs!LookAtHealth, Bs!AwaitReady
<1>10. \A p \in Bs!Backends \ backendLost : backendPidFile = p
  BY <1>4, <1>5 DEF BackendIsNamed
<1>11. \A p \in Bs!Backends \ backendLost' : backendPidFile' = p
  BY <1>1, <1>10 DEF Bs!Unlink
<1> QED BY <1>3, <1>8, <1>9, <1>11 DEF BackendIsNamed

\* Who spawns does so beside no backend that is named, and names its own.
LEMMA HostSpawns ==
    ASSUME StartInv, NEW h \in BackendHosts,
           Bs!Spawn(h) \/ Bs!WritePid(h) \/ Bs!WriteFails(h) \/ Bs!HostDies(h)
    PROVE  StartInv'
<1> USE BackendAssumption DEF StartInv, Starting, Bs!Goes, Bs!Files, Bs!Machine
<1>1. \A g \in BackendHosts : backendPc[g] \in Starting /\ backendPc[h] \in Starting => g = h
  BY DEF StarterHasLock
<1>2. backendPidFile \in BackendPids \cup {"none"} /\ backendMine[h] \in BackendPids \cup {"none"}
      /\ Bs!Backends \subseteq BackendPids
  BY DEF Bs!TypeOK, Bs!Backends
<1>3. CASE Bs!Spawn(h)
  <2>1. PICK p \in BackendPids :
           /\ backendProc[p] = "free" /\ backendProc' = [backendProc EXCEPT ![p] = "warming"]
           /\ backendMine' = [backendMine EXCEPT ![h] = p]
    BY <1>3 DEF Bs!Spawn
  <2>2. Bs!TypeOK'
    <3>1. backendProc' \in [BackendPids -> {"free", "warming", "serving", "wedged", "foreign"}]
          /\ backendMine' \in [BackendHosts -> BackendPids \cup {"none"}]
      BY <2>1 DEF Bs!TypeOK
    <3>2. backendLost' \subseteq BackendPids
      BY <1>2, <1>3 DEF Bs!TypeOK, Bs!Spawn
    <3> QED BY <1>3, <3>1, <3>2 DEF Bs!TypeOK, Bs!Spawn
  <2>3. StarterHasLock'
    BY <1>1, <1>3 DEF Bs!TypeOK, Bs!Spawn, StarterHasLock
  <2>4. \A g \in BackendHosts : backendPc[g] # "write" /\ (backendPc'[g] = "write" => g = h)
    BY <1>1, <1>3 DEF Bs!TypeOK, Bs!Spawn
  <2>5. Bs!Backends \subseteq backendLost'
    BY <1>3, <2>4 DEF BackendIsNamed, Bs!Spawn
  <2>6. Bs!Backends' \ backendLost' \subseteq {p}
    BY <1>3, <2>1, <2>5 DEF Bs!TypeOK, Bs!Backends, Bs!Spawn
  <2>7. backendPc'[h] = "write" /\ backendMine'[h] = p
    BY <1>3, <2>1 DEF Bs!TypeOK, Bs!Spawn
  <2> QED BY <2>2, <2>3, <2>4, <2>6, <2>7 DEF BackendIsNamed, NoOther
<1>4. CASE Bs!WritePid(h)
  <2>1. Bs!TypeOK' /\ StarterHasLock'
    BY <1>1, <1>2, <1>4 DEF Bs!TypeOK, Bs!WritePid, StarterHasLock
  <2>2. \A g \in BackendHosts : backendPc'[g] # "write"
    BY <1>1, <1>4 DEF Bs!TypeOK, Bs!WritePid
  <2>3. Bs!Backends \ backendLost \subseteq {backendMine[h]}
    BY <1>4 DEF NoOther, Bs!WritePid
  <2> QED BY <1>4, <2>1, <2>2, <2>3 DEF BackendIsNamed, NoOther, Bs!WritePid, Bs!Backends
<1>5. CASE Bs!WriteFails(h)
  <2>1. Bs!TypeOK' /\ StarterHasLock'
    BY <1>1, <1>2, <1>5 DEF Bs!TypeOK, Bs!WriteFails, StarterHasLock
  <2>2. Bs!Backends \ backendLost \subseteq {backendMine[h]}
    BY <1>5 DEF NoOther, Bs!WriteFails
  <2>3. Bs!Backends' \ backendLost' = {}
    BY <1>5, <2>2 DEF Bs!WriteFails, Bs!Backends
  <2> QED BY <2>1, <2>3 DEF BackendIsNamed, NoOther
<1>6. CASE Bs!HostDies(h)
  <2>1. Bs!TypeOK' /\ StarterHasLock'
    BY <1>1, <1>2, <1>6 DEF Bs!TypeOK, Bs!HostDies, StarterHasLock
  <2>2. Bs!Backends' = Bs!Backends /\ backendPidFile' = backendPidFile
        /\ backendPc'[h] = "idle"
        /\ \A g \in BackendHosts : g # h => /\ backendPc'[g] = backendPc[g]
                                           /\ backendMine'[g] = backendMine[g]
    BY <1>6 DEF Bs!TypeOK, Bs!Backends, Bs!HostDies
  <2>3. backendLost' = backendLost \cup (IF backendPc[h] = "write"
                                         THEN {backendMine[h]} \cap Bs!Backends ELSE {})
    BY <1>6 DEF Bs!HostDies
  <2>4. Bs!Backends' \ backendLost' \subseteq Bs!Backends \ backendLost
    BY <2>2, <2>3
  <2>5. NoOther'
    BY <2>2, <2>4 DEF NoOther
  <2> QED BY <2>1, <2>2, <2>3, <2>5 DEF BackendIsNamed
<1> QED BY <1>3, <1>4, <1>5, <1>6

\* What happens to processes and to time makes no backend that is not named.
LEMMA MachineMoves ==
    ASSUME StartInv,
           \/ Bs!Tick
           \/ \E p \in BackendPids :
                 Bs!Binds(p) \/ Bs!Wedges(p) \/ Bs!Dies(p) \/ Bs!Foreign(p) \/ Bs!ForeignEnds(p)
    PROVE  StartInv'
<1> USE BackendAssumption DEF StartInv
<1>1. UNCHANGED <<backendLock, backendPidFile, backendPc, backendInUse, backendMine>>
  BY DEF Bs!Tick, Bs!Binds, Bs!Wedges, Bs!Dies, Bs!Foreign, Bs!ForeignEnds, Bs!Files, Bs!Machine
<1>2. Bs!TypeOK'
  <2>1. CASE Bs!Tick
    BY <2>1 DEF Bs!TypeOK, Bs!Tick, Bs!Machine
  <2>2. ASSUME NEW p \in BackendPids, Bs!Binds(p) \/ Bs!Wedges(p) \/ Bs!Dies(p) PROVE Bs!TypeOK'
    BY <2>2 DEF Bs!TypeOK, Bs!Binds, Bs!Wedges, Bs!Dies, Bs!Files
  <2>3. ASSUME NEW p \in BackendPids, Bs!Foreign(p) \/ Bs!ForeignEnds(p) PROVE Bs!TypeOK'
    BY <2>3 DEF Bs!TypeOK, Bs!Foreign, Bs!ForeignEnds, Bs!Files
  <2> QED BY <2>1, <2>2, <2>3
<1>3. Bs!Backends' \ backendLost' \subseteq Bs!Backends \ backendLost
  <2>1. CASE Bs!Tick
    BY <2>1 DEF Bs!Tick, Bs!Machine, Bs!Backends
  <2>2. ASSUME NEW p \in BackendPids, Bs!Binds(p) \/ Bs!Wedges(p) \/ Bs!Dies(p)
        PROVE  Bs!Backends' \ backendLost' \subseteq Bs!Backends \ backendLost
    BY <2>2 DEF Bs!TypeOK, Bs!Binds, Bs!Wedges, Bs!Dies, Bs!Files, Bs!Backends
  <2>3. ASSUME NEW p \in BackendPids, Bs!Foreign(p) \/ Bs!ForeignEnds(p)
        PROVE  Bs!Backends' \ backendLost' \subseteq Bs!Backends \ backendLost
    BY <2>3 DEF Bs!TypeOK, Bs!Foreign, Bs!ForeignEnds, Bs!Files, Bs!Backends
  <2> QED BY <2>1, <2>2, <2>3
<1>4. StarterHasLock' /\ NoOther'
  BY <1>1, <1>3 DEF StarterHasLock, NoOther
<1>5. BackendIsNamed'
  BY <1>1, <1>3 DEF BackendIsNamed
<1> QED BY <1>2, <1>4, <1>5

LEMMA NextStart == StartInv /\ [Bs!Next]_(Bs!vars) => StartInv'
<1> SUFFICES ASSUME StartInv, [Bs!Next]_(Bs!vars) PROVE StartInv'
  OBVIOUS
<1>1. ASSUME NEW h \in BackendHosts,
             Bs!Ask(h) \/ Bs!HostStep(h) \/ Bs!Unreadable(h) \/ Bs!WriteFails(h)
             \/ Bs!HostDies(h)
      PROVE  StartInv'
  BY <1>1, HostLooks, HostUnlinks, HostSpawns DEF Bs!HostStep
<1>2. CASE UNCHANGED Bs!vars
  BY <1>2 DEF StartInv, Bs!TypeOK, StarterHasLock, NoOther, BackendIsNamed, Bs!Backends, Bs!vars
<1> QED BY <1>1, <1>2, MachineMoves DEF Bs!Next

\* What is named is one: the file names one, and who is about to write is alone.
LEMMA NamedIsOne == StartInv => Bs!NoTwins
<1> SUFFICES ASSUME StartInv PROVE Bs!Cardinality(Bs!Backends \ backendLost) <= 1
  BY DEF Bs!NoTwins
<1> DEFINE known == Bs!Backends \ backendLost
<1>1. \A p \in known, q \in known : p = q
  <2>1. \A p \in known : p # "none"
    BY BackendAssumption DEF Bs!Backends
  <2>2. \A g, h \in BackendHosts : backendPc[g] = "write" /\ backendPc[h] = "write" => g = h
    BY DEF StartInv, StarterHasLock, Starting
  <2> QED BY <2>1, <2>2 DEF StartInv, BackendIsNamed, NoOther
<1>2. known = {} \/ \E p : known = {p}
  <2> HIDE DEF known
  <2> QED BY <1>1
<1>3. Bs!Cardinality(known) = Cardinality(known)
  BY DEF Bs!Cardinality, Cardinality
<1> HIDE DEF known
<1>4. Cardinality(known) \in {0, 1}
  BY <1>2, FS_EmptySet, FS_Singleton
<1> QED BY <1>3, <1>4 DEF known

\* Hosts that start at once, for any number of them, of process ids and of
\* faults, spawn one backend; a second one runs only beside one whose entry was
\* lost (native_host/start_backend.py).
THEOREM NoTwinsHolds == Bs!Spec => [](Bs!TypeOK /\ Bs!NoTwins)
<1>1. StartInv => Bs!TypeOK /\ Bs!NoTwins
  BY NamedIsOne DEF StartInv
<1> QED BY InitStart, NextStart, <1>1, PTL DEF Bs!Spec

-----------------------------------------------------------------------------
(* The native messaging host.                                              *)

\* The frame as far as it was read, and what the pipe still has of it.
Framed ==
    /\ hostPc \in {"handle", "act", "read"} => hostGot = 0 /\ hostInFrame = 0
    /\ hostPc = "header" => \/ hostGot = 0 /\ hostInFrame = 0
                            \/ hostGot \in 1 .. (Header - 1) /\ hostInFrame = Header - hostGot
    /\ hostPc = "drain" => hostGot < hostLength
    /\ hostPc = "payload" => hostGot <= hostLength
    /\ hostPc \in {"drain", "payload"} =>
          hostLength <= MaxDrain /\ hostInFrame = hostLength - hostGot

\* The ticks of s that are not before t.
Since(s, t) == {i \in DOMAIN s : s[i] >= t}

\* As far back as stamps are kept, what was given was stamped, but for one; and
\* the one was stamped when its request is about to be answered.
GivenIsStamped ==
    \A t \in 0 .. HostTime : t + SecretWindow > hostNow =>
        Cardinality(Since(hostGiven, t))
            <= Cardinality(Since(hostSecretStamps, t)) + (IF hostPc = "read" THEN 0 ELSE 1)

Ticks == Seq(0 .. HostTime)
Manifests == [ids : SUBSET ExtensionIds, mtime : 0 .. HostEdits]
HostTypes ==
    /\ Nh!TypeOK
    /\ hostStamps \in Ticks /\ hostSecretStamps \in Ticks /\ hostGiven \in Ticks
    /\ hostManifest \in Manifests /\ hostCache \in Manifests
    /\ \A i \in DOMAIN hostGiven : hostGiven[i] <= hostNow
HostInv == HostTypes /\ Framed /\ GivenIsStamped /\ Nh!SecretsBounded

LEMMA HostItems ==
    /\ \A S : Nh!Cardinality(S) = Cardinality(S)
    /\ \A s, P : Nh!ItemsAt(s, P) = ItemsAt(s, P)
  BY Zenon DEF Nh!ItemsAt, ItemsAt, Nh!NthPlace, NthPlace, Nh!Cardinality, Cardinality

\* Places of a sequence are finitely many.
LEMMA SinceIsFinite ==
    ASSUME NEW s \in Ticks, NEW S \in SUBSET DOMAIN s
    PROVE  IsFiniteSet(S) /\ Cardinality(S) \in Nat /\ Cardinality(S) <= Len(s)
<1>1. Len(s) \in Nat /\ DOMAIN s = 1 .. Len(s)
  BY DEF Ticks
<1>2. IsFiniteSet(1 .. Len(s)) /\ Cardinality(1 .. Len(s)) = Len(s)
  BY <1>1, FS_Interval
<1> QED BY <1>1, <1>2, FS_Subset, FS_CardinalityType

LEMMA TicksGrow ==
    ASSUME NEW s \in Ticks, NEW x \in 0 .. HostTime
    PROVE  /\ Append(s, x) \in Ticks /\ Len(s) \in Nat /\ Len(Append(s, x)) = Len(s) + 1
           /\ DOMAIN s = 1 .. Len(s) /\ DOMAIN Append(s, x) = 1 .. (Len(s) + 1)
           /\ \A i \in DOMAIN s : Append(s, x)[i] = s[i] /\ s[i] \in 0 .. HostTime
           /\ Append(s, x)[Len(s) + 1] = x
<1>1. Append(s, x) \in Ticks
  BY DEF Ticks
<1>2. Len(s) \in Nat /\ Len(Append(s, x)) = Len(s) + 1 /\ DOMAIN s = 1 .. Len(s)
      /\ DOMAIN Append(s, x) = 1 .. (Len(s) + 1)
  BY DEF Ticks
<1>3. ASSUME NEW i \in DOMAIN s PROVE Append(s, x)[i] = s[i] /\ s[i] \in 0 .. HostTime
  <2>1. s[i] \in 0 .. HostTime
    BY <1>2, ElementOfSeq DEF Ticks
  <2>2. Append(s, x)[i] = s[i]
    BY <1>2, AppendProperties DEF Ticks
  <2> QED BY <2>1, <2>2
<1>4. Append(s, x)[Len(s) + 1] = x
  BY DEF Ticks
<1> QED BY <1>1, <1>2, <1>3, <1>4

\* One more stamp counts where it is not too old.
LEMMA OneMore ==
    ASSUME NEW s \in Ticks, NEW x \in 0 .. HostTime, NEW t \in Nat
    PROVE  Cardinality(Since(Append(s, x), t))
             = Cardinality(Since(s, t)) + (IF x >= t THEN 1 ELSE 0)
<1> DEFINE n == Len(s) + 1
<1>1. /\ Len(s) \in Nat /\ DOMAIN s = 1 .. Len(s) /\ DOMAIN Append(s, x) = 1 .. n
      /\ \A i \in DOMAIN s : Append(s, x)[i] = s[i]
      /\ Append(s, x)[n] = x /\ n \notin DOMAIN s /\ DOMAIN Append(s, x) = DOMAIN s \cup {n}
  BY DEF Ticks
<1> HIDE DEF n
<1>2. Since(Append(s, x), t) = IF x >= t THEN Since(s, t) \cup {n} ELSE Since(s, t)
  BY <1>1, HostAssumption DEF Since
<1>3. IsFiniteSet(Since(s, t)) /\ n \notin Since(s, t) /\ Cardinality(Since(s, t)) \in Nat
  BY <1>1, SinceIsFinite DEF Since
<1>4. Cardinality(Since(s, t) \cup {n}) = Cardinality(Since(s, t)) + 1
  BY <1>3, FS_AddElement
<1> QED BY <1>2, <1>3, <1>4

\* Dropping what is out of the window loses no stamp within it.
LEMMA RecentKeeps ==
    ASSUME NEW s \in Ticks, NEW w \in Nat, hostNow \in Nat
    PROVE  LET r == Nh!Recent(s, w)
           IN  /\ r \in Ticks /\ Len(r) \in Nat /\ Len(r) <= Len(s)
               /\ \A t \in Nat : t + w > hostNow =>
                     Cardinality(Since(s, t)) <= Cardinality(Since(r, t))
<1> DEFINE P == {i \in DOMAIN s : s[i] + w > hostNow}
           r == Nh!Recent(s, w)
<1>1. r = ItemsAt(s, P) /\ P \in SUBSET DOMAIN s /\ Len(s) \in Nat
  BY HostItems DEF Nh!Recent, Ticks
<1>2. \A i \in DOMAIN s : s[i] \in Nat /\ (i \in P <=> s[i] + w > hostNow)
  BY HostAssumption DEF Ticks
<1> HIDE DEF P, r
<1>3. /\ r \in Ticks /\ Len(r) = Cardinality(P) /\ Cardinality(P) \in 0 .. Len(s)
      /\ DOMAIN r = 1 .. Cardinality(P)
      /\ \A m \in DOMAIN r : r[m] = s[NthPlace(P, m)] /\ NthPlace(P, m) \in P
  BY <1>1, ItemsAre DEF Ticks
<1>4. ASSUME NEW t \in Nat, t + w > hostNow
      PROVE  Cardinality(Since(s, t)) <= Cardinality(Since(r, t))
  <2> DEFINE Q == Since(s, t)
  <2>1. Q \in SUBSET P
    BY <1>1, <1>2, <1>4 DEF Since
  <2>2. {m \in DOMAIN r : NthPlace(P, m) \in Q} = Since(r, t)
    BY <1>1, <1>3 DEF Since
  <2> HIDE DEF Q
  <2>3. Cardinality(Q) <= Cardinality({m \in DOMAIN r : NthPlace(P, m) \in Q})
    BY <1>1, <2>1, KeptIsCounted DEF Ticks
  <2> QED BY <2>2, <2>3 DEF Q
<1> QED BY <1>1, <1>3, <1>4 DEF r

LEMMA InitHost == Nh!Init => HostInv
<1> SUFFICES ASSUME Nh!Init PROVE HostInv
  OBVIOUS
<1> USE HostAssumption DEF Nh!Init
<1>1. <<>> \in Ticks
  BY DEF Ticks
<1>2. HostTypes
  <2>1. Len(<<>>) = 0 /\ DOMAIN <<>> = {} /\ <<>> \in Seq(0 .. HostTime)
    OBVIOUS
  <2>2. hostReq \in Nh!Request /\ hostManifest \in Manifests /\ hostCache \in Manifests
    BY DEF Nh!NoRequest, Nh!Request, Manifests
  <2>3. hostNow \in 0 .. HostTime /\ hostStamps = <<>> /\ hostSecretStamps = <<>> /\ hostGiven = <<>>
    OBVIOUS
  <2>4. hostGot \in 0 .. (Header + MaxDrain) /\ hostLength \in 0 .. (MaxDrain + 1)
        /\ hostInFrame \in 0 .. (Header + MaxDrain + 1)
    OBVIOUS
  <2>5. hostGiven \in Seq(0 .. HostTime)
    BY <2>1, <2>3
  <2>6. Len(hostStamps) <= RateMax /\ Len(hostSecretStamps) <= SecretMax
    BY <2>1, <2>3
  <2>7. Nh!TypeOK
    BY <2>2, <2>3, <2>4, <2>5, <2>6 DEF Nh!TypeOK, Manifests
  <2>8. \A i \in DOMAIN hostGiven : hostGiven[i] <= hostNow
    BY <2>1, <2>3
  <2> QED BY <1>1, <2>2, <2>3, <2>7, <2>8 DEF HostTypes
<1>3. Framed
  BY DEF Framed
<1>4. \A S \in SUBSET DOMAIN hostGiven : Cardinality(S) = 0
  <2>1. \A S \in SUBSET DOMAIN hostGiven : S = {}
    BY DEF Ticks
  <2> QED BY <2>1, FS_EmptySet
<1>5. GivenIsStamped
  <2>1. \A t \in 0 .. HostTime : Cardinality(Since(hostGiven, t)) = 0
    BY <1>4 DEF Since
  <2>2. \A t \in 0 .. HostTime : Cardinality(Since(hostSecretStamps, t)) \in Nat
    BY <1>1, SinceIsFinite DEF Since
  <2> QED BY <2>1, <2>2 DEF GivenIsStamped
<1>6. Nh!SecretsBounded
  BY <1>4, HostItems DEF Nh!SecretsBounded
<1> QED BY <1>2, <1>3, <1>5, <1>6 DEF HostInv

\* Where no secret is given or stamped, the counts stay, whatever the clock does.
LEMMA SecretsStay ==
    ASSUME HostInv, UNCHANGED <<hostSecretStamps, hostGiven>>, hostNow \in Nat, hostNow' \in Nat,
           hostNow <= hostNow', hostPc' = "read" => hostPc = "read"
    PROVE  GivenIsStamped' /\ Nh!SecretsBounded'
<1>1. Nh!SecretsBounded'
  BY DEF HostInv, Nh!SecretsBounded
<1>2. GivenIsStamped'
  <2> SUFFICES ASSUME NEW t \in 0 .. HostTime, t + SecretWindow > hostNow'
               PROVE  Cardinality(Since(hostGiven, t))
                        <= Cardinality(Since(hostSecretStamps, t))
                             + (IF hostPc' = "read" THEN 0 ELSE 1)
    BY DEF GivenIsStamped, Since
  <2>1. t + SecretWindow > hostNow
    BY HostAssumption
  <2>2. Cardinality(Since(hostGiven, t))
          <= Cardinality(Since(hostSecretStamps, t)) + (IF hostPc = "read" THEN 0 ELSE 1)
    BY <2>1 DEF HostInv, GivenIsStamped
  <2>3. Cardinality(Since(hostGiven, t)) \in Nat /\ Cardinality(Since(hostSecretStamps, t)) \in Nat
    BY SinceIsFinite DEF HostInv, HostTypes, Since
  <2> QED BY <2>2, <2>3
<1> QED BY <1>1, <1>2

\* A chunk of a header leaves the rest of it, or the whole payload.
LEMMA HeaderMoves ==
    ASSUME Framed, hostGot \in 0 .. (Header + MaxDrain), hostLength \in 0 .. (MaxDrain + 1),
           Nh!HeaderChunk
    PROVE  /\ Framed' /\ hostPc' \in {"header", "drain", "payload", "closed"}
           /\ hostGot' \in 0 .. (Header + MaxDrain) /\ hostLength' \in 0 .. (MaxDrain + 1)
           /\ hostInFrame' \in 0 .. (Header + MaxDrain + 1)
<1> USE HostAssumption
<1>1. PICK k \in 1 .. (Header - hostGot) :
         IF hostGot + k < Header
           THEN /\ hostGot' = hostGot + k /\ hostInFrame' = Header - hostGot'
                /\ UNCHANGED <<hostPc, hostLength>>
           ELSE \E n \in 0 .. (MaxDrain + 1) :
                  /\ hostLength' = n /\ hostGot' = 0 /\ hostInFrame' = n
                  /\ hostPc' = IF n > MaxDrain THEN "closed"
                               ELSE IF n > MaxMessage THEN "drain" ELSE "payload"
  BY DEF Nh!HeaderChunk
<1>2. hostPc = "header"
  BY DEF Nh!HeaderChunk
<1>3. CASE hostGot + k < Header
  <2> DEFINE g == hostGot + k
  <2>1. hostGot' = g /\ hostInFrame' = Header - g /\ hostPc' = "header" /\ hostLength' = hostLength
    BY <1>1, <1>2, <1>3
  <2>2. g \in 1 .. (Header - 1)
    BY <1>1, <1>3
  <2> HIDE DEF g
  <2>3. g \in 0 .. (Header + MaxDrain) /\ Header - g \in 0 .. (Header + MaxDrain + 1)
    BY <2>2
  <2>4. Framed'
    BY <2>1, <2>2 DEF Framed
  <2> QED BY <2>1, <2>3, <2>4
<1>4. CASE ~(hostGot + k < Header)
  <2>1. PICK n \in 0 .. (MaxDrain + 1) :
           /\ hostLength' = n /\ hostGot' = 0 /\ hostInFrame' = n
           /\ hostPc' = IF n > MaxDrain THEN "closed"
                        ELSE IF n > MaxMessage THEN "drain" ELSE "payload"
    BY <1>1, <1>4
  <2>2. /\ n \in 0 .. (Header + MaxDrain + 1) /\ 0 \in 0 .. (Header + MaxDrain)
        /\ hostPc' = "drain" => 0 < n
        /\ hostPc' \in {"drain", "payload"} => n <= MaxDrain /\ n = n - 0 /\ 0 <= n
    BY <2>1
  <2>3. Framed'
    BY <2>1, <2>2 DEF Framed
  <2> QED BY <2>1, <2>2, <2>3
<1> QED BY <1>3, <1>4

\* A chunk of an oversized frame leaves the rest of it, or nothing.
LEMMA DrainMoves ==
    ASSUME Framed, hostGot \in 0 .. (Header + MaxDrain), hostLength \in 0 .. (MaxDrain + 1),
           Nh!DrainChunk
    PROVE  /\ Framed' /\ hostPc' \in {"header", "drain"}
           /\ hostGot' \in 0 .. (Header + MaxDrain) /\ hostLength' \in 0 .. (MaxDrain + 1)
           /\ hostInFrame' \in 0 .. (Header + MaxDrain + 1)
<1> USE HostAssumption
<1>1. PICK k \in 1 .. (hostLength - hostGot) :
         /\ hostInFrame' = hostInFrame - k
         /\ IF hostGot + k < hostLength
              THEN hostGot' = hostGot + k /\ UNCHANGED hostPc
              ELSE hostGot' = 0 /\ hostPc' = "header"
  BY DEF Nh!DrainChunk
<1>2. /\ hostPc = "drain" /\ hostLength' = hostLength
      /\ hostLength <= MaxDrain /\ hostInFrame = hostLength - hostGot
  BY DEF Nh!DrainChunk, Framed
<1>3. CASE hostGot + k < hostLength
  <2>1. hostGot' = hostGot + k /\ hostPc' = "drain" /\ hostInFrame' = hostLength - (hostGot + k)
    BY <1>1, <1>2, <1>3
  <2>2. /\ hostGot + k \in 0 .. (Header + MaxDrain)
        /\ hostLength - (hostGot + k) \in 0 .. (Header + MaxDrain + 1)
    BY <1>2, <1>3
  <2>3. Framed'
    BY <1>2, <1>3, <2>1 DEF Framed
  <2> QED BY <1>2, <2>1, <2>2, <2>3
<1>4. CASE ~(hostGot + k < hostLength)
  <2>1. hostGot' = 0 /\ hostPc' = "header" /\ hostInFrame' = 0
    BY <1>1, <1>2, <1>4
  <2>2. Framed'
    BY <2>1 DEF Framed
  <2> QED BY <1>2, <2>1, <2>2
<1> QED BY <1>3, <1>4

\* The bytes of a frame, and the end of the pipe.
LEMMA PipeKeeps ==
    ASSUME HostInv,
           Nh!HeaderChunk \/ Nh!DrainChunk \/ Nh!PayloadChunk \/ Nh!Decode \/ Nh!PipeEnds
    PROVE  HostInv'
<1> USE HostAssumption DEF Nh!Loop, Nh!World, Nh!Frame
<1>1. UNCHANGED <<hostSecretStamps, hostGiven, hostStamps, hostNow, hostVerified, hostManifest,
                  hostCache>>
      /\ hostPc' # "read" /\ hostPc # "read"
  BY DEF Nh!HeaderChunk, Nh!DrainChunk, Nh!PayloadChunk, Nh!Decode, Nh!PipeEnds
<1>2. hostNow \in Nat /\ hostGot \in Nat /\ hostLength \in 0 .. (MaxDrain + 1)
  BY DEF HostInv, HostTypes, Nh!TypeOK
<1>3. hostReq' \in Nh!Request
  BY DEF HostInv, HostTypes, Nh!TypeOK, Nh!HeaderChunk, Nh!DrainChunk, Nh!PayloadChunk, Nh!Decode,
     Nh!PipeEnds, Nh!Request
<1>4. Framed' /\ hostPc' \in {"header", "drain", "payload", "handle", "closed"}
      /\ hostGot' \in 0 .. (Header + MaxDrain) /\ hostLength' \in 0 .. (MaxDrain + 1)
      /\ hostInFrame' \in 0 .. (Header + MaxDrain + 1)
  <2> USE <1>2 DEF Framed, HostInv, HostTypes, Nh!TypeOK
  <2>1. CASE Nh!HeaderChunk
    BY <2>1, HeaderMoves DEF HostInv, HostTypes, Nh!TypeOK
  <2>2. CASE Nh!DrainChunk
    BY <2>2, DrainMoves DEF HostInv, HostTypes, Nh!TypeOK
  <2>3. CASE Nh!PayloadChunk
    BY <2>3 DEF Nh!PayloadChunk
  <2>4. CASE Nh!Decode
    BY <2>4 DEF Nh!Decode
  <2>5. CASE Nh!PipeEnds
    BY <2>5 DEF Nh!PipeEnds
  <2> QED BY <2>1, <2>2, <2>3, <2>4, <2>5
<1>5. HostTypes'
  BY <1>1, <1>3, <1>4 DEF HostInv, HostTypes, Nh!TypeOK
<1>6. GivenIsStamped' /\ Nh!SecretsBounded'
  BY <1>1, <1>2, SecretsStay
<1> QED BY <1>4, <1>5, <1>6 DEF HostInv

\* What is left of a frame when a request is handled: nothing.
LEMMA FrameIsDone ==
    ASSUME HostInv, hostPc \in {"handle", "act", "read"}, UNCHANGED Nh!Frame,
           hostPc' \in {"header", "act", "read"}
    PROVE  Framed'
  BY DEF HostInv, Framed, Nh!Frame

\* The rate limit, the list of actions, the origin, and an answer that is no secret.
LEMMA RequestKeeps ==
    ASSUME HostInv, Nh!Refuse \/ Nh!Authenticate \/ Nh!Answer
    PROVE  HostInv'
<1> USE HostAssumption DEF Nh!World, Nh!Sends
<1>1. UNCHANGED <<hostSecretStamps, hostGiven, hostNow, hostManifest, Nh!Frame>>
      /\ hostPc \in {"handle", "act"} /\ hostPc' \in {"header", "act"}
  BY DEF Nh!Refuse, Nh!Authenticate, Nh!Answer
<1>2. hostNow \in 0 .. HostTime /\ hostStamps \in Ticks /\ Len(hostStamps) <= RateMax
  BY DEF HostInv, HostTypes, Nh!TypeOK
<1>3. hostStamps' \in Ticks /\ Len(hostStamps') <= RateMax
  <2> DEFINE r == Nh!Recent(hostStamps, 1)
  <2>1. r \in Ticks /\ Len(r) \in Nat /\ Len(r) <= RateMax
    <3>1. Len(hostStamps) \in Nat
      BY <1>2 DEF Ticks
    <3> QED BY <1>2, <3>1, RecentKeeps
  <2> HIDE DEF r
  <2>2. hostStamps' \in {hostStamps, r} \/ (Len(r) < RateMax /\ hostStamps' = Append(r, hostNow))
    BY DEF Nh!Refuse, Nh!Authenticate, Nh!Answer, r
  <2>3. CASE hostStamps' \in {hostStamps, r}
    BY <1>2, <2>1, <2>3
  <2>4. CASE Len(r) < RateMax /\ hostStamps' = Append(r, hostNow)
    BY <1>2, <2>1, <2>4, TicksGrow
  <2> QED BY <2>2, <2>3, <2>4
<1>4. hostReq' \in Nh!Request
  BY DEF HostInv, HostTypes, Nh!TypeOK, Nh!Refuse, Nh!Authenticate, Nh!Answer, Nh!NoRequest,
     Nh!Request
<1>5. hostCache' \in Manifests /\ hostVerified' \in BOOLEAN
  BY DEF HostInv, HostTypes, Nh!TypeOK, Nh!Refuse, Nh!Authenticate, Nh!Answer, Nh!Allowed, Nh!Traces
<1>6. HostTypes'
  BY <1>1, <1>3, <1>4, <1>5 DEF HostInv, HostTypes, Nh!TypeOK, Nh!Frame, Manifests
<1>7. GivenIsStamped' /\ Nh!SecretsBounded'
  BY <1>1, <1>2, SecretsStay
<1> QED BY <1>1, <1>6, <1>7, FrameIsDone DEF HostInv

\* A secret is asked for: its stamp is put beside the recent ones.
LEMMA BudgetKeeps == ASSUME HostInv, Nh!Budget PROVE HostInv'
<1> USE HostAssumption DEF Nh!World, Nh!Sends
<1> DEFINE r == Nh!Recent(hostSecretStamps, SecretWindow)
<1>1. UNCHANGED <<hostStamps, hostGiven, hostNow, hostManifest, hostCache, hostVerified, Nh!Frame>>
      /\ hostPc = "act" /\ hostPc' \in {"header", "read"} /\ hostReq' \in {hostReq, Nh!NoRequest}
  BY DEF Nh!Budget
<1>2. /\ hostNow \in 0 .. HostTime /\ hostSecretStamps \in Ticks /\ hostGiven \in Ticks
      /\ Len(hostSecretStamps) \in Nat /\ Len(hostSecretStamps) <= SecretMax
      /\ \A i \in DOMAIN hostGiven : hostGiven[i] <= hostNow
  BY DEF HostInv, HostTypes, Nh!TypeOK, Ticks
<1>3. /\ r \in Ticks /\ Len(r) \in Nat /\ Len(r) <= SecretMax
      /\ \A t \in Nat : t + SecretWindow > hostNow =>
            Cardinality(Since(hostSecretStamps, t)) <= Cardinality(Since(r, t))
  BY <1>2, RecentKeeps
<1>4. \/ hostSecretStamps' = r /\ hostPc' # "read"
      \/ Len(r) < SecretMax /\ hostSecretStamps' = Append(r, hostNow)
  BY DEF Nh!Budget
<1> HIDE DEF r
<1>5. hostSecretStamps' \in Ticks /\ Len(hostSecretStamps') <= SecretMax
  <2>1. CASE hostSecretStamps' = r
    BY <1>3, <2>1
  <2>2. CASE Len(r) < SecretMax /\ hostSecretStamps' = Append(r, hostNow)
    BY <1>2, <1>3, <2>2, TicksGrow
  <2> QED BY <1>4, <2>1, <2>2
<1>6. hostReq' \in Nh!Request
  BY <1>1 DEF HostInv, HostTypes, Nh!TypeOK, Nh!NoRequest, Nh!Request
<1>7. HostTypes'
  BY <1>1, <1>5, <1>6 DEF HostInv, HostTypes, Nh!TypeOK, Nh!Frame, Manifests
<1>8. GivenIsStamped'
  <2> SUFFICES ASSUME NEW t \in 0 .. HostTime, t + SecretWindow > hostNow
               PROVE  Cardinality(Since(hostGiven, t))
                        <= Cardinality(Since(hostSecretStamps', t))
                             + (IF hostPc' = "read" THEN 0 ELSE 1)
    BY <1>1 DEF GivenIsStamped, Since
  <2> DEFINE g == Cardinality(Since(hostGiven, t))
             o == Cardinality(Since(hostSecretStamps, t))
             k == Cardinality(Since(r, t))
             n == Cardinality(Since(hostSecretStamps', t))
  <2>1. g \in Nat /\ o \in Nat /\ k \in Nat /\ n \in Nat
    BY <1>2, <1>3, <1>5, SinceIsFinite DEF Since
  <2>2. g <= o + 1
    BY <1>1 DEF HostInv, GivenIsStamped
  <2>3. o <= k
    BY <1>3
  <2>4. \/ n = k /\ hostPc' # "read"
        \/ n = k + (IF hostNow >= t THEN 1 ELSE 0)
    <3>1. Cardinality(Since(Append(r, hostNow), t)) = k + (IF hostNow >= t THEN 1 ELSE 0)
      <4>1. t \in Nat
        BY HostAssumption
      <4> QED BY <1>2, <1>3, <4>1, OneMore
    <3> QED BY <1>4, <3>1
  <2>5. hostNow < t => g = 0
    <3>1. hostNow < t => Since(hostGiven, t) = {}
      BY <1>2 DEF Since, Ticks
    <3> QED BY <3>1, FS_EmptySet
  <2> HIDE DEF g, o, k, n
  <2>6. g <= n + (IF hostPc' = "read" THEN 0 ELSE 1)
    BY <1>2, <2>1, <2>2, <2>3, <2>4, <2>5
  <2> QED BY <2>6 DEF g, n
<1>9. Nh!SecretsBounded'
  BY <1>1 DEF HostInv, Nh!SecretsBounded
<1> QED BY <1>1, <1>7, <1>8, <1>9, FrameIsDone DEF HostInv

\* A secret is given, or refused after all.
LEMMA SecretKeeps == ASSUME HostInv, Nh!ShutdownToken \/ Nh!ExtensionToken PROVE HostInv'
<1> USE HostAssumption DEF Nh!World, Nh!Sends
<1>1. UNCHANGED <<hostStamps, hostSecretStamps, hostNow, hostManifest, hostCache, hostVerified,
                  Nh!Frame>>
      /\ hostPc = "read" /\ hostPc' = "header" /\ hostReq' = Nh!NoRequest
      /\ hostGiven' \in {hostGiven, Append(hostGiven, hostNow)}
  BY DEF Nh!ShutdownToken, Nh!ExtensionToken, Nh!Gives
<1>2. /\ hostNow \in 0 .. HostTime /\ hostSecretStamps \in Ticks /\ hostGiven \in Ticks
      /\ Len(hostSecretStamps) \in Nat /\ Len(hostSecretStamps) <= SecretMax
      /\ \A i \in DOMAIN hostGiven : hostGiven[i] <= hostNow
  BY DEF HostInv, HostTypes, Nh!TypeOK, Ticks
<1>3. hostGiven' \in Ticks /\ \A i \in DOMAIN hostGiven' : hostGiven'[i] <= hostNow
  <2> DEFINE more == Append(hostGiven, hostNow)
  <2>1. /\ more \in Ticks /\ Len(hostGiven) \in Nat
        /\ DOMAIN hostGiven = 1 .. Len(hostGiven) /\ DOMAIN more = 1 .. (Len(hostGiven) + 1)
        /\ \A i \in DOMAIN hostGiven : more[i] = hostGiven[i]
        /\ more[Len(hostGiven) + 1] = hostNow
    BY <1>2, TicksGrow
  <2> HIDE DEF more
  <2>2. \A i \in DOMAIN more : more[i] <= hostNow
    BY <1>2, <2>1
  <2> QED BY <1>1, <1>2, <2>1, <2>2 DEF more
<1>4. HostTypes'
  BY <1>1, <1>3 DEF HostInv, HostTypes, Nh!TypeOK, Nh!Frame, Manifests, Nh!NoRequest, Nh!Request,
     Ticks
<1>5. ASSUME NEW t \in 0 .. HostTime, t + SecretWindow > hostNow
      PROVE  Cardinality(Since(hostGiven', t)) <= Cardinality(Since(hostSecretStamps, t)) + 1
  <2> DEFINE g == Cardinality(Since(hostGiven, t))
             o == Cardinality(Since(hostSecretStamps, t))
             n == Cardinality(Since(hostGiven', t))
  <2>1. g \in Nat /\ o \in Nat
    BY <1>2, SinceIsFinite DEF Since
  <2>2. g <= o
    <3>1. g <= o + 0
      BY <1>1, <1>5 DEF HostInv, GivenIsStamped
    <3> HIDE DEF g, o
    <3> QED BY <2>1, <3>1
  <2>3. n = g \/ n = g + (IF hostNow >= t THEN 1 ELSE 0)
    <3>1. Cardinality(Since(Append(hostGiven, hostNow), t)) = g + (IF hostNow >= t THEN 1 ELSE 0)
      <4>1. t \in Nat
        BY HostAssumption
      <4> QED BY <1>2, <4>1, OneMore
    <3> QED BY <1>1, <3>1
  <2> HIDE DEF g, o, n
  <2>4. n <= o + 1
    BY <2>1, <2>2, <2>3
  <2> QED BY <2>4 DEF n, o
<1>6. GivenIsStamped'
  BY <1>1, <1>5 DEF GivenIsStamped, Since
<1>7. Nh!SecretsBounded'
  <2> SUFFICES ASSUME NEW t \in 0 .. HostTime
               PROVE  Cardinality({i \in DOMAIN hostGiven' :
                                     hostGiven'[i] \in t .. (t + SecretWindow - 1)}) <= SecretMax + 1
    BY HostItems DEF Nh!SecretsBounded
  <2> DEFINE in == {i \in DOMAIN hostGiven : hostGiven[i] \in t .. (t + SecretWindow - 1)}
             new == {i \in DOMAIN hostGiven' : hostGiven'[i] \in t .. (t + SecretWindow - 1)}
  <2>1. Cardinality(in) <= SecretMax + 1
    BY HostItems DEF HostInv, Nh!SecretsBounded
  <2>2. CASE t + SecretWindow > hostNow
    <3>1. new \subseteq Since(hostGiven', t)
      BY <1>3 DEF Since, Ticks
    <3>2. IsFiniteSet(Since(hostGiven', t)) /\ Cardinality(Since(hostGiven', t)) \in Nat
      BY <1>3, SinceIsFinite DEF Since
    <3>3. Cardinality(new) \in Nat /\ Cardinality(new) <= Cardinality(Since(hostGiven', t))
      <4> HIDE DEF new
      <4> QED BY <3>1, <3>2, FS_Subset, FS_CardinalityType
    <3>4. Cardinality(Since(hostSecretStamps, t)) \in Nat
          /\ Cardinality(Since(hostSecretStamps, t)) <= SecretMax
      <4>1. Cardinality(Since(hostSecretStamps, t)) \in Nat
            /\ Cardinality(Since(hostSecretStamps, t)) <= Len(hostSecretStamps)
        BY <1>2, SinceIsFinite DEF Since
      <4> QED BY <1>2, <4>1
    <3> HIDE DEF new
    <3>5. Cardinality(new) <= SecretMax + 1
      BY <1>5, <2>2, <3>2, <3>3, <3>4
    <3> QED BY <3>5 DEF new
  <2>3. CASE ~(t + SecretWindow > hostNow)
    <3>1. hostNow \notin t .. (t + SecretWindow - 1)
      BY <1>2, <2>3
    <3>2. CASE hostGiven' = hostGiven
      BY <2>1, <3>2
    <3>3. CASE hostGiven' = Append(hostGiven, hostNow)
      <4>1. new = in
        <5>1. /\ Len(hostGiven) \in Nat
              /\ DOMAIN hostGiven = 1 .. Len(hostGiven)
              /\ DOMAIN hostGiven' = 1 .. (Len(hostGiven) + 1)
              /\ \A i \in DOMAIN hostGiven : hostGiven'[i] = hostGiven[i]
              /\ hostGiven'[Len(hostGiven) + 1] = hostNow
          BY <1>2, <3>3, TicksGrow
        <5> QED BY <3>1, <5>1
      <4> QED BY <2>1, <4>1
    <3> QED BY <1>1, <3>2, <3>3
  <2> QED BY <2>2, <2>3
<1> QED BY <1>1, <1>4, <1>6, <1>7, FrameIsDone DEF HostInv

\* The clock, the manifest and the backend.
LEMMA AroundKeeps ==
    ASSUME HostInv, Nh!Tick \/ Nh!ManifestEdited \/ Nh!BackendMoves \/ UNCHANGED Nh!vars
    PROVE  HostInv'
<1> USE HostAssumption
<1>1. UNCHANGED <<hostPc, hostReq, hostStamps, hostSecretStamps, hostGiven, hostCache, hostVerified,
                  Nh!Frame>>
  BY DEF Nh!Tick, Nh!ManifestEdited, Nh!BackendMoves, Nh!Loop, Nh!vars, Nh!Frame
<1>2. hostNow \in 0 .. HostTime /\ hostNow' \in 0 .. HostTime /\ hostNow <= hostNow'
  BY DEF HostInv, HostTypes, Nh!TypeOK, Nh!Tick, Nh!ManifestEdited, Nh!BackendMoves, Nh!vars
<1>3. hostManifest' \in Manifests
  BY DEF HostInv, HostTypes, Manifests, Nh!TypeOK, Nh!Tick, Nh!ManifestEdited, Nh!BackendMoves,
     Nh!vars
<1>4. HostTypes'
  <2>1. \A i \in DOMAIN hostGiven : hostGiven[i] <= hostNow'
    BY <1>2 DEF HostInv, HostTypes, Ticks
  <2> QED BY <1>1, <1>2, <1>3, <2>1 DEF HostInv, HostTypes, Nh!TypeOK, Nh!Frame, Manifests
<1>5. Framed'
  BY <1>1 DEF HostInv, Framed, Nh!Frame
<1>6. GivenIsStamped' /\ Nh!SecretsBounded'
  BY <1>1, <1>2, SecretsStay
<1> QED BY <1>4, <1>5, <1>6 DEF HostInv

LEMMA NextHost == HostInv /\ [Nh!Next]_(Nh!vars) => HostInv'
  BY PipeKeeps, RequestKeeps, BudgetKeeps, SecretKeeps, AroundKeeps DEF Nh!Next

\* The host reads a header only where a frame begins, however the pipe cuts its
\* bytes and whatever it skips; and no window of the clock sees more secrets
\* than the budget and one (native_host/native_host.py).
THEOREM AlignedOrClosedHolds == Nh!Spec => []AlignedOrClosed
<1>1. HostInv => AlignedOrClosed
  BY DEF HostInv, HostTypes, Framed, AlignedOrClosed, Nh!AlignedOrClosed
<1> QED BY InitHost, NextHost, <1>1, PTL DEF Nh!Spec
=============================================================================
