---------------------------- MODULE ShutdownToken ----------------------------
(***************************************************************************)
(* The one-time shutdown token (shutdown_manager.py) and its only caller,  *)
(* POST /api/shutdown (routes/system/shutdown.py).                         *)
(*                                                                         *)
(* The token lives in memory and, encrypted, in a file; a second file, the *)
(* used-marker, records that the token was spent.  Every operation holds   *)
(* one lock, so what can come between the steps of an operation is not     *)
(* another thread but the end of the process: operations are split at each *)
(* write to the disk, and Crash may follow any of them.                    *)
(*                                                                         *)
(* A token is the number of its creation.  Files are written by an atomic  *)
(* replace, so a write either happens or does not.                         *)
(***************************************************************************)
EXTENDS Naturals

CONSTANTS
    Consumers,   \* requests to /api/shutdown: consume, then rotate
    Committers,  \* callers of the two-phase interface: validate, then commit
    LegacyTokens,\* what an older release may have left: a token (1), None, or either
    MaxTokens,   \* bound: tokens ever created
    MaxStarts    \* bound: times the process is started

ASSUME CallersAssumption == Consumers \cap Committers = {}
ASSUME BoundsAssumption == MaxTokens \in Nat \ {0} /\ MaxStarts \in Nat

None == 0
Tokens == 1..MaxTokens

ASSUME LegacyAssumption == LegacyTokens \subseteq {None, 1}

Callers == Consumers \cup Committers

VARIABLES
    file,        \* token in APP_DATA_DIR/.mns_shutdown_token, or None
    marker,      \* .mns_shutdown_token.used exists
    legacyFile,  \* token in the file older releases kept in BASE_DIR
    legacyMarker,
    mem,         \* shutdown_token
    used,        \* shutdown_token_used
    boot,        \* where bootstrap is in get_or_create_shutdown_token; "up": requests are served
    wasUsed,     \* its local was_used
    pc,          \* per caller
    presented,   \* per caller: the token it validated or presented
    next,        \* next token to be created
    starts,
    spent,       \* history: times each token was marked used by a success
    authorised,  \* history: successes obtained by presenting each token
    torn         \* history: a start lost the record that the file's token is spent

disk == <<file, marker, legacyFile, legacyMarker>>
memory == <<mem, used>>
callers == <<pc, presented>>
history == <<spent, authorised>>
vars == <<disk, memory, boot, wasUsed, callers, next, starts, history, torn>>

BootSteps == {"down", "migrateToken", "migrateMarker", "checkMarker", "load", "write",
              "loaded", "up"}
Locked == {"marked", "written", "unmarked"}
CallerSteps == {"idle", "validated", "rotate", "done"} \cup Locked

LockFree == boot = "up" /\ \A c \in Callers : pc[c] \notin Locked

(* A mutant for SingleUse: the flag is not tested.                         *)
UnspentMutant == mem # None

(* consume_shutdown_token and commit_shutdown_token refuse unless there is *)
(* a token and it has not been used.                                       *)
Unspent == mem # None /\ ~used

-----------------------------------------------------------------------------
(* get_or_create_shutdown_token, at every start of the process.            *)

Start ==
    /\ boot = "down" /\ starts < MaxStarts
    /\ boot' = "migrateToken"
    /\ starts' = starts + 1
    /\ UNCHANGED <<disk, memory, wasUsed, callers, next, history, torn>>

(* A later step of bootstrap failed and it is tried again: the token in    *)
(* memory is returned unless a marker (that could not be removed) remains. *)
Rebootstrap ==
    /\ boot = "loaded" /\ marker
    /\ boot' = "migrateToken"
    /\ UNCHANGED <<disk, memory, wasUsed, callers, next, starts, history, torn>>

(* Each move of a legacy file may fail with an OSError that is ignored.    *)
MigrateToken ==
    /\ boot = "migrateToken"
    /\ \/ /\ file = None /\ legacyFile # None
          /\ file' = legacyFile /\ legacyFile' = None
       \/ UNCHANGED <<file, legacyFile>>
    /\ boot' = "migrateMarker"
    /\ UNCHANGED <<marker, legacyMarker, memory, wasUsed, callers, next, starts, history, torn>>

MigrateMarker ==
    /\ boot = "migrateMarker"
    /\ LET movable == ~marker /\ legacyMarker IN
       \/ /\ movable
          /\ marker' = TRUE /\ legacyMarker' = FALSE
          /\ UNCHANGED torn
       \/ /\ torn' = (torn \/ movable)
          /\ UNCHANGED <<marker, legacyMarker>>
    /\ boot' = "checkMarker"
    /\ UNCHANGED <<file, legacyFile, memory, wasUsed, callers, next, starts, history>>

(* The marker is removed here, before a new token replaces the spent one;  *)
(* a failure to remove it is ignored.                                      *)
CheckMarker ==
    /\ boot = "checkMarker"
    /\ wasUsed' = marker
    /\ marker' \in {FALSE, marker}
    /\ boot' = "load"
    /\ UNCHANGED <<file, legacyFile, legacyMarker, memory, callers, next, starts, history, torn>>

LoadToken ==
    /\ boot = "load"
    /\ \/ /\ ~wasUsed /\ file # None
          /\ mem' = file /\ used' = FALSE
          /\ boot' = "loaded"
       \/ /\ boot' = "write"      \* spent, absent or unreadable
          /\ UNCHANGED memory
    /\ UNCHANGED <<disk, wasUsed, callers, next, starts, history, torn>>

(* The new token is used even when it cannot be written.                   *)
WriteToken ==
    /\ boot = "write" /\ next \in Tokens
    /\ mem' = next /\ used' = FALSE
    /\ next' = next + 1
    /\ \/ file' = next /\ UNCHANGED torn
       \/ file' = file /\ torn' = (torn \/ wasUsed)
    /\ boot' = "loaded"
    /\ UNCHANGED <<marker, legacyFile, legacyMarker, wasUsed, callers, starts, history>>

(* The rest of bootstrap succeeds; before_request lets requests through.   *)
Serve ==
    /\ boot = "loaded"
    /\ boot' = "up"
    /\ UNCHANGED <<disk, memory, wasUsed, callers, next, starts, history, torn>>

-----------------------------------------------------------------------------
(* The operations of a running server.                                     *)

(* A mutant for ConsumptionIsDurable: the consumption is kept in memory only. *)
PersistMarkerMutant(c) ==
    /\ pc' = [pc EXCEPT ![c] = "marked"]
    /\ UNCHANGED <<disk, memory, boot, wasUsed, next, starts, history, torn>>

(* A success persists the marker before anything else; when that fails the *)
(* call returns False and nothing has changed.                             *)
PersistMarker(c) ==
    /\ marker' = TRUE
    /\ pc' = [pc EXCEPT ![c] = "marked"]
    /\ UNCHANGED <<file, legacyFile, legacyMarker, memory, boot, wasUsed, next, starts,
                   history, torn>>

Consume(c) ==
    /\ c \in Consumers /\ pc[c] = "idle" /\ LockFree /\ Unspent
    /\ \E token \in Tokens : token = mem /\ presented' = [presented EXCEPT ![c] = token]
    /\ PersistMarker(c)

Validate(c) ==
    /\ c \in Committers /\ pc[c] = "idle" /\ LockFree /\ Unspent
    /\ \E token \in Tokens : token = mem /\ presented' = [presented EXCEPT ![c] = token]
    /\ pc' = [pc EXCEPT ![c] = "validated"]
    /\ UNCHANGED <<disk, memory, boot, wasUsed, next, starts, history, torn>>

(* commit takes no token: it marks whatever token is in memory.            *)
Commit(c) ==
    /\ pc[c] = "validated" /\ LockFree
    /\ IF Unspent
       THEN PersistMarker(c) /\ UNCHANGED presented
       ELSE /\ pc' = [pc EXCEPT ![c] = "idle"]
            /\ UNCHANGED <<disk, memory, boot, wasUsed, presented, next, starts, history, torn>>

Accept(c) ==
    /\ pc[c] = "marked"
    /\ used' = TRUE
    /\ spent' = [spent EXCEPT ![mem] = @ + 1]
    /\ authorised' = [authorised EXCEPT ![presented[c]] = @ + 1]
    /\ pc' = [pc EXCEPT ![c] = IF c \in Consumers THEN "rotate" ELSE "done"]
    /\ UNCHANGED <<disk, mem, boot, wasUsed, presented, next, starts, torn>>

RotateWrite(c) ==
    /\ pc[c] = "rotate" /\ LockFree /\ next \in Tokens
    /\ file' = next
    /\ next' = next + 1
    /\ pc' = [pc EXCEPT ![c] = "written"]
    /\ UNCHANGED <<marker, legacyFile, legacyMarker, memory, boot, wasUsed, presented, starts,
                   history, torn>>

(* The write fails: the old files are put back and the endpoint goes on.   *)
RotateFails(c) ==
    /\ pc[c] = "rotate" /\ LockFree
    /\ pc' = [pc EXCEPT ![c] = "done"]
    /\ UNCHANGED <<disk, memory, boot, wasUsed, presented, next, starts, history, torn>>

RotateUnmark(c) ==
    /\ pc[c] = "written"
    /\ marker' \in {FALSE, marker}
    /\ legacyMarker' \in {FALSE, legacyMarker}
    /\ pc' = [pc EXCEPT ![c] = "unmarked"]
    /\ UNCHANGED <<file, legacyFile, memory, boot, wasUsed, presented, next, starts, history, torn>>

RotatePublish(c) ==
    /\ pc[c] = "unmarked"
    /\ mem' = file /\ used' = FALSE
    /\ pc' = [pc EXCEPT ![c] = "done"]
    /\ UNCHANGED <<disk, boot, wasUsed, presented, next, starts, history, torn>>

(* The process ends: the shutdown thread's exit, or a crash anywhere.      *)
Crash ==
    /\ boot # "down"
    /\ boot' = "down"
    /\ mem' = None /\ used' = FALSE /\ wasUsed' = FALSE
    /\ pc' = [c \in Callers |-> "idle"]
    /\ presented' = [c \in Callers |-> None]
    /\ torn' = (torn \/ (boot \in {"load", "write"} /\ wasUsed))
    /\ UNCHANGED <<disk, next, starts, history>>

-----------------------------------------------------------------------------
(* A fresh install, or an older release's files, whose token may be spent. *)
Init ==
    /\ file = None /\ marker = FALSE
    /\ legacyFile \in LegacyTokens /\ legacyMarker \in BOOLEAN
    /\ legacyFile = None => ~legacyMarker
    /\ mem = None /\ used = FALSE
    /\ boot = "down" /\ wasUsed = FALSE
    /\ pc = [c \in Callers |-> "idle"]
    /\ presented = [c \in Callers |-> None]
    /\ next = IF legacyFile = None THEN 1 ELSE 2
    /\ starts = 0
    /\ spent = [t \in Tokens |-> IF t = legacyFile /\ legacyMarker THEN 1 ELSE 0]
    /\ authorised = spent
    /\ torn = FALSE

BootStep ==
    \/ Start \/ MigrateToken \/ MigrateMarker \/ CheckMarker \/ LoadToken \/ WriteToken
    \/ Rebootstrap \/ Serve

CallerStep(c) ==
    \/ Consume(c) \/ Validate(c) \/ Commit(c) \/ Accept(c)
    \/ RotateWrite(c) \/ RotateFails(c) \/ RotateUnmark(c) \/ RotatePublish(c)

Next == BootStep \/ Crash \/ \E c \in Callers : CallerStep(c)

Spec == Init /\ [][Next]_vars

-----------------------------------------------------------------------------
(* Types, and every token in use has been created (secrets.token_urlsafe    *)
(* in get_or_create_shutdown_token and rotate_shutdown_token).             *)
TypeOK ==
    /\ file \in Tokens \cup {None} /\ legacyFile \in Tokens \cup {None}
    /\ marker \in BOOLEAN /\ legacyMarker \in BOOLEAN
    /\ mem \in Tokens \cup {None} /\ used \in BOOLEAN
    /\ boot \in BootSteps /\ wasUsed \in BOOLEAN
    /\ pc \in [Callers -> CallerSteps]
    /\ presented \in [Callers -> Tokens \cup {None}]
    /\ next \in 1..(MaxTokens + 1) /\ starts \in Nat
    /\ spent \in [Tokens -> Nat] /\ authorised \in [Tokens -> Nat]
    /\ torn \in BOOLEAN
    /\ file < next /\ legacyFile < next /\ mem < next

(* No token is ever spent twice, over any number of callers, rotations,    *)
(* crashes and restarts, as long as no start has lost the record that the  *)
(* token on the disk is spent (shutdown_manager.py, consume, commit,       *)
(* rotate and get_or_create together).                                     *)
SingleUse == ~torn => \A t \in Tokens : spent[t] <= 1

(* The file never offers a spent token to the next start without a marker  *)
(* to say so: consumption is durable before it is reported.                *)
ConsumptionIsDurable ==
    (~torn /\ boot \in {"loaded", "up", "down"} /\ file # None /\ spent[file] > 0)
        => marker \/ legacyMarker

(* What shutdown_manager.py:220-221 says of the marker: "a process crash   *)
(* after token validation cannot make the old token valid again on         *)
(* restart".  The code removes the marker before the new token is written. *)
NoRevivalOnRestart == \A t \in Tokens : spent[t] <= 1

(* What shutdown_manager.py:256-258 says of commit: "a second commit       *)
(* (including one racing another caller that already validated the same    *)
(* token) must fail closed".  The code commits whatever token is current.  *)
AuthorisedOnce == ~torn => \A t \in Tokens : authorised[t] <= 1
=============================================================================
