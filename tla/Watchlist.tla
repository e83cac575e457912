------------------------------ MODULE Watchlist ------------------------------
(***************************************************************************)
(* The user's watchlist of one market: the container in memory, the file   *)
(* user_stocks.json, the requests that change both (add, portfolio update, *)
(* delete, reset), and the sync thread that reloads the file.              *)
(*                                                                         *)
(* A request changes memory under user_stocks_lock, saves outside it, and  *)
(* undoes its own change when the save fails.  The reload replaces memory  *)
(* by the file, at every sync that has cached rows.  A stored value is     *)
(* Name (a bare display name) or the shares a portfolio update wrote,      *)
(* identified by the update itself.                                        *)
(***************************************************************************)
EXTENDS Naturals, FiniteSets

CONSTANTS Symbols,    \* the symbols requests name
          Defaults,   \* those of them the application lists by itself
          Requests,   \* the requests of one behaviour
          Capacity,   \* MAX_USER_WATCHLIST_ITEMS, for the non-default entries
          MaxLoads,   \* bound: reloads after the first
          Absent, Name, NoFile

VARIABLES
    mem,        \* market.user_us: symbol -> stored value
    loadError,  \* market.user_stocks_load_error
    file,       \* user_stocks.json, or NoFile
    legacy,     \* the plaintext file of older releases still exists
    saver,      \* the request that holds _user_stocks_save_lock, or Absent
    req,        \* the requests, see TypeOK
    booted,     \* the load of the bootstrap is over
    loads,      \* reloads made
    (* history *)
    loaded,     \* a load has succeeded, or there was nothing to load
    tainted,    \* symbols a reload or an undo took from an open request
    acked       \* requests answered with success whose save is on disk or not

vars == <<mem, loadError, file, legacy, saver, req, booted, loads, loaded, tainted, acked>>

Values == Requests \cup {Name}
Contents == [Symbols -> Values \cup {Absent}]
Empty == [s \in Symbols |-> Absent]
Keys(c) == {s \in Symbols : c[s] # Absent}

Kinds == {"add", "update", "delete", "reset"}
Idle == [pc |-> "idle", kind |-> "add", sym |-> CHOOSE s \in Symbols : TRUE,
         val |-> Absent, alias |-> FALSE, prev |-> Empty, snap |-> Empty]

TypeOK ==
    /\ mem \in Contents /\ file \in Contents \cup {NoFile}
    /\ loadError \in BOOLEAN /\ legacy \in BOOLEAN /\ loaded \in BOOLEAN
    /\ saver \in Requests \cup {Absent}
    /\ req \in [Requests ->
         [pc : {"idle", "save", "write", "undo", "publish", "done"},
          kind : Kinds, sym : Symbols, val : Values \cup {Absent},
          alias : BOOLEAN, prev : Contents, snap : Contents]]
    /\ booted \in BOOLEAN
    /\ loads \in 0 .. MaxLoads
    /\ tainted \subseteq Symbols
    /\ acked \in [Requests -> {"none", "saved", "unsaved"}]

\* What is on disk at start: a store of this release, one of an older release
\* to be migrated, or nothing.
Original == [Empty EXCEPT ![CHOOSE s \in Symbols : s \notin Defaults] = Name]

Init ==
    /\ \/ file = Original /\ legacy = FALSE
       \/ file = NoFile /\ legacy = TRUE
       \/ file = NoFile /\ legacy = FALSE
    /\ mem = Empty /\ loadError = FALSE /\ saver = Absent
    /\ req = [r \in Requests |-> Idle]
    /\ booted = FALSE /\ loads = 0
    /\ loaded = FALSE /\ tainted = {} /\ acked = [r \in Requests |-> "none"]

Open(r) == req[r].pc \in {"save", "write", "undo", "publish"}

(***************************************************************************)
(* The change in memory, under user_stocks_lock.                           *)
(***************************************************************************)
Enter(r, kind, s, new) ==
    /\ req[r].pc = "idle" /\ booted
    /\ mem' = new
    /\ UNCHANGED <<loadError, file, legacy, saver, booted, loads, loaded, tainted, acked>>

HasCapacity ==
    Cardinality({s \in Symbols \ Defaults : mem[s] # Absent}) < Capacity

\* api_add_stock, and api_add_stock_ext of the browser extension.
Add(r, s) ==
    /\ s \notin Defaults /\ mem[s] = Absent /\ HasCapacity
    /\ Enter(r, "add", s, [mem EXCEPT ![s] = Name])
    /\ req' = [req EXCEPT ![r] = [@ EXCEPT !.pc = "save", !.kind = "add",
                                           !.sym = s, !.val = Name]]

AddFromExtension(r, s) == Add(r, s)

\* api_update_portfolio pops the stored value, writes the new shares into it
\* and puts it back.  A value that already was a dictionary is the same object
\* afterwards, so every open update that put it there sees the new shares in
\* what it keeps as `val`.
Update(r, s) ==
    /\ mem[s] # Absent \/ s \in Defaults
    /\ Enter(r, "update", s, [mem EXCEPT ![s] = r])
    /\ req' = [q \in Requests |->
         IF q = r
         THEN [req[r] EXCEPT !.pc = "save", !.kind = "update", !.sym = s,
                             !.val = r, !.alias = TRUE,
                             !.prev = [Empty EXCEPT ![s] = mem[s]]]
         ELSE IF req[q].alias /\ req[q].sym = s /\ mem[s] \in Requests
         THEN [req[q] EXCEPT !.val = r]
         ELSE req[q]]

\* The objects of the popped entries leave the container.
Unalias(ss, q) == IF req[q].sym \in ss THEN [req[q] EXCEPT !.alias = FALSE] ELSE req[q]

\* api_delete_stock, and the removal of one invalid symbol by the sync thread.
Delete(r, s) ==
    /\ Enter(r, "delete", s, [mem EXCEPT ![s] = Absent])
    /\ req' = [q \in Requests |->
         IF q = r THEN [req[r] EXCEPT !.pc = "save", !.kind = "delete", !.sym = s,
                                      !.prev = [Empty EXCEPT ![s] = mem[s]]]
                  ELSE Unalias({s}, q)]

\* api_reset_stocks.
Reset(r) ==
    /\ Enter(r, "reset", Idle.sym, Empty)
    /\ req' = [q \in Requests |->
         IF q = r THEN [req[r] EXCEPT !.pc = "save", !.kind = "reset", !.prev = mem]
                  ELSE Unalias(Symbols, q)]

(***************************************************************************)
(* save_user_stocks: one saver at a time, a snapshot under the memory lock, *)
(* the write outside it, the registration outside both.                    *)
(***************************************************************************)
SaveBeginMutant(r) ==  \* a failed load does not refuse the save
    /\ req[r].pc = "save" /\ saver = Absent
    /\ saver' = r
    /\ req' = [req EXCEPT ![r].pc = "write", ![r].snap = mem]
    /\ UNCHANGED <<mem, loadError, file, legacy, booted, loads, loaded, tainted, acked>>
SaveBegin(r) ==
    /\ req[r].pc = "save" /\ saver = Absent
    /\ IF loadError
       THEN /\ req' = [req EXCEPT ![r].pc = "undo"]
            /\ UNCHANGED saver
       ELSE /\ saver' = r
            /\ req' = [req EXCEPT ![r].pc = "write", ![r].snap = mem]
    /\ UNCHANGED <<mem, loadError, file, legacy, booted, loads, loaded, tainted, acked>>

\* The file lock is held, the temporary file written and promoted.
WriteOk(r) ==
    /\ req[r].pc = "write"
    /\ file' = req[r].snap
    /\ saver' = Absent
    /\ req' = [req EXCEPT ![r].pc = "publish"]
    /\ UNCHANGED <<mem, loadError, legacy, booted, loads, loaded,
                   tainted, acked>>

\* The lock stayed busy, or encryption or the write failed: nothing replaced.
WriteFails(r) ==
    /\ req[r].pc = "write"
    /\ saver' = Absent
    /\ req' = [req EXCEPT ![r].pc = "undo"]
    /\ UNCHANGED <<mem, loadError, file, legacy, booted, loads, loaded, tainted, acked>>

(***************************************************************************)
(* The conditional undo of a failed save, and the success path.            *)
(***************************************************************************)
Popped(r, s) == req[r].kind \in {"add", "update"} /\ s = req[r].sym /\ mem[s] = req[r].val

Undone(r) ==
    [s \in Symbols |->
        IF (Popped(r, s) \/ mem[s] = Absent) THEN req[r].prev[s] ELSE mem[s]]

Undo(r) ==
    /\ req[r].pc = "undo"
    /\ mem' = Undone(r)
    /\ tainted' = tainted \cup {s \in Symbols : mem[s] # Undone(r)[s]}
    /\ req' = [q \in Requests |->
         IF q = r THEN [req[r] EXCEPT !.pc = "done"]
                  ELSE Unalias({s \in Symbols : mem[s] # Undone(r)[s]}, q)]
    /\ UNCHANGED <<loadError, file, legacy, saver, booted, loads, loaded, acked>>

\* A save that lost the request's own change: the snapshot shows neither it
\* nor a later change by another request.
Persisted(r) ==
    CASE req[r].kind \in {"add", "update"} ->
            req[r].snap[req[r].sym] # Absent
            \/ \E q \in Requests \ {r} : req[q].kind \in {"delete", "reset"} /\ req[q].pc # "idle"
      [] OTHER -> TRUE

\* The answer.  What a success also does - registration with the realtime
\* engine, cache rows, announcement - is RealtimeEngine's and MarketPublish's.
Publish(r) ==
    /\ req[r].pc = "publish"
    /\ req' = [req EXCEPT ![r].pc = "done"]
    /\ acked' = [acked EXCEPT ![r] = IF Persisted(r) THEN "saved" ELSE "unsaved"]
    /\ UNCHANGED <<mem, loadError, file, legacy, saver, booted, loads, loaded, tainted>>

(***************************************************************************)
(* load_user_stocks(force=True): at boot and at every sync with rows.      *)
(***************************************************************************)
LoadTurn ==
    \/ ~booted /\ UNCHANGED loads
    \/ booted /\ loads < MaxLoads /\ loads' = loads + 1

\* _migrate_legacy_user_stocks: the plaintext store becomes the file.
Migrated == IF file = NoFile /\ legacy THEN Original ELSE file

\* No store and nothing to migrate: memory stays.
LoadNothing ==
    /\ LoadTurn
    /\ file = NoFile /\ ~legacy
    /\ booted' = TRUE
    /\ loaded' = TRUE
    /\ UNCHANGED <<mem, loadError, file, legacy, saver, req, tainted, acked>>

LoadOk ==
    /\ LoadTurn
    /\ Migrated # NoFile
    /\ file' = Migrated
    /\ legacy' = (legacy /\ file # NoFile)
    /\ mem' = Migrated /\ loadError' = FALSE
    /\ booted' = TRUE
    /\ loaded' = TRUE
    /\ tainted' = tainted \cup {s \in Symbols : mem[s] # Migrated[s]}
    /\ req' = [q \in Requests |-> Unalias(Symbols, q)]
    /\ UNCHANGED <<saver, acked>>

\* The migration fails, the file cannot be read, decrypted or parsed: memory
\* is kept, saves are refused, the unreadable file is copied to a backup.
LoadFails ==
    /\ LoadTurn
    /\ file # NoFile \/ legacy
    /\ loadError' = TRUE
    /\ booted' = TRUE
    /\ UNCHANGED <<mem, file, legacy, saver, req, loaded, tainted,
                   acked>>

RequestStep(r) ==
    \/ \E s \in Symbols : Add(r, s) \/ AddFromExtension(r, s) \/ Update(r, s) \/ Delete(r, s)
    \/ Reset(r)
    \/ SaveBegin(r) \/ WriteOk(r) \/ WriteFails(r)
    \/ Undo(r) \/ Publish(r)

Load == LoadNothing \/ LoadOk \/ LoadFails

Next == (\E r \in Requests : RequestStep(r)) \/ Load

Spec == Init /\ [][Next]_vars

(***************************************************************************)
(* Properties                                                              *)
(***************************************************************************)
\* MNS-001: until the portfolio on disk has been read once, it stays on disk,
\* as it was or as the plaintext file to be migrated: no sequence of failed
\* loads, failed migrations and requests lets a save put a fresh store over it.
UnreadIsKept ==
    [][~loaded /\ (legacy \/ file # NoFile) => (loaded' \/ UNCHANGED <<file, legacy>>)]_vars

\* When no request is open, the file says what memory says of every symbol that
\* neither a reload nor an undo took from a request: saves that overlap never
\* leave an older snapshot on disk.
QuietFileMatches ==
    (loaded /\ \A r \in Requests : ~Open(r)) =>
        \A s \in Symbols \ tainted :
            mem[s] = IF file = NoFile THEN Absent ELSE file[s]

\* save_user_stocks raises whenever the write cannot complete, so that handlers
\* do not answer success for a change that is not on disk.  (Violated: the
\* reload of a sync replaces memory by the file while a request is between its
\* change and its snapshot; the snapshot then lacks the change.)
AckedIsPersisted == \A r \in Requests : acked[r] # "unsaved"

\* The conditional rollback never overwrites a concurrent change that was
\* committed: an undo removes or replaces only what its own request wrote.
\* (Violated: two portfolio updates of one symbol share the stored dictionary,
\* and the first one's undo takes the second one's shares for its own.)
UndoIsOwn ==
    [][\A r \in Requests, s \in Symbols :
          (req[r].pc = "undo" /\ req'[r].pc = "done" /\ mem[s] # mem'[s])
              => mem[s] \notin {q \in Requests \ {r} : acked[q] = "saved"}]_vars
=============================================================================
