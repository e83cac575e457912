--------------------------- MODULE RealtimeEngine ---------------------------
(***************************************************************************)
(* The realtime engine for one JP symbol: its registration, the producers  *)
(* that write its two rows (regular and PTS quote), and one mode-2 stream  *)
(* that follows them.  A quote is the number of the update that made it.   *)
(*                                                                         *)
(* A fetch started by a registration carries the registration's token and  *)
(* is checked again under store_lock; the two polling loops check their    *)
(* symbol set and then call back without a token.  Registrations come from *)
(* request handlers and from loads and saves of the watchlist, each in     *)
(* several steps of its own.                                               *)
(***************************************************************************)
EXTENDS Naturals

CONSTANTS Callers,    \* threads that register or unregister, once each
          MaxQuotes   \* bound: quotes written

Feeds == {"regular", "pts"}
None == 0                 \* no row

VARIABLES
    token,    \* _registration_tokens has the symbol
    polled,   \* yahoojp_scraper.symbols has it
    stopped,  \* the engine has been stopped: _engine_epoch moved on
    caller,   \* the step each caller is at
    job,      \* the fetch each caller submitted to _bg_executor
    loop,     \* the polling loop of each feed
    row,      \* market_store[symbol] and pts_store[symbol]
    bound,    \* history: the feeds whose row a registration's fetch delivered
    quotes,   \* updates made
    cursor,   \* the client is registered
    pending,  \* the feeds in the client's pending sets
    seen,     \* the client's copy of the rows it was told about
    stream,   \* the step of the client's stream
    view      \* what the page shows of the regular row, None before a frame

vars == <<token, polled, stopped, caller, job, loop, row, bound, quotes,
          cursor, pending, seen, stream, view>>
engineVars == <<token, polled, stopped, caller, job>>
rowVars == <<row, bound, quotes>>
clientVars == <<cursor, pending, seen, stream, view>>

\* A token is only compared with the symbol's newest one: what a fetch keeps is
\* whether its own still is that one and of this epoch.
Job == [kind : {"none", "priority", "background"}, current : BOOLEAN,
        feed : Feeds, pc : {"held", "fetch", "checked"}]
NoJob == [kind |-> "none", current |-> FALSE, feed |-> "pts", pc |-> "fetch"]
CallerSteps == {"idle", "register", "bulk", "invalidated", "purge", "done"}

TypeOK ==
    /\ token \in BOOLEAN /\ polled \in BOOLEAN /\ stopped \in BOOLEAN
    /\ caller \in [Callers -> CallerSteps] /\ job \in [Callers -> Job]
    /\ loop \in [Feeds -> [pc : {"idle", "fetch", "checked"}, current : BOOLEAN]]
    /\ row \in [Feeds -> 0 .. MaxQuotes] /\ quotes \in 0 .. MaxQuotes
    /\ bound \subseteq Feeds
    /\ cursor \in BOOLEAN /\ pending \subseteq Feeds
    /\ seen \in [Feeds -> 0 .. MaxQuotes] /\ view \in 0 .. MaxQuotes
    /\ stream \in {"new", "snapshot", "deltas", "full", "wait", "stalled"}

Init ==
    /\ token = FALSE /\ polled = FALSE /\ stopped = FALSE
    /\ caller = [c \in Callers |-> "idle"] /\ job = [c \in Callers |-> NoJob]
    /\ loop = [f \in Feeds |-> [pc |-> "idle", current |-> FALSE]]
    /\ row = [f \in Feeds |-> None] /\ bound = {} /\ quotes = 0
    /\ cursor = FALSE /\ pending = {} /\ seen = [f \in Feeds |-> None]
    /\ stream = "new" /\ view = None

(***************************************************************************)
(* Registration.                                                           *)
(***************************************************************************)
To(c, step) == caller' = [caller EXCEPT ![c] = step]

\* _activate_registration: earlier tokens are not the newest any more.
Outdated == [c \in Callers |-> [job[c] EXCEPT !.current = FALSE]]
WithJob(c, kind, f, pc) ==
    [Outdated EXCEPT ![c] = [kind |-> kind, current |-> TRUE, feed |-> f, pc |-> pc]]

\* YahooJPRealtimeScraper.add_symbol and remove_symbol: the scraper's own token
\* of the symbol changes too.
Poll(on) ==
    /\ polled' = on
    /\ loop' = [f \in Feeds |-> [loop[f] EXCEPT !.current = FALSE]]

\* register_symbol: an existing token ends it; a new one is taken under
\* store_lock before the scraper learns of the symbol.
Register(c) ==
    /\ caller[c] = "idle"
    /\ IF token THEN To(c, "done") /\ UNCHANGED <<token, job>>
                ELSE /\ To(c, "register") /\ token' = TRUE
                     /\ job' = WithJob(c, "priority", "regular", "held")
    /\ UNCHANGED <<polled, stopped, loop, rowVars, clientVars>>

\* ... then polls it and submits the priority fetch, held until here, of both
\* feeds, which carries the token taken above.
RegisterPolls(c) ==
    /\ caller[c] = "register" /\ To(c, "done")
    /\ Poll(TRUE)
    /\ job' = [job EXCEPT ![c].pc = "fetch"]
    /\ UNCHANGED <<token, stopped, rowVars, clientVars>>

\* register_symbols, after a load or a save whose keys hold the symbol.
Bulk(c) ==
    /\ caller[c] = "idle" /\ To(c, "bulk")
    /\ Poll(TRUE)
    /\ UNCHANGED <<token, stopped, job, rowVars, clientVars>>

\* ... always a new token, and a PTS fetch when there is no PTS row.
BulkActivate(c) ==
    /\ caller[c] = "bulk" /\ To(c, "done")
    /\ token' = TRUE
    /\ job' = IF row["pts"] = None
              THEN WithJob(c, "background", "pts", "fetch") ELSE Outdated
    /\ UNCHANGED <<polled, stopped, loop, rowVars, clientVars>>

\* unregister_symbol: invalidate, stop polling, purge rows and cursors.
Unregister(c) ==
    /\ caller[c] = "idle" /\ To(c, "invalidated")
    /\ token' = FALSE /\ job' = Outdated
    /\ UNCHANGED <<polled, stopped, loop, rowVars, clientVars>>

StopPolling(c) ==
    /\ caller[c] = "invalidated" /\ To(c, "purge")
    /\ Poll(FALSE)
    /\ UNCHANGED <<token, stopped, job, rowVars, clientVars>>

Purge(c) ==
    /\ caller[c] = "purge" /\ To(c, "done")
    /\ row' = [f \in Feeds |-> None] /\ bound' = {}
    /\ seen' = [f \in Feeds |-> None] /\ pending' = {}
    /\ UNCHANGED <<token, polled, stopped, job, loop, quotes, cursor, stream, view>>

\* stop(): every fetch of before is of an older epoch; queued ones are
\* cancelled, running ones go on.
Stop ==
    /\ ~stopped /\ stopped' = TRUE
    /\ \E kept \in SUBSET Callers :
          job' = [c \in Callers |-> IF c \in kept \/ job[c].pc = "held"
                                  THEN Outdated[c] ELSE NoJob]
    /\ UNCHANGED <<token, polled, caller, loop, rowVars, clientVars>>

(***************************************************************************)
(* Producers.                                                              *)
(***************************************************************************)
\* The end of _handle_producer_update and _handle_pts_update, under store_lock.
Store(f, owned) ==
    /\ quotes < MaxQuotes
    /\ quotes' = quotes + 1
    /\ row' = [row EXCEPT ![f] = quotes + 1]
    /\ bound' = IF owned THEN bound \cup {f} ELSE bound \ {f}
    /\ pending' = IF cursor THEN pending \cup {f} ELSE pending
    /\ UNCHANGED <<cursor, seen, stream, view>>

\* A priority fetch goes on to the PTS quote while its registration is current.
AfterFetch(c) ==
    job' = [job EXCEPT ![c] =
              IF @.kind = "priority" /\ @.feed = "regular" /\ @.current
              THEN [@ EXCEPT !.feed = "pts", !.pc = "fetch"] ELSE NoJob]

\* Every provider fails, or the first check finds the registration gone.
FetchEmpty(c) ==
    /\ job[c].kind # "none" /\ job[c].pc = "fetch"
    /\ AfterFetch(c)
    /\ UNCHANGED <<token, polled, stopped, caller, loop, rowVars, clientVars>>

FetchChecked(c) ==
    /\ job[c].pc = "fetch" /\ job[c].current
    /\ job' = [job EXCEPT ![c].pc = "checked"]
    /\ UNCHANGED <<token, polled, stopped, caller, loop, rowVars, clientVars>>

DeliverMutant(c) ==  \* the registration is not looked at again under the lock
    /\ job[c].pc = "checked"
    /\ Store(job[c].feed, TRUE)
    /\ AfterFetch(c)
    /\ UNCHANGED <<token, polled, stopped, caller, loop>>

\* The check is made again under store_lock, with the write.
Deliver(c) ==
    /\ job[c].pc = "checked"
    /\ IF job[c].current THEN Store(job[c].feed, TRUE) ELSE UNCHANGED <<rowVars, clientVars>>
    /\ AfterFetch(c)
    /\ UNCHANGED <<token, polled, stopped, caller, loop>>

\* The loops: the scraper's cycle remembers its token of the symbol, the PTS
\* cycle does not; both check before the callback, not with the write.
LoopFetch(f) ==
    /\ loop[f].pc = "idle" /\ polled
    /\ loop' = [loop EXCEPT ![f] = [pc |-> "fetch", current |-> TRUE]]
    /\ UNCHANGED <<engineVars, rowVars, clientVars>>

\* A TradingView message is checked against its subscriptions only.
TvMessage ==
    /\ loop["regular"].pc = "idle" /\ polled
    /\ loop' = [loop EXCEPT !["regular"] = [pc |-> "checked", current |-> FALSE]]
    /\ UNCHANGED <<engineVars, rowVars, clientVars>>

LoopCheck(f) ==
    /\ loop[f].pc = "fetch"
    /\ \/ loop' = [loop EXCEPT ![f].pc = "idle"]
       \/ /\ polled /\ (f = "regular" => loop[f].current)
          /\ loop' = [loop EXCEPT ![f].pc = "checked"]
    /\ UNCHANGED <<engineVars, rowVars, clientVars>>

LoopDispatch(f) ==
    /\ loop[f].pc = "checked"
    /\ Store(f, FALSE)
    /\ loop' = [loop EXCEPT ![f] = [pc |-> "idle", current |-> FALSE]]
    /\ UNCHANGED engineVars

(***************************************************************************)
(* The mode-2 stream of one client.                                        *)
(***************************************************************************)
\* register_client seeds the cursor with the rows of the moment.
Connect ==
    /\ stream = "new"
    /\ cursor' = TRUE /\ seen' = row /\ pending' = {}
    /\ stream' = "snapshot"
    /\ UNCHANGED <<engineVars, loop, rowVars, view>>

\* get_market_deltas and get_pts_deltas: rows never told go out at once, then
\* the pending ones that differ from what was told; a purged cursor gets none.
Told(f) == IF cursor /\ (f \in pending \/ seen[f] = None) /\ row[f] # None THEN row[f] ELSE seen[f]

Drain(next, shown) ==
    /\ seen' = [f \in Feeds |-> Told(f)]
    /\ pending' = IF cursor THEN {} ELSE pending
    /\ view' = IF shown /\ Told("regular") # seen["regular"] THEN Told("regular") ELSE view
    /\ stream' = next
    /\ UNCHANGED <<engineVars, loop, rowVars, cursor>>

\* After the initial snapshot the deltas of its making are discarded.
Initial == stream = "snapshot" /\ Drain("deltas", FALSE)

DeltasMutant ==  \* the first round sends no full snapshot
    stream = "deltas" /\ \E full \in BOOLEAN : Drain(IF full THEN "full" ELSE "wait", TRUE)
Deltas == stream = "deltas" /\ \E full \in BOOLEAN :
            /\ view = None => full          \* the first round sends a full snapshot
            /\ Drain(IF full THEN "full" ELSE "wait", TRUE)

\* get_market_snapshot, at the first round and every five seconds.
Full ==
    /\ stream = "full"
    /\ view' = IF row["regular"] # None THEN row["regular"] ELSE view
    /\ stream' = "wait"
    /\ UNCHANGED <<engineVars, loop, rowVars, cursor, pending, seen>>

\* wait_for_updates returns at the event or after half a second.
Wake ==
    /\ stream = "wait"
    /\ stream' \in {"deltas", "stalled"}
    /\ UNCHANGED <<engineVars, loop, rowVars, cursor, pending, seen, view>>

\* A stream held up in a send for two minutes loses its cursor, then goes on.
Stalled ==
    /\ stream = "stalled"
    /\ cursor' = FALSE /\ pending' = {} /\ seen' = [f \in Feeds |-> None]
    /\ stream' = "deltas"
    /\ UNCHANGED <<engineVars, loop, rowVars, view>>

Disconnect ==
    /\ stream # "new"
    /\ cursor' = FALSE /\ pending' = {} /\ seen' = [f \in Feeds |-> None]
    /\ stream' = "new" /\ view' = None
    /\ UNCHANGED <<engineVars, loop, rowVars>>

Registration ==
    \E c \in Callers : \/ Register(c) \/ RegisterPolls(c) \/ Bulk(c) \/ BulkActivate(c)
                       \/ Unregister(c) \/ StopPolling(c) \/ Purge(c)
Production ==
    \/ \E c \in Callers : FetchEmpty(c) \/ FetchChecked(c) \/ Deliver(c)
    \/ \E f \in Feeds : LoopFetch(f) \/ LoopCheck(f) \/ LoopDispatch(f)
    \/ TvMessage
Stream == Connect \/ Initial \/ Deltas \/ Full \/ Wake \/ Stalled \/ Disconnect

Next == Registration \/ Stop \/ Production \/ Stream

Spec == Init /\ [][Next]_vars

(***************************************************************************)
(* Properties                                                              *)
(***************************************************************************)
\* A row that a registration's fetch delivered does not outlive the symbol: if
\* the symbol is not registered any more, an unregistration is still on its way
\* to the purge.  No late fetch brings a removed symbol back.
BoundRowHasOwner ==
    bound # {} => token \/ \E c \in Callers : caller[c] \in {"invalidated", "purge"}

\* A waiting stream with a cursor and nothing pending shows the row of the
\* moment: no quote falls between a registration of the client, a drain of its
\* pending set and a producer's write.
ClientCatchesUp ==
    (stream = "wait" /\ cursor /\ "regular" \notin pending /\ row["regular"] # None)
        => view = row["regular"]
=============================================================================
