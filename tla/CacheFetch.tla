----------------------------- MODULE CacheFetch -----------------------------
(***************************************************************************)
(* One key of the in-memory cache, utils/caching.py: get_cached, which     *)
(* lets one of several concurrent callers fetch and the others wait for    *)
(* it, and get_cached_context_with_negative_cache around it, which         *)
(* remembers for a while that a fetch brought nothing.                     *)
(*                                                                         *)
(* The lookup holds cache_lock, the registration of the fetch holds        *)
(* fetch_events_lock, and nothing is held in between.  A caller that goes  *)
(* straight to get_cached, as the search and news routes do, is a call     *)
(* that bypasses the negative entry.  Only get_cached writes such a key,   *)
(* so what is stored is always valid and its lookup never drops an entry.  *)
(***************************************************************************)
EXTENDS Naturals

CONSTANTS Callers,   \* threads that ask for the key
          NoOne      \* nobody

ASSUME CallersAssumption == NoOne \notin Callers

VARIABLES
  store,     \* the cache holds a value
  neg,       \* the negative entry is set
  fetcher,   \* whose event fetch_events holds
  pc,        \* pc[c]: where caller c stands
  bypass,    \* bypass[c]: c's call does not use the negative entry
  on,        \* on[c]: whose event c has in hand
  woken,     \* the callers whose event in hand is set
  answer,    \* answer[c]: what c's own fetch, or the end of its wait, told it
  had        \* History: callers whose fetch stored a value still in the cache.

vars == <<store, neg, fetcher, pc, bypass, on, woken, answer, had>>

Fetching == {"fetch", "store", "pop"}    \* its event is registered
Waiting  == {"wait", "reread"}

TypeOK ==
  /\ store \in BOOLEAN /\ neg \in BOOLEAN
  /\ fetcher \in Callers \cup {NoOne}
  /\ pc \in [Callers -> {"idle", "lookup", "register", "set", "done",
                          "negative"}
                           \cup Fetching \cup Waiting]
  /\ bypass \in [Callers -> BOOLEAN]
  /\ on \in [Callers -> Callers \cup {NoOne}]
  /\ woken \subseteq {c \in Callers : on[c] # NoOne}
  /\ answer \in [Callers -> {"unknown", "value", "nothing"}]
  /\ had \subseteq Callers

Init ==
  /\ store = FALSE /\ neg = FALSE /\ fetcher = NoOne
  /\ pc = [c \in Callers |-> "idle"]
  /\ bypass = [c \in Callers |-> FALSE]
  /\ on = [c \in Callers |-> NoOne]
  /\ woken = {} /\ had = {}
  /\ answer = [c \in Callers |-> "unknown"]

Goto(c, from, to) == pc[c] = from /\ pc' = [pc EXCEPT ![c] = to]

-----------------------------------------------------------------------------

(* The call returns (or raises).                                           *)
Finish(c) ==
  /\ pc' = [pc EXCEPT ![c] = "idle"]
  /\ on' = [on EXCEPT ![c] = NoOne]
  /\ woken' = woken \ {c} /\ had' = had \ {c}
  /\ answer' = [answer EXCEPT ![c] = "unknown"]

(* get_cached had nothing: the wrapper remembers that.                     *)
NoData(c) ==
  IF bypass[c] THEN Finish(c)
  ELSE /\ pc' = [pc EXCEPT ![c] = "negative"]
       /\ UNCHANGED <<on, woken, had, answer>>

(* The wrapper's first look: a negative entry ends the call at once.       *)
Call(c, skip) ==
  /\ Goto(c, "idle", "lookup")
  /\ skip \/ ~neg
  /\ bypass' = [bypass EXCEPT ![c] = skip]
  /\ UNCHANGED <<store, neg, fetcher, on, woken, answer, had>>

Lookup(c) ==
  /\ pc[c] = "lookup"
  /\ IF store THEN Finish(c)
     ELSE /\ pc' = [pc EXCEPT ![c] = "register"]
          /\ UNCHANGED <<on, woken, had, answer>>
  /\ UNCHANGED <<store, neg, fetcher, bypass>>

RegisterMutant(c) ==  \* whether an event is registered was asked before
  /\ Goto(c, "register", "fetch")
  /\ fetcher' = c /\ on' = [on EXCEPT ![c] = c]
  /\ UNCHANGED <<store, neg, bypass, woken, answer, had>>

(* Under fetch_events_lock: join the fetch that is going on, or begin one. *)
Register(c) ==
  /\ \/ /\ fetcher = NoOne
        /\ Goto(c, "register", "fetch")
        /\ fetcher' = c /\ on' = [on EXCEPT ![c] = c]
     \/ /\ fetcher # NoOne
        /\ Goto(c, "register", "wait")
        /\ on' = [on EXCEPT ![c] = fetcher]
        /\ UNCHANGED fetcher
  /\ UNCHANGED <<store, neg, bypass, woken, answer, had>>

FetchedMutant(c) ==  \* no finally: an exception leaves the event registered
  /\ pc[c] = "fetch"
  /\ \/ /\ pc' = [pc EXCEPT ![c] = "store"]
        /\ answer' = [answer EXCEPT ![c] = "value"]
        /\ UNCHANGED <<on, woken, had>>
     \/ Finish(c)
  /\ UNCHANGED <<store, neg, fetcher, bypass>>

(* fetch_func returns valid data, or nothing valid, or raises.             *)
Fetched(c) ==
  /\ pc[c] = "fetch"
  /\ \E result \in {"value", "nothing", "unknown"} :
       /\ pc' = [pc EXCEPT ![c] = IF result = "value" THEN "store" ELSE "pop"]
       /\ answer' = [answer EXCEPT ![c] = result]
  /\ UNCHANGED <<store, neg, fetcher, bypass, on, woken, had>>

(* Who holds the event of c's fetch, which is not set yet.                 *)
Holders(c) == {w \in Callers \ woken : on[w] = c}

Store(c) ==
  /\ Goto(c, "store", "pop")
  /\ store' = TRUE
  /\ had' = had \cup Holders(c)
  /\ UNCHANGED <<neg, fetcher, bypass, on, woken, answer>>

(* The finally block: the event leaves fetch_events, then it is set.       *)
Pop(c) ==
  /\ Goto(c, "pop", "set")
  /\ fetcher' = NoOne
  /\ UNCHANGED <<store, neg, bypass, on, woken, answer, had>>

SetEvent(c) ==
  /\ Goto(c, "set", "done")
  /\ woken' = woken \cup Holders(c)
  /\ UNCHANGED <<store, neg, fetcher, bypass, on, answer, had>>

(* The fetcher returns what it fetched, or raises.                         *)
Return(c) ==
  /\ pc[c] = "done"
  /\ IF answer[c] = "nothing" THEN NoData(c) ELSE Finish(c)
  /\ UNCHANGED <<store, neg, fetcher, bypass>>

(* ev.wait(timeout=10).  A caller that was woken takes an empty cache to   *)
(* mean that there is no data.                                             *)
Wake(c) ==
  /\ Goto(c, "wait", "reread")
  /\ c \in woken
  /\ answer' = [answer EXCEPT ![c] = "nothing"]
  /\ UNCHANGED <<store, neg, fetcher, bypass, on, woken, had>>

TimeOut(c) ==
  /\ Goto(c, "wait", "reread")
  /\ c \notin woken
  /\ UNCHANGED <<store, neg, fetcher, bypass, on, woken, answer, had>>

(* The waiter looks again: the value, else None when the fetch ended, else *)
(* CACHE_FETCHING, which the wrapper does not take for an answer.          *)
Reread(c) ==
  /\ pc[c] = "reread"
  /\ IF store \/ answer[c] = "unknown" THEN Finish(c) ELSE NoData(c)
  /\ UNCHANGED <<store, neg, fetcher, bypass>>

WriteNegative(c) ==
  /\ pc[c] = "negative"
  /\ neg' = TRUE
  /\ Finish(c)
  /\ UNCHANGED <<store, fetcher, bypass>>

(* The value expires, is evicted, or is cleared with its negative entry    *)
(* when the watchlist changes (clear_cache_prefix).                        *)
Removed ==
  /\ store \/ neg
  /\ store' = FALSE /\ neg' \in {neg, FALSE}
  /\ had' = {}
  /\ UNCHANGED <<fetcher, pc, bypass, on, woken, answer>>

NegativeExpires ==
  /\ neg /\ neg' = FALSE
  /\ UNCHANGED <<store, fetcher, pc, bypass, on, woken, answer, had>>

CallStep(c) ==
  \/ Lookup(c) \/ Register(c) \/ Fetched(c) \/ Store(c) \/ Pop(c) \/ SetEvent(c)
  \/ Return(c) \/ Wake(c) \/ TimeOut(c) \/ Reread(c) \/ WriteNegative(c)

Next ==
  \/ \E c \in Callers, skip \in BOOLEAN : Call(c, skip)
  \/ \E c \in Callers : CallStep(c)
  \/ Removed
  \/ NegativeExpires

(* A thread inside get_cached runs; fetch_func ends, as every provider has *)
(* a timeout.                                                              *)
Fairness == \A c \in Callers : WF_vars(CallStep(c))

Spec == Init /\ [][Next]_vars /\ Fairness

-----------------------------------------------------------------------------
(* The registered event belongs to a caller that is fetching and will take *)
(* it away, and no other caller is fetching (caching.py:218-225, 244-257). *)
SingleFlight ==
  \A c \in Callers : pc[c] \in Fetching <=> fetcher = c

(* A waiter whose event is not set waits for a caller that has still to    *)
(* set it, also when another fetch has begun meanwhile: it is never left   *)
(* to its timeout (caching.py:228, 255-257).                               *)
WaiterHasFetcher ==
  \A w \in Callers : pc[w] = "wait" /\ w \notin woken =>
    pc[on[w]] \in Fetching \cup {"set"}

(* caching.py:378-384: nobody records that there is no data while the      *)
(* fetch it asked for goes on, or when that fetch stored a value that is   *)
(* still there.                                                            *)
NegativeIsEarned ==
  \A c \in Callers : pc[c] = "negative" => c \in woken \ had

(* A key is not blocked: the event of a fetch is taken away again.         *)
KeyIsFreed == \A c \in Callers : fetcher = c ~> fetcher # c

(* tests/test_review_r33_verification.py:54-57: "negative cache must not   *)
(* be written while a fetch is in flight".  The caller that found nothing  *)
(* writes the entry after its event is gone, when the next caller may be   *)
(* fetching already.                                                       *)
NoNegativeInFlight == [][neg' /\ ~neg => fetcher = NoOne]_vars
=============================================================================
