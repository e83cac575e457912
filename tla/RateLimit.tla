----------------------------- MODULE RateLimit -----------------------------
(***************************************************************************)
(* The rate limiter of one endpoint.  A bucket of time stamps counts the   *)
(* requests of a client; a bucket of a request token counts the polls that *)
(* may pass without being counted.  All buckets share one bounded store,   *)
(* and a request looks at it in two critical sections.                     *)
(*                                                                         *)
(* A bucket maps an age, in ticks, to a number of stamps; Window stands    *)
(* for every age at which a stamp has expired and was not trimmed yet.     *)
(***************************************************************************)
EXTENDS Naturals, FiniteSets

CONSTANTS Clients, Tokens, Requests,
          Window,        \* window_seconds of the endpoint
          MaxRequests,   \* effective_max_requests
          MaxPolls,      \* _RATE_LIMIT_MAX_TOKEN_POLLS
          MaxDistinct,   \* _RATE_LIMIT_MAX_DISTINCT_TOKENS
          MaxEntries,    \* _RATE_LIMIT_MAX_ENTRIES
          None

Ages == 0 .. Window
Keys == Clients \cup (Clients \X Tokens)
Buckets == [Ages -> 0 .. MaxRequests + MaxPolls]
Empty == [a \in Ages |-> 0]

\* route_helpers.py:103, :107, :113 and the limits of the endpoints; a client is
\* no pair.
ASSUME RateAssumption ==
    /\ Window \in Nat \ {0} /\ MaxRequests \in Nat \ {0} /\ MaxPolls \in Nat \ {0}
    /\ MaxDistinct \in Nat /\ MaxEntries \in Nat
    /\ IsFiniteSet(Clients) /\ IsFiniteSet(Tokens) /\ Clients # {}
    /\ Clients \cap (Clients \X Tokens) = {}
    /\ None \notin Buckets /\ None \notin Tokens

VARIABLES
    store,     \* _rate_limit_store: key -> bucket, or None
    distinct,  \* _rate_limit_distinct_token_counts
    req,       \* per request: [pc, client, token]
    passed     \* history: per client, the counted requests by age, or None once
               \* the bucket was evicted

vars == <<store, distinct, req, passed>>

TypeOK ==
    /\ store \in [Keys -> Buckets \cup {None}] /\ passed \in [Clients -> Buckets \cup {None}]
    /\ distinct \in [Clients -> Nat]
    /\ req \in [Requests -> [pc : {"idle", "second"}, client : Clients, token : Tokens \cup {None}]]

Init ==
    /\ store = [k \in Keys |-> None] /\ distinct = [c \in Clients |-> 0]
    /\ req = [r \in Requests |-> [pc |-> "idle", client |-> CHOOSE c \in Clients : TRUE, token |-> None]]
    /\ passed = [c \in Clients |-> Empty]

\* The stamps that are still in the window, and their number.
Stamps(b) == UNION {{a} \X (1 .. b[a]) : a \in 0 .. Window - 1}
Recent(b) == Cardinality(Stamps(b))
Trimmed(b) == [b EXCEPT ![Window] = 0]
Stamped(b) == [b EXCEPT ![0] = @ + 1]

\* The age of the first, that is the oldest, stamp.
Oldest(b) == CHOOSE a \in Ages : b[a] > 0 /\ \A o \in Ages : b[o] > 0 => o <= a

Live(s) == {k \in Keys : s[k] # None}
TokensIn(s, c) == {t \in Tokens : s[<<c, t>>] # None}
Counts(s) == [c \in Clients |-> Cardinality(TokensIn(s, c))]
Less(n) == IF n = 0 THEN 0 ELSE n - 1

\* _cleanup_rate_limit_store, after which the store is within its bound.
CleanedUp(s) == [k \in Keys |-> IF s[k] = None \/ Recent(s[k]) = 0 THEN None ELSE Trimmed(s[k])]

\* The oldest entries make room for a new bucket; an empty bucket is the oldest.
Rank(s, k) == IF s[k] = Empty THEN Window + 1 ELSE Oldest(s[k])
Evictions(s) ==
    IF Cardinality(Live(s)) < MaxEntries THEN {{}}
    ELSE {{k} : k \in {l \in Live(s) : \A o \in Live(s) : Rank(s, o) <= Rank(s, l)}}
Without(s, ks) == [k \in Keys |-> IF k \in ks THEN None ELSE s[k]]

RecountMutant(s, ks) == distinct
Recount(s, ks) == IF ks = {} THEN distinct ELSE Counts(s)

(***************************************************************************)
(* The bucket of a token.                                                  *)
(***************************************************************************)
\* _trim_polling_token_locked.
Expired(k) == store[k] # None /\ Recent(store[k]) = 0
TrimmedCount(c, k) == IF Expired(k) THEN [distinct EXCEPT ![c] = Less(@)] ELSE distinct
TrimmedStore(k) ==
    [store EXCEPT ![k] = IF @ = None \/ Recent(@) = 0 THEN None ELSE Trimmed(@)]

MayPoll(s, k, inflight) == inflight /\ Recent(s[k]) < MaxPolls

(***************************************************************************)
(* A request.                                                              *)
(***************************************************************************)
Ends(r) == req' = [req EXCEPT ![r].pc = "idle", ![r].token = None]

\* A token seen before may pass here; a new one is noted if the client has
\* tokens left.
First(r, c, t, inflight) ==
    LET k == <<c, t>>
        s == TrimmedStore(k)
    IN /\ req[r].pc = "idle"
       /\ distinct' = TrimmedCount(c, k)
       /\ IF s[k] # None /\ MayPoll(s, k, inflight)
          THEN store' = [s EXCEPT ![k] = Stamped(@)] /\ UNCHANGED req
          ELSE /\ store' = s
               /\ req' = [req EXCEPT ![r] =
                    [pc |-> "second", client |-> c,
                     token |-> IF s[k] = None /\ distinct'[c] < MaxDistinct THEN t ELSE None]]
       /\ UNCHANGED passed

\* Without a token.
FirstPlain(r, c) ==
    /\ req[r].pc = "idle"
    /\ req' = [req EXCEPT ![r] = [pc |-> "second", client |-> c, token |-> None]]
    /\ UNCHANGED <<store, distinct, passed>>

\* The same token was registered meanwhile: a poll after all.
SecondPolls(r, inflight) ==
    LET c == req[r].client
        k == <<c, req[r].token>>
    IN /\ req[r].pc = "second" /\ req[r].token # None
       /\ TrimmedStore(k)[k] # None /\ MayPoll(TrimmedStore(k), k, inflight)
       /\ store' = [TrimmedStore(k) EXCEPT ![k] = Stamped(@)]
       /\ Ends(r)
       /\ UNCHANGED <<distinct, passed>>

\* The stores the bucket of the client can be looked up in: trimmed, cleaned up
\* when that is due, and with room for a new bucket.
Due == BOOLEAN
Found(s, c, ks) == [Without(s, ks) EXCEPT ![c] = IF s[c] = None THEN Empty ELSE Trimmed(s[c])]

\* A token is registered with its accepted request, in a store that has room.
Registers(s, n, c, t) ==
    /\ t # None /\ s[<<c, t>>] = None
    /\ Cardinality(Live(s)) < MaxEntries /\ n[c] < MaxDistinct

Full(b) == Recent(b) >= MaxRequests

SecondCounts(r, inflight) ==
    LET c == req[r].client
        t == req[r].token
        k == <<c, t>>
        s0 == IF t = None THEN store ELSE TrimmedStore(k)
        n0 == IF t = None THEN distinct ELSE TrimmedCount(c, k)
    IN /\ req[r].pc = "second"
       /\ t # None /\ s0[k] # None => ~MayPoll(s0, k, inflight)
       /\ \E clean \in Due :
            LET s1 == IF clean THEN CleanedUp(s0) ELSE s0
                n1 == IF clean THEN Counts(s1) ELSE n0
            IN \E ks \in IF s1[c] = None THEN Evictions(s1) ELSE {{}} :
                 LET s2 == Found(s1, c, ks)
                     n2 == IF ks = {} THEN n1 ELSE Recount(s2, ks)
                     s3 == [s2 EXCEPT ![c] = Stamped(@)]
                     reg == Registers(s3, n2, c, t)
                     lost == ks \cap Clients
                 IN IF Full(s2[c])
                    THEN /\ store' = s2 /\ distinct' = n2
                         /\ passed' = [d \in Clients |-> IF d \in lost THEN None ELSE passed[d]]
                    ELSE /\ store' = IF reg THEN [s3 EXCEPT ![k] = Stamped(Empty)] ELSE s3
                         /\ distinct' = IF reg THEN [n2 EXCEPT ![c] = @ + 1] ELSE n2
                         /\ passed' = [d \in Clients |->
                              IF d \in lost THEN None
                              ELSE IF d = c /\ passed[c] # None THEN Stamped(passed[c])
                              ELSE passed[d]]
       /\ Ends(r)

Older(b) == IF b = None THEN None
            ELSE [a \in Ages |-> IF a = 0 THEN 0
                                 ELSE IF a = Window
                                 THEN (IF b[Window] + b[Window - 1] > 0 THEN 1 ELSE 0)
                                 ELSE b[a - 1]]

\* A request takes no time: current_time, which it reads before it has the lock,
\* is the time at which it has it.
Tick ==
    /\ \A r \in Requests : req[r].pc = "idle"
    /\ store' = [k \in Keys |-> Older(store[k])]
    /\ passed' = [c \in Clients |-> IF passed[c] = None THEN None
                                    ELSE [Older(passed[c]) EXCEPT ![Window] = 0]]
    /\ UNCHANGED <<distinct, req>>

Next ==
    \/ Tick
    \/ \E r \in Requests :
        \/ \E c \in Clients : FirstPlain(r, c) \/ \E t \in Tokens, i \in BOOLEAN : First(r, c, t, i)
        \/ \E i \in BOOLEAN : SecondPolls(r, i) \/ SecondCounts(r, i)

Spec == Init /\ [][Next]_vars

-----------------------------------------------------------------------------
\* The budget of distinct tokens agrees with the buckets there are, after every
\* expiry, cleanup, eviction and registration.
BudgetIsOfBuckets == distinct = Counts(store)

\* No window of a client holds more counted requests than the limit, while its
\* bucket is not evicted; whatever two requests do between their sections.
QuotaHolds == \A c \in Clients : passed[c] # None => Recent(passed[c]) <= MaxRequests

\* The store stays within its bound.
StoreIsBounded == Cardinality(Live(store)) <= MaxEntries
=============================================================================
