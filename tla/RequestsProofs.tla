--------------------------- MODULE RequestsProofs ---------------------------
(***************************************************************************)
(* Proofs about what a request does with the services behind it: the rate  *)
(* limit, the news, the tool calls of a model, the AI portfolios, the      *)
(* search and the history of a symbol, each for any values of its          *)
(* constants that the code may have.                                       *)
(***************************************************************************)
EXTENDS MCRequests, PlacesProofs, SequenceTheorems

-----------------------------------------------------------------------------
(* The rate limit.                                                         *)

\* What a bucket may hold: at most n stamps in the window, one mark for the rest.
Within(b, n) == b # None => Recent(b) <= n /\ b[Window] <= 1

\* A store and the counts that belong to it.
StoreOK(s, n) ==
    /\ s \in [Keys -> Buckets \cup {None}] /\ n = Counts(s)
    /\ Cardinality(Live(s)) <= MaxEntries
    /\ \A c \in Clients : Within(s[c], MaxRequests)
    /\ \A c \in Clients, t \in Tokens : Within(s[<<c, t>>], MaxPolls)

\* Until the bucket of a client is evicted it holds what passed in the window.
Tracks(p, s) ==
    /\ p \in [Clients -> Buckets \cup {None}]
    /\ \A c \in Clients : p[c] # None =>
          \A a \in 0 .. Window - 1 : p[c][a] = IF s[c] = None THEN 0 ELSE s[c][a]

RateInv ==
    /\ StoreOK(store, distinct) /\ Tracks(passed, store)
    /\ req \in [Requests -> [pc : {"idle", "second"}, client : Clients,
                             token : Tokens \cup {None}]]

-----------------------------------------------------------------------------
\* The number of stamps in the window.
LEMMA InStamps ==
    ASSUME NEW b, NEW x
    PROVE  x \in Stamps(b) <=> \E a \in 0 .. Window - 1 : \E i \in 1 .. b[a] : x = <<a, i>>
  BY DEF Stamps

LEMMA RecentType ==
    ASSUME NEW b \in Buckets
    PROVE  /\ IsFiniteSet(Stamps(b)) /\ Recent(b) \in Nat
           /\ \A a \in 0 .. Window - 1 : b[a] <= Recent(b)
<1> DEFINE all == (0 .. Window - 1) \X (1 .. MaxRequests + MaxPolls)
<1>1. IsFiniteSet(all)
  <2>1. IsFiniteSet(0 .. Window - 1) /\ IsFiniteSet(1 .. MaxRequests + MaxPolls)
    <3>1. 0 \in Int /\ 1 \in Int /\ Window - 1 \in Int /\ MaxRequests + MaxPolls \in Int
      BY RateAssumption
    <3> QED BY <3>1, FS_Interval
  <2> QED BY <2>1, FS_Product
<1>2. Stamps(b) \subseteq all
  <2> SUFFICES ASSUME NEW x \in Stamps(b) PROVE x \in all
    OBVIOUS
  <2>1. PICK a \in 0 .. Window - 1 : \E i \in 1 .. b[a] : x = <<a, i>>
    BY InStamps
  <2>2. b[a] \in 0 .. MaxRequests + MaxPolls
    BY RateAssumption DEF Buckets, Ages
  <2> QED BY <2>1, <2>2, RateAssumption
<1>3. IsFiniteSet(Stamps(b))
  BY <1>1, <1>2, FS_Subset
<1>4. ASSUME NEW a \in 0 .. Window - 1 PROVE b[a] <= Recent(b)
  <2>1. b[a] \in Nat
    BY RateAssumption DEF Buckets, Ages
  <2> DEFINE f == [i \in 1 .. b[a] |-> <<a, i>>]
  <2>2. f \in Injection(1 .. b[a], Stamps(b))
    <3>1. \A i \in 1 .. b[a] : f[i] \in Stamps(b)
      BY InStamps
    <3> QED BY <3>1 DEF Injection, IsInjective
  <2>3. Cardinality(1 .. b[a]) <= Cardinality(Stamps(b))
    BY <1>3, <2>2, FS_Injection
  <2>4. Cardinality(1 .. b[a]) = b[a]
    BY <2>1, FS_Interval
  <2> QED BY <2>3, <2>4 DEF Recent
<1> QED BY <1>3, <1>4, FS_CardinalityType DEF Recent

\* Buckets that agree in the window have as many stamps in it.
LEMMA RecentSame ==
    ASSUME NEW b, NEW d, \A a \in 0 .. Window - 1 : b[a] = d[a]
    PROVE  Recent(b) = Recent(d)
<1>1. ASSUME NEW x PROVE x \in Stamps(b) <=> x \in Stamps(d)
  <2>1. x \in Stamps(b) <=> \E a \in 0 .. Window - 1 : \E i \in 1 .. b[a] : x = <<a, i>>
    BY InStamps
  <2>2. x \in Stamps(d) <=> \E a \in 0 .. Window - 1 : \E i \in 1 .. d[a] : x = <<a, i>>
    BY InStamps
  <2> QED BY <2>1, <2>2
<1>2. Stamps(b) = Stamps(d)
  BY <1>1
<1> QED BY <1>2 DEF Recent

LEMMA RecentZero ==
    ASSUME NEW b \in Buckets
    PROVE  Recent(b) = 0 <=> \A a \in 0 .. Window - 1 : b[a] = 0
<1>1. ASSUME Recent(b) = 0, NEW a \in 0 .. Window - 1 PROVE b[a] = 0
  <2>1. b[a] <= 0 /\ b[a] \in Nat
    BY <1>1, RecentType, RateAssumption DEF Buckets, Ages
  <2> QED BY <2>1
<1>2. ASSUME \A a \in 0 .. Window - 1 : b[a] = 0 PROVE Recent(b) = 0
  <2>1. Stamps(b) = {}
    BY <1>2, InStamps
  <2> QED BY <2>1, FS_EmptySet DEF Recent
<1> QED BY <1>1, <1>2

LEMMA EmptyBucket == Empty \in Buckets /\ Recent(Empty) = 0 /\ Empty[Window] = 0 /\ Empty # None
<1>1. Empty \in Buckets /\ Empty[Window] = 0 /\ \A a \in 0 .. Window - 1 : Empty[a] = 0
  BY RateAssumption DEF Empty, Buckets, Ages
<1> QED BY <1>1, RecentZero, RateAssumption

\* A trimmed bucket has the same stamps in the window.
LEMMA TrimmedBucket ==
    ASSUME NEW b \in Buckets
    PROVE  /\ Trimmed(b) \in Buckets /\ Trimmed(b)[Window] = 0
           /\ \A a \in 0 .. Window - 1 : Trimmed(b)[a] = b[a]
           /\ Recent(Trimmed(b)) = Recent(b)
<1>1. /\ Trimmed(b) \in Buckets /\ Trimmed(b)[Window] = 0
      /\ \A a \in 0 .. Window - 1 : Trimmed(b)[a] = b[a]
  BY RateAssumption DEF Trimmed, Buckets, Ages
<1> QED BY <1>1, RecentSame

\* A stamped bucket has one more, and is a bucket while it had not too many.
LEMMA StampedBucket ==
    ASSUME NEW b \in Buckets, Recent(b) < MaxRequests + MaxPolls
    PROVE  /\ Stamped(b) \in Buckets /\ Stamped(b)[Window] = b[Window]
           /\ \A a \in 1 .. Window - 1 : Stamped(b)[a] = b[a]
           /\ Stamped(b)[0] = b[0] + 1
           /\ Recent(Stamped(b)) = Recent(b) + 1
<1>1. b[0] \in Nat /\ 0 \in 0 .. Window - 1 /\ b[0] <= Recent(b) /\ Recent(b) \in Nat
  BY RecentType, RateAssumption DEF Buckets, Ages
<1>2. b[0] + 1 \in 0 .. MaxRequests + MaxPolls
  BY <1>1, RateAssumption
<1>3. /\ Stamped(b) \in Buckets /\ Stamped(b)[Window] = b[Window]
      /\ \A a \in 1 .. Window - 1 : Stamped(b)[a] = b[a]
      /\ Stamped(b)[0] = b[0] + 1
  BY <1>2, RateAssumption DEF Stamped, Buckets, Ages
<1>4. \A x : x \in Stamps(Stamped(b)) <=> x \in Stamps(b) \cup {<<0, b[0] + 1>>}
  <2> TAKE x
  <2> DEFINE d == Stamped(b)
  <2>1. \A a \in 0 .. Window - 1, i \in Nat :
           i \in 1 .. d[a] <=> (i \in 1 .. b[a] \/ (a = 0 /\ i = b[0] + 1))
    <3> TAKE a \in 0 .. Window - 1, i \in Nat
    <3>1. b[a] \in Nat
      BY RateAssumption DEF Buckets, Ages
    <3>2. CASE a = 0
      BY <1>1, <1>3, <3>2
    <3>3. CASE a # 0
      BY <1>3, <3>1, <3>3, RateAssumption
    <3> QED BY <3>2, <3>3
  <2> HIDE DEF d
  <2>2. \A a \in 0 .. Window - 1 : b[a] \in Nat /\ d[a] \in Nat
    BY <1>3, RateAssumption DEF Buckets, Ages, d
  <2>3. ASSUME x \in Stamps(d) PROVE x \in Stamps(b) \cup {<<0, b[0] + 1>>}
    <3>1. PICK a \in 0 .. Window - 1 : \E i \in 1 .. d[a] : x = <<a, i>>
      BY <2>3, InStamps
    <3>2. PICK i \in 1 .. d[a] : x = <<a, i>>
      BY <3>1
    <3>3. i \in 1 .. b[a] \/ (a = 0 /\ i = b[0] + 1)
      BY <2>1, <2>2
    <3> QED BY <3>2, <3>3, InStamps
  <2>4. ASSUME x \in Stamps(b) PROVE x \in Stamps(d)
    <3>1. PICK a \in 0 .. Window - 1 : \E i \in 1 .. b[a] : x = <<a, i>>
      BY <2>4, InStamps
    <3>2. PICK i \in 1 .. b[a] : x = <<a, i>>
      BY <3>1
    <3>3. i \in 1 .. d[a]
      BY <2>1, <2>2
    <3> QED BY <3>2, <3>3, InStamps
  <2>5. <<0, b[0] + 1>> \in Stamps(d)
    BY <1>1, <1>2, <2>1, InStamps
  <2> QED BY <2>3, <2>4, <2>5 DEF d
<1>5. <<0, b[0] + 1>> \notin Stamps(b)
  <2> SUFFICES ASSUME NEW a \in 0 .. Window - 1, NEW i \in 1 .. b[a], <<0, b[0] + 1>> = <<a, i>>
               PROVE  FALSE
    BY InStamps
  <2> QED BY <1>1
<1>6. Stamps(Stamped(b)) = Stamps(b) \cup {<<0, b[0] + 1>>}
  BY <1>4
<1> QED BY <1>3, <1>5, <1>6, RecentType, FS_AddElement DEF Recent

\* When time passes, no stamp comes into the window.
LEMMA OlderBucket ==
    ASSUME NEW b \in Buckets
    PROVE  /\ Older(b) \in Buckets /\ Older(b)[Window] <= 1 /\ Older(b)[0] = 0
           /\ \A a \in 1 .. Window - 1 : Older(b)[a] = b[a - 1]
           /\ Recent(Older(b)) <= Recent(b)
<1> DEFINE d == Older(b)
<1>1. \A a \in 0 .. Window : b[a] \in 0 .. MaxRequests + MaxPolls
  BY DEF Buckets, Ages
<1>2. b # None
  BY RateAssumption
<1>3. d = [a \in 0 .. Window |-> IF a = 0 THEN 0
                                 ELSE IF a = Window
                                 THEN (IF b[Window] + b[Window - 1] > 0 THEN 1 ELSE 0)
                                 ELSE b[a - 1]]
  BY <1>2 DEF Older, Ages
<1> HIDE DEF d
<1>4. \A a \in 0 .. Window : d[a] \in 0 .. MaxRequests + MaxPolls
  <2> SUFFICES ASSUME NEW a \in 0 .. Window PROVE d[a] \in 0 .. MaxRequests + MaxPolls
    OBVIOUS
  <2>1. a \notin {0, Window} => a - 1 \in 0 .. Window
    BY RateAssumption
  <2>2. d[a] \in {0, 1, b[a - 1]} /\ (a \in {0, Window} => d[a] \in {0, 1})
    BY <1>3
  <2> QED BY <1>1, <2>1, <2>2, RateAssumption
<1>5. d \in Buckets
  BY <1>3, <1>4 DEF Buckets, Ages
<1>6. d[Window] <= 1 /\ d[0] = 0 /\ \A a \in 1 .. Window - 1 : d[a] = b[a - 1]
  BY <1>3, RateAssumption
<1>7. \A x \in Stamps(d) : \E a \in 1 .. Window - 1 : \E i \in 1 .. b[a - 1] : x = <<a, i>>
  <2> TAKE x \in Stamps(d)
  <2>1. PICK a \in 0 .. Window - 1 : \E i \in 1 .. d[a] : x = <<a, i>>
    BY InStamps
  <2>2. a # 0
    BY <1>6, <2>1
  <2> QED BY <1>6, <2>1, <2>2
<1> DEFINE f == [x \in Stamps(d) |-> <<x[1] - 1, x[2]>>]
<1>8. f \in Injection(Stamps(d), Stamps(b))
  <2>1. ASSUME NEW x \in Stamps(d) PROVE f[x] \in Stamps(b)
    <3>0. PICK a \in 1 .. Window - 1 : \E i \in 1 .. b[a - 1] : x = <<a, i>>
      BY <1>7
    <3>1. PICK i \in 1 .. b[a - 1] : x = <<a, i>>
      BY <3>0
    <3>2. a - 1 \in 0 .. Window - 1 /\ f[x] = <<a - 1, i>>
      BY <3>1, RateAssumption
    <3> QED BY <3>2, InStamps
  <2>2. ASSUME NEW x \in Stamps(d), NEW y \in Stamps(d), f[x] = f[y] PROVE x = y
    <3>1. PICK a \in 1 .. Window - 1 : \E i \in 1 .. b[a - 1] : x = <<a, i>>
      BY <1>7
    <3>2. PICK o \in 1 .. Window - 1 : \E j \in 1 .. b[o - 1] : y = <<o, j>>
      BY <1>7
    <3>5. PICK i \in 1 .. b[a - 1] : x = <<a, i>>
      BY <3>1
    <3>6. PICK j \in 1 .. b[o - 1] : y = <<o, j>>
      BY <3>2
    <3>3. <<a - 1, i>> = <<o - 1, j>>
      BY <2>2, <3>5, <3>6
    <3>4. a = o /\ i = j
      BY <3>3
    <3> QED BY <3>5, <3>6, <3>4
  <2>3. f \in [Stamps(d) -> Stamps(b)]
    BY <2>1
  <2> QED BY <2>2, <2>3 DEF Injection, IsInjective
<1> HIDE DEF f
<1>9. Cardinality(Stamps(d)) <= Cardinality(Stamps(b))
  BY <1>8, RecentType, FS_Injection
<1> QED BY <1>5, <1>6, <1>9 DEF Recent, d

-----------------------------------------------------------------------------
(* Stores.                                                                 *)

LEMMA StoreTypes ==
    ASSUME NEW s, NEW n, StoreOK(s, n), NEW k \in Keys
    PROVE  s[k] = None \/ (s[k] \in Buckets /\ s[k] # None)
  BY DEF StoreOK

\* A client has no more token buckets than there are tokens.
LEMMA TokensFinite ==
    ASSUME NEW s, NEW c
    PROVE  IsFiniteSet(TokensIn(s, c)) /\ Cardinality(TokensIn(s, c)) \in Nat
<1>1. TokensIn(s, c) \subseteq Tokens
  BY DEF TokensIn
<1> QED BY <1>1, RateAssumption, FS_Subset, FS_CardinalityType

LEMMA LiveFinite ==
    ASSUME NEW s
    PROVE  IsFiniteSet(Live(s)) /\ Cardinality(Live(s)) \in Nat
<1>1. IsFiniteSet(Keys)
  <2>1. IsFiniteSet(Clients \X Tokens)
    BY RateAssumption, FS_Product
  <2> QED BY <2>1, RateAssumption, FS_Union DEF Keys
<1>2. Live(s) \subseteq Keys
  BY DEF Live
<1> QED BY <1>1, <1>2, FS_Subset, FS_CardinalityType

\* A client bucket is no token bucket.
LEMMA KeysApart ==
    ASSUME NEW c \in Clients, NEW d \in Clients, NEW t \in Tokens
    PROVE  c \in Keys /\ <<d, t>> \in Keys /\ c # <<d, t>>
  BY RateAssumption DEF Keys

\* Stores with the same live keys and counts.
LEMMA SameLive ==
    ASSUME NEW s, NEW n, StoreOK(s, n), NEW u, \A k \in Keys : u[k] = None <=> s[k] = None
    PROVE  Live(u) = Live(s) /\ Counts(u) = Counts(s)
<1>1. \A c \in Clients : TokensIn(u, c) = TokensIn(s, c)
  BY DEF TokensIn, Keys
<1> QED BY <1>1 DEF Live, Counts

\* A token bucket is trimmed, and goes when nothing is left of it.
LEMMA TrimOK ==
    ASSUME RateInv, NEW c \in Clients, NEW t \in Tokens
    PROVE  /\ StoreOK(TrimmedStore(<<c, t>>), TrimmedCount(c, <<c, t>>))
           /\ \A d \in Clients : TrimmedStore(<<c, t>>)[d] = store[d]
<1> DEFINE k == <<c, t>>
           u == TrimmedStore(k)
           b == IF store[k] = None \/ Recent(store[k]) = 0 THEN None ELSE Trimmed(store[k])
<1>1. k \in Keys /\ store \in [Keys -> Buckets \cup {None}] /\ distinct = Counts(store)
  BY KeysApart DEF RateInv, StoreOK
<1>2. u = [store EXCEPT ![k] = b]
  BY <1>1 DEF TrimmedStore
<1>3. b = None \/ (b \in Buckets /\ Recent(b) = Recent(store[k]) /\ b[Window] = 0)
  BY <1>1, TrimmedBucket
<1>4. b # None => store[k] # None
  OBVIOUS
<1> HIDE DEF b, u
<1>5. /\ u \in [Keys -> Buckets \cup {None}] /\ u[k] = b
      /\ \A l \in Keys \ {k} : u[l] = store[l]
  BY <1>1, <1>2, <1>3
<1>6. Cardinality(Live(u)) <= MaxEntries
  <2>1. Live(u) \subseteq Live(store)
    BY <1>1, <1>4, <1>5 DEF Live
  <2>2. Cardinality(Live(u)) <= Cardinality(Live(store))
    BY <2>1, LiveFinite, FS_Subset
  <2> QED BY <2>2, LiveFinite, RateAssumption DEF RateInv, StoreOK
<1>7. \A d \in Clients : u[d] = store[d]
  BY <1>5, KeysApart
<1>8. \A d \in Clients : Within(u[d], MaxRequests)
  BY <1>7 DEF RateInv, StoreOK
<1>9. \A d \in Clients, o \in Tokens : Within(u[<<d, o>>], MaxPolls)
  <2> TAKE d \in Clients, o \in Tokens
  <2>1. CASE <<d, o>> = k
    <3>1. b # None => Recent(b) <= MaxPolls /\ b[Window] <= 1
      BY <1>3, <1>4 DEF RateInv, StoreOK, Within
    <3> QED BY <1>5, <2>1, <3>1 DEF Within
  <2>2. CASE <<d, o>> # k
    BY <1>5, <2>2, KeysApart DEF RateInv, StoreOK
  <2> QED BY <2>1, <2>2
<1>10. TrimmedCount(c, k) = Counts(u)
  <2>1. \A d \in Clients \ {c} : TokensIn(u, d) = TokensIn(store, d)
    BY <1>5, KeysApart DEF TokensIn
  <2>2. CASE Expired(k)
    <3>1. b = None /\ t \in TokensIn(store, c)
      BY <2>2 DEF Expired, b, TokensIn
    <3>2. TokensIn(u, c) = TokensIn(store, c) \ {t}
      BY <1>5, <3>1, KeysApart DEF TokensIn
    <3>3. Cardinality(TokensIn(u, c)) = Cardinality(TokensIn(store, c)) - 1
      BY <3>1, <3>2, TokensFinite, FS_RemoveElement
    <3>4. Cardinality(TokensIn(store, c)) # 0
      BY <3>1, TokensFinite, FS_EmptySet
    <3>5. Cardinality(TokensIn(u, c)) = Less(Cardinality(TokensIn(store, c)))
      BY <3>3, <3>4 DEF Less
    <3>6. TrimmedCount(c, k) = [distinct EXCEPT ![c] = Less(@)]
      BY <2>2 DEF TrimmedCount
    <3> QED BY <1>1, <2>1, <3>5, <3>6 DEF Counts
  <2>3. CASE ~Expired(k)
    <3>1. u[k] = None <=> store[k] = None
      BY <1>3, <1>5, <2>3, TrimmedBucket, <1>1, RateAssumption DEF Expired, b
    <3>2. \A l \in Keys : u[l] = None <=> store[l] = None
      BY <1>5, <3>1
    <3> QED BY <1>1, <2>3, <3>2, SameLive DEF TrimmedCount, RateInv
  <2> QED BY <2>2, <2>3
<1>11. StoreOK(u, TrimmedCount(c, k))
  BY <1>5, <1>6, <1>8, <1>9, <1>10 DEF StoreOK
<1> QED BY <1>7, <1>11 DEF u

\* A cleanup.
LEMMA CleanOK ==
    ASSUME NEW s, NEW n, StoreOK(s, n), NEW p, Tracks(p, s)
    PROVE  StoreOK(CleanedUp(s), Counts(CleanedUp(s))) /\ Tracks(p, CleanedUp(s))
<1> DEFINE u == CleanedUp(s)
<1>1. \A k \in Keys : \/ u[k] = None /\ (s[k] = None \/ Recent(s[k]) = 0)
                      \/ s[k] # None /\ u[k] = Trimmed(s[k])
  BY DEF CleanedUp
<1>2. ASSUME NEW k \in Keys
      PROVE  \/ u[k] = None
             \/ s[k] # None /\ u[k] \in Buckets /\ Recent(u[k]) = Recent(s[k]) /\ u[k][Window] = 0
  BY <1>1, StoreTypes, TrimmedBucket
<1>3. u \in [Keys -> Buckets \cup {None}]
  <2>1. u = [k \in Keys |-> u[k]]
    BY DEF CleanedUp
  <2> HIDE DEF u
  <2> QED BY <1>2, <2>1
<1>4. Tracks(p, u)
  <2> SUFFICES ASSUME NEW c \in Clients, p[c] # None, NEW a \in 0 .. Window - 1
               PROVE  p[c][a] = IF u[c] = None THEN 0 ELSE u[c][a]
    BY DEF Tracks
  <2>1. p[c][a] = IF s[c] = None THEN 0 ELSE s[c][a]
    BY DEF Tracks
  <2>2. c \in Keys
    BY DEF Keys
  <2>3. CASE u[c] = None
    <3>1. s[c] = None \/ (s[c] \in Buckets /\ Recent(s[c]) = 0)
      BY <1>1, <2>2, <2>3, StoreTypes, TrimmedBucket, RateAssumption
    <3> QED BY <2>1, <2>3, <3>1, RecentZero
  <2>4. CASE u[c] # None
    BY <1>1, <2>1, <2>2, <2>4, StoreTypes, TrimmedBucket
  <2> QED BY <2>3, <2>4
<1> HIDE DEF u
<1>5. Cardinality(Live(u)) <= MaxEntries
  <2>1. Live(u) \subseteq Live(s)
    BY <1>2 DEF Live
  <2>2. Cardinality(Live(u)) <= Cardinality(Live(s))
    BY <2>1, LiveFinite, FS_Subset
  <2> QED BY <2>2, LiveFinite, RateAssumption DEF StoreOK
<1>6. \A c \in Clients : Within(u[c], MaxRequests)
  BY <1>2 DEF StoreOK, Within, Keys
<1>7. \A c \in Clients, t \in Tokens : Within(u[<<c, t>>], MaxPolls)
  BY <1>2, KeysApart DEF StoreOK, Within
<1>8. StoreOK(u, Counts(u))
  BY <1>3, <1>5, <1>6, <1>7 DEF StoreOK
<1> QED BY <1>4, <1>8 DEF u

\* The lookup of the bucket of a client, with room for a new one.
LEMMA FoundOK ==
    ASSUME NEW s, NEW n, StoreOK(s, n), NEW p, Tracks(p, s), NEW c \in Clients,
           NEW ks \in IF s[c] = None THEN Evictions(s) ELSE {{}}
    PROVE  LET u == Found(s, c, ks)
           IN /\ StoreOK(u, IF ks = {} THEN n ELSE Counts(u))
              /\ Tracks([d \in Clients |-> IF d \in ks \cap Clients THEN None ELSE p[d]], u)
              /\ u[c] \in Buckets /\ u[c] # None
<1> DEFINE u == Found(s, c, ks)
           b == IF s[c] = None THEN Empty ELSE Trimmed(s[c])
           q == [d \in Clients |-> IF d \in ks \cap Clients THEN None ELSE p[d]]
<1>1. /\ ks = {} \/ (s[c] = None /\ \E k \in Live(s) : ks = {k})
      /\ s[c] = None /\ ks = {} => Cardinality(Live(s)) < MaxEntries
  BY DEF Evictions
<1>2. c \in Keys /\ s \in [Keys -> Buckets \cup {None}] /\ c \notin ks
  BY <1>1 DEF StoreOK, Keys, Live
<1>3. /\ b \in Buckets /\ b # None /\ b[Window] = 0 /\ Recent(b) <= MaxRequests
      /\ \A a \in 0 .. Window - 1 : b[a] = IF s[c] = None THEN 0 ELSE s[c][a]
  <2>1. CASE s[c] = None
    BY <2>1, EmptyBucket, RateAssumption DEF Empty, Ages
  <2>2. CASE s[c] # None
    <3>1. s[c] \in Buckets /\ Recent(s[c]) <= MaxRequests
      BY <1>2, <2>2 DEF StoreOK, Within
    <3> QED BY <2>2, <3>1, TrimmedBucket, RateAssumption
  <2> QED BY <2>1, <2>2
<1>4. u = [Without(s, ks) EXCEPT ![c] = b]
  BY DEF Found
<1> HIDE DEF b, u
<1>5. /\ u \in [Keys -> Buckets \cup {None}] /\ u[c] = b
      /\ \A k \in Keys \ {c} : u[k] = IF k \in ks THEN None ELSE s[k]
  BY <1>2, <1>3, <1>4 DEF Without
<1>6. Cardinality(Live(u)) <= MaxEntries
  <2>1. Live(u) = (Live(s) \ ks) \cup {c}
    BY <1>2, <1>3, <1>5 DEF Live
  <2>2. CASE s[c] # None
    <3>1. c \in Live(s) /\ ks = {}
      BY <1>1, <1>2, <2>2 DEF Live
    <3>2. Live(u) = Live(s)
      BY <2>1, <3>1
    <3> QED BY <3>2 DEF StoreOK
  <2>3. CASE s[c] = None /\ ks = {}
    <3>1. Cardinality(Live(s)) < MaxEntries /\ Live(u) = Live(s) \cup {c} /\ c \notin Live(s)
      BY <1>1, <2>1, <2>3 DEF Live
    <3>2. Cardinality(Live(u)) = Cardinality(Live(s)) + 1
      BY <3>1, LiveFinite, FS_AddElement
    <3> QED BY <3>1, <3>2, LiveFinite, RateAssumption
  <2>4. ASSUME NEW k \in Live(s), ks = {k}, s[c] = None
        PROVE  Cardinality(Live(u)) <= MaxEntries
    <3>1. IsFiniteSet(Live(s) \ {k}) /\ Cardinality(Live(s) \ {k}) = Cardinality(Live(s)) - 1
      BY LiveFinite, FS_RemoveElement
    <3>2. Live(u) = (Live(s) \ {k}) \cup {c} /\ c \notin Live(s) \ {k}
      BY <2>1, <2>4 DEF Live
    <3>3. Cardinality(Live(u)) = Cardinality(Live(s)) - 1 + 1
      BY <3>1, <3>2, FS_AddElement
    <3> QED BY <3>3, LiveFinite, RateAssumption DEF StoreOK
  <2> QED BY <1>1, <2>2, <2>3, <2>4
<1>7. \A d \in Clients : Within(u[d], MaxRequests)
  <2> TAKE d \in Clients
  <2>1. CASE d = c
    BY <1>3, <1>5, <2>1 DEF Within
  <2>2. CASE d # c
    BY <1>5, <2>2 DEF StoreOK, Within, Keys
  <2> QED BY <2>1, <2>2
<1>8. \A d \in Clients, t \in Tokens : Within(u[<<d, t>>], MaxPolls)
  BY <1>5, KeysApart DEF StoreOK, Within
<1>9. (IF ks = {} THEN n ELSE Counts(u)) = Counts(u)
  <2>1. ASSUME ks = {} PROVE Counts(u) = n
    <3>1. \A d \in Clients : TokensIn(u, d) = TokensIn(s, d)
      BY <1>5, <2>1, KeysApart DEF TokensIn
    <3> QED BY <3>1 DEF Counts, StoreOK
  <2> QED BY <2>1
<1>10. Tracks(q, u)
  <2>1. q \in [Clients -> Buckets \cup {None}]
    BY DEF Tracks
  <2>2. ASSUME NEW d \in Clients, q[d] # None, NEW a \in 0 .. Window - 1
        PROVE  q[d][a] = IF u[d] = None THEN 0 ELSE u[d][a]
    <3>1. d \notin ks /\ q[d] = p[d] /\ p[d] # None /\ d \in Keys
      BY <2>2 DEF Keys
    <3>2. p[d][a] = IF s[d] = None THEN 0 ELSE s[d][a]
      BY <3>1 DEF Tracks
    <3>3. CASE d = c
      BY <1>3, <1>5, <3>1, <3>2, <3>3
    <3>4. CASE d # c
      BY <1>5, <3>1, <3>2, <3>4
    <3> QED BY <3>3, <3>4
  <2> QED BY <2>1, <2>2 DEF Tracks
<1>11. StoreOK(u, IF ks = {} THEN n ELSE Counts(u))
  BY <1>5, <1>6, <1>7, <1>8, <1>9 DEF StoreOK
<1> QED BY <1>3, <1>5, <1>10, <1>11 DEF u

\* A bucket that has room gets one more stamp: of a client, or of a token.
LEMMA StampOK ==
    ASSUME NEW s, NEW n, StoreOK(s, n), NEW k \in Keys, s[k] # None,
           \/ k \in Clients /\ Recent(s[k]) < MaxRequests
           \/ k \in Clients \X Tokens /\ Recent(s[k]) < MaxPolls,
           NEW u, u = [s EXCEPT ![k] = Stamped(@)]
    PROVE  /\ StoreOK(u, n) /\ u[k] = Stamped(s[k])
           /\ \A l \in Keys \ {k} : u[l] = s[l]
<1> DEFINE b == Stamped(s[k])
<1>1. s \in [Keys -> Buckets \cup {None}] /\ s[k] \in Buckets
  BY DEF StoreOK
<1>2. Recent(s[k]) \in Nat /\ Recent(s[k]) < MaxRequests + MaxPolls
  BY <1>1, RecentType, RateAssumption
<1>3. b \in Buckets /\ b # None /\ b[Window] = s[k][Window] /\ Recent(b) = Recent(s[k]) + 1
  BY <1>1, <1>2, StampedBucket, RateAssumption
<1>4. s[k][Window] <= 1
  BY DEF StoreOK, Within
<1>5. u = [s EXCEPT ![k] = b]
  OBVIOUS
<1> HIDE DEF b
<1>6. /\ u \in [Keys -> Buckets \cup {None}] /\ u[k] = b
      /\ \A l \in Keys \ {k} : u[l] = s[l]
  BY <1>1, <1>3, <1>5
<1>7. Live(u) = Live(s) /\ Counts(u) = Counts(s)
  BY ZenonT(40), <1>3, <1>6, SameLive
<1>8. \A d \in Clients : Within(u[d], MaxRequests)
  <2> TAKE d \in Clients
  <2>1. CASE d = k
    <3>1. Recent(s[k]) < MaxRequests
      BY <2>1, RateAssumption
    <3> QED BY <1>2, <1>3, <1>4, <1>6, <2>1, <3>1, RateAssumption DEF Within
  <2>2. CASE d # k
    BY <1>6, <2>2 DEF StoreOK, Keys
  <2> QED BY <2>1, <2>2
<1>9. \A d \in Clients, t \in Tokens : Within(u[<<d, t>>], MaxPolls)
  <2> TAKE d \in Clients, t \in Tokens
  <2>1. CASE <<d, t>> = k
    <3>1. Recent(s[k]) < MaxPolls
      BY <2>1, RateAssumption
    <3> QED BY <1>2, <1>3, <1>4, <1>6, <2>1, <3>1, RateAssumption DEF Within
  <2>2. CASE <<d, t>> # k
    BY <1>6, <2>2, KeysApart DEF StoreOK
  <2> QED BY <2>1, <2>2
<1>10. StoreOK(u, n)
  BY <1>6, <1>7, <1>8, <1>9 DEF StoreOK
<1> QED BY <1>6, <1>10 DEF b

\* A token is registered with its first stamp.
LEMMA RegisterOK ==
    ASSUME NEW s, NEW n, StoreOK(s, n), NEW c \in Clients, NEW t \in Tokens, Registers(s, n, c, t),
           NEW u, u = [s EXCEPT ![<<c, t>>] = Stamped(Empty)]
    PROVE  /\ StoreOK(u, [n EXCEPT ![c] = @ + 1])
           /\ \A d \in Clients : u[d] = s[d]
<1> DEFINE k == <<c, t>>
           b == Stamped(Empty)
<1>1. s \in [Keys -> Buckets \cup {None}] /\ k \in Keys /\ s[k] = None
  BY KeysApart DEF StoreOK, Registers
<1>2. b \in Buckets /\ b # None /\ b[Window] = 0 /\ Recent(b) = 1
  BY EmptyBucket, StampedBucket, RateAssumption
<1>9. u = [s EXCEPT ![k] = b]
  OBVIOUS
<1> HIDE DEF b, k
<1>3. /\ u \in [Keys -> Buckets \cup {None}] /\ u[k] = b
      /\ \A l \in Keys \ {k} : u[l] = s[l]
  BY <1>1, <1>2, <1>9
<1>4. \A d \in Clients : u[d] = s[d] /\ Within(u[d], MaxRequests)
  BY <1>3, KeysApart DEF StoreOK, k
<1>5. \A d \in Clients, o \in Tokens : Within(u[<<d, o>>], MaxPolls)
  <2> TAKE d \in Clients, o \in Tokens
  <2>1. CASE <<d, o>> = k
    BY <1>2, <1>3, <2>1, RateAssumption DEF Within
  <2>2. CASE <<d, o>> # k
    BY <1>3, <2>2, KeysApart DEF StoreOK
  <2> QED BY <2>1, <2>2
<1>6. Cardinality(Live(u)) <= MaxEntries
  <2>1. Live(u) = Live(s) \cup {k} /\ k \notin Live(s)
    BY <1>1, <1>2, <1>3 DEF Live
  <2>2. Cardinality(Live(u)) = Cardinality(Live(s)) + 1
    BY <2>1, LiveFinite, FS_AddElement
  <2> QED BY <2>2, LiveFinite, RateAssumption DEF Registers
<1>7. [n EXCEPT ![c] = @ + 1] = Counts(u)
  <2>1. \A d \in Clients \ {c} : TokensIn(u, d) = TokensIn(s, d)
    BY <1>3, KeysApart DEF TokensIn, k
  <2>2. TokensIn(u, c) = TokensIn(s, c) \cup {t} /\ t \notin TokensIn(s, c)
    BY <1>1, <1>2, <1>3, KeysApart DEF TokensIn, k
  <2>3. Cardinality(TokensIn(u, c)) = Cardinality(TokensIn(s, c)) + 1
    BY <2>2, TokensFinite, FS_AddElement
  <2> QED BY <2>1, <2>3 DEF Counts, StoreOK
<1>8. StoreOK(u, [n EXCEPT ![c] = @ + 1])
  BY <1>3, <1>4, <1>5, <1>6, <1>7 DEF StoreOK
<1> QED BY <1>4, <1>8

LEMMA TracksSame ==
    ASSUME NEW p, NEW s, Tracks(p, s), NEW u, \A d \in Clients : u[d] = s[d]
    PROVE  Tracks(p, u)
  BY DEF Tracks

\* A counted request is stamped in the bucket and in the history.
LEMMA TracksStamp ==
    ASSUME NEW p, NEW s, NEW n, StoreOK(s, n), Tracks(p, s), NEW c \in Clients,
           s[c] # None, Recent(s[c]) < MaxRequests
    PROVE  Tracks([d \in Clients |-> IF d = c /\ p[c] # None THEN Stamped(p[c]) ELSE p[d]],
                  [s EXCEPT ![c] = Stamped(@)])
<1> DEFINE q == [d \in Clients |-> IF d = c /\ p[c] # None THEN Stamped(p[c]) ELSE p[d]]
           u == [s EXCEPT ![c] = Stamped(@)]
<1>1. c \in Keys /\ s[c] \in Buckets /\ s \in [Keys -> Buckets \cup {None}]
  BY DEF StoreOK, Keys
<1>2. u[c] = Stamped(s[c]) /\ \A d \in Clients \ {c} : u[d] = s[d]
  BY <1>1 DEF Keys
<1>3. Recent(s[c]) \in Nat /\ Recent(s[c]) < MaxRequests + MaxPolls
  BY <1>1, RecentType, RateAssumption
<1>4. ASSUME p[c] # None
      PROVE  /\ Stamped(p[c]) \in Buckets
             /\ \A a \in 0 .. Window - 1 : Stamped(p[c])[a] = Stamped(s[c])[a]
  <2>1. p[c] \in Buckets /\ \A a \in 0 .. Window - 1 : p[c][a] = s[c][a]
    BY <1>4 DEF Tracks
  <2>2. Recent(p[c]) < MaxRequests + MaxPolls
    BY <1>3, <2>1, RecentSame
  <2>3. \A a \in 0 .. Window - 1 : a = 0 \/ a \in 1 .. Window - 1
    BY RateAssumption
  <2> QED BY <1>1, <1>3, <2>1, <2>2, <2>3, StampedBucket
<1>5. u[c] # None
  BY <1>1, <1>2, <1>3, StampedBucket, RateAssumption
<1> HIDE DEF u
<1>6. q \in [Clients -> Buckets \cup {None}]
  BY <1>4 DEF Tracks
<1>7. ASSUME NEW d \in Clients, q[d] # None, NEW a \in 0 .. Window - 1
      PROVE  q[d][a] = IF u[d] = None THEN 0 ELSE u[d][a]
  <2>1. CASE d = c
    BY <1>2, <1>4, <1>5, <1>7, <2>1
  <2>2. CASE d # c
    BY <1>2, <1>7, <2>2 DEF Tracks
  <2> QED BY <2>1, <2>2
<1> HIDE DEF q
<1>8. Tracks(q, u)
  BY <1>6, <1>7 DEF Tracks
<1> QED BY <1>8 DEF q, u

-----------------------------------------------------------------------------
(* The critical sections of a request.                                     *)

LEMMA FirstKeeps ==
    ASSUME RateInv, NEW r \in Requests, NEW c \in Clients, NEW t \in Tokens, NEW i \in BOOLEAN,
           First(r, c, t, i)
    PROVE  RateInv'
<1> DEFINE k == <<c, t>>
           s == TrimmedStore(k)
           n == TrimmedCount(c, k)
<1>1. StoreOK(s, n) /\ \A d \in Clients : s[d] = store[d]
  BY TrimOK
<1>2. distinct' = n /\ passed' = passed
  BY DEF First
<1>3. CASE s[k] # None /\ MayPoll(s, k, i)
  <2>1. store' = [s EXCEPT ![k] = Stamped(@)] /\ UNCHANGED req
    BY <1>3 DEF First
  <2>2. Recent(s[k]) < MaxPolls /\ k \in Keys /\ k \in Clients \X Tokens
    BY <1>3, KeysApart DEF MayPoll
  <2> HIDE DEF s, n, k
  <2> DEFINE u == [s EXCEPT ![k] = Stamped(@)]
  <2>6. StoreOK(u, n) /\ \A l \in Keys \ {k} : u[l] = s[l]
    BY <1>1, <1>3, <2>2, StampOK
  <2> HIDE DEF u
  <2>3. StoreOK(store', n) /\ \A l \in Keys \ {k} : store'[l] = s[l]
    BY <2>1, <2>6 DEF u
  <2>4. \A d \in Clients : store'[d] = store[d]
    BY <1>1, <2>3, KeysApart DEF k
  <2>5. Tracks(passed', store')
    BY <1>2, <2>4, TracksSame DEF RateInv
  <2> QED BY <1>2, <2>1, <2>3, <2>5 DEF RateInv
<1>4. CASE ~(s[k] # None /\ MayPoll(s, k, i))
  <2>1. /\ store' = s
        /\ \E o \in {t, None} :
              req' = [req EXCEPT ![r] = [pc |-> "second", client |-> c, token |-> o]]
    BY <1>4 DEF First
  <2>2. req' \in [Requests -> [pc : {"idle", "second"}, client : Clients,
                               token : Tokens \cup {None}]]
    BY <2>1 DEF RateInv
  <2> HIDE DEF s, n
  <2>3. Tracks(passed', store')
    BY <1>1, <1>2, <2>1, TracksSame DEF RateInv
  <2> QED BY <1>1, <1>2, <2>1, <2>2, <2>3 DEF RateInv
<1> QED BY <1>3, <1>4

LEMMA EndsTypes ==
    ASSUME RateInv, NEW r \in Requests, Ends(r)
    PROVE  req' \in [Requests -> [pc : {"idle", "second"}, client : Clients,
                                  token : Tokens \cup {None}]]
  BY DEF RateInv, Ends

LEMMA SecondPollsKeeps ==
    ASSUME RateInv, NEW r \in Requests, NEW i \in BOOLEAN, SecondPolls(r, i)
    PROVE  RateInv'
<1> DEFINE c == req[r].client
           t == req[r].token
           k == <<c, t>>
           s == TrimmedStore(k)
<1>1. c \in Clients /\ t \in Tokens
  BY DEF SecondPolls, RateInv
<1>2. /\ s[k] # None /\ MayPoll(s, k, i) /\ store' = [s EXCEPT ![k] = Stamped(@)]
      /\ Ends(r) /\ UNCHANGED <<distinct, passed>>
  BY DEF SecondPolls
<1>3. StoreOK(s, TrimmedCount(c, k)) /\ \A d \in Clients : s[d] = store[d]
  BY <1>1, TrimOK
<1>4. TrimmedCount(c, k) = distinct
  <2>1. k \in Keys /\ store \in [Keys -> Buckets \cup {None}]
    BY <1>1, KeysApart DEF RateInv, StoreOK
  <2>2. ~Expired(k)
    BY <1>2, <2>1 DEF Expired, TrimmedStore
  <2> QED BY <2>2 DEF TrimmedCount
<1>5. Recent(s[k]) < MaxPolls /\ k \in Keys /\ k \in Clients \X Tokens
  BY <1>1, <1>2, KeysApart DEF MayPoll
<1> HIDE DEF s, k, c, t
<1> DEFINE u == [s EXCEPT ![k] = Stamped(@)]
<1>9. StoreOK(u, distinct) /\ \A l \in Keys \ {k} : u[l] = s[l]
  <2>1. StoreOK(s, distinct) /\ s[k] # None
    BY <1>2, <1>3, <1>4
  <2> QED BY <1>5, <2>1, StampOK
<1>10. store' = u /\ passed' = passed
  BY <1>2
<1> HIDE DEF u
<1>6. StoreOK(store', distinct) /\ \A l \in Keys \ {k} : store'[l] = s[l]
  BY <1>9, <1>10
<1>7. \A d \in Clients : store'[d] = store[d]
  BY <1>1, <1>3, <1>6, KeysApart DEF k, c, t
<1>8. Tracks(passed', store')
  BY <1>7, <1>10, TracksSame DEF RateInv
<1> QED BY <1>2, <1>6, <1>8, EndsTypes DEF RateInv, c, t

LEMMA SecondCountsKeeps ==
    ASSUME RateInv, NEW r \in Requests, NEW i \in BOOLEAN, SecondCounts(r, i)
    PROVE  RateInv'
<1> DEFINE c == req[r].client
           t == req[r].token
           k == <<c, t>>
           s0 == IF t = None THEN store ELSE TrimmedStore(k)
           n0 == IF t = None THEN distinct ELSE TrimmedCount(c, k)
<1>1. c \in Clients /\ t \in Tokens \cup {None}
  BY DEF RateInv
<1>2. StoreOK(s0, n0) /\ \A d \in Clients : s0[d] = store[d]
  <2>1. CASE t = None
    BY <2>1 DEF RateInv
  <2>2. CASE t # None
    BY <1>1, <2>2, TrimOK
  <2> QED BY <2>1, <2>2
<1>3. Tracks(passed, s0)
  <2> HIDE DEF s0
  <2> QED BY <1>2, TracksSame DEF RateInv
<1>4. PICK clean \in BOOLEAN :
            LET s1 == IF clean THEN CleanedUp(s0) ELSE s0
                n1 == IF clean THEN Counts(s1) ELSE n0
            IN \E ks \in IF s1[c] = None THEN Evictions(s1) ELSE {{}} :
                 LET s2 == Found(s1, c, ks)
                     n2 == IF ks = {} THEN n1 ELSE Recount(s2, ks)
                     s3 == [s2 EXCEPT ![c] = Stamped(@)]
                     reg == Registers(s3, n2, c, t)
                     lost == ks \cap Clients
                 IN IF Full(s2[c])
                    THEN /\ store' = s2 /\ distinct' = n2
                         /\ passed' = [d \in Clients |-> IF d \in lost THEN None ELSE passed[d]]
                    ELSE /\ store' = IF reg THEN [s3 EXCEPT ![k] = Stamped(Empty)] ELSE s3
                         /\ distinct' = IF reg THEN [n2 EXCEPT ![c] = @ + 1] ELSE n2
                         /\ passed' = [d \in Clients |->
                              IF d \in lost THEN None
                              ELSE IF d = c /\ passed[c] # None THEN Stamped(passed[c])
                              ELSE passed[d]]
  BY DEF SecondCounts, Due
<1> DEFINE s1 == IF clean THEN CleanedUp(s0) ELSE s0
           n1 == IF clean THEN Counts(s1) ELSE n0
<1>5. StoreOK(s1, n1) /\ Tracks(passed, s1)
  <2> HIDE DEF s0, n0
  <2> QED BY <1>2, <1>3, CleanOK
<1> HIDE DEF s1, n1, s0, n0
<1>6. PICK ks \in IF s1[c] = None THEN Evictions(s1) ELSE {{}} :
                 LET s2 == Found(s1, c, ks)
                     n2 == IF ks = {} THEN n1 ELSE Recount(s2, ks)
                     s3 == [s2 EXCEPT ![c] = Stamped(@)]
                     reg == Registers(s3, n2, c, t)
                     lost == ks \cap Clients
                 IN IF Full(s2[c])
                    THEN /\ store' = s2 /\ distinct' = n2
                         /\ passed' = [d \in Clients |-> IF d \in lost THEN None ELSE passed[d]]
                    ELSE /\ store' = IF reg THEN [s3 EXCEPT ![k] = Stamped(Empty)] ELSE s3
                         /\ distinct' = IF reg THEN [n2 EXCEPT ![c] = @ + 1] ELSE n2
                         /\ passed' = [d \in Clients |->
                              IF d \in lost THEN None
                              ELSE IF d = c /\ passed[c] # None THEN Stamped(passed[c])
                              ELSE passed[d]]
  BY <1>4 DEF s1, n1
<1> DEFINE s2 == Found(s1, c, ks)
           n2 == IF ks = {} THEN n1 ELSE Recount(s2, ks)
           s3 == [s2 EXCEPT ![c] = Stamped(@)]
           reg == Registers(s3, n2, c, t)
           lost == ks \cap Clients
           q == [d \in Clients |-> IF d \in lost THEN None ELSE passed[d]]
<1>7. StoreOK(s2, n2) /\ Tracks(q, s2) /\ s2[c] \in Buckets /\ s2[c] # None
  BY <1>1, <1>5, FoundOK DEF Recount
<1>8. Ends(r)
  BY DEF SecondCounts
<1>9. c \notin lost /\ c \in Keys
  <2>1. ks = {} \/ (s1[c] = None /\ \E l \in Live(s1) : ks = {l})
    BY <1>6 DEF Evictions
  <2> QED BY <1>1, <2>1 DEF Live, Keys
<1>10. CASE Full(s2[c])
  <2>1. store' = s2 /\ distinct' = n2 /\ passed' = q
    BY <1>6, <1>10
  <2> HIDE DEF s2, n2, q
  <2> QED BY <1>7, <1>8, <2>1, EndsTypes DEF RateInv
<1>11. CASE ~Full(s2[c])
  <2>1. /\ store' = IF reg THEN [s3 EXCEPT ![k] = Stamped(Empty)] ELSE s3
        /\ distinct' = IF reg THEN [n2 EXCEPT ![c] = @ + 1] ELSE n2
        /\ passed' = [d \in Clients |-> IF d \in lost THEN None
                                        ELSE IF d = c /\ passed[c] # None THEN Stamped(passed[c])
                                        ELSE passed[d]]
    BY <1>6, <1>11
  <2>2. passed' = [d \in Clients |-> IF d = c /\ q[c] # None THEN Stamped(q[c]) ELSE q[d]]
    BY <1>1, <1>9, <2>1
  <2> HIDE DEF s2, n2, q, reg
  <2>3. Recent(s2[c]) < MaxRequests
    BY <1>7, <1>11, RecentType, RateAssumption DEF Full
  <2>4. StoreOK(s3, n2)
    BY <1>1, <1>7, <1>9, <2>3, StampOK, RateAssumption
  <2>5. Tracks(passed', s3)
    BY <1>1, <1>7, <2>2, <2>3, TracksStamp
  <2> HIDE DEF s3
  <2>6. CASE reg
    <3>1. t \in Tokens /\ Registers(s3, n2, c, t)
      BY <1>1, <2>6 DEF Registers, reg
    <3> DEFINE u == [s3 EXCEPT ![<<c, t>>] = Stamped(Empty)]
               m == [n2 EXCEPT ![c] = @ + 1]
    <3>4. StoreOK(u, m) /\ \A d \in Clients : u[d] = s3[d]
      BY <1>1, <2>4, <3>1, RegisterOK
    <3>5. store' = u /\ distinct' = m
      BY <2>1, <2>6
    <3> HIDE DEF u, m
    <3>2. StoreOK(store', distinct') /\ \A d \in Clients : store'[d] = s3[d]
      BY <3>4, <3>5
    <3>3. Tracks(passed', store')
      BY <2>5, <3>2, TracksSame
    <3> QED BY <1>8, <3>2, <3>3, EndsTypes DEF RateInv
  <2>7. CASE ~reg
    BY <1>8, <2>1, <2>4, <2>5, <2>7, EndsTypes DEF RateInv
  <2> QED BY <2>6, <2>7
<1> QED BY <1>10, <1>11

LEMMA TickKeeps == ASSUME RateInv, Tick PROVE RateInv'
<1>1. /\ store' = [k \in Keys |-> Older(store[k])] /\ UNCHANGED <<distinct, req>>
      /\ passed' = [c \in Clients |-> IF passed[c] = None THEN None
                                      ELSE [Older(passed[c]) EXCEPT ![Window] = 0]]
  BY DEF Tick
<1>2. \A k \in Keys : IF store[k] = None THEN store'[k] = None
                      ELSE store'[k] \in Buckets /\ store'[k] = Older(store[k])
  BY <1>1, OlderBucket DEF RateInv, StoreOK, Older
<1>3. /\ store' \in [Keys -> Buckets \cup {None}]
      /\ \A k \in Keys : store'[k] = None <=> store[k] = None
  BY <1>1, <1>2, RateAssumption
<1>4. Live(store') = Live(store) /\ Counts(store') = Counts(store)
  BY <1>3, SameLive DEF RateInv
<1>5. ASSUME NEW k \in Keys, NEW m \in Nat, Within(store[k], m) PROVE Within(store'[k], m)
  <2>1. CASE store[k] = None
    BY <1>2, <2>1 DEF Within
  <2>2. CASE store[k] # None
    <3>1. store[k] \in Buckets
      BY <2>2 DEF RateInv, StoreOK
    <3>2. /\ Recent(store'[k]) <= Recent(store[k]) /\ store'[k][Window] <= 1
          /\ Recent(store'[k]) \in Nat /\ Recent(store[k]) \in Nat
      BY <1>2, <2>2, <3>1, OlderBucket, RecentType
    <3> QED BY <1>5, <2>2, <3>2 DEF Within
  <2> QED BY <2>1, <2>2
<1>6. StoreOK(store', distinct')
  <2>1. \A c \in Clients : Within(store'[c], MaxRequests)
    BY <1>5, RateAssumption DEF RateInv, StoreOK, Keys
  <2>2. \A c \in Clients, t \in Tokens : Within(store'[<<c, t>>], MaxPolls)
    BY <1>5, RateAssumption, KeysApart DEF RateInv, StoreOK
  <2> QED BY <1>1, <1>3, <1>4, <2>1, <2>2 DEF RateInv, StoreOK
<1>7. ASSUME NEW c \in Clients, passed[c] # None
      PROVE  /\ passed'[c] \in Buckets
             /\ \A a \in 0 .. Window - 1 :
                   passed'[c][a] = IF store'[c] = None THEN 0 ELSE store'[c][a]
  <2> DEFINE b == Older(passed[c])
  <2>1. passed[c] \in Buckets
    BY <1>7 DEF RateInv, Tracks
  <2>2. b \in Buckets /\ b[0] = 0 /\ \A a \in 1 .. Window - 1 : b[a] = passed[c][a - 1]
    BY <2>1, OlderBucket
  <2>3. passed'[c] = [b EXCEPT ![Window] = 0]
    BY <1>1, <1>7
  <2> HIDE DEF b
  <2>4. /\ passed'[c] \in Buckets /\ passed'[c][0] = 0
        /\ \A a \in 1 .. Window - 1 : passed'[c][a] = passed[c][a - 1]
    BY <2>2, <2>3, RateAssumption DEF Buckets, Ages
  <2>5. c \in Keys
    BY DEF Keys
  <2>6. \A a \in 1 .. Window - 1 :
           passed[c][a - 1] = IF store[c] = None THEN 0 ELSE store[c][a - 1]
    BY <1>7, RateAssumption DEF RateInv, Tracks
  <2>7. store[c] # None =>
           store'[c][0] = 0 /\ \A a \in 1 .. Window - 1 : store'[c][a] = store[c][a - 1]
    BY <1>2, <2>5, OlderBucket DEF RateInv, StoreOK
  <2>8. ASSUME NEW a \in 0 .. Window - 1
        PROVE  passed'[c][a] = IF store'[c] = None THEN 0 ELSE store'[c][a]
    <3>1. a = 0 \/ a \in 1 .. Window - 1
      BY RateAssumption
    <3> QED BY <1>3, <2>4, <2>5, <2>6, <2>7, <3>1
  <2> QED BY <2>4, <2>8
<1>8. Tracks(passed', store')
  <2>1. \A c \in Clients : passed[c] = None => passed'[c] = None
    BY <1>1
  <2>2. passed' \in [Clients -> Buckets \cup {None}]
    BY <1>1, <1>7, <2>1
  <2> QED BY <1>7, <2>1, <2>2 DEF Tracks
<1> QED BY <1>1, <1>6, <1>8 DEF RateInv

-----------------------------------------------------------------------------
LEMMA InitRate == Init => RateInv
<1> SUFFICES ASSUME Init PROVE RateInv
  OBVIOUS
<1>1. store = [k \in Keys |-> None] /\ distinct = [c \in Clients |-> 0]
      /\ passed = [c \in Clients |-> Empty]
  BY DEF Init
<1>2. Live(store) = {} /\ \A c \in Clients : TokensIn(store, c) = {}
  BY <1>1, KeysApart DEF Live, TokensIn
<1>3. Cardinality(Live(store)) <= MaxEntries /\ distinct = Counts(store)
  BY SMTT(30), <1>1, <1>2, FS_EmptySet, RateAssumption DEF Counts
<1>4. StoreOK(store, distinct)
  <2>1. \A k \in Keys : store[k] = None
    BY <1>1
  <2>2. \A c \in Clients : Within(store[c], MaxRequests)
    BY <2>1 DEF Keys, Within
  <2>3. \A c \in Clients, t \in Tokens : Within(store[<<c, t>>], MaxPolls)
    BY <2>1, KeysApart DEF Within
  <2>4. store \in [Keys -> Buckets \cup {None}]
    BY <1>1
  <2> QED BY <1>3, <2>2, <2>3, <2>4 DEF StoreOK
<1>5. Tracks(passed, store)
  BY <1>1, EmptyBucket, RateAssumption DEF Tracks, Empty, Ages, Keys
<1>6. (CHOOSE c \in Clients : TRUE) \in Clients
  BY RateAssumption
<1> QED BY <1>4, <1>5, <1>6 DEF Init, RateInv

LEMMA NextRate == RateInv /\ [Next]_vars => RateInv'
<1> SUFFICES ASSUME RateInv, [Next]_vars PROVE RateInv'
  OBVIOUS
<1>1. ASSUME NEW r \in Requests, NEW c \in Clients, FirstPlain(r, c) PROVE RateInv'
  BY <1>1 DEF RateInv, FirstPlain, StoreOK, Tracks
<1>2. CASE UNCHANGED vars
  BY <1>2 DEF RateInv, vars
<1> QED BY <1>1, <1>2, TickKeeps, FirstKeeps, SecondPollsKeeps, SecondCountsKeeps DEF Next

\* The budget of tokens is that of the buckets there are, no window of a client
\* holds more counted requests than its limit while its bucket is there, and the
\* store stays within its bound (route_helpers.py: rate_limit).
THEOREM BudgetHoldsAlways == Spec => []BudgetHolds
<1>1. RateInv => BudgetHolds
  <2> SUFFICES ASSUME RateInv PROVE TypeOK /\ BudgetIsOfBuckets /\ QuotaHolds /\ StoreIsBounded
    BY DEF BudgetHolds
  <2>1. distinct \in [Clients -> Nat]
    BY TokensFinite DEF RateInv, StoreOK, Counts
  <2>2. TypeOK /\ BudgetIsOfBuckets /\ StoreIsBounded
    BY <2>1 DEF RateInv, StoreOK, Tracks, TypeOK, BudgetIsOfBuckets, StoreIsBounded
  <2>3. ASSUME NEW c \in Clients, passed[c] # None PROVE Recent(passed[c]) <= MaxRequests
    <3>1. CASE store[c] = None
      <4>1. passed[c] \in Buckets /\ \A a \in 0 .. Window - 1 : passed[c][a] = 0
        BY <2>3, <3>1 DEF RateInv, Tracks
      <4>2. Recent(passed[c]) = 0
        BY <4>1, RecentZero
      <4> QED BY <4>2, RateAssumption
    <3>2. CASE store[c] # None
      <4>1. Recent(passed[c]) = Recent(store[c])
        BY <2>3, <3>2, RecentSame DEF RateInv, Tracks
      <4> QED BY <3>2, <4>1 DEF RateInv, StoreOK, Within
    <3> QED BY <3>1, <3>2
  <2> QED BY <2>2, <2>3 DEF QuotaHolds
<1> QED BY InitRate, NextRate, <1>1, PTL DEF Spec

-----------------------------------------------------------------------------
(* The AI portfolios.                                                      *)

ApEntry == [theme : PortfolioThemes, made : Ap!Makes]
ApPcs == {"idle", "find", "slot", "wait", "woken", "ask", "persist", "release", "publish"}
ApResults == Ap!Makes \cup {"none", "error"}
ApJob == [pc : ApPcs, result : ApResults, tries : 0 .. HandoffTries]
ApTab == [pc : {"idle", "miss", "submit", "wait", "told"}, key : Ap!Keys]

\* The file: no theme twice, never more than the limit.
FileOK(s) ==
    /\ s \in Seq(ApEntry) /\ Len(s) <= MaxPortfolios
    /\ \A i, j \in 1 .. Len(s) : s[i].theme = s[j].theme => i = j
\* What is written to it is a portfolio.
JobsOK(j) ==
    /\ j \in [Ap!Keys -> ApJob]
    /\ \A k \in Ap!Keys : j[k].pc = "persist" => j[k].result \in Ap!Makes
SlotsOK(s, j) ==
    /\ s \in [PortfolioThemes -> Ap!Keys \cup {None}]
    /\ \A k \in Ap!Keys : Ap!Holds(j[k].pc) <=> s[Ap!Theme(k)] = k
\* A tab is about to submit the job of a key.
Submits(tb, c, k) == tb[c].pc = "submit" /\ tb[c].key = k
\* A key of the table has one tab that is about to submit its job, or the job.
EntriesOK(inf, j, tb) ==
    /\ tb \in [PortfolioTabs -> ApTab] /\ inf \subseteq Ap!Keys
    /\ \A k \in Ap!Keys : k \in inf <=>
          \/ j[k].pc # "idle"
          \/ \E c \in PortfolioTabs : Submits(tb, c, k)
    /\ \A k \in Ap!Keys, c \in PortfolioTabs : Submits(tb, c, k) => j[k].pc = "idle"
    /\ \A k \in Ap!Keys, c, d \in PortfolioTabs :
          Submits(tb, c, k) /\ Submits(tb, d, k) => c = d
PortfolioInv ==
    /\ FileOK(portfolioSaved) /\ JobsOK(portfolioJob)
    /\ SlotsOK(portfolioSlot, portfolioJob)
    /\ EntriesOK(portfolioInflight, portfolioJob, portfolioTab)
    /\ portfolioResults \in [Ap!Keys -> ApResults]
    /\ portfolioEdits \in 0 .. MaxPortfolioEdits /\ portfolioEdited \subseteq PortfolioThemes

\* The key of a job and its theme.
LEMMA KeyTypes ==
    /\ \A k \in Ap!Keys : Ap!Theme(k) \in PortfolioThemes /\ k # None
    /\ \A t \in PortfolioThemes : <<"generate", t>> \in Ap!Keys
  BY PortfolioAssumption DEF Ap!Keys, Ap!Ops, Ap!Theme

\* A step of one job that leaves the slot alone, and holds it or not as before.
LEMMA JobSteps ==
    ASSUME NEW j, NEW u, NEW k \in Ap!Keys, NEW e \in ApJob, NEW s, NEW inf, NEW tb,
           JobsOK(j), SlotsOK(s, j), EntriesOK(inf, j, tb),
           u = [j EXCEPT ![k] = e], j[k].pc # "idle", e.pc # "idle",
           e.pc = "persist" => e.result \in Ap!Makes
    PROVE  /\ JobsOK(u) /\ EntriesOK(inf, u, tb)
           /\ (Ap!Holds(e.pc) <=> Ap!Holds(j[k].pc)) => SlotsOK(s, u)
<1>1. u \in [Ap!Keys -> ApJob] /\ \A i \in Ap!Keys : u[i] = IF i = k THEN e ELSE j[i]
  BY DEF JobsOK
<1>2. JobsOK(u)
  BY <1>1 DEF JobsOK
<1>3. \A i \in Ap!Keys : u[i].pc = "idle" <=> j[i].pc = "idle"
  BY <1>1
<1>4. EntriesOK(inf, u, tb)
  BY <1>3 DEF EntriesOK
<1>5. ASSUME Ap!Holds(e.pc) <=> Ap!Holds(j[k].pc) PROVE SlotsOK(s, u)
  BY <1>1, <1>5 DEF SlotsOK
<1> QED BY <1>2, <1>4, <1>5

\* A step of a job that takes the slot of its theme, free before.
LEMMA SlotTaken ==
    ASSUME NEW j, NEW u, NEW k \in Ap!Keys, NEW e \in ApJob, NEW s, NEW v,
           JobsOK(j), SlotsOK(s, j), u = [j EXCEPT ![k] = e], e.pc = "ask",
           s[Ap!Theme(k)] = None, v = [s EXCEPT ![Ap!Theme(k)] = k]
    PROVE  SlotsOK(v, u)
<1>1. \A i \in Ap!Keys : u[i] = IF i = k THEN e ELSE j[i]
  BY DEF JobsOK
<1>2. /\ v \in [PortfolioThemes -> Ap!Keys \cup {None}]
      /\ \A t \in PortfolioThemes : v[t] = IF t = Ap!Theme(k) THEN k ELSE s[t]
  BY KeyTypes DEF SlotsOK
<1>3. Ap!Holds("ask")
  BY DEF Ap!Holds
<1> SUFFICES ASSUME NEW i \in Ap!Keys PROVE Ap!Holds(u[i].pc) <=> v[Ap!Theme(i)] = i
  BY <1>2 DEF SlotsOK
<1>4. CASE i = k
  BY <1>1, <1>2, <1>3, <1>4, KeyTypes
<1>5. CASE i # k /\ Ap!Theme(i) = Ap!Theme(k)
  <2>1. ~Ap!Holds(j[i].pc)
    BY <1>5, KeyTypes DEF SlotsOK
  <2> QED BY <1>1, <1>2, <1>5, <2>1, KeyTypes
<1>6. CASE Ap!Theme(i) # Ap!Theme(k)
  BY <1>1, <1>2, <1>6, KeyTypes DEF SlotsOK
<1> QED BY <1>4, <1>5, <1>6

\* A step of the job that holds the slot of its theme, and gives it back.
LEMMA SlotReleased ==
    ASSUME NEW j, NEW u, NEW k \in Ap!Keys, NEW e \in ApJob, NEW s, NEW v,
           JobsOK(j), SlotsOK(s, j), u = [j EXCEPT ![k] = e], e.pc = "publish",
           j[k].pc = "release", v = [s EXCEPT ![Ap!Theme(k)] = None]
    PROVE  SlotsOK(v, u)
<1>1. \A i \in Ap!Keys : u[i] = IF i = k THEN e ELSE j[i]
  BY DEF JobsOK
<1>2. /\ v \in [PortfolioThemes -> Ap!Keys \cup {None}]
      /\ \A t \in PortfolioThemes : v[t] = IF t = Ap!Theme(k) THEN None ELSE s[t]
  BY KeyTypes DEF SlotsOK
<1>3. Ap!Holds("release") /\ ~Ap!Holds("publish")
  BY DEF Ap!Holds
<1>4. s[Ap!Theme(k)] = k
  BY <1>3 DEF SlotsOK
<1> SUFFICES ASSUME NEW i \in Ap!Keys PROVE Ap!Holds(u[i].pc) <=> v[Ap!Theme(i)] = i
  BY <1>2 DEF SlotsOK
<1>5. CASE i = k
  BY <1>1, <1>2, <1>3, <1>5, KeyTypes
<1>6. CASE i # k /\ Ap!Theme(i) = Ap!Theme(k)
  <2>1. ~Ap!Holds(j[i].pc)
    BY <1>4, <1>6 DEF SlotsOK
  <2> QED BY <1>1, <1>2, <1>6, <2>1, KeyTypes
<1>7. CASE Ap!Theme(i) # Ap!Theme(k)
  BY <1>1, <1>2, <1>7, KeyTypes DEF SlotsOK
<1> QED BY <1>5, <1>6, <1>7

\* A step of a tab that was not about to submit and is not now.
LEMMA TabSteps ==
    ASSUME NEW j, NEW tb, NEW w, NEW inf, EntriesOK(inf, j, tb),
           w \in [PortfolioTabs -> ApTab],
           \A c \in PortfolioTabs, k \in Ap!Keys : Submits(w, c, k) <=> Submits(tb, c, k)
    PROVE  EntriesOK(inf, j, w)
  BY DEF EntriesOK

\* Telling the tabs that wait on a key.
LEMMA TellsWaiters ==
    ASSUME NEW k \in Ap!Keys, portfolioTab \in [PortfolioTabs -> ApTab]
    PROVE  /\ Ap!Told(k) \in [PortfolioTabs -> ApTab]
           /\ \A c \in PortfolioTabs, i \in Ap!Keys :
                 Submits(Ap!Told(k), c, i) <=> Submits(portfolioTab, c, i)
<1>1. \A c \in PortfolioTabs :
         LET e == portfolioTab[c]
         IN e \in ApTab /\ [e EXCEPT !.pc = "told"] \in ApTab
            /\ [e EXCEPT !.pc = "told"].pc = "told"
  BY DEF ApTab
<1>2. \A c \in PortfolioTabs :
         Ap!Told(k)[c] = IF portfolioTab[c].key = k /\ portfolioTab[c].pc = "wait"
                         THEN [portfolioTab[c] EXCEPT !.pc = "told"] ELSE portfolioTab[c]
  BY DEF Ap!Told
<1>3. Ap!Told(k) \in [PortfolioTabs -> ApTab]
  BY <1>1 DEF Ap!Told
<1>4. ASSUME NEW c \in PortfolioTabs, NEW i \in Ap!Keys
      PROVE  Submits(Ap!Told(k), c, i) <=> Submits(portfolioTab, c, i)
  BY <1>1, <1>2 DEF Submits
<1> QED BY <1>3, <1>4

-----------------------------------------------------------------------------
\* A new portfolio, or a new version of a saved one.
LEMMA PutKeeps ==
    ASSUME PortfolioInv, NEW t \in PortfolioThemes, NEW m \in Ap!Makes
    PROVE  FileOK(Ap!Put(t, m))
<1> DEFINE e == [theme |-> t, made |-> m]
           s == portfolioSaved
<1>1. e \in ApEntry /\ e.theme = t /\ FileOK(s) /\ Len(s) \in Nat
  BY DEF ApEntry, PortfolioInv, FileOK
<1>2. CASE Ap!IsSaved(t)
  <2> DEFINE v == [i \in 1 .. Len(s) |-> IF i \in Ap!Positions(t) THEN e ELSE s[i]]
  <2>1. Ap!Put(t, m) = v
    BY <1>2 DEF Ap!Put
  <2>2. \A i \in 1 .. Len(s) : v[i] \in ApEntry /\ v[i].theme = s[i].theme
    BY <1>1 DEF FileOK, Ap!Positions
  <2>3. v \in Seq(ApEntry) /\ Len(v) = Len(s)
    BY <1>1, <2>2
  <2> HIDE DEF v
  <2> QED BY <1>1, <2>1, <2>2, <2>3 DEF FileOK
<1>3. CASE ~Ap!IsSaved(t)
  <2> DEFINE r == IF Len(s) < MaxPortfolios THEN s ELSE Tail(s)
  <2>1. Ap!Put(t, m) = Append(r, e)
    BY <1>3 DEF Ap!Put
  <2>2. \A i \in 1 .. Len(s) : s[i].theme # t
    BY <1>3 DEF Ap!IsSaved, Ap!Positions
  <2>3. r \in Seq(ApEntry) /\ Len(r) < MaxPortfolios
    BY <1>1, PortfolioAssumption DEF FileOK
  <2>4. /\ \A i \in 1 .. Len(r) : r[i].theme # t
        /\ \A i, j \in 1 .. Len(r) : r[i].theme = r[j].theme => i = j
    <3>1. CASE Len(s) < MaxPortfolios
      BY <1>1, <2>2, <3>1 DEF FileOK
    <3>2. CASE ~(Len(s) < MaxPortfolios)
      <4>1. /\ s # <<>> /\ Len(r) = Len(s) - 1
            /\ \A i \in 1 .. Len(r) : r[i] = s[i + 1] /\ i + 1 \in 1 .. Len(s)
        BY <1>1, <3>2, PortfolioAssumption DEF FileOK
      <4> HIDE DEF r
      <4>2. \A i \in 1 .. Len(r) : r[i].theme # t
        BY <4>1, <2>2
      <4>3. ASSUME NEW i \in 1 .. Len(r), NEW j \in 1 .. Len(r), r[i].theme = r[j].theme
            PROVE  i = j
        <5>1. i + 1 = j + 1
          BY <1>1, <4>1, <4>3 DEF FileOK
        <5> QED BY <5>1, <2>3
      <4> QED BY <4>2, <4>3
    <3> QED BY <3>1, <3>2
  <2> HIDE DEF r
  <2> DEFINE v == Append(r, e)
  <2>5. /\ v \in Seq(ApEntry) /\ Len(v) = Len(r) + 1 /\ Len(r) \in Nat
        /\ \A i \in 1 .. Len(v) : v[i] = IF i = Len(r) + 1 THEN e ELSE r[i]
    BY <1>1, <2>3
  <2> HIDE DEF v, e
  <2>6. \A i \in 1 .. Len(v) : i # Len(r) + 1 => i \in 1 .. Len(r)
    BY <2>5
  <2>7. \A i, j \in 1 .. Len(v) : v[i].theme = v[j].theme => i = j
    BY <1>1, <2>4, <2>5, <2>6
  <2>8. Len(v) <= MaxPortfolios
    BY <2>3, <2>5, PortfolioAssumption
  <2> QED BY <2>1, <2>5, <2>7, <2>8 DEF FileOK, v
<1> QED BY <1>2, <1>3

\* A portfolio less.
LEMMA WithoutKeeps ==
    ASSUME PortfolioInv, NEW t \in PortfolioThemes, Ap!IsSaved(t)
    PROVE  FileOK(Ap!Without(t))
<1> DEFINE s == portfolioSaved
           i == CHOOSE n \in Ap!Positions(t) : TRUE
           v == SubSeq(s, 1, i - 1) \o SubSeq(s, i + 1, Len(s))
<1>1. FileOK(s) /\ Len(s) \in Nat
  BY DEF PortfolioInv, FileOK
<1>2. i \in 1 .. Len(s)
  BY DEF Ap!IsSaved, Ap!Positions
<1>3. Ap!Without(t) = v
  BY DEF Ap!Without
<1> HIDE DEF i
<1>4. /\ SubSeq(s, 1, i - 1) \in Seq(ApEntry) /\ Len(SubSeq(s, 1, i - 1)) = i - 1
      /\ \A n \in 1 .. i - 1 : SubSeq(s, 1, i - 1)[n] = s[n]
  BY <1>1, <1>2, SubSeqProperties DEF FileOK
<1>5. /\ SubSeq(s, i + 1, Len(s)) \in Seq(ApEntry)
      /\ Len(SubSeq(s, i + 1, Len(s))) = Len(s) - i
      /\ \A n \in 1 .. Len(s) - i : SubSeq(s, i + 1, Len(s))[n] = s[n + i]
  BY <1>1, <1>2, SubSeqProperties DEF FileOK
<1>6. /\ v \in Seq(ApEntry) /\ Len(v) = Len(s) - 1
      /\ \A n \in 1 .. Len(v) : v[n] = s[IF n < i THEN n ELSE n + 1]
  <2> DEFINE a == SubSeq(s, 1, i - 1)
             b == SubSeq(s, i + 1, Len(s))
  <2>1. /\ v \in Seq(ApEntry) /\ Len(v) = Len(a) + Len(b)
        /\ \A n \in 1 .. Len(a) + Len(b) : v[n] = IF n <= Len(a) THEN a[n] ELSE b[n - Len(a)]
    BY <1>4, <1>5, ConcatProperties
  <2>2. Len(a) = i - 1 /\ Len(b) = Len(s) - i /\ i \in Nat
    BY <1>2, <1>4, <1>5
  <2>3. \A n \in 1 .. i - 1 : a[n] = s[n]
    BY <1>4
  <2>4. \A n \in 1 .. Len(s) - i : b[n] = s[n + i]
    BY <1>5
  <2> HIDE DEF v, a, b
  <2>5. Len(v) = Len(s) - 1
    BY <1>1, <2>1, <2>2
  <2>6. ASSUME NEW n \in 1 .. Len(v) PROVE v[n] = s[IF n < i THEN n ELSE n + 1]
    <3>1. CASE n < i
      BY <3>1, <1>1, <2>1, <2>2, <2>3, <2>5
    <3>2. CASE ~(n < i)
      <4>1. v[n] = b[n - (i - 1)] /\ n - (i - 1) \in 1 .. Len(s) - i
        BY <3>2, <1>1, <2>1, <2>2, <2>5
      <4>2. b[n - (i - 1)] = s[(n - (i - 1)) + i]
        BY <4>1, <2>4
      <4>3. (n - (i - 1)) + i = n + 1
        BY <2>2, <2>5, <1>1
      <4> QED BY <3>2, <4>1, <4>2, <4>3
    <3> QED BY <3>1, <3>2
  <2> QED BY <2>1, <2>5, <2>6
<1> HIDE DEF v
<1>7. \A n \in 1 .. Len(v) : (IF n < i THEN n ELSE n + 1) \in 1 .. Len(s)
  BY <1>1, <1>2, <1>6
<1>8. ASSUME NEW n \in 1 .. Len(v), NEW m \in 1 .. Len(v), v[n].theme = v[m].theme
      PROVE  n = m
  <2>1. (IF n < i THEN n ELSE n + 1) = (IF m < i THEN m ELSE m + 1)
    BY <1>1, <1>6, <1>7, <1>8 DEF FileOK
  <2> QED BY <2>1, <1>2, <1>6
<1>9. Len(v) <= MaxPortfolios
  BY <1>1, <1>6, PortfolioAssumption DEF FileOK
<1> QED BY <1>3, <1>6, <1>8, <1>9 DEF FileOK

\* What a job finds in the file.
LEMMA FoundType ==
    ASSUME PortfolioInv, NEW t \in PortfolioThemes
    PROVE  Ap!Found(t) \in Ap!Makes \cup {"none"}
<1>1. CASE Ap!IsSaved(t)
  <2>1. PICK i \in 1 .. Len(portfolioSaved) :
          Ap!Found(t) = portfolioSaved[i].made /\ portfolioSaved[i] \in ApEntry
    <3>1. (CHOOSE i \in Ap!Positions(t) : TRUE) \in 1 .. Len(portfolioSaved)
      BY <1>1 DEF Ap!IsSaved, Ap!Positions
    <3>2. portfolioSaved \in Seq(ApEntry)
      BY DEF PortfolioInv, FileOK
    <3>3. portfolioSaved[CHOOSE i \in Ap!Positions(t) : TRUE] \in ApEntry
      BY <3>1, <3>2
    <3> QED BY <1>1, <3>1, <3>3 DEF Ap!Found
  <2> QED BY <2>1 DEF ApEntry
<1>2. CASE ~Ap!IsSaved(t)
  BY <1>2 DEF Ap!Found
<1> QED BY <1>1, <1>2

\* Step replaces the place and the result of a job.
LEMMA StepIs ==
    ASSUME PortfolioInv, NEW k \in Ap!Keys, NEW pc \in ApPcs, NEW r \in ApResults,
           Ap!Step(k, pc, r)
    PROVE  \E e \in ApJob : /\ portfolioJob' = [portfolioJob EXCEPT ![k] = e]
                            /\ e.pc = pc /\ e.result = r
<1>1. portfolioJob[k] \in ApJob
  BY DEF PortfolioInv, JobsOK
<1> DEFINE e == [portfolioJob[k] EXCEPT !.pc = pc, !.result = r]
<1>2. e \in ApJob /\ e.pc = pc /\ e.result = r
  BY <1>1 DEF ApJob
<1>3. portfolioJob' = [portfolioJob EXCEPT ![k] = e]
  BY DEF Ap!Step
<1> QED BY <1>2, <1>3

\* A step of a job that holds its slot, or not, before and after it, and leaves
\* the rest alone but the file.
LEMMA PlainStep ==
    ASSUME PortfolioInv, NEW k \in Ap!Keys, NEW e \in ApJob,
           portfolioJob' = [portfolioJob EXCEPT ![k] = e],
           portfolioJob[k].pc # "idle", e.pc # "idle",
           e.pc = "persist" => e.result \in Ap!Makes,
           Ap!Holds(e.pc) <=> Ap!Holds(portfolioJob[k].pc),
           FileOK(portfolioSaved'), UNCHANGED <<portfolioInflight, portfolioResults,
           portfolioSlot, portfolioTab, portfolioEdits, portfolioEdited>>
    PROVE  PortfolioInv'
<1>1. /\ JobsOK(portfolioJob') /\ EntriesOK(portfolioInflight, portfolioJob', portfolioTab)
      /\ SlotsOK(portfolioSlot, portfolioJob')
  BY JobSteps DEF PortfolioInv
<1> QED BY <1>1 DEF PortfolioInv

LEMMA FindKeeps == ASSUME PortfolioInv, NEW k \in Ap!Keys, Ap!Find(k) PROVE PortfolioInv'
<1> DEFINE pc == IF Ap!Op(k) = "generate" /\ Ap!IsSaved(Ap!Theme(k)) THEN "publish" ELSE "slot"
<1>1. pc \in ApPcs /\ Ap!Found(Ap!Theme(k)) \in ApResults
  BY KeyTypes, FoundType DEF ApPcs, ApResults
<1>2. PICK e \in ApJob : /\ portfolioJob' = [portfolioJob EXCEPT ![k] = e]
                         /\ e.pc = pc
  BY <1>1, StepIs DEF Ap!Find
<1>3. Ap!Holds(e.pc) <=> Ap!Holds(portfolioJob[k].pc)
  BY <1>2 DEF Ap!Find, Ap!Holds
<1> QED BY <1>2, <1>3, PlainStep DEF Ap!Find, Ap!Store, PortfolioInv

\* Steps that only move on with the result they have, or a fixed one.
LEMMA Moves ==
    ASSUME PortfolioInv, NEW k \in Ap!Keys, NEW pc \in ApPcs, NEW r \in ApResults,
           Ap!Step(k, pc, r), portfolioJob[k].pc # "idle", pc # "idle",
           pc = "persist" => r \in Ap!Makes,
           Ap!Holds(pc) <=> Ap!Holds(portfolioJob[k].pc),
           FileOK(portfolioSaved'), UNCHANGED <<portfolioInflight, portfolioResults,
           portfolioSlot, portfolioTab, portfolioEdits, portfolioEdited>>
    PROVE  PortfolioInv'
  BY StepIs, PlainStep

LEMMA ResultType ==
    ASSUME PortfolioInv, NEW k \in Ap!Keys
    PROVE  portfolioJob[k] \in ApJob /\ portfolioJob[k].result \in ApResults
  BY DEF PortfolioInv, JobsOK, ApJob

\* The job takes the slot and goes on to ask the model.
LEMMA TakesIt ==
    ASSUME PortfolioInv, NEW k \in Ap!Keys, portfolioJob[k].pc # "idle", Ap!Takes(k),
           portfolioSlot' = [portfolioSlot EXCEPT ![Ap!Theme(k)] = k],
           Ap!Step(k, "ask", portfolioJob[k].result), UNCHANGED <<portfolioSaved,
           portfolioInflight, portfolioResults, portfolioTab, portfolioEdits, portfolioEdited>>
    PROVE  PortfolioInv'
<1>1. PICK e \in ApJob : portfolioJob' = [portfolioJob EXCEPT ![k] = e] /\ e.pc = "ask"
  BY StepIs, ResultType DEF ApPcs
<1>2. JobsOK(portfolioJob') /\ EntriesOK(portfolioInflight, portfolioJob', portfolioTab)
  BY <1>1, JobSteps DEF PortfolioInv
<1>3. SlotsOK(portfolioSlot', portfolioJob')
  BY <1>1, SlotTaken DEF PortfolioInv, Ap!Takes
<1> QED BY <1>2, <1>3 DEF PortfolioInv

LEMMA TakeSlotKeeps == ASSUME PortfolioInv, NEW k \in Ap!Keys, Ap!TakeSlot(k) PROVE PortfolioInv'
<1>1. CASE Ap!Takes(k)
  BY <1>1, TakesIt DEF Ap!TakeSlot, Ap!Store
<1>2. CASE ~Ap!Takes(k)
  BY <1>2, Moves, ResultType DEF Ap!TakeSlot, Ap!Store, ApPcs, Ap!Holds, PortfolioInv
<1> QED BY <1>1, <1>2

LEMMA WaitingKeeps ==
    ASSUME PortfolioInv, NEW k \in Ap!Keys, Ap!Wake(k) \/ Ap!HandoffEnds(k)
    PROVE  PortfolioInv'
<1>1. CASE Ap!Wake(k)
  BY <1>1, Moves, ResultType DEF Ap!Wake, Ap!Store, ApPcs, Ap!Holds, PortfolioInv
<1>2. CASE Ap!HandoffEnds(k)
  BY <1>2, Moves, ResultType DEF Ap!HandoffEnds, Ap!Store, ApPcs, ApResults, Ap!Holds, PortfolioInv
<1> QED BY <1>1, <1>2

LEMMA HandoffKeeps == ASSUME PortfolioInv, NEW k \in Ap!Keys, Ap!Handoff(k) PROVE PortfolioInv'
<1> DEFINE t == Ap!Theme(k)
<1>1. /\ portfolioJob[k].pc = "woken"
      /\ UNCHANGED <<portfolioSaved, portfolioEdits, portfolioEdited, portfolioInflight,
                     portfolioResults, portfolioTab>>
  BY DEF Ap!Handoff, Ap!Store
<1>2. CASE Ap!IsSaved(t) /\ Ap!Step(k, "publish", Ap!Found(t)) /\ UNCHANGED portfolioSlot
  <2>1. Ap!Found(t) \in ApResults
    BY KeyTypes, FoundType DEF ApResults
  <2> QED BY <1>1, <1>2, <2>1, Moves DEF ApPcs, Ap!Holds, PortfolioInv
<1>3. CASE /\ Ap!Takes(k) /\ portfolioSlot' = [portfolioSlot EXCEPT ![t] = k]
           /\ Ap!Step(k, "ask", portfolioJob[k].result)
  BY <1>1, <1>3, TakesIt
<1>4. CASE /\ UNCHANGED portfolioSlot
           /\ IF portfolioJob[k].tries + 1 < HandoffTries
              THEN portfolioJob' = [portfolioJob EXCEPT ![k].pc = "wait", ![k].tries = @ + 1]
              ELSE Ap!Step(k, "publish", "error")
  <2>1. CASE portfolioJob[k].tries + 1 < HandoffTries
    <3> DEFINE e == [portfolioJob[k] EXCEPT !.pc = "wait", !.tries = @ + 1]
    <3>1. e \in ApJob /\ e.pc = "wait"
      <4>1. portfolioJob[k] \in ApJob
        BY ResultType
      <4>2. portfolioJob[k].tries + 1 \in 0 .. HandoffTries
        BY <2>1, <4>1, PortfolioAssumption DEF ApJob
      <4> QED BY <4>1, <4>2 DEF ApJob, ApPcs
    <3>2. portfolioJob' = [portfolioJob EXCEPT ![k] = e]
      BY <1>4, <2>1
    <3> HIDE DEF e
    <3> QED BY <1>1, <1>4, <3>1, <3>2, PlainStep DEF Ap!Holds, PortfolioInv
  <2>2. CASE ~(portfolioJob[k].tries + 1 < HandoffTries)
    BY <1>1, <1>4, <2>2, Moves DEF ApPcs, ApResults, Ap!Holds, PortfolioInv
  <2> QED BY <2>1, <2>2
<1> QED BY <1>2, <1>3, <1>4 DEF Ap!Handoff

LEMMA ModelKeeps ==
    ASSUME PortfolioInv, NEW k \in Ap!Keys, Ap!ModelAnswers(k) \/ Ap!ModelFails(k)
    PROVE  PortfolioInv'
<1>1. /\ portfolioJob[k].pc = "ask" /\ UNCHANGED <<portfolioInflight, portfolioResults,
         portfolioSlot, portfolioTab, portfolioEdits, portfolioEdited>>
      /\ FileOK(portfolioSaved')
  BY DEF Ap!ModelAnswers, Ap!ModelFails, Ap!Store, PortfolioInv
<1>2. Ap!Holds("ask") /\ Ap!Holds("persist") /\ Ap!Holds("release")
  BY DEF Ap!Holds
<1>3. \/ Ap!Step(k, "persist", "real") \/ Ap!Step(k, "persist", "stub")
      \/ Ap!Step(k, "release", portfolioJob[k].result)
  BY DEF Ap!ModelAnswers, Ap!ModelFails
<1>4. CASE Ap!Step(k, "persist", "real") \/ Ap!Step(k, "persist", "stub")
  BY <1>1, <1>2, <1>4, Moves DEF ApPcs, ApResults, Ap!Makes
<1>5. CASE Ap!Step(k, "release", portfolioJob[k].result)
  BY <1>1, <1>2, <1>5, Moves, ResultType DEF ApPcs
<1> QED BY <1>3, <1>4, <1>5

LEMMA PersistKeeps ==
    ASSUME PortfolioInv, NEW k \in Ap!Keys, Ap!Persist(k) \/ Ap!PersistFails(k)
    PROVE  PortfolioInv'
<1>1. /\ portfolioJob[k].pc = "persist" /\ UNCHANGED <<portfolioInflight, portfolioResults,
         portfolioSlot, portfolioTab, portfolioEdits, portfolioEdited>>
  BY DEF Ap!Persist, Ap!PersistFails, Ap!Store
<1>2. Ap!Holds("persist") /\ Ap!Holds("release")
  BY DEF Ap!Holds
<1>3. FileOK(portfolioSaved')
  <2>1. portfolioJob[k].result \in Ap!Makes
    BY <1>1 DEF PortfolioInv, JobsOK
  <2>2. FileOK(Ap!Put(Ap!Theme(k), portfolioJob[k].result))
    BY <2>1, KeyTypes, PutKeeps
  <2> QED BY <2>2 DEF Ap!Persist, Ap!PersistFails, Ap!Store, PortfolioInv
<1>4. \/ Ap!Step(k, "release", "error") \/ Ap!Step(k, "release", portfolioJob[k].result)
  BY DEF Ap!Persist, Ap!PersistFails
<1> QED BY <1>1, <1>2, <1>3, <1>4, Moves, ResultType DEF ApPcs, ApResults

LEMMA ReleaseKeeps == ASSUME PortfolioInv, NEW k \in Ap!Keys, Ap!Release(k) PROVE PortfolioInv'
<1>1. PICK e \in ApJob : portfolioJob' = [portfolioJob EXCEPT ![k] = e] /\ e.pc = "publish"
  BY StepIs, ResultType DEF Ap!Release, ApPcs
<1>2. portfolioJob[k].pc = "release"
  BY DEF Ap!Release
<1>3. JobsOK(portfolioJob') /\ EntriesOK(portfolioInflight, portfolioJob', portfolioTab)
  BY <1>1, <1>2, JobSteps DEF PortfolioInv
<1>4. SlotsOK(portfolioSlot', portfolioJob')
  BY <1>1, <1>2, SlotReleased DEF PortfolioInv, Ap!Release
<1> QED BY <1>3, <1>4 DEF PortfolioInv, Ap!Release, Ap!Store

\* The end of a job: its key leaves the table and its waiters are told.
LEMMA PublishKeeps ==
    ASSUME PortfolioInv, NEW k \in Ap!Keys, Ap!PublishGenerate(k) \/ Ap!PublishRebalance(k)
    PROVE  PortfolioInv'
<1>1. /\ portfolioJob[k].pc = "publish" /\ portfolioJob' = [portfolioJob EXCEPT ![k] = Ap!NoJob]
      /\ portfolioInflight' = portfolioInflight \ {k} /\ portfolioTab' = Ap!Told(k)
      /\ UNCHANGED <<portfolioSaved, portfolioEdits, portfolioEdited, portfolioSlot>>
  BY DEF Ap!PublishGenerate, Ap!PublishRebalance, Ap!Ends, Ap!Store
<1>2. /\ portfolioTab \in [PortfolioTabs -> ApTab] /\ portfolioJob \in [Ap!Keys -> ApJob]
      /\ \A i \in Ap!Keys : portfolioJob'[i] = IF i = k THEN Ap!NoJob ELSE portfolioJob[i]
  BY <1>1 DEF PortfolioInv, EntriesOK, JobsOK
<1>3. Ap!NoJob \in ApJob /\ Ap!NoJob.pc = "idle"
  BY PortfolioAssumption DEF Ap!NoJob, ApJob, ApPcs, ApResults
<1>4. JobsOK(portfolioJob')
  BY <1>1, <1>2, <1>3 DEF PortfolioInv, JobsOK
<1>5. SlotsOK(portfolioSlot, portfolioJob')
  BY <1>1, <1>2, <1>3 DEF PortfolioInv, SlotsOK, Ap!Holds
<1>6. EntriesOK(portfolioInflight', portfolioJob', portfolioTab')
  <2>1. /\ portfolioTab' \in [PortfolioTabs -> ApTab]
        /\ \A c \in PortfolioTabs, i \in Ap!Keys :
              Submits(portfolioTab', c, i) <=> Submits(portfolioTab, c, i)
    BY <1>1, <1>2, TellsWaiters
  <2>2. \A c \in PortfolioTabs : ~Submits(portfolioTab, c, k)
    BY <1>1 DEF PortfolioInv, EntriesOK
  <2> HIDE DEF Submits
  <2> QED BY <1>1, <1>2, <1>3, <2>1, <2>2 DEF PortfolioInv, EntriesOK
<1>7. portfolioResults' \in [Ap!Keys -> ApResults]
  <2>1. portfolioResults \in [Ap!Keys -> ApResults] /\ portfolioJob[k].result \in ApResults
    BY ResultType DEF PortfolioInv
  <2> QED BY <2>1 DEF Ap!PublishGenerate, Ap!PublishRebalance
<1> QED BY <1>1, <1>4, <1>5, <1>6, <1>7 DEF PortfolioInv

-----------------------------------------------------------------------------
\* Only the tab moves, and it does not begin or end a submission.
LEMMA TabMoves ==
    ASSUME PortfolioInv, NEW c \in PortfolioTabs, NEW e \in ApTab,
           portfolioTab' = [portfolioTab EXCEPT ![c] = e],
           portfolioTab[c].pc # "submit", e.pc # "submit",
           portfolioResults' \in [Ap!Keys -> ApResults], UNCHANGED <<portfolioSaved,
           portfolioEdits, portfolioEdited, portfolioInflight, portfolioSlot, portfolioJob>>
    PROVE  PortfolioInv'
<1>1. /\ portfolioTab' \in [PortfolioTabs -> ApTab]
      /\ \A d \in PortfolioTabs : portfolioTab'[d] = IF d = c THEN e ELSE portfolioTab[d]
  BY DEF PortfolioInv, EntriesOK
<1>2. \A d \in PortfolioTabs, k \in Ap!Keys :
         Submits(portfolioTab', d, k) <=> Submits(portfolioTab, d, k)
  BY <1>1 DEF Submits
<1>3. EntriesOK(portfolioInflight, portfolioJob, portfolioTab')
  BY <1>1, <1>2, TabSteps DEF PortfolioInv
<1> QED BY <1>3 DEF PortfolioInv

LEMMA IdleType == Ap!Idle \in ApTab /\ Ap!Idle.pc = "idle"
<1>1. Ap!Keys # {}
  BY KeyTypes, PortfolioAssumption
<1> QED BY <1>1 DEF Ap!Idle, ApTab

LEMMA AskKeeps ==
    ASSUME PortfolioInv, NEW c \in PortfolioTabs, NEW k \in Ap!Keys,
           Ap!AskGenerate(c, k) \/ Ap!AskRebalance(c, k)
    PROVE  PortfolioInv'
<1>1. /\ portfolioTab[c].pc = "idle" /\ Ap!Asks(c, k)
      /\ UNCHANGED <<portfolioSaved, portfolioEdits, portfolioEdited, portfolioInflight,
                     portfolioSlot, portfolioJob>>
  BY DEF Ap!AskGenerate, Ap!AskRebalance, Ap!Store
<1>2. portfolioResults' \in [Ap!Keys -> ApResults]
  BY DEF Ap!AskGenerate, Ap!AskRebalance, PortfolioInv, ApResults
<1> DEFINE e == IF portfolioResults[k] = "none" THEN [pc |-> "miss", key |-> k] ELSE Ap!Idle
<1>3. e \in ApTab /\ e.pc # "submit"
  BY IdleType DEF ApTab
<1>4. portfolioTab' = [portfolioTab EXCEPT ![c] = e]
  BY <1>1 DEF Ap!Asks
<1> HIDE DEF e
<1> QED BY <1>1, <1>2, <1>3, <1>4, TabMoves

LEMMA PollKeeps ==
    ASSUME PortfolioInv, NEW c \in PortfolioTabs,
           Ap!StillFetching(c) \/ Ap!AnswerGenerate(c) \/ Ap!AnswerRebalance(c)
    PROVE  PortfolioInv'
<1>1. /\ portfolioTab[c].pc \in {"wait", "told"}
      /\ portfolioTab' = [portfolioTab EXCEPT ![c] = Ap!Idle]
      /\ UNCHANGED <<portfolioSaved, portfolioEdits, portfolioEdited, portfolioInflight,
                     portfolioSlot, portfolioJob>>
  BY DEF Ap!StillFetching, Ap!AnswerGenerate, Ap!AnswerRebalance, Ap!Store
<1>2. portfolioTab[c].key \in Ap!Keys
  BY DEF PortfolioInv, EntriesOK, ApTab
<1>3. portfolioResults' \in [Ap!Keys -> ApResults]
  BY <1>2 DEF Ap!StillFetching, Ap!AnswerGenerate, Ap!AnswerRebalance, PortfolioInv, ApResults
<1> QED BY <1>1, <1>3, IdleType, TabMoves

LEMMA ClaimKeeps == ASSUME PortfolioInv, NEW c \in PortfolioTabs, Ap!Claim(c) PROVE PortfolioInv'
<1> DEFINE k == portfolioTab[c].key
           pc == IF k \in portfolioInflight THEN "wait" ELSE "submit"
           e == [portfolioTab[c] EXCEPT !.pc = pc]
<1>1. portfolioTab \in [PortfolioTabs -> ApTab] /\ k \in Ap!Keys /\ portfolioTab[c].pc = "miss"
  BY DEF PortfolioInv, EntriesOK, ApTab, Ap!Claim
<1>2. e \in ApTab /\ e.pc = pc /\ e.key = k
  BY <1>1 DEF ApTab
<1>3. portfolioTab' = [portfolioTab EXCEPT ![c] = e]
  BY DEF Ap!Claim
<1> HIDE DEF e
<1>4. /\ portfolioTab' \in [PortfolioTabs -> ApTab]
      /\ \A d \in PortfolioTabs : portfolioTab'[d] = IF d = c THEN e ELSE portfolioTab[d]
  BY <1>1, <1>2, <1>3
<1>5. CASE k \in portfolioInflight
  <2>1. portfolioInflight' = portfolioInflight /\ e.pc # "submit"
    BY <1>2, <1>5 DEF Ap!Claim
  <2> QED BY <1>1, <1>2, <1>3, <2>1, TabMoves DEF Ap!Claim, Ap!Store, PortfolioInv
<1>6. CASE k \notin portfolioInflight
  <2>1. portfolioInflight' = portfolioInflight \cup {k} /\ pc = "submit"
    BY <1>6 DEF Ap!Claim
  <2>2. portfolioJob[k].pc = "idle" /\ \A d \in PortfolioTabs : ~Submits(portfolioTab, d, k)
    BY <1>1, <1>6 DEF PortfolioInv, EntriesOK
  <2>3. \A d \in PortfolioTabs, i \in Ap!Keys : Submits(portfolioTab', d, i) <=>
           IF d = c THEN i = k ELSE Submits(portfolioTab, d, i)
    BY <1>2, <1>4, <2>1 DEF Submits
  <2>4. \A i \in Ap!Keys : ~Submits(portfolioTab, c, i)
    BY <1>1 DEF Submits
  <2>5. EntriesOK(portfolioInflight', portfolioJob, portfolioTab')
    BY <1>1, <1>4, <2>1, <2>2, <2>3, <2>4 DEF PortfolioInv, EntriesOK
  <2> QED BY <2>5 DEF Ap!Claim, Ap!Store, PortfolioInv
<1> QED BY <1>5, <1>6

LEMMA SubmitKeeps == ASSUME PortfolioInv, NEW c \in PortfolioTabs, Ap!Submit(c) PROVE PortfolioInv'
<1> DEFINE k == portfolioTab[c].key
           e == [portfolioTab[c] EXCEPT !.pc = "wait"]
           n == [Ap!NoJob EXCEPT !.pc = "find"]
<1>1. portfolioTab \in [PortfolioTabs -> ApTab] /\ k \in Ap!Keys /\ portfolioTab[c].pc = "submit"
  BY DEF PortfolioInv, EntriesOK, ApTab, Ap!Submit
<1>2. e \in ApTab /\ e.pc = "wait"
  BY <1>1 DEF ApTab
<1>3. n \in ApJob /\ n.pc = "find"
  BY PortfolioAssumption DEF Ap!NoJob, ApJob, ApPcs, ApResults
<1>4. /\ portfolioTab' = [portfolioTab EXCEPT ![c] = e]
      /\ portfolioJob' = [portfolioJob EXCEPT ![k] = n]
  BY DEF Ap!Submit
<1> HIDE DEF e, n
<1>5. /\ portfolioTab' \in [PortfolioTabs -> ApTab]
      /\ \A d \in PortfolioTabs : portfolioTab'[d] = IF d = c THEN e ELSE portfolioTab[d]
      /\ portfolioJob' \in [Ap!Keys -> ApJob]
      /\ \A i \in Ap!Keys : portfolioJob'[i] = IF i = k THEN n ELSE portfolioJob[i]
  BY <1>1, <1>2, <1>3, <1>4 DEF PortfolioInv, JobsOK
<1>6. Submits(portfolioTab, c, k) /\ portfolioJob[k].pc = "idle" /\ k \in portfolioInflight
  BY <1>1 DEF Submits, PortfolioInv, EntriesOK
<1>7. \A d \in PortfolioTabs, i \in Ap!Keys :
         Submits(portfolioTab', d, i) <=> d # c /\ Submits(portfolioTab, d, i)
  BY <1>2, <1>5 DEF Submits
<1>8. \A d \in PortfolioTabs : ~Submits(portfolioTab', d, k)
  BY <1>1, <1>6, <1>7 DEF PortfolioInv, EntriesOK
<1>9. \A i \in Ap!Keys \ {k} : ~Submits(portfolioTab, c, i)
  BY DEF Submits
<1>10. EntriesOK(portfolioInflight, portfolioJob', portfolioTab')
  BY <1>1, <1>3, <1>5, <1>6, <1>7, <1>8, <1>9 DEF PortfolioInv, EntriesOK
<1>11. JobsOK(portfolioJob') /\ SlotsOK(portfolioSlot, portfolioJob')
  BY <1>3, <1>5, <1>6 DEF PortfolioInv, JobsOK, SlotsOK, Ap!Holds
<1> QED BY <1>10, <1>11 DEF Ap!Submit, Ap!Store, PortfolioInv

LEMMA SubmitFailsKeeps ==
    ASSUME PortfolioInv, NEW c \in PortfolioTabs, Ap!SubmitFails(c) PROVE PortfolioInv'
<1> DEFINE k == portfolioTab[c].key
           w == Ap!Told(k)
<1>1. portfolioTab \in [PortfolioTabs -> ApTab] /\ k \in Ap!Keys /\ portfolioTab[c].pc = "submit"
  BY DEF PortfolioInv, EntriesOK, ApTab, Ap!SubmitFails
<1>2. /\ w \in [PortfolioTabs -> ApTab]
      /\ \A d \in PortfolioTabs, i \in Ap!Keys : Submits(w, d, i) <=> Submits(portfolioTab, d, i)
  BY <1>1, TellsWaiters
<1>3. portfolioTab' = [w EXCEPT ![c] = Ap!Idle] /\ portfolioInflight' = portfolioInflight \ {k}
  BY DEF Ap!SubmitFails
<1>4. /\ portfolioTab' \in [PortfolioTabs -> ApTab]
      /\ \A d \in PortfolioTabs : portfolioTab'[d] = IF d = c THEN Ap!Idle ELSE w[d]
  BY <1>2, <1>3, IdleType
<1>5. \A d \in PortfolioTabs, i \in Ap!Keys :
         Submits(portfolioTab', d, i) <=> d # c /\ Submits(portfolioTab, d, i)
  BY <1>2, <1>4, IdleType DEF Submits
<1>6. Submits(portfolioTab, c, k) /\ portfolioJob[k].pc = "idle"
  BY <1>1 DEF Submits, PortfolioInv, EntriesOK
<1>7. \A i \in Ap!Keys \ {k} : ~Submits(portfolioTab, c, i)
  BY DEF Submits
<1>8. \A d \in PortfolioTabs : ~Submits(portfolioTab', d, k)
  BY <1>1, <1>5, <1>6 DEF PortfolioInv, EntriesOK
<1>9. EntriesOK(portfolioInflight', portfolioJob, portfolioTab')
  BY <1>1, <1>3, <1>4, <1>5, <1>6, <1>7, <1>8 DEF PortfolioInv, EntriesOK
<1> QED BY <1>9 DEF Ap!SubmitFails, Ap!Store, PortfolioInv

-----------------------------------------------------------------------------
LEMMA EditsKeep ==
    ASSUME PortfolioInv, NEW t \in PortfolioThemes,
           Ap!SavesOwn(t) \/ Ap!Deletes(t) \/ Ap!DropResults(t)
    PROVE  PortfolioInv'
<1>1. UNCHANGED <<portfolioInflight, portfolioSlot, portfolioJob, portfolioTab>>
  BY DEF Ap!SavesOwn, Ap!Deletes, Ap!DropResults
<1>2. FileOK(portfolioSaved')
  <2>1. CASE Ap!SavesOwn(t)
    BY <2>1, PutKeeps DEF Ap!SavesOwn, Ap!Makes
  <2>2. CASE Ap!Deletes(t)
    BY <2>2, WithoutKeeps DEF Ap!Deletes
  <2>3. CASE Ap!DropResults(t)
    BY <2>3 DEF Ap!DropResults, PortfolioInv
  <2> QED BY <2>1, <2>2, <2>3
<1>3. portfolioResults' \in [Ap!Keys -> ApResults]
  BY DEF Ap!SavesOwn, Ap!Deletes, Ap!DropResults, PortfolioInv, ApResults
<1>4. portfolioEdits' \in 0 .. MaxPortfolioEdits /\ portfolioEdited' \subseteq PortfolioThemes
  BY PortfolioAssumption DEF Ap!SavesOwn, Ap!Deletes, Ap!DropResults, PortfolioInv
<1> QED BY <1>1, <1>2, <1>3, <1>4 DEF PortfolioInv

LEMMA ExpireKeeps == ASSUME PortfolioInv, NEW k \in Ap!Keys, Ap!Expire(k) PROVE PortfolioInv'
  BY DEF Ap!Expire, Ap!Store, PortfolioInv, ApResults

LEMMA InitPortfolio == Ap!Init => PortfolioInv
<1> SUFFICES ASSUME Ap!Init PROVE PortfolioInv
  OBVIOUS
<1>1. FileOK(portfolioSaved)
  BY PortfolioAssumption DEF Ap!Init, FileOK
<1>2. Ap!NoJob \in ApJob /\ Ap!NoJob.pc = "idle"
  BY PortfolioAssumption DEF Ap!NoJob, ApJob, ApPcs, ApResults
<1>3. JobsOK(portfolioJob) /\ SlotsOK(portfolioSlot, portfolioJob)
  BY <1>2, KeyTypes DEF Ap!Init, JobsOK, SlotsOK, Ap!Holds
<1>4. EntriesOK(portfolioInflight, portfolioJob, portfolioTab)
  BY <1>2, IdleType DEF Ap!Init, EntriesOK, Submits
<1> QED BY <1>1, <1>3, <1>4, PortfolioAssumption DEF Ap!Init, PortfolioInv, ApResults

LEMMA NextPortfolio == PortfolioInv /\ [Ap!Next]_Ap!vars => PortfolioInv'
<1> SUFFICES ASSUME PortfolioInv, [Ap!Next]_Ap!vars PROVE PortfolioInv'
  OBVIOUS
<1>1. ASSUME NEW c \in PortfolioTabs,
             \/ \E k \in Ap!Keys : Ap!AskGenerate(c, k) \/ Ap!AskRebalance(c, k)
             \/ Ap!Claim(c) \/ Ap!Submit(c) \/ Ap!SubmitFails(c)
             \/ Ap!StillFetching(c) \/ Ap!AnswerGenerate(c) \/ Ap!AnswerRebalance(c)
      PROVE  PortfolioInv'
  BY <1>1, AskKeeps, ClaimKeeps, SubmitKeeps, SubmitFailsKeeps, PollKeeps
<1>2. ASSUME NEW k \in Ap!Keys, Ap!JobStep(k) \/ Ap!Expire(k) PROVE PortfolioInv'
  BY <1>2, FindKeeps, TakeSlotKeeps, WaitingKeeps, HandoffKeeps, ModelKeeps, PersistKeeps,
     ReleaseKeeps, PublishKeeps, ExpireKeeps DEF Ap!JobStep
<1>3. ASSUME NEW t \in PortfolioThemes, Ap!SavesOwn(t) \/ Ap!Deletes(t) \/ Ap!DropResults(t)
      PROVE  PortfolioInv'
  BY <1>3, EditsKeep
<1>4. CASE UNCHANGED Ap!vars
  BY <1>4 DEF Ap!vars, PortfolioInv
<1> QED BY <1>1, <1>2, <1>3, <1>4 DEF Ap!Next

LEMMA PortfolioInvGives == PortfolioInv => SlotHasOwner
<1> SUFFICES ASSUME PortfolioInv PROVE SlotHasOwner
  OBVIOUS
<1>1. /\ Len(portfolioSaved) <= MaxPortfolios
      /\ \A i \in 1 .. Len(portfolioSaved) : portfolioSaved[i] \in ApEntry
      /\ \A i, j \in 1 .. Len(portfolioSaved) :
            portfolioSaved[i].theme = portfolioSaved[j].theme => i = j
  BY DEF PortfolioInv, FileOK
<1>2. Ap!TypeOK
  BY <1>1 DEF Ap!TypeOK, PortfolioInv, JobsOK, SlotsOK, EntriesOK, ApEntry, ApJob, ApPcs, ApTab,
     ApResults
<1>3. Ap!SlotHasOwner /\ Ap!EntryHasJob
  BY DEF Ap!SlotHasOwner, Ap!EntryHasJob, PortfolioInv, SlotsOK, EntriesOK, Submits
<1> QED BY <1>2, <1>3 DEF SlotHasOwner

\* A theme's slot is held by exactly the job that generates it, and a key of the
\* table of jobs has a job or a tab about to submit one: for any number of tabs,
\* themes, presets and edits, and any limit of the file.
THEOREM SlotHasOwnerHolds == Ap!Spec => []SlotHasOwner
<1>1. PortfolioInv => SlotHasOwner
  BY PortfolioInvGives
<1> QED BY <1>1, InitPortfolio, NextPortfolio, PTL DEF Ap!Spec

-----------------------------------------------------------------------------
(* The news.                                                               *)

\* The sources whose future holds a place of the pool.
LiveIn(f) == {s \in Ng!Sources : f[s] = "live"}
\* Futures of this run and of earlier ones fit in the pool.
PoolFits(f, n) == f \in [Ng!Sources -> {"none", "live", "cancelled"} \cup Ng!Results]
    /\ n \in Nat /\ n + Cardinality(LiveIn(f)) <= NewsPool
\* What the page is told of a source and what the model is given.
Agree(st, us) ==
    /\ \A m \in Ng!Markets : st[m] = "success" <=> m \in us
    /\ st["trends"] = "success" <=> us \cap Ng!Trends # {}
NewsInv ==
    /\ Ng!TypeOK /\ PoolFits(newsFut, newsOrphans)
    /\ newsPc = "submit" => newsUsed = {} /\ \A s \in Ng!Sources : newsFut[s] = "none"
    /\ newsPc = "wait" => newsUsed = {}
    /\ newsPc = "told" => \A s \in newsDone : newsFut[s] \in Ng!Results
    /\ newsPc \in {"ask", "end"} => Agree(newsStatus, newsUsed)
    /\ newsPc # "end" => newsBundle = "none"
    /\ Ng!NothingInvented /\ Ng!MarkHasRefresh

LEMMA InPoolIs == Ng!InPool = newsOrphans + Cardinality(LiveIn(newsFut))
<1>1. Ng!Cardinality(LiveIn(newsFut)) = Cardinality(LiveIn(newsFut))
  BY DEF Ng!Cardinality, Cardinality
<1> QED BY <1>1 DEF Ng!InPool, LiveIn

\* The live futures are few, and fewer when one ends.
LEMMA LiveCounts ==
    /\ \A f : IsFiniteSet(LiveIn(f)) /\ Cardinality(LiveIn(f)) \in Nat
    /\ \A f, g : LiveIn(g) \subseteq LiveIn(f) => Cardinality(LiveIn(g)) <= Cardinality(LiveIn(f))
<1>1. IsFiniteSet(Ng!Sources)
  <2>1. Ng!Sources = {"us"} \cup {"jp"} \cup {"usTrends"} \cup {"jpTrends"}
    BY DEF Ng!Sources, Ng!Markets, Ng!Trends
  <2> QED BY <2>1, FS_Singleton, FS_Union
<1>2. \A f : LiveIn(f) \subseteq Ng!Sources
  BY DEF LiveIn
<1>3. \A f : IsFiniteSet(LiveIn(f))
  BY <1>1, <1>2, FS_Subset
<1>4. \A f : Cardinality(LiveIn(f)) \in Nat
  BY <1>3, FS_CardinalityType
<1>5. \A f, g : LiveIn(g) \subseteq LiveIn(f) => Cardinality(LiveIn(g)) <= Cardinality(LiveIn(f))
  BY <1>3, FS_Subset
<1> QED BY <1>3, <1>4, <1>5

\* A change of the futures that makes none live keeps the pool.
LEMMA FewerLive ==
    ASSUME NEW f, NEW g, NEW n, NEW i, PoolFits(f, n), i \in Nat, i <= n,
           g \in [Ng!Sources -> {"none", "live", "cancelled"} \cup Ng!Results],
           \A s \in Ng!Sources : g[s] = "live" => f[s] = "live"
    PROVE  PoolFits(g, i)
<1>1. LiveIn(g) \subseteq LiveIn(f)
  BY DEF LiveIn
<1>2. /\ Cardinality(LiveIn(g)) <= Cardinality(LiveIn(f))
      /\ Cardinality(LiveIn(g)) \in Nat /\ Cardinality(LiveIn(f)) \in Nat
  BY <1>1, LiveCounts
<1> QED BY <1>2, NewsAssumption DEF PoolFits

LEMMA BeginKeeps == ASSUME NewsInv, Ng!Begin PROVE NewsInv'
<1>1. /\ newsOrphans' = newsOrphans + Cardinality(LiveIn(newsFut))
      /\ newsFut' = [s \in Ng!Sources |-> "none"]
      /\ newsPc' = "submit" /\ newsUsed' = {} /\ newsBundle' = "none"
  BY InPoolIs DEF Ng!Begin
<1>2. Cardinality(LiveIn(newsFut)) \in Nat /\ PoolFits(newsFut, newsOrphans)
  BY LiveCounts DEF NewsInv
<1>3. PoolFits(newsFut', newsOrphans')
  <2>1. LiveIn(newsFut') = {}
    BY <1>1 DEF LiveIn
  <2>2. Cardinality(LiveIn(newsFut')) = 0
    BY <2>1, FS_EmptySet
  <2> QED BY <1>1, <1>2, <2>2, NewsAssumption DEF PoolFits
<1>4. Ng!TypeOK'
  <2>1. newsOrphans' \in 0 .. NewsPool
    BY <1>1, <1>2, NewsAssumption DEF PoolFits
  <2>2. newsRuns' \in 0 .. MaxNewsRuns
    BY NewsAssumption DEF Ng!Begin, NewsInv, Ng!TypeOK
  <2>3. newsStatus' \in [Ng!Parts -> Ng!Statuses]
    BY DEF Ng!Begin, Ng!Pending, Ng!Statuses
  <2> QED BY <1>1, <2>1, <2>2, <2>3 DEF Ng!Begin, NewsInv, Ng!TypeOK, Ng!trend
<1> QED BY <1>1, <1>3, <1>4
        DEF Ng!Begin, NewsInv, Ng!NothingInvented, Ng!MarkHasRefresh, Ng!trend

\* A pool with room for n futures gets the first n sources.
LEMMA FirstSources ==
    ASSUME NEW n \in Nat
    PROVE  Cardinality({s \in Ng!Sources : Ng!Order[s] <= n}) <= n
<1> DEFINE S == {s \in Ng!Sources : Ng!Order[s] <= n}
           f == [s \in S |-> Ng!Order[s]]
<1>1. \A s \in Ng!Sources : Ng!Order[s] \in 1 .. 4
  BY DEF Ng!Order, Ng!Sources, Ng!Markets, Ng!Trends
<1>2. \A s, t \in Ng!Sources : Ng!Order[s] = Ng!Order[t] => s = t
  BY DEF Ng!Order, Ng!Sources, Ng!Markets, Ng!Trends
<1>3. \A s \in S : Ng!Order[s] \in 1 .. n
  BY <1>1
<1>4. f \in Injection(S, 1 .. n)
  BY <1>2, <1>3 DEF Injection, IsInjective
<1>5. IsFiniteSet(1 .. n) /\ Cardinality(1 .. n) = n
  BY FS_Interval
<1> QED BY <1>4, <1>5, FS_Injection

LEMMA SubmitsKeep == ASSUME NewsInv, Ng!Submit PROVE NewsInv'
<1> DEFINE room == NewsPool - newsOrphans
<1>1. newsPc = "submit" /\ newsUsed = {} /\ newsBundle = "none"
  BY DEF Ng!Submit, NewsInv
<1>2. Ng!InPool = newsOrphans /\ newsOrphans \in 0 .. NewsPool /\ room \in Nat
  <2>1. LiveIn(newsFut) = {}
    BY <1>1 DEF NewsInv, LiveIn
  <2>2. Cardinality(LiveIn(newsFut)) = 0
    BY <2>1, FS_EmptySet
  <2>3. newsOrphans \in 0 .. NewsPool
    BY DEF NewsInv, Ng!TypeOK
  <2> QED BY <2>2, <2>3, InPoolIs, NewsAssumption
<1>3. newsFut' = [s \in Ng!Sources |-> IF Ng!Order[s] <= room THEN "live" ELSE "none"]
  BY <1>2 DEF Ng!Submit
<1>4. PoolFits(newsFut', newsOrphans')
  <2>1. LiveIn(newsFut') = {s \in Ng!Sources : Ng!Order[s] <= room}
    BY <1>3 DEF LiveIn
  <2>2. Cardinality(LiveIn(newsFut')) <= room /\ Cardinality(LiveIn(newsFut')) \in Nat
    BY <1>2, <2>1, FirstSources, LiveCounts
  <2>3. newsFut' \in [Ng!Sources -> {"none", "live", "cancelled"} \cup Ng!Results]
    BY <1>3
  <2> QED BY <1>2, <2>2, <2>3, NewsAssumption DEF PoolFits, Ng!Submit
<1>5. \/ newsPc' = "wait" /\ UNCHANGED newsStatus
      \/ newsPc' = "ask" /\ newsStatus' = [p \in Ng!Parts |-> "error"]
  BY DEF Ng!Submit
<1>6. Ng!TypeOK'
  BY <1>3, <1>5 DEF NewsInv, Ng!TypeOK, Ng!Submit, Ng!trend, Ng!Statuses, Ng!Results
<1>7. newsPc' = "ask" => Agree(newsStatus', newsUsed')
  BY <1>1, <1>5 DEF Agree, Ng!Submit, Ng!Parts
<1> QED BY <1>1, <1>4, <1>5, <1>6, <1>7
        DEF NewsInv, Ng!Submit, Ng!NothingInvented, Ng!MarkHasRefresh, Ng!trend

LEMMA WaitedKeeps == ASSUME NewsInv, Ng!Waited PROVE NewsInv'
<1>1. /\ newsPc' = "told" /\ newsDone' = {s \in Ng!Sources : newsFut[s] \in Ng!Results}
      /\ UNCHANGED <<newsForced, newsFut, newsOrphans, newsStatus, newsUsed, newsBundle,
                     newsStored, newsRuns, newsTitles, newsInflight, newsRefresh, newsExpiries>>
  BY DEF Ng!Waited, Ng!Ended, Ng!trend
<1>2. Ng!TypeOK'
  BY <1>1 DEF NewsInv, Ng!TypeOK
<1>3. newsBundle = "none"
  BY DEF NewsInv, Ng!Waited
<1> QED BY <1>1, <1>2, <1>3 DEF NewsInv, Ng!NothingInvented, Ng!MarkHasRefresh

\* The page is told of each source, and of the titles, as the model is given them.
LEMMA GatheredKeeps == ASSUME NewsInv, Ng!Gathered PROVE NewsInv'
<1>1. /\ newsPc = "told" /\ newsPc' = "ask" /\ newsBundle = "none"
      /\ newsUsed' = {s \in newsDone : newsFut[s] = "rows"}
      /\ newsStatus' = [p \in Ng!Parts |-> IF p = "trends" THEN Ng!TrendsStatus ELSE Ng!Result(p)]
      /\ UNCHANGED <<newsForced, newsOrphans, newsDone, newsBundle, newsStored, newsRuns,
                     newsTitles, newsInflight, newsRefresh, newsExpiries>>
  BY DEF NewsInv, Ng!Gathered, Ng!trend
<1>2. newsDone \subseteq Ng!Sources /\ \A s \in newsDone : newsFut[s] \in Ng!Results
  BY <1>1 DEF NewsInv, Ng!TypeOK
<1>3. \A s \in Ng!Sources : /\ Ng!Result(s) \in {"timeout", "success", "empty", "error"}
                            /\ Ng!Result(s) = "success" <=> s \in newsUsed'
  BY <1>1, <1>2 DEF Ng!Result, Ng!Results
<1>4. /\ Ng!TrendsStatus \in {"timeout", "success", "empty", "error"}
      /\ Ng!TrendsStatus = "success" <=> \E s \in Ng!Trends : Ng!Result(s) = "success"
  BY DEF Ng!TrendsStatus
<1>5. /\ Ng!Markets \subseteq Ng!Sources /\ Ng!Trends \subseteq Ng!Sources
      /\ "trends" \notin Ng!Markets /\ Ng!Parts = Ng!Markets \cup {"trends"}
  BY DEF Ng!Markets, Ng!Sources, Ng!Trends, Ng!Parts
<1>6. Agree(newsStatus', newsUsed')
  <2>1. \A m \in Ng!Markets : newsStatus'[m] = Ng!Result(m)
    BY <1>1, <1>5
  <2>2. newsStatus'["trends"] = Ng!TrendsStatus
    BY <1>1, <1>5
  <2> QED BY <1>3, <1>4, <1>5, <2>1, <2>2 DEF Agree
<1>7. newsStatus' \in [Ng!Parts -> Ng!Statuses]
  <2>1. \A p \in Ng!Parts :
          (IF p = "trends" THEN Ng!TrendsStatus ELSE Ng!Result(p)) \in Ng!Statuses
    BY <1>3, <1>4, <1>5 DEF Ng!Statuses, Ng!Results
  <2> QED BY <1>1, <2>1
<1>8. PICK begun \in SUBSET {s \in Ng!Sources : newsFut[s] = "live"} :
         newsFut' = [s \in Ng!Sources |->
            IF newsFut[s] = "live" /\ s \notin begun THEN "cancelled" ELSE newsFut[s]]
  BY DEF Ng!Gathered
<1>9. newsFut' \in [Ng!Sources -> {"none", "live", "cancelled"} \cup Ng!Results]
  BY <1>8 DEF NewsInv, Ng!TypeOK
<1>10. PoolFits(newsFut', newsOrphans')
  <2>1. \A s \in Ng!Sources : newsFut'[s] = "live" => newsFut[s] = "live"
    BY <1>8
  <2>2. newsOrphans' = newsOrphans /\ newsOrphans \in Nat /\ newsOrphans <= newsOrphans
    BY <1>1 DEF NewsInv, PoolFits
  <2> QED BY <1>9, <2>1, <2>2, FewerLive DEF NewsInv
<1>11. Ng!TypeOK'
  BY <1>1, <1>2, <1>7, <1>9 DEF NewsInv, Ng!TypeOK
<1> QED BY <1>1, <1>6, <1>10, <1>11 DEF NewsInv, Ng!NothingInvented, Ng!MarkHasRefresh

LEMMA AnswerKeeps == ASSUME NewsInv, Ng!Answer PROVE NewsInv'
<1>1. /\ newsPc = "ask" /\ newsPc' = "end"
      /\ UNCHANGED <<newsForced, newsFut, newsOrphans, newsDone, newsStatus, newsUsed, newsRuns,
                     newsTitles, newsInflight, newsRefresh, newsExpiries>>
  BY DEF Ng!Answer, Ng!trend
<1>2. /\ newsBundle' \in {"empty", "summary", "parsing", "none"}
      /\ newsBundle' = "summary" => newsUsed # {}
      /\ newsStored' = newsStored \/ (newsUsed # {} /\ newsStored' = newsStored \cup {newsUsed})
  BY DEF Ng!Answer, Ng!Asks, Ng!Summarised
<1>3. /\ newsUsed \subseteq Ng!Sources /\ newsStored \subseteq SUBSET Ng!Sources
      /\ {} \notin newsStored
  BY DEF NewsInv, Ng!TypeOK, Ng!NothingInvented
<1>4. Ng!TypeOK'
  BY <1>1, <1>2, <1>3 DEF NewsInv, Ng!TypeOK
<1> QED BY <1>1, <1>2, <1>3, <1>4 DEF NewsInv, Ng!NothingInvented, Ng!MarkHasRefresh

\* A future ends with a result; the refreshes may move.
LEMMA EndsWell ==
    ASSUME NewsInv, NEW s \in Ng!Sources, newsFut[s] = "live",
           \E r \in Ng!Results : newsFut' = [newsFut EXCEPT ![s] = r],
           UNCHANGED <<newsPc, newsForced, newsOrphans, newsDone, newsStatus, newsUsed, newsBundle,
                       newsStored, newsRuns, newsExpiries>>,
           newsTitles' \in [Ng!Markets -> {"none", "rows", "empty"}],
           newsInflight' \subseteq Ng!Markets,
           newsRefresh' \in [Ng!Markets -> {"none", "submit", "queued", "built"}],
           Ng!MarkHasRefresh'
    PROVE  NewsInv'
<1>1. newsFut \in [Ng!Sources -> {"none", "live", "cancelled"} \cup Ng!Results]
  BY DEF NewsInv, Ng!TypeOK
<1>2. PICK r \in Ng!Results : newsFut' = [newsFut EXCEPT ![s] = r]
  OBVIOUS
<1>3. /\ newsFut' \in [Ng!Sources -> {"none", "live", "cancelled"} \cup Ng!Results]
      /\ \A t \in Ng!Sources : newsFut'[t] = IF t = s THEN r ELSE newsFut[t]
  BY <1>1, <1>2
<1>4. "live" \notin Ng!Results /\ "none" \notin Ng!Results
  BY DEF Ng!Results
<1>5. PoolFits(newsFut', newsOrphans')
  <2>1. \A t \in Ng!Sources : newsFut'[t] = "live" => newsFut[t] = "live"
    BY <1>3, <1>4
  <2>2. newsOrphans' = newsOrphans /\ newsOrphans \in Nat /\ newsOrphans <= newsOrphans
    BY DEF NewsInv, PoolFits
  <2>3. PoolFits(newsFut, newsOrphans)
    BY DEF NewsInv
  <2>4. newsFut' \in [Ng!Sources -> {"none", "live", "cancelled"} \cup Ng!Results]
    BY <1>3
  <2>5. PoolFits(newsFut', newsOrphans)
    BY ONLY <2>1, <2>2, <2>3, <2>4, FewerLive
  <2> QED BY <2>2, <2>5
<1>6. newsPc # "submit"
  BY DEF NewsInv
<1>7. newsPc = "told" => \A t \in newsDone : newsFut'[t] \in Ng!Results
  BY <1>2, <1>3 DEF NewsInv, Ng!TypeOK
<1>8. Ng!TypeOK'
  BY <1>3 DEF NewsInv, Ng!TypeOK
<1> QED BY <1>5, <1>6, <1>7, <1>8 DEF NewsInv, Ng!NothingInvented

LEMMA ContextKeeps == ASSUME NewsInv, NEW m \in Ng!Markets, Ng!Context(m) PROVE NewsInv'
<1>1. Ng!MarkHasRefresh'
  BY DEF NewsInv, Ng!MarkHasRefresh, Ng!Context, Ng!trend
<1>2. m \in Ng!Sources
  BY DEF Ng!Sources
<1> QED BY <1>1, <1>2, EndsWell DEF Ng!Context, Ng!trend, NewsInv, Ng!TypeOK

LEMMA TitlesKeep == ASSUME NewsInv, NEW s \in Ng!Trends, Ng!Titles(s) PROVE NewsInv'
<1> DEFINE m == Ng!MarketOf[s]
<1>1. m \in Ng!Markets /\ s \in Ng!Sources /\ newsFut[s] = "live"
  BY DEF Ng!MarketOf, Ng!Markets, Ng!Trends, Ng!Sources, Ng!Titles
<1>2. UNCHANGED <<newsPc, newsForced, newsOrphans, newsDone, newsStatus, newsUsed, newsBundle,
                  newsStored, newsRuns, newsExpiries>>
  BY DEF Ng!Titles, Ng!trend
<1>3. /\ newsTitles \in [Ng!Markets -> {"none", "rows", "empty"}]
      /\ newsInflight \subseteq Ng!Markets
      /\ newsRefresh \in [Ng!Markets -> {"none", "submit", "queued", "built"}]
      /\ \A n \in Ng!Markets : n \in newsInflight <=> newsRefresh[n] # "none"
  BY DEF NewsInv, Ng!TypeOK, Ng!MarkHasRefresh
<1> HIDE DEF m
<1>4. CASE newsTitles[m] # "none" /\ newsFut' = [newsFut EXCEPT ![s] = newsTitles[m]]
           /\ UNCHANGED Ng!trend
  <2>1. newsTitles[m] \in Ng!Results
    BY <1>1, <1>3, <1>4 DEF Ng!Results
  <2>2. UNCHANGED <<newsTitles, newsInflight, newsRefresh>>
    BY <1>4 DEF Ng!trend
  <2> QED BY <1>1, <1>2, <1>3, <1>4, <2>1, <2>2, EndsWell DEF Ng!MarkHasRefresh
<1>5. CASE /\ newsFut' = [newsFut EXCEPT ![s] = "rows"]
           /\ newsTitles' = [newsTitles EXCEPT ![m] = "rows"]
           /\ UNCHANGED <<newsInflight, newsRefresh, newsExpiries>>
  <2>1. "rows" \in Ng!Results /\ newsTitles' \in [Ng!Markets -> {"none", "rows", "empty"}]
    BY <1>3, <1>5 DEF Ng!Results
  <2> QED BY <1>1, <1>2, <1>3, <1>5, <2>1, EndsWell DEF Ng!MarkHasRefresh
<1>6. CASE /\ newsFut' = [newsFut EXCEPT ![s] = "empty"] /\ UNCHANGED newsTitles
           /\ IF m \in newsInflight THEN UNCHANGED <<newsInflight, newsRefresh>>
              ELSE /\ newsInflight' = newsInflight \cup {m}
                   /\ newsRefresh' = [newsRefresh EXCEPT ![m] = "submit"]
  <2>1. "empty" \in Ng!Results
    BY DEF Ng!Results
  <2>2. /\ newsInflight' \subseteq Ng!Markets
        /\ newsRefresh' \in [Ng!Markets -> {"none", "submit", "queued", "built"}]
        /\ \A n \in Ng!Markets : n \in newsInflight' <=> newsRefresh'[n] # "none"
    <3>1. CASE m \in newsInflight
      BY <1>3, <1>6, <3>1
    <3>2. CASE m \notin newsInflight
      BY <1>1, <1>3, <1>6, <3>2
    <3> QED BY <3>1, <3>2
  <2> QED BY <1>1, <1>2, <1>3, <1>6, <2>1, <2>2, EndsWell DEF Ng!MarkHasRefresh
<1> QED BY <1>4, <1>5, <1>6 DEF Ng!Titles, m

LEMMA OrphanKeeps == ASSUME NewsInv, Ng!OrphanEnds PROVE NewsInv'
<1>1. newsOrphans \in 0 .. NewsPool /\ newsOrphans' = newsOrphans - 1 /\ newsOrphans > 0
      /\ UNCHANGED <<newsPc, newsForced, newsFut, newsDone, newsStatus, newsUsed, newsBundle,
                     newsStored, newsRuns, newsTitles, newsInflight, newsRefresh, newsExpiries>>
  BY DEF NewsInv, Ng!TypeOK, Ng!OrphanEnds, Ng!trend
<1>2. newsOrphans' \in 0 .. NewsPool /\ newsOrphans' \in Nat /\ newsOrphans' <= newsOrphans
  BY <1>1, NewsAssumption
<1>3. PoolFits(newsFut, newsOrphans')
  BY <1>2, FewerLive DEF NewsInv, PoolFits
<1>4. Ng!TypeOK'
  BY <1>1, <1>2 DEF NewsInv, Ng!TypeOK
<1> QED BY <1>1, <1>3, <1>4 DEF NewsInv, Ng!NothingInvented, Ng!MarkHasRefresh

\* The refreshes of the titles move alone.
LEMMA RefreshKeeps ==
    ASSUME NewsInv, NEW m \in Ng!Markets,
           Ng!Schedule(m) \/ Ng!Rebuild(m) \/ Ng!Refreshed(m) \/ Ng!Expire(m)
    PROVE  NewsInv'
<1>1. /\ newsTitles \in [Ng!Markets -> {"none", "rows", "empty"}]
      /\ newsInflight \subseteq Ng!Markets /\ newsExpiries \in 0 .. TitleExpiries
      /\ newsRefresh \in [Ng!Markets -> {"none", "submit", "queued", "built"}]
      /\ \A n \in Ng!Markets : n \in newsInflight <=> newsRefresh[n] # "none"
  BY DEF NewsInv, Ng!TypeOK, Ng!MarkHasRefresh
<1>2. UNCHANGED <<newsPc, newsForced, newsFut, newsOrphans, newsDone, newsStatus, newsUsed,
                  newsBundle, newsStored, newsRuns>>
  BY DEF Ng!Schedule, Ng!Rebuild, Ng!Refreshed, Ng!Expire, Ng!gather
<1>3. /\ newsTitles' \in [Ng!Markets -> {"none", "rows", "empty"}]
      /\ newsInflight' \subseteq Ng!Markets /\ newsExpiries' \in 0 .. TitleExpiries
      /\ newsRefresh' \in [Ng!Markets -> {"none", "submit", "queued", "built"}]
      /\ \A n \in Ng!Markets : n \in newsInflight' <=> newsRefresh'[n] # "none"
  <2>1. CASE Ng!Schedule(m)
    <3>1. UNCHANGED <<newsTitles, newsExpiries>> /\ newsRefresh[m] = "submit"
      BY <2>1 DEF Ng!Schedule
    <3>2. \/ newsRefresh' = [newsRefresh EXCEPT ![m] = "queued"] /\ UNCHANGED newsInflight
          \/ newsRefresh' = [newsRefresh EXCEPT ![m] = "none"] /\ newsInflight' = newsInflight \ {m}
      BY <2>1 DEF Ng!Schedule, Ng!Unmarked
    <3> QED BY <1>1, <3>1, <3>2
  <2>2. CASE Ng!Rebuild(m)
    BY <1>1, <2>2 DEF Ng!Rebuild
  <2>3. CASE Ng!Refreshed(m)
    BY <1>1, <2>3 DEF Ng!Refreshed, Ng!Unmarked
  <2>4. CASE Ng!Expire(m)
    BY <1>1, <2>4, NewsAssumption DEF Ng!Expire
  <2> QED BY <2>1, <2>2, <2>3, <2>4
<1>4. Ng!TypeOK'
  BY <1>2, <1>3 DEF NewsInv, Ng!TypeOK
<1> QED BY <1>2, <1>3, <1>4 DEF NewsInv, Ng!NothingInvented, Ng!MarkHasRefresh

LEMMA InitNews == Ng!Init => NewsInv
<1> SUFFICES ASSUME Ng!Init PROVE NewsInv
  OBVIOUS
<1>1. PoolFits(newsFut, newsOrphans)
  <2>1. LiveIn(newsFut) = {}
    BY DEF Ng!Init, LiveIn
  <2>2. Cardinality(LiveIn(newsFut)) = 0
    BY <2>1, FS_EmptySet
  <2>3. newsOrphans \in 0 .. NewsPool
    BY DEF Ng!Init
  <2> QED BY <2>2, <2>3, NewsAssumption DEF Ng!Init, PoolFits
<1>2. newsStored \subseteq SUBSET Ng!Sources /\ {} \notin newsStored
  BY DEF Ng!Init, Ng!Sources, Ng!Markets
<1>3. Ng!TypeOK
  <2>1. newsOrphans \in 0 .. NewsPool /\ newsRuns \in 0 .. MaxNewsRuns
        /\ newsExpiries \in 0 .. TitleExpiries
    BY NewsAssumption DEF Ng!Init
  <2>2. newsStatus \in [Ng!Parts -> Ng!Statuses]
    BY DEF Ng!Init, Ng!Pending, Ng!Statuses
  <2> QED BY <1>2, <2>1, <2>2 DEF Ng!Init, Ng!TypeOK
<1> QED BY <1>1, <1>2, <1>3 DEF Ng!Init, NewsInv, Ng!NothingInvented, Ng!MarkHasRefresh

LEMMA NextNews == NewsInv /\ [Ng!Next]_Ng!vars => NewsInv'
<1> SUFFICES ASSUME NewsInv, [Ng!Next]_Ng!vars PROVE NewsInv'
  OBVIOUS
<1>1. CASE Ng!News
  BY <1>1, BeginKeeps, SubmitsKeep, WaitedKeeps, GatheredKeeps, AnswerKeeps DEF Ng!News
<1>2. CASE Ng!OrphanEnds
  BY <1>2, OrphanKeeps
<1>3. ASSUME NEW m \in Ng!Markets, \/ Ng!Context(m) \/ Ng!Schedule(m) \/ Ng!Rebuild(m)
                                   \/ Ng!Refreshed(m) \/ Ng!Expire(m)
      PROVE  NewsInv'
  BY <1>3, ContextKeeps, RefreshKeeps
<1>4. ASSUME NEW s \in Ng!Trends, Ng!Titles(s) PROVE NewsInv'
  BY <1>4, TitlesKeep
<1>5. CASE UNCHANGED Ng!vars
  BY <1>5 DEF Ng!vars, Ng!gather, Ng!trend, NewsInv, Ng!TypeOK, Ng!NothingInvented,
     Ng!MarkHasRefresh
<1> QED BY <1>1, <1>2, <1>3, <1>4, <1>5 DEF Ng!Next

\* What the page is told of a source is what the model was given of it, no
\* summary is drawn from nothing and a mark has its refresh: for any pool, any
\* number of runs and of expiries.
THEOREM StatusIsTrueHolds == Ng!Spec => []StatusIsTrue
<1>1. NewsInv => StatusIsTrue
  BY DEF NewsInv, StatusIsTrue, Ng!StatusIsTrue, Agree
<1> QED BY <1>1, InitNews, NextNews, PTL DEF Ng!Spec

-----------------------------------------------------------------------------
(* The tool calls.                                                         *)

BusyIn(t) == {i \in DOMAIN t : t[i] \in {"running", "waiting", "asking"}}
AskingIn(t) == {i \in DOMAIN t : t[i] = "asking"}
\* The calls of a turn on the workers and the history slots.
TasksOK(t) ==
    /\ \E n \in 0 .. CallsPerTurn : t \in [1 .. n -> Tl!Stages]
    /\ Cardinality(BusyIn(t)) <= ToolWorkers
    /\ Cardinality(AskingIn(t)) <= ToolHistorySlots
ToolsInv ==
    /\ toolsProvider \in {"mistral", "compat"} /\ toolsPc \in {"ask", "run", "final", "end"}
    /\ toolsRaised \in BOOLEAN /\ toolsTurn \in 0 .. ToolTurns
    /\ toolsPc \in {"ask", "run"} => toolsTurn < ToolTurns
    /\ toolsCalls \in Seq(CallShapes) /\ Len(toolsCalls) <= CallsPerTurn
    /\ TasksOK(toolsTask)
    /\ toolsPc = "run" => toolsSaid = [i \in 1 .. Len(toolsCalls) |-> i]
    /\ Tl!EveryCallAnswered

LEMMA ToolsCardinality == \A S : Tl!Cardinality(S) = Cardinality(S)
  BY DEF Tl!Cardinality, Cardinality

\* What the tool loop keeps of the calls is what Places says.
LEMMA ToolsItems == \A s, P : Tl!ItemsAt(s, P) = ItemsAt(s, P)
  BY Zenon DEF Tl!ItemsAt, ItemsAt, Tl!NthPlace, NthPlace, Tl!Cardinality, Cardinality

\* What is kept of the calls is calls, and few.
LEMMA ObjectsType ==
    ASSUME NEW n \in Nat, NEW asked \in [1 .. n -> CallShapes], NEW c \in 0 .. n
    PROVE  Tl!Objects(asked, c) \in Seq(CallShapes) /\ Len(Tl!Objects(asked, c)) <= c
<1> DEFINE S == {i \in 1 .. c : asked[i] # "junk"}
<1>1. asked \in Seq(CallShapes) /\ S \in SUBSET DOMAIN asked /\ S \in SUBSET (1 .. c)
  OBVIOUS
<1>2. Tl!Objects(asked, c) = ItemsAt(asked, S)
  BY ToolsItems DEF Tl!Objects
<1> HIDE DEF S
<1>3. ItemsAt(asked, S) \in Seq(CallShapes) /\ Len(ItemsAt(asked, S)) = Cardinality(S)
  BY <1>1, ItemsAre
<1>4. Cardinality(S) \in 0 .. c
  BY <1>1, Ranks
<1> QED BY <1>2, <1>3, <1>4

\* A task that is over, or not begun, frees its worker or leaves it.
LEMMA TaskMoves ==
    ASSUME TasksOK(toolsTask), NEW i \in DOMAIN toolsTask, NEW stage \in Tl!Stages,
           Tl!Moves(i, stage)
    PROVE  /\ \E n \in 0 .. CallsPerTurn : toolsTask' \in [1 .. n -> Tl!Stages]
           /\ DOMAIN toolsTask' = DOMAIN toolsTask
           /\ \A j \in DOMAIN toolsTask : toolsTask'[j] = IF j = i THEN stage ELSE toolsTask[j]
           /\ IsFiniteSet(BusyIn(toolsTask)) /\ IsFiniteSet(AskingIn(toolsTask))
<1>1. PICK n \in 0 .. CallsPerTurn : toolsTask \in [1 .. n -> Tl!Stages]
  BY DEF TasksOK
<1>2. toolsTask' = [toolsTask EXCEPT ![i] = stage]
  BY DEF Tl!Moves
<1>3. n \in Nat /\ IsFiniteSet(1 .. n)
  BY FS_Interval, ToolsAssumption
<1>4. BusyIn(toolsTask) \subseteq 1 .. n /\ AskingIn(toolsTask) \subseteq 1 .. n
  BY <1>1 DEF BusyIn, AskingIn
<1> QED BY <1>1, <1>2, <1>3, <1>4, FS_Subset

\* No more busy and no more asking than before.
LEMMA FewerBusy ==
    ASSUME TasksOK(toolsTask), NEW i \in DOMAIN toolsTask, NEW stage \in Tl!Stages,
           Tl!Moves(i, stage),
           stage \in {"running", "waiting", "asking"} =>
               toolsTask[i] \in {"running", "waiting", "asking"},
           stage # "asking"
    PROVE  TasksOK(toolsTask')
<1>1. /\ BusyIn(toolsTask') \subseteq BusyIn(toolsTask)
      /\ AskingIn(toolsTask') \subseteq AskingIn(toolsTask)
  BY TaskMoves DEF BusyIn, AskingIn
<1>2. /\ Cardinality(BusyIn(toolsTask')) <= Cardinality(BusyIn(toolsTask))
      /\ Cardinality(AskingIn(toolsTask')) <= Cardinality(AskingIn(toolsTask))
      /\ Cardinality(BusyIn(toolsTask')) \in Nat /\ Cardinality(BusyIn(toolsTask)) \in Nat
      /\ Cardinality(AskingIn(toolsTask')) \in Nat /\ Cardinality(AskingIn(toolsTask)) \in Nat
  BY <1>1, TaskMoves, FS_Subset, FS_CardinalityType
<1> QED BY <1>2, TaskMoves, ToolsAssumption DEF TasksOK

\* One more starts while a worker is free ...
LEMMA OneStarts ==
    ASSUME TasksOK(toolsTask), NEW i \in DOMAIN toolsTask, Tl!Moves(i, "running"),
           Cardinality(BusyIn(toolsTask)) < ToolWorkers
    PROVE  TasksOK(toolsTask')
<1>1. "running" \in Tl!Stages
  BY DEF Tl!Stages
<1>2. /\ BusyIn(toolsTask') \subseteq BusyIn(toolsTask) \cup {i}
      /\ AskingIn(toolsTask') \subseteq AskingIn(toolsTask)
  BY <1>1, TaskMoves DEF BusyIn, AskingIn
<1>3. IsFiniteSet(BusyIn(toolsTask)) /\ IsFiniteSet(AskingIn(toolsTask))
  BY <1>1, TaskMoves
<1>4. /\ IsFiniteSet(BusyIn(toolsTask) \cup {i})
      /\ Cardinality(BusyIn(toolsTask) \cup {i}) <= Cardinality(BusyIn(toolsTask)) + 1
      /\ Cardinality(BusyIn(toolsTask)) \in Nat
  <2>1. Cardinality(BusyIn(toolsTask)) \in Nat
    BY <1>3, FS_CardinalityType
  <2>2. /\ IsFiniteSet(BusyIn(toolsTask) \cup {i})
        /\ Cardinality(BusyIn(toolsTask) \cup {i}) =
              IF i \in BusyIn(toolsTask) THEN Cardinality(BusyIn(toolsTask))
              ELSE Cardinality(BusyIn(toolsTask)) + 1
    BY <1>3, FS_AddElement
  <2> QED BY <2>1, <2>2
<1>5. /\ Cardinality(BusyIn(toolsTask')) <= Cardinality(BusyIn(toolsTask) \cup {i})
      /\ Cardinality(AskingIn(toolsTask')) <= Cardinality(AskingIn(toolsTask))
      /\ Cardinality(BusyIn(toolsTask')) \in Nat /\ Cardinality(BusyIn(toolsTask) \cup {i}) \in Nat
      /\ Cardinality(AskingIn(toolsTask')) \in Nat /\ Cardinality(AskingIn(toolsTask)) \in Nat
  BY <1>2, <1>3, <1>4, FS_Subset, FS_CardinalityType
<1>6. /\ Cardinality(BusyIn(toolsTask')) <= ToolWorkers
      /\ Cardinality(AskingIn(toolsTask')) <= ToolHistorySlots
  BY <1>4, <1>5, ToolsAssumption DEF TasksOK
<1> QED BY <1>1, <1>6, TaskMoves DEF TasksOK

\* ... and one more asks while a slot is free.
LEMMA OneAsks ==
    ASSUME TasksOK(toolsTask), NEW i \in DOMAIN toolsTask, Tl!Moves(i, "asking"),
           toolsTask[i] = "waiting", Cardinality(AskingIn(toolsTask)) < ToolHistorySlots
    PROVE  TasksOK(toolsTask')
<1>1. "asking" \in Tl!Stages
  BY DEF Tl!Stages
<1>2. /\ BusyIn(toolsTask') \subseteq BusyIn(toolsTask)
      /\ AskingIn(toolsTask') \subseteq AskingIn(toolsTask) \cup {i}
  BY <1>1, TaskMoves DEF BusyIn, AskingIn
<1>3. IsFiniteSet(BusyIn(toolsTask)) /\ IsFiniteSet(AskingIn(toolsTask))
  BY <1>1, TaskMoves
<1>4. /\ IsFiniteSet(AskingIn(toolsTask) \cup {i})
      /\ Cardinality(AskingIn(toolsTask) \cup {i}) <= Cardinality(AskingIn(toolsTask)) + 1
      /\ Cardinality(AskingIn(toolsTask)) \in Nat
  <2>1. Cardinality(AskingIn(toolsTask)) \in Nat
    BY <1>3, FS_CardinalityType
  <2>2. /\ IsFiniteSet(AskingIn(toolsTask) \cup {i})
        /\ Cardinality(AskingIn(toolsTask) \cup {i}) =
              IF i \in AskingIn(toolsTask) THEN Cardinality(AskingIn(toolsTask))
              ELSE Cardinality(AskingIn(toolsTask)) + 1
    BY <1>3, FS_AddElement
  <2> QED BY <2>1, <2>2
<1>5. /\ Cardinality(AskingIn(toolsTask')) <= Cardinality(AskingIn(toolsTask) \cup {i})
      /\ Cardinality(BusyIn(toolsTask')) <= Cardinality(BusyIn(toolsTask))
      /\ Cardinality(AskingIn(toolsTask')) \in Nat
      /\ Cardinality(AskingIn(toolsTask) \cup {i}) \in Nat
      /\ Cardinality(BusyIn(toolsTask')) \in Nat /\ Cardinality(BusyIn(toolsTask)) \in Nat
  BY <1>2, <1>3, <1>4, FS_Subset, FS_CardinalityType
<1>6. /\ Cardinality(BusyIn(toolsTask')) <= ToolWorkers
      /\ Cardinality(AskingIn(toolsTask')) <= ToolHistorySlots
  BY <1>4, <1>5, ToolsAssumption DEF TasksOK
<1> QED BY <1>1, <1>6, TaskMoves DEF TasksOK

LEMMA ToolKeeps == ASSUME ToolsInv, NEW i \in DOMAIN toolsTask, Tl!Tool(i) PROVE ToolsInv'
<1>1. PICK stage \in Tl!Stages : Tl!Moves(i, stage)
  BY DEF Tl!Tool, Tl!Starts, Tl!Executes, Tl!Needs, Tl!GetsSlot, Tl!TimesOut, Tl!Fetched, Tl!Stages
<1>2. toolsPc = "run" /\ toolsRaised' \in BOOLEAN
  BY DEF Tl!Tool, Tl!Starts, Tl!Executes, Tl!Needs, Tl!GetsSlot, Tl!TimesOut, Tl!Fetched, ToolsInv
<1>3. TasksOK(toolsTask)
  BY DEF ToolsInv
<1>4. TasksOK(toolsTask')
  <2>1. CASE Tl!Starts(i)
    <3>1. Cardinality(BusyIn(toolsTask)) < ToolWorkers
      BY <2>1, ToolsCardinality DEF Tl!Starts, Tl!Busy, BusyIn
    <3> QED BY <1>3, <2>1, <3>1, OneStarts DEF Tl!Starts
  <2>2. CASE Tl!GetsSlot(i)
    <3>1. Cardinality(AskingIn(toolsTask)) < ToolHistorySlots
      BY <2>2, ToolsCardinality DEF Tl!GetsSlot, AskingIn
    <3> QED BY <1>3, <2>2, <3>1, OneAsks DEF Tl!GetsSlot
  <2>3. CASE Tl!Executes(i) \/ Tl!Needs(i) \/ Tl!TimesOut(i) \/ Tl!Fetched(i)
    <3>1. \/ Tl!Moves(i, "done") \/ (Tl!Moves(i, "waiting") /\ toolsTask[i] = "running")
      BY <2>3 DEF Tl!Executes, Tl!Needs, Tl!TimesOut, Tl!Fetched
    <3>2. "done" \in Tl!Stages /\ "waiting" \in Tl!Stages
      BY DEF Tl!Stages
    <3> QED BY <1>3, <3>1, <3>2, FewerBusy
  <2> QED BY <2>1, <2>2, <2>3 DEF Tl!Tool
<1> QED BY <1>1, <1>2, <1>4 DEF ToolsInv, Tl!Moves, Tl!EveryCallAnswered

\* No task: nobody is busy.
LEMMA NoTask == TasksOK(<<>>)
<1>1. BusyIn(<<>>) = {} /\ AskingIn(<<>>) = {}
  BY DEF BusyIn, AskingIn
<1>2. <<>> \in [1 .. 0 -> Tl!Stages] /\ 0 \in 0 .. CallsPerTurn
  BY ToolsAssumption
<1>3. \E n \in 0 .. CallsPerTurn : <<>> \in [1 .. n -> Tl!Stages]
  BY <1>2
<1>4. Cardinality(BusyIn(<<>>)) <= ToolWorkers /\ Cardinality(AskingIn(<<>>)) <= ToolHistorySlots
  BY <1>1, FS_EmptySet, ToolsAssumption
<1> QED BY <1>3, <1>4 DEF TasksOK

LEMMA TextKeeps == ASSUME ToolsInv, Tl!AnswersText PROVE ToolsInv'
  BY DEF ToolsInv, Tl!AnswersText, Tl!Ended, Tl!EveryCallAnswered

LEMMA SynthesisKeeps == ASSUME ToolsInv, Tl!Synthesis PROVE ToolsInv'
  BY DEF ToolsInv, Tl!Synthesis, Tl!Ended, Tl!EveryCallAnswered

LEMMA AppendsKeeps == ASSUME ToolsInv, Tl!Appends PROVE ToolsInv'
<1>1. /\ toolsPc = "run" /\ toolsTask' = <<>>
      /\ UNCHANGED <<toolsProvider, toolsCalls, toolsSaid, toolsRaised>>
  BY DEF Tl!Appends
<1>2. TasksOK(toolsTask')
  BY <1>1, NoTask
<1>3. CASE toolsRaised
  BY <1>1, <1>2, <1>3 DEF ToolsInv, Tl!Appends, Tl!EveryCallAnswered
<1>4. CASE ~toolsRaised
  <2>0. \A i \in DOMAIN toolsCalls : Tl!ToldId(i) = i
    BY ToolsAssumption DEF ToolsInv, Tl!ToldId
  <2>1. /\ toolsTold' = [i \in DOMAIN toolsCalls |-> i] /\ toolsTurn' = toolsTurn + 1
        /\ toolsPc' = IF toolsTurn + 1 = ToolTurns THEN "final" ELSE "ask"
    BY <1>4, <2>0 DEF Tl!Appends, Tl!OutOfTurns
  <2>2. toolsTurn \in 0 .. ToolTurns /\ toolsTurn < ToolTurns
    BY <1>1 DEF ToolsInv
  <2>3. toolsTurn' \in 0 .. ToolTurns /\ (toolsPc' = "ask" => toolsTurn' < ToolTurns)
    BY <2>1, <2>2, ToolsAssumption
  <2>4. toolsSaid' = toolsTold'
    BY <1>1, <2>1 DEF ToolsInv
  <2>5. toolsPc' \in {"ask", "final"}
    BY <2>1
  <2> QED BY <1>1, <1>2, <2>3, <2>4, <2>5 DEF ToolsInv, Tl!EveryCallAnswered
<1> QED BY <1>3, <1>4

\* The message the model is sent back names each call that is kept, once.
LEMMA CallsKeep == ASSUME ToolsInv, Tl!AnswersCalls PROVE ToolsInv'
<1>1. PICK n \in 1 .. CallsPerTurn + 1 : \E asked \in [1 .. n -> CallShapes] :
         IF Tl!Refused(asked) THEN Tl!Ended
         ELSE /\ toolsCalls' = Tl!Kept(asked) /\ toolsSaid' = Tl!Message(asked)
              /\ toolsTold' = <<>>
              /\ toolsTask' = [i \in DOMAIN Tl!Kept(asked) |-> "new"]
              /\ toolsPc' = "run" /\ UNCHANGED toolsRaised
  BY DEF Tl!AnswersCalls
<1>2. PICK asked \in [1 .. n -> CallShapes] :
         IF Tl!Refused(asked) THEN Tl!Ended
         ELSE /\ toolsCalls' = Tl!Kept(asked) /\ toolsSaid' = Tl!Message(asked)
              /\ toolsTold' = <<>>
              /\ toolsTask' = [i \in DOMAIN Tl!Kept(asked) |-> "new"]
              /\ toolsPc' = "run" /\ UNCHANGED toolsRaised
  BY <1>1
<1>3. toolsPc = "ask" /\ UNCHANGED <<toolsProvider, toolsTurn>>
  BY DEF Tl!AnswersCalls
<1>4. CASE Tl!Refused(asked)
  BY <1>2, <1>3, <1>4 DEF ToolsInv, Tl!Ended, Tl!EveryCallAnswered
<1>5. CASE ~Tl!Refused(asked)
  <2>1. n \in Nat /\ CallsPerTurn \in Nat /\ asked \in Seq(CallShapes) /\ Len(asked) = n
    BY ToolsAssumption
  <2>2. Tl!Kept(asked) \in Seq(CallShapes) /\ Len(Tl!Kept(asked)) <= CallsPerTurn
    <3>1. CASE toolsProvider = "mistral"
      BY <1>5, <2>1, <3>1 DEF Tl!Kept, Tl!Refused
    <3>2. CASE toolsProvider # "mistral"
      <4>1. Tl!Cut(asked) \in 0 .. n /\ Tl!Cut(asked) <= CallsPerTurn
        BY <2>1 DEF Tl!Cut
      <4>2. /\ Tl!Objects(asked, Tl!Cut(asked)) \in Seq(CallShapes)
            /\ Len(Tl!Objects(asked, Tl!Cut(asked))) <= Tl!Cut(asked)
        BY <2>1, <4>1, ObjectsType
      <4>3. Len(Tl!Objects(asked, Tl!Cut(asked))) \in Nat
        BY <4>2
      <4> QED BY <2>1, <3>2, <4>1, <4>2, <4>3 DEF Tl!Kept
    <3> QED BY <3>1, <3>2
  <2> DEFINE k == Tl!Kept(asked)
  <2>3. /\ toolsCalls' = k /\ toolsPc' = "run" /\ UNCHANGED toolsRaised
        /\ toolsSaid' = Tl!Message(asked) /\ toolsTask' = [i \in DOMAIN k |-> "new"]
    BY <1>2, <1>5
  <2>4. DOMAIN k = 1 .. Len(k) /\ Len(k) \in 0 .. CallsPerTurn
    BY <2>1, <2>2
  <2>5. toolsSaid' = [i \in 1 .. Len(toolsCalls') |-> i]
    <3>1. \A i \in 1 .. Len(k) : k[i] # "bare"
      BY <2>2, <2>4, ToolsAssumption
    <3>2. Tl!Message(asked) = [i \in 1 .. Len(k) |-> IF k[i] = "bare" THEN 0 ELSE i]
      BY <2>4 DEF Tl!Message, Tl!SaidId
    <3> HIDE DEF k
    <3> QED BY <2>3, <3>1, <3>2
  <2>6. TasksOK(toolsTask')
    <3>1. "new" \in Tl!Stages
      BY DEF Tl!Stages
    <3>2. toolsTask' \in [1 .. Len(k) -> Tl!Stages]
      BY <2>3, <2>4, <3>1
    <3>3. BusyIn(toolsTask') = {} /\ AskingIn(toolsTask') = {}
      BY <2>3 DEF BusyIn, AskingIn
    <3> HIDE DEF k
    <3>4. \E c \in 0 .. CallsPerTurn : toolsTask' \in [1 .. c -> Tl!Stages]
      BY <2>4, <3>2
    <3>5. /\ Cardinality(BusyIn(toolsTask')) <= ToolWorkers
          /\ Cardinality(AskingIn(toolsTask')) <= ToolHistorySlots
      BY <3>3, FS_EmptySet, ToolsAssumption
    <3> QED BY <3>4, <3>5 DEF TasksOK
  <2> HIDE DEF k
  <2>7. toolsCalls' \in Seq(CallShapes) /\ Len(toolsCalls') <= CallsPerTurn
    BY <2>2, <2>3 DEF k
  <2> QED BY <1>3, <2>3, <2>5, <2>6, <2>7 DEF ToolsInv, Tl!EveryCallAnswered
<1> QED BY <1>4, <1>5

LEMMA InitTools == Tl!Init => ToolsInv
<1> SUFFICES ASSUME Tl!Init PROVE ToolsInv
  OBVIOUS
<1>1. TasksOK(toolsTask)
  BY NoTask DEF Tl!Init
<1>2. toolsTurn \in 0 .. ToolTurns /\ toolsTurn < ToolTurns
  BY ToolsAssumption DEF Tl!Init
<1>3. toolsCalls \in Seq(CallShapes) /\ Len(toolsCalls) <= CallsPerTurn
  BY ToolsAssumption DEF Tl!Init
<1> QED BY <1>1, <1>2, <1>3 DEF Tl!Init, ToolsInv, Tl!EveryCallAnswered

LEMMA NextTools == ToolsInv /\ [Tl!Next]_Tl!vars => ToolsInv'
<1> SUFFICES ASSUME ToolsInv, [Tl!Next]_Tl!vars PROVE ToolsInv'
  OBVIOUS
<1>1. CASE UNCHANGED Tl!vars
  BY <1>1 DEF Tl!vars, ToolsInv, Tl!EveryCallAnswered
<1> QED BY <1>1, TextKeeps, CallsKeep, AppendsKeeps, SynthesisKeeps, ToolKeeps DEF Tl!Next

LEMMA ToolsInvGives == ToolsInv => EveryCallAnswered
<1> SUFFICES ASSUME ToolsInv PROVE EveryCallAnswered
  OBVIOUS
<1>1. PICK n \in 0 .. CallsPerTurn : toolsTask \in [1 .. n -> Tl!Stages]
  BY DEF ToolsInv, TasksOK
<1>2. \A i \in DOMAIN toolsTask : toolsTask[i] \in Tl!Stages
  BY <1>1
<1>3. \A i \in DOMAIN toolsCalls : toolsCalls[i] \in Tl!AllShapes
  <2>1. toolsCalls \in Seq(CallShapes) /\ CallShapes \subseteq Tl!AllShapes
    BY ToolsAssumption DEF ToolsInv, Tl!AllShapes
  <2> QED BY <2>1
<1>4. /\ Tl!Cardinality({i \in DOMAIN toolsTask :
                           toolsTask[i] \in {"running", "waiting", "asking"}})
            <= ToolWorkers
      /\ Tl!Cardinality({i \in DOMAIN toolsTask : toolsTask[i] = "asking"}) <= ToolHistorySlots
  BY ToolsCardinality DEF ToolsInv, TasksOK, BusyIn, AskingIn
<1> QED BY <1>2, <1>3, <1>4 DEF ToolsInv, EveryCallAnswered, Tl!TypeOK

\* When the model is asked again, its message with the calls is followed by one
\* answer for each, under its id: for any number of turns, of calls, of workers
\* and of history slots, when every call has an id that need not be cut.
THEOREM EveryCallAnsweredHolds == Tl!Spec => []EveryCallAnswered
<1>1. ToolsInv => EveryCallAnswered
  BY ToolsInvGives
<1> QED BY <1>1, InitTools, NextTools, PTL DEF Tl!Spec

(***************************************************************************)
(* The search.  Who sleeps is due not before now nor after its deadline;   *)
(* slots reserved are an interval apart, from one another and from the     *)
(* last request; a claimed probe is owned by a search in its query.        *)
(***************************************************************************)
SearchStages == {"idle", "query", "attempt", "ddgs", "collect", "tavily", "done"} \cup Se!Asleep
SearchCircuit ==
    [status : {"CLOSED", "OPEN", "HALF_OPEN"}, streak : 0 .. FailuresToOpen,
     until : Nat, probing : BOOLEAN]
SearchFunctions ==
    /\ searchPc \in [Searchers -> SearchStages] /\ searchPlan \in [Searchers -> SearchPlans]
    /\ searchDeadline \in [Searchers -> Nat] /\ searchWake \in [Searchers -> Nat]
    /\ searchQuery \in [Searchers -> 1 .. SearchQueries + 1]
    /\ searchTries \in [Searchers -> 0 .. SearchTries] /\ searchGot \in [Searchers -> 0 .. Se!Most]
    /\ searchOwns \in [Searchers -> BOOLEAN]
SearchRest ==
    /\ searchNow \in 0 .. Se!Horizon /\ searchNext \in Nat /\ searchCircuit \in SearchCircuit
    /\ searchLastSent \in 0 .. Se!Horizon + SearchInterval
    /\ searchJob \in [Searchers -> [Se!QueryIds -> Se!JobStages]]
    /\ searchShutdowns \in 0 .. DdgsShutdowns

InQuery == {"attempt", "slot", "sent", "back"}
SearcherOK(w) ==
    /\ searchPc[w] \in InQuery => searchQuery[w] <= SearchQueries
    /\ searchOwns[w] => searchPc[w] \in InQuery
    /\ searchPc[w] \in Se!Asleep => searchNow <= searchWake[w] /\ searchWake[w] <= searchDeadline[w]
SearchersOK == \A w \in Searchers : SearcherOK(w)
Spaced ==
    /\ searchLastSent <= searchNext
    /\ \A w \in Searchers : searchPc[w] = "slot" =>
          searchLastSent <= searchWake[w] /\ searchWake[w] + SearchInterval <= searchNext
    /\ \A v, w \in Searchers : searchPc[v] = "slot" /\ searchPc[w] = "slot" /\ v # w =>
          \/ searchWake[v] + SearchInterval <= searchWake[w]
          \/ searchWake[w] + SearchInterval <= searchWake[v]
SearchInv == SearchFunctions /\ SearchRest /\ SearchersOK /\ Spaced /\ Se!ProbeHasSearch

LEMMA SearchTypes == SearchInv => Se!TypeOK
  BY DEF SearchInv, SearchFunctions, SearchRest, SearchStages, SearchCircuit, Se!TypeOK

LEMMA SearchConstants ==
    /\ Se!Horizon \in Nat /\ Se!Most \in Nat /\ EnoughResults <= Se!Most
    /\ \A a, b \in Nat : Se!Least(a, b) \in Nat /\ Se!Least(a, b) <= a /\ Se!Least(a, b) <= b
    /\ \A a, b \in Nat : Se!Largest(a, b) \in Nat /\ Se!Largest(a, b) >= a /\ Se!Largest(a, b) >= b
    /\ \A n \in Nat : Se!Backoff(n) \in Nat
  BY SearchAssumption DEF Se!Horizon, Se!Most, Se!Least, Se!Largest, Se!Backoff

\* What the circuit may be left as claims no probe that was not claimed.
LEMMA SearchStates ==
    ASSUME SearchInv, NEW state \in {searchCircuit, Se!Asked, Se!Failed, Se!Closed}
    PROVE  /\ state \in SearchCircuit /\ (state.probing => searchCircuit.probing)
           /\ [state EXCEPT !.probing = FALSE] \in SearchCircuit
           /\ ~[state EXCEPT !.probing = FALSE].probing
<1> USE SearchAssumption
<1>1. searchCircuit \in SearchCircuit /\ searchNow \in Nat /\ searchNow + OpenSeconds \in Nat
  BY SearchConstants DEF SearchInv, SearchRest
<1>2. Se!Asked \in SearchCircuit /\ (Se!Asked.probing => searchCircuit.probing)
  <2>1. [searchCircuit EXCEPT !.status = "HALF_OPEN"] \in SearchCircuit
        /\ [searchCircuit EXCEPT !.status = "HALF_OPEN"].probing = searchCircuit.probing
    BY <1>1 DEF SearchCircuit
  <2> QED BY <1>1, <2>1 DEF Se!Asked
<1>3. Se!Failed \in SearchCircuit /\ (Se!Failed.probing => searchCircuit.probing)
  <2>1. CASE searchCircuit.status = "HALF_OPEN" \/ searchCircuit.streak + 1 >= FailuresToOpen
    BY <1>1, <2>1 DEF Se!Failed, SearchCircuit
  <2>2. CASE ~(searchCircuit.status = "HALF_OPEN" \/ searchCircuit.streak + 1 >= FailuresToOpen)
    <3>1. searchCircuit.streak + 1 \in 0 .. FailuresToOpen
      BY <1>1, <2>2 DEF SearchCircuit
    <3>2. LET new == [searchCircuit EXCEPT !.streak = searchCircuit.streak + 1]
          IN new \in SearchCircuit /\ new.probing = searchCircuit.probing
      BY <1>1, <3>1 DEF SearchCircuit
    <3> QED BY <2>2, <3>2 DEF Se!Failed
  <2> QED BY <2>1, <2>2
<1>4. Se!Closed \in SearchCircuit /\ ~Se!Closed.probing
  BY DEF Se!Closed, SearchCircuit
<1>5. \A c \in SearchCircuit : /\ [c EXCEPT !.probing = FALSE] \in SearchCircuit
                               /\ ~[c EXCEPT !.probing = FALSE].probing
  BY DEF SearchCircuit
<1> QED BY <1>1, <1>2, <1>3, <1>4, <1>5

\* A step of w is about w alone ...
OnlyOf(w) ==
    /\ searchPc' = [searchPc EXCEPT ![w] = searchPc'[w]]
    /\ searchDeadline' = [searchDeadline EXCEPT ![w] = searchDeadline'[w]]
    /\ searchQuery' = [searchQuery EXCEPT ![w] = searchQuery'[w]]
    /\ searchTries' = [searchTries EXCEPT ![w] = searchTries'[w]]
    /\ searchGot' = [searchGot EXCEPT ![w] = searchGot'[w]]
    /\ searchWake' = [searchWake EXCEPT ![w] = searchWake'[w]]
    /\ searchOwns' = [searchOwns EXCEPT ![w] = searchOwns'[w]]

\* ... and leaves it well: the types, and what SearcherOK says.
LeavesWell(w) ==
    /\ searchPc'[w] \in SearchStages /\ searchDeadline'[w] \in Nat /\ searchWake'[w] \in Nat
    /\ searchQuery'[w] \in 1 .. SearchQueries + 1 /\ searchTries'[w] \in 0 .. SearchTries
    /\ searchGot'[w] \in 0 .. Se!Most /\ searchOwns'[w] \in BOOLEAN
    /\ searchPc'[w] \in InQuery => searchQuery'[w] <= SearchQueries
    /\ searchOwns'[w] => searchPc'[w] \in InQuery
    /\ searchPc'[w] \in Se!Asleep =>
            searchNow <= searchWake'[w] /\ searchWake'[w] <= searchDeadline'[w]
    /\ searchCircuit' \in SearchCircuit
    /\ searchCircuit'.probing => searchOwns'[w] \/ (searchCircuit.probing /\ ~searchOwns[w])

LEMMA Searcher ==
    ASSUME SearchInv, NEW w \in Searchers
    PROVE  /\ searchPc \in [Searchers -> SearchStages] /\ searchDeadline \in [Searchers -> Nat]
           /\ searchQuery \in [Searchers -> 1 .. SearchQueries + 1]
           /\ searchTries \in [Searchers -> 0 .. SearchTries]
           /\ searchGot \in [Searchers -> 0 .. Se!Most] /\ searchWake \in [Searchers -> Nat]
           /\ searchOwns \in [Searchers -> BOOLEAN]
           /\ SearcherOK(w) /\ searchNow \in Nat /\ searchNow <= Se!Horizon /\ searchNext \in Nat
           /\ searchLastSent \in 0 .. Se!Horizon + SearchInterval
<1>1. SearchFunctions /\ SearchRest /\ SearchersOK
  BY DEF SearchInv
<1>2. /\ searchNow \in Nat /\ searchNow <= Se!Horizon /\ searchNext \in Nat
      /\ searchLastSent \in 0 .. Se!Horizon + SearchInterval
  BY <1>1, SearchConstants DEF SearchRest
<1>3. SearcherOK(w)
  BY <1>1 DEF SearchersOK
<1> QED BY <1>1, <1>2, <1>3 DEF SearchFunctions

LEMMA QueryEndsWell ==
    ASSUME SearchInv, NEW w \in Searchers, NEW n \in Nat,
           NEW state \in {searchCircuit, Se!Asked, Se!Failed, Se!Closed},
           Se!QueryEnds(w, n, state), searchQuery[w] <= SearchQueries,
           UNCHANGED <<searchNow, searchDeadline>>
    PROVE  OnlyOf(w) /\ LeavesWell(w) /\ searchPc'[w] = "query"
<1> USE SearchAssumption
<1>1. searchCircuit' \in SearchCircuit
      /\ (searchCircuit'.probing => searchCircuit.probing /\ ~searchOwns[w])
  BY SearchStates DEF Se!QueryEnds, Se!GivesBack
<1>2. OnlyOf(w)
  BY Searcher DEF Se!QueryEnds, Se!Adds, Se!Goto, OnlyOf
<1>3. /\ searchPc'[w] = "query" /\ searchOwns'[w] = FALSE
      /\ searchWake'[w] = 0 /\ searchTries'[w] = 0
      /\ searchDeadline'[w] = searchDeadline[w]
      /\ searchQuery'[w] = searchQuery[w] + 1
      /\ searchGot'[w] = Se!Least(Se!Most, searchGot[w] + n)
  BY Searcher DEF Se!QueryEnds, Se!Adds, Se!Goto
<1>4. searchGot'[w] \in 0 .. Se!Most /\ searchQuery'[w] \in 1 .. SearchQueries + 1
  <2>1. searchGot[w] + n \in Nat /\ Se!Most \in Nat /\ searchQuery[w] \in 1 .. SearchQueries + 1
    <3>1. searchGot[w] \in 0 .. Se!Most /\ searchQuery[w] \in 1 .. SearchQueries + 1
      BY Searcher
    <3>2. Se!Most \in Nat
      BY SearchConstants
    <3> QED BY <3>1, <3>2
  <2>2. /\ Se!Least(Se!Most, searchGot[w] + n) \in Nat
        /\ Se!Least(Se!Most, searchGot[w] + n) <= Se!Most
    BY <2>1, SearchConstants
  <2> QED BY <1>3, <2>1, <2>2
<1>5. "query" \in SearchStages /\ "query" \notin InQuery /\ "query" \notin Se!Asleep
  BY DEF SearchStages, InQuery, Se!Asleep
<1>6. searchDeadline[w] \in Nat /\ 0 \in 0 .. SearchTries
  BY Searcher
<1>7. /\ searchPc'[w] \in SearchStages /\ searchPc'[w] \notin InQuery
      /\ searchPc'[w] \notin Se!Asleep
  BY <1>3, <1>5
<1>8. /\ searchOwns'[w] \in BOOLEAN /\ ~searchOwns'[w] /\ searchWake'[w] \in Nat
      /\ searchDeadline'[w] \in Nat /\ searchTries'[w] \in 0 .. SearchTries
  <2>1. searchOwns'[w] \in BOOLEAN /\ ~searchOwns'[w]
    BY <1>3, Zenon
  <2> QED BY <1>3, <1>6, <2>1
<1> QED BY <1>1, <1>2, <1>3, <1>4, <1>7, <1>8 DEF LeavesWell

LEMMA AttemptFailsWell ==
    ASSUME SearchInv, NEW w \in Searchers, searchPc[w] \in InQuery,
           NEW state \in {searchCircuit, Se!Asked, Se!Failed, Se!Closed},
           Se!AttemptFails(w, state), UNCHANGED <<searchNow, searchDeadline>>
    PROVE  OnlyOf(w) /\ LeavesWell(w) /\ searchPc'[w] \notin {"slot", "sent"}
<1> USE SearchAssumption
<1>1. CASE Se!Retries(w)
  <2>1. /\ searchPc' = [searchPc EXCEPT ![w] = "back"]
        /\ searchTries' = [searchTries EXCEPT ![w] = searchTries[w] + 1]
        /\ searchWake' = [searchWake EXCEPT ![w] = searchNow + Se!Backoff(searchTries[w] + 1)]
        /\ searchCircuit' = state
         /\ UNCHANGED <<searchOwns, searchGot, searchQuery, searchDeadline>>
        /\ searchTries[w] + 1 < SearchTries
        /\ searchNow + Se!Backoff(searchTries[w] + 1) < searchDeadline[w]
    BY <1>1 DEF Se!AttemptFails, Se!Retries, Se!Goto
  <2>2. OnlyOf(w)
    BY <2>1, Searcher DEF OnlyOf
  <2>3. Se!Backoff(searchTries[w] + 1) \in Nat
    <3>1. searchTries[w] + 1 \in Nat
      BY Searcher
    <3> QED BY <3>1, SearchConstants
  <2>4. /\ searchPc'[w] = "back" /\ searchTries'[w] \in 0 .. SearchTries
        /\ searchWake'[w] \in Nat
         /\ searchNow <= searchWake'[w] /\ searchWake'[w] <= searchDeadline'[w]
    BY <2>1, <2>3, Searcher
  <2>5. "back" \in SearchStages /\ "back" \in InQuery
    BY DEF SearchStages, InQuery, Se!Asleep
  <2>6. state \in SearchCircuit /\ (state.probing => searchCircuit.probing)
    BY SearchStates
  <2> QED BY <2>1, <2>2, <2>4, <2>5, <2>6, Searcher DEF LeavesWell, SearcherOK
<1>2. CASE ~Se!Retries(w)
  <2>1. Se!QueryEnds(w, 0, state)
    BY <1>2 DEF Se!AttemptFails
  <2> QED BY <2>1, Searcher, QueryEndsWell DEF SearcherOK
<1> QED BY <1>1, <1>2

\* What the step is to the slots: it takes none, reserves one behind all, or
\* sends the request of one that is due.
SpacedMove(w) ==
    \/ UNCHANGED <<searchPc, searchWake, searchNext, searchLastSent>>
    \/ /\ searchPc'[w] \notin {"slot", "sent"} /\ searchLastSent' = searchLastSent
       /\ searchNext' \in Nat /\ searchNext' >= searchNext
    \/ /\ searchPc'[w] = "slot" /\ searchLastSent' = searchLastSent
       /\ searchWake'[w] >= searchNext /\ searchNext' = searchWake'[w] + SearchInterval
    \/ /\ searchPc[w] = "slot" /\ searchPc'[w] = "sent" /\ searchNext' = searchNext
       /\ searchWake[w] = searchNow /\ searchLastSent' = searchNow + SearchInterval

SearcherMoves(w) ==
    /\ OnlyOf(w) /\ LeavesWell(w) /\ SpacedMove(w)
    /\ UNCHANGED <<searchNow, searchPlan, searchShutdowns>>
    /\ searchJob' \in [Searchers -> [Se!QueryIds -> Se!JobStages]]

\* The start and the end of LangSearch, the test before a query.
LEMMA EdgesMove ==
    ASSUME SearchInv, NEW w \in Searchers, Se!Start(w) \/ Se!LangSearchEnds(w) \/ Se!Post(w)
    PROVE  SearcherMoves(w)
<1> USE SearchAssumption
<1>1. SearchRest
  BY DEF SearchInv
<1>2. CASE Se!Start(w)
  <2>1. /\ searchPc' = [searchPc EXCEPT ![w] = searchPc'[w]] /\ searchPc'[w] \in {"query", "ddgs"}
        /\ searchDeadline' = [searchDeadline EXCEPT ![w] = searchDeadline'[w]]
        /\ searchDeadline'[w] \in Nat
    BY <1>2, Searcher DEF Se!Start, Se!Goto
  <2>2. OnlyOf(w)
    BY <1>2, <2>1, Searcher DEF Se!Start, Se!lang, OnlyOf
  <2>3. searchPc'[w] \in SearchStages /\ searchPc'[w] \notin InQuery
        /\ searchPc'[w] \notin Se!Asleep
        /\ searchPc[w] \notin InQuery
    BY <1>2, <2>1 DEF Se!Start, SearchStages, InQuery, Se!Asleep
  <2>4. ~searchOwns[w]
    BY <2>3, Searcher DEF SearcherOK
  <2>5. LeavesWell(w)
    BY <1>1, <1>2, <2>1, <2>3, <2>4, Searcher DEF Se!Start, Se!lang, SearchRest, LeavesWell
  <2> QED BY <1>1, <1>2, <2>1, <2>2, <2>5
         DEF Se!Start, Se!lang, Se!ddgs, SearchRest, SearcherMoves, SpacedMove
<1>3. CASE Se!LangSearchEnds(w)
  <2>1. /\ searchPc' = [searchPc EXCEPT ![w] = searchPc'[w]] /\ searchPc'[w] \in {"done", "ddgs"}
        /\ searchDeadline' = [searchDeadline EXCEPT ![w] = 0]
        /\ searchQuery' = [searchQuery EXCEPT ![w] = 1]
        /\ searchGot' = [searchGot EXCEPT ![w] = Se!Least(searchGot[w], EnoughResults)]
        /\ searchPc[w] = "query"
    BY <1>3, Searcher DEF Se!LangSearchEnds, Se!Goto
  <2>2. OnlyOf(w)
    BY <1>3, <2>1, Searcher DEF Se!LangSearchEnds, Se!lang, OnlyOf
  <2>3. searchPc'[w] \in SearchStages /\ searchPc'[w] \notin InQuery
        /\ searchPc'[w] \notin Se!Asleep
        /\ searchPc[w] \notin InQuery
    BY <2>1 DEF SearchStages, InQuery, Se!Asleep
  <2>4. ~searchOwns[w]
    BY <2>3, Searcher DEF SearcherOK
  <2>5. searchGot'[w] \in 0 .. Se!Most
    <3>1. searchGot[w] \in 0 .. Se!Most /\ searchGot'[w] = Se!Least(searchGot[w], EnoughResults)
      BY <2>1, Searcher
    <3>2. Se!Most \in Nat
      BY SearchConstants
    <3>3. searchGot'[w] \in Nat /\ searchGot'[w] <= searchGot[w]
      BY <3>1, <3>2, SearchConstants
    <3> QED BY <3>1, <3>2, <3>3
  <2>6. LeavesWell(w)
    BY <1>1, <1>3, <2>1, <2>3, <2>4, <2>5, Searcher
        DEF Se!LangSearchEnds, Se!lang, SearchRest, LeavesWell
  <2> QED BY <1>1, <1>3, <2>1, <2>2, <2>6
         DEF Se!LangSearchEnds, Se!lang, Se!ddgs, SearchRest, SearcherMoves, SpacedMove
<1>4. CASE Se!Post(w)
  <2> DEFINE c == Se!Asked
             probe == c.status = "HALF_OPEN"
  <2>1. /\ searchPc[w] = "query" /\ searchQuery[w] <= SearchQueries
        /\ UNCHANGED <<searchNow, searchNext, searchLastSent, searchPlan, searchDeadline,
                       searchJob, searchShutdowns>>
    BY <1>4 DEF Se!Post, Se!ddgs
  <2>2. ASSUME Se!QueryEnds(w, 0, c) PROVE SearcherMoves(w)
    <3>1. OnlyOf(w) /\ LeavesWell(w) /\ searchPc'[w] = "query"
      BY <2>1, <2>2, QueryEndsWell
    <3> QED BY <1>1, <2>1, <3>1 DEF SearcherMoves, SpacedMove, SearchRest
  <2>3. ASSUME ~Se!QueryEnds(w, 0, c) PROVE SearcherMoves(w)
    <3>1. /\ searchCircuit' = [c EXCEPT !.probing = c.probing \/ probe]
          /\ searchOwns' = [searchOwns EXCEPT ![w] = probe]
          /\ searchPc' = [searchPc EXCEPT ![w] = "attempt"]
          /\ UNCHANGED <<searchGot, searchQuery, searchTries, searchWake>>
      BY <1>4, <2>3 DEF Se!Post, Se!Goto
    <3>2. c \in SearchCircuit /\ (c.probing => searchCircuit.probing) /\ probe \in BOOLEAN
      BY SearchStates
    <3>3. \A old \in SearchCircuit, yes \in BOOLEAN :
             LET new == [old EXCEPT !.probing = old.probing \/ yes]
             IN new \in SearchCircuit /\ (new.probing => old.probing \/ yes)
      BY DEF SearchCircuit
    <3>4. /\ searchCircuit' \in SearchCircuit
          /\ searchCircuit'.probing => searchCircuit.probing \/ probe
      BY <3>1, <3>2, <3>3
    <3>5. "query" \notin InQuery /\ "attempt" \in InQuery /\ "attempt" \in SearchStages
          /\ "attempt" \notin Se!Asleep
      BY DEF InQuery, SearchStages, Se!Asleep
    <3>6. ~searchOwns[w]
      BY <2>1, <3>5, Searcher DEF SearcherOK
    <3>7. searchPc'[w] = "attempt" /\ searchOwns'[w] = probe
      BY <3>1, Searcher
    <3>8. OnlyOf(w)
      BY <2>1, <3>1, Searcher DEF OnlyOf
    <3> HIDE DEF c, probe
    <3>9. LeavesWell(w)
      BY <2>1, <3>1, <3>2, <3>4, <3>5, <3>6, <3>7, Searcher DEF LeavesWell
    <3> QED BY <1>1, <2>1, <3>7, <3>8, <3>9 DEF SearcherMoves, SpacedMove, SearchRest
  <2> QED BY <2>2, <2>3
<1> QED BY <1>2, <1>3, <1>4

\* The slot, the request, its answer, and the sleep between tries.
LEMMA TryMoves ==
    ASSUME SearchInv, NEW w \in Searchers,
           Se!Attempt(w) \/ Se!Send(w) \/ Se!CallEnds(w) \/ Se!Retry(w)
    PROVE  SearcherMoves(w)
<1> USE SearchAssumption
<1>1. SearchRest
  BY DEF SearchInv
<1>2. searchPc[w] \in {"attempt", "slot", "sent", "back"} /\ searchPc[w] \in InQuery
  BY DEF Se!Attempt, Se!Send, Se!CallEnds, Se!Answers, Se!IsLimited, Se!IsLost, Se!IsRefused,
         Se!Retry, InQuery
<1>3. searchQuery[w] <= SearchQueries
  BY <1>2, Searcher DEF SearcherOK
<1>4. UNCHANGED <<searchNow, searchPlan, searchDeadline, searchJob, searchShutdowns>>
  BY DEF Se!Attempt, Se!Send, Se!CallEnds, Se!Retry, Se!ddgs
<1>5. ASSUME NEW n \in Nat, NEW state \in {searchCircuit, Se!Asked, Se!Failed, Se!Closed},
             Se!QueryEnds(w, n, state) \/ Se!AttemptFails(w, state),
             searchLastSent' = searchLastSent, searchNext' \in Nat, searchNext' >= searchNext
      PROVE  SearcherMoves(w)
  <2>1. OnlyOf(w) /\ LeavesWell(w) /\ searchPc'[w] \notin {"slot", "sent"}
    BY <1>2, <1>3, <1>4, <1>5, QueryEndsWell, AttemptFailsWell
  <2> QED BY <1>1, <1>4, <1>5, <2>1 DEF SearcherMoves, SpacedMove, SearchRest
<1>6. searchNext \in Nat /\ searchNext >= searchNext
  BY Searcher
<1>7. CASE Se!Attempt(w)
  <2>1. searchPc[w] = "attempt" /\ searchLastSent' = searchLastSent
    BY <1>7 DEF Se!Attempt
  <2>2. CASE Se!QueryEnds(w, 0, Se!Asked) /\ UNCHANGED searchNext
    BY <1>5, <1>6, <2>1, <2>2
  <2>3. CASE Se!AttemptFails(w, Se!Failed) /\ UNCHANGED searchNext
    BY <1>5, <1>6, <2>1, <2>3
  <2>4. CASE /\ Se!Remaining(w) # 0 /\ (Se!Remaining(w) > 0 => Se!MayWait(w))
             /\ searchNext' = Se!Reserved
             /\ searchWake' = [searchWake EXCEPT ![w] = searchNow + Se!SlotWait]
             /\ Se!Goto(w, "slot")
             /\ searchCircuit' = Se!Asked
              /\ UNCHANGED <<searchOwns, searchTries, searchGot, searchQuery>>
    <3>1. OnlyOf(w)
      BY <1>4, <2>4, Searcher DEF Se!Goto, OnlyOf
    <3>2. /\ searchDeadline[w] \in Nat /\ searchNow \in Nat /\ searchNext \in Nat
      BY Searcher
    <3>3. /\ searchDeadline[w] > searchNow /\ Se!SlotWait \in Nat
          /\ searchNow + Se!SlotWait <= searchDeadline[w]
          /\ searchNow + Se!SlotWait = Se!Largest(searchNext, searchNow)
      BY <2>4, <3>2 DEF Se!Remaining, Se!MayWait, Se!SlotWait, Se!Largest
    <3>4. /\ searchWake'[w] = searchNow + Se!SlotWait /\ searchPc'[w] = "slot"
          /\ searchDeadline'[w] = searchDeadline[w] /\ searchOwns'[w] = searchOwns[w]
          /\ searchTries'[w] = searchTries[w] /\ searchGot'[w] = searchGot[w]
          /\ searchQuery'[w] = searchQuery[w]
      BY <1>4, <2>4, Searcher DEF Se!Goto
    <3>5. "slot" \in SearchStages /\ "slot" \in InQuery
      BY DEF SearchStages, InQuery, Se!Asleep
    <3>6. Se!Asked \in SearchCircuit /\ (Se!Asked.probing => searchCircuit.probing)
      BY SearchStates
    <3>7. LeavesWell(w)
      BY <1>3, <2>4, <3>2, <3>3, <3>4, <3>5, <3>6, Searcher DEF LeavesWell
    <3>8. SpacedMove(w)
      <4>1. /\ searchWake'[w] >= searchNext
            /\ searchNext' = searchWake'[w] + SearchInterval
        BY <2>4, <3>2, <3>3, <3>4 DEF Se!Reserved, Se!Largest
      <4> QED BY <2>1, <3>4, <4>1 DEF SpacedMove
    <3> QED BY <1>1, <1>4, <3>1, <3>7, <3>8 DEF SearcherMoves, SearchRest
  <2> QED BY <1>7, <2>2, <2>3, <2>4 DEF Se!Attempt
<1>8. CASE Se!Send(w)
  <2>1. searchPc[w] = "slot" /\ searchWake[w] <= searchNow /\ searchNext' = searchNext
    BY <1>8 DEF Se!Send
  <2>2. CASE Se!AttemptFails(w, Se!Failed) /\ UNCHANGED searchLastSent
    BY <1>5, <1>6, <2>1, <2>2
  <2>3. CASE /\ Se!Remaining(w) # 0
             /\ searchWake' =
                    [searchWake EXCEPT ![w] = searchNow + Se!Least(CallTimeout, Se!Remaining(w))]
             /\ searchLastSent' = searchNow + SearchInterval
             /\ Se!Goto(w, "sent")
             /\ UNCHANGED <<searchCircuit, searchOwns, searchTries, searchGot, searchQuery>>
    <3>1. OnlyOf(w)
      BY <1>4, <2>3, Searcher DEF Se!Goto, OnlyOf
    <3>2. /\ searchDeadline[w] \in Nat /\ searchNow \in Nat /\ searchWake[w] \in Nat
      BY Searcher
    <3>3. /\ Se!Least(CallTimeout, Se!Remaining(w)) \in Nat
          /\ searchNow + Se!Least(CallTimeout, Se!Remaining(w)) <= searchDeadline[w]
      BY <2>3, <3>2 DEF Se!Remaining, Se!Least
    <3>4. /\ searchWake'[w] = searchNow + Se!Least(CallTimeout, Se!Remaining(w))
          /\ searchPc'[w] = "sent"
          /\ searchDeadline'[w] = searchDeadline[w] /\ searchOwns'[w] = searchOwns[w]
          /\ searchTries'[w] = searchTries[w] /\ searchGot'[w] = searchGot[w]
          /\ searchQuery'[w] = searchQuery[w]
      BY <1>4, <2>3, Searcher DEF Se!Goto
    <3>5. /\ "sent" \in SearchStages /\ "sent" \in InQuery /\ "slot" \in Se!Asleep
      BY DEF SearchStages, InQuery, Se!Asleep
    <3>6. searchCircuit \in SearchCircuit
      BY <1>1 DEF SearchRest
    <3>7. LeavesWell(w)
      BY <1>3, <2>3, <3>2, <3>3, <3>4, <3>5, <3>6, Searcher DEF LeavesWell
    <3>8. searchWake[w] = searchNow
      BY <2>1, <3>2, <3>5, Searcher DEF SearcherOK
    <3> QED BY <1>1, <1>4, <2>1, <2>3, <3>1, <3>4, <3>7, <3>8
          DEF SearcherMoves, SearchRest, SpacedMove
  <2> QED BY <1>8, <2>2, <2>3 DEF Se!Send
<1>9. CASE Se!CallEnds(w)
  <2>1. searchLastSent' = searchLastSent
    BY <1>9 DEF Se!CallEnds
  <2>2. ASSUME NEW n \in 0 .. EnoughResults, Se!Answers(w, n) PROVE SearcherMoves(w)
    <3>1. n \in Nat /\ Se!QueryEnds(w, n, Se!Closed) /\ searchNext' = searchNext
      BY <2>2 DEF Se!Answers
    <3> QED BY <1>5, <1>6, <2>1, <3>1
  <2>3. CASE Se!IsLimited(w)
    <3>1. PICK c \in SearchCooldowns : searchNext' = Se!Largest(searchNext, searchNow + c)
      BY <2>3 DEF Se!IsLimited
    <3>2. searchNow + c \in Nat
      BY Searcher
    <3>3. searchNext' \in Nat /\ searchNext' >= searchNext
      BY <1>6, <3>1, <3>2, SearchConstants
    <3>4. Se!AttemptFails(w, searchCircuit)
      BY <2>3 DEF Se!IsLimited
    <3> QED BY <1>5, <2>1, <3>3, <3>4
  <2>4. CASE Se!IsLost(w)
    BY <1>5, <1>6, <2>1, <2>4 DEF Se!IsLost
  <2>5. CASE Se!IsRefused(w)
    BY <1>5, <1>6, <2>1, <2>5 DEF Se!IsRefused
  <2> QED BY <1>9, <2>2, <2>3, <2>4, <2>5 DEF Se!CallEnds
<1>10. CASE Se!Retry(w)
  <2>1. /\ searchPc' = [searchPc EXCEPT ![w] = "attempt"]
        /\ UNCHANGED <<searchNext, searchCircuit, searchLastSent, searchQuery, searchTries,
                       searchGot, searchWake, searchOwns>>
    BY <1>10 DEF Se!Retry, Se!Goto, Se!lang
  <2>2. OnlyOf(w)
    BY <1>4, <2>1, Searcher DEF OnlyOf
  <2>3. searchPc'[w] = "attempt"
    BY <2>1, Searcher
  <2>4. "attempt" \in SearchStages /\ "attempt" \in InQuery /\ "attempt" \notin Se!Asleep
    BY DEF SearchStages, InQuery, Se!Asleep
  <2>5. searchCircuit \in SearchCircuit
    BY <1>1 DEF SearchRest
  <2>6. LeavesWell(w)
    BY <1>3, <1>4, <2>1, <2>3, <2>4, <2>5, Searcher DEF LeavesWell
  <2> QED BY <1>1, <1>4, <1>6, <2>1, <2>2, <2>3, <2>6 DEF SearcherMoves, SearchRest, SpacedMove
<1> QED BY <1>7, <1>8, <1>9, <1>10

\* DDGS and Tavily touch no slot, no circuit and no deadline.
LEMMA DdgsMoves ==
    ASSUME SearchInv, NEW w \in Searchers,
           \/ Se!SubmitAll(w) \/ Se!Collect(w) \/ Se!TavilyQuery(w) \/ Se!TavilyEnds(w)
           \/ \E q \in Se!QueryIds : Se!RunJob(w, q)
    PROVE  SearcherMoves(w)
<1> USE SearchAssumption
<1>1. SearchRest
  BY DEF SearchInv
<1>2. /\ UNCHANGED <<searchNow, searchNext, searchCircuit, searchLastSent, searchPlan,
                     searchDeadline, searchTries, searchWake, searchOwns, searchShutdowns>>
      /\ searchPc' = [searchPc EXCEPT ![w] = searchPc'[w]]
      /\ searchQuery' = [searchQuery EXCEPT ![w] = searchQuery'[w]]
      /\ searchGot' = [searchGot EXCEPT ![w] = searchGot'[w]]
  BY Searcher DEF Se!SubmitAll, Se!Collect, Se!TavilyQuery, Se!TavilyEnds, Se!RunJob,
                  Se!lang, Se!ddgs, Se!Goto
<1>3. OnlyOf(w)
  BY <1>2, Searcher DEF OnlyOf
<1>4. \/ searchPc'[w] = searchPc[w] /\ searchPc' = searchPc
      \/ searchPc'[w] \in {"collect", "tavily", "done"}
          /\ searchPc[w] \in {"ddgs", "collect", "tavily"}
  BY Searcher DEF Se!SubmitAll, Se!Collect, Se!TavilyQuery, Se!TavilyEnds, Se!RunJob, Se!Goto
<1>5. searchQuery'[w] \in 1 .. SearchQueries + 1
      /\ (searchPc'[w] \in InQuery => searchQuery'[w] = searchQuery[w])
  <2>1. CASE Se!TavilyQuery(w)
    BY <2>1, Searcher DEF Se!TavilyQuery, InQuery
  <2>2. CASE ~Se!TavilyQuery(w)
    BY <2>2, Searcher DEF Se!SubmitAll, Se!Collect, Se!TavilyEnds, Se!RunJob
  <2> QED BY <2>1, <2>2
<1>6. searchGot'[w] \in 0 .. Se!Most
  <2>1. EnoughResults \in Nat /\ EnoughResults <= Se!Most /\ Se!Most \in Nat
        /\ searchGot[w] \in 0 .. Se!Most
    BY SearchConstants, Searcher
  <2>2. \A n \in Nat : /\ Se!Least(n, EnoughResults) \in 0 .. Se!Most
                       /\ Se!Least(EnoughResults, n) \in 0 .. Se!Most
    BY <2>1 DEF Se!Least
  <2>3. CASE Se!Collect(w)
    <3>1. Se!Found(w) \in Nat
      <4>1. IsFiniteSet(Se!QueryIds)
        BY FS_Interval DEF Se!QueryIds
      <4>2. Cardinality({q \in Se!QueryIds : searchJob[w][q] = "rows"}) \in Nat
        BY <4>1, FS_Subset, FS_CardinalityType
      <4> QED BY <4>2 DEF Se!Found, Se!Cardinality, Cardinality
    <3>2. searchGot'[w] = Se!Least(Se!Found(w), EnoughResults)
      BY <2>3, Searcher DEF Se!Collect
    <3> QED BY <2>2, <3>1, <3>2
  <2>4. CASE Se!TavilyQuery(w)
    <3>1. PICK n \in 0 .. 1 : searchGot'[w] = Se!Least(EnoughResults, searchGot[w] + n)
      BY <2>4, Searcher DEF Se!TavilyQuery
    <3>2. searchGot[w] + n \in Nat
      BY <2>1
    <3> QED BY <2>2, <3>1, <3>2
  <2>5. CASE ~Se!Collect(w) /\ ~Se!TavilyQuery(w)
    BY <2>1, <2>5 DEF Se!SubmitAll, Se!TavilyEnds, Se!RunJob
  <2> QED BY <2>3, <2>4, <2>5
<1>7. searchJob' \in [Searchers -> [Se!QueryIds -> Se!JobStages]]
  <2>1. searchJob \in [Searchers -> [Se!QueryIds -> Se!JobStages]]
    BY <1>1 DEF SearchRest
  <2>2. CASE Se!SubmitAll(w)
    BY <2>1, <2>2 DEF Se!SubmitAll, Se!JobStages
  <2>3. CASE \E q \in Se!QueryIds : Se!RunJob(w, q)
    BY <2>1, <2>3 DEF Se!RunJob, Se!JobStages
  <2>4. CASE Se!Collect(w) \/ Se!TavilyQuery(w) \/ Se!TavilyEnds(w)
    BY <2>1, <2>4 DEF Se!Collect, Se!TavilyQuery, Se!TavilyEnds, Se!ddgs
  <2> QED BY <2>2, <2>3, <2>4
<1>8. /\ {"collect", "tavily", "done"} \subseteq SearchStages
      /\ {"ddgs", "collect", "tavily", "done"} \cap (InQuery \cup Se!Asleep) = {}
      /\ "slot" \in InQuery
  BY DEF SearchStages, InQuery, Se!Asleep
<1>9. searchCircuit \in SearchCircuit
  BY <1>1 DEF SearchRest
<1>10. LeavesWell(w)
  <2>1. CASE searchPc'[w] = searchPc[w]
    BY <1>2, <1>5, <1>6, <1>9, <2>1, Searcher DEF LeavesWell, SearcherOK
  <2>2. CASE searchPc'[w] \in {"collect", "tavily", "done"}
                /\ searchPc[w] \in {"ddgs", "collect", "tavily"}
    BY <1>2, <1>5, <1>6, <1>8, <1>9, <2>2, Searcher DEF LeavesWell, SearcherOK
  <2> QED BY <1>4, <2>1, <2>2
<1>11. SpacedMove(w)
  BY <1>2, <1>4, Searcher DEF SpacedMove
<1> QED BY <1>2, <1>3, <1>7, <1>10, <1>11 DEF SearcherMoves

\* What a searcher's move keeps.
LEMMA MoveKeeps ==
    ASSUME SearchInv, NEW w \in Searchers, SearcherMoves(w)
    PROVE  SearchInv'
<1> USE SearchAssumption
<1>1. SearchFunctions /\ SearchRest /\ SearchersOK /\ Spaced /\ Se!ProbeHasSearch
  BY DEF SearchInv
<1>2. OnlyOf(w) /\ LeavesWell(w) /\ SpacedMove(w)
      /\ searchNow' = searchNow /\ searchPlan' = searchPlan
  BY DEF SearcherMoves
<1>3. SearchFunctions'
  BY <1>1, <1>2 DEF SearchFunctions, OnlyOf, LeavesWell
<1>4. SearchRest'
  <2>1. searchNext' \in Nat /\ searchLastSent' \in 0 .. Se!Horizon + SearchInterval
    <3>1. /\ searchNow \in Nat /\ searchNow <= Se!Horizon /\ searchNext \in Nat
          /\ searchLastSent \in 0 .. Se!Horizon + SearchInterval /\ searchWake'[w] \in Nat
      BY <1>2, Searcher DEF LeavesWell
    <3>2. Se!Horizon \in Nat
      BY SearchConstants
    <3>3. searchNext' \in Nat
      BY <1>2, <3>1 DEF SpacedMove
    <3>4. searchLastSent' = searchLastSent \/ searchLastSent' = searchNow + SearchInterval
      BY <1>2 DEF SpacedMove
    <3>5. searchLastSent' \in 0 .. Se!Horizon + SearchInterval
      BY <3>1, <3>2, <3>4
    <3> QED BY <3>3, <3>5
  <2> QED BY <1>1, <1>2, <2>1
         DEF SearcherMoves, SearchRest, LeavesWell, Se!Horizon, Se!QueryIds, Se!JobStages
<1>5. \A v \in Searchers \ {w} :
         /\ searchPc'[v] = searchPc[v] /\ searchDeadline'[v] = searchDeadline[v]
         /\ searchQuery'[v] = searchQuery[v] /\ searchWake'[v] = searchWake[v]
         /\ searchOwns'[v] = searchOwns[v]
  BY <1>1, <1>2 DEF SearchFunctions, OnlyOf
<1>6. SearchersOK'
  <2>1. SearcherOK(w)'
    BY <1>2 DEF SearcherOK, LeavesWell, Se!Asleep, InQuery
  <2>2. ASSUME NEW v \in Searchers \ {w} PROVE SearcherOK(v)'
    BY <1>1, <1>2, <1>5 DEF SearchersOK, SearcherOK, Se!Asleep, InQuery
  <2> QED BY <2>1, <2>2 DEF SearchersOK
<1>7. Se!ProbeHasSearch'
  BY <1>1, <1>2, <1>5 DEF Se!ProbeHasSearch, LeavesWell
<1>8. Spaced'
  <2>1. \A v \in Searchers : searchWake[v] \in Nat /\ searchWake'[v] \in Nat
    BY <1>1, <1>3 DEF SearchFunctions
  <2>2. searchNow \in Nat /\ searchNext \in Nat /\ searchLastSent \in Nat
    BY Searcher, SearchConstants
  <2>3. \A v \in Searchers : searchPc[v] = "slot" => searchNow <= searchWake[v]
    BY <1>1 DEF SearchersOK, SearcherOK, Se!Asleep
  <2>4. CASE UNCHANGED <<searchPc, searchWake, searchNext, searchLastSent>>
    BY <1>1, <2>4 DEF Spaced
  <2>5. CASE /\ searchPc'[w] \notin {"slot", "sent"} /\ searchLastSent' = searchLastSent
             /\ searchNext' \in Nat /\ searchNext' >= searchNext
    BY <1>1, <1>5, <2>1, <2>2, <2>5 DEF Spaced
  <2>6. CASE /\ searchPc'[w] = "slot" /\ searchLastSent' = searchLastSent
             /\ searchWake'[w] >= searchNext /\ searchNext' = searchWake'[w] + SearchInterval
    BY <1>1, <1>5, <2>1, <2>2, <2>6 DEF Spaced
  <2>7. CASE /\ searchPc[w] = "slot" /\ searchPc'[w] = "sent" /\ searchNext' = searchNext
             /\ searchWake[w] = searchNow /\ searchLastSent' = searchNow + SearchInterval
    <3>1. ASSUME NEW v \in Searchers, searchPc'[v] = "slot"
          PROVE  searchWake[w] + SearchInterval <= searchWake'[v]
      <4>1. v # w /\ searchPc[v] = "slot" /\ searchWake'[v] = searchWake[v]
        BY <1>5, <2>7, <3>1
      <4>2. \/ searchWake[v] + SearchInterval <= searchWake[w]
            \/ searchWake[w] + SearchInterval <= searchWake[v]
        BY <1>1, <2>7, <4>1 DEF Spaced
      <4> QED BY <2>1, <2>2, <2>3, <2>7, <4>1, <4>2
    <3> QED BY <1>1, <1>5, <2>1, <2>2, <2>7, <3>1 DEF Spaced
  <2> QED BY <1>2, <2>4, <2>5, <2>6, <2>7 DEF SpacedMove
<1> QED BY <1>3, <1>4, <1>6, <1>7, <1>8 DEF SearchInv

LEMMA SearchTick == ASSUME SearchInv, Se!Tick PROVE SearchInv'
<1> USE SearchAssumption
<1>1. SearchFunctions /\ SearchRest /\ SearchersOK /\ Spaced /\ Se!ProbeHasSearch
  BY DEF SearchInv
<1>2. /\ searchNow' = searchNow + 1 /\ searchNow < Se!Horizon
      /\ \A w \in Searchers : searchPc[w] \in Se!Asleep => searchWake[w] > searchNow
      /\ UNCHANGED <<searchNext, searchCircuit, searchLastSent, searchPc, searchPlan, searchDeadline,
                     searchQuery, searchTries, searchGot, searchWake, searchOwns, searchJob,
                     searchShutdowns>>
  BY DEF Se!Tick, Se!lang, Se!ddgs
<1>3. SearchFunctions' /\ Spaced' /\ Se!ProbeHasSearch'
  BY <1>1, <1>2 DEF SearchFunctions, Spaced, Se!ProbeHasSearch
<1>4. SearchRest'
  <2>1. searchNow' \in 0 .. Se!Horizon
    BY <1>1, <1>2, SearchConstants DEF SearchRest
  <2> QED BY <1>1, <1>2, <2>1 DEF SearchRest, Se!Horizon, Se!QueryIds, Se!JobStages
<1>5. ASSUME NEW w \in Searchers PROVE SearcherOK(w)'
  <2>1. searchWake[w] \in Nat /\ searchNow \in Nat
    BY Searcher
  <2> QED BY <1>1, <1>2, <2>1 DEF SearchersOK, SearcherOK, Se!Asleep, InQuery
<1> QED BY <1>3, <1>4, <1>5 DEF SearchInv, SearchersOK

LEMMA SearchShutdown == ASSUME SearchInv, Se!Shutdown PROVE SearchInv'
<1> USE SearchAssumption
<1>1. SearchFunctions /\ SearchRest /\ SearchersOK /\ Spaced /\ Se!ProbeHasSearch
  BY DEF SearchInv
<1>2. /\ UNCHANGED <<searchNow, searchNext, searchCircuit, searchLastSent, searchPc, searchPlan,
                     searchDeadline, searchQuery, searchTries, searchGot, searchWake, searchOwns>>
      /\ searchShutdowns' \in 0 .. DdgsShutdowns
      /\ searchJob' \in [Searchers -> [Se!QueryIds -> Se!JobStages]]
  BY <1>1 DEF Se!Shutdown, Se!lang, SearchRest, Se!JobStages
<1>3. SearchFunctions' /\ Spaced' /\ Se!ProbeHasSearch' /\ SearchersOK'
  BY <1>1, <1>2 DEF SearchFunctions, Spaced, Se!ProbeHasSearch, SearchersOK, SearcherOK
<1>4. SearchRest'
  BY <1>1, <1>2 DEF SearchRest
<1> QED BY <1>3, <1>4 DEF SearchInv

LEMMA InitSearch == Se!Init => SearchInv
<1> SUFFICES ASSUME Se!Init PROVE SearchInv
  OBVIOUS
<1> USE SearchAssumption DEF Se!Init
<1>1. SearchFunctions
  BY SearchConstants DEF SearchFunctions, SearchStages
<1>2. SearchRest
  <2>1. searchCircuit \in SearchCircuit
    BY DEF SearchCircuit
  <2>2. searchJob \in [Searchers -> [Se!QueryIds -> Se!JobStages]]
    BY DEF Se!JobStages
  <2> QED BY <2>1, <2>2, SearchConstants DEF SearchRest
<1>3. SearchersOK /\ Spaced /\ Se!ProbeHasSearch
  BY DEF SearchersOK, SearcherOK, InQuery, Se!Asleep, Spaced, Se!ProbeHasSearch
<1> QED BY <1>1, <1>2, <1>3 DEF SearchInv

\* A search sleeps and waits within its deadline, a claimed probe has its
\* search, and requests leave an interval apart, for any searches, waits,
\* retries and cool-downs (services/search/langsearch.py).
THEOREM EndsByDeadlineHolds == Se!Spec => EndsByDeadline
<1>1. SearchInv /\ [Se!Next]_(Se!vars) => SearchInv'
  <2>1. CASE UNCHANGED Se!vars
    BY <2>1 DEF Se!vars, Se!lang, Se!ddgs, SearchInv, SearchFunctions, SearchRest, SearchersOK,
                SearcherOK, Spaced, Se!ProbeHasSearch
  <2>2. ASSUME SearchInv, NEW w \in Searchers, Se!Step(w) PROVE SearchInv'
    BY <2>2, EdgesMove, TryMoves, DdgsMoves, MoveKeeps DEF Se!Step
  <2> QED BY <2>1, <2>2, SearchTick, SearchShutdown DEF Se!Next
<1>2. SearchInv => Se!TypeOK /\ Se!EndsByDeadline /\ Se!ProbeHasSearch
  BY SearchTypes DEF SearchInv, SearchersOK, SearcherOK, Se!EndsByDeadline
<1>3. SearchInv /\ [Se!Next]_(Se!vars)
        => [\A w \in Searchers : searchPc[w] = "slot" /\ searchPc'[w] = "sent"
              => searchNow >= searchLastSent]_(Se!vars)
  <2> SUFFICES ASSUME SearchInv, Se!Next, NEW w \in Searchers,
                      searchPc[w] = "slot", searchPc'[w] = "sent"
               PROVE  searchNow >= searchLastSent
    OBVIOUS
  <2>1. searchLastSent <= searchWake[w] /\ searchWake[w] \in Nat /\ searchNow \in Nat
    BY Searcher DEF SearchInv, Spaced
  <2>2. PICK v \in Searchers : SearcherMoves(v)
    BY EdgesMove, TryMoves, DdgsMoves DEF Se!Next, Se!Step, Se!Tick, Se!Shutdown
  <2>3. v = w
    BY <2>2, Searcher DEF SearcherMoves, OnlyOf
  <2>4. searchWake[w] = searchNow
    BY <2>2, <2>3, Searcher DEF SearcherMoves, SpacedMove
  <2> QED BY <2>1, <2>4
<1> QED BY InitSearch, <1>1, <1>2, <1>3, PTL DEF Se!Spec, EndsByDeadline, Se!OnePerInterval

(***************************************************************************)
(* The history of a symbol.  A permit is held in the stage of the call; a  *)
(* key is in flight while it has a job, or since its job was cancelled.    *)
(***************************************************************************)
HistoryRow ==
    [pc : {"none", "queued", "asks", "waits", "calls", "ends"}, probe : BOOLEAN,
     tries : 0 .. HistoryTries, got : {"none", "rows", "empty", "busy", "failed"}]
Calling == {k \in HistoryKeys : historyJob[k].pc = "calls"}
PermitsOut == historyFree + Cardinality(Calling) = HistoryPermits

\* Who still asks has a try left, and who has no job claims nothing.
RowsOK ==
    \A k \in HistoryKeys :
        /\ historyJob[k].pc \in {"queued", "asks", "waits", "calls"}
              => historyJob[k].tries < HistoryTries
        /\ historyJob[k].pc = "none" => ~historyJob[k].probe
KeysHaveJobs ==
    /\ historyOrphans \subseteq historyInflight
    /\ \A k \in HistoryKeys :
          k \in historyInflight \ historyOrphans <=> historyJob[k].pc # "none"
HistoryInv == Hf!TypeOK /\ PermitsOut /\ RowsOK /\ KeysHaveJobs

LEMMA SameHistoryCount == ASSUME NEW S PROVE Hf!Cardinality(S) = Cardinality(S)
  BY DEF Hf!Cardinality, Cardinality

\* What a stage, an end and a try without rows make of a job.
RowOf(k) ==
    /\ historyJob' = [historyJob EXCEPT ![k] = historyJob'[k]]
    /\ historyJob'[k] \in HistoryRow

LEMMA HistoryRowTypes ==
    ASSUME HistoryInv
    PROVE  /\ historyJob \in [HistoryKeys -> HistoryRow]
           /\ \A k \in HistoryKeys :
                 historyJob[k].pc \in {"queued", "asks", "waits", "calls"}
                    => historyJob[k].tries \in Nat /\ historyJob[k].tries + 1 \in 0 .. HistoryTries
  BY HistoryAssumption DEF HistoryInv, RowsOK, Hf!TypeOK, HistoryRow

LEMMA GotoRow ==
    ASSUME HistoryInv, NEW k \in HistoryKeys, NEW stage \in {"asks", "waits", "calls"},
           Hf!Goto(k, stage)
    PROVE  /\ RowOf(k) /\ historyJob'[k].pc = stage
           /\ historyJob'[k].tries = historyJob[k].tries
           /\ historyJob'[k].probe = historyJob[k].probe
<1> DEFINE old == historyJob[k]
           row == [old EXCEPT !.pc = stage]
<1>1. /\ row \in HistoryRow /\ row.pc = stage
      /\ row.tries = old.tries /\ row.probe = old.probe
  BY HistoryRowTypes DEF HistoryRow
<1>2. historyJob' = [historyJob EXCEPT ![k] = row]
  BY DEF Hf!Goto
<1> QED BY <1>1, <1>2, HistoryRowTypes DEF RowOf

LEMMA EndsRow ==
    ASSUME HistoryInv, NEW k \in HistoryKeys, NEW got \in {"rows", "empty", "busy", "failed"},
           Hf!Ends(k, got)
    PROVE  /\ RowOf(k) /\ historyJob'[k].pc = "ends"
           /\ historyJob'[k].probe = historyJob[k].probe
<1> DEFINE old == historyJob[k]
           row == [old EXCEPT !.pc = "ends", !.got = got]
<1>1. row \in HistoryRow /\ row.pc = "ends" /\ row.probe = old.probe
  BY HistoryRowTypes DEF HistoryRow
<1>2. historyJob' = [historyJob EXCEPT ![k] = row]
  BY HistoryRowTypes DEF Hf!Ends
<1> QED BY <1>1, <1>2, HistoryRowTypes DEF RowOf

LEMMA EmptyRow ==
    ASSUME HistoryInv, NEW k \in HistoryKeys,
           historyJob[k].pc \in {"queued", "asks", "waits", "calls"}, Hf!Empty(k)
    PROVE  /\ RowOf(k) /\ historyJob'[k].pc \in {"asks", "ends"}
           /\ historyJob'[k].pc = "asks" => historyJob'[k].tries < HistoryTries
           /\ historyJob'[k].probe = historyJob[k].probe
<1> USE HistoryAssumption
<1> DEFINE old == historyJob[k]
           stage == IF old.tries + 1 >= HistoryTries THEN "ends" ELSE "asks"
           row == [old EXCEPT !.tries = old.tries + 1, !.pc = stage, !.got = "empty"]
<1>1. old \in HistoryRow /\ old.pc # "none" /\ old.tries + 1 \in 0 .. HistoryTries
  BY HistoryRowTypes
<1>2. /\ row \in HistoryRow /\ row.pc = stage
      /\ row.tries = old.tries + 1 /\ row.probe = old.probe
  BY <1>1 DEF HistoryRow
<1>3. stage = "asks" => old.tries + 1 < HistoryTries
  BY <1>1
<1>4. historyJob' = [historyJob EXCEPT ![k] = row]
  BY <1>1, HistoryRowTypes DEF Hf!Empty
<1> QED BY <1>2, <1>3, <1>4, HistoryRowTypes DEF RowOf

HistoryCircuit ==
    [status : {"CLOSED", "OPEN", "HALF_OPEN"}, streak : 0 .. HistoryThreshold - 1,
     lapsed : BOOLEAN, probing : BOOLEAN]

LEMMA HistoryCircuitTypes ==
    ASSUME historyCircuit \in HistoryCircuit
    PROVE  /\ Hf!Closed \in HistoryCircuit /\ Hf!Asked \in HistoryCircuit
           /\ \A c \in HistoryCircuit : Hf!Failed(c) \in HistoryCircuit
           /\ \A c \in HistoryCircuit : [c EXCEPT !.probing = TRUE] \in HistoryCircuit
           /\ [historyCircuit EXCEPT !.lapsed = TRUE] \in HistoryCircuit
<1> USE HistoryAssumption
<1>1. Hf!Closed \in HistoryCircuit
  BY DEF Hf!Closed, HistoryCircuit
<1>2. \A c \in HistoryCircuit :
         /\ [c EXCEPT !.probing = TRUE] \in HistoryCircuit
         /\ [c EXCEPT !.lapsed = TRUE] \in HistoryCircuit
         /\ [c EXCEPT !.status = "HALF_OPEN"] \in HistoryCircuit
  BY DEF HistoryCircuit
<1>3. Hf!Asked \in HistoryCircuit
  BY <1>2 DEF Hf!Asked
<1>4. ASSUME NEW c \in HistoryCircuit PROVE Hf!Failed(c) \in HistoryCircuit
  <2>1. CASE c.status = "HALF_OPEN" \/ c.streak + 1 >= HistoryThreshold
    BY <2>1 DEF Hf!Failed, HistoryCircuit
  <2>2. CASE ~(c.status = "HALF_OPEN" \/ c.streak + 1 >= HistoryThreshold)
    <3>1. c.streak + 1 \in 0 .. HistoryThreshold - 1
      BY <2>2 DEF HistoryCircuit
    <3>2. [c EXCEPT !.streak = c.streak + 1] \in HistoryCircuit
      BY <3>1 DEF HistoryCircuit
    <3> QED BY <2>2, <3>2 DEF Hf!Failed
  <2> QED BY <2>1, <2>2
<1> QED BY <1>1, <1>2, <1>3, <1>4

\* What every step keeps of the rest of the types.
HistoryRest ==
    /\ historyCircuit \in HistoryCircuit /\ historyLimited \in BOOLEAN
    /\ historyInflight \subseteq HistoryKeys
    /\ historyCache \in [HistoryKeys -> {"none", "rows", "error"}]
    /\ historyCancels \in 0 .. HistoryCancels /\ historyOrphans \subseteq HistoryKeys

LEMMA HistoryTypes ==
    HistoryInv <=>
        /\ HistoryRest /\ historyFree \in 0 .. HistoryPermits
        /\ historyJob \in [HistoryKeys -> HistoryRow]
        /\ PermitsOut /\ RowsOK /\ KeysHaveJobs
  BY DEF HistoryInv, Hf!TypeOK, HistoryRest, HistoryCircuit, HistoryRow

LEMMA SubmittedRow ==
    ASSUME HistoryInv, NEW k \in HistoryKeys, NEW probe \in BOOLEAN, Hf!Submitted(k, probe)
    PROVE  \/ UNCHANGED <<historyJob, historyInflight>>
           \/ /\ k \notin historyInflight /\ historyInflight' = historyInflight \cup {k}
              /\ \E row \in HistoryRow : row.pc = "queued" /\ row.tries = 0
                    /\ historyJob' = [historyJob EXCEPT ![k] = row]
<1> DEFINE row == [Hf!Off EXCEPT !.pc = "queued", !.probe = probe]
<1>1. Hf!Off \in HistoryRow /\ Hf!Off.tries = 0
  BY HistoryAssumption DEF Hf!Off, HistoryRow
<1>2. row \in HistoryRow /\ row.pc = "queued" /\ row.tries = 0
  <2>1. \A old \in HistoryRow :
           LET new == [old EXCEPT !.pc = "queued", !.probe = probe]
           IN new \in HistoryRow /\ new.pc = "queued" /\ new.tries = old.tries
    BY DEF HistoryRow
  <2> QED BY <1>1, <2>1
<1> HIDE DEF row
<1>3. CASE k \notin historyInflight /\ Hf!HasRoom
  <2>1. /\ historyJob' = [historyJob EXCEPT ![k] = row]
        /\ historyInflight' = historyInflight \cup {k}
    BY <1>3 DEF Hf!Submitted, row
  <2> QED BY <1>2, <1>3, <2>1
<1>4. CASE ~(k \notin historyInflight /\ Hf!HasRoom)
  BY <1>4 DEF Hf!Submitted
<1> QED BY <1>3, <1>4

LEMMA HistoryRestNext == ASSUME HistoryInv, Hf!Next PROVE HistoryRest'
<1>1. HistoryRest /\ historyCircuit \in HistoryCircuit
  BY HistoryTypes DEF HistoryRest
<1>2. Hf!WindowLapses \/ Hf!RateLimit => HistoryRest'
  BY <1>1, HistoryCircuitTypes DEF Hf!WindowLapses, Hf!RateLimit, HistoryRest
<1>3. ASSUME NEW k \in HistoryKeys, Hf!RequestProbe(k) \/ Hf!Request(k) \/ Hf!Expire(k)
      PROVE  HistoryRest'
  <2>1. (\E probe \in BOOLEAN : Hf!Submitted(k, probe)) => historyInflight' \subseteq HistoryKeys
    BY <1>1, SubmittedRow DEF HistoryRest
  <2> QED BY <1>1, <1>3, <2>1, HistoryCircuitTypes
        DEF Hf!RequestProbe, Hf!Request, Hf!Expire, HistoryRest
<1>4. ASSUME NEW k \in HistoryKeys,
             Hf!Begin(k) \/ Hf!Ask(k) \/ Hf!Acquire(k) \/ Hf!SemaphoreTimeout(k) \/ Hf!Reply(k)
      PROVE  HistoryRest'
  BY <1>1, <1>4, HistoryCircuitTypes
     DEF Hf!Begin, Hf!Ask, Hf!Acquire, Hf!SemaphoreTimeout, Hf!Reply, HistoryRest
<1>5. ASSUME NEW k \in HistoryKeys, Hf!Finish(k) PROVE HistoryRest'
  <2>1. Hf!Stored(k) \in {"none", "rows", "error"} /\ Hf!Resolved(k) \in HistoryCircuit
    BY <1>1, HistoryCircuitTypes DEF Hf!Stored, Hf!Resolved, HistoryRest
  <2> QED BY <1>1, <1>5, <2>1 DEF Hf!Finish, HistoryRest
<1>6. ASSUME NEW k \in HistoryKeys, Hf!Cancel(k) PROVE HistoryRest'
  BY <1>1, <1>6, HistoryCircuitTypes, HistoryAssumption DEF Hf!Cancel, HistoryRest
<1> QED BY <1>2, <1>3, <1>4, <1>5, <1>6 DEF Hf!Next

\* Where a step leaves the job of k, and what that is to the rest.
HistoryMoves(k, row) ==
    /\ historyJob' = [historyJob EXCEPT ![k] = row]
    /\ row.pc \in {"queued", "asks", "waits", "calls"} => row.tries < HistoryTries
    /\ row.pc = "none" => ~row.probe
    /\ historyFree + (IF historyJob[k].pc = "calls" THEN 1 ELSE 0)
          = historyFree' + (IF row.pc = "calls" THEN 1 ELSE 0)
    /\ historyFree' \in Int /\ (row.pc = "calls" => historyFree > 0)
    /\ historyOrphans' \subseteq historyInflight'
    /\ k \in historyInflight' \ historyOrphans' <=> row.pc # "none"
    /\ \A j \in HistoryKeys \ {k} :
          /\ j \in historyInflight' <=> j \in historyInflight
          /\ j \in historyOrphans' <=> j \in historyOrphans

LEMMA HistoryJobStep ==
    ASSUME HistoryInv, Hf!Next
    PROVE  \/ UNCHANGED <<historyJob, historyFree, historyInflight, historyOrphans>>
           \/ \E k \in HistoryKeys, row \in HistoryRow : HistoryMoves(k, row)
<1> USE HistoryAssumption
<1>1. /\ historyFree \in Nat /\ historyJob \in [HistoryKeys -> HistoryRow]
      /\ historyInflight \subseteq HistoryKeys /\ historyOrphans \subseteq HistoryKeys
      /\ RowsOK /\ KeysHaveJobs
  BY HistoryTypes DEF HistoryRest
<1>2. ASSUME NEW k \in HistoryKeys, Hf!RequestProbe(k) \/ Hf!Request(k) \/ Hf!Expire(k)
      PROVE  \/ UNCHANGED <<historyJob, historyFree, historyInflight, historyOrphans>>
             \/ /\ UNCHANGED <<historyFree, historyOrphans>>
                /\ k \notin historyInflight /\ historyInflight' = historyInflight \cup {k}
                /\ \E row \in HistoryRow : row.pc = "queued" /\ row.tries = 0
                      /\ historyJob' = [historyJob EXCEPT ![k] = row]
  BY <1>2, SubmittedRow DEF Hf!RequestProbe, Hf!Request, Hf!Expire
<1>3. ASSUME NEW k \in HistoryKeys,
             Hf!Begin(k) \/ Hf!Ask(k) \/ Hf!Acquire(k) \/ Hf!SemaphoreTimeout(k) \/ Hf!Reply(k)
      PROVE  /\ UNCHANGED <<historyInflight, historyOrphans>>
             /\ RowOf(k) /\ historyJob[k].pc # "none"
             /\ historyJob'[k].pc \in {"asks", "waits", "calls", "ends"}
             /\ historyJob'[k].pc \in {"asks", "waits", "calls"}
                   => historyJob'[k].tries < HistoryTries
             /\ historyFree + (IF historyJob[k].pc = "calls" THEN 1 ELSE 0)
                   = historyFree' + (IF historyJob'[k].pc = "calls" THEN 1 ELSE 0)
             /\ historyFree' \in Int /\ (historyJob'[k].pc = "calls" => historyFree > 0)
  <2> USE DEF RowsOK
  <2>1. CASE Hf!Begin(k)
    BY <1>1, <2>1, GotoRow, EndsRow DEF Hf!Begin
  <2>2. CASE Hf!SemaphoreTimeout(k)
    BY <1>1, <2>2, GotoRow, EndsRow DEF Hf!SemaphoreTimeout
  <2>3. CASE Hf!Ask(k)
    BY <1>1, <2>3, GotoRow, EmptyRow DEF Hf!Ask
  <2>4. CASE Hf!Acquire(k)
    BY <1>1, <2>4, GotoRow DEF Hf!Acquire
  <2>5. CASE Hf!Reply(k)
    BY <1>1, <2>5, GotoRow, EndsRow, EmptyRow DEF Hf!Reply, Hf!Released
  <2> QED BY <1>3, <2>1, <2>2, <2>3, <2>4, <2>5
<1>4. ASSUME NEW k \in HistoryKeys, Hf!Finish(k) \/ Hf!Cancel(k)
      PROVE  /\ historyFree' = historyFree
             /\ historyJob' = [historyJob EXCEPT ![k] = Hf!Off]
             /\ historyJob[k].pc \in {"queued", "ends"}
             /\ \/ historyInflight' = historyInflight \ {k} /\ historyOrphans' = historyOrphans
                \/ historyInflight' = historyInflight /\ historyOrphans' = historyOrphans \cup {k}
  BY <1>4 DEF Hf!Finish, Hf!Cancel
<1>5. Hf!Off \in HistoryRow /\ Hf!Off.pc = "none" /\ ~Hf!Off.probe
  BY DEF Hf!Off, HistoryRow
<1>6. CASE \E k \in HistoryKeys : Hf!RequestProbe(k) \/ Hf!Request(k) \/ Hf!Expire(k)
  <2>1. PICK k \in HistoryKeys : Hf!RequestProbe(k) \/ Hf!Request(k) \/ Hf!Expire(k)
    BY <1>6
  <2>2. historyJob[k].pc = "none" \/ k \in historyInflight
    BY <1>1 DEF KeysHaveJobs
  <2> QED BY <1>1, <1>2, <2>1, <2>2 DEF KeysHaveJobs, HistoryMoves
<1>7. CASE \E k \in HistoryKeys : Hf!Begin(k) \/ Hf!Ask(k) \/ Hf!Acquire(k)
                                    \/ Hf!SemaphoreTimeout(k) \/ Hf!Reply(k)
  BY <1>1, <1>3, <1>7 DEF KeysHaveJobs, RowOf, HistoryMoves
<1>8. CASE \E k \in HistoryKeys : Hf!Finish(k) \/ Hf!Cancel(k)
  BY <1>1, <1>4, <1>5, <1>8 DEF KeysHaveJobs, HistoryMoves
<1>9. CASE Hf!WindowLapses \/ Hf!RateLimit
  BY <1>9 DEF Hf!WindowLapses, Hf!RateLimit
<1> QED BY <1>6, <1>7, <1>8, <1>9 DEF Hf!Next

LEMMA InitHistory == Hf!Init => HistoryInv
<1> SUFFICES ASSUME Hf!Init PROVE HistoryInv
  OBVIOUS
<1> USE HistoryAssumption DEF Hf!Init
<1>1. HistoryRest
  <2>1. Hf!Closed \in HistoryCircuit
    BY DEF Hf!Closed, HistoryCircuit
  <2>2. historyLimited \in BOOLEAN
    OBVIOUS
  <2>3. historyCache \in [HistoryKeys -> {"none", "rows", "error"}]
    OBVIOUS
  <2>4. /\ historyInflight \subseteq HistoryKeys /\ historyOrphans \subseteq HistoryKeys
        /\ historyCancels \in 0 .. HistoryCancels
    OBVIOUS
  <2> QED BY <2>1, <2>2, <2>3, <2>4 DEF HistoryRest
<1>2. historyJob \in [HistoryKeys -> HistoryRow]
  BY DEF Hf!Off, HistoryRow
<1>3. RowsOK /\ KeysHaveJobs
  BY DEF RowsOK, KeysHaveJobs, Hf!Off
<1>4. Calling = {}
  BY DEF Calling, Hf!Off
<1>5. PermitsOut /\ historyFree \in 0 .. HistoryPermits
  BY <1>4, FS_EmptySet DEF PermitsOut
<1> QED BY <1>1, <1>2, <1>3, <1>5, HistoryTypes

LEMMA HistoryNext == ASSUME HistoryInv, Hf!Next PROVE HistoryInv'
<1> USE HistoryAssumption
<1>1. /\ historyFree \in 0 .. HistoryPermits /\ historyJob \in [HistoryKeys -> HistoryRow]
      /\ PermitsOut /\ RowsOK /\ KeysHaveJobs /\ HistoryRest'
  BY HistoryTypes, HistoryRestNext
<1>2. CASE UNCHANGED <<historyJob, historyFree, historyInflight, historyOrphans>>
  <2>1. Calling' = Calling
    BY <1>2 DEF Calling
  <2>2. PermitsOut' /\ RowsOK' /\ KeysHaveJobs'
    BY <1>1, <1>2, <2>1 DEF PermitsOut, RowsOK, KeysHaveJobs
  <2>3. (HistoryInv <=> /\ HistoryRest /\ historyFree \in 0 .. HistoryPermits
                        /\ historyJob \in [HistoryKeys -> HistoryRow]
                        /\ PermitsOut /\ RowsOK /\ KeysHaveJobs)'
    BY HistoryTypes, PTL
  <2> QED BY <1>1, <1>2, <2>2, <2>3
<1>3. CASE \E k \in HistoryKeys, row \in HistoryRow : HistoryMoves(k, row)
  <2>1. PICK k \in HistoryKeys, row \in HistoryRow : HistoryMoves(k, row)
    BY <1>3
  <2>2. historyJob' \in [HistoryKeys -> HistoryRow] /\ RowsOK'
    BY <1>1, <2>1 DEF RowsOK, HistoryMoves
  <2>3. KeysHaveJobs'
    BY <1>1, <2>1 DEF KeysHaveJobs, HistoryMoves
  <2>4. /\ Calling' = IF row.pc = "calls" THEN Calling \cup {k} ELSE Calling \ {k}
        /\ k \in Calling <=> historyJob[k].pc = "calls"
    BY <1>1, <2>1 DEF Calling, HistoryMoves
  <2>5. PermitsOut' /\ historyFree' \in 0 .. HistoryPermits
    <3>1. IsFiniteSet(Calling) /\ Cardinality(Calling) \in Nat
      BY FS_Subset, FS_CardinalityType DEF Calling
    <3>2. /\ IsFiniteSet(Calling \cup {k}) /\ IsFiniteSet(Calling \ {k})
          /\ Cardinality(Calling \cup {k})
                = Cardinality(Calling) + (IF k \in Calling THEN 0 ELSE 1)
          /\ Cardinality(Calling \ {k})
                = Cardinality(Calling) - (IF k \in Calling THEN 1 ELSE 0)
      BY <3>1, FS_AddElement, FS_RemoveElement
    <3>3. /\ Cardinality(Calling') + historyFree' = Cardinality(Calling) + historyFree
          /\ historyFree' \in Nat
      <4>1. PICK f \in Nat, g \in Int, c \in Nat :
               f = historyFree /\ g = historyFree' /\ c = Cardinality(Calling)
        BY <1>1, <2>1, <3>1 DEF HistoryMoves
      <4>2. PICK a \in 0 .. 1 : a = IF historyJob[k].pc = "calls" THEN 1 ELSE 0
        OBVIOUS
      <4>3. CASE row.pc = "calls"
        <5>1. f + a = g + 1 /\ f > 0
          BY <2>1, <4>1, <4>2, <4>3 DEF HistoryMoves
        <5>2. Cardinality(Calling') = c + 1 - a
          BY <2>4, <3>2, <4>1, <4>2, <4>3
        <5>3. g = f + a - 1 /\ f >= 1
          BY <5>1
        <5>4. (c + 1 - a) + g = c + f
          BY <5>3
        <5>5. g \in Nat
          BY <5>3
        <5> QED BY <4>1, <5>2, <5>4, <5>5
      <4>4. CASE row.pc # "calls"
        <5>1. f + a = g + 0
          <6>1. historyFree + (IF historyJob[k].pc = "calls" THEN 1 ELSE 0) = historyFree' + 0
            BY <2>1, <4>4 DEF HistoryMoves
          <6> QED BY <4>1, <4>2, <6>1
        <5>2. Cardinality(Calling') = c - a
          BY <2>4, <3>2, <4>1, <4>2, <4>4
        <5>3. g = f + a
          BY <5>1
        <5>4. (c - a) + g = c + f
          BY <5>3
        <5>5. g \in Nat
          BY <5>3
        <5> QED BY <4>1, <5>2, <5>4, <5>5
      <4> QED BY <4>3, <4>4
    <3>4. Cardinality(Calling') \in Nat
      BY <2>4, <3>2, FS_CardinalityType
    <3> QED BY <1>1, <3>1, <3>3, <3>4 DEF PermitsOut
  <2>6. (HistoryInv <=> /\ HistoryRest /\ historyFree \in 0 .. HistoryPermits
                        /\ historyJob \in [HistoryKeys -> HistoryRow]
                        /\ PermitsOut /\ RowsOK /\ KeysHaveJobs)'
    BY HistoryTypes, PTL
  <2> QED BY <1>1, <2>2, <2>3, <2>5, <2>6
<1> QED BY <1>2, <1>3, HistoryJobStep

\* Who had the probe and has it no more has resolved it in the same step.
LEMMA ProbeStep ==
    ASSUME HistoryInv, Hf!Next, NEW k \in HistoryKeys,
           historyJob[k].probe, ~historyJob'[k].probe
    PROVE  ~(historyCircuit'.status = "HALF_OPEN" /\ historyCircuit'.probing)
<1>1. historyJob[k].pc # "none" /\ RowsOK /\ KeysHaveJobs
      /\ historyJob \in [HistoryKeys -> HistoryRow]
  BY HistoryTypes DEF RowsOK
<1>2. ASSUME NEW j \in HistoryKeys, NEW probe \in BOOLEAN, Hf!Submitted(j, probe)
      PROVE  FALSE
  <2>1. k \in historyInflight
    BY <1>1 DEF KeysHaveJobs
  <2> QED BY <1>1, <1>2, <2>1, SubmittedRow
<1>3. ASSUME NEW j \in HistoryKeys, RowOf(j), historyJob'[j].probe = historyJob[j].probe
      PROVE  FALSE
  BY <1>1, <1>3 DEF RowOf
<1>4. ASSUME NEW j \in HistoryKeys,
             Hf!Begin(j) \/ Hf!Ask(j) \/ Hf!Acquire(j) \/ Hf!SemaphoreTimeout(j) \/ Hf!Reply(j)
      PROVE  FALSE
  <2>1. /\ historyJob[j].pc \in {"queued", "asks", "waits", "calls"}
        /\ \/ \E stage \in {"asks", "waits", "calls"} : Hf!Goto(j, stage)
           \/ \E got \in {"rows", "empty", "busy", "failed"} : Hf!Ends(j, got)
           \/ Hf!Empty(j)
    BY <1>4 DEF Hf!Begin, Hf!Ask, Hf!Acquire, Hf!SemaphoreTimeout, Hf!Reply
  <2> QED BY <1>3, <2>1, GotoRow, EndsRow, EmptyRow
<1>5. ASSUME NEW j \in HistoryKeys, Hf!Finish(j) \/ Hf!Cancel(j)
      PROVE  ~(historyCircuit'.status = "HALF_OPEN" /\ historyCircuit'.probing)
  <2>1. historyJob' = [historyJob EXCEPT ![j] = Hf!Off] /\ (Hf!Finish(j) \/ Hf!Cancel(j))
    BY <1>5 DEF Hf!Finish, Hf!Cancel
  <2>2. j = k
    BY <1>1, <2>1
  <2>3. historyCircuit \in HistoryCircuit
    BY HistoryTypes DEF HistoryRest
  <2>4. /\ Hf!Closed.status = "CLOSED"
        /\ Hf!Failed(historyCircuit).status # "HALF_OPEN"
    BY <2>3 DEF Hf!Closed, Hf!Failed, HistoryCircuit
  <2>5. CASE Hf!Finish(k)
    BY <2>4, <2>5 DEF Hf!Finish, Hf!Resolved
  <2>6. CASE Hf!Cancel(k)
    BY <2>4, <2>6 DEF Hf!Cancel
  <2> QED BY <2>1, <2>2, <2>5, <2>6
<1>6. ASSUME NEW j \in HistoryKeys, Hf!RequestProbe(j) \/ Hf!Request(j) \/ Hf!Expire(j)
      PROVE  FALSE
  BY <1>2, <1>6 DEF Hf!RequestProbe, Hf!Request, Hf!Expire
<1>7. ~(Hf!WindowLapses \/ Hf!RateLimit)
  BY DEF Hf!WindowLapses, Hf!RateLimit
<1> QED BY <1>4, <1>5, <1>6, <1>7 DEF Hf!Next

\* Every permit is free or held by a call, every key in flight has its job, and
\* no probe job ends with its claim open, for any keys, permits, tries and
\* cancellations (services/stock/quotes.py).
THEOREM NothingLeaksHolds == Hf!Spec => NothingLeaks
<1>1. HistoryInv /\ [Hf!Next]_(Hf!vars) => HistoryInv'
  <2>1. CASE UNCHANGED Hf!vars
    BY <2>1 DEF Hf!vars, HistoryInv, Hf!TypeOK, PermitsOut, Calling, RowsOK, KeysHaveJobs
  <2> QED BY <2>1, HistoryNext
<1>2. HistoryInv => Hf!TypeOK /\ Hf!NothingLeaks
  BY SameHistoryCount DEF HistoryInv, PermitsOut, Calling, KeysHaveJobs, Hf!NothingLeaks
<1>3. HistoryInv /\ [Hf!Next]_(Hf!vars)
        => [\A k \in HistoryKeys : historyJob[k].probe /\ ~historyJob'[k].probe
              => ~(historyCircuit'.status = "HALF_OPEN" /\ historyCircuit'.probing)]_(Hf!vars)
  BY ProbeStep
<1> QED BY InitHistory, <1>1, <1>2, <1>3, PTL DEF Hf!Spec, NothingLeaks, Hf!ProbeIsResolved
=============================================================================
