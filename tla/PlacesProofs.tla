----------------------------- MODULE PlacesProofs -----------------------------
(***************************************************************************)
(* Facts about parts of a sequence: which items they are, how many, that   *)
(* none stands twice, and that what is counted in the part is what is      *)
(* counted at those places of the whole.                                   *)
(***************************************************************************)
EXTENDS Places, FiniteSetTheorems, TLAPS

\* The members of a finite set of numbers, counted up to each of them.
LEMMA Ranks ==
    ASSUME NEW n \in Nat, NEW S \in SUBSET (1 .. n)
    PROVE  /\ Cardinality(S) \in 0 .. n
           /\ \A m \in 1 .. Cardinality(S) :
                 \E i \in S : Cardinality({j \in S : j <= i}) = m
           /\ \A i \in S : Cardinality({j \in S : j <= i}) \in 1 .. Cardinality(S)
           /\ \A i, k \in S :
                 Cardinality({j \in S : j <= i}) = Cardinality({j \in S : j <= k}) => i = k
<1> DEFINE rank == [i \in S |-> Cardinality({j \in S : j <= i})]
<1>1. IsFiniteSet(1 .. n) /\ Cardinality(1 .. n) = n
  BY FS_Interval
<1>2. IsFiniteSet(S) /\ Cardinality(S) \in Nat /\ Cardinality(S) <= n
  BY <1>1, FS_Subset, FS_CardinalityType
<1>3. ASSUME NEW i \in S PROVE rank[i] \in 1 .. Cardinality(S)
  <2> DEFINE T == {j \in S : j <= i}
  <2>1. T \subseteq S /\ i \in T
    BY <1>3
  <2>2. IsFiniteSet(T) /\ Cardinality(T) \in Nat /\ Cardinality(T) <= Cardinality(S)
    BY <1>2, <2>1, FS_Subset, FS_CardinalityType
  <2>3. Cardinality(T) # 0
    BY <2>1, <2>2, FS_EmptySet
  <2> HIDE DEF T
  <2> QED BY <1>2, <2>2, <2>3 DEF T
<1>4. ASSUME NEW i \in S, NEW k \in S, i < k PROVE rank[i] # rank[k]
  <2> DEFINE T == {j \in S : j <= i}
             U == {j \in S : j <= k}
  <2>0. i \in Int /\ k \in Int /\ \A j \in S : j \in Int
    OBVIOUS
  <2>1. T \subseteq U /\ k \in U /\ k \notin T
    <3>1. (\A j \in S : j <= i => j <= k) /\ k <= k /\ ~(k <= i)
      BY <1>4, <2>0
    <3> QED BY <1>4, <3>1, Zenon
  <2>2. IsFiniteSet(U)
    BY <1>2, FS_Subset
  <2>3. Cardinality(U) = Cardinality(T) => U = T
    BY <2>1, <2>2, FS_Subset
  <2> QED BY <2>1, <2>3
<1>5. rank \in Injection(S, 1 .. Cardinality(S))
  <2>1. rank \in [S -> 1 .. Cardinality(S)]
    BY <1>3
  <2>2. ASSUME NEW i \in S, NEW k \in S, rank[i] = rank[k] PROVE i = k
    <3>1. i < k \/ k < i \/ i = k
      OBVIOUS
    <3> HIDE DEF rank
    <3> QED BY <1>4, <2>2, <3>1
  <2> HIDE DEF rank
  <2> QED BY <2>1, <2>2 DEF Injection, IsInjective
<1>6. rank \in Surjection(S, 1 .. Cardinality(S))
  <2>1. IsFiniteSet(1 .. Cardinality(S)) /\ Cardinality(1 .. Cardinality(S)) = Cardinality(S)
    BY <1>2, FS_Interval
  <2> HIDE DEF rank
  <2> QED BY <1>5, <2>1, FS_Injection
<1>7. \A m \in 1 .. Cardinality(S) : \E i \in S : rank[i] = m
  <2> HIDE DEF rank
  <2> QED BY <1>6 DEF Surjection
<1>8. \A i \in S : rank[i] \in 1 .. Cardinality(S)
  BY <1>3
<1>9. \A i, k \in S : rank[i] = rank[k] => i = k
  <2> HIDE DEF rank
  <2> QED BY <1>5 DEF Injection, IsInjective
<1> QED BY <1>2, <1>7, <1>8, <1>9

\* The places of a set of numbers, in order.
LEMMA PlacesAre ==
    ASSUME NEW n \in Nat, NEW P \in SUBSET (1 .. n)
    PROVE  /\ Cardinality(P) \in 0 .. n
           /\ \A m \in 1 .. Cardinality(P) : NthPlace(P, m) \in P
           /\ \A l, m \in 1 .. Cardinality(P) : NthPlace(P, l) = NthPlace(P, m) => l = m
           /\ \A i \in P : \E m \in 1 .. Cardinality(P) : NthPlace(P, m) = i
           /\ 1 \in P => 1 <= Cardinality(P) /\ NthPlace(P, 1) = 1
<1> DEFINE rank(i) == Cardinality({j \in P : j <= i})
<1>1. /\ Cardinality(P) \in 0 .. n
      /\ \A m \in 1 .. Cardinality(P) : \E i \in P : rank(i) = m
      /\ \A i \in P : rank(i) \in 1 .. Cardinality(P)
      /\ \A i, k \in P : rank(i) = rank(k) => i = k
  BY Ranks
<1>2. ASSUME NEW m \in 1 .. Cardinality(P)
      PROVE  NthPlace(P, m) \in P /\ rank(NthPlace(P, m)) = m
  BY <1>1 DEF NthPlace
<1>3. 1 \in P => rank(1) = 1
  <2> SUFFICES ASSUME 1 \in P PROVE rank(1) = 1
    OBVIOUS
  <2>1. \A j \in P : j <= 1 <=> j = 1
    OBVIOUS
  <2>2. {j \in P : j <= 1} = {1}
    BY <2>1, Zenon
  <2> QED BY <2>2, FS_Singleton
<1> HIDE DEF rank
<1>4. \A l, m \in 1 .. Cardinality(P) : NthPlace(P, l) = NthPlace(P, m) => l = m
  BY <1>2
<1>5. \A i \in P : rank(i) \in 1 .. Cardinality(P) /\ NthPlace(P, rank(i)) = i
  BY <1>1, <1>2
<1> QED BY <1>1, <1>2, <1>3, <1>4, <1>5

\* A part of a sequence is items of it, as many as there are places.
LEMMA ItemsAre ==
    ASSUME NEW T, NEW s \in Seq(T), NEW P \in SUBSET DOMAIN s
    PROVE  /\ ItemsAt(s, P) \in Seq(T)
           /\ Len(ItemsAt(s, P)) = Cardinality(P) /\ Cardinality(P) \in 0 .. Len(s)
           /\ DOMAIN ItemsAt(s, P) = 1 .. Cardinality(P)
           /\ \A m \in 1 .. Cardinality(P) :
                 NthPlace(P, m) \in P /\ ItemsAt(s, P)[m] = s[NthPlace(P, m)]
           /\ \A l, m \in 1 .. Cardinality(P) : NthPlace(P, l) = NthPlace(P, m) => l = m
           /\ \A i \in P : \E m \in 1 .. Cardinality(P) : ItemsAt(s, P)[m] = s[i]
           /\ 1 \in P => ItemsAt(s, P) # <<>> /\ ItemsAt(s, P)[1] = s[1]
<1>1. Len(s) \in Nat /\ DOMAIN s = 1 .. Len(s) /\ (\A i \in P : s[i] \in T)
  OBVIOUS
<1> DEFINE c == Cardinality(P)
           part == ItemsAt(s, P)
<1>2. /\ c \in 0 .. Len(s)
      /\ \A m \in 1 .. c : NthPlace(P, m) \in P
      /\ \A l, m \in 1 .. c : NthPlace(P, l) = NthPlace(P, m) => l = m
      /\ \A i \in P : \E m \in 1 .. c : NthPlace(P, m) = i
      /\ 1 \in P => 1 <= c /\ NthPlace(P, 1) = 1
  BY <1>1, PlacesAre
<1>3. part = [m \in 1 .. c |-> s[NthPlace(P, m)]]
  BY DEF ItemsAt
<1> HIDE DEF c, part
<1>4. part \in [1 .. c -> T] /\ c \in Nat
  BY <1>1, <1>2, <1>3
<1>5. part \in Seq(T) /\ Len(part) = c /\ DOMAIN part = 1 .. c
  BY <1>4
<1>6. \A m \in 1 .. c : NthPlace(P, m) \in P /\ part[m] = s[NthPlace(P, m)]
  BY <1>2, <1>3
<1>7. \A i \in P : \E m \in 1 .. c : part[m] = s[i]
  BY <1>2, <1>6
<1>8. 1 \in P => part # <<>> /\ part[1] = s[1]
  BY <1>2, <1>5, <1>6
<1> QED BY <1>2, <1>5, <1>6, <1>7, <1>8 DEF c, part

\* What is kept of a set of places is found again in the part.
LEMMA KeptIsCounted ==
    ASSUME NEW T, NEW s \in Seq(T), NEW P \in SUBSET DOMAIN s, NEW Q \in SUBSET P
    PROVE  LET R == {m \in DOMAIN ItemsAt(s, P) : NthPlace(P, m) \in Q}
           IN  Cardinality(Q) \in Nat /\ Cardinality(R) \in Nat
               /\ Cardinality(Q) <= Cardinality(R)
<1> DEFINE c == Cardinality(P)
           R == {m \in DOMAIN ItemsAt(s, P) : NthPlace(P, m) \in Q}
           f == [i \in Q |-> CHOOSE m \in 1 .. c : NthPlace(P, m) = i]
<1>1. Len(s) \in Nat /\ DOMAIN s = 1 .. Len(s) /\ P \in SUBSET (1 .. Len(s))
  OBVIOUS
<1>2. c \in 0 .. Len(s) /\ (\A i \in P : \E m \in 1 .. c : NthPlace(P, m) = i)
  BY <1>1, PlacesAre
<1>3. DOMAIN ItemsAt(s, P) = 1 .. c
  BY ItemsAre
<1>4. IsFiniteSet(1 .. Len(s)) /\ IsFiniteSet(1 .. c)
  BY <1>2, FS_Interval
<1>5. IsFiniteSet(Q) /\ IsFiniteSet(R)
  BY <1>1, <1>3, <1>4, FS_Subset
<1>6. \A i \in Q : f[i] \in 1 .. c /\ NthPlace(P, f[i]) = i
  <2> HIDE DEF c
  <2> QED BY <1>2
<1>7. f \in Injection(Q, R)
  <2>1. f \in [Q -> R]
    BY <1>3, <1>6
  <2> HIDE DEF f
  <2> QED BY <1>6, <2>1 DEF Injection, IsInjective
<1> HIDE DEF f, R
<1> QED BY <1>5, <1>7, FS_Injection, FS_CardinalityType DEF R
=============================================================================
