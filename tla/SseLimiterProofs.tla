-------------------------- MODULE SseLimiterProofs --------------------------
(***************************************************************************)
(* Proofs about SseLimiter, for any finite set of requests and any cap.    *)
(***************************************************************************)
EXTENDS SseLimiter, FiniteSetTheorems, TLAPS

\* Where a request stands decides what its reservation may look like.
Lifecycle ==
  \A r \in Requests :
    /\ pc[r] = "idle" => slot[r] = "none"
    /\ pc[r] \in {"building", "ready", "streaming", "unwinding"} => slot[r] = "held"
    /\ r \in listeners => pc[r] = "streaming"

IInv == TypeOK /\ Lifecycle /\ BudgetExact

\* Holding is finite, so that its cardinality is a number.
LEMMA HoldingFinite == IsFiniteSet(Holding) /\ Cardinality(Holding) \in Nat
<1>1. Holding \subseteq Requests
  BY DEF Holding
<1>2. IsFiniteSet(Holding)
  BY <1>1, RequestsAssumption, FS_Subset
<1> QED
  BY <1>2, FS_CardinalityType

LEMMA InitIInv == Init => IInv
<1> SUFFICES ASSUME Init PROVE IInv
  OBVIOUS
<1>1. TypeOK /\ Lifecycle
  BY DEF Init, TypeOK, Lifecycle, SlotStates, Stages
<1>2. Holding = {}
  BY DEF Init, Holding
<1> QED
  BY <1>1, <1>2, FS_EmptySet, LimitAssumption DEF IInv, BudgetExact, Init

\* The actions that neither take nor return a slot keep Holding: a release only
\* moves its request from held to returning.
HoldsSame(r) == \/ BuildResponse(r) \/ BuildFails(r) \/ StartStream(r)
                \/ CloseUnstarted(r) \/ StreamEnds(r) \/ ReleaseFinally(r)
                \/ ReleaseOnClose(r) \/ ReleaseDel(r) \/ Collected(r)

LEMMA KeepsHolding ==
  ASSUME NEW r \in Requests, TypeOK, HoldsSame(r)
  PROVE  Holding' = Holding /\ reserved' = reserved
<1>1. CASE BuildResponse(r) \/ StartStream(r) \/ CloseUnstarted(r) \/ StreamEnds(r)
  BY <1>1 DEF BuildResponse, StartStream, CloseUnstarted, StreamEnds, Holding
<1>2. CASE BuildFails(r) \/ ReleaseFinally(r) \/ ReleaseOnClose(r) \/ ReleaseDel(r)
  <2>1. Release(r) /\ reserved' = reserved
    BY <1>2 DEF BuildFails, ReleaseFinally, ReleaseOnClose, ReleaseDel
  <2> QED
    BY <2>1 DEF Release, Holding, TypeOK
<1>3. CASE Collected(r)
  BY <1>3 DEF Collected, Holding, TypeOK
<1> QED
  BY <1>1, <1>2, <1>3 DEF HoldsSame

LEMMA ReserveAdds ==
  ASSUME NEW r \in Requests, TypeOK, Lifecycle, Reserve(r)
  PROVE  r \notin Holding /\ Holding' = Holding \cup {r}
  BY DEF Reserve, Goto, Holding, TypeOK, Lifecycle

LEMMA DecrementRemoves ==
  ASSUME NEW r \in Requests, TypeOK, Decrement(r)
  PROVE  r \in Holding /\ Holding' = Holding \ {r}
  BY DEF Decrement, Holding, TypeOK

LEMMA NextIInv == IInv /\ [Next]_vars => IInv'
<1> SUFFICES ASSUME IInv, [Next]_vars PROVE IInv'
  OBVIOUS
<1> USE DEF IInv
<1>1. CASE UNCHANGED vars
  BY <1>1 DEF vars, TypeOK, Lifecycle, BudgetExact, Holding
<1>2. ASSUME NEW r \in Requests, Reserve(r) PROVE IInv'
  <2>1. TypeOK' /\ Lifecycle'
    BY <1>2 DEF Reserve, Goto, TypeOK, Lifecycle, SlotStates, Stages
  <2>2. Cardinality(Holding') = Cardinality(Holding) + 1
    BY <1>2, ReserveAdds, HoldingFinite, FS_AddElement
  <2> QED
    BY <1>2, <2>1, <2>2, LimitAssumption DEF BudgetExact, Reserve, TypeOK
<1>3. ASSUME NEW r \in Requests, Decrement(r) PROVE IInv'
  <2>1. TypeOK' /\ Lifecycle'
    BY <1>3 DEF Decrement, TypeOK, Lifecycle, SlotStates, Stages
  <2>2. /\ Cardinality(Holding') = Cardinality(Holding) - 1
        /\ Cardinality(Holding) # 0
    BY <1>3, DecrementRemoves, HoldingFinite, FS_RemoveElement, FS_EmptySet
  <2>3. reserved' = reserved - 1
    BY <1>3, <2>2 DEF Decrement, BudgetExact, TypeOK
  <2> QED
    BY <2>1, <2>2, <2>3, LimitAssumption DEF BudgetExact, TypeOK
<1>4. ASSUME NEW r \in Requests, HoldsSame(r) PROVE IInv'
  <2>1. BudgetExact'
    BY <1>4, KeepsHolding DEF BudgetExact
  <2>2. CASE \/ BuildResponse(r) \/ StartStream(r)
             \/ CloseUnstarted(r) \/ StreamEnds(r)
    BY <2>1, <2>2 DEF BuildResponse, StartStream, CloseUnstarted, StreamEnds,
                      Goto, TypeOK, Lifecycle, Stages
  <2>3. CASE \/ BuildFails(r) \/ ReleaseFinally(r)
             \/ ReleaseOnClose(r) \/ ReleaseDel(r)
    BY <2>1, <2>3 DEF BuildFails, ReleaseFinally, ReleaseOnClose, ReleaseDel,
                      Release, Goto, TypeOK, Lifecycle, SlotStates, Stages
  <2>4. CASE Collected(r)
    BY <2>1, <2>4 DEF Collected, Goto, TypeOK, Lifecycle, SlotStates, Stages
  <2> QED
    BY <1>4, <2>2, <2>3, <2>4 DEF HoldsSame
<1> QED
  BY <1>1, <1>2, <1>3, <1>4 DEF Next, Unwind, HoldsSame

LEMMA IInvHolds == Spec => []IInv
<1>1. Init => IInv
  BY InitIInv
<1>2. IInv /\ [Next]_vars => IInv'
  BY NextIInv
<1> QED
  BY <1>1, <1>2, PTL DEF Spec

\* The reservations counted by the limiter are exactly those not returned yet,
\* and never more than the cap: messaging.py:41-76 with the three releasing
\* paths of stream.py.
THEOREM BudgetIsExact == Spec => []BudgetExact
<1>1. IInv => BudgetExact
  BY DEF IInv
<1> QED
  BY <1>1, IInvHolds, PTL

\* No queue is registered by a request that holds no slot, hence at most
\* MaxListeners queues exist in the two announcers together.
THEOREM ListenersWithinBudget == Spec => []ListenersHoldSlots
<1>1. ASSUME IInv PROVE ListenersHoldSlots
  <2>1. listeners \subseteq {r \in Requests : slot[r] = "held"}
    BY <1>1 DEF IInv, TypeOK, Lifecycle
  <2>2. listeners \subseteq Holding
    BY <2>1 DEF Holding
  <2>3. /\ Cardinality(listeners) <= Cardinality(Holding)
        /\ IsFiniteSet(listeners)
    BY <2>2, HoldingFinite, FS_Subset
  <2>4. Cardinality(listeners) \in Nat
    BY <2>3, FS_CardinalityType
  <2> QED
    BY <1>1, <2>1, <2>3, <2>4, HoldingFinite, LimitAssumption
       DEF IInv, BudgetExact, ListenersHoldSlots
<1> QED
  BY <1>1, IInvHolds, PTL

\* Every step of the limiter is a step of the abstract budget or leaves it
\* alone: admission and return are atomic to whoever sees only who is inside.
THEOREM LimiterImplementsBudget == Spec => BudgetSpec
<1>1. Init => Budget!Init
  BY DEF Init, Budget!Init, Holding
<1>2. IInv /\ [Next]_vars => [Budget!Next]_Holding
  <2> SUFFICES ASSUME IInv, [Next]_vars PROVE [Budget!Next]_Holding
    OBVIOUS
  <2> USE DEF IInv
  <2>1. CASE UNCHANGED vars
    BY <2>1 DEF vars, Holding
  <2>2. ASSUME NEW r \in Requests, Reserve(r) PROVE Budget!Next
    <3>1. Cardinality(Holding) < MaxListeners
      BY <2>2 DEF Reserve, BudgetExact
    <3>2. Budget!Cardinality(Holding) = Cardinality(Holding)
      BY DEF Budget!Cardinality, Cardinality
    <3> QED
      BY <2>2, <3>1, <3>2, ReserveAdds DEF Budget!Next, Budget!Enter
  <2>3. ASSUME NEW r \in Requests, Decrement(r) PROVE Budget!Next
    BY <2>3, DecrementRemoves DEF Budget!Next, Budget!Leave
  <2>4. ASSUME NEW r \in Requests, HoldsSame(r) PROVE UNCHANGED Holding
    BY <2>4, KeepsHolding
  <2> QED
    BY <2>1, <2>2, <2>3, <2>4 DEF Next, Unwind, HoldsSame
<1> QED
  BY <1>1, <1>2, IInvHolds, PTL DEF Spec, BudgetSpec, Budget!Spec
=============================================================================
