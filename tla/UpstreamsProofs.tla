----------------------------- MODULE UpstreamsProofs ---------------------------
(***************************************************************************)
(* Proofs about the calls to other services, for any callers, thresholds,  *)
(* slots and intervals: the circuit of the AI service and the pace of its  *)
(* calls.                                                                  *)
(***************************************************************************)
EXTENDS MCUpstreams, FiniteSetTheorems, TLAPS

(***************************************************************************)
(* The circuit.                                                            *)
(***************************************************************************)
\* streak counts failures, none of them followed by a success.
StreakCounted == streak <= fails

IInv == TypeOK /\ StreakCounted /\ OpenedByFailures /\ ProbeHasOwner

Owner(c) == claimed[c] /\ pc[c] = "calling"

-----------------------------------------------------------------------------
\* The counters under each operation of the circuit.
Counters ==
    /\ status \in Statuses /\ streak \in 0..(Threshold - 1)
    /\ fails \in 0..Threshold /\ streak <= fails
    /\ status # "CLOSED" => fails = Threshold

LEMMA FailureCounts ==
  ASSUME Counters, ReportFailure
  PROVE  Counters'
BY ThresholdAssumption DEF Counters, ReportFailure, Statuses

LEMMA SuccessCounts ==
  ASSUME Counters, ReportSuccess
  PROVE  Counters'
BY ThresholdAssumption DEF Counters, ReportSuccess, Statuses

LEMMA CheckCounts ==
  ASSUME Counters, CheckOpen
  PROVE  Counters'
BY DEF Counters, CheckOpen, Checked, Statuses

\* A circuit whose claim is not set needs no owner.
LEMMA NoClaim == ASSUME probing' = FALSE PROVE ProbeHasOwner'
BY DEF ProbeHasOwner

\* A failure clears the claim, or finds it clear.
LEMMA FailureClears ==
  ASSUME ProbeHasOwner, TypeOK, ReportFailure
  PROVE  probing' = FALSE
BY DEF ProbeHasOwner, TypeOK, ReportFailure

\* A step that leaves the circuit half open, the claim and the owner's call.
LEMMA OwnerStays ==
  ASSUME ProbeHasOwner, probing' = probing,
         status = "HALF_OPEN" => status' = "HALF_OPEN",
         \A d \in Callers : Owner(d) => claimed'[d] /\ pc'[d] = "calling"
  PROVE  ProbeHasOwner'
BY DEF ProbeHasOwner, Owner

-----------------------------------------------------------------------------
LEMMA InitIInv == Init => IInv
<1> SUFFICES ASSUME Init PROVE IInv
  OBVIOUS
<1> USE ThresholdAssumption DEF Init
<1>1. /\ pc \in [Callers -> Stages]
      /\ claimed \in [Callers -> BOOLEAN] /\ inProbe \in [Callers -> BOOLEAN]
  BY DEF Stages
<1>2. status \in Statuses /\ streak \in 0..(Threshold - 1) /\ fails \in 0..Threshold
  BY DEF Statuses
<1>3. lapsed \in BOOLEAN /\ probing \in BOOLEAN
  OBVIOUS
<1>4. StreakCounted /\ OpenedByFailures /\ ProbeHasOwner
  BY DEF StreakCounted, OpenedByFailures, ProbeHasOwner
<1> QED
  BY <1>1, <1>2, <1>3, <1>4 DEF IInv, TypeOK

LEMMA CallerTypes ==
  ASSUME TypeOK, NEW c \in Callers, CallerStep(c)
  PROVE  /\ pc' \in [Callers -> Stages]
         /\ claimed' \in [Callers -> BOOLEAN] /\ inProbe' \in [Callers -> BOOLEAN]
         /\ lapsed' \in BOOLEAN /\ probing' \in BOOLEAN
<1> USE DEF TypeOK, Goto, Unclaim, Stages, circuit
<1>1. CASE Admit(c)
  <2>1. (Checked = "HALF_OPEN") \in BOOLEAN
    OBVIOUS
  <2> QED
    BY <1>1, <2>1 DEF Admit, CheckOpen
<1>2. CASE ReadStatus(c)
  BY <1>2 DEF ReadStatus
<1>3. CASE TryClaim(c)
  BY <1>3 DEF TryClaim
<1>4. CASE Succeed(c)
  BY <1>4 DEF Succeed, ReportSuccess
<1>5. CASE Fail(c)
  BY <1>5 DEF Fail, ReportFailure
<1>6. CASE EndOtherwise(c) \/ Unwind(c)
  BY <1>6 DEF EndOtherwise, Unwind, ReleaseProbe
<1>7. CASE Recheck(c)
  BY <1>7 DEF Recheck, CheckOpen
<1> QED
  BY <1>1, <1>2, <1>3, <1>4, <1>5, <1>6, <1>7 DEF CallerStep, CallEnds

LEMMA CallerCounts ==
  ASSUME Counters, NEW c \in Callers, CallerStep(c)
  PROVE  Counters'
<1>1. CASE Admit(c) \/ Recheck(c)
  BY <1>1, CheckCounts DEF Admit, Recheck
<1>2. CASE Succeed(c)
  BY <1>2, SuccessCounts DEF Succeed
<1>3. CASE Fail(c)
  BY <1>3, FailureCounts DEF Fail
<1>4. CASE ReadStatus(c) \/ TryClaim(c) \/ EndOtherwise(c) \/ Unwind(c)
  BY <1>4 DEF ReadStatus, TryClaim, EndOtherwise, Unwind, ReleaseProbe, circuit, Counters
<1> QED
  BY <1>1, <1>2, <1>3, <1>4 DEF CallerStep, CallEnds

LEMMA CallerOwner ==
  ASSUME TypeOK, ProbeHasOwner, NEW c \in Callers, CallerStep(c)
  PROVE  ProbeHasOwner'
<1> USE DEF Goto, Unclaim
<1>1. CASE Admit(c) \/ Recheck(c)
  <2>1. \A d \in Callers : Owner(d) => claimed'[d] /\ pc'[d] = "calling"
    BY <1>1 DEF Admit, Recheck, Owner, TypeOK
  <2>2. probing' = probing /\ (status = "HALF_OPEN" => status' = "HALF_OPEN")
    BY <1>1 DEF Admit, Recheck, CheckOpen, Checked
  <2> QED
    BY <2>1, <2>2, OwnerStays
<1>2. CASE ReadStatus(c)
  <2>1. \A d \in Callers : Owner(d) => claimed'[d] /\ pc'[d] = "calling"
    BY <1>2 DEF ReadStatus, Owner, TypeOK
  <2> QED
    BY <1>2, <2>1, OwnerStays DEF ReadStatus, circuit
<1>3. CASE TryClaim(c)
  <2>1. CASE status = "HALF_OPEN" /\ ~probing
    BY <1>3, <2>1 DEF TryClaim, ProbeHasOwner, TypeOK
  <2>2. CASE ~(status = "HALF_OPEN" /\ ~probing)
    <3>1. \A d \in Callers : Owner(d) => claimed'[d] /\ pc'[d] = "calling"
      BY <1>3, <2>2 DEF TryClaim, Owner, TypeOK
    <3> QED
      BY <1>3, <2>2, <3>1, OwnerStays DEF TryClaim
  <2> QED
    BY <2>1, <2>2
<1>4. CASE Succeed(c)
  BY <1>4, NoClaim DEF Succeed, ReportSuccess
<1>5. CASE Fail(c)
  BY <1>5, FailureClears, NoClaim DEF Fail
<1>6. CASE EndOtherwise(c) \/ Unwind(c)
  <2>1. CASE claimed[c]
    BY <1>6, <2>1, NoClaim DEF EndOtherwise, Unwind, ReleaseProbe
  <2>2. CASE ~claimed[c]
    <3>1. \A d \in Callers : Owner(d) => claimed'[d] /\ pc'[d] = "calling"
      BY <1>6, <2>2 DEF EndOtherwise, Unwind, Owner, TypeOK
    <3>2. probing' = probing /\ status' = status
      BY <1>6, <2>2 DEF EndOtherwise, Unwind, ReleaseProbe
    <3> QED
      BY <3>1, <3>2, OwnerStays
  <2> QED
    BY <2>1, <2>2
<1> QED
  BY <1>1, <1>2, <1>3, <1>4, <1>5, <1>6 DEF CallerStep, CallEnds

LEMMA NextIInv == IInv /\ [Next]_vars => IInv'
<1> SUFFICES ASSUME IInv, [Next]_vars PROVE IInv'
  OBVIOUS
<1>1. TypeOK /\ ProbeHasOwner /\ Counters
  BY DEF IInv, TypeOK, StreakCounted, OpenedByFailures, Counters
<1>2. ASSUME NEW c \in Callers, CallerStep(c) PROVE IInv'
  BY <1>1, <1>2, CallerTypes, CallerCounts, CallerOwner
     DEF IInv, TypeOK, StreakCounted, OpenedByFailures, Counters
<1>3. CASE WindowLapses
  <2>1. TypeOK' /\ Counters'
    BY <1>1, <1>3 DEF WindowLapses, TypeOK, Counters
  <2>2. ProbeHasOwner'
    BY <1>1, <1>3 DEF WindowLapses, ProbeHasOwner
  <2> QED
    BY <2>1, <2>2 DEF IInv, StreakCounted, OpenedByFailures, Counters
<1>4. CASE Observe
  <2>1. Counters'
    BY <1>1, <1>4, CheckCounts DEF Observe
  <2>2. TypeOK'
    BY <1>1, <1>4, <2>1 DEF Observe, CheckOpen, TypeOK, Counters
  <2>3. ProbeHasOwner'
    BY <1>1, <1>4 DEF Observe, CheckOpen, ProbeHasOwner
  <2> QED
    BY <2>1, <2>2, <2>3 DEF IInv, StreakCounted, OpenedByFailures, Counters
<1>5. CASE UNCHANGED vars
  BY <1>5 DEF vars, circuit, IInv, TypeOK, StreakCounted, OpenedByFailures, ProbeHasOwner
<1> QED
  BY <1>2, <1>3, <1>4, <1>5 DEF Next

LEMMA IInvHolds == Spec => []IInv
BY InitIInv, NextIInv, PTL DEF Spec

\* The claim on the half-open probe is never left without a caller that will
\* clear it (market_state.py, try_claim / report / release).
THEOREM ClaimHasOwner == Spec => []ProbeHasOwner
<1>1. IInv => ProbeHasOwner
  BY DEF IInv
<1> QED
  BY <1>1, IInvHolds, PTL

\* The circuit opens only after Threshold failures with no success between
\* them (report_circuit_result).
THEOREM OpensOnlyByFailures == Spec => []OpenedByFailures
<1>1. IInv => OpenedByFailures
  BY DEF IInv
<1> QED
  BY <1>1, IInvHolds, PTL

\* Types: the streak stays below the threshold.
THEOREM CircuitTypes == Spec => []TypeOK
<1>1. IInv => TypeOK
  BY DEF IInv
<1> QED
  BY <1>1, IInvHolds, PTL

(***************************************************************************)
(* The pace of AI calls.  A reservation puts the next slot later; it is    *)
(* covered as long as its caller waits for it or is about to give it back. *)
(***************************************************************************)
CallPCs == {"idle", "again", "wait", "abort", "queue", "calling", "text"}
Paces == /\ callsNext \in Nat /\ callsAllowed \in Nat /\ callsLongest \in Nat
         /\ callsAllowed <= callsLongest
         /\ callsWait \in [Ai!Callers -> 0 .. WaitCap] /\ callsOver \subseteq Ai!Paced

\* Who still owes the slot that makes the pace late: a caller whose wait is
\* longer than the cap, one that will send when its slot comes, or one that
\* aborts.
Owes(c) ==
    \/ callsPc[c] = "abort"
    \/ callsPc[c] = "wait" /\ (c \in callsOver \/ callsNext <= callsWait[c] + CallInterval)
Covered == callsNext <= callsLongest + CallInterval \/ \E c \in Ai!Callers : Owes(c)

\* Who is in a call has its slot, and so has a stream that tries again.
Held == \A c \in Ai!Callers :
            callsPc[c] \in {"calling", "text"} \/ c \in StreamCallers \cap callsSecond
                => c \in callsHolding

Rooms == \A kind \in {ChatCallers, StreamCallers, CompatCallers} :
            callsHolding \subseteq Ai!Callers /\ Cardinality(callsHolding \cap kind) <= CallSlots
CallCounts ==
    /\ callsShutdown \in BOOLEAN /\ callsPc \in [Ai!Callers -> CallPCs]
    /\ callsSecond \subseteq Ai!Callers
    /\ callsCalls \in 0 .. MaxCalls /\ callsBlocks \in 0 .. MaxBlocks
CallsInv == Paces /\ Covered /\ Held /\ Rooms /\ CallCounts

\* The instance's counting is the library's.
LEMMA SameCount == ASSUME NEW S PROVE Ai!Cardinality(S) = Cardinality(S)
  BY DEF Ai!Cardinality, Cardinality

LEMMA InitCalls == Ai!Init => CallsInv
<1> SUFFICES ASSUME Ai!Init PROVE CallsInv
  OBVIOUS
<1>1. \A kind : Cardinality({} \cap kind) = 0
  <2>1. \A kind : {} \cap kind = {}
    OBVIOUS
  <2> QED BY <2>1, FS_EmptySet
<1>2. Rooms
  BY <1>1, CallsAssumption DEF Ai!Init, Rooms
<1>3. Paces /\ Covered
  BY CallsAssumption DEF Ai!Init, Paces, Covered
<1>4. Held
  BY DEF Ai!Init, Held
<1>5. CallCounts
  <2>1. callsPc \in [Ai!Callers -> CallPCs]
    BY DEF Ai!Init, CallPCs
  <2>2. 0 \in 0 .. MaxCalls /\ 0 \in 0 .. MaxBlocks
    BY CallsAssumption
  <2> QED BY <2>1, <2>2 DEF Ai!Init, CallCounts
<1> QED BY <1>2, <1>3, <1>4, <1>5 DEF CallsInv

LEMMA CallCountsNext == ASSUME CallsInv, Ai!Next PROVE CallCounts'
<1> USE CallsAssumption DEF CallsInv, CallCounts, CallPCs, Ai!Goes, Ai!Ends
<1>1. CASE Ai!Tick \/ Ai!Shutdown
  BY <1>1 DEF Ai!Tick, Ai!Shutdown
<1>2. ASSUME NEW c \in Ai!Callers,
             Ai!Asks(c) \/ Ai!Waited(c) \/ Ai!Aborts(c) \/ Ai!CallStarts(c) \/ Ai!Delivers(c)
      PROVE  CallCounts'
  <2>1. callsPc' \in [Ai!Callers -> CallPCs]
    BY <1>2 DEF Ai!Asks, Ai!ChatAsks, Ai!StreamAsks, Ai!CompatAsks, Ai!Waited, Ai!Aborts,
         Ai!CallStarts, Ai!ChatCalls, Ai!StreamCalls, Ai!CompatCalls, Ai!Calls, Ai!Delivers
  <2>2. callsSecond' \subseteq Ai!Callers /\ callsShutdown' \in BOOLEAN
    BY <1>2 DEF Ai!Asks, Ai!ChatAsks, Ai!StreamAsks, Ai!CompatAsks, Ai!Waited, Ai!Aborts,
         Ai!CallStarts, Ai!ChatCalls, Ai!StreamCalls, Ai!CompatCalls, Ai!Calls, Ai!Delivers
  <2>3. callsCalls' \in 0 .. MaxCalls /\ callsBlocks' \in 0 .. MaxBlocks
    BY <1>2 DEF Ai!Asks, Ai!ChatAsks, Ai!StreamAsks, Ai!CompatAsks, Ai!Waited, Ai!Aborts,
         Ai!CallStarts, Ai!ChatCalls, Ai!StreamCalls, Ai!CompatCalls, Ai!Calls, Ai!Delivers,
         Ai!Begins
  <2> QED BY <2>1, <2>2, <2>3
<1>3. ASSUME NEW c \in Ai!Callers, Ai!Rejected(c) \/ Ai!Answers(c)
      PROVE  CallCounts'
  <2>1. callsPc' \in [Ai!Callers -> CallPCs]
    BY <1>3 DEF Ai!Rejected, Ai!ChatIsRejected, Ai!StreamIsRejected, Ai!CompatIsRejected,
         Ai!Answers, Ai!ChatAnswers, Ai!StreamEnds, Ai!CompatAnswers, Ai!ChatFails,
         Ai!StreamFails, Ai!CompatFails, Ai!Succeeds, Ai!Fails, Ai!Throttled
  <2>2. callsSecond' \subseteq Ai!Callers /\ callsShutdown' \in BOOLEAN
    BY <1>3 DEF Ai!Rejected, Ai!ChatIsRejected, Ai!StreamIsRejected, Ai!CompatIsRejected,
         Ai!Answers, Ai!ChatAnswers, Ai!StreamEnds, Ai!CompatAnswers, Ai!ChatFails,
         Ai!StreamFails, Ai!CompatFails, Ai!Succeeds, Ai!Fails, Ai!Throttled
  <2>3. callsCalls' \in 0 .. MaxCalls /\ callsBlocks' \in 0 .. MaxBlocks
    BY <1>3 DEF Ai!Rejected, Ai!ChatIsRejected, Ai!StreamIsRejected, Ai!CompatIsRejected,
         Ai!Answers, Ai!ChatAnswers, Ai!StreamEnds, Ai!CompatAnswers, Ai!ChatFails,
         Ai!StreamFails, Ai!CompatFails, Ai!Succeeds, Ai!Fails, Ai!Throttled
  <2> QED BY <2>1, <2>2, <2>3
<1> QED BY <1>1, <1>2, <1>3 DEF Ai!Next

\* How a step may move the pace without a new reservation.
Later(t) == Ai!Later(t, CallInterval)
LEMMA CoverStays ==
    ASSUME Paces, Covered, CallCounts, NEW c \in Ai!Callers, UNCHANGED <<callsWait, callsOver>>,
           callsLongest' \in Nat, callsLongest <= callsLongest',
           callsNext' \in {callsNext, Later(callsNext)},
           \A d \in Ai!Callers \ {c} : callsPc'[d] = callsPc[d],
           callsPc[c] \notin {"wait", "abort"}
    PROVE  Covered'
<1>1. \A d \in Ai!Callers : Owes(d) => d # c
  BY DEF Owes
<1>2. callsNext' <= callsNext \/ callsNext' <= CallInterval
  BY CallsAssumption DEF Later, Ai!Later, Paces
<1>3. callsNext' \in Nat
  BY CallsAssumption DEF Later, Ai!Later, Paces
<1>4. CASE callsNext <= callsLongest + CallInterval
  <2>1. callsNext \in Nat /\ callsLongest \in Nat /\ CallInterval \in Nat
    BY CallsAssumption DEF Paces
  <2>2. callsNext' <= callsLongest' + CallInterval
    BY <1>2, <1>3, <1>4, <2>1
  <2> QED BY <2>2 DEF Covered
<1>5. ASSUME NEW d \in Ai!Callers, Owes(d) PROVE Owes(d)'
  <2>1. callsWait[d] \in Nat
    BY CallsAssumption DEF Paces
  <2> QED BY <1>1, <1>2, <1>3, <1>5, <2>1, CallsAssumption DEF Owes, Paces
<1> QED BY <1>4, <1>5 DEF Covered

\* The pace, and who it waits for.
LEMMA ReserveCovers ==
    ASSUME CallsInv, NEW c \in Ai!Paced, Ai!Reserve(c), Ai!Goes(c, "wait")
    PROVE  Paces' /\ Covered'
<1> DEFINE slot == Ai!Later(callsAllowed, callsNext)
<1>1. slot \in Nat /\ c \in Ai!Callers
  BY DEF CallsInv, Paces, Ai!Later, Ai!Callers, Ai!Paced
<1>2. /\ callsNext' = slot + CallInterval /\ UNCHANGED <<callsAllowed, callsLongest>>
      /\ callsWait' = [callsWait EXCEPT ![c] = Ai!Earlier(slot, WaitCap)]
      /\ callsOver' = IF slot > WaitCap THEN callsOver \cup {c} ELSE callsOver \ {c}
  BY DEF Ai!Reserve
<1> HIDE DEF slot
<1>3. Ai!Earlier(slot, WaitCap) \in 0 .. WaitCap
  BY <1>1, CallsAssumption DEF Ai!Earlier
<1>4. callsWait' \in [Ai!Callers -> 0 .. WaitCap]
  BY <1>1, <1>2, <1>3 DEF CallsInv, Paces
<1>5. callsNext' \in Nat /\ callsOver' \subseteq Ai!Paced
  BY <1>1, <1>2, CallsAssumption DEF CallsInv, Paces
<1>6. Paces'
  BY <1>2, <1>4, <1>5 DEF CallsInv, Paces
<1>7. callsPc'[c] = "wait" /\ callsWait'[c] = Ai!Earlier(slot, WaitCap)
  BY <1>1, <1>2 DEF CallsInv, Paces, CallCounts, Ai!Goes
<1>8. Owes(c)'
  <2>1. CASE slot > WaitCap
    BY <1>2, <1>7, <2>1 DEF Owes
  <2>2. CASE ~(slot > WaitCap)
    <3>1. Ai!Earlier(slot, WaitCap) = slot
      BY <1>1, <2>2, CallsAssumption DEF Ai!Earlier
    <3> QED BY <1>1, <1>2, <1>7, <3>1, CallsAssumption DEF Owes
  <2> QED BY <2>1, <2>2
<1> QED BY <1>1, <1>6, <1>8 DEF Covered

LEMMA TickCovers == ASSUME CallsInv, Ai!Tick PROVE Paces' /\ Covered'
<1>1. \A t \in Nat : Ai!Less(t) \in Nat /\ Ai!Less(t) <= t
  BY DEF Ai!Less
<1>2. \A s, t \in Nat : s <= t => Ai!Less(s) <= Ai!Less(t)
  BY DEF Ai!Less
<1>3. \A s, t \in Nat : s <= t + CallInterval => Ai!Less(s) <= Ai!Less(t) + CallInterval
  BY CallsAssumption DEF Ai!Less
<1>4. /\ callsNext' = Ai!Less(callsNext) /\ callsAllowed' = Ai!Less(callsAllowed)
      /\ callsLongest' = Ai!Less(callsLongest)
      /\ callsWait' = [c \in Ai!Callers |-> Ai!Less(callsWait[c])]
      /\ UNCHANGED <<callsOver, callsPc>>
  BY DEF Ai!Tick
<1>5. \A c \in Ai!Callers : callsWait[c] \in 0 .. WaitCap /\ callsWait[c] \in Nat
  BY CallsAssumption DEF CallsInv, Paces
<1>6. \A c \in Ai!Callers : Ai!Less(callsWait[c]) \in 0 .. WaitCap
  BY <1>1, <1>5, CallsAssumption
<1>7. Paces'
  BY <1>1, <1>2, <1>4, <1>6 DEF CallsInv, Paces
<1>8. \A c \in Ai!Callers : Owes(c) => Owes(c)'
  BY <1>3, <1>4, <1>5 DEF CallsInv, Paces, Owes
<1>9. callsNext <= callsLongest + CallInterval => callsNext' <= callsLongest' + CallInterval
  BY <1>3, <1>4 DEF CallsInv, Paces
<1> QED BY <1>7, <1>8, <1>9 DEF CallsInv, Covered

\* A wait that ends with its slot has come to it; any other aborts, and an
\* abort puts the pace back.
LEMMA WaitedCovers ==
    ASSUME CallsInv, NEW c \in Ai!Callers, Ai!Waited(c)
    PROVE  Paces' /\ Covered'
<1>1. /\ UNCHANGED <<callsNext, callsAllowed, callsLongest, callsWait, callsOver>>
      /\ callsPc[c] = "wait"
      /\ callsPc' = [callsPc EXCEPT ![c] =
             IF c \in callsOver \/ callsWait[c] > 0 THEN "abort" ELSE "queue"]
  BY DEF Ai!Waited, Ai!Goes, Ai!pace, Ai!waits
<1>2. callsWait[c] \in Nat
  BY CallsAssumption DEF CallsInv, Paces
<1>3. \A d \in Ai!Callers \ {c} : callsPc'[d] = callsPc[d]
  BY <1>1 DEF CallsInv, CallCounts
<1>4. CASE c \in callsOver \/ callsWait[c] > 0
  BY <1>1, <1>4 DEF CallsInv, CallCounts, Covered, Owes, Paces
<1>5. CASE ~(c \in callsOver \/ callsWait[c] > 0)
  <2>1. callsWait[c] = 0
    BY <1>2, <1>5
  <2>2. Owes(c) => callsNext <= callsLongest + CallInterval
    BY <1>1, <1>5, <2>1, CallsAssumption DEF Owes, CallsInv, Paces
  <2> QED BY <1>1, <1>3, <2>2 DEF CallsInv, Covered, Owes, Paces
<1> QED BY <1>4, <1>5

LEMMA AbortsCovers ==
    ASSUME CallsInv, NEW c \in Ai!Callers, Ai!Aborts(c)
    PROVE  Paces' /\ Covered'
<1>1. /\ callsNext' = Ai!Earlier(callsNext, callsAllowed + CallInterval)
      /\ UNCHANGED <<callsAllowed, callsLongest, callsWait, callsOver>>
  BY DEF Ai!Aborts, Ai!RolledBack, Ai!waits
<1>2. callsNext' \in Nat /\ callsNext' <= callsAllowed + CallInterval
  BY <1>1, CallsAssumption DEF CallsInv, Paces, Ai!Earlier
<1> QED BY <1>1, <1>2, CallsAssumption DEF CallsInv, Paces, Covered

LEMMA PaceNext == ASSUME CallsInv, Ai!Next PROVE Paces' /\ Covered'
<1>1. CASE Ai!Shutdown
  BY <1>1 DEF Ai!Shutdown, Ai!pace, Ai!waits, CallsInv, Paces, Covered, Owes
<1>2. ASSUME NEW c \in Ai!Callers, Ai!ChatAsks(c) \/ Ai!StreamAsks(c)
      PROVE  Paces' /\ Covered'
  BY <1>2, ReserveCovers DEF Ai!ChatAsks, Ai!StreamAsks, Ai!Paced
<1>3. ASSUME NEW c \in Ai!Callers,
             Ai!CompatAsks(c) \/ Ai!CallStarts(c) \/ Ai!Delivers(c) \/ Ai!Rejected(c)
                 \/ Ai!Answers(c)
      PROVE  Paces' /\ Covered'
  <2>1. /\ UNCHANGED <<callsWait, callsOver>>
        /\ callsPc[c] \notin {"wait", "abort"}
    BY <1>3 DEF Ai!CompatAsks, Ai!Begins, Ai!CallStarts, Ai!ChatCalls, Ai!StreamCalls,
         Ai!CompatCalls, Ai!Calls, Ai!Delivers, Ai!Rejected, Ai!ChatIsRejected,
         Ai!StreamIsRejected, Ai!CompatIsRejected, Ai!Answers, Ai!ChatAnswers,
         Ai!StreamEnds, Ai!CompatAnswers, Ai!ChatFails, Ai!StreamFails, Ai!CompatFails,
         Ai!Succeeds, Ai!Fails, Ai!Throttled, Ai!InCall, Ai!waits
  <2>2. \A d \in Ai!Callers \ {c} : callsPc'[d] = callsPc[d]
    BY <1>3 DEF Ai!CompatAsks, Ai!CallStarts, Ai!ChatCalls, Ai!StreamCalls,
         Ai!CompatCalls, Ai!Calls, Ai!Delivers, Ai!Rejected, Ai!ChatIsRejected,
         Ai!StreamIsRejected, Ai!CompatIsRejected, Ai!Answers, Ai!ChatAnswers,
         Ai!StreamEnds, Ai!CompatAnswers, Ai!ChatFails, Ai!StreamFails, Ai!CompatFails,
         Ai!Succeeds, Ai!Fails, Ai!Throttled, Ai!Goes, Ai!Ends, CallsInv, CallCounts
  <2>3. \/ UNCHANGED <<callsNext, callsAllowed, callsLongest>>
        \/ callsNext' = Later(callsNext) /\ UNCHANGED <<callsAllowed, callsLongest>>
        \/ /\ callsNext' = callsNext
           /\ \E b \in Backoffs : callsAllowed' = b /\ callsLongest' = Ai!Later(callsLongest, b)
    BY <1>3 DEF Ai!CompatAsks, Ai!CallStarts, Ai!ChatCalls, Ai!StreamCalls,
         Ai!CompatCalls, Ai!Calls, Ai!Delivers, Ai!Rejected, Ai!ChatIsRejected,
         Ai!StreamIsRejected, Ai!CompatIsRejected, Ai!Answers, Ai!ChatAnswers,
         Ai!StreamEnds, Ai!CompatAnswers, Ai!ChatFails, Ai!StreamFails, Ai!CompatFails,
         Ai!Succeeds, Ai!Fails, Ai!Throttled, Ai!pace, Later
  <2>4. /\ callsAllowed' \in Nat /\ callsLongest' \in Nat /\ callsAllowed' <= callsLongest'
        /\ callsLongest <= callsLongest' /\ callsNext' \in {callsNext, Later(callsNext)}
    BY <2>3, CallsAssumption DEF CallsInv, Paces, Ai!Later
  <2>5. callsNext' \in Nat
    BY <2>4, CallsAssumption DEF CallsInv, Paces, Later, Ai!Later
  <2>6. Covered'
    BY <2>1, <2>2, <2>4, CoverStays DEF CallsInv
  <2> QED BY <2>1, <2>4, <2>5, <2>6 DEF CallsInv, Paces
<1> QED BY <1>1, <1>2, <1>3, TickCovers, WaitedCovers, AbortsCovers DEF Ai!Next, Ai!Asks

\* The slots.
LEMMA KindsAreFinite ==
    /\ IsFiniteSet(Ai!Callers)
    /\ \A kind \in {ChatCallers, StreamCallers, CompatCallers} : IsFiniteSet(kind)
  BY CallsAssumption, FS_Union DEF Ai!Callers, Ai!Paced

LEMMA RoomsShrink ==
    ASSUME Rooms, callsHolding' \subseteq callsHolding PROVE Rooms'
<1>1. ASSUME NEW kind \in {ChatCallers, StreamCallers, CompatCallers}
      PROVE  Cardinality(callsHolding' \cap kind) <= CallSlots
  <2>1. /\ IsFiniteSet(callsHolding \cap kind)
        /\ callsHolding' \cap kind \subseteq callsHolding \cap kind
    BY KindsAreFinite, FS_Subset DEF Rooms
  <2>2. IsFiniteSet(callsHolding' \cap kind)
         /\ Cardinality(callsHolding' \cap kind) <= Cardinality(callsHolding \cap kind)
    BY <2>1, FS_Subset
  <2>3. /\ Cardinality(callsHolding \cap kind) \in Nat
        /\ Cardinality(callsHolding' \cap kind) \in Nat
        /\ Cardinality(callsHolding \cap kind) <= CallSlots
    BY <2>1, <2>2, FS_CardinalityType DEF Rooms
  <2> QED BY <2>2, <2>3, CallsAssumption
<1> QED BY <1>1 DEF Rooms

LEMMA CallTakesRoom ==
    ASSUME CallsInv, NEW c \in Ai!Callers, Ai!Calls(c) PROVE Rooms'
<1>1. callsHolding' = callsHolding \cup {c} /\ Ai!MayCall(c)
  BY DEF Ai!Calls
<1>2. CASE c \in callsHolding
  <2>1. callsHolding' = callsHolding
    BY <1>1, <1>2
  <2> QED BY <2>1 DEF CallsInv, Rooms
<1>3. CASE c \notin callsHolding
  <2>1. Ai!FreeSlot(c)
    BY <1>1, <1>3 DEF Ai!MayCall, CallsInv, Held
  <2>2. ASSUME NEW kind \in {ChatCallers, StreamCallers, CompatCallers}
        PROVE  Cardinality(callsHolding' \cap kind) <= CallSlots
    <3>1. IsFiniteSet(callsHolding \cap kind)
      BY KindsAreFinite, FS_Subset
    <3>2. CASE c \in kind
      <4>1. kind = Ai!Kind(c)
        BY <3>2, CallsAssumption DEF Ai!Kind
      <4>2. callsHolding' \cap kind = (callsHolding \cap kind) \cup {c}
        BY <1>1, <3>2
      <4>3. Cardinality(callsHolding' \cap kind) = Cardinality(callsHolding \cap kind) + 1
        BY <1>3, <3>1, <4>2, FS_AddElement
      <4>4. Cardinality(callsHolding \cap kind) < CallSlots
        BY <2>1, <4>1, SameCount DEF Ai!FreeSlot
      <4>5. Cardinality(callsHolding \cap kind) \in Nat
        BY <3>1, FS_CardinalityType
      <4> QED BY <4>3, <4>4, <4>5, CallsAssumption
    <3>3. CASE c \notin kind
      <4>1. callsHolding' \cap kind = callsHolding \cap kind
        BY <1>1, <3>3
      <4> QED BY <4>1 DEF CallsInv, Rooms
    <3> QED BY <3>2, <3>3
  <2>3. callsHolding' \subseteq Ai!Callers
    BY <1>1 DEF CallsInv, Rooms
  <2> QED BY <2>2, <2>3 DEF Rooms
<1> QED BY <1>2, <1>3

LEMMA RoomsNext == ASSUME CallsInv, Ai!Next PROVE Rooms'
<1>1. ASSUME NEW c \in Ai!Callers, Ai!CallStarts(c) PROVE Rooms'
  BY <1>1, CallTakesRoom DEF Ai!CallStarts, Ai!ChatCalls, Ai!StreamCalls, Ai!CompatCalls
<1>2. ASSUME NEW c \in Ai!Callers,
             Ai!Asks(c) \/ Ai!Waited(c) \/ Ai!Aborts(c) \/ Ai!Delivers(c) \/ Ai!Rejected(c)
                 \/ Ai!Answers(c)
      PROVE  callsHolding' \subseteq callsHolding
  BY <1>2 DEF Ai!Asks, Ai!ChatAsks, Ai!StreamAsks, Ai!CompatAsks, Ai!Waited, Ai!Aborts,
       Ai!Delivers, Ai!Rejected, Ai!ChatIsRejected, Ai!StreamIsRejected,
       Ai!CompatIsRejected, Ai!Answers, Ai!ChatAnswers, Ai!StreamEnds, Ai!CompatAnswers,
       Ai!ChatFails, Ai!StreamFails, Ai!CompatFails, Ai!Succeeds, Ai!Fails, Ai!Throttled,
       Ai!Ends
<1>3. Ai!Tick \/ Ai!Shutdown => callsHolding' \subseteq callsHolding
  BY DEF Ai!Tick, Ai!Shutdown
<1> QED BY <1>1, <1>2, <1>3, RoomsShrink DEF Ai!Next, CallsInv

LEMMA HeldNext == ASSUME CallsInv, Ai!Next PROVE Held'
<1> USE DEF CallsInv, CallCounts, Held, Ai!Goes, Ai!Ends
<1>1. CASE Ai!Tick \/ Ai!Shutdown
  BY <1>1 DEF Ai!Tick, Ai!Shutdown
<1>2. ASSUME NEW c \in Ai!Callers,
             Ai!Asks(c) \/ Ai!Waited(c) \/ Ai!Aborts(c) \/ Ai!CallStarts(c) \/ Ai!Delivers(c)
      PROVE  Held'
  BY <1>2 DEF Ai!Asks, Ai!ChatAsks, Ai!StreamAsks, Ai!CompatAsks, Ai!Waited, Ai!Aborts,
       Ai!CallStarts, Ai!ChatCalls, Ai!StreamCalls, Ai!CompatCalls, Ai!Calls, Ai!Delivers
<1>3. ASSUME NEW c \in Ai!Callers, Ai!Rejected(c) \/ Ai!Answers(c)
      PROVE  Held'
  BY <1>3, CallsAssumption
     DEF Ai!Rejected, Ai!ChatIsRejected, Ai!StreamIsRejected, Ai!CompatIsRejected,
         Ai!Answers, Ai!ChatAnswers, Ai!StreamEnds, Ai!CompatAnswers, Ai!ChatFails,
         Ai!StreamFails, Ai!CompatFails, Ai!Succeeds, Ai!Fails, Ai!Throttled
<1> QED BY <1>1, <1>2, <1>3 DEF Ai!Next

\* Traffic that recovers waits behind no slot that never produces a call, and
\* no semaphore is out of permits it has (ai_service.py:747-795, 1013-1020).
THEOREM NoPhantomSlotHolds == Ai!Spec => []NoPhantomSlot
<1>1. CallsInv /\ [Ai!Next]_(Ai!vars) => CallsInv'
  <2>1. CASE Ai!Next
    BY <2>1, CallCountsNext, PaceNext, RoomsNext, HeldNext DEF CallsInv
  <2>2. CASE UNCHANGED Ai!vars
    BY <2>2 DEF Ai!vars, CallsInv, Paces, Covered, Owes, Held, Rooms, CallCounts
  <2> QED BY <2>1, <2>2
<1>2. CallsInv => NoPhantomSlot
  <2> SUFFICES ASSUME CallsInv PROVE Ai!TypeOK /\ Ai!NoPhantomSlot
    BY DEF NoPhantomSlot
  <2>1. Ai!TypeOK
    <3>1. \A kind \in {ChatCallers, StreamCallers, CompatCallers} :
             callsHolding \subseteq Ai!Callers /\ Cardinality(callsHolding \cap kind) <= CallSlots
      BY DEF CallsInv, Rooms
    <3>2. \A kind \in {ChatCallers, StreamCallers, CompatCallers} :
             callsHolding \subseteq Ai!Callers /\ Ai!Cardinality(callsHolding \cap kind) <= CallSlots
      BY <3>1, SameCount
    <3> QED BY <3>2 DEF CallsInv, Paces, CallCounts, CallPCs, Ai!TypeOK
  <2>2. Ai!NoPhantomSlot
    BY DEF CallsInv, Covered, Owes, Ai!NoPhantomSlot, Ai!Waits
  <2> QED BY <2>1, <2>2
<1> QED BY InitCalls, <1>1, <1>2, PTL DEF Ai!Spec

(***************************************************************************)
(* The pool of Yahoo sessions.  A sweep closes what was in no request when *)
(* it looked; who entered a request since waits for the sweep's lock       *)
(* before it sends.                                                        *)
(***************************************************************************)
\* Who has been paced or sent is marked as busy, and was so already when the
\* holder of the lock looked.
InRequest == {"paced", "calling"}
BusyIsSeen ==
    \A t \in YahooThreads :
        /\ yahooPc[t] \in InRequest \cup {"active"} => t \in yahooActive
        /\ yahooPc[t] \in InRequest /\ yahooLock # "free" => t \in yahooSeen
        /\ yahooPc[t] \in {"sweeping", "sweeping2"} => yahooLock = t

\* The slots, and the rest of the types.
YahooRoom == yahooHolding \subseteq YahooThreads /\ Cardinality(yahooHolding) <= YahooSlots
YahooTypes ==
    /\ yahooPc \in [YahooThreads -> Yp!Labels]
    /\ yahooOpen \subseteq YahooThreads /\ yahooFresh \subseteq YahooThreads
    /\ yahooPool \subseteq YahooThreads /\ yahooActive \subseteq YahooThreads
    /\ yahooSeen \subseteq YahooThreads
    /\ yahooLock \in YahooThreads \cup {"free", "reaper"} /\ yahooExcluded \in BOOLEAN
YahooCounts ==
    /\ yahooTries \in [YahooThreads -> 0 .. YahooRetries]
    /\ yahooAtStart \in [YahooThreads -> BOOLEAN]
    /\ yahooBlocks \in 0 .. YahooBlocks /\ yahooReaps \in 0 .. YahooReaps
YahooInv == YahooTypes /\ YahooCounts /\ YahooRoom /\ BusyIsSeen

LEMMA SameYahooCount == ASSUME NEW S PROVE Yp!Cardinality(S) = Cardinality(S)
  BY DEF Yp!Cardinality, Cardinality

LEMMA InitYahoo == Yp!Init => YahooInv
<1> SUFFICES ASSUME Yp!Init PROVE YahooInv
  OBVIOUS
<1>1. YahooTypes
  BY DEF Yp!Init, YahooTypes, Yp!Labels
<1>2. YahooCounts
  <2>1. 0 \in 0 .. YahooRetries /\ 0 \in 0 .. YahooBlocks /\ 0 \in 0 .. YahooReaps
    BY YahooAssumption
  <2> QED BY <2>1 DEF Yp!Init, YahooCounts
<1>3. YahooRoom
  BY FS_EmptySet, YahooAssumption DEF Yp!Init, YahooRoom
<1>4. BusyIsSeen
  BY DEF Yp!Init, BusyIsSeen, InRequest
<1> QED BY <1>1, <1>2, <1>3, <1>4 DEF YahooInv

\* Only sending takes a slot, and only an answer gives one back.
LEMMA YahooRoomNext == ASSUME YahooInv, Yp!Next PROVE YahooRoom'
<1>1. ASSUME NEW t \in YahooThreads, Yp!Send(t)
      PROVE  YahooRoom'
  <2>1. yahooHolding' = yahooHolding \cup {t}
    BY <1>1 DEF Yp!Send
  <2>2. CASE t \in yahooHolding
    <3>1. yahooHolding' = yahooHolding
      BY <2>1, <2>2
    <3> QED BY <3>1 DEF YahooInv, YahooRoom
  <2>3. CASE t \notin yahooHolding
    <3>1. Cardinality(yahooHolding) < YahooSlots
      BY <1>1, <2>3, SameYahooCount DEF Yp!Send, Yp!HasSlot
    <3>2. IsFiniteSet(yahooHolding)
      BY YahooAssumption, FS_Subset DEF YahooInv, YahooRoom
    <3>3. Cardinality(yahooHolding') = Cardinality(yahooHolding) + 1
      BY <2>1, <2>3, <3>2, FS_AddElement
    <3>4. Cardinality(yahooHolding) \in Nat
      BY <3>2, FS_CardinalityType
    <3> QED BY <2>1, <3>1, <3>3, <3>4, YahooAssumption DEF YahooInv, YahooRoom
  <2> QED BY <2>2, <2>3
<1>2. ASSUME NEW t \in YahooThreads, Yp!Answers(t)
      PROVE  YahooRoom'
  <2>1. yahooHolding' \subseteq yahooHolding /\ yahooHolding \subseteq YahooThreads
    BY <1>2 DEF Yp!Answers, YahooInv, YahooRoom
  <2>2. IsFiniteSet(yahooHolding)
    BY <2>1, YahooAssumption, FS_Subset
  <2>3. /\ Cardinality(yahooHolding') <= Cardinality(yahooHolding)
        /\ Cardinality(yahooHolding') \in Nat /\ Cardinality(yahooHolding) \in Nat
    BY <2>1, <2>2, FS_Subset, FS_CardinalityType
  <2> QED BY <2>1, <2>3, YahooAssumption DEF YahooInv, YahooRoom
<1>3. CASE UNCHANGED yahooHolding
  BY <1>3 DEF YahooInv, YahooRoom
<1>4. ASSUME NEW t \in YahooThreads, Yp!Start(t) \/ Yp!Continue(t), ~Yp!Send(t), ~Yp!Answers(t)
      PROVE  UNCHANGED yahooHolding
  BY <1>4 DEF Yp!Start, Yp!Continue, Yp!Turned, Yp!Asks, Yp!Refresh, Yp!GetSession, Yp!Activate,
       Yp!Pace, Yp!SaysClosed, Yp!HandleBlock, Yp!Rotate, Yp!SweepLooks, Yp!SweepCloses,
       Yp!Failed, Yp!Again, Yp!Succeeds, Yp!ClearRateLimit
<1>5. Yp!ReaperLooks \/ Yp!ReaperCloses \/ Yp!WindowLapses => UNCHANGED yahooHolding
  BY DEF Yp!ReaperLooks, Yp!ReaperCloses, Yp!WindowLapses
<1> QED BY <1>1, <1>2, <1>3, <1>4, <1>5 DEF Yp!Next

\* What getting a session does to the pool.
LEMMA GetSessionKeeps ==
    ASSUME YahooInv, NEW t \in YahooThreads, Yp!GetSession(t)
    PROVE  /\ yahooOpen' \subseteq YahooThreads /\ yahooPool' \subseteq YahooThreads
           /\ yahooFresh' \subseteq YahooThreads
           /\ \A u \in yahooActive : u \in yahooOpen => u \in yahooOpen'
<1>1. CASE UNCHANGED Yp!sessions
  BY <1>1 DEF Yp!sessions, YahooInv, YahooTypes
<1>2. CASE ~Yp!Usable(t)
  <2>1. PICK gone \in SUBSET Yp!Evictable(t) :
            /\ yahooOpen' = (yahooOpen \cup {t}) \ gone
            /\ yahooPool' = (yahooPool \cup {t}) \ gone
            /\ yahooFresh' = yahooFresh \cup {t}
    BY <1>2 DEF Yp!GetSession
  <2>2. gone \cap yahooActive = {}
    BY <2>1 DEF Yp!Evictable
  <2> QED BY <2>1, <2>2 DEF YahooInv, YahooTypes
<1> QED BY <1>1, <1>2 DEF Yp!GetSession

\* The session of a request stays open under every step.
LEMMA StaysOpen ==
    ASSUME YahooInv, Yp!Next, NEW t \in YahooThreads, yahooPc[t] = "calling", t \in yahooOpen
    PROVE  t \in yahooOpen'
<1>1. t \in yahooActive /\ (yahooLock # "free" => t \in yahooSeen)
  BY DEF YahooInv, BusyIsSeen, InRequest
<1>2. ASSUME NEW u \in YahooThreads, Yp!GetSession(u)
      PROVE  t \in yahooOpen'
  BY <1>1, <1>2, GetSessionKeeps
<1>3. ASSUME NEW u \in YahooThreads, Yp!SweepCloses(u)
      PROVE  t \in yahooOpen'
  <2>1. yahooLock # "free"
    BY <1>3, YahooAssumption DEF Yp!SweepCloses, YahooInv, BusyIsSeen
  <2> QED BY <1>1, <1>3, <2>1 DEF Yp!SweepCloses, Yp!Close, Yp!Spared
<1>4. CASE Yp!ReaperCloses
  BY <1>1, <1>4 DEF Yp!ReaperCloses, Yp!Close, Yp!Spared
<1>5. ASSUME NEW u \in YahooThreads, Yp!Start(u) \/ Yp!Continue(u),
             ~Yp!GetSession(u), ~Yp!SweepCloses(u)
      PROVE  yahooOpen' = yahooOpen
  BY <1>5 DEF Yp!sessions, Yp!Start, Yp!Continue, Yp!Turned, Yp!Asks, Yp!Refresh, Yp!Activate,
       Yp!Pace, Yp!Send, Yp!SaysClosed, Yp!Answers, Yp!HandleBlock, Yp!Rotate, Yp!SweepLooks,
       Yp!Failed, Yp!Again, Yp!Succeeds, Yp!ClearRateLimit
<1>6. Yp!ReaperLooks \/ Yp!WindowLapses => yahooOpen' = yahooOpen
  BY DEF Yp!ReaperLooks, Yp!WindowLapses, Yp!sessions
<1> QED BY <1>2, <1>3, <1>4, <1>5, <1>6 DEF Yp!Next

LEMMA YahooCountsNext == ASSUME YahooInv, Yp!Next PROVE YahooCounts'
<1>1. ASSUME NEW t \in YahooThreads, Yp!Start(t)
      PROVE  YahooCounts'
  <2>1. 0 \in 0 .. YahooRetries
    BY YahooAssumption
  <2> QED BY <1>1, <2>1 DEF Yp!Start, YahooInv, YahooTypes, YahooCounts
<1>2. ASSUME NEW t \in YahooThreads, Yp!Again(t)
      PROVE  YahooCounts'
  <2>1. yahooTries[t] < YahooRetries => yahooTries[t] + 1 \in 0 .. YahooRetries
    BY YahooAssumption DEF YahooInv, YahooCounts
  <2> QED BY <1>2, <2>1 DEF Yp!Again, YahooInv, YahooCounts
<1>3. ASSUME NEW t \in YahooThreads, Yp!Answers(t)
      PROVE  YahooCounts'
  <2>1. yahooBlocks' \in 0 .. YahooBlocks
    BY <1>3, YahooAssumption DEF Yp!Answers, YahooInv, YahooCounts
  <2> QED BY <1>3, <2>1 DEF Yp!Answers, Yp!wrapper, YahooInv, YahooCounts
<1>4. CASE Yp!ReaperLooks
  BY <1>4, YahooAssumption DEF Yp!ReaperLooks, Yp!wrapper, YahooInv, YahooCounts
<1>5. ASSUME NEW t \in YahooThreads, Yp!Continue(t), ~Yp!Again(t), ~Yp!Answers(t)
      PROVE  UNCHANGED <<Yp!wrapper, yahooBlocks, yahooReaps>>
  BY <1>5 DEF Yp!Continue, Yp!Turned, Yp!Asks, Yp!Refresh, Yp!GetSession, Yp!Activate,
       Yp!Pace, Yp!Send, Yp!SaysClosed, Yp!HandleBlock, Yp!Rotate, Yp!SweepLooks, Yp!SweepCloses,
       Yp!Failed, Yp!Succeeds, Yp!ClearRateLimit
<1>6. Yp!ReaperCloses \/ Yp!WindowLapses => UNCHANGED <<Yp!wrapper, yahooBlocks, yahooReaps>>
  BY DEF Yp!ReaperCloses, Yp!WindowLapses
<1>7. UNCHANGED <<Yp!wrapper, yahooBlocks, yahooReaps>> => YahooCounts'
  BY DEF Yp!wrapper, YahooInv, YahooCounts
<1> QED BY <1>1, <1>2, <1>3, <1>4, <1>5, <1>6, <1>7 DEF Yp!Next

\* The steps of the request itself, by the thread that takes them.
LEMMA YahooTypesNext == ASSUME YahooInv, Yp!Next PROVE YahooTypes'
<1> USE DEF YahooInv, YahooTypes, Yp!Labels, Yp!Goes, Yp!sessions
<1>1. ASSUME NEW t \in YahooThreads, Yp!Asks(t) \/ Yp!Refresh(t)
      PROVE  YahooTypes'
  BY <1>1, GetSessionKeeps DEF Yp!Asks, Yp!Refresh, Yp!GetSession
<1>2. ASSUME NEW t \in YahooThreads,
             Yp!Start(t) \/ Yp!Turned(t) \/ Yp!Activate(t) \/ Yp!Pace(t) \/ Yp!Send(t)
                 \/ Yp!SaysClosed(t) \/ Yp!Answers(t)
      PROVE  YahooTypes'
  BY <1>2 DEF Yp!Start, Yp!Turned, Yp!Activate, Yp!Pace, Yp!Send, Yp!SaysClosed, Yp!Answers
<1>3. ASSUME NEW t \in YahooThreads,
             Yp!HandleBlock(t) \/ Yp!Rotate(t) \/ Yp!SweepLooks(t) \/ Yp!SweepCloses(t)
      PROVE  YahooTypes'
  BY <1>3 DEF Yp!HandleBlock, Yp!Longer, Yp!Rotate, Yp!SweepLooks, Yp!Look, Yp!SweepCloses,
       Yp!Close
<1>4. ASSUME NEW t \in YahooThreads,
             Yp!Failed(t) \/ Yp!Again(t) \/ Yp!Succeeds(t) \/ Yp!ClearRateLimit(t)
      PROVE  YahooTypes'
  BY <1>4 DEF Yp!Failed, Yp!Again, Yp!Succeeds, Yp!ClearRateLimit
<1>5. CASE Yp!ReaperLooks \/ Yp!ReaperCloses \/ Yp!WindowLapses
  BY <1>5 DEF Yp!ReaperLooks, Yp!Look, Yp!ReaperCloses, Yp!Close, Yp!WindowLapses
<1> QED BY <1>1, <1>2, <1>3, <1>4, <1>5 DEF Yp!Next, Yp!Continue

\* A request is paced only while nobody sweeps; a sweep looks at everybody who
\* is in a request.
LEMMA BusyIsSeenNext == ASSUME YahooInv, Yp!Next PROVE BusyIsSeen'
<1> USE YahooAssumption DEF YahooInv, YahooTypes, BusyIsSeen, InRequest, Yp!Goes
<1>1. ASSUME NEW t \in YahooThreads, Yp!Asks(t) \/ Yp!Refresh(t)
      PROVE  BusyIsSeen'
  BY <1>1 DEF Yp!Asks, Yp!Refresh, Yp!GetSession
<1>2. ASSUME NEW t \in YahooThreads,
             Yp!Start(t) \/ Yp!Turned(t) \/ Yp!Activate(t) \/ Yp!Pace(t) \/ Yp!Send(t)
                 \/ Yp!SaysClosed(t) \/ Yp!Answers(t)
      PROVE  BusyIsSeen'
  BY <1>2 DEF Yp!Start, Yp!Turned, Yp!Activate, Yp!Pace, Yp!Send, Yp!SaysClosed, Yp!Answers
<1>3. ASSUME NEW t \in YahooThreads,
             Yp!HandleBlock(t) \/ Yp!Rotate(t) \/ Yp!SweepLooks(t) \/ Yp!SweepCloses(t)
      PROVE  BusyIsSeen'
  BY <1>3 DEF Yp!HandleBlock, Yp!Longer, Yp!Rotate, Yp!SweepLooks, Yp!Look, Yp!SweepCloses,
       Yp!Close
<1>4. ASSUME NEW t \in YahooThreads,
             Yp!Failed(t) \/ Yp!Again(t) \/ Yp!Succeeds(t) \/ Yp!ClearRateLimit(t)
      PROVE  BusyIsSeen'
  BY <1>4 DEF Yp!Failed, Yp!Again, Yp!Succeeds, Yp!ClearRateLimit
<1>5. CASE Yp!ReaperLooks \/ Yp!ReaperCloses \/ Yp!WindowLapses
  BY <1>5 DEF Yp!ReaperLooks, Yp!Look, Yp!ReaperCloses, Yp!Close, Yp!WindowLapses
<1> QED BY <1>1, <1>2, <1>3, <1>4, <1>5 DEF Yp!Next, Yp!Continue

\* No sweep, reaper or eviction closes the session of a request that has been
\* sent, for any number of threads, slots and sessions (session_manager.py).
THEOREM NoCloseInFlightHolds == Yp!Spec => NoCloseInFlight
<1>1. YahooInv /\ [Yp!Next]_(Yp!vars) => YahooInv'
  <2>1. CASE Yp!Next
    BY <2>1, YahooTypesNext, YahooCountsNext, YahooRoomNext, BusyIsSeenNext DEF YahooInv
  <2>2. CASE UNCHANGED Yp!vars
    BY <2>2 DEF Yp!vars, YahooInv, YahooTypes, YahooCounts, YahooRoom, BusyIsSeen
  <2> QED BY <2>1, <2>2
<1>2. YahooInv => Yp!TypeOK
  BY SameYahooCount DEF YahooInv, YahooTypes, YahooCounts, YahooRoom, Yp!TypeOK
<1>3. YahooInv /\ [Yp!Next]_(Yp!vars)
        => [\A t \in YahooThreads :
              (yahooPc[t] = "calling" /\ t \in yahooOpen) => t \in yahooOpen']_(Yp!vars)
  BY StaysOpen
<1> QED BY InitYahoo, <1>1, <1>2, <1>3, PTL DEF Yp!Spec, NoCloseInFlight, Yp!NoCloseInFlight
=============================================================================
