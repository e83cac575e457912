--------------------------- MODULE CircuitBreaker ---------------------------
(***************************************************************************)
(* The availability circuit of one upstream service (market_state.py) and  *)
(* the threads that call the service through it: here the "mistral"        *)
(* circuit, whose callers are chat completions, chat streams and batches   *)
(* of embeddings.  Each access to the circuit holds circuit_lock and is    *)
(* one step; a caller makes several and a long call, in which everything   *)
(* may have changed, lies between them.                                    *)
(***************************************************************************)
EXTENDS Naturals, FiniteSets

CONSTANTS
    Chats,      \* threads in call_mistral_chat
    Streams,    \* threads in stream_mistral_chat
    Embedders,  \* threads in get_mistral_embeddings_batch
    Threshold   \* consecutive failures that open the circuit

ASSUME ThresholdAssumption == Threshold \in Nat \ {0}
ASSUME KindsAssumption ==
    /\ Chats \cap Streams = {}
    /\ (Chats \cup Streams) \cap Embedders = {}

Callers == Chats \cup Streams \cup Embedders

VARIABLES
    status,   \* CircuitState.status
    streak,   \* timeout_streak
    lapsed,   \* time.time() >= open_until
    probing,  \* the single-probe claim
    pc,       \* per caller
    claimed,  \* per caller: circuit_probe_claimed
    fails,    \* history: failures reported since the last success, up to Threshold
    inProbe   \* history, per caller: let through while the circuit was half open

circuit == <<status, streak, lapsed, probing>>
vars == <<circuit, pc, claimed, fails, inProbe>>

Statuses == {"CLOSED", "OPEN", "HALF_OPEN"}
(* "second": in the call of a second attempt.                              *)
Stages == {"idle", "status", "claim", "calling", "second", "unwind", "fallback", "recheck"}
InCall(c) == pc[c] \in {"calling", "second"}

-----------------------------------------------------------------------------
(* The operations of the circuit.                                          *)

(* is_circuit_open: an elapsed OPEN turns HALF_OPEN and lets the caller    *)
(* through.                                                                *)
Refuses == status = "OPEN" /\ ~lapsed
Checked == IF status = "OPEN" /\ lapsed THEN "HALF_OPEN" ELSE status

CheckOpen ==
    /\ status' = Checked
    /\ UNCHANGED <<streak, lapsed, probing, fails>>

(* A mutant: a failed probe that forgets the claim.                        *)
ReportFailureMutant ==
    /\ fails' = IF fails < Threshold THEN fails + 1 ELSE fails
    /\ IF status = "HALF_OPEN" \/ streak + 1 >= Threshold
       THEN status' = "OPEN" /\ streak' = 0 /\ lapsed' = FALSE
       ELSE streak' = streak + 1 /\ UNCHANGED <<status, lapsed>>
    /\ UNCHANGED probing

ReportSuccess ==
    /\ status' = "CLOSED" /\ streak' = 0 /\ lapsed' = FALSE /\ probing' = FALSE
    /\ fails' = 0

ReportFailure ==
    /\ fails' = IF fails < Threshold THEN fails + 1 ELSE fails
    /\ IF status = "HALF_OPEN" \/ streak + 1 >= Threshold
       THEN status' = "OPEN" /\ streak' = 0 /\ lapsed' = FALSE /\ probing' = FALSE
       ELSE streak' = streak + 1 /\ UNCHANGED <<status, lapsed, probing>>

(* A mutant: the owner ends without giving the claim back.                 *)
ReleaseProbeMutant(c) == UNCHANGED <<circuit, fails>>

(* release_circuit_probe, called only by a caller that believes it owns    *)
(* the claim; the flag is cleared whoever set it.                          *)
ReleaseProbe(c) ==
    /\ probing' = IF claimed[c] THEN FALSE ELSE probing
    /\ UNCHANGED <<status, streak, lapsed, fails>>

Goto(c, stage) == pc' = [pc EXCEPT ![c] = stage]

Unclaim(c) == claimed' = [claimed EXCEPT ![c] = FALSE]

-----------------------------------------------------------------------------
(* The callers.                                                            *)

(* The entry test.  Chats and streams go on to look at the status, a batch *)
(* of embeddings, like the unclaimed second attempt of a stream, calls.    *)
Admit(c) ==
    /\ pc[c] \in {"idle", "fallback"}
    /\ CheckOpen
    /\ IF Refuses
       THEN Goto(c, "idle") /\ UNCHANGED <<claimed, inProbe>>
       ELSE IF c \in Embedders \/ pc[c] = "fallback"
       THEN /\ Goto(c, IF c \in Embedders THEN "calling" ELSE "second")
            /\ inProbe' = [inProbe EXCEPT ![c] = Checked = "HALF_OPEN"]
            /\ UNCHANGED claimed
       ELSE Goto(c, "status") /\ UNCHANGED <<claimed, inProbe>>

(* get_circuit_state: the status is read after is_circuit_open has let go. *)
ReadStatus(c) ==
    /\ pc[c] = "status"
    /\ IF status = "HALF_OPEN"
       THEN Goto(c, "claim") /\ UNCHANGED inProbe
       ELSE Goto(c, "calling") /\ inProbe' = [inProbe EXCEPT ![c] = FALSE]
    /\ UNCHANGED <<circuit, claimed, fails>>

TryClaim(c) ==
    /\ pc[c] = "claim"
    /\ IF status = "HALF_OPEN" /\ ~probing
       THEN /\ probing' = TRUE
            /\ claimed' = [claimed EXCEPT ![c] = TRUE]
            /\ inProbe' = [inProbe EXCEPT ![c] = TRUE]
            /\ Goto(c, "calling")
       ELSE Goto(c, "idle") /\ UNCHANGED <<probing, claimed, inProbe>>
    /\ UNCHANGED <<status, streak, lapsed, fails>>

(* A batch goes on to its next chunk without looking at the circuit.       *)
Succeed(c) ==
    /\ InCall(c)
    /\ ReportSuccess
    /\ Unclaim(c)
    /\ \/ Goto(c, "idle")
       \/ c \in Embedders /\ UNCHANGED pc
    /\ UNCHANGED inProbe

(* A provider failure.  A chat keeps its claim and gives it back again on  *)
(* the way out; a batch looks whether the circuit is open by now.          *)
Fail(c) ==
    /\ InCall(c)
    /\ ReportFailure
    /\ \/ c \in Chats /\ Goto(c, "unwind") /\ UNCHANGED claimed
       \/ c \in Streams /\ Goto(c, "idle") /\ Unclaim(c)
       \/ c \in Embedders /\ Goto(c, "recheck") /\ UNCHANGED claimed
    /\ UNCHANGED inProbe

Unwind(c) ==
    /\ pc[c] = "unwind"
    /\ ReleaseProbe(c)
    /\ Unclaim(c)
    /\ Goto(c, "idle")
    /\ UNCHANGED inProbe

Recheck(c) ==
    /\ pc[c] = "recheck"
    /\ CheckOpen
    /\ \/ Goto(c, "idle")
       \/ ~Refuses /\ Goto(c, "calling")
    /\ UNCHANGED <<claimed, inProbe>>

(* Any other end: a 4xx or 429, a broken body, an exception, a client that *)
(* goes away.  A rejected stream tries once more without a claim, a batch  *)
(* goes on or gives up, a chat that hands on an error releases here and    *)
(* once more on the way out, where the claim may be another's by then.     *)
EndOtherwise(c) ==
    /\ InCall(c)
    /\ ReleaseProbe(c)
    /\ \/ c \in Chats /\ Goto(c, "unwind") /\ UNCHANGED claimed
       \/ Unclaim(c) /\ Goto(c, "idle")
       \/ c \in Streams /\ pc[c] = "calling" /\ Unclaim(c) /\ Goto(c, "fallback")
       \/ c \in Embedders /\ Unclaim(c) /\ UNCHANGED pc
    /\ UNCHANGED inProbe

(* open_sec go by.                                                         *)
WindowLapses ==
    /\ status = "OPEN" /\ ~lapsed
    /\ lapsed' = TRUE
    /\ UNCHANGED <<status, streak, probing, pc, claimed, fails, inProbe>>

(* The metrics endpoint and the callers that only ask is_circuit_open      *)
(* first (json repair, technical lines) also turn OPEN into HALF_OPEN.     *)
Observe ==
    /\ status = "OPEN" /\ lapsed
    /\ CheckOpen
    /\ UNCHANGED <<pc, claimed, inProbe>>

-----------------------------------------------------------------------------
Init ==
    /\ status = "CLOSED" /\ streak = 0 /\ lapsed = FALSE /\ probing = FALSE
    /\ pc = [c \in Callers |-> "idle"]
    /\ claimed = [c \in Callers |-> FALSE]
    /\ fails = 0
    /\ inProbe = [c \in Callers |-> FALSE]

CallEnds(c) == Succeed(c) \/ Fail(c) \/ EndOtherwise(c)

CallerStep(c) ==
    Admit(c) \/ ReadStatus(c) \/ TryClaim(c) \/ CallEnds(c) \/ Unwind(c) \/ Recheck(c)

Next == WindowLapses \/ Observe \/ \E c \in Callers : CallerStep(c)

(* Every call carries a timeout, so it ends.                               *)
Fairness == \A c \in Callers : WF_vars(CallEnds(c)) /\ WF_vars(Unwind(c))

Spec == Init /\ [][Next]_vars
FairSpec == Spec /\ Fairness

-----------------------------------------------------------------------------
TypeOK ==
    /\ status \in Statuses /\ streak \in 0..(Threshold - 1)
    /\ lapsed \in BOOLEAN /\ probing \in BOOLEAN
    /\ pc \in [Callers -> Stages]
    /\ claimed \in [Callers -> BOOLEAN] /\ inProbe \in [Callers -> BOOLEAN]
    /\ fails \in 0..Threshold

(* The claim is never left behind: while it is set the circuit is half     *)
(* open and a caller that will clear it is in its call.  A claim without   *)
(* an owner would refuse every later probe (market_state.py:342-349).      *)
ProbeHasOwner ==
    probing => status = "HALF_OPEN" /\ \E c \in Callers : claimed[c] /\ pc[c] = "calling"

(* Only Threshold failures with no success between them take the service   *)
(* away from its callers, whatever late answers arrive (report_circuit_result). *)
OpenedByFailures == status # "CLOSED" => fails = Threshold

(* A claimed probe slot comes back (release_circuit_probe and the callers' *)
(* finally blocks).                                                        *)
ProbeSlotReturns == probing ~> ~probing

(* What market_state.py:45 says of HALF_OPEN: "Only 1 thread probes at  *)
(* a time."  Embedding batches and second attempts call without a claim,    *)
(* and a chat's second release frees the claim of another.                *)
OneProbeAtATime ==
    Cardinality({c \in Callers : InCall(c) /\ inProbe[c] /\ status = "HALF_OPEN"}) <= 1
=============================================================================
