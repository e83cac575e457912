------------------------------ MODULE AiCalls ------------------------------
(***************************************************************************)
(* Calls of the language models (ai_service.py, openai_service.py).  A     *)
(* Mistral call first reserves the next slot of a global pace, waits for   *)
(* it up to a cap, then takes one of few semaphore slots; a chat gives the *)
(* slot back before it tries a second model, a stream keeps its own.       *)
(* Calls of an OpenAI compatible server take a slot only and repeat a      *)
(* refused request inside it.  The circuit is CircuitBreaker's subject:    *)
(* here it may turn a call away.  Jitter is left out.                      *)
(*                                                                         *)
(* Times are kept as distances from now, which a tick of the clock makes   *)
(* smaller.                                                                *)
(***************************************************************************)
EXTENDS Naturals, FiniteSets

CONSTANTS Chats, Streams,  \* callers of Mistral
          Compats,         \* callers of the OpenAI compatible server
          Slots,           \* of each semaphore
          Interval,        \* MISTRAL_MIN_INTERVAL_SEC
          Cap,             \* _MISTRAL_RATE_LIMIT_MAX_WAIT_SEC
          Backoffs,        \* what mark_mistral_429 may ask for
          MaxCalls,        \* bound: calls begun
          MaxBlocks        \* bound: answers 429

Paced == Chats \cup Streams
Callers == Paced \cup Compats

VARIABLES
    next,      \* mistral_last_call_ts + Interval, if later than now
    allowed,   \* mistral_next_allowed_ts, if later than now
    longest,   \* history: the last end of all back-offs there were
    shutdown,  \* shutdown_event
    pc,
    wait,      \* per caller: what is left of its wait
    over,      \* whose wait was longer than the cap
    holding,   \* who has a semaphore slot
    second,    \* _is_fallback, or the payload was modified
    calls, blocks

vars == <<next, allowed, longest, shutdown, pc, wait, over, holding, second, calls, blocks>>
pace == <<next, allowed, longest>>
waits == <<wait, over>>

TypeOK ==
    /\ next \in Nat /\ allowed \in Nat /\ longest \in Nat /\ shutdown \in BOOLEAN
    /\ pc \in [Callers -> {"idle", "again", "wait", "abort", "queue", "calling",
                          "text"}]
    /\ wait \in [Callers -> 0 .. Cap] /\ over \subseteq Paced
    /\ second \subseteq Callers /\ blocks \in 0 .. MaxBlocks
    /\ calls \in 0 .. MaxCalls
    /\ \A kind \in {Chats, Streams, Compats} :
          holding \subseteq Callers /\ Cardinality(holding \cap kind) <= Slots

Init ==
    /\ next = 0 /\ allowed = 0 /\ longest = 0 /\ shutdown = FALSE
    /\ pc = [c \in Callers |-> "idle"]
    /\ wait = [c \in Callers |-> 0] /\ over = {}
    /\ holding = {} /\ second = {} /\ calls = 0 /\ blocks = 0

Goes(c, label) == pc' = [pc EXCEPT ![c] = label]

-----------------------------------------------------------------------------
(* The pace.                                                               *)

Later(a, b) == IF a > b THEN a ELSE b
Earlier(a, b) == IF a < b THEN a ELSE b

\* _acquire_mistral_call_slot
Reserve(c) ==
    LET slot == Later(allowed, next) IN
    /\ next' = slot + Interval /\ UNCHANGED <<allowed, longest>>
    /\ wait' = [wait EXCEPT ![c] = Earlier(slot, Cap)]
    /\ over' = IF slot > Cap THEN over \cup {c} ELSE over \ {c}

\* _release_mistral_call_slot
RolledBack == Earlier(next, allowed + Interval)

\* call_mistral_chat and stream_mistral_chat up to the wait; a call that is
\* made again without its rejected parameter or model starts here too.
Begins(c) ==
    \/ pc[c] = "idle" /\ calls < MaxCalls /\ calls' = calls + 1
    \/ pc[c] = "again" /\ UNCHANGED calls
ChatAsks(c) ==
    /\ c \in Chats /\ Begins(c) /\ Goes(c, "wait") /\ Reserve(c)
    /\ UNCHANGED <<shutdown, holding, second, blocks>>
StreamAsks(c) ==
    /\ c \in Streams /\ Begins(c) /\ Goes(c, "wait") /\ Reserve(c)
    /\ UNCHANGED <<shutdown, holding, second, blocks>>
CompatAsks(c) ==
    /\ c \in Compats /\ Begins(c) /\ Goes(c, "queue")
    /\ UNCHANGED pace /\ UNCHANGED waits
    /\ UNCHANGED <<shutdown, holding, second, blocks>>

\* _wait_for_rate_limit_slot: "ready", or "rate_limited" beyond the cap, or
\* "shutdown", which ends a wait early.
Waited(c) ==
    /\ pc[c] = "wait" /\ (wait[c] = 0 \/ shutdown)
    /\ Goes(c, IF c \in over \/ wait[c] > 0 THEN "abort" ELSE "queue")
    /\ UNCHANGED pace /\ UNCHANGED waits
    /\ UNCHANGED <<shutdown, holding, second, calls, blocks>>

Ends(c) ==
    /\ Goes(c, "idle") /\ holding' = holding \ {c} /\ second' = second \ {c}
AbortsMutant(c) ==  \* the reservation is not given back
    /\ pc[c] = "abort" /\ Ends(c)
    /\ UNCHANGED pace /\ UNCHANGED waits /\ UNCHANGED <<shutdown, calls, blocks>>
Aborts(c) ==
    /\ pc[c] = "abort" /\ next' = RolledBack /\ Ends(c)
    /\ UNCHANGED waits /\ UNCHANGED <<shutdown, allowed, longest, calls, blocks>>

-----------------------------------------------------------------------------
(* The call.                                                               *)

Kind(c) == IF c \in Chats THEN Chats ELSE IF c \in Streams THEN Streams ELSE Compats
FreeSlot(c) == Cardinality(holding \cap Kind(c)) < Slots

\* A second stream runs inside the slot of the first.
MayCall(c) == FreeSlot(c) \/ (c \in Streams /\ c \in second)
Calls(c) ==
    /\ pc[c] = "queue" /\ MayCall(c) /\ Goes(c, "calling")
    /\ holding' = holding \cup {c}
    /\ UNCHANGED pace /\ UNCHANGED waits
    /\ UNCHANGED <<shutdown, second, calls, blocks>>

ChatCalls(c) == c \in Chats /\ Calls(c)
StreamCalls(c) == c \in Streams /\ Calls(c)
CompatCalls(c) == c \in Compats /\ Calls(c)

\* The first chunk of a stream; servers of both kinds stream.
Delivers(c) ==
    /\ pc[c] = "calling" /\ c \in Streams \cup Compats /\ Goes(c, "text")
    /\ UNCHANGED pace /\ UNCHANGED waits
    /\ UNCHANGED <<shutdown, holding, second, calls, blocks>>

InCall(c) == pc[c] \in {"calling", "text"}
Succeeds(c) ==
    /\ InCall(c) /\ Ends(c)
    /\ next' = IF c \in Paced THEN Later(next, Interval) ELSE next
    /\ UNCHANGED waits /\ UNCHANGED <<shutdown, allowed, longest, calls, blocks>>

\* The model or a parameter of the first attempt is refused.
ChatIsRejected(c) ==
    /\ c \in Chats \ second /\ pc[c] = "calling" /\ Goes(c, "again")
    /\ second' = second \cup {c} /\ holding' = holding \ {c}
    /\ UNCHANGED pace /\ UNCHANGED waits /\ UNCHANGED <<shutdown, calls, blocks>>
StreamIsRejected(c) ==
    /\ c \in Streams \ second /\ pc[c] = "calling" /\ Goes(c, "again")
    /\ second' = second \cup {c}
    /\ UNCHANGED pace /\ UNCHANGED waits
    /\ UNCHANGED <<shutdown, holding, calls, blocks>>
CompatIsRejected(c) ==
    /\ c \in Compats \ second /\ pc[c] = "calling"
    /\ second' = second \cup {c}
    /\ UNCHANGED pace /\ UNCHANGED waits
    /\ UNCHANGED <<shutdown, pc, holding, calls, blocks>>

\* Any other failure, an open circuit, or a client that closes its stream.
Fails(c) ==
    /\ InCall(c) /\ Ends(c)
    /\ UNCHANGED pace /\ UNCHANGED waits /\ UNCHANGED <<shutdown, calls, blocks>>
\* An answer 429: mark_mistral_429, which sets the end of the back-off, to an
\* earlier one too.
Throttled(c) ==
    /\ InCall(c) /\ c \in Paced /\ blocks < MaxBlocks /\ blocks' = blocks + 1
    /\ \E b \in Backoffs : allowed' = b /\ longest' = Later(longest, b)
    /\ Ends(c) /\ UNCHANGED waits /\ UNCHANGED <<shutdown, next, calls>>

Less(time) == IF time > 0 THEN time - 1 ELSE 0
Tick ==
    /\ next' = Less(next) /\ allowed' = Less(allowed) /\ longest' = Less(longest)
    /\ wait' = [c \in Callers |-> Less(wait[c])]
    /\ UNCHANGED <<shutdown, pc, over, holding, second, calls, blocks>>
Shutdown ==
    /\ ~shutdown /\ shutdown' = TRUE
    /\ UNCHANGED pace /\ UNCHANGED waits
    /\ UNCHANGED <<pc, holding, second, calls, blocks>>

ChatAnswers(c) == c \in Chats /\ Succeeds(c)
StreamEnds(c) == c \in Streams /\ Succeeds(c)
CompatAnswers(c) == c \in Compats /\ Succeeds(c)
ChatFails(c) == c \in Chats /\ (Fails(c) \/ Throttled(c))
StreamFails(c) == c \in Streams /\ (Fails(c) \/ Throttled(c))
CompatFails(c) == c \in Compats /\ Fails(c)

Asks(c) == ChatAsks(c) \/ StreamAsks(c) \/ CompatAsks(c)
Rejected(c) == ChatIsRejected(c) \/ StreamIsRejected(c) \/ CompatIsRejected(c)
CallStarts(c) == ChatCalls(c) \/ StreamCalls(c) \/ CompatCalls(c)
Answers(c) ==
    \/ ChatAnswers(c) \/ StreamEnds(c) \/ CompatAnswers(c)
    \/ ChatFails(c) \/ StreamFails(c) \/ CompatFails(c)
Next ==
    \/ Tick \/ Shutdown
    \/ \E c \in Callers :
          \/ Asks(c) \/ Waited(c) \/ Aborts(c) \/ CallStarts(c) \/ Delivers(c)
          \/ Rejected(c) \/ Answers(c)

\* Time passes, every request has a timeout, and a free slot is taken: with
\* MaxCalls calls in all, who waits for one is overtaken so many times at most.
Retried(c) == pc[c] = "again" /\ Asks(c)
Proceeds(c) == Waited(c) \/ Aborts(c) \/ Retried(c) \/ CallStarts(c) \/ Answers(c)
Fairness == WF_vars(Tick) /\ \A c \in Callers : WF_vars(Proceeds(c))
Spec == Init /\ [][Next]_vars /\ Fairness

-----------------------------------------------------------------------------
(* No reservation outlives its caller: while nobody waits, the pace is not *)
(* ahead of the clock but for a back-off there was, so that recovering     *)
(* traffic waits behind no slot that never produces a call                 *)
(* (_release_mistral_call_slot).                                           *)
Waits(c) == pc[c] \in {"wait", "abort"}
NoPhantomSlot == (\A c \in Callers : ~Waits(c)) => next <= longest + Interval

(* ai_service.py:783-789: the rollback keeps the back-off that is in force *)
(* and nothing more.                                                       *)
RollbackLeavesNoSlot == (\A c \in Callers : ~Waits(c)) => next <= allowed + Interval

(* Every call comes to an end, a stream that tries a second model inside   *)
(* its semaphore slot included: as calls are finite in number, all callers *)
(* are idle again and again.                                               *)
CallsReturn == []<>(\A c \in Callers : pc[c] = "idle")
=============================================================================
