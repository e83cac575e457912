----------------------------- MODULE SseLimiter -----------------------------
(***************************************************************************)
(* Admission of SSE connections: SseListenerLimiter and                    *)
(* SseListenerReservation of messaging.py, and the life of a request in    *)
(* routes/stocks/stream.py that holds a reservation: the view reserves a   *)
(* slot, builds the response, the server iterates it (or closes it without *)
(* ever starting the generator), and three places give the slot back: the  *)
(* generator's finally, Response.call_on_close and the reservation's       *)
(* __del__.                                                                *)
(***************************************************************************)
EXTENDS Naturals, FiniteSets

CONSTANTS Requests,      \* requests the server may be serving at once
          MaxListeners   \* MAX_SSE_LISTENERS

ASSUME RequestsAssumption == IsFiniteSet(Requests)
ASSUME LimitAssumption == MaxListeners \in Nat

VARIABLES reserved,   \* SseListenerLimiter._reserved
          slot,       \* slot[r]: state of r's reservation object
          listeners,  \* requests whose queue is in MessageAnnouncer.listeners
          pc          \* pc[r]: where r stands in its life

vars == <<reserved, slot, listeners, pc>>

\* "returning" is between the two locks of release(): the flag is set and the
\* limiter's count not lowered yet.
SlotStates == {"none", "held", "returning", "returned"}
Stages == {"idle", "building", "ready", "streaming", "unwinding", "closing", "closed"}

Holding == {r \in Requests : slot[r] \in {"held", "returning"}}

TypeOK == /\ reserved \in Nat
          /\ slot \in [Requests -> SlotStates]
          /\ listeners \subseteq Requests
          /\ pc \in [Requests -> Stages]

Init == /\ reserved = 0
        /\ slot = [r \in Requests |-> "none"]
        /\ listeners = {}
        /\ pc = [r \in Requests |-> "idle"]

Goto(r, from, to) == pc[r] = from /\ pc' = [pc EXCEPT ![r] = to]

ReserveMutant(r) ==  \* off by one at the cap
  /\ Goto(r, "idle", "building")
  /\ reserved <= MaxListeners
  /\ reserved' = reserved + 1
  /\ slot' = [slot EXCEPT ![r] = "held"]
  /\ UNCHANGED listeners

\* reserve(): the test and the increment share a lock.  A full limiter answers
\* 429 and leaves everything as it is.
Reserve(r) ==
  /\ Goto(r, "idle", "building")
  /\ reserved < MaxListeners
  /\ reserved' = reserved + 1
  /\ slot' = [slot EXCEPT ![r] = "held"]
  /\ UNCHANGED listeners

ReleaseInverted(r) ==  \* the test of the flag is inverted
  slot' = IF slot[r] = "returned" THEN [slot EXCEPT ![r] = "returning"] ELSE slot

\* release(): the flag decides, under its own lock, who returns the slot.
Release(r) ==
  slot' = IF slot[r] = "held" THEN [slot EXCEPT ![r] = "returning"] ELSE slot

\* SseListenerLimiter._release(), with its guard against underflow.
Decrement(r) ==
  /\ slot[r] = "returning"
  /\ slot' = [slot EXCEPT ![r] = "returned"]
  /\ reserved' = IF reserved > 0 THEN reserved - 1 ELSE reserved
  /\ UNCHANGED <<listeners, pc>>

BuildResponse(r) ==
  /\ Goto(r, "building", "ready")
  /\ UNCHANGED <<reserved, slot, listeners>>

\* The response can not be built: the view releases and raises.
BuildFails(r) ==
  /\ Goto(r, "building", "closed")
  /\ Release(r)
  /\ UNCHANGED <<reserved, listeners>>

\* The server starts the generator, whose first step registers its queue.
StartStream(r) ==
  /\ Goto(r, "ready", "streaming")
  /\ listeners' = listeners \cup {r}
  /\ UNCHANGED <<reserved, slot>>

\* The client is gone before the first byte: a generator that never started
\* runs no finally when it is closed.
CloseUnstarted(r) ==
  /\ Goto(r, "ready", "closing")
  /\ UNCHANGED <<reserved, slot, listeners>>

\* The generator ends for any reason: listener_context unlistens first ...
StreamEnds(r) ==
  /\ Goto(r, "streaming", "unwinding")
  /\ listeners' = listeners \ {r}
  /\ UNCHANGED <<reserved, slot>>

\* ... and the finally of stream() releases.
ReleaseFinally(r) ==
  /\ Goto(r, "unwinding", "closing")
  /\ Release(r)
  /\ UNCHANGED <<reserved, listeners>>

ReleaseOnClose(r) ==
  /\ Goto(r, "closing", "closed")
  /\ Release(r)
  /\ UNCHANGED <<reserved, listeners>>

\* __del__ of the reservation, when nothing refers to it any more.
ReleaseDel(r) ==
  /\ pc[r] = "closed"
  /\ Release(r)
  /\ UNCHANGED <<reserved, listeners, pc>>

\* The object is gone; the worker serves another request.
Collected(r) ==
  /\ slot[r] = "returned"
  /\ Goto(r, "closed", "idle")
  /\ slot' = [slot EXCEPT ![r] = "none"]
  /\ UNCHANGED <<reserved, listeners>>

\* What follows once the response was handed to the server and the client left.
Unwind(r) == ReleaseFinally(r) \/ ReleaseOnClose(r) \/ ReleaseDel(r) \/ Decrement(r)

Next == \E r \in Requests :
          \/ Reserve(r) \/ BuildResponse(r) \/ BuildFails(r)
          \/ StartStream(r) \/ CloseUnstarted(r) \/ StreamEnds(r)
          \/ Unwind(r) \/ Collected(r)

\* The server thread finishes what it has begun to unwind.
Fairness == \A r \in Requests : WF_vars(Unwind(r))

Spec == Init /\ [][Next]_vars /\ Fairness

(***************************************************************************)
(* Properties.                                                             *)
(***************************************************************************)
\* The count is the number of reservations not returned, whichever of the
\* three paths returns them and however often, and stays within the cap.
BudgetExact == reserved = Cardinality(Holding) /\ reserved <= MaxListeners

\* A queue is registered only while its request holds a slot, so the two
\* announcers together never serve more than the cap although they are told
\* not to enforce it (enforce_limit=False).
ListenersHoldSlots ==
  /\ listeners \subseteq {r \in Requests : slot[r] = "held"}
  /\ Cardinality(listeners) <= MaxListeners

\* A request that stops streaming gives its slot back.
SlotComesBack ==
  \A r \in Requests : (pc[r] \in {"unwinding", "closing"}) ~> (slot[r] = "returned")

\* The limiter implements the abstract budget.
Budget == INSTANCE AdmissionBudget WITH Limit <- MaxListeners, inside <- Holding
BudgetSpec == Budget!Spec
=============================================================================
