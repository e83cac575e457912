--------------------------- MODULE AdmissionBudget ---------------------------
(***************************************************************************)
(* What the SSE listener limiter of messaging.py promises: requests enter  *)
(* and leave, and never are more than Limit of them inside.                *)
(***************************************************************************)
EXTENDS Naturals, FiniteSets

CONSTANTS Requests,   \* whoever may be admitted
          Limit       \* how many may be inside at once

VARIABLE inside       \* those admitted and not gone yet

TypeOK == inside \subseteq Requests

WithinLimit == Cardinality(inside) <= Limit

Enter(r) == /\ r \notin inside
            /\ Cardinality(inside) < Limit
            /\ inside' = inside \cup {r}

Leave(r) == /\ r \in inside
            /\ inside' = inside \ {r}

Init == inside = {}

Next == \E r \in Requests : Enter(r) \/ Leave(r)

Spec == Init /\ [][Next]_inside
=============================================================================
