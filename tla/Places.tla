-------------------------------- MODULE Places --------------------------------
(***************************************************************************)
(* Parts of a sequence: the items at some of its places, in their order.   *)
(* It is counted and not selected item by item, so that it can be reasoned *)
(* about without recursion.                                                *)
(***************************************************************************)
EXTENDS Naturals, Sequences, FiniteSets

\* The m-th of a set of places.
NthPlace(places, m) == CHOOSE i \in places : Cardinality({j \in places : j <= i}) = m

ItemsAt(s, places) == [m \in 1 .. Cardinality(places) |-> s[NthPlace(places, m)]]
=============================================================================
