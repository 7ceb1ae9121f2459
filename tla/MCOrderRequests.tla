--------------------------- MODULE MCOrderRequests ---------------------------
(* Small instances of OrderRequests.                                       *)
EXTENDS OrderRequests, FiniteSets, TLC

CONSTANTS combo, paleta   \* a product, and one that also comes as its add-on

AllOf(k) == [p \in Product |-> k]
One(q, k) == [p \in Product |-> IF p = q THEN k ELSE 0]
PlainCarts == {[main |-> AllOf(1), addOn |-> AllOf(0)]}
\* The combo with a paleta as its add-on, or a paleta bought by itself.
MixedCarts == {[main |-> One(combo, 1), addOn |-> One(paleta, 1)],
               [main |-> One(paleta, 1), addOn |-> AllOf(0)]}
NoAdditions == {}
\* A combo with a paleta as its add-on.
OneMixedMore == {[product |-> combo, quantity |-> 1, linked |-> paleta]}
TwoOfEach == AllOf(2)
EveryPair == AllPairs
CompatiblePairs == SafePairs
OrderlyPairs == LifecyclePairs
Symmetric == Permutations(Order) \cup Permutations(Number) \cup Permutations(Request)
=============================================================================
