----------------------------- MODULE MCRaffleAdmin -----------------------------
(* Small instances of RaffleAdmin: carts of a combo with its add-on.       *)
EXTENDS RaffleAdmin, TLC

CONSTANTS combo, paleta

One(q, k) == [p \in Product |-> IF p = q THEN k ELSE 0]
ComboCarts == {[main |-> One(combo, 1), addOn |-> One(paleta, 1)]}
NoAdditions == {}
TwoOfEach == [p \in Product |-> 2]
Symmetric == Permutations(Order) \cup Permutations(Admin)
=============================================================================
