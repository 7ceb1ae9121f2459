------------------------------- MODULE MCOrders -------------------------------
(* A small instance of Orders: a cart with one combo, and one added later. *)
EXTENDS Orders, FiniteSets, TLC

CONSTANT combo   \* the one product on sale

AllOf(k) == [p \in Product |-> k]
PlainCarts == {[main |-> AllOf(1), addOn |-> AllOf(0)]}
OneMore == {[product |-> combo, quantity |-> 1, linked |-> NoProduct]}
TwoOfEach == AllOf(2)
=============================================================================
