-------------------------- MODULE MCStockTransactions --------------------------
(* A small instance of StockTransactions: two carts of two lines over two  *)
(* products, in opposite orders, and one of a single line.                 *)
EXTENDS StockTransactions, TLC

CONSTANTS combo, paleta, o1, o2, o3

One(p) == [product |-> p, quantity |-> 1]
ComboFirst == <<One(combo), One(paleta)>>
PaletaFirst == <<One(paleta), One(combo)>>

\* The buyer of o2 put the paleta in the cart before the combo.
CrossedCarts == [o \in Order |-> IF o = o1 THEN ComboFirst
                               ELSE IF o = o2 THEN PaletaFirst ELSE <<One(combo)>>]
OneOfEach == [p \in Product |-> 1]
=============================================================================
