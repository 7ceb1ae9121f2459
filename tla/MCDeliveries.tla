----------------------------- MODULE MCDeliveries -----------------------------
(* Small instances of Deliveries.                                          *)
EXTENDS Deliveries
=============================================================================
