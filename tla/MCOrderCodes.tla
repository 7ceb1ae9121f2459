---------------------------- MODULE MCOrderCodes ----------------------------
(* Small instances of OrderCodes.                                          *)
EXTENDS OrderCodes
=============================================================================
