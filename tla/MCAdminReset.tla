------------------------------ MODULE MCAdminReset ------------------------------
(* One combo that a reset may keep, one paleta, one group of one option.   *)
EXTENDS AdminReset

CONSTANTS combo, paleta, g1, a1

OneGroup == [a \in Option |-> g1]
=============================================================================
