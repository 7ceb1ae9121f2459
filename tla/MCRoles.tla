-------------------------------- MODULE MCRoles --------------------------------
(* Small instances of Roles.                                               *)
EXTENDS Roles, TLC

\* The slots are alike: no definition tells them apart.
Slots == Permutations(Request)
=============================================================================
