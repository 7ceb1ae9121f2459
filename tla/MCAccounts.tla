------------------------------ MODULE MCAccounts ------------------------------
(* Small instances of Accounts.                                            *)
EXTENDS Accounts, TLC

Symmetric == Permutations(Request) \cup Permutations(Secret)
               \cup Permutations(Password) \cup Permutations(MicrosoftId)
=============================================================================
