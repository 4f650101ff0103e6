------------------------------ MODULE MCAccounts ------------------------------
(* Model-checking instance of Accounts; handlers are interchangeable, and so *)
(* are passwords.                                                            *)
EXTENDS Accounts, TLC

Symmetry == Permutations(Requests) \cup Permutations(Passwords)

===============================================================================
