---------------------------- MODULE MCAccounts ----------------------------
(* Accounts on a small instance: see Accounts.cfg and the README.          *)
EXTENDS Accounts, TLC

Symmetry == Permutations(Users) \cup Permutations(Emails) \cup Permutations(Requests)
=============================================================================
