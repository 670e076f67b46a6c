----------------------------- MODULE MCAccounts -----------------------------
(***************************************************************************)
(* Instances of Accounts for TLC.                                          *)
(***************************************************************************)
EXTENDS Accounts, TLC

Alike == Permutations(Names) \cup Permutations(Passwords) \cup Permutations(Secrets)
=============================================================================
