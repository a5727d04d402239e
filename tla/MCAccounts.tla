----------------------------- MODULE MCAccounts -----------------------------
(***************************************************************************)
(* Accounts with an administrator, two more names, two passwords and room  *)
(* for two or three accounts.                                              *)
(***************************************************************************)
EXTENDS Accounts, TLC

CONSTANTS admin, u1, u2, p1, p2

MCName == {admin, u1, u2}
MCPassword == {p1, p2}
Users == Permutations({u1, u2})
=============================================================================
