----------------------------- MODULE MCIdentity -----------------------------
(***************************************************************************)
(* Instances of Identity for TLC.                                          *)
(***************************************************************************)
EXTENDS Identity, TLC

IdentitySymmetry == Permutations(Login) \cup Permutations(Tx) \cup Permutations(Token)
=============================================================================
