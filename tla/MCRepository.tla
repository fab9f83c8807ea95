----------------------------- MODULE MCRepository -----------------------------
(***************************************************************************)
(* An instance of Repository for TLC: three requests of any kind.          *)
(***************************************************************************)
EXTENDS Repository, TLC

CONSTANTS r1, r2, r3, c1, c2

RequestSymmetry == Permutations(Requests)
================================================================================
