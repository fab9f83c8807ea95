----------------------------- MODULE MCOnboarding -----------------------------
(***************************************************************************)
(* Instances of Onboarding for TLC.  The runs of the seeder are            *)
(* interchangeable.                                                        *)
(***************************************************************************)
EXTENDS Onboarding, TLC

CONSTANTS admin, other, own, default, seeded, reg1, new1, inv1, log1, pat1, seed1, seed2

SeederSymmetry == Permutations(Seeders)
================================================================================
