-------------------------------- MODULE MCPages --------------------------------
(***************************************************************************)
(* An instance of Pages for TLC.  The constants are rows and a reader;     *)
(* rows are told apart by nothing but their place in the list.             *)
(***************************************************************************)
EXTENDS Pages, TLC

CONSTANTS c1, a, b, c, d

RowSymmetry == Permutations(Rows)
================================================================================
