-------------------------------- MODULE MCCache --------------------------------
(***************************************************************************)
(* An instance of Cache for TLC.  The pattern of user 1 is user:1*, which  *)
(* the key of user 10 matches too.                                         *)
(***************************************************************************)
EXTENDS Cache

CONSTANTS user1, user10, v1, v2, call1

UserPattern == [p \in Patterns |-> IF p = user1 THEN {user1, user10} ELSE {user10}]
================================================================================
