------------------------------- MODULE MCSession -------------------------------
(***************************************************************************)
(* Instances of Session for TLC.                                           *)
(***************************************************************************)
EXTENDS Session, TLC

CONSTANTS u1, r1, r2, r3

OneUser == [r \in Requests |-> u1]
Symmetry == Permutations(Requests)

Admin == [present |-> TRUE, isActive |-> TRUE, isEmailVerified |-> TRUE, role |-> "admin"]

\* An administrator, perhaps not verified yet, who is demoted, loses the role, is
\* deactivated or is deleted, in any order and back.
Rows6 == {Admin, [Admin EXCEPT !.role = "user"], [Admin EXCEPT !.role = NoRole],
          [Admin EXCEPT !.isActive = FALSE], [Admin EXCEPT !.isEmailVerified = FALSE],
          [Admin EXCEPT !.present = FALSE]}

\* PATCH /identity/users/:id/status.
UpdateUsers == [r \in Requests |-> {<<"users", "update">>}]
================================================================================
