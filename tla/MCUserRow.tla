------------------------------- MODULE MCUserRow -------------------------------
(***************************************************************************)
(* Instances of UserRow for TLC: the requests are named after their task.  *)
(***************************************************************************)
EXTENDS UserRow

TaskOfName == [r \in Requests |-> r]

\* A body with columns that other requests set too.
PatchOfName == [r \in {"profile"} |-> [profile |-> r, password |-> r, isActive |-> TRUE]]
================================================================================
