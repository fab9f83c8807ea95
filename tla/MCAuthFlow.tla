------------------------------ MODULE MCAuthFlow ------------------------------
(***************************************************************************)
(* Instances of AuthFlow for TLC.                                          *)
(***************************************************************************)
EXTENDS AuthFlow, TLC

CONSTANTS c1, c2, g1, g2, v1

AllKeys == Emails \X {"reset", "verify"}

\* g1 and the verifiers are about the password of the first address; g2 asks to verify
\* the second one.
KeyOfName == [r \in Requests |-> IF r = g2 THEN <<"e2", "verify">> ELSE <<"e1", "reset">>]
TaskOfName == [w \in Writers |-> IF w \in Verifiers THEN "reset" ELSE w]

\* The body of the profile request holds a password and a verified mark beside the
\* address.
PatchOfName == [c \in {"profile"} |-> [profile |-> c, password |-> c, isEmailVerified |-> TRUE]]

\* A change of the profile moves the user to the second address.
HoldsOfName == [w \in Writers \cup {"original"} |-> IF w = "profile" THEN "e2" ELSE "e1"]

\* The user was invited, so is neither active nor verified at first; UserRow starts
\* from every kind of user.
InvitedInit == FlowInit /\ ~row.isActive /\ ~row.isEmailVerified
InvitedSpec == InvitedInit /\ [][FlowNext]_flowVars

\* The codes are alike.
Symmetry == Permutations(Codes)
================================================================================
