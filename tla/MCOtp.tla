--------------------------------- MODULE MCOtp ---------------------------------
(***************************************************************************)
(* Instances of OtpStatus, and with it of Otp, for TLC.                    *)
(***************************************************************************)
EXTENDS OtpStatus, TLC

CONSTANTS k1, c1, c2, g1, g2, v1, v2, a1

SameKey == [r \in Requests |-> k1]
SameAskKey == [a \in Askers |-> k1]

\* A question that arrives before any OTP was sent has nothing to find, or races.
LateQuestion ==
  \A a \in Askers : ask[a] # ask'[a] => \E g \in Generators : pc[g] = "sent"

\* Requests of one kind are all alike, and so are codes.
Symmetry == Permutations(Generators) \cup Permutations(Verifiers) \cup Permutations(Codes)
================================================================================
