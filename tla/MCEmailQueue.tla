------------------------------ MODULE MCEmailQueue ------------------------------
(***************************************************************************)
(* An instance of EmailQueue for TLC: a mail that is an OTP or a generic   *)
(* mail without a link.                                                    *)
(***************************************************************************)
EXTENDS EmailQueue

CONSTANTS m1, w1, w2

OtpOrGeneric == {OtpMail, GenericMail({"link", "linkLabel"})}
================================================================================
