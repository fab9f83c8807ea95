------------------------------- MODULE OtpStatus -------------------------------
(***************************************************************************)
(* getOtpStatus of the one-time-password service, asked while generations  *)
(* and verifications are going on (src/src/shared/otp/otp.service.ts:156). *)
(* It is one query and an answer computed from the row it returned.        *)
(***************************************************************************)
EXTENDS Otp

CONSTANTS
  Askers,   \* calls of getOtpStatus
  AskKey    \* the (email, type) each asks about

ASSUME StatusAssumption == AskKey \in [Askers -> Keys]

VARIABLES
  ask,      \* [Askers -> "idle", "query", "answer", "none", "wait", "resend"]
  cutoff,   \* the new Date() the query was built with
  found,    \* createdAt of the row each query returned, for those that have one
  earlier   \* history: the generations answered when the question arrived

statusVars == <<ask, cutoff, found, earlier>>

StatusInit ==
  /\ Init
  /\ ask = [a \in Askers |-> "idle"]
  /\ cutoff = [a \in Askers |-> 0]
  /\ found = [a \in {} |-> 0]
  /\ earlier = [a \in Askers |-> {}]

StatusCall(a) ==
  /\ ask[a] = "idle"
  /\ ask' = [ask EXCEPT ![a] = "query"]
  /\ cutoff' = [cutoff EXCEPT ![a] = now]
  /\ earlier' = [earlier EXCEPT ![a] = Finished \cap Generators]
  /\ UNCHANGED found

\* The unused rows of the key with expiresAt: MoreThan(cutoff), newest first.
Pending(k, t) == {i \in Unused(k) : otp[i].expiresAt > t}
Newest(S) == {i \in S : \A j \in S : otp[j].createdAt <= otp[i].createdAt}

\* The answer is given, and what the call has read is forgotten.
Answer(a, text) ==
  /\ ask' = [ask EXCEPT ![a] = text]
  /\ cutoff' = [cutoff EXCEPT ![a] = 0]
  /\ found' = [b \in DOMAIN found \ {a} |-> found[b]]
  /\ earlier' = [earlier EXCEPT ![a] = {}]

\* { hasPendingOtp: false, canResend: true }
StatusNone(a) ==
  /\ ask[a] = "query"
  /\ Pending(AskKey[a], cutoff[a]) = {}
  /\ Answer(a, "none")

StatusFound(a) ==
  /\ ask[a] = "query"
  /\ \E i \in Newest(Pending(AskKey[a], cutoff[a])) : found' = Put(found, a, otp[i].createdAt)
  /\ ask' = [ask EXCEPT ![a] = "answer"]
  /\ cutoff' = [cutoff EXCEPT ![a] = 0]
  /\ UNCHANGED earlier

\* Mutant of StatusAnswer: the operands of the age are swapped.
StatusAnswerSwapped(a) ==
  /\ ask[a] = "answer"
  /\ Answer(a, IF found[a] - now < Cooldown THEN "resend" ELSE "wait")

\* canResend: timeSinceCreation > cooldown, strictly, at the time of the answer.
StatusAnswer(a) ==
  /\ ask[a] = "answer"
  /\ Answer(a, IF now - found[a] > Cooldown THEN "resend" ELSE "wait")

StatusStep(a) == StatusNone(a) \/ StatusFound(a) \/ StatusAnswer(a)

StatusNext ==
  \/ Next /\ UNCHANGED statusVars
  \/ \E a \in Askers : (StatusCall(a) \/ StatusStep(a)) /\ UNCHANGED vars

StatusSpec == StatusInit /\ [][StatusNext]_<<vars, statusVars>>

--------------------------------------------------------------------------------
Arrived(k) == {g \in Generators : KeyOf[g] = k /\ pc[g] # "idle"}

\* No generation for the key overlaps with another one or with the question.
NoRace(a) == Serial(Arrived(AskKey[a])) /\ Arrived(AskKey[a]) \subseteq earlier[a]

\* "hasPendingOtp: true, canResend: true" is honest: when no generation for
\* the address overlaps with the question, a generateOtp arriving at that
\* moment is not turned down (otp.service.ts:182-195 against 42-63).
PendingCanResend ==
  [][\A a \in Askers : ask[a] = "answer" /\ ask'[a] = "resend" /\ NoRace(a)
                         => Recent(AskKey[a], now) = {}]_<<vars, statusVars>>
================================================================================
