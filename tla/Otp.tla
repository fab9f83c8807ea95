---------------------------------- MODULE Otp ----------------------------------
(***************************************************************************)
(* The one-time-password service, src/src/shared/otp/otp.service.ts, at    *)
(* the granularity of its awaited database statements: between two         *)
(* statements of one request any statement of any other request, and any   *)
(* amount of time, may pass.                                               *)
(*                                                                         *)
(* The processes are HTTP requests in flight.  A request is served once:   *)
(* a generator is one call of generateOtp and a verifier one call of       *)
(* verifyOtp, so the row a generator inserts can be named after it.  A     *)
(* request that is never scheduled again is one whose process crashed.     *)
(***************************************************************************)
EXTENDS Integers, FiniteSets

CONSTANTS
  Keys,              \* (email, type) pairs: every query filters on both
  Codes,             \* the four-digit codes
  Generators,        \* calls of generateOtp
  Verifiers,         \* calls of verifyOtp
  KeyOf,             \* the (email, type) a request is about
  MaxAttempts,       \* MAX_OTP_ATTEMPTS
  Expiry,            \* OTP_EXPIRY_MINUTES, in ticks of the clock
  Cooldown,          \* OTP_RESEND_COOLDOWN_SECONDS, in ticks of the clock
  MaxTime,           \* bound: the clock stops there
  CleanupScheduled   \* whether a cron job calls cleanupExpiredOtps

Requests == Generators \cup Verifiers

ASSUME OtpAssumption ==
  /\ Generators \cap Verifiers = {}
  /\ IsFiniteSet(Verifiers)
  /\ KeyOf \in [Requests -> Keys]
  /\ MaxAttempts \in Nat \ {0}
  /\ Expiry \in Nat \ {0}
  /\ Cooldown \in Nat \ {0}
  /\ MaxTime \in Nat
  /\ CleanupScheduled \in BOOLEAN

VARIABLES
  now,      \* the clock, read by the application and by the database
  otp,      \* the table otps: a function whose domain is the ids present
  pc,       \* where each request is
  at,       \* the last clock reading a generator kept for later use
  seen,     \* the row a verifier's findOne returned, for those that have one
  before    \* history: the requests answered when this one arrived

vars == <<now, otp, pc, at, seen, before>>

--------------------------------------------------------------------------------
(***************************************************************************)
(* The table.                                                              *)
(***************************************************************************)
Row == [key : Keys, code : Codes, createdAt : Nat, expiresAt : Nat,
        isUsed : BOOLEAN, attempts : Nat]

Ids == DOMAIN otp

\* INSERT of one row, and also how a request keeps what it has read.
Put(f, x, y) == [z \in DOMAIN f \cup {x} |-> IF z = x THEN y ELSE f[z]]

\* The rows with isUsed = FALSE of one (email, type).
Unused(k) == {i \in Ids : otp[i].key = k /\ ~otp[i].isUsed}

\* findOne({ where: unused, order: { createdAt: 'DESC' } }): ties are broken
\* by the database as it likes.
Latest(k) == {i \in Unused(k) : \A j \in Unused(k) : otp[j].createdAt <= otp[i].createdAt}

\* UPDATE ... SET is_used = true WHERE id IN S: no effect on a deleted row.
MarkUsed(S) == [i \in Ids |-> IF i \in S THEN [otp[i] EXCEPT !.isUsed = TRUE] ELSE otp[i]]

\* UPDATE ... SET attempts = n WHERE id = x.
SetAttempts(x, n) == [i \in Ids |-> IF i = x THEN [otp[i] EXCEPT !.attempts = n] ELSE otp[i]]

--------------------------------------------------------------------------------
GenFinal == {"refused", "sent"}
VerFinal == {"notFound", "expired", "exhausted", "mismatch", "accepted"}
GenPC == {"idle", "check", "invalidate", "insert"} \cup GenFinal
VerPC == {"idle", "read", "judge", "expire", "exhaust", "miss", "consume"} \cup VerFinal

Finished == {r \in Requests : pc[r] \in GenFinal \cup VerFinal}

Init ==
  /\ now = 0
  /\ otp = [i \in {} |-> {}]
  /\ pc = [r \in Requests |-> "idle"]
  /\ at = [g \in Generators |-> 0]
  /\ seen = [v \in {} |-> {}]
  /\ before = [r \in Requests |-> {}]

Goto(r, l) == pc' = [pc EXCEPT ![r] = l]

\* A request arrives: its first findOne is on its way to the database.
Arrive(r, l) ==
  /\ pc[r] = "idle"
  /\ Goto(r, l)
  /\ before' = [before EXCEPT ![r] = Finished]
  /\ UNCHANGED <<now, otp, seen>>

--------------------------------------------------------------------------------
(***************************************************************************)
(* generateOtp: a cooldown check, an UPDATE that retires the pending rows  *)
(* and an INSERT, each awaited, in no transaction.                         *)
(***************************************************************************)

\* The cutoff of the cooldown query is computed before the query is sent.
GenerateCall(g) == Arrive(g, "check") /\ at' = [at EXCEPT ![g] = now]

\* Mutant of Recent: only unused rows hold the cooldown.
RecentUnused(k, t) == {i \in Unused(k) : otp[i].createdAt > t - Cooldown}

\* The rows createdAt: MoreThan(cutoff) matches, used ones included.
Recent(k, t) == {i \in Ids : otp[i].key = k /\ otp[i].createdAt > t - Cooldown}

GenerateRefuse(g) ==
  /\ pc[g] = "check"
  /\ Recent(KeyOf[g], at[g]) # {}
  /\ Goto(g, "refused")
  /\ UNCHANGED <<now, otp, at, seen, before>>

GenerateProceed(g) ==
  /\ pc[g] = "check"
  /\ Recent(KeyOf[g], at[g]) = {}
  /\ Goto(g, "invalidate")
  /\ UNCHANGED <<now, otp, at, seen, before>>

\* Mutant of GenerateInvalidate: older rows are left unused.
GenerateInvalidateNone(g) ==
  pc[g] = "invalidate" /\ at' = [at EXCEPT ![g] = now] /\ Goto(g, "insert")
    /\ UNCHANGED <<now, otp, seen, before>>

GenerateInvalidate(g) ==
  /\ pc[g] = "invalidate"
  /\ otp' = MarkUsed(Unused(KeyOf[g]))
  /\ at' = [at EXCEPT ![g] = now]
  /\ Goto(g, "insert")
  /\ UNCHANGED <<now, seen, before>>

\* expiresAt is computed by the application some time (t) after the UPDATE
\* returned; createdAt is now() of the INSERT.
GenerateInsert(g) ==
  /\ pc[g] = "insert"
  /\ \E c \in Codes, t \in at[g]..now :
       otp' = Put(otp, g, [key |-> KeyOf[g], code |-> c, createdAt |-> now,
                           expiresAt |-> t + Expiry, isUsed |-> FALSE, attempts |-> 0])
  /\ Goto(g, "sent")
  /\ UNCHANGED <<now, at, seen, before>>

--------------------------------------------------------------------------------
(***************************************************************************)
(* verifyOtp: one findOne, a verdict from the row it returned, and one     *)
(* UPDATE that depends on the verdict.                                     *)
(***************************************************************************)
VerifyCall(v) == Arrive(v, "read") /\ UNCHANGED at

VerifyNotFound(v) ==
  /\ pc[v] = "read"
  /\ Latest(KeyOf[v]) = {}
  /\ Goto(v, "notFound")
  /\ UNCHANGED <<now, otp, at, seen, before>>

VerifyRead(v) ==
  /\ pc[v] = "read"
  /\ \E i \in Latest(KeyOf[v]) :
       seen' = Put(seen, v, [id |-> i, code |-> otp[i].code,
                             expiresAt |-> otp[i].expiresAt, attempts |-> otp[i].attempts])
  /\ Goto(v, "judge")
  /\ UNCHANGED <<now, otp, at, before>>

\* Mutants of Verdict: the limit is off by one; the code is compared before
\* the limit is looked at.
VerdictOffByOne(s, c, t) ==
  IF t > s.expiresAt THEN "expire"
  ELSE IF s.attempts > MaxAttempts THEN "exhaust" ELSE IF s.code # c THEN "miss" ELSE "consume"
VerdictCodeFirst(s, c, t) ==
  IF t > s.expiresAt THEN "expire"
  ELSE IF s.code = c THEN "consume" ELSE IF s.attempts >= MaxAttempts THEN "exhaust" ELSE "miss"

\* The early returns of verifyOtp, in the order of the code.
Verdict(s, c, t) ==
  CASE t > s.expiresAt -> "expire"
    [] t <= s.expiresAt /\ s.attempts >= MaxAttempts -> "exhaust"
    [] t <= s.expiresAt /\ s.attempts < MaxAttempts /\ s.code # c -> "miss"
    [] t <= s.expiresAt /\ s.attempts < MaxAttempts /\ s.code = c -> "consume"

\* The request carries any code; it has not been looked at before.
VerifyJudge(v) ==
  /\ pc[v] = "judge"
  /\ \E otpCode \in Codes : Goto(v, Verdict(seen[v], otpCode, now))
  /\ UNCHANGED <<now, otp, at, seen, before>>

VerifyExpire(v) ==
  /\ pc[v] = "expire"
  /\ otp' = MarkUsed({seen[v].id})
  /\ Goto(v, "expired")
  /\ UNCHANGED <<now, at, seen, before>>

VerifyExhaust(v) ==
  /\ pc[v] = "exhaust"
  /\ otp' = MarkUsed({seen[v].id})
  /\ Goto(v, "exhausted")
  /\ UNCHANGED <<now, at, seen, before>>

\* Mutant of VerifyMiss: the whole row read earlier is saved back, isUsed included.
VerifyMissSavesRow(v) ==
  /\ pc[v] = "miss"
  /\ otp' = [i \in Ids |-> IF i = seen[v].id
                          THEN [otp[i] EXCEPT !.attempts = seen[v].attempts + 1, !.isUsed = FALSE]
                          ELSE otp[i]]
  /\ Goto(v, "mismatch")
  /\ UNCHANGED <<now, at, seen, before>>

\* attempts is written from the row read earlier, not incremented in place.
VerifyMiss(v) ==
  /\ pc[v] = "miss"
  /\ otp' = SetAttempts(seen[v].id, seen[v].attempts + 1)
  /\ Goto(v, "mismatch")
  /\ UNCHANGED <<now, at, seen, before>>

\* Mutant of VerifyConsume: the row is not marked as used.
VerifyConsumeUnmarked(v) ==
  pc[v] = "consume" /\ Goto(v, "accepted") /\ UNCHANGED <<now, otp, at, seen, before>>

\* The UPDATE has no condition on isUsed and its row count is not looked at.
VerifyConsume(v) ==
  /\ pc[v] = "consume"
  /\ otp' = MarkUsed({seen[v].id})
  /\ Goto(v, "accepted")
  /\ UNCHANGED <<now, at, seen, before>>

--------------------------------------------------------------------------------
\* cleanupExpiredOtps: DELETE ... WHERE expires_at < now.
Cleanup ==
  /\ CleanupScheduled
  /\ \E i \in Ids : otp[i].expiresAt < now
  /\ otp' = [i \in {j \in Ids : otp[j].expiresAt >= now} |-> otp[i]]
  /\ UNCHANGED <<now, pc, at, seen, before>>

Tick == now < MaxTime /\ now' = now + 1 /\ UNCHANGED <<otp, pc, at, seen, before>>

\* Every request has been answered: nothing else has to happen.
Quiet == Finished = Requests /\ now = MaxTime /\ UNCHANGED vars

GenStep(g) ==
  \/ GenerateRefuse(g) \/ GenerateProceed(g) \/ GenerateInvalidate(g) \/ GenerateInsert(g)

VerStep(v) ==
  \/ VerifyNotFound(v) \/ VerifyRead(v) \/ VerifyJudge(v)
  \/ VerifyExpire(v) \/ VerifyExhaust(v) \/ VerifyMiss(v) \/ VerifyConsume(v)

Next ==
  \/ \E g \in Generators : GenerateCall(g) \/ GenStep(g)
  \/ \E v \in Verifiers : VerifyCall(v) \/ VerStep(v)
  \/ Cleanup
  \/ Tick
  \/ Quiet

Spec == Init /\ [][Next]_vars

--------------------------------------------------------------------------------
(***************************************************************************)
(* Properties.                                                             *)
(***************************************************************************)
Snapshot == [id : Generators, code : Codes, expiresAt : Nat, attempts : Nat]

\* The type invariant of the service's table and of its requests.
TypeOK ==
  /\ now \in Nat
  /\ Ids \subseteq Generators
  /\ \A i \in Ids : otp[i] \in Row
  /\ pc \in [Requests -> GenPC \cup VerPC]
  /\ \A g \in Generators : pc[g] \in GenPC
  /\ \A v \in Verifiers : pc[v] \in VerPC
  /\ at \in [Generators -> Nat]
  /\ DOMAIN seen \subseteq Verifiers
  /\ \A v \in DOMAIN seen : seen[v] \in Snapshot
  /\ before \in [Requests -> SUBSET Requests]

\* Neither of two requests was answered when the other arrived.
Overlap(r, s) == r # s /\ r \notin before[s] /\ s \notin before[r]

\* The requests in S were served one after the other.
Serial(S) == \A r, s \in S : ~Overlap(r, s)

Accepted(i) == {v \in DOMAIN seen : seen[v].id = i /\ pc[v] = "accepted"}
Missed(i)   == {v \in DOMAIN seen : seen[v].id = i /\ pc[v] = "mismatch"}
Readers(i)  == {v \in DOMAIN seen : seen[v].id = i}

\* The wrong guesses of an OTP that overlap with no other verification of it.
Undisturbed(i) == {v \in Missed(i) : \A w \in Readers(i) : ~Overlap(v, w)}

\* However many verifications of one OTP overlap, the attempts column never
\* passes MAX_OTP_ATTEMPTS (otp.service.ts:121): a stale write may lower the
\* counter but the limit the code compares with stays the limit.
AttemptsBounded == \A i \in Ids : otp[i].attempts <= MaxAttempts

\* Once verifyOtp has answered "valid" for an OTP, no request that arrives
\* later is answered "valid" for the same OTP, whatever else overlaps with
\* either (otp.service.ts:98-106 and 138 together).
NoReuseAfterAnswer ==
  \A i \in Generators : \A v, w \in Accepted(i) : v \notin before[w]

\* A verification that arrives after a newer OTP for the same (email, type)
\* has been sent does not accept the older one, provided the newer one was
\* itself requested after the older one had been sent
\* (otp.service.ts:65-66 with 98-106).
SupersededRejected ==
  \A g, h \in Generators : \A v \in Accepted(g) :
    KeyOf[g] = KeyOf[h] /\ g \in before[h] /\ pc[h] = "sent" => h \notin before[v]

\* The wrong guesses of an OTP that overlap with no other verification of it
\* are at most MAX_OTP_ATTEMPTS: overlapping ones lose increments of each other
\* but never one that was written before they arrived (otp.service.ts:120-135).
GuessesBounded == \A i \in Generators : Cardinality(Undisturbed(i)) <= MaxAttempts

\* An OTP that has had MAX_OTP_ATTEMPTS such wrong guesses is not accepted, also
\* by verifications that overlap: the limit is checked before the code is
\* compared (otp.service.ts:121 before 129).
LockedOut ==
  \A i \in Generators : Accepted(i) # {} => Cardinality(Undisturbed(i)) < MaxAttempts

\* Several OTPs of one (email, type) are unused at the same time only when the
\* generations of any two of them overlapped (otp.service.ts:65-66).
PendingOverlap == \A k \in Keys : \A g, h \in Unused(k) : g = h \/ Overlap(g, h)

\* Two OTPs for one (email, type) whose generations do not overlap are at
\* least the cooldown apart, also when the first one has been used in between
\* (otp.service.ts:42-63).
CooldownRespected ==
  \A g, h \in Ids :
    otp[g].key = otp[h].key /\ g \in before[h] => otp[h].createdAt >= otp[g].createdAt + Cooldown

--------------------------------------------------------------------------------
\* otp.service.ts:137 "Mark as used": an OTP is accepted once.  Checked, and
\* refuted, in a run of its own.
SingleUse == \A i \in Generators : Cardinality(Accepted(i)) <= 1

--------------------------------------------------------------------------------
(***************************************************************************)
(* The inductive invariant behind the properties above.                    *)
(***************************************************************************)
Spent(i) == i \in Ids => otp[i].isUsed

\* Exactly the verifiers past their findOne hold a row.
HasRow == \A v \in Verifiers : pc[v] \notin {"idle", "read", "notFound"} <=> v \in DOMAIN seen

\* The rows present, and those a verifier holds, are those of finished generators.
Stored == \A i \in Ids : pc[i] = "sent" /\ otp[i].key = KeyOf[i]
Held == \A v \in DOMAIN seen : pc[seen[v].id] = "sent" /\ KeyOf[seen[v].id] = KeyOf[v]

\* A miss is about to be written only from a row that was below the limit.
BelowLimit ==
  /\ AttemptsBounded
  /\ \A v \in DOMAIN seen : pc[v] = "miss" => seen[v].attempts < MaxAttempts

\* History only names requests that have been answered.
Past == \A r \in Requests : before[r] \subseteq Finished

AcceptedSpent == \A v \in DOMAIN seen : pc[v] = "accepted" => Spent(seen[v].id)

\* As NoReuseAfterAnswer, from the moment the later request has read its row.
NoReread ==
  \A v, w \in DOMAIN seen :
    pc[v] = "accepted" /\ seen[v].id = seen[w].id => v \notin before[w]

\* The UPDATE of a generation has retired every OTP sent before it arrived.
NewerRetires ==
  \A g, h \in Generators :
    KeyOf[g] = KeyOf[h] /\ g \in before[h] /\ pc[h] \in {"insert", "sent"} => Spent(g)

\* As SupersededRejected, from the moment the verifier has read its row.
NoSuperseded ==
  \A v \in DOMAIN seen : \A h \in Generators :
    KeyOf[h] = KeyOf[v] /\ seen[v].id \in before[h] /\ pc[h] = "sent" => h \notin before[v]

\* The strengthening that makes the single-use and the supersession rules, and
\* the bound on attempts, inductive.
OtpInvariant ==
  /\ TypeOK /\ HasRow /\ Stored /\ Held /\ BelowLimit /\ Past
  /\ AcceptedSpent /\ NoReread /\ NewerRetires /\ NoSuperseded
================================================================================
