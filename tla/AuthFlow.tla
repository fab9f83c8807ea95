-------------------------------- MODULE AuthFlow --------------------------------
(***************************************************************************)
(* The flows of src/src/modules/identity/auth/auth.service.ts, which join  *)
(* the table of one-time passwords (Otp) to one row of users (UserRow):    *)
(* forgotPassword and sendVerificationEmail look the user up by address,   *)
(* generate an OTP and queue a mail; resetPassword and verifyEmail verify  *)
(* an OTP, look the user up by address and update it.  None of it is in a  *)
(* transaction, and the administrator's changes of the user go on          *)
(* meanwhile.  A generator is a call of the first two, a verifier one of   *)
(* the other two.                                                          *)
(***************************************************************************)
EXTENDS Otp

CONSTANTS
  Emails,     \* addresses
  Changers,   \* the other requests that change the user
  Task,       \* what each verifier and changer does to the user: see UserRow
  Patch,      \* what the body of each profile request holds: see UserRow
  Holds       \* the address the user has by each choice of profile

Writers == Verifiers \cup Changers

VARIABLES
  flow,                              \* how far each request is around its OTP
  known,                             \* history: the updates answered when a generator found the user
  row, step, entity, dirty, prior    \* the user's row and its updates

U == INSTANCE UserRow WITH Requests <- Writers, pc <- step, before <- prior

ASSUME FlowAssumption ==
  /\ Changers \cap Requests = {}
  /\ "original" \notin Writers
  /\ Keys = Emails \X {"reset", "verify"}
  /\ Task \in [Writers -> U!Tasks]
  /\ \A v \in Verifiers : Task[v] = KeyOf[v][2]
  /\ \A c \in Changers : Task[c] \in {"activate", "deactivate", "profile", "delete"}
  /\ \A c \in Changers : Task[c] = "profile" => U!IsPatch(c, Patch[c])
  /\ Holds \in [U!Choice -> Emails]

userVars == <<row, step, entity, dirty, prior>>
flowVars == <<vars, userVars, flow, known>>

Email(r) == KeyOf[r][1]
Purpose(r) == KeyOf[r][2]

\* getByUserByEmail finds the user: findOne leaves soft-deleted rows out.
HasAddress(e) == ~row.deletedAt /\ Holds[row.profile] = e

FlowInit ==
  /\ Init /\ U!Init
  /\ flow = [r \in Requests |-> "idle"]
  /\ known = [g \in Generators |-> {}]

\* Request r of an AuthService flow goes from a to b around the other modules' steps.
Move(r, a, b) == flow[r] = a /\ flow' = [flow EXCEPT ![r] = b]

\* The SELECT of the user is refused by the database: a verification that has
\* used up its OTP ends there, and a generation before it has an OTP.
LookupFails(r) ==
  /\ flow[r] = "lookup" \/ (flow[r] = "verify" /\ pc[r] = "accepted")
  /\ Move(r, flow[r], "error")
  /\ UNCHANGED <<vars, userVars, known>>

--------------------------------------------------------------------------------
(***************************************************************************)
(* forgotPassword, sendVerificationEmail.                                  *)
(***************************************************************************)
SendCall(g) == Move(g, "idle", "lookup") /\ UNCHANGED <<vars, userVars, known>>

\* The silent answer of forgotPassword, and "Invalid email".
SendNoUser(g) ==
  /\ ~HasAddress(Email(g))
  /\ Move(g, "lookup", "noUser")
  /\ UNCHANGED <<vars, userVars, known>>

SendVerified(g) ==
  /\ HasAddress(Email(g)) /\ Purpose(g) = "verify" /\ row.isEmailVerified
  /\ Move(g, "lookup", "verified")
  /\ UNCHANGED <<vars, userVars, known>>

SendFound(g) ==
  /\ HasAddress(Email(g))
  /\ Purpose(g) = "verify" => ~row.isEmailVerified
  /\ Move(g, "lookup", "generate")
  /\ GenerateCall(g)
  /\ known' = [known EXCEPT ![g] = U!Finished]
  /\ UNCHANGED userVars

\* The mail is queued after the OTP has been stored; Redis may refuse the job.
SendMail(g) ==
  /\ pc[g] = "sent"
  /\ \E answer \in {"queued", "failed"} : Move(g, "generate", answer)
  /\ UNCHANGED <<vars, userVars, known>>

--------------------------------------------------------------------------------
(***************************************************************************)
(* resetPassword, verifyEmail.                                             *)
(***************************************************************************)
RedeemCall(v) == Move(v, "idle", "verify") /\ VerifyCall(v) /\ UNCHANGED <<userVars, known>>

\* Mutant of RedeemNoUser: only active users are looked for.
RedeemNoUserActive(v) ==
  /\ pc[v] = "accepted" /\ ~(HasAddress(Email(v)) /\ row.isActive)
  /\ Move(v, "verify", "noUser") /\ UNCHANGED <<vars, userVars, known>>

\* The OTP is used up and there is nobody to update.
RedeemNoUser(v) ==
  /\ pc[v] = "accepted"
  /\ ~HasAddress(Email(v))
  /\ Move(v, "verify", "noUser")
  /\ UNCHANGED <<vars, userVars, known>>

\* Mutants of RedeemFound: the answer of verifyOtp is not awaited; the user is
\* found by the id kept with the OTP and not by the address.
RedeemFoundUnawaited(v) ==
  HasAddress(Email(v)) /\ Move(v, "verify", "update") /\ U!Call(v) /\ UNCHANGED <<vars, known>>
RedeemFoundById(v) ==
  /\ pc[v] = "accepted" /\ ~row.deletedAt
  /\ Move(v, "verify", "update") /\ U!Call(v) /\ UNCHANGED <<vars, known>>

\* The user is found; after the hash, updateUserById finds it again by id.
RedeemFound(v) ==
  /\ pc[v] = "accepted"
  /\ HasAddress(Email(v))
  /\ Move(v, "verify", "update")
  /\ U!Call(v)
  /\ UNCHANGED <<vars, known>>

--------------------------------------------------------------------------------
Generator(g) ==
  \/ SendCall(g) \/ SendNoUser(g) \/ SendVerified(g) \/ SendFound(g) \/ SendMail(g)
  \/ LookupFails(g)
  \/ GenStep(g) /\ UNCHANGED <<userVars, flow, known>>

Verifier(v) ==
  \/ RedeemCall(v) \/ RedeemNoUser(v) \/ RedeemFound(v) \/ LookupFails(v)
  \/ VerStep(v) /\ UNCHANGED <<userVars, flow, known>>
  \/ U!Step(v) /\ UNCHANGED <<vars, flow, known>>

Changer(c) == (U!Call(c) \/ U!Step(c)) /\ UNCHANGED <<vars, flow, known>>

FlowAnswered ==
  /\ \A g \in Generators : flow[g] \in {"noUser", "verified", "queued", "failed", "error"} \/ pc[g] = "refused"
  /\ \A v \in Verifiers : \/ flow[v] \in {"noUser", "error"} \/ step[v] \in U!Final
                          \/ pc[v] \in VerFinal \ {"accepted"}
  /\ \A c \in Changers : step[c] \in U!Final

FlowNext ==
  \/ \E g \in Generators : Generator(g)
  \/ \E v \in Verifiers : Verifier(v)
  \/ \E c \in Changers : Changer(c)
  \/ (Cleanup \/ Tick) /\ UNCHANGED <<userVars, flow, known>>
  \/ FlowAnswered /\ now = MaxTime /\ UNCHANGED flowVars

FlowSpec == FlowInit /\ [][FlowNext]_flowVars

--------------------------------------------------------------------------------
\* Verifier v has shown the code of an OTP that was sent to its address, for
\* its purpose, by a request that found the user there.
Proved(v) ==
  /\ pc[v] = "accepted"
  /\ KeyOf[seen[v].id] = KeyOf[v]
  /\ flow[seen[v].id] \in {"generate", "queued", "failed"}

\* The password of the user is the original one, or was chosen by a reset that
\* has proved its address, or by a profile request that was let in with
\* users:update and had a password in its body: also a save that started from an
\* old copy of the user brings back only such a password (auth.service.ts:98-113,
\* otp.service.ts:98-138, identity.controller.ts:53-63, user.service.ts:86-93).
PasswordAuthorised ==
  LET chooser == row.password IN
    \/ chooser = "original"
    \/ chooser \in Verifiers /\ Purpose(chooser) = "reset" /\ Proved(chooser)
    \/ /\ chooser \in Changers /\ Task[chooser] = "profile" /\ step[chooser] # "idle"
       /\ "password" \in DOMAIN Patch[chooser]

\* Once the user has moved to another address, and no request overlapped with
\* the move and none moved it back, an OTP of the old address updates nothing,
\* not even one verified before the move (auth.service.ts:104, 155).
AddresseeOnly ==
  \A p \in Changers, v \in Verifiers :
    /\ "profile" \in U!Sets(p) /\ step[p] = "done" /\ Holds[p] # Email(v)
    /\ \A s \in Writers : ~U!Overlap(p, s)
    /\ \A s \in Changers : p \in prior[s] => "profile" \notin U!Sets(s)
    => p \notin prior[v]

\* c moves the user to another address, or deletes it or undoes that.
Relocates(c) == U!Sets(c) \cap {"profile", "deletedAt"} # {}

\* An accepted OTP finds nobody to update only when the user has moved or been
\* deleted since the request that sent it found the user; or when such a change
\* overlapped with another one, whose save of an old copy can undo it later
\* (auth.service.ts:73, 124 against 105, 156; user.service.ts:86-93).
WastedForAReason ==
  \A v \in Verifiers :
    flow[v] = "noUser" \/ step[v] = "notFound" =>
      \E c \in Changers :
        /\ Relocates(c) /\ step[c] \in {"done", "error"}
        /\ c \notin known[seen[v].id] \/ \E w \in Writers : U!Overlap(c, w)

\* The passwords the user may have at this moment.
Authorised ==
  {"original"} \cup {v \in Verifiers : Task[v] = "reset" /\ pc[v] = "accepted"}
    \cup {c \in Changers : /\ Task[c] = "profile" /\ step[c] # "idle"
                           /\ "password" \in DOMAIN Patch[c]}

\* The strengthening that makes PasswordAuthorised inductive: the entities of
\* the saves in progress hold authorised passwords too.
FlowInvariant ==
  /\ flow \in [Requests -> {"idle", "lookup", "noUser", "verified", "generate",
                            "queued", "failed", "verify", "update", "error"}]
  /\ step \in [Writers -> U!PC]
  /\ \A v \in Verifiers : step[v] # "idle" => pc[v] = "accepted"
  /\ \A g \in Generators : pc[g] # "idle" => flow[g] \in {"generate", "queued", "failed"}
  /\ \A w \in U!Savers : step[w] \in {"load", "write"} => w \in DOMAIN entity
  /\ row.password \in Authorised
  /\ \A w \in DOMAIN entity : entity[w].password \in Authorised
================================================================================
