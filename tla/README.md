# Verification of nest-authentication-jwt-rbac

TLA+ models of the NestJS starter in `src/`: one-time passwords, user rows,
cached sessions and role-based access, the cache, mail, how users come to be, the
repository with its audit trail, and pages, with TLC runs on small instances
and TLAPS proofs. Paths below are relative to the repository; its TypeScript is in
`src/`, so `src/shared/otp/otp.service.ts` is the OTP service.

## 1. The system

An API process (one or several) answers HTTP requests over PostgreSQL; a worker
process sends mail from a BullMQ queue in Redis; a seeder runs by hand. Each
request is an asynchronous function: it holds the event loop between two
`await`s and gives it away at each of them. No request uses a transaction, a
row lock or a version column, so **the unit of atomicity is one database
statement, or the code between two `await`s**, and every model here has that
granularity.

| component | state | operations | talks to |
|---|---|---|---|
| OtpService (`shared/otp`) | table `otps` | `generateOtp`, `verifyOtp`, `getOtpStatus`, `cleanupExpiredOtps` | called by AuthService |
| AuthService (`modules/identity/auth`) | none | `login`, `forgotPassword`, `resetPassword`, `sendVerificationEmail`, `verifyEmail`, `getOtpStatus` | OtpService, UserService, TokenService, EmailService |
| UserService (`modules/identity/user`) | table `users` | `updateUserById` (find, then `save`), `updateUserByIdRaw`, `softDeleteUser`, `register`, `createUserWithPassword`, `insertNewUserByAdmin` | RoleService, TokenService, EmailService |
| IdentityService | none | status, deletion, profile, account | UserService, AccountService |
| JwtStrategy | none | `validate` on every authenticated request | CacheService, table `users` |
| CacheService (`shared/cache`) | a `Map` in the process | `get`, `set`, `del`, `exists`, `keys`, `ttl`, `expire`, `clearPattern`, clean-up every minute | used by JwtStrategy only |
| PermissionsGuard, `permissions.constant.ts` | none | `canActivate`, the role dictionary | the user JwtStrategy returned |
| AbstractRepository | any table | find, save, soft and hard removal, restore, audit entry | base of the services |
| RoleService, ProductService, AccountService, AuditLogService | one table each | find, save, remove, pages | AbstractRepository |
| TokenService | table `tokens` | signs and stores JWTs | UserService, AuthService |
| EmailService, QueueService, EmailProcessor | the Redis queue | enqueue, or send directly; three attempts with back-off | SMTP |
| Helper, `PaginatedResponseDto`, response interceptor | none | page arithmetic, what a reader is told | lists of every service |
| seeder | `roles`, `users`, `accounts` | creates what is missing | – |

What makes it hard: verifications and generations of one address overlap and
decide from rows read earlier; `save()` writes an entity found earlier over a
row that has changed since; a copy of the user decides authenticated requests
for up to an hour; an OTP is used up before the change it authorises is made;
mail is queued after the OTP is stored; a process may stop between any two
statements. `PROJECT.json` lists these hazards at their lines.

What makes each component correct:

- OTP: never accepted again once that was answered, superseded by a newer one; five
  wrong guesses that nobody overlaps close it, whatever else does; at least a minute
  between two of them; only for its address and purpose; the status tells the truth.
- User rows: an answered update is kept and a deleted user stays deleted, unless
  somebody else sets the same column or an overlapping save writes it back.
- Sessions: decided from a user that was current not long ago, also while a process
  stops; whoever is admitted was entitled to it as a whole.
- Cache: nobody can tell when expired entries are really deleted; a cleared
  pattern is gone; memory is given back.
- Mail: accepted mail is in the queue or sent; it is sent or given up in the end,
  and not more often than attempts and recoveries of its job allow.
- Onboarding: two calls create the user of one address only when the first user has
  moved away; only passwords that were chosen for a row open it; a run of the seeder
  that ends well leaves an administrator.
- Repository: what was answered holds until somebody changes it; no row vanishes
  without an entry; when the audit trail can be believed.
- Pages: a reader misses an old row, or sees one twice, only for a reason that can be
  named: a tie, or rows that went, came or moved.

## 2. Modules

| module | models | notes |
|---|---|---|
| `Otp` | `otp.service.ts`: generate, verify, clean-up | requests are processes that are served once |
| `OtpStatus` | `getOtpStatus`, asked while `Otp` runs | extends `Otp` with askers |
| `UserRow` | one row of `users` and the requests that change it | `save()` of TypeORM from how it is used |
| `AuthFlow` | `auth.service.ts`: forgot, reset, send-verification and verify as whole requests | extends `Otp`, instantiates `UserRow` |
| `Permissions` | the dictionary and the guard's decision | operators, no state |
| `Session` | `JwtStrategy.validate`, cache, guard, changes of users, graceful stop, restart | extends `Permissions` |
| `CacheAbs` | what a cache promises: entries vanish the moment they expire | no timer, no memory |
| `Cache` | `cache.service.ts`, all of it | implements `CacheAbs` |
| `EmailQueue` | `email.service.ts`, `queue.service.ts`, `email.processor.ts`, end of `worker/main.ts` | BullMQ external |
| `Onboarding` | creation, login and `PATCH` of users, the seeder, `user.entity.ts` | the unique index as the schema has it |
| `Repository` | `abstract.repository.ts`, the services of roles, products, accounts, audit log | one table and its trail |
| `Pages` | `helper.ts`, `pagination.dto.ts`, `response.interceptor.ts`, `findAndCount` | readers among rows that come, go and move |
| `MCOtp`, `MCUserRow`, `MCAuthFlow`, `MCSession`, `MCCache`, `MCEmailQueue`, `MCOnboarding`, `MCRepository`, `MCPages` | instances for TLC | one per model, a `.cfg` per run |
| `AuthFlowProofs` | theorems about `Otp`, `OtpStatus` and `AuthFlow` | extends them, instantiates `UserRowProofs` |
| `UserRowProofs`, `SessionProofs`, `CacheProofs`, `EmailQueueProofs`, `OnboardingProofs`, `RepositoryProofs`, `PagesProofs` | theorems about the module of the same name | extend it and `TLAPS` |

`AuthFlow` composes `Otp` and `UserRow`, `Session` composes the cache, the strategy
and the permissions, `OtpStatus` adds its askers to `Otp`. The others stand alone.

### Otp

`otp` is the table, a function from the ids present to rows; a row is named
after the generation that inserted it, because each request is served once.
`pc[r]` is the statement request `r` has sent or the answer it has given, so an
action is named after the code between two awaits:
`GenerateCall` (the cut-off is computed), `GenerateRefuse`/`GenerateProceed`
(the cooldown query and its test), `GenerateInvalidate` (the UPDATE),
`GenerateInsert` (`expiresAt` is computed from the clock some time before the
INSERT stamps `createdAt`), `VerifyRead` (the `findOne`), `VerifyJudge` (expiry,
then limit, then code, from the row read), and one UPDATE per verdict. The code a
request carries is looked at in `VerifyJudge` only and may be any code, so that is
where it is chosen. A UPDATE
of a row the clean-up has deleted touches nothing and the answer is given all
the same, as in the code.

`now` is one clock for the process and the database (no skew). `before[r]` is a
history variable: the requests that had been answered when `r` arrived. Two
requests *overlap* when neither is in the other's `before`. What the code loses when
requests overlap is part of the properties and not left out of them:
`GuessesBounded` and `LockedOut` count the wrong guesses that overlap with no other
verification of the OTP (`Undisturbed`) *among* any that do, since overlapping ones lose
increments of each other but none that was written before they arrived;
`PendingOverlap` says that two OTPs of one address are pending only when their own
generations overlapped, which a third generation cannot prolong. Where a property holds
only without overlap (`CooldownRespected`, `PendingCanResend`), it says so.

A crash of the process is a request that is never scheduled again: the safety
properties are checked without fairness, so every prefix of every request is a
behaviour. Nothing in the repository schedules `cleanupExpiredOtps` ("can be
called via cron job"), so `CleanupScheduled` is a constant. The clean-up may
delete an OTP inside the cooldown when the configured expiry is shorter than
it, so `CooldownRespected` speaks of OTPs that are both still in the table.

### OtpStatus

An asker sends its query with its own reading of the clock and computes
`canResend` from the row returned and a later reading; then `Answer` forgets what it has
read. `NoRace(a)` says that no generation for the address overlaps with another one or
with the question.

### UserRow

A saver (`updateUserById`) has three statements: `SaveFind` (`findOne` and
`Object.assign`), then inside TypeORM's `save()` `SaveLoad` (a SELECT by id that
includes soft-deleted rows, and the comparison of all columns) and `SaveWrite`
(an UPDATE of the columns that differed). `login` and the soft deletion are
`DirectFind` and `DirectWrite`. Any statement may be refused (`Fail`), and the answer of
a write that was made may be lost. Column values are named after the request that
chose them, so a property can say whose value is in the row. The semantics of
`save()` are the library's and are marked external in the map.

What a `PATCH` of a profile sets is a constant, `Patch`, and not only the profile: its
body has its type in line (`identity.controller.ts:60`), so the `ValidationPipe` neither
checks nor strips it and `Object.assign` (`user.service.ts:91`) takes a password,
`isActive`, `isEmailVerified` or `deletedAt` as well. The column `profile` stands for name
and address. A body with an id, which would make `save()` work on another row, and
a role are left out.

`Rewrites(r, c)` says that another request sets column `c`, overlapping with `r` or later;
`WritesBack(r, c, v)` that a save which overlaps with `r` has found `v` in the column, a
value that differs from the row's, and so writes it. `AnsweredUpdateSurvives` and
`DeletedIsNotFound` speak of every answered request, overlapped or not, and allow these two
reasons and no third.

### AuthFlow

The flows of AuthService around the two modules above: a generator of `Otp` is a
`forgotPassword` or a `sendVerificationEmail`, a verifier a `resetPassword` or a
`verifyEmail`, by the purpose in its key. `flow[r]` is where the request is around
its OTP. `SendCall` sends the lookup by address; `SendNoUser`, `SendVerified` and
`SendFound` are its outcomes, the last one entering `generateOtp`; `SendMail` queues
the mail, or fails, after the OTP is stored. `RedeemCall` enters `verifyOtp`;
`RedeemNoUser` and `RedeemFound` are the lookup by address once it has accepted,
the last one entering `updateUserById`, whose statements are those of `UserRow`.
`Changers` are requests for the same user that come from elsewhere: a `PATCH` of the
profile, whose body (`Patch`) may hold a password, a deletion, a deactivation. The
address is a function (`Holds`) of the profile the row has, because a change of the
profile may change it; the user is one and the other addresses have nobody.
`LookupFails` is a lookup by address that the database refuses, before or after the OTP was
verified: then the OTP is used up and nothing has changed. `known` is history: the changes
that had been served when a generation's lookup found its user. A reset also
sets `isActive`, which is how an invited user is activated; it therefore also
activates a user an administrator has deactivated.

### Session

The row of a user is the sequence of its versions and a copy is the number of
one. `ValidateHit` decides from the cache; `ValidateMiss`, `Fetch` and `Store`
are the fill: the cache is looked at, the database answers, and the answer is
cached with a full TTL and decided from, possibly after another fill with a newer
version has been stored (an older copy can replace a newer one). `ChangeUser` is
any change of the row or of the role joined to it, every column both ways, and it does
not touch the cache, because nothing in the program does. `OnModuleDestroy` is the
graceful stop: `app.close()` clears the map and stops the clean-up before the HTTP server
is closed, so requests in progress, and new ones, go on, fill the map again and are answered
(`destroyed`). `Restart` is the end of the process, after a stop or without one, and the
start of the next: the map and the requests still in progress are lost. `Verdict` is the two
checks of `validate` followed by `PermissionsGuard`, in the order of the code.

`MaxDelay` bounds how long a database answer may wait to be processed (a guard
of `Tick`): without such a bound nothing can be said about the age of a copy.
The bound proved is therefore `Ttl + MaxDelay` and not the TTL.

### Cache, CacheAbs

Between two `await`s a call of the cache runs to its end, and none but
`clearPattern` has one inside: every operation is one action, `clearPattern` is two
(`ClearPattern` collects the keys, `ClearDelete` deletes them). `map[k]` stays where it
is when its deadline passes; `get`, `exists`, `ttl` and `Cleanup` delete what they find
expired, `keys` and `getStats` do not, and `expire` revives it. Deadlines are in ticks, of
which there are `Sec` in a second, because `ttl` rounds up and treats the last
instant as over while the other calls do not. `answer` is what the caller sees.
`CacheAbs` has no expired entries at all: they vanish with the clock's step, and are
kept aside in `lapsed` only until somebody misses them, which is all `expire` can
bring back. The mapping is `VisibleMap` and `LapsedMap`; the clean-up maps to `Forget`.
`JwtStrategy` uses `get` and `set` only, and `Session` has them in its own steps.

### EmailQueue

A call of `EmailService` puts its mail into the queue (`AddEmailJob`: Redis may refuse,
or store the job and lose the answer) or, without Redis, sends it itself. A worker
takes a job, compiles the template (`Render`: a name the template needs and the JSON
does not have throws), sends (`Deliver`: the server may accept and its answer be
lost), and completes or fails the job, which then waits twice as long each time. What
BullMQ does with its options is external: a job whose worker has died or is too slow
is found stalled and taken back `MaxStalled` times, and a worker that has lost its
lock changes nothing any more. A worker dies anywhere, or receives SIGTERM,
finishes its job and exits; it may be started again.
A generic mail without a link renders when it is sent directly and throws in the
worker, because JSON drops keys without a value; nothing calls `sendGenericEmail`.

### Onboarding

A password is a text and how often it was hashed: `insertNewUserByAdmin`,
`createUserWithPassword` and the seeder hash it and `@BeforeInsert` hashes it
again, `register` leaves it to `@BeforeInsert`, a reset hashes once by an update. The
lookups do not see deleted rows and the unique index does. A request is looked up,
saved, given a token and a mail, one statement after the other, any of which may fail;
the seeder goes through its roles, the user and its account and may stop between any
two statements (`Fail` is anywhere). Rows are named after the call that inserted them. A
`PATCH` (`PatchFind`, `PatchSave`) may give its row another address, which frees the old
one, a password, as a text or as a hash, a role or another status, and two of them may
overlap, so that one writes a stale address back. The unique index lets a row move only to
an address that no other row has, a deleted one included. `moved` (the rows whose address
ever changed) and `chosen` (the passwords that a registration, a reset or a `PATCH` chose for
each row) are history. A reset is one step here: `AuthFlow` and `UserRow` have its parts. `register` and `createUserWithPassword` have
no caller in the program; they are modelled as the service offers them.

### Repository

An operation is a sequence of statements (`does`), so `updateOne` is a find, the SELECT
and the write of `save`, and the audit entry; `hardRemove` writes its entry before it
removes. Requests interleave between any two statements and the database may fail
at each. The failure of an entry is swallowed. The
operations of the services are the same with their own checks and without entries,
because none of them hands in an audit context; none hands in a transaction either. A
bulk update is logged under the id `bulk`, which the `uuid` column refuses, so it
never leaves an entry.

### Pages

A reader asks for pages from the first one on; a page is a query for rows and then one
for their number. Between any two queries rows are inserted (`InsertRow`, a restored one
too), removed (`RemoveRow`) or, when an update touches the column of the order, moved
(`MoveRow`). The client chooses that column, which need not be unique, and the query
names no second one: `tied` are the rows that ever equal another one in it, and
`FindRows` gives a page the untied rows of its window and *any* tied rows in place of the
window's tied ones. `left` says that a row went, out of the list or further down, and
`entered` that one came, from outside or from elsewhere. The list has any length up to the
number of rows.
Readers of roles are told of the next page (`paginateResponse`); readers of
products and audit entries are not, because the interceptor passes `metaInfo` on and
leaves out `meta`, and go on while pages are full; the list of users is one page and says
whether there are more. `Totals` has both the count and what later versions of TypeORM
infer from a page that is not full.

## 3. Runs

| run | question | bounds |
|---|---|---|
| `OtpSafety` | is an answered or superseded OTP ever accepted; how far do overlapping requests break limit, cooldown and retirement; is `canResend` honest; is the proofs' invariant right | 2 generations, 2 verifications, 1 status question, 2 codes, limit 1, expiry 1, cooldown 1, 3 moments of the clock, clean-up |
| `UserRow` | who can undo an answered update or deletion | deactivation, verification, `PATCH` with profile, password and `isActive`, deletion; any statement fails |
| `AuthFlow` | does a password change only with an OTP proved or a `PATCH` that holds one, and never for who has moved; when does an OTP find nobody | 2 addresses, 1 sending for each, 1 reset, a `PATCH` that moves the user and holds a password and a verified mark, a deletion, 1 tick |
| `SessionStaleness` | how stale a decision can be, also through a graceful stop and a restart | 1 user, 2 versions of 6 kinds of row, 3 requests, TTL 2, delay 1, 5 ticks |
| `Cache` | can a caller tell that nothing is removed when it expires; is a cleared key gone; is memory given back | 2 keys, one of which matches the pattern of the other's user, 2 values, TTL 1 of 2 ticks, 3 ticks, 1 `clearPattern` |
| `EmailQueue` | how often can a mail be sent, what outage does it survive, is every job settled | 1 mail of 2 kinds, 2 workers, 3 attempts, back-off 1, stalled once, 1 crash |
| `Onboarding` | when two calls create the user of one address, what opens a row | 2 addresses, 1 registration, invitation, login and `PATCH`, resets, deletions |
| `OnboardingSeeds` | what a run of the seeder that ends well leaves | 2 addresses, 2 runs of the seeder, 1 creation, 1 `PATCH`, removed roles, deletions |
| `Repository` | what holds of answered operations, what the trail is worth | 3 requests of any of 18 operations, 1 row, 2 columns |
| `Pages` | which rows can a reader miss or see twice | 1 reader, 1 to 3 rows on a page, 4 rows of which any are there and any are tied |
| `OtpSingleUse`, `OnboardingSeeded` | refuted: see section 5 | smallest that shows it |

Why these bounds are enough: every property relates at most two OTPs and two
verifications of them, or two updates of a row, or one decision and two
versions of its user, and the runs have that many actors of each kind, with
one or two more where a third one can disturb (three racing fills, a deletion
beside a `PATCH` and two other updates, three operations on a row). A mail's history is its own,
and two workers are what a duplicate needs: one that lost its lock and one that
took over. The three attempts and the single recovery are the values of the code and
of BullMQ. Two addresses are what a move takes: one that is freed and one
that is taken. Four rows on pages of one to three have full and short last pages and rows
to come and to move. Expiry, cooldown and TTL are small but each is
shorter than the clock's bound, so they elapse. `AuthFlow` starts from an invited user
only, neither active nor verified (`InvitedSpec`); `UserRow` starts from every kind. Its clock ticks
once; the OTPs in it are those of `Otp` (`FlowImplementsOtp`), where `OtpSafety` lets
them expire. In
`OtpSafety` the question comes after some OTP was sent (`LateQuestion`): before that it
finds nothing or races. With two codes a guess can be right
or wrong of each OTP independently. Symmetry is used for requests of one kind
about one key, for codes, rows and runs of the seeder; never in a run with a liveness
property. The proofs remove the bounds for every safety property.

A run ends in states where every request has been answered and the clock has
stopped: `Quiet` (`FlowAnswered`, `Done`) lets it stutter there, so TLC's deadlock check
reports any request that is stuck in any branch: no request waits for another one, so
that is all there is to say about their being answered.

**Fairness.** `FairSpec` of `Cache`: the clean-up runs again and again while its interval is
set, and nothing else is promised, so `ExpiredAreSwept` rests on the timer alone.
`FairSpec` of `EmailQueue`: a worker that runs goes on with its job and takes the next,
BullMQ finds orphaned jobs and promotes delayed ones as long as some worker runs,
time passes, and calls are answered. Nothing says that a worker is ever started again,
so `QueuedIsSettled` has a worker that stays up as its condition. All safety properties are checked without fairness.

## 4. Proofs

Checked by `tlapm` (SMT, Zenon, LS4) for every value of the constants that
satisfies the named assumptions `OtpAssumption`, `FlowAssumption`, `UserRowAssumption`,
`SessionAssumption`, `CacheAssumption`, `MailAssumption`, `OnboardingAssumption`,
`RepositoryAssumption` and `PagesAssumption`, which state types and disjointness and no
more. That the rows a request makes are neither `Existing` nor each other's is what
`uuid` keys promise.

| theorem | says |
|---|---|
| `OtpInvariantHolds` | `Spec => []OtpInvariant` |
| `OtpTypeCorrect`, `AttemptsStayBounded`, `AnsweredOtpIsNotReused`, `SupersededOtpIsRejected` | the type invariant, `AttemptsBounded`, `NoReuseAfterAnswer`, `SupersededRejected` |
| `CooldownIsRespected`, `PendingOtpsOverlap` | `CooldownRespected`, `PendingOverlap` |
| `GuessesStayBounded`, `LimitLocksOut` | `GuessesBounded`, `LockedOut` |
| `StatusImplementsOtp`, `ResendsAreHonest` | `StatusSpec => Spec`, and `PendingCanResend` (an action property) |
| `FlowImplementsOtp`, `FlowImplementsUserRow` | `FlowSpec => Spec` and `FlowSpec => U!Spec`: the flows implement the OTP service and the user service, so the theorems about both hold of them |
| `FlowInvariantHolds`, `PasswordsAreAuthorised` | `FlowInvariant`, `PasswordAuthorised` |
| `OnlyTheAddresseeUpdates`, `OtpsAreRedeemable` | `AddresseeOnly`, `WastedForAReason` |
| `RowInvariantHolds` | `Spec => []RowInvariant` of `UserRow` |
| `RowTypeCorrect`, `AnsweredUpdatesSurvive`, `DeletedUsersAreNotFound` | the type invariant, `AnsweredUpdateSurvives`, `DeletedIsNotFound` |
| `SessionInvariantHolds` | `Spec => []SessionInvariant` |
| `DecisionsAreBoundedlyStale`, `AdmissionsAreEntitled` | `StalenessBounded`, `AdmittedWasEntitled` |
| `CacheInvariantHolds` | `Spec => []CacheInvariant` |
| `CacheImplementsAbstract`, `ClearPatternClears` | `ExpiryIsInvisible` (the refinement of `CacheAbs`), `ClearedAreGone` |
| `QueueInvariantHolds` | `Spec => []QueueInvariant` |
| `CopiesStayBounded`, `AnsweredMailIsKept`, `OutagesAreSurvived` | `CopiesBounded`, `MailIsKept`, `OutageSurvived` |
| `OnboardingInvariantHolds` | `Spec => []OnboardingInvariant` |
| `OnlyMovedUsersMakeRoom`, `OnlyChosenPasswordsLogIn`, `SeedersComplete` | `OneOwner`, `OnlyChosenPasswordsOpen`, `SeedComplete` |
| `RepositoryInvariantHolds`, `RemovalsLeaveATrace` | `RepositoryInvariant`, `NoTraceIsLost` |
| `AnsweredInvariantHolds`, `AnswersHold` | `AnsweredInvariant`, `AnsweredHolds` |
| `TrailInvariantHolds`, `TrailExplains` | `TrailInvariant`, `TrailExplainsTable` |
| `NextPageMeansMore` | `NextPage` and `HasNextPage` say the same, and that rows lie behind this page |
| `PagesInvariantHolds`, `OldRowsAreAlwaysSeen`, `RepeatsAreExplained` | `PagesInvariant`, `OldRowsAreSeen`, `RepeatsHaveAReason` |

*OTP.* `NoReuseAfterAnswer` is not inductive: it says nothing of a verification
that has read the row but is not yet accepted. `OtpInvariant` adds that an
accepted OTP is spent in the table (`AcceptedSpent`), that a request which
arrived after the acceptance cannot even hold the row (`NoReread`), that the
UPDATE of a generation has spent every OTP sent before it arrived
(`NewerRetires`), and that a request which arrived after it cannot hold one of
those (`NoSuperseded`). What carries them is that a row is never un-spent and
that the history only names finished requests (`Past`). `AttemptsBounded` needs
that a pending write of `attempts` comes from a row below the limit
(`BelowLimit`). `PendingOverlap` follows from the same invariant, since of two
generations that do not overlap the later one has spent the OTP of the earlier.
`CooldownRespected` needs more (`CooldownInvariant`): a generation that has passed its
query for recent OTPs is at least a cooldown later than every OTP in the table whose
generation was answered before it arrived (`CooldownAhead`).
`GuessesBounded` and `LockedOut` need that the column *counts* (`Counted`): the undisturbed
wrong guesses of an OTP are at most its `attempts`, and at most what any verification in
progress has read of them, because a guess that such a verification could have missed
overlaps with it and is not undisturbed. So a stale write never takes the column below them
(`CountedKeeps`), and who passes the limit check has seen fewer than the limit.
`PendingCanResend` is about one step, in which `now` is compared with the time of the OTP
found earlier. Without a race the OTP that is not spent is the newest of its key
(`PendingIsNewest`: an older one was spent by the generation of a newer one, and
`CooldownRespected` orders their times), and no generation that the question was not told of
can insert one while it is answered, so that time stays the newest (`Freshest`, part of
`StatusInvariant`). The askers leave the service alone, so `OtpInvariant` is there for free.

*User rows.* `AnsweredUpdateSurvives` is not inductive because an entity in progress
may hold an older value. `RowInvariant` says that what the row has in a column of an answered
request is *explained* (`Explained`: its own value, a request that rewrites it, or an
overlapping save that writes back), already when its save has found that there is nothing
to write (`Settled`), and that the same holds of the entity of every save that was called
after the answer (`Kept`): a save either found the row earlier, and then overlaps, or found
an explained value. An explanation lasts: `Rewrites` is about history, and a save keeps the
entity and the columns it has found to differ (`DirtyStep`). `Gone` says of a deletion that a
later request which has got past its `findOne` has a reason of the same kind (`Undone`). An
entity has the values its own body chose (`OwnValues`).

*Flows and user rows.* `AuthFlow` instantiates `UserRow` with its writers, its `step` and its
`prior`; each step of a flow, a move or a deletion is one of `U!Next` or leaves the
user alone (`FlowStepsUser`), and the invariant of `UserRowProofs`, instantiated the same
way, holds of the flows. With it `OnlyTheAddresseeUpdates` is an argument about one
moment, the `findOne` of the update: the address in the row is explained, and when nothing
overlaps with the move or undoes it, that leaves the new one (`MovedAddress`), while a
verification that arrived later looks for the old one. `OtpsAreRedeemable` is the converse,
by `StayInvariant`: as long as no change of address or deletion overlaps with another
update (`Apart`), saves that set neither write both back as they are in the row, and whoever
was sent an OTP is still found or was changed after the lookup that found it (`Placed`,
`Since`, with `known`).

*Flows.* A password in the row may come from a save that started long before, so
`PasswordAuthorised` needs the entities of all saves in progress to hold authorised
passwords too (the original one, that of a `PATCH`, or that of a reset with its OTP), and every request that has reached the update to have been accepted;
that the OTP belonged to the address and purpose is `Held` of `OtpInvariant`,
which holds here because the flows implement `Otp`.

*Sessions.* An answer waiting to be stored was current when it was read and is
at most `MaxDelay` old (`AnswerFresh`), so an entry expires at most
`Ttl + MaxDelay` after its version was replaced (`EntryFresh`), and so a hit, which
looks at the expiry, is at most that stale. A stop or a restart only takes entries away, and
a fill that lands after the stop is fresh for the same reason as any other. `Justified` adds that a decision is the
verdict of its copy, and that copies are of users who were present.

*Cache.* The refinement needs that a deadline is never negative and that a key without an
entry has exactly `NoEntry`, so that hiding an expired entry and deleting it come
to the same (`CacheInvariant`). Each
operation then has a lemma that maps it to a step of `CacheAbs`: the reads delete
only what the abstract cache has lost already, `Ceil` is the rounding of `ttl`, and
the clock's step maps the entries whose last instant ends. `ClearPatternClears`
follows one collected key from the moment the keys are given to their deletion: no
step but `set` and `expire` makes a key visible (`OnlyTouchShows`).

*Mail.* `CopiesBounded` is not inductive: a start may be followed by a failed
attempt, a stall or neither. `QueueInvariant` counts: the starts of a job are at most its
failed attempts and stalls, and one more while it is active, and the copies are
numbered by starts. `MailIsKept` needs that a worker about to complete its job has
had the mail of this start accepted. `OutageSurvived` follows from `Patient`: a job that
has failed `n` times has waited for the sum of its first `n` delays or has the rest still
before it, and the clock ages it at least as fast as it shortens the wait. That each delay
doubles is `PowerOfTwo`. The prover has no rule for powers, so the lemma counts subsets:
`1 .. n + 1` has twice as many as `1 .. n`, and `FS_SUBSET` of the library says that they are
`2 ^ n`. (The library's own proof of `FS_SUBSET` takes the same fact about powers for granted.)

*Pages.* What a reader is owed (`Owed`: there all along, unmoved, untied and not given yet)
lies ahead of the page it has come to, unless a row was removed or moved down
(`PagesInvariant`): an insertion or a move up only pushes rows ahead (`StillAhead`). A page
that leaves something owed behind it is full (`FullPage`), so nobody stops there; when the
reader ends, nothing is owed. The other way round, what it was given and is not tied lies
behind it as long as nothing came or moved, so no such row is given twice (`RepeatStep`).
`SkipNext` is the arithmetic.

*Onboarding.* A row keeps the address it was inserted with until it is in `moved`
(`RowFine`), and no two rows have one address (`Unique`), deleted ones included. So of two
creators that both have their row (`CreatorFine`) and asked for the same address one has
moved. `OnlyChosenPasswordsOpen` counts hashes: a stored password that was hashed once is in
`chosen` of its row (`Secret`), and `ComparePassword` accepts only what was hashed once. It has
to hold of the copies that logins, patches and seeders carry as well (`CopyFine`), because
`PatchSave` and `SeedAssignRole` write the whole copy back. `SeedComplete` is carried by what a
run has passed (`SeederFine`) and by what no step takes back (`Grow`): rows, names of
roles, passwords chosen. `OthersFine` says once that a process which does not move is fine
after any step that only grows.

*Repository.* `NoTraceIsLost` needs to know what a request has still to do: what is left of a
removal is the end of find, entry, removal, and only at its last statement is it
required that its entry was written or failed (`Removal`); nothing else that is left
removes (`InOrder`). A save cannot make a row vanish either, because what it writes was
found (`entity`), which is a fact about the order of its statements again.
`AnsweredHolds` is not inductive for the reason `AnsweredUpdateSurvives` is not, and here
rows also appear and vanish. `AnsweredInvariant` says of a request that has made its last
change that its effect is in the table unless a later or an overlapping request excuses it
(`Settled`), and of every save found after its answer that the entity carries the columns
and that they are not among those the save will write (`Carried`). That takes that a save
finds all of its own columns to differ (`Changed`), because the values of a request are nowhere
before it changes something (`Unwritten`) and its rows neither exist nor are asked for
(`Unborn`), and that a row which was found and is gone was removed meanwhile (`Gone`). `Past`
and `Stage` relate the history and the statements left.
`TrailExplainsTable` speaks of moments when nobody is at work on a row, so it says nothing of
the steps between. `TrailInvariant` adds what the trail says while the only request about the
row is under way (`Told`): still the status before its change, or for a hard removal, whose
entry comes first, already the one after it. `Sorted` is the order of statements that makes
it so: one entry per operation, after the change or before a hard removal. A row that nobody
has asked for has no entries (`Unknown`).

*Only model-checked:* liveness (`QueuedIsSettled`, `ExpiredAreSwept`: outside the prover's reach under fairness). Nothing
computed by recursion over data is claimed for every input: the last entry of a row is
defined as a position and not by `SelectSeq` for that reason. Every safety property of the
runs has a theorem.

## 5. What the checks found

Two runs that TLC refutes, with the sentence of the repository each refutes:

- `OtpSingleUse`: two overlapping `verifyOtp` calls are both valid
  (`otp.service.ts:137` "Mark as used"); the UPDATE has no condition.
- `OnboardingSeeded`: `user.seeder.ts:36` hashes the administrator's password and
  `@BeforeInsert` (`user.entity.ts:65`) hashes it again, so the login that
  `README.md:75` points to is turned away. An invited user cannot log in with
  the default password for the same reason, which is as well
  (`OnlyChosenPasswordsOpen`): `login` does not look at `isActive`.

What the properties have to allow, because the code does it:

- `GuessesBounded`, `LockedOut`: of overlapping wrong guesses one increment remains
  (`otp.service.ts:130`), so more of them than the limit may be compared.
- `PendingOverlap`: two generations that both retire before either inserts leave two pending
  OTPs (`otp.service.ts:66`).
- `PendingCanResend`: without a pending OTP `canResend` is always true
  (`otp.service.ts:179`), also while `generateOtp` refuses for a used one (`:42`).
- `AnsweredUpdateSurvives`, `DeletedIsNotFound`: an overlapping `save()` writes old
  columns back (`user.service.ts:92`), which reactivates a user, or undoes a deletion, after
  both were answered.
- `PasswordAuthorised`, `OnlyChosenPasswordsOpen`: the body of `PATCH users/:id/profile` is
  validated by nothing (`identity.controller.ts:60`, `user.service.ts:91`), so a password may
  come from there with no OTP, although `identity.service.ts:53` speaks of name and address.
- `WastedForAReason`: a crash or a database error after the OTP is used
  (`auth.service.ts:98`) and before the password is changed (`:110`) wastes the OTP and
  leaves the old password; the request then ends with an error and not with "no such user".
- `OneOwner`: a user that moves frees its address, and the next call for it succeeds.
- `SeedComplete`: a run that stops between the administrator and its account
  (`user.seeder.ts:47`, `:52`) leaves no account, and no later run makes it, because it finds
  the user and stops there. So the account is asked of the run that made the user.
- `OldRowsAreSeen`, `RepeatsHaveAReason`: rows equal in the column of the order have no order
  of their own (`helper.ts:102`), and an update of that column moves a row between pages.
- `AnsweredHolds`: the same of every table; when the row was removed for good between
  the find and the `save()` of `updateOne`, it is inserted again
  (`abstract.repository.ts:257`), and an overlapping pause and resume of an account
  may each leave one of their two columns (`account.service.ts:61`).
- `TrailExplainsTable`: entries of overlapping requests come in another order than
  their changes, and a failed entry is not noticed (`abstract.repository.ts:447`).
- `AdmittedWasEntitled` speaks of a moment within the staleness bound, and of what the
  guard permits: it lets an admin do everything (`policies.guard.ts:48`), creating roles
  too, which the dictionary gives the role for reading only
  (`permissions.constant.ts:5`, `:23`).
- After a change of address `isEmailVerified` still speaks of the old one, and a
  request to verify the new one is answered "already verified" (`SendVerified`).

## 6. Not modelled, and the plan

Not modelled because they hold no state or only format: HTTP wiring, validation
pipes, logger, Swagger, the text of templates, migration SQL and connection
settings, `sanitizePayload`. Not modelled because nothing calls them:
`TokenService.verifyToken`, `generateVerifyEmailToken` and `deleteToken` (no code reads
the table of tokens), `getEmailQueueStats`, `slugify`, `generateOTP`,
`convertIntoUTCTime`. Passwords and codes are values that can only be compared; token
signatures and token expiry are taken for granted (`Session` starts with a valid
token). The search terms of lists only choose their rows. In the body of a `PATCH` of a
profile an id is left out, with which `save()` would work on another row. `AuthFlow` has
one user, so that a second one may take an address that was left between an OTP and its use
is outside it.

What is left, in this order:

1. An abstract OTP service in which each request is one step, implemented by `Otp`
   when requests do not overlap, as a property of `OtpSafety` and then as a theorem.
2. The same for a row of `users`: a register that each request reads or writes in one step.
3. Lemmas that `UserRowProofs` and `RepositoryProofs` have in common, stated once: both are
   about a find, a difference and a write, with other requests between them.
