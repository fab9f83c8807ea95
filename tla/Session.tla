-------------------------------- MODULE Session --------------------------------
(***************************************************************************)
(* Authenticated requests: JwtStrategy.validate                            *)
(* (src/src/modules/identity/auth/strategy/jwt.strategy.ts) over the       *)
(* in-memory CacheService (src/src/shared/cache/cache.service.ts) and the  *)
(* table users, and then PermissionsGuard.  A copy of the user and of the  *)
(* name of its role is cached for an hour and nothing ever removes it when *)
(* the user changes, so requests are decided from a copy of some earlier   *)
(* version of the row.  The module says how much earlier.                  *)
(*                                                                         *)
(* A row is modelled with the history of its versions; the row itself is   *)
(* the last one, and a copy of a row is the number of a version.           *)
(***************************************************************************)
EXTENDS Integers, Sequences, FiniteSets, Permissions

CONSTANTS
  Users,
  Requests,     \* requests with a valid token, each served once
  UserOf,       \* the user id in the token of a request
  Needs,        \* the permissions the handler of a request requires
  Rows,         \* bound: the values a row of users takes
  Ttl,          \* DEFAULT_CACHE_TTL, in ticks of the clock
  MaxDelay,     \* bound: a database answer is processed within so many ticks
  MaxTime,      \* bound: the clock stops there
  MaxVersions   \* bound: versions of one row

\* The columns a decision depends on.  present is FALSE for a soft-deleted
\* user, which findOne does not return; role is the name of the joined role.
Row == [present : BOOLEAN, isActive : BOOLEAN, isEmailVerified : BOOLEAN, role : STRING]

ASSUME SessionAssumption ==
  /\ UserOf \in [Requests -> Users]
  /\ Rows \subseteq Row
  /\ Ttl \in Nat \ {0} /\ MaxDelay \in Nat /\ MaxTime \in Nat
  /\ MaxVersions \in Nat \ {0}

VARIABLES
  now,        \* the clock
  versions,   \* [Users -> the sequence of versions of the row]
  cache,      \* the Map of CacheService: a function whose domain is its keys
  pc,         \* where each request is
  copy,       \* the version each request works on, and when it was read
  decidedAt,  \* history: when each request was decided
  destroyed   \* onModuleDestroy has run in this process

vars == <<now, versions, cache, pc, copy, decidedAt, destroyed>>

--------------------------------------------------------------------------------
Version == [row : Rows, since : Nat]

Current(u) == Len(versions[u])
RowOf(u, n) == versions[u][n].row

Verdicts == {"admitted", "inactive", "unverified", "forbidden"}
Final == Verdicts \cup {"invalid", "dropped"}
PC == {"idle", "fetch", "store"} \cup Final
Finished == {r \in Requests : pc[r] \in Final}

NoCopy == [version |-> 0, readAt |-> 0]

Init ==
  /\ now = 0
  /\ \E row \in [Users -> Rows] : versions = [u \in Users |-> <<[row |-> row[u], since |-> 0]>>]
  /\ cache = [u \in {} |-> NoCopy]
  /\ pc = [r \in Requests |-> "idle"]
  /\ copy = [r \in Requests |-> NoCopy]
  /\ decidedAt = [r \in Requests |-> 0]
  /\ destroyed = FALSE

--------------------------------------------------------------------------------
(***************************************************************************)
(* CacheService: get, set and the periodic cleanup, the three operations   *)
(* the program uses.  Each runs to completion without an await.            *)
(***************************************************************************)
Expired(u) == now > cache[u].expiresAt

\* Mutant of Hit: the expiry of an entry is not looked at.
HitNoExpiry(u) == u \in DOMAIN cache
Hit(u) == u \in DOMAIN cache /\ ~Expired(u)

Without(S) == [u \in DOMAIN cache \ S |-> cache[u]]

\* get() deletes an entry it finds expired.
Miss(u) == ~Hit(u) /\ cache' = Without({u})

Set(u, n, ttl) ==
  cache' = [w \in DOMAIN cache \cup {u} |->
              IF w = u THEN [version |-> n, expiresAt |-> now + ttl] ELSE cache[w]]

\* The cleanup interval, until onModuleDestroy stops it.
Sweep ==
  /\ ~destroyed
  /\ \E u \in DOMAIN cache : Expired(u)
  /\ cache' = Without({u \in DOMAIN cache : Expired(u)})
  /\ UNCHANGED <<now, versions, pc, copy, decidedAt, destroyed>>

--------------------------------------------------------------------------------
(***************************************************************************)
(* JwtStrategy.validate, and PermissionsGuard right after it.              *)
(***************************************************************************)

\* Mutant of Verdict: the guard is not attached to the handler.
VerdictNoGuard(row, needs) ==
  IF ~row.isActive THEN "inactive" ELSE IF ~row.isEmailVerified THEN "unverified" ELSE "admitted"

Verdict(row, needs) ==
  CASE ~row.isActive -> "inactive"
    [] row.isActive /\ ~row.isEmailVerified -> "unverified"
    [] row.isActive /\ row.isEmailVerified /\ ~Permitted(row.role, needs) -> "forbidden"
    [] OTHER -> "admitted"

\* The checks after the copy has been obtained: nothing is read in between.
Decide(r, n) ==
  /\ pc' = [pc EXCEPT ![r] = Verdict(RowOf(UserOf[r], n), Needs[r])]
  /\ decidedAt' = [decidedAt EXCEPT ![r] = now]

\* Mutant of ValidateHit: a hit renews the time to live of the entry.
ValidateHitRenews(r) ==
  /\ pc[r] = "idle"
  /\ Hit(UserOf[r])
  /\ copy' = [copy EXCEPT ![r] = [version |-> cache[UserOf[r]].version, readAt |-> now]]
  /\ Decide(r, cache[UserOf[r]].version)
  /\ Set(UserOf[r], cache[UserOf[r]].version, Ttl)
  /\ UNCHANGED <<now, versions, destroyed>>

ValidateHit(r) ==
  /\ pc[r] = "idle"
  /\ Hit(UserOf[r])
  /\ copy' = [copy EXCEPT ![r] = [version |-> cache[UserOf[r]].version, readAt |-> now]]
  /\ Decide(r, cache[UserOf[r]].version)
  /\ UNCHANGED <<now, versions, cache, destroyed>>

ValidateMiss(r) ==
  /\ pc[r] = "idle"
  /\ Miss(UserOf[r])
  /\ pc' = [pc EXCEPT ![r] = "fetch"]
  /\ UNCHANGED <<now, versions, copy, decidedAt, destroyed>>

\* The database evaluates findOne; its answer is on its way back.
Fetch(r) ==
  /\ pc[r] = "fetch"
  /\ RowOf(UserOf[r], Current(UserOf[r])).present
  /\ copy' = [copy EXCEPT ![r] = [version |-> Current(UserOf[r]), readAt |-> now]]
  /\ pc' = [pc EXCEPT ![r] = "store"]
  /\ UNCHANGED <<now, versions, cache, decidedAt, destroyed>>

FetchNone(r) ==
  /\ pc[r] = "fetch"
  /\ ~RowOf(UserOf[r], Current(UserOf[r])).present
  /\ pc' = [pc EXCEPT ![r] = "invalid"]
  /\ UNCHANGED <<now, versions, cache, copy, decidedAt, destroyed>>

\* The copy is cached first and checked afterwards: refused users are cached too.
Store(r) ==
  /\ pc[r] = "store"
  /\ Set(UserOf[r], copy[r].version, Ttl)
  /\ Decide(r, copy[r].version)
  /\ UNCHANGED <<now, versions, copy, destroyed>>

Validate(r) == ValidateHit(r) \/ ValidateMiss(r)
Answer(r) == Fetch(r) \/ FetchNone(r) \/ Store(r)

--------------------------------------------------------------------------------
(***************************************************************************)
(* The rest of the program changes users (user.service.ts) and roles       *)
(* (role.service.ts) and never touches the cache.  Every column may change *)
(* both ways: PATCH users/:id/profile assigns whatever its body holds.     *)
(***************************************************************************)
ChangeUser(u, row) ==
  /\ Current(u) < MaxVersions
  /\ row # RowOf(u, Current(u))
  /\ versions' = [versions EXCEPT ![u] = Append(@, [row |-> row, since |-> now])]
  /\ UNCHANGED <<now, cache, pc, copy, decidedAt, destroyed>>

\* app.close() clears the map before the HTTP server is closed: requests in
\* progress go on, fill the map again and are answered.
OnModuleDestroy ==
  /\ ~destroyed
  /\ destroyed' = TRUE
  /\ cache' = Without(Users)
  /\ UNCHANGED <<now, versions, pc, copy, decidedAt>>

\* The process ends, at any moment or at the end of a stop, and a new one
\* starts: requests still in progress are never answered.
InProgress == {r \in Requests : pc[r] \in {"fetch", "store"}}

Restart ==
  /\ destroyed \/ DOMAIN cache # {} \/ InProgress # {}
  /\ destroyed' = FALSE
  /\ cache' = Without(Users)
  /\ pc' = [r \in Requests |-> IF r \in InProgress THEN "dropped" ELSE pc[r]]
  /\ UNCHANGED <<now, versions, copy, decidedAt>>

\* MaxDelay bounds how long a database answer waits to be processed.
Tick ==
  /\ now < MaxTime
  /\ \A r \in Requests : pc[r] = "store" => now < copy[r].readAt + MaxDelay
  /\ now' = now + 1
  /\ UNCHANGED <<versions, cache, pc, copy, decidedAt, destroyed>>

\* Every request has been decided and the clock has stopped.
Quiet == Finished = Requests /\ now = MaxTime /\ UNCHANGED vars

Next ==
  \/ \E r \in Requests : Validate(r) \/ Answer(r)
  \/ \E u \in Users : \E row \in Rows : ChangeUser(u, row)
  \/ Sweep
  \/ OnModuleDestroy
  \/ Restart
  \/ Tick
  \/ Quiet

Spec == Init /\ [][Next]_vars

--------------------------------------------------------------------------------
\* The type invariant: every copy is the number of a version that exists.
TypeOK ==
  /\ now \in Nat
  /\ versions \in [Users -> Seq(Version)]
  /\ \A u \in Users : Current(u) >= 1
  /\ DOMAIN cache \subseteq Users
  /\ \A u \in DOMAIN cache : cache[u] \in [version : 1..Current(u), expiresAt : Nat]
  /\ pc \in [Requests -> PC]
  /\ copy \in [Requests -> [version : Nat, readAt : Nat]]
  /\ \A r \in Requests : copy[r].version <= Current(UserOf[r])
  /\ decidedAt \in [Requests -> Nat]
  /\ destroyed \in BOOLEAN

\* Version n of the row of u had been replaced for at most d ticks at time t.
StaleByAtMost(u, n, t, d) == n < Current(u) => t <= versions[u][n + 1].since + d

\* However long nobody invalidates the cache and however fills race, a request
\* is decided from a version of the user that was the current one at most the
\* TTL plus one database answer earlier: a deactivated or deleted user is
\* turned away, and an activated one let in, from then on (jwt.strategy.ts:32-54).
StalenessBounded ==
  \A r \in Requests : pc[r] \in Verdicts =>
    StaleByAtMost(UserOf[r], copy[r].version, decidedAt[r], Ttl + MaxDelay)

\* Who is let through was entitled to it, as a whole and at one moment, at most
\* the TTL plus one database answer ago: present, active, verified and with a
\* role that permits the handler (jwt.strategy.ts:40-54, policies.guard.ts:36-63).
AdmittedWasEntitled ==
  \A r \in Requests : pc[r] = "admitted" =>
    \E n \in 1..Current(UserOf[r]) :
      /\ StaleByAtMost(UserOf[r], n, decidedAt[r], Ttl + MaxDelay)
      /\ LET row == RowOf(UserOf[r], n)
         IN  row.present /\ row.isActive /\ row.isEmailVerified /\ Permitted(row.role, Needs[r])

--------------------------------------------------------------------------------
(***************************************************************************)
(* The inductive invariant behind StalenessBounded.                        *)
(***************************************************************************)

\* An answer in progress is recent and was current when it was read.
AnswerFresh ==
  \A r \in Requests : pc[r] = "store" =>
    LET u == UserOf[r]  n == copy[r].version
    IN  /\ n \in 1..Current(u)
        /\ copy[r].readAt <= now /\ now <= copy[r].readAt + MaxDelay
        /\ n < Current(u) => copy[r].readAt <= versions[u][n + 1].since

\* A cached copy expires before it is staler than the TTL and one answer.
EntryFresh ==
  \A u \in DOMAIN cache :
    /\ cache[u].expiresAt <= now + Ttl
    /\ StaleByAtMost(u, cache[u].version, cache[u].expiresAt, Ttl + MaxDelay)

DecidedInPast == \A r \in Requests : pc[r] \in Verdicts =>
  copy[r].version \in 1..Current(UserOf[r]) /\ decidedAt[r] <= now

\* Copies are of users that were there, and a decision follows from its copy.
Justified ==
  /\ \A u \in DOMAIN cache : RowOf(u, cache[u].version).present
  /\ \A r \in Requests : pc[r] = "store" => RowOf(UserOf[r], copy[r].version).present
  /\ \A r \in Requests : pc[r] \in Verdicts =>
       LET row == RowOf(UserOf[r], copy[r].version)
       IN  row.present /\ pc[r] = Verdict(row, Needs[r])

SessionInvariant == TypeOK /\ AnswerFresh /\ EntryFresh /\ DecidedInPast /\ StalenessBounded
================================================================================
