----------------------------- MODULE SessionProofs -----------------------------
(***************************************************************************)
(* How stale the user an authenticated request is decided from can be, for *)
(* every number of requests, users and changes and for every TTL.          *)
(***************************************************************************)
EXTENDS Session, TLAPS

\* A row has at least one version and all of them are well typed.
LEMMA VersionFacts ==
  ASSUME TypeOK, NEW u \in Users
  PROVE  /\ Current(u) \in Nat /\ Current(u) >= 1
         /\ \A n \in 1..Current(u) : versions[u][n].since \in Nat /\ versions[u][n].row \in Rows
  <1>1. versions[u] \in Seq(Version) /\ Current(u) >= 1
    BY DEF TypeOK
  <1>2. Current(u) \in Nat /\ \A n \in 1..Current(u) : versions[u][n] \in Version
    BY <1>1 DEF Current
  <1> QED BY <1>1, <1>2 DEF Version

\* At the start nothing is cached and nothing has been decided.
LEMMA SessionInit == Init => SessionInvariant
  <1> SUFFICES ASSUME Init PROVE SessionInvariant
    OBVIOUS
  <1> USE SessionAssumption
  <1>1. PICK row \in [Users -> Rows] : versions = [u \in Users |-> <<[row |-> row[u], since |-> 0]>>]
    BY DEF Init
  <1>2. \A u \in Users : versions[u] \in Seq(Version) /\ Current(u) = 1
    BY <1>1 DEF Version, Current
  <1>3. versions \in [Users -> Seq(Version)]
    BY <1>1, <1>2
  <1>4. TypeOK
    <2>1. /\ pc \in [Requests -> PC]
          /\ copy \in [Requests -> [version : Nat, readAt : Nat]]
          /\ \A r \in Requests : copy[r].version <= Current(UserOf[r])
          /\ decidedAt \in [Requests -> Nat]
      BY <1>2 DEF Init, NoCopy, PC
    <2>2. DOMAIN cache = {} /\ now \in Nat /\ destroyed \in BOOLEAN
      BY DEF Init
    <2>3. \A u \in Users : Current(u) >= 1
      BY <1>2
    <2> QED BY <2>1, <2>2, <2>3, <1>3 DEF TypeOK
  <1>5. AnswerFresh /\ EntryFresh /\ DecidedInPast /\ StalenessBounded
    BY DEF Init, AnswerFresh, EntryFresh, DecidedInPast, StalenessBounded, Verdicts
  <1> QED BY <1>4, <1>5 DEF SessionInvariant

\* Removing keys keeps the other entries.
LEMMA CacheLoss ==
  ASSUME NEW S
  PROVE  /\ DOMAIN Without(S) = DOMAIN cache \ S
         /\ \A u \in DOMAIN cache \ S : Without(S)[u] = cache[u]
  BY DEF Without

\* The periodic cleanup only removes entries.
LEMMA InvSweep == SessionInvariant /\ Sweep => SessionInvariant'
  <1> SUFFICES ASSUME SessionInvariant, Sweep PROVE SessionInvariant'
    OBVIOUS
  <1>1. /\ UNCHANGED <<now, versions, pc, copy, decidedAt, destroyed>>
        /\ DOMAIN cache' \subseteq DOMAIN cache
        /\ \A u \in DOMAIN cache' : cache'[u] = cache[u]
    BY CacheLoss DEF Sweep
  <1>2. TypeOK'
    BY <1>1 DEF SessionInvariant, TypeOK, Current
  <1>3. AnswerFresh' /\ EntryFresh' /\ DecidedInPast' /\ StalenessBounded'
    BY <1>1 DEF SessionInvariant, AnswerFresh, EntryFresh, DecidedInPast, StalenessBounded,
                StaleByAtMost, Current
  <1> QED BY <1>2, <1>3 DEF SessionInvariant

\* The clock does not pass the moment an answer in progress has to be processed.
LEMMA InvTick == SessionInvariant /\ Tick => SessionInvariant'
  <1> SUFFICES ASSUME SessionInvariant, Tick PROVE SessionInvariant'
    OBVIOUS
  <1> USE SessionAssumption
  <1>1. /\ now \in Nat /\ now' = now + 1
        /\ UNCHANGED <<versions, cache, pc, copy, decidedAt, destroyed>>
    BY DEF Tick, SessionInvariant, TypeOK
  <1>2. TypeOK'
    BY <1>1 DEF SessionInvariant, TypeOK, Current
  <1>3. AnswerFresh'
    BY <1>1 DEF Tick, SessionInvariant, AnswerFresh, TypeOK, Current
  <1>4. EntryFresh'
    BY <1>1 DEF SessionInvariant, EntryFresh, StaleByAtMost, Current, TypeOK
  <1>5. DecidedInPast' /\ StalenessBounded'
    BY <1>1 DEF SessionInvariant, DecidedInPast, StalenessBounded, StaleByAtMost, Current, TypeOK
  <1> QED BY <1>2, <1>3, <1>4, <1>5 DEF SessionInvariant

\* The end of the module empties the cache and leaves the answers in progress;
\* the end of the process drops them.
LEMMA InvStop == SessionInvariant /\ (OnModuleDestroy \/ Restart) => SessionInvariant'
  <1> SUFFICES ASSUME SessionInvariant, OnModuleDestroy \/ Restart PROVE SessionInvariant'
    OBVIOUS
  <1>1. /\ UNCHANGED <<now, versions, copy, decidedAt>>
        /\ destroyed' \in BOOLEAN /\ DOMAIN cache' = {}
    <2>1. DOMAIN cache \ Users = {}
      BY DEF SessionInvariant, TypeOK
    <2>2. DOMAIN cache' = DOMAIN cache \ Users
      BY CacheLoss DEF OnModuleDestroy, Restart
    <2> QED BY <2>1, <2>2 DEF OnModuleDestroy, Restart
  <1>2. /\ pc' \in [Requests -> PC]
        /\ \A r \in Requests : pc'[r] = "store" => pc[r] = "store"
        /\ \A r \in Requests : pc'[r] \in Verdicts => pc[r] \in Verdicts
    BY DEF OnModuleDestroy, Restart, InProgress, SessionInvariant, TypeOK, PC, Final, Verdicts
  <1>3. TypeOK'
    BY <1>1, <1>2, VersionFacts DEF SessionInvariant, TypeOK, Current
  <1>4. AnswerFresh' /\ EntryFresh'
    BY <1>1, <1>2 DEF SessionInvariant, AnswerFresh, EntryFresh, Current
  <1>5. DecidedInPast' /\ StalenessBounded'
    BY <1>1, <1>2 DEF SessionInvariant, DecidedInPast, StalenessBounded, StaleByAtMost, Current
  <1> QED BY <1>3, <1>4, <1>5 DEF SessionInvariant

\* A change of the row: the version it replaces ends now, later than every
\* reading of it and no earlier than a TTL before its copies expire.
LEMMA InvChange ==
  ASSUME SessionInvariant, NEW u \in Users, NEW row \in Rows, ChangeUser(u, row)
  PROVE  SessionInvariant'
  <1> USE SessionAssumption
  <1> DEFINE last == [row |-> row, since |-> now]
  <1>1. /\ UNCHANGED <<now, cache, pc, copy, decidedAt, destroyed>>
        /\ versions' = [versions EXCEPT ![u] = Append(versions[u], last)]
    BY DEF ChangeUser
  <1>2. now \in Nat /\ last \in Version /\ versions \in [Users -> Seq(Version)]
    BY DEF SessionInvariant, TypeOK, Version
  <1>3. versions' \in [Users -> Seq(Version)]
    BY <1>1, <1>2
  <1>4. \A w \in Users : Current(w)' \in Nat /\ Current(w) \in Nat /\ Current(w) <= Current(w)'
    BY <1>1, <1>2 DEF Current
  <1>5. Current(u)' = Current(u) + 1
    BY <1>1, <1>2 DEF Current
  <1>6. \A w \in Users \ {u} : versions'[w] = versions[w] /\ Current(w)' = Current(w)
    BY <1>1, <1>2 DEF Current
  <1>7. versions'[u][Current(u) + 1].since = now
    BY <1>1, <1>2 DEF Current
  <1>8. \A n \in 1..Current(u) : versions'[u][n] = versions[u][n]
    BY <1>1, <1>2 DEF Current
  <1>9. TypeOK'
    <2> USE DEF SessionInvariant, TypeOK
    <2>1. ASSUME NEW w \in DOMAIN cache
          PROVE  cache[w] \in [version : 1..Current(w)', expiresAt : Nat]
      <3>1. w \in Users /\ cache[w] \in [version : 1..Current(w), expiresAt : Nat]
        OBVIOUS
      <3> QED BY <3>1, <1>4
    <2>2. \A w \in Users : Current(w)' >= 1
      BY <1>4
    <2>3. \A r \in Requests : copy[r].version <= Current(UserOf[r])'
      BY <1>4
    <2> QED BY <2>1, <2>2, <2>3, <1>1, <1>3
  <1>10. AnswerFresh'
    <2> SUFFICES ASSUME NEW r \in Requests, pc'[r] = "store"
                 PROVE  LET w == UserOf[r]  n == copy'[r].version
                        IN  /\ n \in 1..Current(w)'
                            /\ copy'[r].readAt <= now' /\ now' <= copy'[r].readAt + MaxDelay
                            /\ n < Current(w)' => copy'[r].readAt <= versions'[w][n + 1].since
      BY DEF AnswerFresh
    <2>1. /\ UserOf[r] \in Users /\ copy[r].version \in 1..Current(UserOf[r])
          /\ copy[r].readAt <= now /\ now <= copy[r].readAt + MaxDelay
          /\ copy[r].version < Current(UserOf[r])
               => copy[r].readAt <= versions[UserOf[r]][copy[r].version + 1].since
      BY <1>1 DEF SessionInvariant, AnswerFresh
    <2>2. copy[r].version \in 1..Current(UserOf[r])'
      BY <2>1, <1>4
    <2>3. copy[r].version < Current(UserOf[r])'
            => copy[r].readAt <= versions'[UserOf[r]][copy[r].version + 1].since
      <3>1. CASE UserOf[r] # u
        BY <2>1, <3>1, <1>6
      <3>2. CASE UserOf[r] = u /\ copy[r].version < Current(u)
        <4>1. copy[r].version + 1 \in 1..Current(u)
          BY <2>1, <3>2, <1>4
        <4> QED BY <4>1, <2>1, <3>2, <1>8
      <3>3. CASE UserOf[r] = u /\ copy[r].version = Current(u)
        BY <2>1, <3>3, <1>7
      <3> QED BY <3>1, <3>2, <3>3, <2>1, <1>4
    <2> QED BY <2>1, <2>2, <2>3, <1>1
  <1>11. ASSUME NEW w \in Users, NEW n \in 1..Current(w), NEW t \in Nat, NEW d \in Nat,
                StaleByAtMost(w, n, t, d), t <= now + d
         PROVE  StaleByAtMost(w, n, t, d)'
    <2>1. CASE w # u
      BY <2>1, <1>11, <1>6 DEF StaleByAtMost
    <2>2. CASE w = u /\ n < Current(u)
      BY <2>2, <1>11, <1>4, <1>5, <1>8 DEF StaleByAtMost
    <2>3. CASE w = u /\ n = Current(u)
      BY <2>3, <1>11, <1>7 DEF StaleByAtMost
    <2> QED BY <2>1, <2>2, <2>3, <1>4
  <1>12. EntryFresh'
    <2> SUFFICES ASSUME NEW w \in DOMAIN cache
                 PROVE  /\ cache[w].expiresAt <= now + Ttl
                        /\ StaleByAtMost(w, cache[w].version, cache[w].expiresAt, Ttl + MaxDelay)'
      BY <1>1 DEF EntryFresh, StaleByAtMost, Current
    <2>1. w \in Users /\ cache[w].version \in 1..Current(w) /\ cache[w].expiresAt \in Nat
      BY DEF SessionInvariant, TypeOK
    <2>2. /\ cache[w].expiresAt <= now + Ttl
          /\ StaleByAtMost(w, cache[w].version, cache[w].expiresAt, Ttl + MaxDelay)
      BY DEF SessionInvariant, EntryFresh
    <2>3. Ttl + MaxDelay \in Nat /\ cache[w].expiresAt <= now + (Ttl + MaxDelay)
      BY <2>1, <2>2, <1>2
    <2> QED BY <2>1, <2>2, <2>3, <1>1, <1>11 DEF StaleByAtMost, Current
  <1>13. DecidedInPast'
    BY <1>1, <1>4 DEF SessionInvariant, DecidedInPast
  <1>14. StalenessBounded'
    <2> SUFFICES ASSUME NEW r \in Requests, pc[r] \in Verdicts
                 PROVE  StaleByAtMost(UserOf[r], copy[r].version, decidedAt[r], Ttl + MaxDelay)'
      BY <1>1 DEF StalenessBounded, StaleByAtMost, Current
    <2>1. /\ copy[r].version \in 1..Current(UserOf[r]) /\ decidedAt[r] <= now
          /\ decidedAt[r] \in Nat /\ UserOf[r] \in Users
      BY DEF SessionInvariant, DecidedInPast, TypeOK
    <2>2. StaleByAtMost(UserOf[r], copy[r].version, decidedAt[r], Ttl + MaxDelay)
      BY DEF SessionInvariant, StalenessBounded
    <2>3. Ttl + MaxDelay \in Nat /\ decidedAt[r] <= now + (Ttl + MaxDelay)
      BY <2>1, <1>2
    <2> QED BY <2>1, <2>2, <2>3, <1>1, <1>11 DEF StaleByAtMost, Current
  <1> QED BY <1>9, <1>10, <1>12, <1>13, <1>14 DEF SessionInvariant

\* A hit decides from an entry that has not expired.
LEMMA InvHit ==
  ASSUME SessionInvariant, NEW r \in Requests, ValidateHit(r)
  PROVE  SessionInvariant'
  <1> USE SessionAssumption
  <1> DEFINE u == UserOf[r]
  <1>1. /\ UNCHANGED <<now, versions, cache, destroyed>>
        /\ copy' = [copy EXCEPT ![r] = [version |-> cache[u].version, readAt |-> now]]
        /\ pc' = [pc EXCEPT ![r] = Verdict(RowOf(u, cache[u].version), Needs[r])]
        /\ decidedAt' = [decidedAt EXCEPT ![r] = now]
        /\ u \in DOMAIN cache /\ ~(now > cache[u].expiresAt)
    BY DEF ValidateHit, Decide, Hit, Expired
  <1>2. /\ u \in Users /\ cache[u].version \in 1..Current(u) /\ cache[u].expiresAt \in Nat
        /\ now \in Nat /\ Current(u) \in Nat
    BY <1>1, VersionFacts DEF SessionInvariant, TypeOK
  <1>3. Verdict(RowOf(u, cache[u].version), Needs[r]) \in Verdicts
    BY DEF Verdict, Verdicts
  <1>4. TypeOK'
    <2>1. copy' \in [Requests -> [version : Nat, readAt : Nat]]
      BY <1>1, <1>2 DEF SessionInvariant, TypeOK
    <2>2. \A s \in Requests : copy'[s].version <= Current(UserOf[s])
      BY <1>1, <1>2 DEF SessionInvariant, TypeOK
    <2>3. pc' \in [Requests -> PC]
      BY <1>1, <1>3 DEF SessionInvariant, TypeOK, PC, Final
    <2>4. decidedAt' \in [Requests -> Nat]
      BY <1>1, <1>2 DEF SessionInvariant, TypeOK
    <2> QED BY <2>1, <2>2, <2>3, <2>4, <1>1 DEF SessionInvariant, TypeOK, Current
  <1>5. AnswerFresh'
    BY <1>1, <1>3 DEF SessionInvariant, AnswerFresh, Current, TypeOK, Verdicts
  <1>6. EntryFresh'
    BY <1>1 DEF SessionInvariant, EntryFresh, StaleByAtMost, Current
  <1>7. DecidedInPast'
    BY <1>1, <1>2 DEF SessionInvariant, DecidedInPast, Current, TypeOK
  <1>8. StalenessBounded'
    <2>1. cache[u].version < Current(u) => now <= versions[u][cache[u].version + 1].since + (Ttl + MaxDelay)
      <3> SUFFICES ASSUME cache[u].version < Current(u)
                   PROVE  now <= versions[u][cache[u].version + 1].since + (Ttl + MaxDelay)
        OBVIOUS
      <3>1. versions[u][cache[u].version + 1].since \in Nat
        BY <1>2, VersionFacts DEF SessionInvariant
      <3>2. cache[u].expiresAt <= versions[u][cache[u].version + 1].since + (Ttl + MaxDelay)
        BY <1>1 DEF SessionInvariant, EntryFresh, StaleByAtMost
      <3> QED BY <3>1, <3>2, <1>1, <1>2
    <2> QED BY <2>1, <1>1 DEF SessionInvariant, StalenessBounded, StaleByAtMost, Current, TypeOK
  <1> QED BY <1>4, <1>5, <1>6, <1>7, <1>8 DEF SessionInvariant

\* A miss removes at most the expired entry.
LEMMA InvMiss ==
  ASSUME SessionInvariant, NEW r \in Requests, ValidateMiss(r)
  PROVE  SessionInvariant'
  <1>1. /\ UNCHANGED <<now, versions, copy, decidedAt, destroyed>>
        /\ pc' = [pc EXCEPT ![r] = "fetch"]
        /\ DOMAIN cache' \subseteq DOMAIN cache
        /\ \A u \in DOMAIN cache' : cache'[u] = cache[u]
    BY CacheLoss DEF ValidateMiss, Miss
  <1>2. TypeOK'
    BY <1>1 DEF SessionInvariant, TypeOK, Current, PC
  <1>3. AnswerFresh' /\ EntryFresh'
    BY <1>1 DEF SessionInvariant, AnswerFresh, EntryFresh, StaleByAtMost, Current, TypeOK
  <1>4. DecidedInPast' /\ StalenessBounded'
    BY <1>1 DEF SessionInvariant, DecidedInPast, StalenessBounded, StaleByAtMost, Current, TypeOK,
                Verdicts
  <1> QED BY <1>2, <1>3, <1>4 DEF SessionInvariant

\* The database answers with the current version, or with no row.
LEMMA InvFetch ==
  ASSUME SessionInvariant, NEW r \in Requests, Fetch(r) \/ FetchNone(r)
  PROVE  SessionInvariant'
  <1> USE SessionAssumption
  <1>1. /\ UNCHANGED <<now, versions, cache, decidedAt, destroyed>>
        /\ UserOf[r] \in Users /\ Current(UserOf[r]) \in Nat /\ Current(UserOf[r]) >= 1
        /\ now \in Nat
    BY VersionFacts DEF Fetch, FetchNone, SessionInvariant, TypeOK
  <1>2. \/ /\ pc' = [pc EXCEPT ![r] = "store"]
           /\ copy' = [copy EXCEPT ![r] = [version |-> Current(UserOf[r]), readAt |-> now]]
        \/ pc' = [pc EXCEPT ![r] = "invalid"] /\ UNCHANGED copy
    BY DEF Fetch, FetchNone
  <1>3. TypeOK'
    <2> DEFINE new == [version |-> Current(UserOf[r]), readAt |-> now]
    <2>1. new \in [version : Nat, readAt : Nat] /\ new.version <= Current(UserOf[r])
      BY <1>1
    <2> HIDE DEF new
    <2>2. copy' \in [Requests -> [version : Nat, readAt : Nat]]
          /\ \A s \in Requests : copy'[s].version <= Current(UserOf[s])
      <3>1. CASE copy' = [copy EXCEPT ![r] = new]
        BY <2>1, <3>1 DEF SessionInvariant, TypeOK
      <3>2. CASE UNCHANGED copy
        BY <3>2 DEF SessionInvariant, TypeOK
      <3> QED BY <3>1, <3>2, <1>2 DEF new
    <2>3. pc' \in [Requests -> PC]
      BY <1>2 DEF SessionInvariant, TypeOK, PC, Final
    <2> QED BY <2>2, <2>3, <1>1 DEF SessionInvariant, TypeOK, Current
  <1>4. AnswerFresh'
    <2> SUFFICES ASSUME NEW s \in Requests, pc'[s] = "store"
                 PROVE  LET u == UserOf[s]  n == copy'[s].version
                        IN  /\ n \in 1..Current(u)
                            /\ copy'[s].readAt <= now /\ now <= copy'[s].readAt + MaxDelay
                            /\ n < Current(u) => copy'[s].readAt <= versions[u][n + 1].since
      BY <1>1 DEF AnswerFresh, Current
    <2>1. CASE s = r
      <3>1. copy'[s] = [version |-> Current(UserOf[s]), readAt |-> now]
        BY <2>1, <1>2 DEF SessionInvariant, TypeOK
      <3> QED BY <3>1, <2>1, <1>1
    <2>2. CASE s # r
      BY <2>2, <1>2 DEF SessionInvariant, AnswerFresh, TypeOK
    <2> QED BY <2>1, <2>2
  <1>5. EntryFresh'
    BY <1>1 DEF SessionInvariant, EntryFresh, StaleByAtMost, Current
  <1>6. DecidedInPast' /\ StalenessBounded'
    BY <1>1, <1>2 DEF SessionInvariant, DecidedInPast, StalenessBounded, StaleByAtMost, Current,
                      TypeOK, Verdicts
  <1> QED BY <1>3, <1>4, <1>5, <1>6 DEF SessionInvariant

\* A fill caches a copy that is as old as its database answer.
LEMMA InvStore ==
  ASSUME SessionInvariant, NEW r \in Requests, Store(r)
  PROVE  SessionInvariant'
  <1> USE SessionAssumption
  <1> DEFINE u == UserOf[r]  n == copy[r].version
  <1>1. /\ UNCHANGED <<now, versions, copy, destroyed>>
        /\ pc[r] = "store"
        /\ pc' = [pc EXCEPT ![r] = Verdict(RowOf(u, n), Needs[r])]
        /\ decidedAt' = [decidedAt EXCEPT ![r] = now]
    BY DEF Store, Decide
  <1>2. /\ DOMAIN cache' = DOMAIN cache \cup {u}
        /\ cache'[u] = [version |-> n, expiresAt |-> now + Ttl]
        /\ \A w \in DOMAIN cache \ {u} : cache'[w] = cache[w]
    BY DEF Store, Set
  <1>3. /\ u \in Users /\ n \in 1..Current(u) /\ now \in Nat /\ Current(u) \in Nat
        /\ copy[r].readAt \in Nat
    BY <1>1, VersionFacts DEF SessionInvariant, AnswerFresh, TypeOK
  <1>4. Verdict(RowOf(u, n), Needs[r]) \in Verdicts
    BY DEF Verdict, Verdicts
  <1>5. TypeOK'
    BY <1>1, <1>2, <1>3, <1>4 DEF SessionInvariant, TypeOK, Current, PC, Final
  <1>6. AnswerFresh'
    BY <1>1, <1>4 DEF SessionInvariant, AnswerFresh, Current, TypeOK, Verdicts
  <1>7. ASSUME n < Current(u)
        PROVE  /\ now <= versions[u][n + 1].since + (Ttl + MaxDelay)
               /\ now + Ttl <= versions[u][n + 1].since + (Ttl + MaxDelay)
    <2>1. versions[u][n + 1].since \in Nat
      BY <1>3, <1>7, VersionFacts DEF SessionInvariant
    <2>2. now <= copy[r].readAt + MaxDelay /\ copy[r].readAt <= versions[u][n + 1].since
      BY <1>1, <1>7 DEF SessionInvariant, AnswerFresh
    <2> QED BY <2>1, <2>2, <1>3
  <1>8. EntryFresh'
    BY <1>1, <1>2, <1>3, <1>7 DEF SessionInvariant, EntryFresh, StaleByAtMost, Current
  <1>9. DecidedInPast'
    BY <1>1, <1>3 DEF SessionInvariant, DecidedInPast, Current, TypeOK
  <1>10. StalenessBounded'
    BY <1>1, <1>7 DEF SessionInvariant, StalenessBounded, StaleByAtMost, Current, TypeOK
  <1> QED BY <1>5, <1>6, <1>8, <1>9, <1>10 DEF SessionInvariant

\* Every step keeps the invariant: one lemma per action.
LEMMA SessionNext == SessionInvariant /\ [Next]_vars => SessionInvariant'
  <1> SUFFICES ASSUME SessionInvariant, [Next]_vars PROVE SessionInvariant'
    OBVIOUS
  <1>1. CASE UNCHANGED vars
    BY <1>1 DEF vars, SessionInvariant, TypeOK, AnswerFresh, EntryFresh, DecidedInPast,
                StalenessBounded, StaleByAtMost, Current
  <1> QED BY <1>1, InvHit, InvMiss, InvFetch, InvStore, InvChange, InvSweep, InvStop, InvTick
          DEF Next, Validate, Answer, Quiet

--------------------------------------------------------------------------------
\* The inductive invariant holds in every reachable state (jwt.strategy.ts:29-61).
THEOREM SessionInvariantHolds == Spec => []SessionInvariant
  BY SessionInit, SessionNext, PTL DEF Spec

\* Every authenticated request is decided from a version of its user that was
\* current at most TTL plus one database answer earlier, for every number of
\* users, requests, changes, stops and restarts (jwt.strategy.ts:29-61).
THEOREM DecisionsAreBoundedlyStale == Spec => []StalenessBounded
  <1>1. SessionInvariant => StalenessBounded
    BY DEF SessionInvariant
  <1> QED BY SessionInvariantHolds, <1>1, PTL

--------------------------------------------------------------------------------
(***************************************************************************)
(* What a decision follows from.                                           *)
(***************************************************************************)

\* A version, once written, stays what it is.
LEMMA VersionsStay ==
  ASSUME SessionInvariant, [Next]_vars, NEW u \in Users, NEW n \in 1..Current(u)
  PROVE  RowOf(u, n)' = RowOf(u, n)
  <1>1. CASE UNCHANGED versions
    BY <1>1 DEF RowOf
  <1>2. ASSUME NEW w \in Users, NEW row \in Rows, ChangeUser(w, row)
        PROVE  RowOf(u, n)' = RowOf(u, n)
    <2>1. /\ versions \in [Users -> Seq(Version)]
          /\ versions' = [versions EXCEPT ![w] = Append(versions[w], [row |-> row, since |-> now])]
          /\ [row |-> row, since |-> now] \in Version
      BY <1>2 DEF ChangeUser, SessionInvariant, TypeOK, Version
    <2>2. versions'[u][n] = versions[u][n]
      BY <2>1 DEF Current
    <2> QED BY <2>2 DEF RowOf
  <1> QED BY <1>1, <1>2
          DEF Next, Validate, Answer, ValidateHit, ValidateMiss, Fetch, FetchNone, Store,
              Sweep, OnModuleDestroy, Restart, Tick, Quiet, vars

\* What is decided, stored or cached is decided, stored and cached from a copy
\* of a user that was there.
LEMMA JustifiedNext == SessionInvariant /\ Justified /\ [Next]_vars => Justified'
  <1> SUFFICES ASSUME SessionInvariant, Justified, [Next]_vars PROVE Justified'
    OBVIOUS
  <1> USE SessionAssumption
  <1>1. \A u \in Users : \A n \in 1..Current(u) : RowOf(u, n)' = RowOf(u, n)
    BY VersionsStay
  <1>2. \A u \in DOMAIN cache : u \in Users /\ cache[u].version \in 1..Current(u)
    BY DEF SessionInvariant, TypeOK
  <1>3. \A s \in Requests : pc[s] = "store" \/ pc[s] \in Verdicts
                              => UserOf[s] \in Users /\ copy[s].version \in 1..Current(UserOf[s])
    BY DEF SessionInvariant, AnswerFresh, DecidedInPast
  <1>4. /\ pc \in [Requests -> PC]
        /\ copy \in [Requests -> [version : Nat, readAt : Nat]]
        /\ \A row, needs : Verdict(row, needs) \in Verdicts
        /\ "store" \notin Verdicts /\ "fetch" \notin Verdicts /\ "dropped" \notin Verdicts
        /\ "invalid" \notin Verdicts
    BY DEF SessionInvariant, TypeOK, Verdict, Verdicts
  <1>5. ASSUME UNCHANGED <<copy, pc>>, DOMAIN cache' \subseteq DOMAIN cache,
               \A u \in DOMAIN cache' : cache'[u] = cache[u]
        PROVE  Justified'
    BY <1>1, <1>2, <1>3, <1>5 DEF Justified
  <1>6. ASSUME NEW r \in Requests, ValidateHit(r) PROVE Justified'
    <2> DEFINE u == UserOf[r]
    <2>1. /\ u \in DOMAIN cache /\ UNCHANGED <<cache, versions>>
          /\ copy' = [copy EXCEPT ![r] = [version |-> cache[u].version, readAt |-> now]]
          /\ pc' = [pc EXCEPT ![r] = Verdict(RowOf(u, cache[u].version), Needs[r])]
      BY <1>6 DEF ValidateHit, Hit, Decide
    <2>2. copy'[r].version = cache[u].version /\ pc'[r] = Verdict(RowOf(u, cache[u].version), Needs[r])
      BY <2>1, <1>4
    <2>3. \A s \in Requests \ {r} : copy'[s] = copy[s] /\ pc'[s] = pc[s]
      BY <2>1, <1>4
    <2> QED BY <2>1, <2>2, <2>3, <1>4 DEF Justified, RowOf
  <1>7. ASSUME NEW r \in Requests, ValidateMiss(r) PROVE Justified'
    <2>1. /\ DOMAIN cache' \subseteq DOMAIN cache /\ UNCHANGED <<copy, versions>>
          /\ \A u \in DOMAIN cache' : cache'[u] = cache[u]
          /\ pc' = [pc EXCEPT ![r] = "fetch"]
      BY <1>7, CacheLoss DEF ValidateMiss, Miss
    <2>2. \A s \in Requests : pc'[s] = pc[s] \/ pc'[s] = "fetch"
      BY <2>1, <1>4
    <2> QED BY <2>1, <2>2, <1>4 DEF Justified, RowOf
  <1>8. ASSUME NEW r \in Requests, Fetch(r) \/ FetchNone(r) PROVE Justified'
    <2>1. UNCHANGED <<cache, versions>>
      BY <1>8 DEF Fetch, FetchNone
    <2>2. \A s \in Requests \ {r} : copy'[s] = copy[s] /\ pc'[s] = pc[s]
      BY <1>8, <1>4 DEF Fetch, FetchNone
    <2>3. \/ pc'[r] = "store" /\ RowOf(UserOf[r], copy'[r].version).present
          \/ pc'[r] = "invalid"
      BY <1>8, <1>4 DEF Fetch, FetchNone
    <2> QED BY <2>1, <2>2, <2>3, <1>4 DEF Justified, RowOf
  <1>9. ASSUME NEW r \in Requests, Store(r) PROVE Justified'
    <2> DEFINE u == UserOf[r]  n == copy[r].version
    <2>1. /\ pc[r] = "store" /\ UNCHANGED <<copy, versions>>
          /\ pc' = [pc EXCEPT ![r] = Verdict(RowOf(u, n), Needs[r])]
          /\ DOMAIN cache' = DOMAIN cache \cup {u} /\ cache'[u].version = n
          /\ \A w \in DOMAIN cache \ {u} : cache'[w] = cache[w]
      BY <1>9 DEF Store, Set, Decide
    <2>2. /\ pc'[r] = Verdict(RowOf(u, n), Needs[r]) /\ RowOf(u, n).present
          /\ \A s \in Requests \ {r} : pc'[s] = pc[s]
      BY <2>1, <1>4 DEF Justified
    <2> QED BY <2>1, <2>2, <1>4 DEF Justified, RowOf
  <1>10. ASSUME OnModuleDestroy \/ Restart PROVE Justified'
    <2>1. /\ UNCHANGED <<copy, versions>> /\ DOMAIN cache' \subseteq DOMAIN cache
          /\ \A u \in DOMAIN cache' : cache'[u] = cache[u]
          /\ \A s \in Requests : pc'[s] = pc[s] \/ pc'[s] = "dropped"
      <3>1. /\ UNCHANGED <<copy, versions>> /\ cache' = Without(Users)
            /\ \A s \in Requests : pc'[s] = pc[s] \/ pc'[s] = "dropped"
        <4>1. CASE OnModuleDestroy
          BY <4>1 DEF OnModuleDestroy
        <4>2. CASE Restart
          BY <4>2 DEF Restart
        <4> QED BY <1>10, <4>1, <4>2
      <3> QED BY <3>1, CacheLoss
    <2> QED BY <2>1, <1>4 DEF Justified, RowOf
  <1>11. ASSUME Sweep PROVE Justified'
    BY <1>11, <1>5, CacheLoss DEF Sweep
  <1>12. ASSUME (\E u \in Users : \E row \in Rows : ChangeUser(u, row)) \/ Tick \/ UNCHANGED vars
         PROVE  Justified'
    BY <1>12, <1>5 DEF ChangeUser, Tick, vars
  <1> QED BY <1>6, <1>7, <1>8, <1>9, <1>10, <1>11, <1>12 DEF Next, Validate, Answer, Quiet

\* Whoever is let through had been present, active, verified and permitted, all
\* at the same moment, at most TTL plus one database answer before: for every
\* set of users, requests, required permissions and roles, every number of
\* changes, fills and restarts (jwt.strategy.ts:29-61, policies.guard.ts:23-64).
THEOREM AdmissionsAreEntitled == Spec => []AdmittedWasEntitled
  <1>1. Init => Justified
    BY DEF Init, Justified, Verdicts
  <1>2. SessionInvariant /\ Justified => AdmittedWasEntitled
    <2> SUFFICES ASSUME SessionInvariant, Justified, NEW r \in Requests, pc[r] = "admitted"
                 PROVE  \E n \in 1..Current(UserOf[r]) :
                          /\ StaleByAtMost(UserOf[r], n, decidedAt[r], Ttl + MaxDelay)
                          /\ LET row == RowOf(UserOf[r], n)
                             IN  /\ row.present /\ row.isActive /\ row.isEmailVerified
                                 /\ Permitted(row.role, Needs[r])
      BY DEF AdmittedWasEntitled
    <2> DEFINE u == UserOf[r]  n == copy[r].version  row == RowOf(u, n)
    <2>1. /\ pc[r] \in Verdicts /\ n \in 1..Current(u)
          /\ StaleByAtMost(u, n, decidedAt[r], Ttl + MaxDelay)
      BY DEF Verdicts, SessionInvariant, DecidedInPast, StalenessBounded
    <2>2. row.present /\ Verdict(row, Needs[r]) = "admitted"
      BY <2>1 DEF Justified
    <2>3. row.isActive /\ row.isEmailVerified /\ Permitted(row.role, Needs[r])
      BY <2>2 DEF Verdict
    <2> QED BY <2>1, <2>2, <2>3
  <1> QED BY <1>1, <1>2, JustifiedNext, SessionInvariantHolds, PTL DEF Spec
================================================================================
