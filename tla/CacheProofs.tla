------------------------------ MODULE CacheProofs ------------------------------
(***************************************************************************)
(* The cache implements a map whose entries vanish when they expire.       *)
(***************************************************************************)
EXTENDS Cache, TLAPS

Entry == [value : Values \cup {NoValue}, expiresAt : Int]

\* Types; a key without an entry has the entry NoEntry, and a lifetime ends
\* after the clock was started.
CacheInvariant ==
  /\ now \in Nat
  /\ map \in [Keys -> Entry]
  /\ timer \in BOOLEAN
  /\ doomed \in [Callers -> SUBSET Keys]
  /\ fresh \in [Callers -> SUBSET Keys]
  /\ \A k \in Keys : Present(k) => map[k].expiresAt >= 0
  /\ \A k \in Keys : ~Present(k) => map[k] = NoEntry

--------------------------------------------------------------------------------
\* The end of a lifetime of whole seconds is a tick of the clock.
LEMMA Deadline == ASSUME NEW n \in Nat, NEW t \in Ttls PROVE n + t * Sec \in Nat
<1>1. t \in Nat /\ Sec \in Nat
  BY CacheAssumption
<1>. QED
  BY <1>1

\* Math.ceil(left / Sec): the least number of seconds that is long enough.
LEMMA Ceil ==
  ASSUME NEW l \in Nat, l > 0
  PROVE  LET n == (l + Sec - 1) \div Sec
         IN  n \in 1 .. l /\ (n - 1) * Sec < l /\ l <= n * Sec
<1>. DEFINE n == (l + Sec - 1) \div Sec
<1>1. Sec \in Nat /\ Sec >= 1
  BY CacheAssumption
<1>2. n \in Int /\ n * Sec <= l + Sec - 1 /\ l + Sec - 1 < (n + 1) * Sec
  BY <1>1, Z3
<1>. HIDE DEF n
<1>3. (n - 1) * Sec = n * Sec - Sec /\ (n + 1) * Sec = n * Sec + Sec
  BY <1>1, <1>2
<1>4. (n - 1) * Sec < l /\ l <= n * Sec
  BY <1>1, <1>2, <1>3
<1>5. n >= 1
  BY <1>1, <1>2, <1>3, <1>4, Z3
<1>6. n <= l
  <2>1. ASSUME NEW m \in Nat, NEW s \in Nat, s >= 1 PROVE m * s >= m
    <3>1. m * s = m + m * (s - 1) /\ m * (s - 1) >= 0
      BY <2>1, Z3
    <3>. QED
      BY <3>1
  <2>2. (n - 1) * Sec >= n - 1
    BY <1>1, <1>2, <1>5, <2>1
  <2>. QED
    BY <1>1, <1>2, <1>4, <2>2
<1>. QED
  BY <1>2, <1>4, <1>5, <1>6 DEF n

\* Deletion keeps the invariant's part about the map.
LEMMA DeleteKeeps ==
  ASSUME CacheInvariant, NEW S, Delete(S)
  PROVE  /\ map' \in [Keys -> Entry]
         /\ \A k \in Keys : Present(k)' => (map[k].expiresAt >= 0)'
         /\ \A k \in Keys : ~Present(k)' => map'[k] = NoEntry
BY DEF CacheInvariant, Delete, Present, NoEntry, Entry

--------------------------------------------------------------------------------
\* The invariant, types included, holds in every state.
LEMMA CacheInvariantInit == Init => CacheInvariant
BY CacheAssumption DEF Init, CacheInvariant, Present, NoEntry, Entry

LEMMA CacheInvariantNext == CacheInvariant /\ [Next]_vars => CacheInvariant'
<1>. SUFFICES ASSUME CacheInvariant, [Next]_vars PROVE CacheInvariant'
  OBVIOUS
<1>1. ASSUME NEW k \in Keys, NEW v \in Values, NEW t \in Ttls, Set(k, v, t) PROVE CacheInvariant'
  <2>1. now + t * Sec \in Nat
    BY Deadline DEF CacheInvariant
  <2>2. map' = [map EXCEPT ![k] = [value |-> v, expiresAt |-> now + t * Sec]] /\ Touch(k) /\ Calls
    BY <1>1 DEF Set
  <2>3. map' \in [Keys -> Entry] /\ fresh' \in [Callers -> SUBSET Keys]
    BY <2>1, <2>2 DEF CacheInvariant, Entry, Touch
  <2>. QED
    BY <2>1, <2>2, <2>3, CacheAssumption DEF Calls, CacheInvariant, Present, NoEntry
<1>2. ASSUME NEW k \in Keys, Get(k) \/ Exists(k) PROVE CacheInvariant'
  <2>1. Delete(IF Expired(k) THEN {k} ELSE {}) /\ UNCHANGED fresh /\ Calls
    BY <1>2 DEF Get, Exists
  <2>. QED
    BY <2>1, DeleteKeeps DEF Calls, CacheInvariant, Present, NoEntry
<1>3. ASSUME NEW k \in Keys, Ttl(k) PROVE CacheInvariant'
  <2>1. CASE UNCHANGED map
    BY <1>3, <2>1 DEF Ttl, Calls, CacheInvariant, Present
  <2>2. CASE Delete({k})
    BY <1>3, <2>2, DeleteKeeps DEF Ttl, Calls, CacheInvariant, Present, NoEntry
  <2>. QED
    BY <1>3, <2>1, <2>2 DEF Ttl
<1>4. ASSUME NEW k \in Keys, NEW t \in Ttls, Expire(k, t) PROVE CacheInvariant'
  <2>1. now + t * Sec \in Nat
    BY Deadline DEF CacheInvariant
  <2>2. map' = IF Present(k) THEN [map EXCEPT ![k].expiresAt = now + t * Sec] ELSE map
    BY <1>4 DEF Expire
  <2>3. map' \in [Keys -> Entry]
    BY <2>1, <2>2 DEF CacheInvariant, Entry
  <2>4. fresh' \in [Callers -> SUBSET Keys] /\ Calls
    BY <1>4 DEF Expire, Touch, CacheInvariant
  <2>. QED
    BY <2>1, <2>2, <2>3, <2>4 DEF Calls, CacheInvariant, Present, Entry, NoEntry
<1>5. ASSUME NEW S \in SUBSET Keys, DelMany(S) PROVE CacheInvariant'
  BY <1>5, DeleteKeeps DEF DelMany, Calls, CacheInvariant, Present, NoEntry
<1>6. ASSUME (\E p \in Patterns : KeysOf(p)) \/ GetStats PROVE CacheInvariant'
  BY <1>6 DEF KeysOf, GetStats, Calls, CacheInvariant, Present
<1>7. ASSUME NEW c \in Callers, NEW p \in Patterns, ClearPattern(c, p) PROVE CacheInvariant'
  BY <1>7, CacheAssumption DEF ClearPattern, Matches, CacheInvariant, Present
<1>8. ASSUME NEW c \in Callers, ClearDelete(c) PROVE CacheInvariant'
  BY <1>8, DeleteKeeps DEF ClearDelete, CacheInvariant, Present, NoEntry
<1>9. ASSUME Cleanup PROVE CacheInvariant'
  BY <1>9, DeleteKeeps DEF Cleanup, CacheInvariant, Present, NoEntry
<1>10. ASSUME OnModuleDestroy PROVE CacheInvariant'
  BY <1>10, DeleteKeeps DEF OnModuleDestroy, CacheInvariant, Present, NoEntry
<1>11. ASSUME Tick \/ UNCHANGED vars PROVE CacheInvariant'
  BY <1>11 DEF Tick, vars, CacheInvariant, Present
<1>. QED
  BY <1>1, <1>2, <1>3, <1>4, <1>5, <1>6, <1>7, <1>8, <1>9, <1>10, <1>11 DEF Next

\* Type correctness of the cache and what the map looks like.
THEOREM CacheInvariantHolds == Spec => []CacheInvariant
BY CacheInvariantInit, CacheInvariantNext, PTL DEF Spec

--------------------------------------------------------------------------------
\* What the abstract cache sees of one key.
LEMMA View ==
  ASSUME CacheInvariant, NEW k \in Keys
  PROVE  /\ Abs!Has(k) <=> Visible(k)
         /\ Visible(k) => VisibleMap[k] = map[k]
         /\ LapsedMap[k] # NoValue <=> Present(k) /\ Expired(k)
         /\ Abs!Has(k) \/ LapsedMap[k] # NoValue <=> Present(k)
BY DEF CacheInvariant, Abs!Has, VisibleMap, LapsedMap, Visible, Present, Expired, NoEntry

\* Deleting keys is what the abstract cache does when they are gone for good.
LEMMA DeleteIsGone ==
  ASSUME CacheInvariant, NEW S, Delete(S), UNCHANGED now
  PROVE  Abs!Gone(S)
BY DEF CacheInvariant, Abs!Gone, Abs!NoEntry, VisibleMap, LapsedMap, Delete, Visible, Present,
       Expired, NoEntry

\* get and exists delete what has expired: the abstract cache has missed it.
LEMMA LookStep ==
  ASSUME CacheInvariant, NEW k \in Keys, Get(k) \/ Exists(k)
  PROVE  Abs!Look(k)
<1>1. Delete(IF Expired(k) THEN {k} ELSE {}) /\ UNCHANGED now
  BY DEF Get, Exists, Calls
<1>2. answer' \in {<<"get", k, VisibleMap[k].value>>, <<"exists", k, Abs!Has(k)>>}
  <2>1. VisibleMap[k].value = IF Visible(k) THEN map[k].value ELSE NoValue
    BY DEF VisibleMap, NoEntry
  <2>2. (Abs!Has(k) = Visible(k))
    BY View DEF Visible, Present, Abs!Has
  <2>. QED
    BY <2>1, <2>2 DEF Get, Exists
<1>3. CASE Visible(k)
  <2>1. map' = map
    BY <1>1, <1>3 DEF CacheInvariant, Delete, Visible
  <2>2. UNCHANGED <<VisibleMap, LapsedMap>>
    BY <1>1, <2>1 DEF VisibleMap, LapsedMap, Visible, Present, Expired
  <2>. QED
    BY <1>1, <1>2, <1>3, <2>2, View DEF Abs!Look
<1>4. CASE ~Visible(k)
  <2>1. Delete({k})
    BY <1>1, <1>4 DEF CacheInvariant, Delete, Visible, Present, NoEntry
  <2>. QED
    BY <1>1, <1>2, <1>4, <2>1, DeleteIsGone, View DEF Abs!Look
<1>. QED
  BY <1>3, <1>4

\* The seconds left are rounded up, and an entry in its last instant is over.
LEMMA TtlStep ==
  ASSUME CacheInvariant, NEW k \in Keys, Ttl(k)
  PROVE  Abs!Left(k)
<1>. DEFINE left == map[k].expiresAt - now
<1>1. UNCHANGED now
  BY DEF Ttl, Calls
<1>2. CASE Present(k) /\ left > 0
  <2>1. left \in Nat /\ left <= map[k].expiresAt /\ Visible(k) /\ map[k].expiresAt \in Nat
    BY <1>2 DEF CacheInvariant, Visible, Expired, Entry
  <2>2. VisibleMap[k] = map[k] /\ Abs!Has(k)
    BY <2>1, View
  <2>3. PICK n \in 1 .. left :
          answer' = <<"ttl", k, n>> /\ (n - 1) * Sec < left /\ left <= n * Sec
    BY <1>2, <2>1, Ceil DEF Ttl
  <2>4. n \in 1 .. map[k].expiresAt
    BY <2>1, <2>3
  <2>5. UNCHANGED <<VisibleMap, LapsedMap>>
    BY <1>1, <1>2 DEF Ttl, VisibleMap, LapsedMap, Visible, Present, Expired
  <2>. QED
    BY <1>1, <1>2, <2>2, <2>3, <2>4, <2>5 DEF Abs!Left, CacheInvariant, Entry
<1>3. CASE ~(Present(k) /\ left > 0)
  <2>1. answer' = <<"ttl", k, -2>> /\ Abs!Gone({k})
    BY <1>1, <1>3, DeleteIsGone DEF Ttl
  <2>2. ~(Abs!Has(k) /\ VisibleMap[k].expiresAt > now)
    BY <1>3, View DEF CacheInvariant, Visible, Entry
  <2>. QED
    BY <1>1, <2>1, <2>2 DEF Abs!Left
<1>. QED
  BY <1>2, <1>3

\* set gives the key a value that can be seen until its deadline.
LEMMA SetStep ==
  ASSUME CacheInvariant, NEW k \in Keys, NEW v \in Values, NEW t \in Ttls, Set(k, v, t)
  PROVE  Abs!Put(k, v, t)
<1>. DEFINE d == now + t * Sec
<1>1. d \in Nat /\ d >= now /\ UNCHANGED now /\ answer' = <<"set", k>>
  BY Deadline, CacheAssumption DEF CacheInvariant, Set, Calls
<1>2. map' = [map EXCEPT ![k] = [value |-> v, expiresAt |-> d]]
  BY DEF Set
<1>. HIDE DEF d
<1>3. ASSUME NEW x \in Keys, x # k
      PROVE  VisibleMap'[x] = VisibleMap[x] /\ LapsedMap'[x] = LapsedMap[x]
  BY <1>1, <1>2, <1>3 DEF CacheInvariant, VisibleMap, LapsedMap, Visible, Expired, Present
<1>4. VisibleMap'[k] = [value |-> v, expiresAt |-> d] /\ LapsedMap'[k] = NoValue
  <2>1. map'[k] = [value |-> v, expiresAt |-> d] /\ v # NoValue
    BY <1>2, CacheAssumption DEF CacheInvariant
  <2>2. Visible(k)' /\ ~Expired(k)'
    BY <1>1, <2>1 DEF CacheInvariant, Visible, Expired, Present
  <2>. QED
    BY <2>1, <2>2 DEF VisibleMap, LapsedMap
<1>5. VisibleMap' = [VisibleMap EXCEPT ![k] = [value |-> v, expiresAt |-> d]]
  BY <1>3, <1>4 DEF VisibleMap
<1>6. LapsedMap' = [LapsedMap EXCEPT ![k] = NoValue]
  BY <1>3, <1>4 DEF LapsedMap
<1>. QED
  BY <1>1, <1>5, <1>6 DEF Abs!Put, d

\* expire renews what can be seen and what is only still in memory.
LEMMA ExpireStep ==
  ASSUME CacheInvariant, NEW k \in Keys, NEW t \in Ttls, Expire(k, t)
  PROVE  Abs!Renew(k, t)
<1>. DEFINE d == now + t * Sec
<1>1. d \in Nat /\ d >= now /\ UNCHANGED now /\ answer' = <<"expire", k>>
  BY Deadline, CacheAssumption DEF CacheInvariant, Expire, Calls
<1>. HIDE DEF d
<1>2. map' = IF Present(k) THEN [map EXCEPT ![k].expiresAt = d] ELSE map
  BY DEF Expire, d
<1>3. ASSUME NEW x \in Keys, x # k
      PROVE  VisibleMap'[x] = VisibleMap[x] /\ LapsedMap'[x] = LapsedMap[x]
  BY <1>1, <1>2, <1>3 DEF CacheInvariant, VisibleMap, LapsedMap, Visible, Expired, Present
<1>4. LapsedMap' = [LapsedMap EXCEPT ![k] = NoValue]
  <2>1. LapsedMap'[k] = NoValue
    <3>1. CASE Present(k)
      BY <1>1, <1>2, <3>1 DEF CacheInvariant, LapsedMap, Expired, Present, Entry
    <3>2. CASE ~Present(k)
      BY <1>2, <3>2 DEF LapsedMap, Expired, Present
    <3>. QED
      BY <3>1, <3>2
  <2>. QED
    BY <1>3, <2>1 DEF LapsedMap
<1>5. CASE Visible(k)
  <2>1. VisibleMap[k] = map[k] /\ VisibleMap'[k] = [map[k] EXCEPT !.expiresAt = d]
    BY <1>1, <1>2, <1>5 DEF CacheInvariant, VisibleMap, Visible, Expired, Present, Entry
  <2>2. VisibleMap' = [VisibleMap EXCEPT ![k] = [@ EXCEPT !.expiresAt = d]]
    BY <1>3, <2>1 DEF VisibleMap
  <2>. QED
    BY <1>1, <1>4, <1>5, <2>2, View DEF Abs!Renew, d
<1>6. CASE Present(k) /\ Expired(k)
  <2>1. LapsedMap[k] = map[k].value /\ LapsedMap[k] # NoValue /\ ~Abs!Has(k)
    BY <1>6, View DEF LapsedMap, Visible
  <2>2. VisibleMap'[k] = [value |-> map[k].value, expiresAt |-> d]
    BY <1>1, <1>2, <1>6 DEF CacheInvariant, VisibleMap, Visible, Expired, Present, Entry
  <2>3. VisibleMap' = [VisibleMap EXCEPT ![k] = [value |-> LapsedMap[k], expiresAt |-> d]]
    BY <1>3, <2>1, <2>2 DEF VisibleMap
  <2>. QED
    BY <1>1, <1>4, <2>1, <2>3 DEF Abs!Renew, d
<1>7. CASE ~Present(k)
  <2>1. LapsedMap[k] = NoValue /\ ~Abs!Has(k)
    BY <1>7, View DEF Visible
  <2>2. VisibleMap' = VisibleMap
    BY <1>1, <1>2, <1>7 DEF VisibleMap, Visible, Expired, Present
  <2>3. VisibleMap = [VisibleMap EXCEPT ![k] = @]
    BY DEF VisibleMap
  <2>. QED
    BY <1>1, <1>4, <2>1, <2>2, <2>3 DEF Abs!Renew
<1>. QED
  BY <1>5, <1>6, <1>7 DEF Visible

\* The clean-up forgets what the abstract cache no longer shows.
LEMMA CleanupStep == ASSUME CacheInvariant, Cleanup PROVE Abs!Forget
<1>1. map' = [k \in Keys |-> IF Expired(k) THEN NoEntry ELSE map[k]] /\ UNCHANGED <<now, answer>>
  BY DEF Cleanup, Delete
<1>2. VisibleMap' = VisibleMap
  BY <1>1 DEF CacheInvariant, VisibleMap, Visible, Present, Expired, NoEntry
<1>3. LapsedMap' = [k \in Keys |-> NoValue]
  BY <1>1 DEF CacheInvariant, LapsedMap, Expired, NoEntry
<1>. QED
  BY <1>1, <1>2, <1>3 DEF Abs!Forget

\* Time takes away what has reached its deadline.
LEMMA TickStep == ASSUME CacheInvariant, Tick PROVE Abs!Tick
<1>1. now' = now + 1 /\ now \in Nat /\ UNCHANGED <<map, answer>>
  BY DEF Tick, CacheInvariant
<1>. DEFINE due == {k \in Keys : Abs!Has(k) /\ VisibleMap[k].expiresAt <= now}
<1>2. ASSUME NEW k \in Keys
      PROVE  /\ VisibleMap'[k] = IF k \in due THEN NoEntry ELSE VisibleMap[k]
             /\ LapsedMap'[k] = IF k \in due THEN VisibleMap[k].value ELSE LapsedMap[k]
  <2>1. k \in due <=> Present(k) /\ map[k].expiresAt = now
    BY View DEF CacheInvariant, Visible, Expired, Entry
  <2>2. CASE Present(k) /\ map[k].expiresAt = now
    BY <1>1, <2>1, <2>2 DEF VisibleMap, LapsedMap, Visible, Expired, Present
  <2>3. CASE ~(Present(k) /\ map[k].expiresAt = now)
    BY <1>1, <2>1, <2>3 DEF CacheInvariant, VisibleMap, LapsedMap, Visible, Expired, Present, Entry, NoEntry
  <2>. QED
    BY <2>2, <2>3
<1>3. VisibleMap' = [k \in Keys |-> IF k \in due THEN NoEntry ELSE VisibleMap[k]]
  BY <1>2 DEF VisibleMap
<1>4. LapsedMap' = [k \in Keys |-> IF k \in due THEN VisibleMap[k].value ELSE LapsedMap[k]]
  BY <1>2 DEF LapsedMap
<1>. QED
  BY <1>1, <1>3, <1>4 DEF Abs!Tick, Abs!NoEntry, NoEntry

\* keys, getStats and clearPattern's first half show what the abstract map has.
LEMMA ReadStep ==
  ASSUME CacheInvariant
  PROVE  /\ \A p \in Patterns : KeysOf(p) => Abs!List(Matching[p])
         /\ GetStats => Abs!Stats
<1>1. ASSUME NEW p \in Patterns, KeysOf(p) PROVE Abs!List(Matching[p])
  <2>1. Matches(p) = {k \in Matching[p] : Abs!Has(k)}
    BY View, CacheAssumption DEF Matches
  <2>. QED
    BY <1>1, <2>1 DEF KeysOf, Calls, Abs!List, VisibleMap, LapsedMap, Visible, Present, Expired
<1>2. ASSUME GetStats PROVE Abs!Stats
  <2>1. {k \in Keys : Present(k)} = {k \in Keys : Abs!Has(k) \/ LapsedMap[k] # NoValue}
    BY View
  <2>. QED
    BY <1>2, <2>1 DEF GetStats, Calls, Abs!Stats, VisibleMap, LapsedMap, Visible, Present, Expired
<1>. QED
  BY <1>1, <1>2

\* Every step of the cache is one of the abstract cache or none.
LEMMA CacheStep ==
  ASSUME CacheInvariant, [Next]_vars
  PROVE  [Abs!Next]_(Abs!vars)
<1>1. ASSUME NEW k \in Keys, Get(k) \/ Exists(k) \/ Ttl(k) PROVE Abs!Next
  BY <1>1, LookStep, TtlStep DEF Abs!Next
<1>2. ASSUME NEW k \in Keys, NEW t \in Ttls, Expire(k, t) PROVE Abs!Next
  BY <1>2, ExpireStep DEF Abs!Next
<1>3. ASSUME NEW k \in Keys, NEW t \in Ttls, NEW v \in Values, Set(k, v, t) PROVE Abs!Next
  BY <1>3, SetStep DEF Abs!Next
<1>4. ASSUME NEW S \in SUBSET Keys, Delete(S), answer' = <<"del", S>>, UNCHANGED now PROVE Abs!Next
  BY <1>4, DeleteIsGone DEF Abs!Drop, Abs!Next
<1>5. ASSUME NEW p \in Patterns, KeysOf(p) PROVE Abs!Next
  <2>1. Matching[p] \in SUBSET Keys
    BY CacheAssumption
  <2>. QED
    BY <1>5, <2>1, ReadStep DEF Abs!Next
<1>6. GetStats \/ Cleanup \/ Tick => Abs!Next
  BY ReadStep, CleanupStep, TickStep DEF Abs!Next
<1>7. ASSUME NEW c \in Callers, ClearDelete(c) PROVE Abs!Next
  <2>1. doomed[c] \in SUBSET Keys
    BY DEF CacheInvariant
  <2>. QED
    BY <1>4, <1>7, <2>1 DEF ClearDelete
<1>8. ASSUME UNCHANGED <<now, map, answer>> PROVE UNCHANGED Abs!vars
  BY <1>8 DEF Abs!vars, VisibleMap, LapsedMap, Visible, Present, Expired
<1>9. (\E c \in Callers, p \in Patterns : ClearPattern(c, p)) \/ UNCHANGED vars
        => UNCHANGED <<now, map, answer>>
  BY DEF ClearPattern, vars
<1>10. ASSUME NEW S \in SUBSET Keys, DelMany(S) PROVE Abs!Next
  BY <1>4, <1>10 DEF DelMany, Calls
<1>11. OnModuleDestroy => Abs!Next
  BY <1>4 DEF OnModuleDestroy
<1>. QED
  BY <1>1, <1>2, <1>3, <1>5, <1>6, <1>7, <1>8, <1>9, <1>10, <1>11 DEF Next

\* The cache implements the abstract one: its entries vanish when they expire,
\* whichever call or sweep happens to remove them.
THEOREM CacheImplementsAbstract == Spec => ExpiryIsInvisible
<1>1. Init => Abs!Init
  BY DEF Init, Abs!Init, VisibleMap, LapsedMap, Visible, Present, NoEntry, Abs!NoEntry
<1>. QED
  BY <1>1, CacheStep, CacheInvariantHolds, PTL DEF Spec, ExpiryIsInvisible, Abs!Spec

--------------------------------------------------------------------------------
\* What a clearPattern has yet to delete includes every key of its pattern
\* that can be seen and has not been set or refreshed since.
ClearCovers ==
  \A c \in Callers : doomed[c] # {} =>
    \A k \in Keys \ fresh[c] : Visible(k) => k \in doomed[c]

\* Only set and refresh make a key visible.
LEMMA OnlyTouchShows ==
  ASSUME CacheInvariant, [Next]_vars, NEW c \in Callers, NEW k \in Keys,
         k \notin fresh'[c], fresh[c] \subseteq fresh'[c], Visible(k)'
  PROVE  Visible(k)
<1>1. CASE UNCHANGED map /\ (UNCHANGED now \/ now' = now + 1)
  BY <1>1 DEF CacheInvariant, Visible, Present, Expired, Entry
<1>2. ASSUME NEW S, Delete(S), UNCHANGED now PROVE Visible(k)
  BY <1>2 DEF Delete, Visible, Present, Expired, NoEntry
<1>3. ASSUME NEW x \in Keys, Touch(x), UNCHANGED now,
             \A y \in Keys \ {x} : map'[y] = map[y]
      PROVE Visible(k)
  BY <1>3 DEF Touch, Visible, Present, Expired
<1>4. ASSUME NEW x \in Keys, NEW v \in Values, NEW t \in Ttls, Set(x, v, t)
      PROVE Visible(k)
  <2>1. \A y \in Keys \ {x} : map'[y] = map[y]
    BY <1>4 DEF Set, CacheInvariant
  <2>2. Touch(x) /\ UNCHANGED now
    BY <1>4 DEF Set, Calls
  <2>. QED
    BY <1>3, <2>1, <2>2
<1>5. ASSUME NEW x \in Keys, NEW t \in Ttls, Expire(x, t) PROVE Visible(k)
  <2>1. \A y \in Keys \ {x} : map'[y] = map[y]
    BY <1>5 DEF Expire, CacheInvariant
  <2>2. Touch(x) /\ UNCHANGED now
    BY <1>5 DEF Expire, Calls
  <2>. QED
    BY <1>3, <2>1, <2>2
<1>6. ASSUME NEW x \in Keys, Get(x) \/ Exists(x) \/ Ttl(x) PROVE Visible(k)
  BY <1>1, <1>2, <1>6 DEF Get, Exists, Ttl, Calls
<1>7. ASSUME NEW S \in SUBSET Keys, DelMany(S) PROVE Visible(k)
  BY <1>2, <1>7 DEF DelMany, Calls
<1>8. ASSUME (\E p \in Patterns : KeysOf(p) \/ \E d \in Callers : ClearPattern(d, p))
             \/ GetStats \/ Tick \/ UNCHANGED vars
      PROVE Visible(k)
  BY <1>1, <1>8 DEF KeysOf, ClearPattern, GetStats, Tick, Calls, vars
<1>9. ASSUME (\E d \in Callers : ClearDelete(d)) \/ Cleanup \/ OnModuleDestroy PROVE Visible(k)
  BY <1>2, <1>9 DEF ClearDelete, Cleanup, OnModuleDestroy
<1>. QED
  BY <1>4, <1>5, <1>6, <1>7, <1>8, <1>9 DEF Next

\* What the other steps leave of a clearPattern in progress.
LEMMA ClearStep ==
  ASSUME CacheInvariant, [Next]_vars, NEW c \in Callers
  PROVE  \/ doomed'[c] = doomed[c] /\ fresh[c] \subseteq fresh'[c]
         \/ \E p \in Patterns : ClearPattern(c, p)
         \/ ClearDelete(c)
<1>1. ASSUME NEW x \in Keys, NEW t \in Ttls, NEW v \in Values,
             Set(x, v, t)
      PROVE doomed'[c] = doomed[c] /\ fresh[c] \subseteq fresh'[c]
  BY <1>1 DEF Set, Touch, Calls, CacheInvariant
<1>2. ASSUME NEW x \in Keys, NEW t \in Ttls, Expire(x, t)
      PROVE doomed'[c] = doomed[c] /\ fresh[c] \subseteq fresh'[c]
  BY <1>2 DEF Expire, Touch, Calls, CacheInvariant
<1>3. ASSUME NEW x \in Keys, Get(x) \/ Exists(x) \/ Ttl(x)
      PROVE doomed'[c] = doomed[c] /\ fresh[c] \subseteq fresh'[c]
  BY <1>3 DEF Get, Exists, Ttl, Calls, CacheInvariant
<1>4. ASSUME (\E S \in SUBSET Keys : DelMany(S)) \/ (\E p \in Patterns : KeysOf(p)) \/ GetStats
             \/ Cleanup \/ OnModuleDestroy \/ Tick \/ UNCHANGED vars
      PROVE doomed'[c] = doomed[c] /\ fresh[c] \subseteq fresh'[c]
  BY <1>4 DEF DelMany, KeysOf, GetStats, Cleanup, OnModuleDestroy, Tick, vars, Calls
<1>5. ASSUME NEW d \in Callers, d # c, (\E p \in Patterns : ClearPattern(d, p)) \/ ClearDelete(d)
      PROVE doomed'[c] = doomed[c] /\ fresh[c] \subseteq fresh'[c]
  BY <1>5 DEF ClearPattern, ClearDelete, CacheInvariant
<1>. QED
  BY <1>1, <1>2, <1>3, <1>4, <1>5 DEF Next

\* ClearCovers is inductive.
LEMMA ClearCoversNext ==
  CacheInvariant /\ ClearCovers /\ [Next]_vars => ClearCovers'
<1>. SUFFICES ASSUME CacheInvariant, ClearCovers, [Next]_vars,
                     NEW c \in Callers, doomed'[c] # {},
                     NEW k \in Keys \ fresh'[c], Visible(k)'
              PROVE  k \in doomed'[c]
  BY DEF ClearCovers
<1>1. CASE doomed'[c] = doomed[c] /\ fresh[c] \subseteq fresh'[c]
  BY <1>1, OnlyTouchShows DEF ClearCovers
<1>2. ASSUME NEW p \in Patterns, ClearPattern(c, p) PROVE k \in doomed'[c]
  <2>1. fresh'[c] = Keys \ Matching[p] /\ doomed'[c] = Matches(p)
    BY <1>2 DEF ClearPattern, CacheInvariant
  <2>2. k \in Matching[p] /\ Visible(k)
    BY <1>2, <2>1 DEF ClearPattern, Visible, Present, Expired
  <2>. QED
    BY <2>1, <2>2 DEF Matches
<1>3. CASE ClearDelete(c)
  BY <1>3 DEF ClearDelete, CacheInvariant
<1>. QED
  BY <1>1, <1>2, <1>3, ClearStep

\* A clearPattern leaves no key of its pattern in sight that was not set or
\* refreshed while it ran.
THEOREM ClearPatternClears == Spec => ClearedAreGone
<1>1. ClearCovers /\ CacheInvariant /\ [Next]_vars =>
        [\A c \in Callers : doomed[c] # {} /\ doomed'[c] = {} =>
           \A k \in Keys \ fresh[c] : ~Visible(k)']_vars
  <2>. SUFFICES ASSUME ClearCovers, CacheInvariant, [Next]_vars, NEW c \in Callers,
                       doomed[c] # {}, doomed'[c] = {}, NEW k \in Keys \ fresh[c]
                PROVE  ~Visible(k)'
    OBVIOUS
  <2>1. ClearDelete(c)
    BY ClearStep DEF ClearPattern
  <2>2. Visible(k) => k \in doomed[c]
    BY DEF ClearCovers
  <2>. QED
    BY <2>1, <2>2 DEF ClearDelete, Delete, Visible, Present, Expired, NoEntry, CacheInvariant
<1>2. Init => ClearCovers
  BY DEF Init, ClearCovers
<1>3. Spec => []ClearCovers
  BY <1>2, ClearCoversNext, CacheInvariantHolds, PTL DEF Spec
<1>. QED
  BY <1>1, <1>3, CacheInvariantHolds, PTL DEF Spec, ClearedAreGone
================================================================================
