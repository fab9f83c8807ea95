--------------------------------- MODULE Cache ---------------------------------
(***************************************************************************)
(* The in-memory cache, src/src/shared/cache/cache.service.ts.  Every call *)
(* but clearPattern runs to its end without giving the event loop away, so *)
(* it is one step; clearPattern awaits the keys before it deletes them.    *)
(* Nothing is removed when it expires: an entry stays in the map until a   *)
(* call or the clean-up timer finds it.                                    *)
(***************************************************************************)
EXTENDS Integers

CONSTANTS
  Keys, Values,
  NoValue,    \* null
  Ttls,       \* lifetimes in seconds
  Sec,        \* ticks of the clock in a second: 1000 milliseconds
  Callers,    \* calls of clearPattern, each made any number of times
  Patterns,   \* patterns, such as the one of CacheHelper.getUserCachePattern
  Matching,   \* the keys that match each pattern
  MaxTime     \* bound: the clock stops there

ASSUME CacheAssumption ==
  /\ NoValue \notin Values
  /\ Ttls \subseteq Nat
  /\ Sec \in Nat \ {0}
  /\ MaxTime \in Nat
  /\ Matching \in [Patterns -> SUBSET Keys]

VARIABLES
  now,        \* Date.now()
  map,        \* the Map; NoValue where a key has no entry
  timer,      \* whether the interval of the clean-up is set
  doomed,     \* the keys each clearPattern has been given, or "idle"
  fresh,      \* history: the keys set or refreshed since it was given them
  answer      \* the operation answered last

vars == <<now, map, timer, doomed, fresh, answer>>

NoEntry == [value |-> NoValue, expiresAt |-> -1]
Present(k) == map[k].value # NoValue
Expired(k) == now > map[k].expiresAt
Visible(k) == Present(k) /\ ~Expired(k)
Delete(S) == map' = [k \in Keys |-> IF k \in S THEN NoEntry ELSE map[k]]

Init ==
  /\ now = 0
  /\ map = [k \in Keys |-> NoEntry]
  /\ timer = TRUE
  /\ doomed = [c \in Callers |-> {}]
  /\ fresh = [c \in Callers |-> Keys]
  /\ answer = <<"none">>

\* What no single call touches.
Calls == UNCHANGED <<now, timer, doomed>>
--------------------------------------------------------------------------------
Touch(k) == fresh' = [c \in Callers |-> fresh[c] \cup {k}]

Set(k, v, ttl) ==
  /\ map' = [map EXCEPT ![k] = [value |-> v, expiresAt |-> now + ttl * Sec]]
  /\ Touch(k)
  /\ answer' = <<"set", k>>
  /\ Calls

\* Mutant of Get: an expired entry is hidden and stays.
GetKeeps(k) ==
  /\ answer' = <<"get", k, IF Visible(k) THEN map[k].value ELSE NoValue>>
  /\ UNCHANGED <<map, fresh>>
  /\ Calls

Get(k) ==
  /\ answer' = <<"get", k, IF Visible(k) THEN map[k].value ELSE NoValue>>
  /\ Delete(IF Expired(k) THEN {k} ELSE {})
  /\ UNCHANGED fresh
  /\ Calls

Exists(k) ==
  /\ answer' = <<"exists", k, Visible(k)>>
  /\ Delete(IF Expired(k) THEN {k} ELSE {})
  /\ UNCHANGED fresh
  /\ Calls

\* Math.ceil of the seconds left.  Unlike the other calls, an entry is over
\* when its deadline is reached and not only after it.
Ttl(k) ==
  LET left == map[k].expiresAt - now IN
  /\ IF Present(k) /\ left > 0
     THEN answer' = <<"ttl", k, (left + Sec - 1) \div Sec>> /\ UNCHANGED map
     ELSE answer' = <<"ttl", k, -2>> /\ Delete({k})
  /\ UNCHANGED fresh
  /\ Calls

\* Mutant of Matches: keys in their last instant are left out.
MatchesStrict(p) == {k \in Matching[p] : Present(k) /\ now < map[k].expiresAt}

\* The keys keys(p) collects; expired ones are left out and stay in the map.
Matches(p) == {k \in Matching[p] : Visible(k)}

KeysOf(p) ==
  /\ answer' = <<"keys", Matches(p)>>
  /\ UNCHANGED <<map, fresh>>
  /\ Calls

\* expire does not ask whether the entry has expired.
Expire(k, ttl) ==
  /\ map' = IF Present(k) THEN [map EXCEPT ![k].expiresAt = now + ttl * Sec] ELSE map
  /\ Touch(k)
  /\ answer' = <<"expire", k>>
  /\ Calls

\* del, delMany and clear.
DelMany(S) ==
  /\ Delete(S)
  /\ answer' = <<"del", S>>
  /\ UNCHANGED fresh
  /\ Calls

GetStats ==
  /\ answer' = <<"stats", {k \in Keys : Present(k)}>>
  /\ UNCHANGED <<map, fresh>>
  /\ Calls

--------------------------------------------------------------------------------
\* clearPattern: the keys are awaited, then deleted whatever became of them.
ClearPattern(c, p) ==
  /\ doomed[c] = {}
  /\ Matches(p) # {}
  /\ doomed' = [doomed EXCEPT ![c] = Matches(p)]
  /\ fresh' = [fresh EXCEPT ![c] = Keys \ Matching[p]]
  /\ UNCHANGED <<now, map, timer, answer>>

ClearDelete(c) ==
  /\ doomed[c] # {}
  /\ Delete(doomed[c])
  /\ answer' = <<"del", doomed[c]>>
  /\ doomed' = [doomed EXCEPT ![c] = {}]
  /\ UNCHANGED <<now, timer, fresh>>

\* Mutant of Cleanup: a sweep in the wrong direction.
CleanupLive ==
  /\ timer
  /\ Delete({k \in Keys : Visible(k)})
  /\ UNCHANGED <<now, timer, doomed, fresh, answer>>

\* The interval of the constructor.
Cleanup ==
  /\ timer
  /\ Delete({k \in Keys : Expired(k)})
  /\ UNCHANGED <<now, timer, doomed, fresh, answer>>

OnModuleDestroy ==
  /\ timer
  /\ timer' = FALSE
  /\ Delete(Keys)
  /\ answer' = <<"del", Keys>>
  /\ UNCHANGED <<now, doomed, fresh>>

Tick ==
  /\ now < MaxTime
  /\ now' = now + 1
  /\ UNCHANGED <<map, timer, doomed, fresh, answer>>

Next ==
  \/ \E k \in Keys :
       \/ Get(k) \/ Exists(k) \/ Ttl(k)
       \/ \E ttl \in Ttls : Expire(k, ttl) \/ \E v \in Values : Set(k, v, ttl)
  \/ \E S \in SUBSET Keys : DelMany(S)
  \/ \E p \in Patterns : KeysOf(p) \/ \E c \in Callers : ClearPattern(c, p)
  \/ \E c \in Callers : ClearDelete(c)
  \/ GetStats \/ Cleanup \/ OnModuleDestroy \/ Tick

Spec == Init /\ [][Next]_vars
FairSpec == Spec /\ WF_vars(Cleanup)

--------------------------------------------------------------------------------
\* The refinement: what can be seen, and what is only still in memory.
VisibleMap == [k \in Keys |-> IF Visible(k) THEN map[k] ELSE NoEntry]
LapsedMap == [k \in Keys |-> IF Expired(k) THEN map[k].value ELSE NoValue]
Abs == INSTANCE CacheAbs WITH entry <- VisibleMap, lapsed <- LapsedMap

\* Whenever get, exists, keys, ttl and the timer happen to delete what has
\* expired, every caller is answered as by a cache whose entries vanish by
\* themselves; a key that was answered as missing comes back by set only.
ExpiryIsInvisible == Abs!Spec

\* A clearPattern that ends leaves no key of its pattern that can be seen,
\* but for the ones that were set or refreshed since it collected the keys,
\* although other calls and the clean-up run in between.
ClearedAreGone ==
  [][\A c \in Callers : doomed[c] # {} /\ doomed'[c] = {} =>
       \A k \in Keys \ fresh[c] : ~Visible(k)']_vars

\* Memory is given back: while the timer runs, an expired entry is removed or
\* refreshed in the end, also when nobody asks for it.
ExpiredAreSwept ==
  \A k \in Keys : timer /\ Present(k) /\ Expired(k) ~> ~timer \/ ~Present(k) \/ ~Expired(k)
================================================================================
