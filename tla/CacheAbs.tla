-------------------------------- MODULE CacheAbs --------------------------------
(***************************************************************************)
(* What a cache promises: a map whose entries vanish the moment they       *)
(* expire.  A vanished entry is only ever seen again when its lifetime is  *)
(* renewed before anybody has missed it.  Nothing is said about when       *)
(* memory is freed.                                                        *)
(***************************************************************************)
EXTENDS Integers

CONSTANTS
  Keys, Values,
  Ttls,       \* lifetimes in seconds
  NoValue,    \* the answer null, and the value of a key that has no entry
  Sec         \* ticks of the clock in a second

VARIABLES
  now,        \* the clock
  entry,      \* what can be seen: a value and its deadline for each key
  lapsed,     \* for each key the value that vanished and nobody has missed
  answer      \* the operation answered last

vars == <<now, entry, lapsed, answer>>

NoEntry == [value |-> NoValue, expiresAt |-> -1]

Has(k) == entry[k].value # NoValue

\* The keys of S are gone for good.
Gone(S) ==
  /\ entry' = [k \in Keys |-> IF k \in S THEN NoEntry ELSE entry[k]]
  /\ lapsed' = [k \in Keys |-> IF k \in S THEN NoValue ELSE lapsed[k]]

Init ==
  /\ now = 0
  /\ entry = [k \in Keys |-> NoEntry]
  /\ lapsed = [k \in Keys |-> NoValue]
  /\ answer = <<"none">>

--------------------------------------------------------------------------------
Put(k, v, ttl) ==
  /\ entry' = [entry EXCEPT ![k] = [value |-> v, expiresAt |-> now + ttl * Sec]]
  /\ lapsed' = [lapsed EXCEPT ![k] = NoValue]
  /\ answer' = <<"set", k>>
  /\ UNCHANGED now

\* get and exists: the value, or whether there is one.  A key that is missed
\* is gone for good.
Look(k) ==
  /\ answer' \in {<<"get", k, entry[k].value>>, <<"exists", k, Has(k)>>}
  /\ IF Has(k) THEN UNCHANGED <<entry, lapsed>> ELSE Gone({k})
  /\ UNCHANGED now

\* The whole seconds left, rounded up; an entry in its last instant has none.
Left(k) ==
  IF Has(k) /\ entry[k].expiresAt > now
  THEN /\ \E n \in 1 .. entry[k].expiresAt :
            /\ answer' = <<"ttl", k, n>>
            /\ (n - 1) * Sec < entry[k].expiresAt - now
            /\ entry[k].expiresAt - now <= n * Sec
       /\ UNCHANGED <<now, entry, lapsed>>
  ELSE answer' = <<"ttl", k, -2>> /\ Gone({k}) /\ UNCHANGED now

List(S) ==
  /\ answer' = <<"keys", {k \in S : Has(k)}>>
  /\ UNCHANGED <<now, entry, lapsed>>

Stats ==
  /\ answer' = <<"stats", {k \in Keys : Has(k) \/ lapsed[k] # NoValue}>>
  /\ UNCHANGED <<now, entry, lapsed>>

Drop(S) == Gone(S) /\ answer' = <<"del", S>> /\ UNCHANGED now

\* expire: the value gets a new lifetime, also when it has just vanished.
Renew(k, ttl) ==
  /\ entry' = [entry EXCEPT ![k] =
       IF Has(k) THEN [@ EXCEPT !.expiresAt = now + ttl * Sec]
       ELSE IF lapsed[k] # NoValue
       THEN [value |-> lapsed[k], expiresAt |-> now + ttl * Sec] ELSE @]
  /\ lapsed' = [lapsed EXCEPT ![k] = NoValue]
  /\ answer' = <<"expire", k>>
  /\ UNCHANGED now

\* Values that have vanished are forgotten in silence.
Forget ==
  /\ lapsed' = [k \in Keys |-> NoValue]
  /\ UNCHANGED <<now, entry, answer>>

Tick ==
  LET due == {k \in Keys : Has(k) /\ entry[k].expiresAt <= now} IN
  /\ now' = now + 1
  /\ entry' = [k \in Keys |-> IF k \in due THEN NoEntry ELSE entry[k]]
  /\ lapsed' = [k \in Keys |-> IF k \in due THEN entry[k].value ELSE lapsed[k]]
  /\ UNCHANGED answer

Next ==
  \/ \E k \in Keys :
       \/ Look(k) \/ Left(k)
       \/ \E ttl \in Ttls : Renew(k, ttl) \/ \E v \in Values : Put(k, v, ttl)
  \/ \E S \in SUBSET Keys : List(S) \/ Drop(S)
  \/ Stats \/ Forget \/ Tick

Spec == Init /\ [][Next]_vars
================================================================================
