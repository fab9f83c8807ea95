--------------------------- MODULE RepositoryProofs ---------------------------
(***************************************************************************)
(* A row does not disappear without a trace in the audit log, what was     *)
(* answered holds, and the trail explains the table, for every number of   *)
(* requests and columns.                                                   *)
(***************************************************************************)
EXTENDS Repository, TLAPS

Actions == {"create", "update", "bulk", "delete", "restore", "hard_delete"}
Statuses == {"none", "live", "deleted"}
RowType == [status : Statuses, cols : [Columns -> Requests \cup {Existing}]]

\* The statements of an operation; all but "remove" leave a row that is there.
Kept == {"find", "findDeleted", "load", "write", "insert", "insertMany", "update",
         "softRemove", "recover", "log"}
Unsaved == Kept \ {"load", "write"}

Types ==
  /\ table \in [Ids -> RowType]
  /\ trail \in Seq([id : Ids, action : Actions])
  /\ state \in [Requests -> {"new", "busy", "ok", "missing", "error"}]
  /\ op \in [Requests -> Operations]
  /\ target \in [Requests -> Ids]
  /\ todo \in [Requests -> Seq(Kept \cup {"remove"})]
  /\ entity \in [Requests -> RowType]
  /\ changes \in [Requests -> [insert : BOOLEAN, status : BOOLEAN, cols : SUBSET Columns]]
  /\ unlogged \subseteq Requests

InTrail(i) == \E n \in DOMAIN trail : trail[n] = [id |-> i, action |-> "hard_delete"]

\* The entry of a removal is in the trail, or has failed.
Logged(r) == InTrail(target[r]) \/ r \in unlogged

\* What is left of a removal: the find, the entry, the removal itself.
EndOfRemoval(s) ==
  /\ Len(s) <= 3
  /\ Len(s) >= 1 => s[Len(s)] = "remove"
  /\ Len(s) >= 2 => s[Len(s) - 1] = "log"
  /\ Len(s) = 3 => s[1] = "find"
Removal(r) ==
  /\ op[r] = HardRemove /\ EndOfRemoval(todo[r])
  /\ Len(todo[r]) = 1 => Logged(r)

\* Only a removal removes, and what is saved was found.
InOrder(r) ==
  /\ todo[r] \in Seq(Kept) \/ Removal(r)
  /\ \/ entity[r].status # "none"
     \/ todo[r] \in Seq(Unsaved \cup {"remove"})
     \/ todo[r] # <<>> /\ Head(todo[r]) = "find"
  /\ r \in unlogged => state[r] # "new"

RepositoryInvariant == Types /\ (\A r \in Requests : InOrder(r)) /\ NoTraceIsLost

--------------------------------------------------------------------------------
\* An operation begins in order.
Orderly(o) ==
  /\ o.logs \in Actions
  /\ o.does \in Seq(Kept) \/ (o = HardRemove /\ EndOfRemoval(o.does) /\ Len(o.does) = 3)
  /\ \/ o.does \in Seq(Unsaved \cup {"remove"})
     \/ o.does # <<>> /\ Head(o.does) = "find"

\* Every operation does.
LEMMA OperationsAreOrderly == \A o \in Operations : Orderly(o)
<1>1. Orderly(Create)
  BY DEF Create, Operation, Orderly, Actions, Log, Kept, Unsaved
<1>2. Orderly(CreateMany)
  BY DEF CreateMany, Operation, Orderly, Actions, Log, Kept, Unsaved
<1>3. Orderly(UpdateMany)
  BY DEF UpdateMany, Operation, Orderly, Actions, Log, Kept, Unsaved
<1>4. Orderly(UpdateOne)
  BY DEF UpdateOne, Operation, Orderly, Actions, Find, Save, Log, Kept, Unsaved
<1>5. Orderly(Remove)
  BY DEF Remove, Operation, Orderly, Actions, Find, Log, Kept, Unsaved
<1>6. Orderly(Restore)
  BY DEF Restore, Operation, Orderly, Actions, Log, Kept, Unsaved
<1>7. Orderly(HardRemove)
  <2> DEFINE s == Find \o Log
  <2>1. s \in Seq(Unsaved) /\ Len(s) = 2 /\ s[1] = "find" /\ s[2] = "log"
    BY DEF Find, Log, Unsaved, Kept
  <2> HIDE DEF s
  <2> DEFINE t == s \o <<"remove">>
  <2>2. /\ t \in Seq(Unsaved \cup {"remove"}) /\ Len(t) = 3
        /\ t[1] = "find" /\ t[2] = "log" /\ t[3] = "remove"
    <3> DEFINE X == Unsaved \cup {"remove"}
    <3> DEFINE u == <<"remove">>
    <3>1. s \in Seq(X) /\ u \in Seq(X) /\ Len(u) = 1 /\ u[1] = "remove"
      BY <2>1
    <3> HIDE DEF X, u
    <3>2. t = s \o u
      BY DEF u
    <3>3. /\ t \in Seq(X) /\ Len(t) = Len(s) + Len(u)
          /\ \A i \in 1 .. Len(s) : t[i] = s[i]
          /\ \A i \in 1 .. Len(u) : t[Len(s) + i] = u[i]
      BY <3>1, <3>2
    <3>. QED
      BY <2>1, <3>1, <3>3 DEF X
  <2> HIDE DEF t
  <2>3. HardRemove.does = t /\ HardRemove.logs = "hard_delete"
    BY DEF HardRemove, Operation, s, t
  <2>4. EndOfRemoval(t)
    BY <2>2 DEF EndOfRemoval
  <2>. QED
    BY <2>2, <2>3, <2>4 DEF Orderly, Actions
<1>8. Orderly(CreateProduct)
  BY DEF CreateProduct, Operation, Orderly, Actions, Kept, Unsaved
<1>9. Orderly(UpdateProduct)
  BY DEF UpdateProduct, Operation, Orderly, Actions, Find, Save, Kept, Unsaved
<1>10. Orderly(RemoveProduct)
  BY DEF RemoveProduct, Operation, Orderly, Actions, Find, Kept, Unsaved
<1>11. Orderly(UpdateAccountDetails)
  BY DEF UpdateAccountDetails, Operation, Orderly, Actions, Find, Save, Kept, Unsaved
<1>12. Orderly(PauseNotifications)
  <2>1. PauseNotifications.logs = "update" /\ PauseNotifications.does = Find \o Find \o Save
    BY DEF PauseNotifications, UpdateAccountDetails, Operation
  <2>. QED
    BY <2>1 DEF Orderly, Actions, Find, Save, Kept, Unsaved
<1>. QED
  BY <1>1, <1>2, <1>3, <1>4, <1>5, <1>6, <1>7, <1>8, <1>9, <1>10, <1>11, <1>12
     DEF Operations, CreateRole, UpdateRole, RemoveRole, CreateAccountForUser, CreateLog,
         ResumeNotifications

--------------------------------------------------------------------------------
\* A request goes on, and the statements that are left are in order.
LEMMA AdvanceFacts ==
  ASSUME Types, NEW r \in Requests, NEW x, At(r, x), Advance(r)
  PROVE  /\ state' \in [Requests -> {"new", "busy", "ok", "missing", "error"}]
         /\ todo' \in [Requests -> Seq(Kept \cup {"remove"})]
         /\ state'[r] # "new" /\ state[r] # "new"
         /\ todo[r] # <<>> /\ Head(todo[r]) = x /\ todo'[r] = Tail(todo[r])
         /\ \A q \in Requests \ {r} : state'[q] = state[q] /\ todo'[q] = todo[q]
         /\ UNCHANGED <<op, target>>
<1>1. /\ todo[r] # <<>> /\ Head(todo[r]) = x /\ state[r] = "busy"
      /\ todo' = [todo EXCEPT ![r] = Tail(@)]
      /\ state' = [state EXCEPT ![r] = IF Len(todo[r]) = 1 THEN "ok" ELSE "busy"]
      /\ UNCHANGED <<op, target>>
  BY DEF At, Advance
<1>2. Tail(todo[r]) \in Seq(Kept \cup {"remove"})
  BY <1>1 DEF Types
<1>. QED
  BY <1>1, <1>2 DEF Types

\* A request is answered.
LEMMA GiveFacts ==
  ASSUME Types, NEW r \in Requests, NEW a \in {"ok", "missing", "error"}, Give(r, a)
  PROVE  /\ state' \in [Requests -> {"new", "busy", "ok", "missing", "error"}]
         /\ todo' \in [Requests -> Seq(Kept \cup {"remove"})]
         /\ state'[r] # "new" /\ todo'[r] = <<>>
         /\ \A q \in Requests \ {r} : state'[q] = state[q] /\ todo'[q] = todo[q]
         /\ UNCHANGED <<op, target>>
BY DEF Give, Types

\* The tail of what was in order.
LEMMA TailFacts ==
  ASSUME NEW S, NEW s \in Seq(S), s # <<>>
  PROVE  /\ Len(Tail(s)) = Len(s) - 1
         /\ \A T : s \in Seq(T) => Tail(s) \in Seq(T) /\ Head(s) \in T
         /\ EndOfRemoval(s) => /\ EndOfRemoval(Tail(s))
                               /\ Len(s) = 3 => Head(s) = "find"
                               /\ Len(s) = 2 => Head(s) = "log"
                               /\ Len(s) = 1 => Head(s) = "remove"
<1>1. /\ Len(s) \in Nat /\ Len(s) >= 1 /\ Len(Tail(s)) = Len(s) - 1
      /\ \A i \in 1 .. Len(s) - 1 : Tail(s)[i] = s[i + 1]
      /\ Head(s) = s[1]
  OBVIOUS
<1>2. ASSUME NEW T, s \in Seq(T) PROVE Tail(s) \in Seq(T) /\ Head(s) \in T
  BY <1>2
<1>3. ASSUME EndOfRemoval(s) PROVE EndOfRemoval(Tail(s))
  <2> DEFINE t == Tail(s)
  <2> HIDE DEF t
  <2>1. Len(t) = Len(s) - 1 /\ \A i \in 1 .. Len(s) - 1 : t[i] = s[i + 1]
    BY <1>1 DEF t
  <2>2. Len(s) \in 1 .. 3
    BY <1>1, <1>3 DEF EndOfRemoval
  <2>3. Len(s) >= 2 => t[Len(t)] = "remove"
    <3>1. Len(s) >= 2 => t[Len(s) - 1] = s[Len(s)]
      BY <2>1, <2>2
    <3>. QED
      BY <1>3, <2>1, <2>2, <3>1 DEF EndOfRemoval
  <2>4. Len(s) = 3 => t[1] = "log" /\ Len(t) = 2
    <3>1. Len(s) = 3 => s[2] = "log"
      BY <1>3 DEF EndOfRemoval
    <3>. QED
      BY <2>1, <3>1
  <2>5. EndOfRemoval(t)
    BY <2>1, <2>2, <2>3, <2>4 DEF EndOfRemoval
  <2>. QED
    BY <2>5 DEF t
<1>4. EndOfRemoval(s) => /\ Len(s) = 3 => Head(s) = "find"
                         /\ Len(s) = 2 => Head(s) = "log"
                         /\ Len(s) = 1 => Head(s) = "remove"
  BY <1>1 DEF EndOfRemoval
<1>. QED
  BY <1>1, <1>2, <1>3, <1>4

--------------------------------------------------------------------------------
\* What no step takes back: entries, failed ones too.
Grow(r) ==
  /\ \A i \in Ids : InTrail(i) => InTrail(i)'
  /\ unlogged \subseteq unlogged' /\ unlogged' \subseteq unlogged \cup {r}
  /\ UNCHANGED <<op, target>>

\* A request that advances stays in order, when its entry is written as the last
\* thing before a removal and a find finds.
LEMMA AdvanceInOrder ==
  ASSUME RepositoryInvariant, NEW r \in Requests, NEW x, At(r, x), Advance(r), Grow(r),
         x = "log" /\ op[r] = HardRemove => Logged(r)',
         entity'[r] = entity[r] \/ entity'[r].status # "none",
         x = "find" => entity'[r].status # "none"
  PROVE  InOrder(r)'
<1>1. /\ state'[r] # "new" /\ state[r] # "new"
      /\ todo[r] # <<>> /\ Head(todo[r]) = x /\ todo'[r] = Tail(todo[r])
      /\ InOrder(r) /\ todo[r] \in Seq(Kept \cup {"remove"})
      /\ op'[r] = op[r] /\ target'[r] = target[r] /\ target[r] \in Ids
  BY AdvanceFacts DEF RepositoryInvariant, Types
<1>2. todo'[r] \in Seq(Kept) \/ Removal(r)'
  <2>1. CASE todo[r] \in Seq(Kept)
    BY <1>1, <2>1, TailFacts
  <2>2. CASE Removal(r)
    <3>1. EndOfRemoval(Tail(todo[r])) /\ Len(Tail(todo[r])) = Len(todo[r]) - 1
          /\ (Len(todo[r]) = 2 => x = "log") /\ op[r] = HardRemove
      BY <1>1, <2>2, TailFacts DEF Removal
    <3>2. Len(Tail(todo[r])) = 1 => Logged(r)'
      BY <1>1, <3>1
    <3>. QED
      BY <1>1, <3>1, <3>2 DEF Removal
  <2>. QED
    BY <1>1, <2>1, <2>2 DEF InOrder
<1>3. \/ entity'[r].status # "none"
      \/ todo'[r] \in Seq(Unsaved \cup {"remove"})
  BY <1>1, TailFacts DEF InOrder
<1>. QED
  BY <1>1, <1>2, <1>3 DEF InOrder

\* A request that is answered is in order.
LEMMA GiveInOrder ==
  ASSUME RepositoryInvariant, NEW r \in Requests, NEW a \in {"ok", "missing", "error"}, Give(r, a)
  PROVE  InOrder(r)'
BY GiveFacts DEF InOrder, RepositoryInvariant

\* A step of one request keeps the others in order, and the trace.
LEMMA OneRequest ==
  ASSUME RepositoryInvariant, NEW r \in Requests, Types', Grow(r), InOrder(r)', state'[r] # "new",
         \A q \in Requests \ {r} : /\ state'[q] = state[q] /\ todo'[q] = todo[q]
                                   /\ entity'[q] = entity[q],
         Exists(Existing)' \/ (~Exists(Existing)) \/ InTrail(Existing)'
           \/ \E q \in unlogged' : op[q] = HardRemove
  PROVE  RepositoryInvariant'
<1>1. ASSUME NEW q \in Requests \ {r} PROVE InOrder(q)'
  <2>1. InOrder(q) /\ target[q] \in Ids /\ op'[q] = op[q] /\ target'[q] = target[q]
        /\ state'[q] = state[q] /\ todo'[q] = todo[q] /\ entity'[q] = entity[q]
    BY <1>1 DEF RepositoryInvariant, Types, Grow
  <2>2. Logged(q) => Logged(q)'
    BY <2>1 DEF Logged, Grow
  <2>3. Removal(q) => Removal(q)'
    BY <2>1, <2>2 DEF Removal
  <2>4. q \in unlogged' => q \in unlogged
    BY <1>1 DEF Grow
  <2>. QED
    BY <2>1, <2>3, <2>4 DEF InOrder
<1>2. NoTraceIsLost'
  <2>1. Existing \in Ids
    BY DEF Ids
  <2>2. ASSUME ~Exists(Existing)
        PROVE  InTrail(Existing)' \/ \E q \in unlogged' : op'[q] = HardRemove
    BY <2>1, <2>2 DEF RepositoryInvariant, NoTraceIsLost, InTrail, Grow
  <2>3. Exists(Existing)' \/ InTrail(Existing)' \/ \E q \in unlogged' : op'[q] = HardRemove
    BY <2>2 DEF Grow
  <2>. QED
    BY <2>3 DEF NoTraceIsLost, InTrail
<1>. QED
  BY <1>1, <1>2 DEF RepositoryInvariant

--------------------------------------------------------------------------------
\* At first one row is there and nobody has come.
LEMMA RepositoryInit == Init => RepositoryInvariant
<1>. SUFFICES ASSUME Init PROVE RepositoryInvariant
  OBVIOUS
<1>1. Row("live", Existing) \in RowType /\ NoRow \in RowType /\ Existing \in Ids
  BY DEF Row, NoRow, RowType, Statuses, Ids
<1>2. NoChange \in [insert : BOOLEAN, status : BOOLEAN, cols : SUBSET Columns]
  BY DEF NoChange
<1>3. Types
  BY <1>1, <1>2 DEF Init, Types, Operations
<1>4. ASSUME NEW r \in Requests PROVE InOrder(r)
  <2>1. todo[r] = <<>> /\ r \notin unlogged
    BY DEF Init
  <2>2. <<>> \in Seq(Kept) /\ <<>> \in Seq(Unsaved \cup {"remove"})
    OBVIOUS
  <2>. QED
    BY <2>1, <2>2 DEF InOrder
<1>5. Exists(Existing)
  BY <1>1 DEF Init, Exists, Row
<1>. QED
  BY <1>3, <1>4, <1>5 DEF RepositoryInvariant, NoTraceIsLost

\* A request arrives with the statements of its operation.
LEMMA InvCall ==
  ASSUME RepositoryInvariant, NEW r \in Requests, Call(r)
  PROVE  RepositoryInvariant'
<1>1. /\ state[r] = "new" /\ state' = [state EXCEPT ![r] = "busy"]
      /\ UNCHANGED <<table, trail, entity, changes, unlogged>>
  BY DEF Call
<1>2. PICK o \in Operations, i \in Ids :
        /\ op' = [op EXCEPT ![r] = o]
        /\ todo' = [todo EXCEPT ![r] = o.does]
        /\ target' = [target EXCEPT ![r] = i]
  <2>1. <<r, 1>> \in Ids /\ Existing \in Ids
    BY DEF Ids
  <2>. QED
    BY <2>1 DEF Call
<1>3. Orderly(o) /\ o.does \in Seq(Kept \cup {"remove"})
  <2>1. Orderly(o)
    BY OperationsAreOrderly
  <2>2. o.does \in Seq(Kept) => o.does \in Seq(Kept \cup {"remove"})
    OBVIOUS
  <2>3. HardRemove.does \in Seq(Kept \cup {"remove"})
    BY DEF HardRemove, Operation, Find, Log, Kept
  <2>. QED
    BY <2>1, <2>2, <2>3 DEF Orderly
<1>4. Types'
  BY <1>1, <1>2, <1>3 DEF RepositoryInvariant, Types
<1>5. InOrder(r)'
  <2>1. r \notin unlogged'
    BY <1>1 DEF RepositoryInvariant, InOrder
  <2>2. todo'[r] = o.does /\ op'[r] = o
    BY <1>2 DEF RepositoryInvariant, Types
  <2>3. todo'[r] \in Seq(Kept) \/ Removal(r)'
    <3>1. CASE o.does \in Seq(Kept)
      BY <2>2, <3>1
    <3>2. CASE o = HardRemove /\ EndOfRemoval(o.does) /\ Len(o.does) = 3
      <4>1. EndOfRemoval(todo'[r]) /\ Len(todo'[r]) # 1 /\ op'[r] = HardRemove
        BY <2>2, <3>2
      <4>. QED
        BY <4>1 DEF Removal
    <3>. QED
      BY <1>3, <3>1, <3>2 DEF Orderly
  <2>. QED
    BY <1>3, <2>1, <2>2, <2>3 DEF InOrder, Orderly
<1>6. ASSUME NEW q \in Requests \ {r}
      PROVE  InOrder(q)' /\ op'[q] = op[q] /\ target'[q] = target[q] /\ state'[q] = state[q]
  <2>1. op'[q] = op[q] /\ target'[q] = target[q] /\ state'[q] = state[q] /\ todo'[q] = todo[q]
    BY <1>1, <1>2 DEF RepositoryInvariant, Types
  <2>. QED
    BY <1>1, <2>1 DEF RepositoryInvariant, InOrder, Removal, Logged, InTrail
<1>7. NoTraceIsLost'
  <2>1. r \notin unlogged
    BY <1>1 DEF RepositoryInvariant, InOrder
  <2>2. \A q \in unlogged : op'[q] = op[q]
    BY <1>6, <2>1 DEF RepositoryInvariant, Types
  <2>. QED
    BY <1>1, <2>2 DEF RepositoryInvariant, NoTraceIsLost, Exists
<1>. QED
  BY <1>4, <1>5, <1>6, <1>7 DEF RepositoryInvariant

\* A find keeps the row it has found.
LEMMA InvLookup ==
  ASSUME RepositoryInvariant, NEW r \in Requests, FindOne(r) \/ FindOneWithDeletedToo(r)
  PROVE  RepositoryInvariant'
<1>1. PICK x \in {"find", "findDeleted"}, found \in BOOLEAN :
        /\ At(r, x) /\ Lookup(r, found)
        /\ found => Exists(target[r])
  <2>1. CASE FindOne(r)
    <3>1. At(r, "find") /\ Lookup(r, table[target[r]].status = "live")
      BY <2>1 DEF FindOne
    <3>2. CASE table[target[r]].status = "live"
      BY <3>1, <3>2 DEF Exists, Lookup
    <3>3. CASE table[target[r]].status # "live"
      BY <3>1, <3>3 DEF Lookup
    <3>. QED
      BY <3>2, <3>3
  <2>2. CASE FindOneWithDeletedToo(r)
    <3>1. At(r, "findDeleted") /\ Lookup(r, Exists(target[r]))
      BY <2>2 DEF FindOneWithDeletedToo
    <3>2. CASE Exists(target[r])
      BY <3>1, <3>2 DEF Lookup
    <3>3. CASE ~Exists(target[r])
      BY <3>1, <3>3 DEF Lookup
    <3>. QED
      BY <3>2, <3>3
  <2>. QED
    BY <2>1, <2>2
<1>2. UNCHANGED <<table, trail, changes, unlogged>> /\ target[r] \in Ids /\ Types
  BY <1>1 DEF Lookup, RepositoryInvariant, Types
<1>3. CASE found
  <2>1. Advance(r) /\ entity' = [entity EXCEPT ![r] = table[target[r]]]
    BY <1>1, <1>3 DEF Lookup
  <2>2. /\ entity' \in [Requests -> RowType] /\ entity'[r].status # "none"
        /\ \A q \in Requests \ {r} : entity'[q] = entity[q]
    BY <1>1, <1>2, <1>3, <2>1 DEF Types, Exists
  <2>3. Grow(r)
    BY <1>1, <1>2, <2>1, AdvanceFacts DEF Grow, InTrail
  <2>4. Types'
    BY <1>1, <1>2, <2>1, <2>2, AdvanceFacts DEF Types
  <2>5. InOrder(r)'
    BY <1>1, <2>1, <2>2, <2>3, AdvanceInOrder
  <2>6. Exists(Existing)' = Exists(Existing)
    BY <1>2 DEF Exists
  <2>7. /\ state'[r] # "new"
        /\ \A q \in Requests \ {r} : state'[q] = state[q] /\ todo'[q] = todo[q]
    BY <1>1, <1>2, <2>1, AdvanceFacts
  <2>. QED
    BY <2>2, <2>3, <2>4, <2>5, <2>6, <2>7, OneRequest
<1>4. CASE ~found
  <2>1. Give(r, "missing") /\ UNCHANGED entity
    BY <1>1, <1>4 DEF Lookup
  <2>3. Grow(r)
    BY <1>2, <2>1, GiveFacts DEF Grow, InTrail
  <2>4. Types'
    BY <1>2, <2>1, GiveFacts DEF Types
  <2>5. InOrder(r)'
    BY <2>1, GiveInOrder
  <2>6. Exists(Existing)' = Exists(Existing)
    BY <1>2 DEF Exists
  <2>7. /\ state'[r] # "new"
        /\ \A q \in Requests \ {r} : state'[q] = state[q] /\ todo'[q] = todo[q]
    BY <1>2, <2>1, GiveFacts
  <2>. QED
    BY <2>1, <2>3, <2>4, <2>5, <2>6, <2>7, OneRequest
<1>. QED
  BY <1>3, <1>4

\* A statement that goes on to the next one, and what it may do to the table.
LEMMA InvStatement ==
  ASSUME RepositoryInvariant, NEW r \in Requests,
         NEW x \in {"load", "write", "insert", "insertMany", "update", "softRemove", "recover", "remove"},
         At(r, x), Advance(r), UNCHANGED <<trail, entity, unlogged>>,
         table' \in [Ids -> RowType],
         changes' \in [Requests -> [insert : BOOLEAN, status : BOOLEAN, cols : SUBSET Columns]],
         Exists(Existing) => Exists(Existing)' \/ (x = "remove" /\ target[r] = Existing)
  PROVE  RepositoryInvariant'
<1>. Types
  BY DEF RepositoryInvariant
<1>1. Grow(r)
  BY AdvanceFacts DEF Grow, InTrail
<1>2. Types'
  BY AdvanceFacts DEF Types
<1>3. InOrder(r)'
  BY <1>1, AdvanceInOrder
<1>4. /\ state'[r] # "new"
      /\ \A q \in Requests \ {r} : state'[q] = state[q] /\ todo'[q] = todo[q]
  BY AdvanceFacts
<1>5. ASSUME x = "remove", target[r] = Existing
      PROVE  InTrail(Existing)' \/ \E q \in unlogged' : op[q] = HardRemove
  <2>1. todo[r] # <<>> /\ Head(todo[r]) = "remove" /\ todo[r] \in Seq(Kept \cup {"remove"})
    BY <1>5, AdvanceFacts DEF Types
  <2>2. todo[r] \notin Seq(Kept)
    <3>1. "remove" \notin Kept
      BY DEF Kept
    <3>. QED
      BY <2>1, <3>1, TailFacts
  <2>3. Removal(r)
    BY <2>2 DEF RepositoryInvariant, InOrder
  <2>4. Len(todo[r]) = 1
    <3>1. Len(todo[r]) = 1 \/ Len(todo[r]) = 2 \/ Len(todo[r]) = 3
      <4> DEFINE n == Len(todo[r])
      <4>1. n \in Nat /\ n # 0
        BY <2>1
      <4>2. n <= 3
        BY <2>3 DEF Removal, EndOfRemoval
      <4> HIDE DEF n
      <4>3. n = 1 \/ n = 2 \/ n = 3
        BY <4>1, <4>2
      <4>. QED
        BY <4>3 DEF n
    <3>. QED
      BY <2>1, <2>3, <3>1, TailFacts DEF Removal
  <2>5. Logged(r) /\ op[r] = HardRemove
    BY <2>3, <2>4 DEF Removal
  <2>. QED
    BY <1>5, <2>5 DEF Logged, InTrail
<1>. QED
  BY <1>1, <1>2, <1>3, <1>4, <1>5, OneRequest

\* A statement that fails, or ends its request, and leaves the table alone or
\* its rows there.
LEMMA InvGive ==
  ASSUME RepositoryInvariant, NEW r \in Requests, NEW a \in {"ok", "missing", "error"}, Give(r, a),
         UNCHANGED <<trail, entity, changes, unlogged>>,
         table' \in [Ids -> RowType],
         Exists(Existing) => Exists(Existing)'
  PROVE  RepositoryInvariant'
<1>. Types
  BY DEF RepositoryInvariant
<1>1. Grow(r)
  BY GiveFacts DEF Grow, InTrail
<1>2. Types'
  BY GiveFacts DEF Types
<1>3. InOrder(r)'
  BY GiveInOrder
<1>4. /\ state'[r] # "new"
      /\ \A q \in Requests \ {r} : state'[q] = state[q] /\ todo'[q] = todo[q]
  BY GiveFacts
<1>. QED
  BY <1>1, <1>2, <1>3, <1>4, OneRequest

\* The SELECT of a save.
LEMMA InvSaveLoad ==
  ASSUME RepositoryInvariant, NEW r \in Requests, SaveLoad(r)
  PROVE  RepositoryInvariant'
<1>. DEFINE d == [insert |-> ~Exists(target[r]),
                  status |-> table[target[r]].status # entity[r].status,
                  cols |-> {c \in Columns : table[target[r]].cols[c] # Merged(r).cols[c]}]
<1>1. /\ At(r, "load") /\ Advance(r) /\ UNCHANGED <<table, trail, entity, unlogged>>
      /\ changes' = [changes EXCEPT ![r] = d]
  BY DEF SaveLoad
<1>2. d \in [insert : BOOLEAN, status : BOOLEAN, cols : SUBSET Columns]
  OBVIOUS
<1>. HIDE DEF d
<1>3. changes' \in [Requests -> [insert : BOOLEAN, status : BOOLEAN, cols : SUBSET Columns]]
  BY <1>1, <1>2 DEF RepositoryInvariant, Types
<1>4. table' \in [Ids -> RowType] /\ Exists(Existing)' = Exists(Existing)
  BY <1>1 DEF RepositoryInvariant, Types, Exists
<1>. QED
  BY <1>1, <1>3, <1>4, InvStatement

\* The columns of some rows, and their place in the table.
LEMMA MergedFacts ==
  ASSUME RepositoryInvariant, NEW r \in Requests
  PROVE  Merged(r) \in RowType /\ Merged(r).status = entity[r].status
<1>1. entity[r] \in RowType
  BY DEF RepositoryInvariant, Types
<1>. DEFINE c1 == [c \in Columns |-> IF c \in op[r].sets THEN r ELSE entity[r].cols[c]]
<1>2. c1 \in [Columns -> Requests \cup {Existing}]
  BY <1>1 DEF RowType
<1>3. Merged(r) = [entity[r] EXCEPT !.cols = c1]
  BY DEF Merged
<1>. HIDE DEF c1
<1>. QED
  BY <1>1, <1>2, <1>3 DEF RowType

\* The write of a save: an INSERT, an UPDATE of what differs, or nothing.
LEMMA InvSaveWrite ==
  ASSUME RepositoryInvariant, NEW r \in Requests, SaveWrite(r)
  PROVE  RepositoryInvariant'
<1>. DEFINE i == target[r]
            d == changes[r]
            updated == [status |-> IF d.status THEN Merged(r).status ELSE table[i].status,
                        cols |-> [c \in Columns |->
                                    IF c \in d.cols THEN Merged(r).cols[c] ELSE table[i].cols[c]]]
<1>. USE DEF RepositoryInvariant
<1>1. /\ At(r, "write") /\ UNCHANGED <<trail, entity, changes, unlogged>>
      /\ i \in Ids /\ table \in [Ids -> RowType]
      /\ changes' \in [Requests -> [insert : BOOLEAN, status : BOOLEAN, cols : SUBSET Columns]]
  BY DEF SaveWrite, Types
<1>2. Merged(r) \in RowType /\ Merged(r).status # "none"
  <2>1. todo[r] # <<>> /\ Head(todo[r]) = "write" /\ todo[r] \in Seq(Kept \cup {"remove"})
    BY <1>1 DEF At, Types
  <2>2. "write" \notin Unsaved \cup {"remove"}
    BY DEF Unsaved
  <2>3. todo[r] \notin Seq(Unsaved \cup {"remove"})
    BY <2>1, <2>2, TailFacts
  <2>4. entity[r].status # "none"
    BY <2>1, <2>3 DEF InOrder
  <2>. QED
    BY <2>4, MergedFacts
<1>3. updated \in RowType /\ (Exists(i) => updated.status # "none")
  <2>1. table[i] \in RowType
    BY <1>1
  <2>. DEFINE st == IF d.status THEN Merged(r).status ELSE table[i].status
              cs == [c \in Columns |-> IF c \in d.cols THEN Merged(r).cols[c] ELSE table[i].cols[c]]
  <2>2. st \in Statuses /\ (Exists(i) => st # "none")
    BY <1>2, <2>1 DEF RowType, Exists
  <2>3. cs \in [Columns -> Requests \cup {Existing}]
    BY <1>2, <2>1 DEF RowType
  <2>. HIDE DEF st, cs
  <2>4. updated = [status |-> st, cols |-> cs]
    BY DEF st, cs
  <2>. QED
    BY <2>2, <2>3, <2>4 DEF RowType
<1>4. CASE d.insert /\ ~Exists(i) /\ table' = [table EXCEPT ![i] = Merged(r)] /\ Advance(r)
  <2>1. table' \in [Ids -> RowType] /\ (Exists(Existing) => Exists(Existing)')
    BY <1>1, <1>2, <1>4 DEF Exists
  <2>. QED
    BY <1>1, <1>4, <2>1, InvStatement
<1>5. CASE d.insert /\ Exists(i) /\ UNCHANGED table /\ Give(r, "error")
  <2>1. table' \in [Ids -> RowType] /\ (Exists(Existing) => Exists(Existing)')
    BY <1>1, <1>5 DEF Exists
  <2>. QED
    BY <1>1, <1>5, <2>1, InvGive
<1>6. CASE /\ ~d.insert
           /\ table' = (IF Exists(i) THEN [table EXCEPT ![i] = updated] ELSE table)
           /\ Advance(r)
  <2>. HIDE DEF updated
  <2>1. table' \in [Ids -> RowType] /\ (Exists(Existing) => Exists(Existing)')
    BY <1>1, <1>3, <1>6 DEF Exists
  <2>. QED
    BY <1>1, <1>6, <2>1, InvStatement
<1>. QED
  BY <1>4, <1>5, <1>6 DEF SaveWrite

\* The INSERT of one row or two.
LEMMA InvInsert ==
  ASSUME RepositoryInvariant, NEW r \in Requests, Insert(r)
  PROVE  RepositoryInvariant'
<1>. USE DEF RepositoryInvariant
<1>1. /\ Advance(r) /\ UNCHANGED <<trail, entity, changes, unlogged>>
      /\ table \in [Ids -> RowType]
      /\ changes' \in [Requests -> [insert : BOOLEAN, status : BOOLEAN, cols : SUBSET Columns]]
  BY DEF Insert, Types
<1>2. Row("live", r) \in RowType /\ Row("live", r).status = "live" /\ <<r, 1>> \in Ids
  BY DEF Row, RowType, Statuses, Ids
<1>3. CASE At(r, "insert") /\ table' = [table EXCEPT ![<<r, 1>>] = Row("live", r)]
  <2>1. table' \in [Ids -> RowType] /\ (Exists(Existing) => Exists(Existing)')
    BY <1>1, <1>2, <1>3 DEF Exists
  <2>. QED
    BY <1>1, <1>3, <2>1, InvStatement
<1>4. CASE /\ At(r, "insertMany")
           /\ table' = [i \in Ids |-> IF i \in {<<r, 1>>, <<r, 2>>} THEN Row("live", r) ELSE table[i]]
  <2>1. table' \in [Ids -> RowType]
    BY <1>1, <1>2, <1>4
  <2>2. Exists(Existing) => Exists(Existing)'
    <3>1. Existing \in Ids
      BY DEF Ids
    <3>. QED
      BY <1>2, <1>4, <3>1 DEF Exists
  <2>. QED
    BY <1>1, <1>4, <2>1, <2>2, InvStatement
<1>. QED
  BY <1>3, <1>4 DEF Insert

\* An UPDATE of any rows.
LEMMA InvUpdate ==
  ASSUME RepositoryInvariant, NEW r \in Requests, Update(r)
  PROVE  RepositoryInvariant'
<1>. USE DEF RepositoryInvariant
<1>1. /\ At(r, "update") /\ UNCHANGED <<trail, entity, changes, unlogged>>
      /\ table \in [Ids -> RowType]
      /\ changes' \in [Requests -> [insert : BOOLEAN, status : BOOLEAN, cols : SUBSET Columns]]
  BY DEF Update, Types
<1>. DEFINE new(i) == [table[i] EXCEPT !.cols = [c \in Columns |-> IF c \in op[r].sets THEN r ELSE @[c]]]
<1>2. PICK S \in SUBSET {i \in Ids : Exists(i)} :
        /\ table' = [i \in Ids |-> IF i \in S THEN new(i) ELSE table[i]]
        /\ IF S = {} THEN Give(r, "ok") ELSE Advance(r)
  BY DEF Update
<1>3. \A i \in Ids : new(i) \in RowType /\ new(i).status = table[i].status
  <2>1. ASSUME NEW i \in Ids PROVE new(i) \in RowType /\ new(i).status = table[i].status
    <3>. DEFINE cs == [c \in Columns |-> IF c \in op[r].sets THEN r ELSE table[i].cols[c]]
    <3>1. table[i] \in RowType
      BY <1>1
    <3>2. cs \in [Columns -> Requests \cup {Existing}]
      BY <3>1 DEF RowType
    <3>3. new(i) = [table[i] EXCEPT !.cols = cs]
      OBVIOUS
    <3>. HIDE DEF cs, new
    <3>. QED
      BY <3>1, <3>2, <3>3 DEF RowType
  <2>. QED
    BY <2>1
<1>. HIDE DEF new
<1>4. table' \in [Ids -> RowType] /\ (Exists(Existing) => Exists(Existing)')
  <2>1. Existing \in Ids
    BY DEF Ids
  <2>. QED
    BY <1>1, <1>2, <1>3, <2>1 DEF Exists
<1>5. CASE S = {}
  <2>1. Give(r, "ok")
    BY <1>2, <1>5
  <2>. QED
    BY <1>1, <1>4, <2>1, InvGive
<1>6. CASE S # {}
  <2>1. Advance(r)
    BY <1>2, <1>6
  <2>. QED
    BY <1>1, <1>4, <2>1, InvStatement
<1>. QED
  BY <1>5, <1>6

\* Removals, soft and hard, and their undoing.
LEMMA InvSetStatus ==
  ASSUME RepositoryInvariant, NEW r \in Requests, NEW x, NEW status,
         <<x, status>> \in {<<"softRemove", "deleted">>, <<"recover", "live">>, <<"remove", "none">>},
         SetStatus(r, x, status)
  PROVE  RepositoryInvariant'
<1>. USE DEF RepositoryInvariant
<1>0. \/ x = "softRemove" /\ status = "deleted"
      \/ x = "recover" /\ status = "live"
      \/ x = "remove" /\ status = "none"
  OBVIOUS
<1>1. /\ At(r, x) /\ Advance(r) /\ UNCHANGED <<trail, entity, changes, unlogged>>
      /\ table \in [Ids -> RowType] /\ target[r] \in Ids
      /\ changes' \in [Requests -> [insert : BOOLEAN, status : BOOLEAN, cols : SUBSET Columns]]
  BY DEF SetStatus, Types
<1>. DEFINE new == IF status = "none" THEN NoRow ELSE [table[target[r]] EXCEPT !.status = status]
<1>2. table' = IF Exists(target[r]) THEN [table EXCEPT ![target[r]] = new] ELSE table
  BY DEF SetStatus
<1>3. new \in RowType /\ (x # "remove" => new.status # "none")
  <2>1. NoRow \in RowType
    BY DEF NoRow, Row, RowType, Statuses
  <2>2. table[target[r]] \in RowType /\ status \in Statuses
    BY <1>0, <1>1 DEF Statuses
  <2>. QED
    BY <1>0, <2>1, <2>2 DEF RowType
<1>. HIDE DEF new
<1>4. /\ table' \in [Ids -> RowType]
      /\ Exists(Existing) => Exists(Existing)' \/ (x = "remove" /\ target[r] = Existing)
  BY <1>1, <1>2, <1>3 DEF Exists
<1>. QED
  BY <1>0, <1>1, <1>4, InvStatement

\* An entry is added, or is not.
LEMMA InvLogAudit ==
  ASSUME RepositoryInvariant, NEW r \in Requests, LogAudit(r)
  PROVE  RepositoryInvariant'
<1>. Types
  BY DEF RepositoryInvariant
<1>1. /\ At(r, "log") /\ Advance(r) /\ UNCHANGED <<table, entity, changes>>
      /\ target[r] \in Ids /\ op[r] \in Operations /\ unlogged \subseteq Requests
      /\ trail \in Seq([id : Ids, action : Actions])
  BY DEF LogAudit, Types
<1>2. /\ op' = op /\ target' = target /\ state'[r] # "new"
      /\ \A q \in Requests \ {r} : state'[q] = state[q] /\ todo'[q] = todo[q]
  BY <1>1, AdvanceFacts
<1>3. CASE UNCHANGED trail /\ unlogged' = unlogged \cup {r}
  <2>1. Grow(r)
    BY <1>2, <1>3 DEF Grow, InTrail
  <2>2. Types'
    BY <1>1, <1>3, AdvanceFacts DEF Types
  <2>3. Logged(r)'
    BY <1>3 DEF Logged
  <2>4. InOrder(r)'
    BY <1>1, <2>1, <2>3, AdvanceInOrder
  <2>5. Exists(Existing)' = Exists(Existing)
    BY <1>1 DEF Exists
  <2>. QED
    BY <1>1, <1>2, <2>1, <2>2, <2>4, <2>5, OneRequest
<1>4. CASE /\ op[r].logs # "bulk"
           /\ trail' = Append(trail, [id |-> target[r], action |-> op[r].logs])
           /\ UNCHANGED unlogged
  <2>. DEFINE e == [id |-> target[r], action |-> op[r].logs]
  <2>1. e \in [id : Ids, action : Actions]
    <3>1. op[r].logs \in Actions
      BY <1>1, OperationsAreOrderly DEF Orderly
    <3>. QED
      BY <1>1, <3>1
  <2>2. op[r] = HardRemove => e = [id |-> target[r], action |-> "hard_delete"]
    BY DEF HardRemove, Operation
  <2>3. trail' = Append(trail, e)
    BY <1>4
  <2>. HIDE DEF e
  <2>4. /\ trail' \in Seq([id : Ids, action : Actions])
        /\ Len(trail') = Len(trail) + 1 /\ trail'[Len(trail) + 1] = e
        /\ \A n \in 1 .. Len(trail) : trail'[n] = trail[n]
        /\ DOMAIN trail = 1 .. Len(trail) /\ DOMAIN trail' = 1 .. Len(trail')
        /\ Len(trail) \in Nat
    BY <1>1, <2>1, <2>3
  <2>5. \A i \in Ids : InTrail(i) => InTrail(i)'
    BY <2>4 DEF InTrail
  <2>6. Grow(r)
    BY <1>2, <1>4, <2>5 DEF Grow
  <2>7. Types'
    BY <1>1, <1>4, <2>4, AdvanceFacts DEF Types
  <2>8. op[r] = HardRemove => Logged(r)'
    <3>1. Len(trail) + 1 \in DOMAIN trail'
      BY <2>4
    <3>2. op[r] = HardRemove => InTrail(target[r])'
      BY <1>2, <2>2, <2>4, <3>1 DEF InTrail
    <3>. QED
      BY <3>2 DEF Logged
  <2>9. InOrder(r)'
    BY <1>1, <2>6, <2>8, AdvanceInOrder
  <2>10. Exists(Existing)' = Exists(Existing)
    BY <1>1 DEF Exists
  <2>. QED
    BY <1>1, <1>2, <2>6, <2>7, <2>9, <2>10, OneRequest
<1>. QED
  BY <1>3, <1>4 DEF LogAudit

\* Every step keeps the invariant.
LEMMA RepositoryNext == RepositoryInvariant /\ [Next]_vars => RepositoryInvariant'
<1>. SUFFICES ASSUME RepositoryInvariant, [Next]_vars PROVE RepositoryInvariant'
  OBVIOUS
<1>1. ASSUME NEW r \in Requests, Serve(r) PROVE RepositoryInvariant'
  <2>1. CASE Fail(r)
    <3>1. Give(r, "error") /\ UNCHANGED <<table, trail, entity, changes, unlogged>>
      BY <2>1 DEF Fail
    <3>2. table' \in [Ids -> RowType] /\ Exists(Existing)' = Exists(Existing)
      BY <3>1 DEF RepositoryInvariant, Types, Exists
    <3>. QED
      BY <3>1, <3>2, InvGive
  <2>2. CASE \/ SetStatus(r, "softRemove", "deleted") \/ SetStatus(r, "recover", "live")
             \/ SetStatus(r, "remove", "none")
    BY <2>2, InvSetStatus
  <2>. QED
    BY <1>1, <2>1, <2>2, InvCall, InvLookup, InvSaveLoad, InvSaveWrite, InvInsert, InvUpdate,
       InvLogAudit DEF Serve
<1>2. CASE UNCHANGED vars
  <2>1. UNCHANGED <<table, trail, state, op, target, todo, entity, changes, unlogged>>
    BY <1>2 DEF vars, request
  <2>2. Types'
    BY <2>1 DEF RepositoryInvariant, Types
  <2>3. \A r \in Requests : InOrder(r)'
    BY <2>1 DEF RepositoryInvariant, InOrder, Removal, Logged, InTrail
  <2>4. NoTraceIsLost'
    BY <2>1 DEF RepositoryInvariant, NoTraceIsLost, Exists
  <2>. QED
    BY <2>2, <2>3, <2>4 DEF RepositoryInvariant
<1>. QED
  BY <1>1, <1>2 DEF Next, Quiet

\* What is left of every request is the end of its operation, as far as it
\* matters to the rows, and the row it saves is one it has found: the sequences of
\* statements of abstract.repository.ts:54-387.
THEOREM RepositoryInvariantHolds == Spec => []RepositoryInvariant
<1>. QED
  BY RepositoryInit, RepositoryNext, PTL DEF Spec

\* No row is gone but that its entry is in the trail or has failed, since
\* hardRemove writes it first, for any number of operations that overlap and
\* stop anywhere (abstract.repository.ts:355-387).
THEOREM RemovalsLeaveATrace == Spec => []NoTraceIsLost
<1>1. RepositoryInvariant => NoTraceIsLost
  BY DEF RepositoryInvariant
<1>. QED
  BY <1>1, RepositoryInvariantHolds, PTL

--------------------------------------------------------------------------------
(***************************************************************************)
(* What was answered holds.                                                *)
(***************************************************************************)
\* The statements that change rows, and the operations that have them.
Mutators == {"insert", "insertMany", "update", "write", "softRemove", "recover", "remove"}
Finds == {"find", "findDeleted"}
Statements == Kept \cup {"remove"}
Fits(o, x) ==
  /\ x \in {"insert", "insertMany"} => o.logs = "create"
  /\ x \in {"load", "write"} => o.logs = "update"
  /\ x = "update" => o.logs = "bulk"
  /\ x = "softRemove" => o.logs = "delete"
  /\ x \in {"findDeleted", "recover"} => o.logs = "restore"
  /\ x = "remove" => o.logs = "hard_delete"

AllLog(s) == \A n \in 1 .. Len(s) : s[n] = "log"
Writing(s) == s # <<>> /\ Head(s) = "write"
Finding(s) == s # <<>> /\ Head(s) \in Finds

\* An operation finds, then loads, then changes rows once.
Tidy(o, s) ==
  /\ \A n \in 1 .. Len(s) : Fits(o, s[n])
  /\ \A n \in 1 .. Len(s) : s[n] \in Mutators => \A m \in n + 1 .. Len(s) : s[m] = "log"
  /\ \A n \in 1 .. Len(s) : s[n] \in Finds \cup {"load"} =>
       \E m \in n + 1 .. Len(s) : s[m] # "log"
  /\ \A n \in 1 .. Len(s) - 1 : s[n + 1] = "write" => s[n] = "load"

\* A request that has its change ahead, or behind.
Pending(r) == state[r] = "new" \/ ~AllLog(todo[r])
Done(r) == state[r] \in {"busy", "ok"} /\ AllLog(todo[r])
Found(r) == entity[r].status # "none"
Excused(r) == \E q \in Since(r) : Reverses(q, r) \/ (Saves(q) /\ Overlaps(q, r))

Past(r) ==
  /\ \A q \in before[r] : Answered(q) /\ r \notin before[q]
  /\ state[r] = "new" => before[r] = {}

Stage(r) ==
  /\ Tidy(op[r], todo[r])
  /\ state[r] # "busy" => todo[r] = <<>>
  /\ state[r] = "new" => ~Found(r)
  /\ todo[r] # <<>> => Finding(todo[r]) \/ Found(r) \/ op[r].logs \in {"create", "bulk"}
  /\ op[r].logs = "update" /\ Found(r) => entity[r].status = "live"
  /\ state[r] # "new" /\ op[r].logs = "create" => target[r] = <<r, 1>>

\* The rows of a request that has not made them are not there, nor asked for.
Unborn(r) ==
  Pending(r) => \A n \in {1, 2} :
    /\ ~Exists(<<r, n>>)
    /\ \A q \in Requests \ {r} : state[q] # "new" => target[q] # <<r, n>>

\* Nor are its columns anywhere.
Unwritten(r) ==
  Pending(r) =>
    /\ \A i \in Ids, c \in Columns : table[i].cols[c] # r
    /\ \A q \in Requests, c \in Columns : entity[q].cols[c] # r

\* So that a save finds every column of its payload to differ.
Changed(r) == Writing(todo[r]) => op[r].sets \subseteq changes[r].cols

\* A row that was found and is gone was removed meanwhile.
Gone(r) ==
  Found(r) /\ op[r].logs # "hard_delete" /\ ~Exists(target[r])
    => \E q \in Since(r) : op[q].logs = "hard_delete"

\* A save that came after an answer carries it: the row it has found has the
\* columns, and they are not among those that differ.
Carried(q, r) ==
  /\ r \in before[q] /\ state[r] = "ok" /\ target[q] = target[r]
  /\ op[q].logs = "update" /\ Found(q) /\ state[q] = "busy" /\ ~Excused(r)
  => /\ op[r].logs \notin {"delete", "hard_delete"}
     /\ op[r].logs = "update" =>
          \A c \in op[r].sets : /\ entity[q].cols[c] = r
                                /\ Writing(todo[q]) => c \notin changes[q].cols

Settled(r) == Done(r) => Effect(r) \/ Excused(r)

AnsweredInvariant ==
  /\ RepositoryInvariant
  /\ before \in [Requests -> SUBSET Requests]
  /\ \A r \in Requests :
       Past(r) /\ Stage(r) /\ Unborn(r) /\ Unwritten(r) /\ Changed(r) /\ Gone(r) /\ Settled(r)
  /\ \A q, r \in Requests : Carried(q, r)

--------------------------------------------------------------------------------
\* The head and the tail of what is tidy.
LEMMA TidyTail ==
  ASSUME NEW o, NEW S, NEW s \in Seq(S), s # <<>>, Tidy(o, s)
  PROVE  /\ Tidy(o, Tail(s)) /\ Fits(o, Head(s))
         /\ Head(s) \in Mutators => AllLog(Tail(s))
         /\ Head(s) \in Finds \cup {"load"} => ~AllLog(Tail(s))
         /\ AllLog(Tail(s)) /\ Head(s) = "log" => AllLog(s)
         /\ AllLog(s) => Head(s) = "log" /\ AllLog(Tail(s))
         /\ Writing(Tail(s)) => Head(s) = "load"
<1> DEFINE t == Tail(s)
           h == Head(s)
<1>1. /\ Len(s) \in Nat /\ Len(s) >= 1 /\ Len(t) = Len(s) - 1
      /\ \A n \in 1 .. Len(s) - 1 : t[n] = s[n + 1]
      /\ h = s[1] /\ t \in Seq(S)
  OBVIOUS
<1>2. t # <<>> => Len(t) >= 1 /\ Head(t) = t[1]
  BY <1>1
<1> HIDE DEF t, h
<1>3. \A n \in 2 .. Len(s) : n - 1 \in 1 .. Len(t) /\ t[n - 1] = s[n]
  BY <1>1
<1>4. \A n \in 1 .. Len(t) : n + 1 \in 2 .. Len(s) /\ t[n] = s[n + 1]
  BY <1>1
<1>5. Fits(o, h)
  BY <1>1 DEF Tidy
<1>6. h \in Mutators => AllLog(t)
  BY <1>1, <1>4 DEF Tidy, AllLog
<1>7. h \in Finds \cup {"load"} => ~AllLog(t)
  BY <1>1, <1>3 DEF Tidy, AllLog
<1>8. AllLog(t) /\ h = "log" => AllLog(s)
  <2>1. ASSUME AllLog(t), h = "log", NEW n \in 1 .. Len(s) PROVE s[n] = "log"
    <3>1. n = 1 \/ n \in 2 .. Len(s)
      BY <1>1
    <3>. QED
      BY <1>1, <1>3, <2>1, <3>1 DEF AllLog
  <2>. QED
    BY <2>1 DEF AllLog
<1>9. AllLog(s) => h = "log" /\ AllLog(t)
  BY <1>1, <1>4 DEF AllLog
<1>10. Writing(t) => h = "load"
  BY <1>1, <1>2 DEF Tidy, Writing
<1>11. Tidy(o, t)
  <2>1. ASSUME NEW n \in 1 .. Len(t) PROVE Fits(o, t[n])
    BY <1>1, <1>4 DEF Tidy
  <2>2. ASSUME NEW n \in 1 .. Len(t), t[n] \in Mutators, NEW m \in n + 1 .. Len(t)
        PROVE  t[m] = "log"
    <3>1. m \in 1 .. Len(t) /\ n + 1 \in 1 .. Len(s) /\ m + 1 \in (n + 1) + 1 .. Len(s)
      BY <1>1
    <3>2. t[n] = s[n + 1] /\ t[m] = s[m + 1]
      BY <1>4, <3>1
    <3>. QED
      BY <2>2, <3>1, <3>2 DEF Tidy
  <2>3. ASSUME NEW n \in 1 .. Len(t), t[n] \in Finds \cup {"load"}
        PROVE  \E m \in n + 1 .. Len(t) : t[m] # "log"
    <3>1. n + 1 \in 1 .. Len(s) /\ s[n + 1] \in Finds \cup {"load"}
      BY <1>1, <1>4, <2>3
    <3>2. PICK m \in (n + 1) + 1 .. Len(s) : s[m] # "log"
      BY <3>1 DEF Tidy
    <3>3. m - 1 \in n + 1 .. Len(t) /\ m \in 2 .. Len(s)
      BY <1>1
    <3>. QED
      BY <1>3, <3>2, <3>3
  <2>4. ASSUME NEW n \in 1 .. Len(t) - 1, t[n + 1] = "write" PROVE t[n] = "load"
    <3>1. n \in 1 .. Len(t) /\ n + 1 \in 1 .. Len(t) /\ n + 1 \in 1 .. Len(s) - 1
      BY <1>1
    <3>2. t[n] = s[n + 1] /\ t[n + 1] = s[(n + 1) + 1]
      BY <1>4, <3>1
    <3>. QED
      BY <2>4, <3>1, <3>2 DEF Tidy
  <2>. QED
    BY <2>1, <2>2, <2>3, <2>4 DEF Tidy
<1>. QED
  BY <1>5, <1>6, <1>7, <1>8, <1>9, <1>10, <1>11 DEF t, h

\* How an operation begins.
Neat(o) ==
  /\ Tidy(o, o.does) /\ ~AllLog(o.does)
  /\ o.does # <<>> /\ (Finding(o.does) \/ o.logs \in {"create", "bulk"})
  /\ o.sets \subseteq Columns
  /\ o.logs = "update" => \E n \in DOMAIN o.does : o.does[n] = "load"

\* Two sequences with the same members are the same.
LEMMA SameSequence ==
  ASSUME NEW S, NEW s \in Seq(S), NEW t \in Seq(S), Len(s) = Len(t),
         \A n \in 1 .. Len(s) : s[n] = t[n]
  PROVE  s = t
OBVIOUS

\* One sequence after another.
LEMMA Concatenation ==
  ASSUME NEW S, NEW s \in Seq(S), NEW t \in Seq(S), NEW u \in Seq(S),
         Len(u) = Len(s) + Len(t),
         \A n \in 1 .. Len(s) : u[n] = s[n],
         \A n \in 1 .. Len(t) : u[n + Len(s)] = t[n]
  PROVE  s \o t = u
<1>. DEFINE w == s \o t
<1>1. w \in Seq(S) /\ Len(w) = Len(u)
  OBVIOUS
<1>2. ASSUME NEW n \in 1 .. Len(w) PROVE w[n] = u[n]
  <2>1. CASE n <= Len(s)
    BY <2>1
  <2>2. CASE n > Len(s)
    <3>1. n - Len(s) \in 1 .. Len(t) /\ n = (n - Len(s)) + Len(s)
      BY <2>2
    <3>2. w[n] = t[n - Len(s)]
      BY <2>2, <3>1
    <3>. QED
      BY <3>1, <3>2
  <2>. QED
    BY <2>1, <2>2
<1>. HIDE DEF w
<1>3. w = u
  BY <1>1, <1>2, SameSequence
<1>. QED
  BY <1>3 DEF w

\* Short sequences, one after another.
LEMMA Tuples ==
  ASSUME NEW a, NEW b, NEW c
  PROVE  /\ <<a>> \o <<b>> = <<a, b>> /\ <<a, b>> \o <<c>> = <<a, b, c>>
         /\ <<a>> \o <<b, c>> = <<a, b, c>>
<1>. DEFINE S == {a, b, c}
            A == <<a>>
            B == <<b>>
            C == <<c>>
            AB == <<a, b>>
            BC == <<b, c>>
            ABC == <<a, b, c>>
<1>1. /\ A \in Seq(S) /\ Len(A) = 1 /\ A[1] = a
      /\ B \in Seq(S) /\ Len(B) = 1 /\ B[1] = b
      /\ C \in Seq(S) /\ Len(C) = 1 /\ C[1] = c
      /\ AB \in Seq(S) /\ Len(AB) = 2 /\ AB[1] = a /\ AB[2] = b
      /\ BC \in Seq(S) /\ Len(BC) = 2 /\ BC[1] = b /\ BC[2] = c
      /\ ABC \in Seq(S) /\ Len(ABC) = 3 /\ ABC[1] = a /\ ABC[2] = b /\ ABC[3] = c
  OBVIOUS
<1>. HIDE DEF S, A, B, C, AB, BC, ABC
<1>2. A \o B = AB
  <2>1. /\ Len(AB) = Len(A) + Len(B)
        /\ \A n \in 1 .. Len(A) : AB[n] = A[n]
        /\ \A n \in 1 .. Len(B) : AB[n + Len(A)] = B[n]
        /\ A \in Seq(S) /\ B \in Seq(S) /\ AB \in Seq(S)
    BY <1>1
  <2>. QED
    BY <2>1, Concatenation
<1>3. AB \o C = ABC
  <2>1. /\ Len(ABC) = Len(AB) + Len(C)
        /\ \A n \in 1 .. Len(AB) : ABC[n] = AB[n]
        /\ \A n \in 1 .. Len(C) : ABC[n + Len(AB)] = C[n]
        /\ AB \in Seq(S) /\ C \in Seq(S) /\ ABC \in Seq(S)
    BY <1>1
  <2>. QED
    BY <2>1, Concatenation
<1>4. A \o BC = ABC
  <2>1. /\ Len(ABC) = Len(A) + Len(BC)
        /\ \A n \in 1 .. Len(A) : ABC[n] = A[n]
        /\ \A n \in 1 .. Len(BC) : ABC[n + Len(A)] = BC[n]
        /\ A \in Seq(S) /\ BC \in Seq(S) /\ ABC \in Seq(S)
    BY <1>1
  <2>. QED
    BY <2>1, Concatenation
<1>. QED
  BY <1>2, <1>3, <1>4 DEF A, B, C, AB, BC, ABC

\* Those of four.
LEMMA LongTuples ==
  ASSUME NEW a, NEW b, NEW c, NEW d
  PROVE  <<a, b, c>> \o <<d>> = <<a, b, c, d>> /\ <<a, b>> \o <<c, d>> = <<a, b, c, d>>
<1>. DEFINE S == {a, b, c, d}
            D == <<d>>
            AB == <<a, b>>
            CD == <<c, d>>
            ABC == <<a, b, c>>
            ABCD == <<a, b, c, d>>
<1>1. /\ D \in Seq(S) /\ Len(D) = 1 /\ D[1] = d
      /\ AB \in Seq(S) /\ Len(AB) = 2 /\ AB[1] = a /\ AB[2] = b
      /\ CD \in Seq(S) /\ Len(CD) = 2 /\ CD[1] = c /\ CD[2] = d
      /\ ABC \in Seq(S) /\ Len(ABC) = 3 /\ ABC[1] = a /\ ABC[2] = b /\ ABC[3] = c
      /\ ABCD \in Seq(S) /\ Len(ABCD) = 4
      /\ ABCD[1] = a /\ ABCD[2] = b /\ ABCD[3] = c /\ ABCD[4] = d
  OBVIOUS
<1>. HIDE DEF S, D, AB, CD, ABC, ABCD
<1>2. ABC \o D = ABCD
  <2>1. /\ Len(ABCD) = Len(ABC) + Len(D)
        /\ \A n \in 1 .. Len(ABC) : ABCD[n] = ABC[n]
        /\ \A n \in 1 .. Len(D) : ABCD[n + Len(ABC)] = D[n]
        /\ ABC \in Seq(S) /\ D \in Seq(S) /\ ABCD \in Seq(S)
    BY <1>1
  <2>. QED
    BY <2>1, Concatenation
<1>3. AB \o CD = ABCD
  <2>1. /\ Len(ABCD) = Len(AB) + Len(CD)
        /\ \A n \in 1 .. Len(AB) : ABCD[n] = AB[n]
        /\ \A n \in 1 .. Len(CD) : ABCD[n + Len(AB)] = CD[n]
        /\ AB \in Seq(S) /\ CD \in Seq(S) /\ ABCD \in Seq(S)
    BY <1>1
  <2>. QED
    BY <2>1, Concatenation
<1>. QED
  BY <1>2, <1>3 DEF D, AB, CD, ABC, ABCD

\* The operations, spelled out.
Spells(o, does, logs, sets) == o.does = does /\ o.logs = logs /\ o.sets = sets

\* As they are.
LEMMA OperationsSpelled ==
  /\ Spells(Create, <<"insert", "log">>, "create", {})
  /\ Spells(CreateMany, <<"insertMany", "log">>, "create", {})
  /\ Spells(UpdateMany, <<"update", "log">>, "bulk", AColumn)
  /\ Spells(UpdateOne, <<"find", "load", "write", "log">>, "update", AColumn)
  /\ Spells(Remove, <<"find", "softRemove", "log">>, "delete", {})
  /\ Spells(Restore, <<"findDeleted", "recover", "log">>, "restore", {})
  /\ Spells(HardRemove, <<"find", "log", "remove">>, "hard_delete", {})
  /\ Spells(CreateProduct, <<"insert">>, "create", {})
  /\ Spells(UpdateProduct, <<"find", "load", "write">>, "update", AColumn)
  /\ Spells(RemoveProduct, <<"find", "softRemove">>, "delete", {})
  /\ Spells(UpdateAccountDetails, <<"find", "find", "load", "write">>, "update", Columns \ AColumn)
  /\ Spells(PauseNotifications, <<"find", "find", "load", "write">>, "update", Columns)
<1>1. Spells(Create, <<"insert", "log">>, "create", {})
  BY Tuples DEF Create, Operation, Log, Spells
<1>2. Spells(CreateMany, <<"insertMany", "log">>, "create", {})
  BY Tuples DEF CreateMany, Operation, Log, Spells
<1>3. Spells(UpdateMany, <<"update", "log">>, "bulk", AColumn)
  BY Tuples DEF UpdateMany, Operation, Log, Spells
<1>4. Spells(UpdateOne, <<"find", "load", "write", "log">>, "update", AColumn)
  <2>a. Find \o Save = <<"find", "load", "write">>
    BY Tuples DEF Find, Save, Log
  <2>c. <<"find", "load", "write">> \o Log = <<"find", "load", "write", "log">>
    BY LongTuples DEF Log
  <2>b. UpdateOne = Operation(Find \o Save \o Log, "update", AColumn)
    BY DEF UpdateOne
  <2>. QED
    BY <2>a, <2>b, <2>c DEF Operation, Spells
<1>5. Spells(Remove, <<"find", "softRemove", "log">>, "delete", {})
  <2>a. Find \o <<"softRemove">> = <<"find", "softRemove">>
    BY Tuples DEF Find, Log
  <2>c. <<"find", "softRemove">> \o Log = <<"find", "softRemove", "log">>
    BY Tuples DEF Find, Log
  <2>b. Remove = Operation(Find \o <<"softRemove">> \o Log, "delete", {})
    BY DEF Remove
  <2>. QED
    BY <2>a, <2>b, <2>c DEF Operation, Spells
<1>6. Spells(Restore, <<"findDeleted", "recover", "log">>, "restore", {})
  BY Tuples DEF Restore, Operation, Log, Spells
<1>7. Spells(HardRemove, <<"find", "log", "remove">>, "hard_delete", {})
  <2>a. Find \o Log = <<"find", "log">>
    BY Tuples DEF Find, Log
  <2>c. <<"find", "log">> \o <<"remove">> = <<"find", "log", "remove">>
    BY Tuples DEF Find, Log
  <2>b. HardRemove = Operation(Find \o Log \o <<"remove">>, "hard_delete", {})
    BY DEF HardRemove
  <2>. QED
    BY <2>a, <2>b, <2>c DEF Operation, Spells
<1>8. Spells(CreateProduct, <<"insert">>, "create", {})
  BY Tuples DEF CreateProduct, Operation, Spells
<1>9. Spells(UpdateProduct, <<"find", "load", "write">>, "update", AColumn)
  BY Tuples DEF UpdateProduct, Operation, Find, Save, Spells
<1>10. Spells(RemoveProduct, <<"find", "softRemove">>, "delete", {})
  BY Tuples DEF RemoveProduct, Operation, Find, Spells
<1>11. Spells(UpdateAccountDetails, <<"find", "find", "load", "write">>, "update", Columns \ AColumn)
  <2>1. Find \o Find = <<"find", "find">>
    BY Tuples DEF Find
  <2>2. <<"find", "find">> \o Save = <<"find", "find", "load", "write">>
    BY LongTuples DEF Save
  <2>3. UpdateAccountDetails = Operation((Find \o Find) \o Save, "update", Columns \ AColumn)
    BY DEF UpdateAccountDetails
  <2>. QED
    BY <2>1, <2>2, <2>3 DEF Operation, Spells
<1>12. Spells(PauseNotifications, <<"find", "find", "load", "write">>, "update", Columns)
  <2>1. /\ PauseNotifications.does = UpdateAccountDetails.does
        /\ PauseNotifications.logs = UpdateAccountDetails.logs
        /\ PauseNotifications.sets = Columns
    BY DEF PauseNotifications, UpdateAccountDetails, Operation
  <2>. QED
    BY <1>11, <2>1 DEF Spells
<1>. QED
  BY <1>1, <1>2, <1>3, <1>4, <1>5, <1>6, <1>7, <1>8, <1>9, <1>10, <1>11, <1>12

\* Every operation does.
LEMMA OperationsAreNeat == \A o \in Operations : Neat(o)
<1>0. AColumn \subseteq Columns
  BY RepositoryAssumption DEF AColumn
<1>1. Neat(Create)
  <2>1. Spells(Create, <<"insert", "log">>, "create", {})
    BY OperationsSpelled
  <2>. QED
    BY <1>0, <2>1 DEF Spells, Neat, Tidy, AllLog, Finding, Finds, Fits, Mutators
<1>2. Neat(CreateMany)
  <2>1. Spells(CreateMany, <<"insertMany", "log">>, "create", {})
    BY OperationsSpelled
  <2>. QED
    BY <1>0, <2>1 DEF Spells, Neat, Tidy, AllLog, Finding, Finds, Fits, Mutators
<1>3. Neat(UpdateMany)
  <2>1. Spells(UpdateMany, <<"update", "log">>, "bulk", AColumn)
    BY OperationsSpelled
  <2>. QED
    BY <1>0, <2>1 DEF Spells, Neat, Tidy, AllLog, Finding, Finds, Fits, Mutators
<1>4. Neat(UpdateOne)
  <2>1. Spells(UpdateOne, <<"find", "load", "write", "log">>, "update", AColumn)
    BY OperationsSpelled
  <2>. QED
    BY <1>0, <2>1 DEF Spells, Neat, Tidy, AllLog, Finding, Finds, Fits, Mutators
<1>5. Neat(Remove)
  <2>1. Spells(Remove, <<"find", "softRemove", "log">>, "delete", {})
    BY OperationsSpelled
  <2>. QED
    BY <1>0, <2>1 DEF Spells, Neat, Tidy, AllLog, Finding, Finds, Fits, Mutators
<1>6. Neat(Restore)
  <2>1. Spells(Restore, <<"findDeleted", "recover", "log">>, "restore", {})
    BY OperationsSpelled
  <2>. QED
    BY <1>0, <2>1 DEF Spells, Neat, Tidy, AllLog, Finding, Finds, Fits, Mutators
<1>7. Neat(HardRemove)
  <2>1. Spells(HardRemove, <<"find", "log", "remove">>, "hard_delete", {})
    BY OperationsSpelled
  <2>. QED
    BY <1>0, <2>1 DEF Spells, Neat, Tidy, AllLog, Finding, Finds, Fits, Mutators
<1>8. Neat(CreateProduct)
  <2>1. Spells(CreateProduct, <<"insert">>, "create", {})
    BY OperationsSpelled
  <2>. QED
    BY <1>0, <2>1 DEF Spells, Neat, Tidy, AllLog, Finding, Finds, Fits, Mutators
<1>9. Neat(UpdateProduct)
  <2>1. Spells(UpdateProduct, <<"find", "load", "write">>, "update", AColumn)
    BY OperationsSpelled
  <2>. QED
    BY <1>0, <2>1 DEF Spells, Neat, Tidy, AllLog, Finding, Finds, Fits, Mutators
<1>10. Neat(RemoveProduct)
  <2>1. Spells(RemoveProduct, <<"find", "softRemove">>, "delete", {})
    BY OperationsSpelled
  <2>. QED
    BY <1>0, <2>1 DEF Spells, Neat, Tidy, AllLog, Finding, Finds, Fits, Mutators
<1>11. Neat(UpdateAccountDetails)
  <2>1. Spells(UpdateAccountDetails, <<"find", "find", "load", "write">>, "update", Columns \ AColumn)
    BY OperationsSpelled
  <2>. QED
    BY <1>0, <2>1 DEF Spells, Neat, Tidy, AllLog, Finding, Finds, Fits, Mutators
<1>12. Neat(PauseNotifications)
  <2>1. Spells(PauseNotifications, <<"find", "find", "load", "write">>, "update", Columns)
    BY OperationsSpelled
  <2>. QED
    BY <1>0, <2>1 DEF Spells, Neat, Tidy, AllLog, Finding, Finds, Fits, Mutators
<1>. QED
  BY <1>1, <1>2, <1>3, <1>4, <1>5, <1>6, <1>7, <1>8, <1>9, <1>10, <1>11, <1>12
     DEF Operations, CreateRole, UpdateRole, RemoveRole, CreateAccountForUser, CreateLog,
         ResumeNotifications

--------------------------------------------------------------------------------
\* What a step of p leaves alone, and what it does, statement by statement.
Frame(p) ==
  /\ state[p] = "busy" /\ state'[p] \in {"busy", "ok", "missing", "error"}
  /\ \A q \in Requests \ {p} : /\ state'[q] = state[q] /\ todo'[q] = todo[q]
                               /\ entity'[q] = entity[q] /\ changes'[q] = changes[q]
  /\ UNCHANGED <<op, target, before>>

Goes(p, x) ==
  /\ todo[p] # <<>> /\ Head(todo[p]) = x /\ todo'[p] = Tail(todo[p])
  /\ state'[p] = IF Len(todo[p]) = 1 THEN "ok" ELSE "busy"

Ends(p) ==
  /\ todo'[p] = <<>> /\ state'[p] \in {"missing", "error"}
  /\ state'[p] = "missing" => Finding(todo[p])
  /\ UNCHANGED <<table, entity, changes>>

Logs(p) == Goes(p, "log") /\ UNCHANGED <<table, entity, changes>>

Looks(p, x) ==
  /\ Goes(p, x) /\ entity'[p] = table[target[p]] /\ UNCHANGED <<table, changes>>
  /\ Exists(target[p]) /\ (x = "find" => table[target[p]].status = "live")

Loads(p) ==
  /\ Goes(p, "load") /\ UNCHANGED <<table, entity>>
  /\ \A c \in Columns : c \in changes'[p].cols <=>
       table[target[p]].cols[c] # (IF c \in op[p].sets THEN p ELSE entity[p].cols[c])

Inserts(p) ==
  /\ Goes(p, "insert") \/ Goes(p, "insertMany")
  /\ UNCHANGED <<entity, changes>>
  /\ table'[<<p, 1>>] = Row("live", p)
  /\ \A i \in Ids : \/ table'[i] = table[i]
                    \/ i \in {<<p, 1>>, <<p, 2>>} /\ table'[i] = Row("live", p)

Updates(p) ==
  /\ todo[p] # <<>> /\ Head(todo[p]) = "update" /\ todo'[p] \in {<<>>, Tail(todo[p])}
  /\ state'[p] = "busy" => todo'[p] = Tail(todo[p])
  /\ state'[p] # "busy" => state'[p] = "ok" /\ todo'[p] = <<>>
  /\ UNCHANGED <<entity, changes>>
  /\ \A i \in Ids : /\ table'[i].status = table[i].status
                    /\ \A c \in Columns : \/ table'[i].cols[c] = table[i].cols[c]
                                          \/ c \in op[p].sets /\ table'[i].cols[c] = p

Writes(p) ==
  /\ Goes(p, "write") /\ UNCHANGED <<entity, changes>>
  /\ \A i \in Ids \ {target[p]} : table'[i] = table[i]
  /\ \/ ~Exists(target[p]) /\ UNCHANGED table
     \/ /\ ~Exists(target[p]) /\ table'[target[p]].status = entity[p].status
        /\ \A c \in Columns : table'[target[p]].cols[c] =
             IF c \in op[p].sets THEN p ELSE entity[p].cols[c]
     \/ /\ Exists(target[p])
        /\ table'[target[p]].status \in {entity[p].status, table[target[p]].status}
        /\ \A c \in Columns : table'[target[p]].cols[c] =
             IF c \notin changes[p].cols THEN table[target[p]].cols[c]
             ELSE IF c \in op[p].sets THEN p ELSE entity[p].cols[c]

Sets(p, x, status) ==
  /\ Goes(p, x) /\ UNCHANGED <<entity, changes>>
  /\ \A i \in Ids \ {target[p]} : table'[i] = table[i]
  /\ \/ ~Exists(target[p]) /\ UNCHANGED table
     \/ /\ Exists(target[p]) /\ table'[target[p]].status = status
        /\ \A c \in Columns : \/ table'[target[p]].cols[c] = table[target[p]].cols[c]
                              \/ x = "remove" /\ table'[target[p]].cols[c] = Existing

Does(p) ==
  \/ Ends(p) \/ Logs(p) \/ Looks(p, "find") \/ Looks(p, "findDeleted") \/ Loads(p)
  \/ Inserts(p) \/ Updates(p) \/ Writes(p)
  \/ Sets(p, "softRemove", "deleted") \/ Sets(p, "recover", "live") \/ Sets(p, "remove", "none")

\* After the last statement there is none.
LEMMA AfterTheLast ==
  ASSUME NEW s \in Seq(Statements), s # <<>>
  PROVE  Len(s) = 1 <=> Tail(s) = <<>>
<1>. DEFINE t == Tail(s)
            e == <<>>
<1>1. /\ t \in Seq(Statements) /\ Len(t) = Len(s) - 1 /\ Len(s) \in Nat
      /\ e \in Seq(Statements) /\ Len(e) = 0
  OBVIOUS
<1>. HIDE DEF t, e
<1>2. Len(s) = 1 => Len(t) = Len(e) /\ \A n \in 1 .. Len(t) : t[n] = e[n]
  BY <1>1
<1>3. Len(s) = 1 => t = e
  BY <1>1, <1>2, SameSequence
<1>4. t = e => Len(s) = 1
  BY <1>1
<1>. QED
  BY <1>3, <1>4 DEF t, e

\* A statement that goes on.
LEMMA GoesOn ==
  ASSUME RepositoryInvariant, NEW p \in Requests, NEW x, At(p, x), Advance(p)
  PROVE  /\ state[p] = "busy" /\ state'[p] \in {"busy", "ok"} /\ Goes(p, x)
         /\ state' \in [Requests -> {"new", "busy", "ok", "missing", "error"}]
         /\ \A q \in Requests \ {p} : state'[q] = state[q] /\ todo'[q] = todo[q]
         /\ UNCHANGED <<op, target, before>>
<1>1. Types
  BY DEF RepositoryInvariant
<1>2. state[p] = "busy" /\ UNCHANGED <<op, target, before>>
  BY DEF At, Advance
<1>3. state'[p] = IF Len(todo[p]) = 1 THEN "ok" ELSE "busy"
  BY <1>1 DEF Advance, Types
<1>. QED
  BY <1>1, <1>2, <1>3, AdvanceFacts DEF Goes

\* A request that is answered at once.
LEMMA GivesAnswer ==
  ASSUME RepositoryInvariant, NEW p \in Requests, NEW a \in {"ok", "missing", "error"}, Give(p, a)
  PROVE  /\ state'[p] = a /\ todo'[p] = <<>>
         /\ \A q \in Requests \ {p} : state'[q] = state[q] /\ todo'[q] = todo[q]
         /\ UNCHANGED <<op, target, before>>
BY GiveFacts DEF Give, RepositoryInvariant, Types

\* A find.
LEMMA LookupStep ==
  ASSUME RepositoryInvariant, NEW p \in Requests, FindOne(p) \/ FindOneWithDeletedToo(p)
  PROVE  Frame(p) /\ Does(p)
<1>1. PICK x \in Finds, found \in BOOLEAN :
        /\ At(p, x) /\ Lookup(p, found)
        /\ found => Exists(target[p]) /\ (x = "find" => table[target[p]].status = "live")
  <2>1. CASE FindOne(p)
    <3>1. At(p, "find") /\ Lookup(p, table[target[p]].status = "live")
      BY <2>1 DEF FindOne
    <3>. DEFINE f == table[target[p]].status = "live"
    <3>2. f \in BOOLEAN /\ (f => Exists(target[p]) /\ table[target[p]].status = "live")
      BY DEF Exists
    <3>. HIDE DEF f
    <3>3. Lookup(p, f)
      BY <3>1 DEF f
    <3>. QED
      BY <3>1, <3>2, <3>3 DEF Finds
  <2>2. CASE FindOneWithDeletedToo(p)
    <3>1. At(p, "findDeleted") /\ Lookup(p, Exists(target[p])) /\ Exists(target[p]) \in BOOLEAN
      BY <2>2 DEF FindOneWithDeletedToo, Exists
    <3>. QED
      BY <3>1 DEF Finds
  <2>. QED
    BY <2>1, <2>2
<1>2. state[p] = "busy" /\ UNCHANGED <<table, changes>>
  BY <1>1 DEF At, Lookup
<1>3. CASE found
  <2>1. Advance(p) /\ entity' = [entity EXCEPT ![p] = table[target[p]]]
    BY <1>1, <1>3 DEF Lookup
  <2>2. /\ entity'[p] = table[target[p]]
        /\ \A q \in Requests \ {p} : entity'[q] = entity[q]
    BY <2>1 DEF RepositoryInvariant, Types
  <2>3. Looks(p, x)
    BY <1>1, <1>2, <1>3, <2>1, <2>2, GoesOn DEF Looks
  <2>4. Frame(p)
    BY <1>1, <1>2, <2>1, <2>2, GoesOn DEF Frame
  <2>. QED
    BY <2>3, <2>4 DEF Does, Finds
<1>4. CASE ~found
  <2>1. Give(p, "missing") /\ UNCHANGED entity
    BY <1>1, <1>4 DEF Lookup
  <2>2. Finding(todo[p])
    BY <1>1 DEF At, Finding
  <2>3. Ends(p) /\ Frame(p)
    BY <1>2, <2>1, <2>2, GivesAnswer DEF Ends, Frame
  <2>. QED
    BY <2>3 DEF Does
<1>. QED
  BY <1>3, <1>4

\* The payload over the entity, column by column.
LEMMA MergedColumns ==
  ASSUME RepositoryInvariant, NEW r \in Requests
  PROVE  /\ Merged(r).status = entity[r].status
         /\ \A c \in Columns :
              Merged(r).cols[c] = IF c \in op[r].sets THEN r ELSE entity[r].cols[c]
<1>1. entity[r] \in RowType
  BY DEF RepositoryInvariant, Types
<1>. DEFINE c1 == [c \in Columns |-> IF c \in op[r].sets THEN r ELSE entity[r].cols[c]]
<1>2. \A c \in Columns : c1[c] = IF c \in op[r].sets THEN r ELSE entity[r].cols[c]
  OBVIOUS
<1>3. Merged(r) = [entity[r] EXCEPT !.cols = c1]
  BY DEF Merged
<1>. HIDE DEF c1
<1>4. Merged(r).cols = c1
  BY <1>1, <1>3 DEF RowType
<1>. QED
  BY <1>2, <1>4, MergedFacts

\* The SELECT of a save.
LEMMA LoadStep ==
  ASSUME RepositoryInvariant, NEW p \in Requests, SaveLoad(p)
  PROVE  Frame(p) /\ Loads(p)
<1>. DEFINE d == [insert |-> ~Exists(target[p]),
                  status |-> table[target[p]].status # entity[p].status,
                  cols |-> {c \in Columns : table[target[p]].cols[c] # Merged(p).cols[c]}]
<1>1. /\ At(p, "load") /\ Advance(p) /\ UNCHANGED <<table, trail, entity, unlogged>>
      /\ changes' = [changes EXCEPT ![p] = d]
  BY DEF SaveLoad
<1>2. \A c \in Columns : Merged(p).cols[c] = IF c \in op[p].sets THEN p ELSE entity[p].cols[c]
  BY MergedColumns
<1>3. d.cols = {c \in Columns : table[target[p]].cols[c] # Merged(p).cols[c]}
  OBVIOUS
<1>. HIDE DEF d
<1>4. changes'[p] = d /\ \A q \in Requests \ {p} : changes'[q] = changes[q]
  BY <1>1 DEF RepositoryInvariant, Types
<1>5. Loads(p)
  BY <1>1, <1>2, <1>3, <1>4, GoesOn DEF Loads
<1>. QED
  BY <1>1, <1>4, <1>5, GoesOn DEF Frame

\* The write of a save.
LEMMA WriteStep ==
  ASSUME RepositoryInvariant, NEW p \in Requests, SaveWrite(p)
  PROVE  Frame(p) /\ Does(p)
<1>. DEFINE i == target[p]
            d == changes[p]
            st == IF d.status THEN Merged(p).status ELSE table[i].status
            cs == [c \in Columns |-> IF c \in d.cols THEN Merged(p).cols[c] ELSE table[i].cols[c]]
            updated == [status |-> st, cols |-> cs]
<1>1. /\ At(p, "write") /\ UNCHANGED <<trail, entity, changes, unlogged>>
      /\ i \in Ids /\ table \in [Ids -> RowType] /\ state[p] = "busy"
  BY DEF SaveWrite, RepositoryInvariant, Types, At
<1>2. /\ Merged(p).status = entity[p].status
      /\ \A c \in Columns : Merged(p).cols[c] = IF c \in op[p].sets THEN p ELSE entity[p].cols[c]
  BY MergedColumns
<1>3. \/ d.insert /\ ~Exists(i) /\ table' = [table EXCEPT ![i] = Merged(p)] /\ Advance(p)
      \/ d.insert /\ Exists(i) /\ UNCHANGED table /\ Give(p, "error")
      \/ /\ ~d.insert /\ table' = (IF Exists(i) THEN [table EXCEPT ![i] = updated] ELSE table)
         /\ Advance(p)
  BY DEF SaveWrite
<1>4. /\ updated.status = st /\ updated.cols = cs
      /\ st \in {entity[p].status, table[i].status}
      /\ \A c \in Columns : cs[c] = IF c \notin d.cols THEN table[i].cols[c]
                                    ELSE IF c \in op[p].sets THEN p ELSE entity[p].cols[c]
  BY <1>2
<1>. HIDE DEF updated, st, cs
<1>5. CASE Advance(p) /\ ~Exists(i) /\ table' = [table EXCEPT ![i] = Merged(p)]
  <2>1. table'[i] = Merged(p) /\ \A j \in Ids \ {i} : table'[j] = table[j]
    BY <1>1, <1>5
  <2>2. Writes(p)
    BY <1>1, <1>2, <1>5, <2>1, GoesOn DEF Writes
  <2>. QED
    BY <1>1, <1>5, <2>2, GoesOn DEF Frame, Does
<1>6. CASE Give(p, "error") /\ UNCHANGED table
  BY <1>1, <1>6, GivesAnswer DEF Frame, Does, Ends
<1>7. CASE Advance(p) /\ ~Exists(i) /\ UNCHANGED table
  <2>1. Writes(p)
    BY <1>1, <1>7, GoesOn DEF Writes
  <2>. QED
    BY <1>1, <1>7, <2>1, GoesOn DEF Frame, Does
<1>8. CASE Advance(p) /\ Exists(i) /\ table' = [table EXCEPT ![i] = updated]
  <2>1. table'[i] = updated /\ \A j \in Ids \ {i} : table'[j] = table[j]
    BY <1>1, <1>8
  <2>2. Writes(p)
    BY <1>1, <1>4, <1>8, <2>1, GoesOn DEF Writes
  <2>. QED
    BY <1>1, <1>8, <2>2, GoesOn DEF Frame, Does
<1>. QED
  BY <1>3, <1>5, <1>6, <1>7, <1>8

\* The INSERT.
LEMMA InsertStep ==
  ASSUME RepositoryInvariant, NEW p \in Requests, Insert(p)
  PROVE  Frame(p) /\ Inserts(p)
<1>1. /\ Advance(p) /\ UNCHANGED <<trail, entity, changes, unlogged>>
      /\ table \in [Ids -> RowType] /\ <<p, 1>> \in Ids
  BY DEF Insert, RepositoryInvariant, Types, Ids
<1>2. CASE At(p, "insert") /\ table' = [table EXCEPT ![<<p, 1>>] = Row("live", p)]
  <2>1. /\ table'[<<p, 1>>] = Row("live", p)
        /\ \A i \in Ids : table'[i] = table[i] \/ (i = <<p, 1>> /\ table'[i] = Row("live", p))
    BY <1>1, <1>2
  <2>. QED
    BY <1>1, <1>2, <2>1, GoesOn DEF Frame, Inserts
<1>3. CASE /\ At(p, "insertMany")
           /\ table' = [i \in Ids |-> IF i \in {<<p, 1>>, <<p, 2>>} THEN Row("live", p) ELSE table[i]]
  <2>1. /\ table'[<<p, 1>>] = Row("live", p)
        /\ \A i \in Ids : \/ table'[i] = table[i]
                          \/ i \in {<<p, 1>>, <<p, 2>>} /\ table'[i] = Row("live", p)
    BY <1>1, <1>3
  <2>. QED
    BY <1>1, <1>3, <2>1, GoesOn DEF Frame, Inserts
<1>. QED
  BY <1>2, <1>3 DEF Insert

\* The UPDATE of many.
LEMMA UpdateStep ==
  ASSUME RepositoryInvariant, NEW p \in Requests, Update(p)
  PROVE  Frame(p) /\ Updates(p)
<1>1. /\ At(p, "update") /\ UNCHANGED <<trail, entity, changes, unlogged>>
      /\ table \in [Ids -> RowType] /\ state[p] = "busy"
      /\ todo[p] # <<>> /\ Head(todo[p]) = "update" /\ Len(todo[p]) \in Nat
  BY DEF Update, RepositoryInvariant, Types, At
<1>. DEFINE cs(i) == [c \in Columns |-> IF c \in op[p].sets THEN p ELSE table[i].cols[c]]
            new(i) == [table[i] EXCEPT !.cols = cs(i)]
<1>2. PICK S \in SUBSET {i \in Ids : Exists(i)} :
        /\ table' = [i \in Ids |-> IF i \in S THEN new(i) ELSE table[i]]
        /\ IF S = {} THEN Give(p, "ok") ELSE Advance(p)
  BY DEF Update
<1>3. \A i \in Ids : \A c \in Columns : cs(i)[c] = IF c \in op[p].sets THEN p ELSE table[i].cols[c]
  OBVIOUS
<1>. HIDE DEF cs
<1>4. \A i \in Ids : new(i).status = table[i].status /\ new(i).cols = cs(i)
  BY <1>1 DEF RowType
<1>. HIDE DEF new
<1>5. \A i \in Ids : /\ table'[i].status = table[i].status
                     /\ \A c \in Columns : \/ table'[i].cols[c] = table[i].cols[c]
                                           \/ c \in op[p].sets /\ table'[i].cols[c] = p
  <2>1. \A i \in Ids : table'[i] = IF i \in S THEN new(i) ELSE table[i]
    BY <1>2
  <2>. QED
    BY <1>3, <1>4, <2>1
<1>6. CASE Give(p, "ok")
  <2>1. Updates(p)
    BY <1>1, <1>5, <1>6, GivesAnswer DEF Updates
  <2>. QED
    BY <1>1, <1>6, <2>1, GivesAnswer DEF Frame
<1>7. CASE Advance(p)
  <2>1. todo[p] \in Seq(Statements)
    BY DEF RepositoryInvariant, Types, Statements
  <2>2. Len(todo[p]) = 1 => Tail(todo[p]) = <<>>
    BY <1>1, <2>1, AfterTheLast
  <2>3. Goes(p, "update")
    BY <1>1, <1>7, GoesOn
  <2>4. Updates(p)
    BY <1>1, <1>5, <2>2, <2>3 DEF Updates, Goes
  <2>. QED
    BY <1>1, <1>7, <2>4, GoesOn DEF Frame
<1>. QED
  BY <1>2, <1>6, <1>7

\* The removals and their undoing.
LEMMA StatusStep ==
  ASSUME RepositoryInvariant, NEW p \in Requests, NEW x, NEW status,
         \/ x = "softRemove" /\ status = "deleted"
         \/ x = "recover" /\ status = "live"
         \/ x = "remove" /\ status = "none",
         SetStatus(p, x, status)
  PROVE  Frame(p) /\ Sets(p, x, status)
<1>1. /\ At(p, x) /\ Advance(p) /\ UNCHANGED <<trail, entity, changes, unlogged>>
      /\ table \in [Ids -> RowType] /\ target[p] \in Ids
  BY DEF SetStatus, RepositoryInvariant, Types
<1>. DEFINE new == IF status = "none" THEN NoRow ELSE [table[target[p]] EXCEPT !.status = status]
<1>2. table' = IF Exists(target[p]) THEN [table EXCEPT ![target[p]] = new] ELSE table
  BY DEF SetStatus
<1>3. /\ new.status = status
      /\ \A c \in Columns : \/ new.cols[c] = table[target[p]].cols[c]
                            \/ x = "remove" /\ new.cols[c] = Existing
  <2>1. table[target[p]] \in RowType
    BY <1>1
  <2>2. /\ NoRow.status = "none"
        /\ \A c \in Columns : NoRow.cols[c] = Existing
    BY DEF NoRow, Row
  <2>. QED
    BY <2>1, <2>2 DEF RowType
<1>. HIDE DEF new
<1>4. Sets(p, x, status)
  BY <1>1, <1>2, <1>3, GoesOn DEF Sets
<1>. QED
  BY <1>1, <1>4, GoesOn DEF Frame

\* Every step of a request that has arrived is one of those.
LEMMA Steps ==
  ASSUME RepositoryInvariant, NEW p \in Requests, Serve(p), ~Call(p)
  PROVE  Frame(p) /\ Does(p)
<1>1. CASE LogAudit(p)
  <2>1. At(p, "log") /\ Advance(p) /\ UNCHANGED <<table, entity, changes>>
    BY <1>1 DEF LogAudit
  <2>. QED
    BY <2>1, GoesOn DEF Frame, Does, Logs
<1>2. CASE Fail(p)
  <2>1. state[p] = "busy" /\ Give(p, "error") /\ UNCHANGED <<table, entity, changes>>
    BY <1>2 DEF Fail
  <2>. QED
    BY <2>1, GivesAnswer DEF Frame, Does, Ends
<1>3. CASE SetStatus(p, "softRemove", "deleted")
  BY <1>3, StatusStep DEF Does
<1>4. CASE SetStatus(p, "recover", "live")
  BY <1>4, StatusStep DEF Does
<1>5. CASE SetStatus(p, "remove", "none")
  BY <1>5, StatusStep DEF Does
<1>6. CASE SaveLoad(p) \/ Insert(p) \/ Update(p)
  BY <1>6, LoadStep, InsertStep, UpdateStep DEF Does
<1>. QED
  BY <1>1, <1>2, <1>3, <1>4, <1>5, <1>6, LookupStep, WriteStep DEF Serve

--------------------------------------------------------------------------------
\* What a request has before it at a statement.
LEMMA HeadFacts ==
  ASSUME AnsweredInvariant, NEW p \in Requests, NEW x, todo[p] # <<>>, Head(todo[p]) = x
  PROVE  /\ Fits(op[p], x) /\ Tidy(op[p], Tail(todo[p]))
         /\ x \in Mutators => AllLog(Tail(todo[p])) /\ Pending(p)
         /\ x \in Finds \cup {"load"} => ~AllLog(Tail(todo[p])) /\ Pending(p)
         /\ x = "log" => (AllLog(Tail(todo[p])) <=> AllLog(todo[p]))
         /\ Writing(Tail(todo[p])) => x = "load"
         /\ x \in Finds \/ Found(p) \/ op[p].logs \in {"create", "bulk"}
         /\ Len(todo[p]) = 1 <=> Tail(todo[p]) = <<>>
<1>1. todo[p] \in Seq(Statements) /\ Stage(p)
  BY DEF AnsweredInvariant, RepositoryInvariant, Types, Statements
<1>2. Tidy(op[p], todo[p])
  BY <1>1 DEF Stage
<1>3. x \in Mutators \cup Finds \cup {"load"} => x # "log"
  BY DEF Mutators, Finds
<1>4. x \in Finds \/ Found(p) \/ op[p].logs \in {"create", "bulk"}
  BY <1>1 DEF Stage, Finding
<1>5. /\ Fits(op[p], x) /\ Tidy(op[p], Tail(todo[p]))
      /\ x \in Mutators => AllLog(Tail(todo[p]))
      /\ x \in Finds \cup {"load"} => ~AllLog(Tail(todo[p]))
      /\ AllLog(Tail(todo[p])) /\ x = "log" => AllLog(todo[p])
      /\ AllLog(todo[p]) => x = "log" /\ AllLog(Tail(todo[p]))
      /\ Writing(Tail(todo[p])) => x = "load"
  BY <1>1, <1>2, TidyTail
<1>6. Len(todo[p]) = 1 <=> Tail(todo[p]) = <<>>
  BY <1>1, AfterTheLast
<1>. QED
  BY <1>3, <1>4, <1>5, <1>6 DEF Pending

\* With nothing left.
LEMMA NothingLeft ==
  ASSUME NEW o
  PROVE  AllLog(<<>>) /\ Tidy(o, <<>>) /\ ~Writing(<<>>) /\ ~Finding(<<>>)
BY DEF AllLog, Tidy, Writing, Finding

\* The requests after another are the same, and what they excuse.
LEMMA ExcusedKept ==
  ASSUME NEW p \in Requests, Frame(p), NEW r \in Requests
  PROVE  Since(r)' = Since(r) /\ (Excused(r)' <=> Excused(r))
<1>1. \A q \in Requests : state'[q] # "new" <=> state[q] # "new"
  BY DEF Frame
<1>2. op' = op /\ target' = target /\ before' = before
  BY DEF Frame
<1>3. Since(r)' = Since(r)
  BY <1>1, <1>2 DEF Since
<1>4. \A q \in Requests : /\ Reverses(q, r)' <=> Reverses(q, r)
                          /\ Saves(q)' <=> Saves(q)
                          /\ Overlaps(q, r)' <=> Overlaps(q, r)
  BY <1>2 DEF Reverses, Saves, Overlaps
<1>5. Since(r) \subseteq Requests
  BY DEF Since
<1>. QED
  BY <1>3, <1>4, <1>5 DEF Excused

\* A request is no more new than it was, and has no more ahead.
LEMMA PendingKept ==
  ASSUME AnsweredInvariant, NEW p \in Requests, Frame(p), Does(p), NEW r \in Requests
  PROVE  /\ Pending(r)' => Pending(r)
         /\ r = p /\ Pending(r)' => \/ Ends(p) \/ Logs(p) \/ Loads(p)
                                    \/ Looks(p, "find") \/ Looks(p, "findDeleted")
<1>1. CASE r # p
  BY <1>1 DEF Pending, Frame
<1>2. CASE r = p
  <2>1. state'[p] # "new"
    BY DEF Frame
  <2>2. CASE Ends(p)
    BY <1>2, <2>1, <2>2, NothingLeft DEF Ends, Pending
  <2>3. CASE Logs(p)
    BY <1>2, <2>1, <2>3, HeadFacts DEF Logs, Goes, Pending
  <2>4. CASE Looks(p, "find") \/ Looks(p, "findDeleted") \/ Loads(p)
    BY <1>2, <2>4, HeadFacts DEF Looks, Loads, Goes, Finds
  <2>5. CASE Inserts(p)
    BY <1>2, <2>1, <2>5, HeadFacts DEF Inserts, Goes, Mutators, Pending
  <2>6. CASE Updates(p)
    BY <1>2, <2>1, <2>6, HeadFacts, NothingLeft DEF Updates, Mutators, Pending
  <2>7. CASE Writes(p)
    BY <1>2, <2>1, <2>7, HeadFacts DEF Writes, Goes, Mutators, Pending
  <2>8. CASE Sets(p, "softRemove", "deleted") \/ Sets(p, "recover", "live") \/ Sets(p, "remove", "none")
    BY <1>2, <2>1, <2>8, HeadFacts DEF Sets, Goes, Mutators, Pending
  <2>. QED
    BY <1>2, <2>2, <2>3, <2>4, <2>5, <2>6, <2>7, <2>8 DEF Does
<1>. QED
  BY <1>1, <1>2

\* The requests before another.
LEMMA PastKept ==
  ASSUME AnsweredInvariant, NEW p \in Requests, Frame(p), NEW r \in Requests
  PROVE  Past(r)'
<1>1. /\ \A q \in before[r] : q \in Requests /\ Answered(q) /\ r \notin before[q]
      /\ state[r] = "new" => before[r] = {}
  BY DEF AnsweredInvariant, Past
<1>2. \A q \in Requests : Answered(q) => Answered(q)'
  BY DEF Answered, Frame
<1>3. before' = before /\ (state'[r] = "new" => state[r] = "new")
  BY DEF Frame
<1>. QED
  BY <1>1, <1>2, <1>3 DEF Past

\* How far a request is.
LEMMA StageKept ==
  ASSUME AnsweredInvariant, NEW p \in Requests, Frame(p), Does(p), NEW r \in Requests
  PROVE  Stage(r)'
<1>1. Stage(r)
  BY DEF AnsweredInvariant
<1>2. op' = op /\ target' = target /\ state[p] = "busy" /\ state'[p] # "new"
  BY DEF Frame
<1>3. CASE r # p
  <2>1. state'[r] = state[r] /\ todo'[r] = todo[r] /\ entity'[r] = entity[r]
    BY <1>3 DEF Frame
  <2>. QED
    BY <1>1, <1>2, <2>1 DEF Stage, Found
<1>4. CASE r = p
  <2>1. op[p].logs = "create" => target[p] = <<p, 1>>
    BY <1>1, <1>2, <1>4 DEF Stage
  <2>2. CASE todo'[p] = <<>> /\ UNCHANGED entity
    <3>1. Tidy(op[p], <<>>)
      BY NothingLeft
    <3>. QED
      BY <1>1, <1>2, <1>4, <2>1, <2>2, <3>1 DEF Stage, Found
  <2>3. ASSUME NEW x, todo[p] # <<>>, Head(todo[p]) = x, todo'[p] = Tail(todo[p]),
               state'[p] # "busy" => todo'[p] = <<>>, x \notin Finds, UNCHANGED entity
        PROVE  Stage(p)'
    <3>1. Tidy(op[p], todo'[p]) /\ (Found(p) \/ op[p].logs \in {"create", "bulk"})
      BY <2>3, HeadFacts
    <3>. QED
      BY <1>1, <1>2, <1>4, <2>1, <2>3, <3>1 DEF Stage, Found
  <2>4. ASSUME NEW x \in Finds, Looks(p, x) PROVE Stage(p)'
    <3>1. Tidy(op[p], todo'[p]) /\ (state'[p] # "busy" => todo'[p] = <<>>)
      BY <2>4, HeadFacts DEF Looks, Goes
    <3>2. Found(p)'
      BY <2>4 DEF Looks, Found, Exists
    <3>3. op[p].logs = "update" => x = "find"
      BY <2>4, HeadFacts DEF Looks, Goes, Fits, Finds
    <3>4. op[p].logs = "update" => entity'[p].status = "live"
      BY <2>4, <3>3 DEF Looks
    <3>. QED
      BY <1>2, <2>1, <3>1, <3>2, <3>4 DEF Stage
  <2>5. ASSUME NEW x, Goes(p, x), x \notin Finds, UNCHANGED entity PROVE Stage(p)'
    <3>1. state'[p] # "busy" => todo'[p] = <<>>
      BY <2>5, HeadFacts DEF Goes
    <3>. QED
      BY <2>3, <2>5, <3>1 DEF Goes
  <2>6. CASE Ends(p)
    BY <1>4, <2>2, <2>6 DEF Ends
  <2>7. CASE Looks(p, "find") \/ Looks(p, "findDeleted")
    BY <1>4, <2>4, <2>7 DEF Finds
  <2>8. CASE Updates(p)
    <3>1. state'[p] \in {"busy", "ok", "missing", "error"}
      BY DEF Frame
    <3>2. todo'[p] = <<>> \/ todo'[p] = Tail(todo[p])
      BY <2>8 DEF Updates
    <3>3. state'[p] # "busy" => todo'[p] = <<>>
      BY <2>8, <3>1 DEF Updates
    <3>. QED
      BY <1>4, <2>2, <2>3, <2>8, <3>2, <3>3 DEF Updates, Finds
  <2>9. CASE Logs(p) \/ Loads(p) \/ Writes(p)
    BY <1>4, <2>5, <2>9 DEF Logs, Loads, Writes, Finds
  <2>10. CASE Inserts(p)
    BY <1>4, <2>5, <2>10 DEF Inserts, Finds
  <2>11. CASE \/ Sets(p, "softRemove", "deleted") \/ Sets(p, "recover", "live")
              \/ Sets(p, "remove", "none")
    BY <1>4, <2>5, <2>11 DEF Sets, Finds
  <2>. QED
    BY <2>6, <2>7, <2>8, <2>9, <2>10, <2>11 DEF Does
<1>. QED
  BY <1>3, <1>4

--------------------------------------------------------------------------------
\* The write of a save is one of a row that was found, by an update.
LEMMA WriteFacts ==
  ASSUME AnsweredInvariant, NEW p \in Requests, Writes(p)
  PROVE  /\ Found(p) /\ entity[p].status = "live" /\ op[p].logs = "update"
         /\ op[p].sets \subseteq changes[p].cols /\ AllLog(todo'[p])
<1>1. /\ Fits(op[p], "write") /\ AllLog(Tail(todo[p]))
      /\ "write" \in Finds \/ Found(p) \/ op[p].logs \in {"create", "bulk"}
      /\ todo'[p] = Tail(todo[p])
  BY HeadFacts DEF Writes, Goes, Mutators
<1>2. Stage(p) /\ Changed(p) /\ Writing(todo[p])
  BY DEF AnsweredInvariant, Writes, Goes, Writing
<1>. QED
  BY <1>1, <1>2 DEF Stage, Changed, Fits, Finds

\* Rows come by inserts, the one of a save too, and go by removals.
LEMMA RowsKept ==
  ASSUME AnsweredInvariant, NEW p \in Requests, Frame(p), Does(p), NEW i \in Ids
  PROVE  /\ Exists(i)' => \/ Exists(i)
                          \/ Inserts(p) /\ i \in {<<p, 1>>, <<p, 2>>}
                          \/ Writes(p) /\ i = target[p]
         /\ Exists(i) => Exists(i)' \/ (Sets(p, "remove", "none") /\ i = target[p])
<1>1. CASE UNCHANGED table
  BY <1>1 DEF Exists
<1>2. CASE Inserts(p)
  <2>1. Row("live", p).status = "live"
    BY DEF Row
  <2>. QED
    BY <1>2, <2>1 DEF Inserts, Exists
<1>3. CASE Updates(p)
  BY <1>3 DEF Updates, Exists
<1>4. CASE Writes(p)
  <2>1. Found(p)
    BY <1>4, WriteFacts
  <2>. QED
    BY <1>4, <2>1 DEF Writes, Exists, Found
<1>5. CASE Sets(p, "softRemove", "deleted") \/ Sets(p, "recover", "live")
  BY <1>5 DEF Sets, Exists
<1>6. CASE Sets(p, "remove", "none")
  BY <1>6 DEF Sets, Exists
<1>. QED
  BY <1>1, <1>2, <1>3, <1>4, <1>5, <1>6 DEF Does, Ends, Logs, Looks, Loads

\* The rows that are not made yet.
LEMMA UnbornKept ==
  ASSUME AnsweredInvariant, NEW p \in Requests, Frame(p), Does(p), NEW r \in Requests
  PROVE  Unborn(r)'
<1>. SUFFICES ASSUME Pending(r)', NEW n \in {1, 2}
              PROVE  /\ ~Exists(<<r, n>>)'
                     /\ \A q \in Requests \ {r} : state'[q] # "new" => target'[q] # <<r, n>>
  BY DEF Unborn
<1>1. Pending(r) /\ Unborn(r)
  BY PendingKept DEF AnsweredInvariant
<1>2. \A q \in Requests : target'[q] = target[q] /\ (state'[q] # "new" <=> state[q] # "new")
  BY DEF Frame
<1>3. \A q \in Requests \ {r} : state'[q] # "new" => target'[q] # <<r, n>>
  BY <1>1, <1>2 DEF Unborn
<1>4. ~Exists(<<r, n>>)'
  <2>1. <<r, n>> \in Ids /\ ~Exists(<<r, n>>)
    BY <1>1 DEF Ids, Unborn
  <2>2. ~(Inserts(p) /\ <<r, n>> \in {<<p, 1>>, <<p, 2>>})
    <3>1. CASE r # p
      BY <3>1
    <3>2. CASE r = p
      <4>1. Inserts(p) => Goes(p, "insert") \/ Goes(p, "insertMany")
        BY DEF Inserts
      <4>2. Inserts(p) => AllLog(todo'[p]) /\ state'[p] # "new"
        BY <4>1, HeadFacts DEF Goes, Mutators
      <4>. QED
        BY <3>2, <4>2 DEF Pending
    <3>. QED
      BY <3>1, <3>2
  <2>3. ~(Writes(p) /\ <<r, n>> = target[p])
    <3>1. CASE r # p
      BY <1>1, <3>1 DEF Unborn, Frame
    <3>2. CASE r = p
      BY <3>2, WriteFacts DEF Pending, Frame
    <3>. QED
      BY <3>1, <3>2
  <2>. QED
    BY <2>1, <2>2, <2>3, RowsKept
<1>. QED
  BY <1>3, <1>4

\* The columns that are not written yet.
LEMMA UnwrittenKept ==
  ASSUME AnsweredInvariant, NEW p \in Requests, Frame(p), Does(p), NEW r \in Requests
  PROVE  Unwritten(r)'
<1>. SUFFICES ASSUME Pending(r)'
              PROVE  /\ \A i \in Ids, c \in Columns : table'[i].cols[c] # r
                     /\ \A q \in Requests, c \in Columns : entity'[q].cols[c] # r
  BY DEF Unwritten
<1>1. Pending(r) /\ Unwritten(r)
  BY PendingKept DEF AnsweredInvariant
<1>2. /\ \A i \in Ids, c \in Columns : table[i].cols[c] # r
      /\ \A q \in Requests, c \in Columns : entity[q].cols[c] # r
  BY <1>1 DEF Unwritten
<1>3. r # Existing /\ target[p] \in Ids
  BY RepositoryAssumption DEF AnsweredInvariant, RepositoryInvariant, Types
<1>4. CASE Ends(p) \/ Logs(p) \/ Loads(p)
  <2>1. UNCHANGED <<table, entity>>
    BY <1>4 DEF Ends, Logs, Loads
  <2>. QED
    BY <1>2, <2>1
<1>5. CASE Looks(p, "find") \/ Looks(p, "findDeleted")
  <2>1. /\ UNCHANGED table /\ entity'[p] = table[target[p]]
        /\ \A q \in Requests \ {p} : entity'[q] = entity[q]
    BY <1>5 DEF Looks, Frame
  <2>. QED
    BY <1>2, <1>3, <2>1
<1>6. CASE ~(Ends(p) \/ Logs(p) \/ Loads(p) \/ Looks(p, "find") \/ Looks(p, "findDeleted"))
  <2>1. r # p
    BY <1>6, PendingKept
  <2>2. CASE Inserts(p)
    <3>1. \A c \in Columns : Row("live", p).cols[c] = p
      BY DEF Row
    <3>. QED
      BY <1>2, <2>1, <2>2, <3>1 DEF Inserts
  <2>3. CASE Updates(p)
    BY <1>2, <2>1, <2>3 DEF Updates
  <2>4. CASE Writes(p)
    <3>1. entity' = entity /\ \A i \in Ids \ {target[p]} : table'[i] = table[i]
      BY <2>4 DEF Writes
    <3>2. \A c \in Columns : table'[target[p]].cols[c] \in
            {p, entity[p].cols[c], table[target[p]].cols[c]}
      BY <2>4 DEF Writes
    <3>. QED
      BY <1>2, <1>3, <2>1, <3>1, <3>2
  <2>5. ASSUME NEW x, NEW status, Sets(p, x, status)
        PROVE  /\ \A i \in Ids, c \in Columns : table'[i].cols[c] # r
               /\ \A q \in Requests, c \in Columns : entity'[q].cols[c] # r
    <3>1. entity' = entity /\ \A i \in Ids \ {target[p]} : table'[i] = table[i]
      BY <2>5 DEF Sets
    <3>2. \A c \in Columns : table'[target[p]].cols[c] \in {Existing, table[target[p]].cols[c]}
      BY <2>5 DEF Sets
    <3>. QED
      BY <1>2, <1>3, <3>1, <3>2
  <2>. QED
    BY <1>6, <2>2, <2>3, <2>4, <2>5 DEF Does
<1>. QED
  BY <1>4, <1>5, <1>6

\* What a save finds to differ.
LEMMA ChangedKept ==
  ASSUME AnsweredInvariant, NEW p \in Requests, Frame(p), Does(p), NEW r \in Requests
  PROVE  Changed(r)'
<1>1. Changed(r) /\ op' = op
  BY DEF AnsweredInvariant, Frame
<1>2. CASE r # p
  BY <1>1, <1>2 DEF Changed, Frame
<1>3. CASE r = p
  <2>. SUFFICES ASSUME Writing(todo'[p]) PROVE op[p].sets \subseteq changes'[p].cols
    BY <1>1, <1>3 DEF Changed
  <2>1. Loads(p)
    <3>1. todo'[p] # <<>>
      BY DEF Writing
    <3>2. ASSUME NEW x, Goes(p, x), x # "load" PROVE FALSE
      BY <3>2, HeadFacts DEF Goes
    <3>3. ~Updates(p)
      BY <3>1, HeadFacts DEF Updates
    <3>. QED
      BY <3>1, <3>2, <3>3 DEF Does, Ends, Logs, Looks, Inserts, Writes, Sets
  <2>2. Pending(p) /\ Unwritten(p)
    BY <2>1, HeadFacts DEF Loads, Goes, AnsweredInvariant
  <2>3. op[p].sets \subseteq Columns /\ target[p] \in Ids
    BY OperationsAreNeat DEF Neat, AnsweredInvariant, RepositoryInvariant, Types
  <2>. QED
    BY <2>1, <2>2, <2>3 DEF Unwritten, Loads
<1>. QED
  BY <1>2, <1>3

\* Rows that are gone.
LEMMA GoneKept ==
  ASSUME AnsweredInvariant, NEW p \in Requests, Frame(p), Does(p), NEW r \in Requests
  PROVE  Gone(r)'
<1>. SUFFICES ASSUME Found(r)', op'[r].logs # "hard_delete", ~Exists(target[r])'
              PROVE  \E q \in Since(r)' : op'[q].logs = "hard_delete"
  BY DEF Gone
<1>1. /\ Gone(r) /\ Since(r)' = Since(r) /\ op' = op /\ target' = target /\ target[r] \in Ids
      /\ state[p] = "busy" /\ before[r] \subseteq Requests /\ Past(r)
  BY ExcusedKept DEF Frame, AnsweredInvariant, RepositoryInvariant, Types
<1>2. ~Exists(target[r])'
  OBVIOUS
<1>3. CASE Exists(target[r])
  <2>1. Sets(p, "remove", "none") /\ target[p] = target[r]
    <3>1. table'[target[r]].status = "none"
      BY <1>1 DEF Exists
    <3>. DEFINE i == target[r]
    <3>2. i \in Ids /\ Exists(i) /\ table'[i].status = "none"
      BY <1>1, <1>3, <3>1
    <3>. HIDE DEF i
    <3>3. Sets(p, "remove", "none") /\ i = target[p]
      BY <3>2, RowsKept DEF Exists
    <3>. QED
      BY <3>3 DEF i
  <2>2. op[p].logs = "hard_delete"
    BY <2>1, HeadFacts DEF Sets, Goes, Fits
  <2>3. p \in Since(r)
    BY <1>1, <2>1, <2>2 DEF Since, Past, Answered
  <2>. QED
    BY <1>1, <2>2, <2>3
<1>4. CASE ~Exists(target[r])
  <2>1. Found(r)
    <3>1. CASE r = p /\ (Looks(p, "find") \/ Looks(p, "findDeleted"))
      BY <1>1, <1>4, <3>1 DEF Looks
    <3>2. CASE ~(r = p /\ (Looks(p, "find") \/ Looks(p, "findDeleted")))
      <4>1. entity'[r] = entity[r]
        BY <3>2 DEF Frame, Does, Ends, Logs, Loads, Inserts, Updates, Writes, Sets
      <4>. QED
        BY <4>1 DEF Found
    <3>. QED
      BY <3>1, <3>2
  <2>. QED
    BY <1>1, <1>4, <2>1 DEF Gone
<1>. QED
  BY <1>3, <1>4

--------------------------------------------------------------------------------
\* A request that is at work on the row of another comes after it, and when the
\* other is not excused it does not reverse it, and saves only what it carries.
LEMMA NotExcused ==
  ASSUME AnsweredInvariant, NEW p \in Requests, state[p] = "busy",
         NEW r \in Requests \ {p}, state[r] # "new", ~Excused(r),
         target[p] = target[r] \/ op[p].logs = "bulk"
  PROVE  /\ p \in Since(r) /\ ~Reverses(p, r)
         /\ op[p].logs = "update" => r \in before[p] /\ Answered(r)
<1>1. p \notin before[r] /\ (r \in before[p] => Answered(r))
  BY DEF AnsweredInvariant, Past, Answered
<1>2. p \in Since(r)
  BY <1>1 DEF Since
<1>3. ~Reverses(p, r) /\ (Saves(p) => ~Overlaps(p, r))
  BY <1>2 DEF Excused
<1>4. op[p].logs = "update" => Saves(p)
  <2>1. op[p] \in Operations
    BY DEF AnsweredInvariant, RepositoryInvariant, Types
  <2>2. op[p].logs = "update" => \E n \in DOMAIN op[p].does : op[p].does[n] = "load"
    BY <2>1, OperationsAreNeat DEF Neat
  <2>3. Save[1] = "load"
    BY DEF Save
  <2>. QED
    BY <2>2, <2>3 DEF Saves
<1>. QED
  BY <1>1, <1>2, <1>3, <1>4 DEF Overlaps

\* What an operation logs is one of these.
LEMMA LogsKnown ==
  ASSUME AnsweredInvariant, NEW r \in Requests
  PROVE  op[r].logs \in Actions /\ op[r].sets \subseteq Columns /\ target[r] \in Ids
<1>1. op[r] \in Operations /\ target[r] \in Ids
  BY DEF AnsweredInvariant, RepositoryInvariant, Types
<1>. QED
  BY <1>1, OperationsAreNeat, OperationsAreOrderly DEF Neat, Orderly

\* A step that leaves the row as it is, as far as the effect needs it.
LEMMA EffectKept ==
  ASSUME AnsweredInvariant, NEW p \in Requests, Frame(p), NEW r \in Requests, Effect(r),
         op[r].logs \in {"create", "delete", "restore", "hard_delete"} =>
           table'[target[r]].status = table[target[r]].status,
         op[r].logs = "update" =>
           \A c \in op[r].sets : table'[target[r]].cols[c] = table[target[r]].cols[c]
  PROVE  Effect(r)'
<1>1. op' = op /\ target' = target
  BY DEF Frame
<1>. QED
  BY <1>1, LogsKnown DEF Effect, Actions

\* What has been done stays done, whatever another request does.
LEMMA OthersSettled ==
  ASSUME AnsweredInvariant, NEW p \in Requests, Frame(p), Does(p), NEW r \in Requests \ {p}
  PROVE  Settled(r)'
<1>. SUFFICES ASSUME Done(r)', ~Excused(r)' PROVE Effect(r)'
  BY DEF Settled
<1>1. ~Excused(r) /\ op' = op /\ target' = target /\ state[p] = "busy"
  BY ExcusedKept DEF Frame
<1>2. Done(r) /\ state[r] # "new"
  BY DEF Done, Frame
<1>3. Effect(r)
  BY <1>1, <1>2 DEF AnsweredInvariant, Settled
<1>4. op[r].logs \in Actions /\ op[r].sets \subseteq Columns /\ target[r] \in Ids
  BY LogsKnown
<1>5. CASE Ends(p) \/ Logs(p) \/ Loads(p) \/ Looks(p, "find") \/ Looks(p, "findDeleted")
  <2>1. table' = table
    BY <1>5 DEF Ends, Logs, Loads, Looks
  <2>. QED
    BY <1>3, <2>1, EffectKept
<1>6. CASE Inserts(p)
  <2>1. Pending(p)
    BY <1>6, HeadFacts DEF Inserts, Goes, Mutators
  <2>2. target[r] \notin {<<p, 1>>, <<p, 2>>}
    BY <1>2, <2>1 DEF AnsweredInvariant, Unborn
  <2>3. table'[target[r]] = table[target[r]]
    BY <1>4, <1>6, <2>2 DEF Inserts
  <2>. QED
    BY <1>3, <2>3, EffectKept
<1>7. CASE Updates(p)
  <2>1. op[p].logs = "bulk"
    BY <1>7, HeadFacts DEF Updates, Fits
  <2>2. ~Reverses(p, r)
    BY <1>1, <1>2, <2>1, NotExcused
  <2>3. op[r].logs = "update" => op[p].sets \cap op[r].sets = {}
    BY <2>2 DEF Reverses
  <2>. QED
    BY <1>3, <1>4, <1>7, <2>3, EffectKept DEF Updates
<1>8. CASE target[p] # target[r] /\ ~Inserts(p) /\ ~Updates(p)
  <2>1. table'[target[r]] = table[target[r]]
    BY <1>4, <1>8 DEF Does, Ends, Logs, Loads, Looks, Writes, Sets
  <2>. QED
    BY <1>3, <2>1, EffectKept
<1>9. CASE target[p] = target[r] /\ Writes(p)
  <2>1. /\ op[p].logs = "update" /\ Found(p) /\ entity[p].status = "live"
    BY <1>9, WriteFacts
  <2>2. ~Reverses(p, r) /\ r \in before[p] /\ state[r] = "ok"
    BY <1>1, <1>2, <1>9, <2>1, NotExcused DEF Done, Answered
  <2>3. Writing(todo[p])
    BY <1>9 DEF Writes, Goes, Writing
  <2>4. /\ op[r].logs \notin {"delete", "hard_delete"}
        /\ op[r].logs = "update" =>
             \A c \in op[r].sets : entity[p].cols[c] = r /\ c \notin changes[p].cols
    BY <1>1, <1>9, <2>1, <2>2, <2>3 DEF AnsweredInvariant, Carried
  <2>5. op[r].logs = "update" => op[p].sets \cap op[r].sets = {}
    BY <2>2 DEF Reverses
  <2>6. CASE table' = table
    BY <1>3, <2>6, EffectKept
  <2>7. CASE op[r].logs \in {"create", "restore"}
    <3>1. table[target[r]].status # "none" /\ (op[r].logs = "restore" => table[target[r]].status = "live")
      BY <1>3, <2>7 DEF Effect
    <3>2. table'[target[r]].status \in {"live", table[target[r]].status}
      BY <1>9, <2>1, <3>1 DEF Writes, Exists
    <3>. QED
      BY <1>1, <2>7, <3>1, <3>2 DEF Effect
  <2>8. CASE op[r].logs = "update"
    <3>1. \A c \in op[r].sets : table[target[r]].cols[c] = r
      BY <1>3, <2>8 DEF Effect
    <3>2. \A c \in op[r].sets : table'[target[r]].cols[c] = r
      BY <1>4, <1>9, <2>4, <2>5, <2>8, <3>1 DEF Writes
    <3>. QED
      BY <1>1, <2>8, <3>2 DEF Effect
  <2>9. CASE op[r].logs = "bulk"
    BY <1>1, <2>9 DEF Effect
  <2>. QED
    BY <1>4, <2>4, <2>7, <2>8, <2>9 DEF Actions
<1>10. ASSUME target[p] = target[r], NEW x, NEW status, Sets(p, x, status),
              \/ x = "softRemove" /\ status = "deleted"
              \/ x = "recover" /\ status = "live"
              \/ x = "remove" /\ status = "none"
       PROVE  Effect(r)'
  <2>1. ~Reverses(p, r) /\ Fits(op[p], x)
    BY <1>1, <1>2, <1>10, NotExcused, HeadFacts DEF Sets, Goes
  <2>2. x # "remove"
    BY <2>1 DEF Reverses, Fits
  <2>3. /\ op[r].logs = "delete" => x # "recover"
        /\ op[r].logs = "restore" => x # "softRemove"
    BY <2>1 DEF Reverses, Fits
  <2>4. CASE table' = table
    BY <1>3, <2>4, EffectKept
  <2>5. CASE /\ Exists(target[r]) /\ table'[target[r]].status = status
             /\ \A c \in Columns : table'[target[r]].cols[c] = table[target[r]].cols[c]
    <3>1. op[r].logs # "hard_delete"
      BY <1>3, <2>5 DEF Effect, Exists
    <3>2. CASE op[r].logs \in {"create", "delete", "restore"}
      <4>1. status # "none" /\ (op[r].logs = "delete" => status = "deleted")
            /\ (op[r].logs = "restore" => status = "live")
        BY <1>10, <2>2, <2>3
      <4>. QED
        BY <1>1, <2>5, <3>2, <4>1 DEF Effect
    <3>3. CASE op[r].logs \in {"update", "bulk"}
      BY <1>3, <1>4, <2>5, <3>3, EffectKept
    <3>. QED
      BY <1>4, <3>1, <3>2, <3>3 DEF Actions
  <2>. QED
    BY <1>10, <2>2, <2>4, <2>5 DEF Sets
<1>. QED
  BY <1>5, <1>6, <1>7, <1>8, <1>9, <1>10 DEF Does

--------------------------------------------------------------------------------
\* What a request does is done when it has done it, unless the row is gone.
LEMMA OwnSettled ==
  ASSUME AnsweredInvariant, NEW p \in Requests, Frame(p), Does(p)
  PROVE  Settled(p)'
<1>. SUFFICES ASSUME Done(p)', ~Excused(p)' PROVE Effect(p)'
  BY DEF Settled
<1>1. ~Excused(p) /\ op' = op /\ target' = target /\ state[p] = "busy"
  BY ExcusedKept DEF Frame
<1>2. op[p].logs \in Actions /\ op[p].sets \subseteq Columns /\ target[p] \in Ids
  BY LogsKnown
<1>3. AllLog(todo'[p]) /\ state'[p] \in {"busy", "ok"}
  BY DEF Done
<1>4. ~Exists(target[p]) /\ Found(p) => op[p].logs = "hard_delete"
  <2>1. ASSUME ~Exists(target[p]), Found(p), op[p].logs # "hard_delete" PROVE FALSE
    <3>1. \E q \in Since(p) : op[q].logs = "hard_delete"
      BY <2>1 DEF AnsweredInvariant, Gone
    <3>. QED
      BY <1>1, <3>1 DEF Excused, Reverses
  <2>. QED
    BY <2>1
<1>5. CASE Ends(p)
  BY <1>3, <1>5 DEF Ends
<1>6. CASE Logs(p)
  <2>1. Done(p)
    BY <1>1, <1>3, <1>6, HeadFacts DEF Logs, Goes, Done
  <2>2. Effect(p) /\ table' = table
    BY <1>1, <1>6, <2>1 DEF AnsweredInvariant, Settled, Logs
  <2>. QED
    BY <2>2, EffectKept
<1>7. CASE Loads(p) \/ Looks(p, "find") \/ Looks(p, "findDeleted")
  BY <1>3, <1>7, HeadFacts DEF Loads, Looks, Goes, Finds
<1>8. CASE Inserts(p)
  <2>1. op[p].logs = "create"
    BY <1>8, HeadFacts DEF Inserts, Goes, Fits
  <2>2. target[p] = <<p, 1>>
    BY <1>1, <2>1 DEF AnsweredInvariant, Stage
  <2>3. table'[target[p]].status = "live"
    BY <1>8, <2>2 DEF Inserts, Row
  <2>. QED
    BY <1>1, <2>1, <2>3 DEF Effect
<1>9. CASE Updates(p)
  <2>1. op[p].logs = "bulk"
    BY <1>9, HeadFacts DEF Updates, Fits
  <2>. QED
    BY <1>1, <2>1 DEF Effect
<1>10. CASE Writes(p)
  <2>1. Found(p) /\ op[p].logs = "update" /\ op[p].sets \subseteq changes[p].cols
    BY <1>10, WriteFacts
  <2>2. Exists(target[p])
    BY <1>4, <2>1
  <2>3. \A c \in op[p].sets : table'[target[p]].cols[c] = p
    BY <1>2, <1>10, <2>1, <2>2 DEF Writes
  <2>. QED
    BY <1>1, <2>1, <2>3 DEF Effect
<1>11. CASE Sets(p, "softRemove", "deleted")
  <2>1. op[p].logs = "delete" /\ Found(p)
    BY <1>11, HeadFacts DEF Sets, Goes, Fits, Finds
  <2>2. table'[target[p]].status = "deleted"
    BY <1>4, <1>11, <2>1 DEF Sets
  <2>. QED
    BY <1>1, <2>1, <2>2 DEF Effect
<1>12. CASE Sets(p, "recover", "live")
  <2>1. op[p].logs = "restore" /\ Found(p)
    BY <1>12, HeadFacts DEF Sets, Goes, Fits, Finds
  <2>2. table'[target[p]].status = "live"
    BY <1>4, <1>12, <2>1 DEF Sets
  <2>. QED
    BY <1>1, <2>1, <2>2 DEF Effect
<1>13. CASE Sets(p, "remove", "none")
  <2>1. op[p].logs = "hard_delete"
    BY <1>13, HeadFacts DEF Sets, Goes, Fits
  <2>2. table'[target[p]].status = "none"
    BY <1>13 DEF Sets, Exists
  <2>. QED
    BY <1>1, <2>1, <2>2 DEF Effect
<1>. QED
  BY <1>5, <1>6, <1>7, <1>8, <1>9, <1>10, <1>11, <1>12, <1>13 DEF Does

\* A save that came after an answer carries it on.
LEMMA CarriedKept ==
  ASSUME AnsweredInvariant, NEW p \in Requests, Frame(p), Does(p),
         NEW q \in Requests, NEW r \in Requests
  PROVE  Carried(q, r)'
<1>. DEFINE Carries(e, c1, t) ==
       /\ op[r].logs \notin {"delete", "hard_delete"}
       /\ op[r].logs = "update" =>
            \A c \in op[r].sets : e.cols[c] = r /\ (Writing(t) => c \notin c1.cols)
<1>. SUFFICES ASSUME r \in before'[q], state'[r] = "ok", target'[q] = target'[r],
                     op'[q].logs = "update", Found(q)', state'[q] = "busy", ~Excused(r)'
              PROVE  Carries(entity'[q], changes'[q], todo'[q])
  <2>1. op' = op
    BY DEF Frame
  <2>. QED
    BY <2>1 DEF Carried
<1>1. /\ ~Excused(r) /\ op' = op /\ target' = target /\ before' = before /\ state[p] = "busy"
      /\ r \in before[q] /\ target[q] = target[r] /\ op[q].logs = "update"
  BY ExcusedKept DEF Frame
<1>2. state[r] = "ok" /\ r # p /\ state[q] = "busy"
  <2>1. r # p
    BY <1>1 DEF AnsweredInvariant, Past, Answered
  <2>. QED
    BY <1>1, <2>1 DEF Frame
<1>3. r # q
  BY <1>2
<1>4. CASE q # p
  <2>1. entity'[q] = entity[q] /\ changes'[q] = changes[q] /\ todo'[q] = todo[q]
    BY <1>4 DEF Frame
  <2>2. Carries(entity[q], changes[q], todo[q])
    BY <1>1, <1>2, <2>1 DEF AnsweredInvariant, Carried, Found
  <2>. QED
    BY <2>1, <2>2
<1>5. CASE q = p
  <2>1. Effect(r)
    <3>1. todo[r] = <<>>
      BY <1>2 DEF AnsweredInvariant, Stage
    <3>2. Done(r)
      BY <1>2, <3>1, NothingLeft DEF Done
    <3>. QED
      BY <1>1, <3>2 DEF AnsweredInvariant, Settled
  <2>2. op[r].sets \subseteq Columns
    BY LogsKnown
  <2>3. CASE Looks(p, "find")
    <3>1. /\ table[target[r]].status = "live" /\ entity'[p] = table[target[r]]
          /\ ~Writing(todo'[p])
      BY <1>1, <1>5, <2>3, HeadFacts DEF Looks, Goes
    <3>. QED
      BY <1>5, <2>1, <3>1 DEF Effect
  <2>4. CASE Looks(p, "findDeleted")
    BY <1>1, <1>5, <2>4, HeadFacts DEF Looks, Goes, Fits
  <2>5. CASE Loads(p)
    <3>1. Found(p) /\ entity' = entity
      BY <1>5, <2>5 DEF Loads, Found
    <3>2. Carries(entity[p], changes[p], todo[p])
      BY <1>1, <1>2, <1>5, <3>1 DEF AnsweredInvariant, Carried
    <3>3. ~Reverses(p, r)
      BY <1>1, <1>2, <1>3, <1>5, NotExcused
    <3>4. op[r].logs = "update" => op[p].sets \cap op[r].sets = {}
      BY <3>3 DEF Reverses
    <3>5. op[r].logs = "update" => \A c \in op[r].sets : c \notin changes'[p].cols
      <4>1. op[r].logs = "update" => \A c \in op[r].sets : table[target[p]].cols[c] = r
        BY <1>1, <1>5, <2>1 DEF Effect
      <4>. QED
        BY <2>2, <2>5, <3>2, <3>4, <4>1 DEF Loads
    <3>. QED
      BY <1>5, <3>1, <3>2, <3>5
  <2>6. CASE UNCHANGED <<entity, changes>> /\ ~Writing(todo'[p])
    <3>1. Found(p)
      BY <1>5, <2>6 DEF Found
    <3>2. Carries(entity[p], changes[p], todo[p])
      BY <1>1, <1>2, <1>5, <3>1 DEF AnsweredInvariant, Carried
    <3>. QED
      BY <1>5, <2>6, <3>2
  <2>7. ASSUME NEW x, Goes(p, x), x # "load" PROVE ~Writing(todo'[p])
    BY <2>7, HeadFacts DEF Goes
  <2>8. CASE Ends(p)
    BY <1>2, <1>5, <2>8 DEF Ends
  <2>9. CASE Updates(p)
    <3>1. ~Writing(todo'[p])
      BY <2>9, HeadFacts, NothingLeft DEF Updates
    <3>. QED
      BY <2>6, <2>9, <3>1 DEF Updates
  <2>10. CASE Logs(p) \/ Inserts(p) \/ Writes(p)
    BY <2>6, <2>7, <2>10 DEF Logs, Inserts, Writes
  <2>11. CASE \/ Sets(p, "softRemove", "deleted") \/ Sets(p, "recover", "live")
              \/ Sets(p, "remove", "none")
    BY <2>6, <2>7, <2>11 DEF Sets
  <2>. QED
    BY <2>3, <2>4, <2>5, <2>8, <2>9, <2>10, <2>11 DEF Does
<1>. QED
  BY <1>4, <1>5

--------------------------------------------------------------------------------
\* At first nobody has come.
LEMMA AnsweredInit == Init => AnsweredInvariant
<1>. SUFFICES ASSUME Init PROVE AnsweredInvariant
  OBVIOUS
<1>1. RepositoryInvariant
  BY RepositoryInit
<1>2. before \in [Requests -> SUBSET Requests]
  BY DEF Init
<1>3. NoRow.status = "none" /\ \A c \in Columns : NoRow.cols[c] = Existing
  BY DEF NoRow, Row
<1>4. ASSUME NEW r \in Requests
      PROVE  Past(r) /\ Stage(r) /\ Unborn(r) /\ Unwritten(r) /\ Changed(r) /\ Gone(r) /\ Settled(r)
  <2>1. /\ state[r] = "new" /\ todo[r] = <<>> /\ before[r] = {} /\ entity[r] = NoRow
    BY DEF Init
  <2>2. r # Existing /\ \A n \in {1, 2} : <<r, n>> # Existing /\ <<r, n>> \in Ids
    BY RepositoryAssumption DEF Ids
  <2>3. Past(r) /\ Changed(r) /\ Settled(r) /\ ~Found(r)
    BY <1>3, <2>1, NothingLeft DEF Past, Changed, Settled, Done, Found
  <2>4. Stage(r) /\ Gone(r)
    BY <2>1, <2>3, NothingLeft DEF Stage, Gone
  <2>5. Unborn(r)
    BY <1>3, <2>2 DEF Unborn, Init, Exists
  <2>6. Unwritten(r)
    <3>1. \A i \in Ids : table[i] = Row("live", Existing) \/ table[i] = NoRow
      BY DEF Init
    <3>2. \A c \in Columns : Row("live", Existing).cols[c] = Existing
      BY DEF Row
    <3>3. \A q \in Requests : entity[q] = NoRow
      BY DEF Init
    <3>. QED
      BY <1>3, <2>2, <3>1, <3>2, <3>3 DEF Unwritten
  <2>. QED
    BY <2>3, <2>4, <2>5, <2>6
<1>5. \A q, r \in Requests : Carried(q, r)
  BY DEF Init, Carried
<1>. QED
  BY <1>1, <1>2, <1>4, <1>5 DEF AnsweredInvariant

\* The step of a request that has arrived.
LEMMA AnsweredStep ==
  ASSUME AnsweredInvariant, RepositoryInvariant', NEW p \in Requests, Serve(p), ~Call(p)
  PROVE  AnsweredInvariant'
<1>1. Frame(p) /\ Does(p)
  BY Steps DEF AnsweredInvariant
<1>2. before' \in [Requests -> SUBSET Requests]
  BY <1>1 DEF Frame, AnsweredInvariant
<1>3. ASSUME NEW r \in Requests
      PROVE  /\ Past(r)' /\ Stage(r)' /\ Unborn(r)' /\ Unwritten(r)' /\ Changed(r)' /\ Gone(r)'
             /\ Settled(r)'
  BY <1>1, PastKept, StageKept, UnbornKept, UnwrittenKept, ChangedKept, GoneKept, OwnSettled,
     OthersSettled
<1>4. \A q, r \in Requests : Carried(q, r)'
  BY <1>1, CarriedKept
<1>. QED
  BY <1>2, <1>3, <1>4 DEF AnsweredInvariant

--------------------------------------------------------------------------------
\* A request arrives: it is after all that were answered, and nobody knows it.
LEMMA AnsweredCall ==
  ASSUME AnsweredInvariant, RepositoryInvariant', NEW p \in Requests, Call(p)
  PROVE  AnsweredInvariant'
<1>1. /\ state[p] = "new" /\ state' = [state EXCEPT ![p] = "busy"]
      /\ before' = [before EXCEPT ![p] = {q \in Requests : Answered(q)}]
      /\ UNCHANGED <<table, trail, entity, changes, unlogged>>
  BY DEF Call
<1>2. PICK o \in Operations, i \in Ids :
        /\ op' = [op EXCEPT ![p] = o]
        /\ todo' = [todo EXCEPT ![p] = o.does]
        /\ target' = [target EXCEPT ![p] = i]
        /\ IF o.logs = "create" THEN i = <<p, 1>> ELSE Exists(i) \/ i = Existing
  <2>1. <<p, 1>> \in Ids /\ Existing \in Ids
    BY DEF Ids
  <2>. QED
    BY <2>1 DEF Call
<1>3. /\ state \in [Requests -> {"new", "busy", "ok", "missing", "error"}]
      /\ op \in [Requests -> Operations] /\ target \in [Requests -> Ids]
      /\ todo \in [Requests -> Seq(Statements)]
      /\ before \in [Requests -> SUBSET Requests]
  BY DEF AnsweredInvariant, RepositoryInvariant, Types, Statements
<1>4. /\ state'[p] = "busy" /\ op'[p] = o /\ todo'[p] = o.does /\ target'[p] = i
      /\ before'[p] = {q \in Requests : Answered(q)}
      /\ before' \in [Requests -> SUBSET Requests]
  BY <1>1, <1>2, <1>3
<1>5. \A r \in Requests \ {p} :
        /\ state'[r] = state[r] /\ op'[r] = op[r] /\ todo'[r] = todo[r]
        /\ target'[r] = target[r] /\ before'[r] = before[r]
  BY <1>1, <1>2, <1>3
<1>6. Neat(o)
  BY OperationsAreNeat
<1>7. /\ Past(p) /\ Stage(p) /\ Unborn(p) /\ Unwritten(p)
      /\ ~Found(p) /\ Pending(p) /\ \A r \in Requests : p \notin before[r]
  <2>1. ASSUME NEW r \in Requests PROVE p \notin before[r]
    BY <1>1 DEF AnsweredInvariant, Past, Answered
  <2>. QED
    BY <1>1, <2>1 DEF AnsweredInvariant, Stage, Pending
<1>8. ASSUME NEW r \in Requests, r # p
      PROVE  /\ Excused(r) => Excused(r)'
             /\ Since(r) \subseteq Since(r)'
             /\ \A q \in Since(r) : op'[q] = op[q]
  <2>1. \A q \in Since(r) : q \in Requests /\ q # p
    BY <1>1 DEF Since
  <2>2. \A q \in Since(r) : q \in Since(r)' /\ op'[q] = op[q]
    BY <1>5, <1>8, <2>1 DEF Since
  <2>3. ASSUME NEW q \in Since(r), Reverses(q, r) PROVE Reverses(q, r)'
    BY <1>5, <1>8, <2>1, <2>3 DEF Reverses
  <2>4. ASSUME NEW q \in Since(r), Saves(q), Overlaps(q, r) PROVE Saves(q)' /\ Overlaps(q, r)'
    BY <1>5, <1>8, <2>1, <2>4 DEF Saves, Overlaps
  <2>. QED
    BY <2>2, <2>3, <2>4 DEF Excused
<1>9. \A r \in Requests : Past(r)'
  <2>1. \A q \in Requests : Answered(q) => q # p /\ Answered(q)'
    BY <1>1, <1>5 DEF Answered
  <2>2. ASSUME NEW r \in Requests, r # p PROVE Past(r)'
    <3>1. \A q \in before[r] : q \in Requests /\ Answered(q) /\ r \notin before[q]
      BY <1>3 DEF AnsweredInvariant, Past
    <3>2. \A q \in before[r] : q # p /\ before'[q] = before[q]
      BY <1>5, <2>1, <3>1
    <3>3. state[r] = "new" => before[r] = {}
      BY DEF AnsweredInvariant, Past
    <3>. QED
      BY <1>5, <2>1, <2>2, <3>1, <3>2, <3>3 DEF Past
  <2>3. Past(p)'
    BY <1>4, <1>5, <1>7, <2>1 DEF Past
  <2>. QED
    BY <2>2, <2>3
<1>10. \A r \in Requests : Stage(r)'
  <2>1. ASSUME NEW r \in Requests, r # p PROVE Stage(r)'
    <3>1. Stage(r) /\ entity' = entity
      BY <1>1 DEF AnsweredInvariant
    <3>. QED
      BY <1>5, <2>1, <3>1 DEF Stage, Found
  <2>2. Stage(p)'
    <3>1. Finding(o.does) \/ o.logs \in {"create", "bulk"}
      BY <1>6 DEF Neat
    <3>2. Tidy(o, o.does)
      BY <1>6 DEF Neat
    <3>3. ~Found(p)'
      BY <1>1, <1>7 DEF Found
    <3>. QED
      BY <1>2, <1>4, <3>1, <3>2, <3>3 DEF Stage
  <2>. QED
    BY <2>1, <2>2
<1>11. \A r \in Requests : Pending(r)' => Pending(r)
  BY <1>5, <1>7 DEF Pending
<1>12. \A r \in Requests : Unborn(r)'
  <2>1. ASSUME NEW r \in Requests, Pending(r)', NEW n \in {1, 2}
        PROVE  /\ ~Exists(<<r, n>>)'
               /\ \A q \in Requests \ {r} : state'[q] # "new" => target'[q] # <<r, n>>
    <3>1. /\ ~Exists(<<r, n>>)
          /\ \A q \in Requests \ {r} : state[q] # "new" => target[q] # <<r, n>>
      BY <1>11, <2>1 DEF AnsweredInvariant, Unborn
    <3>2. <<r, n>> # Existing
      BY RepositoryAssumption
    <3>3. r # p => i # <<r, n>>
      BY <1>2, <3>1, <3>2
    <3>4. ~Exists(<<r, n>>)'
      BY <1>1, <3>1 DEF Exists
    <3>. QED
      BY <1>4, <1>5, <3>1, <3>3, <3>4
  <2>. QED
    BY <2>1 DEF Unborn
<1>13. \A r \in Requests : Unwritten(r)'
  <2>1. ASSUME NEW r \in Requests, Pending(r)' PROVE Unwritten(r)'
    <3>1. Unwritten(r) /\ Pending(r)
      BY <1>11, <2>1 DEF AnsweredInvariant
    <3>. QED
      BY <1>1, <3>1 DEF Unwritten
  <2>. QED
    BY <2>1 DEF Unwritten
<1>14. \A r \in Requests : Changed(r)'
  <2>1. ASSUME NEW r \in Requests, r # p PROVE Changed(r)'
    <3>1. Changed(r) /\ changes' = changes
      BY <1>1 DEF AnsweredInvariant
    <3>. QED
      BY <1>5, <2>1, <3>1 DEF Changed
  <2>2. ~Writing(o.does)
    <3>1. Finding(o.does) => ~Writing(o.does)
      BY DEF Finding, Writing, Finds
    <3>2. ASSUME Writing(o.does) PROVE o.logs = "update"
      <4>1. o.does \in Seq(Statements) /\ o.does # <<>> /\ Head(o.does) = "write"
        BY <1>2, <1>3, <1>4, <3>2 DEF Writing, RepositoryInvariant, Types, Statements
      <4>2. Fits(o, "write")
        BY <1>6, <4>1, TidyTail DEF Neat
      <4>. QED
        BY <4>2 DEF Fits
    <3>. QED
      BY <1>6, <3>1, <3>2 DEF Neat
  <2>3. Changed(p)'
    BY <1>4, <2>2 DEF Changed
  <2>. QED
    BY <2>1, <2>3
<1>15. \A r \in Requests : Gone(r)'
  <2>1. ASSUME NEW r \in Requests, r # p PROVE Gone(r)'
    <3>1. Gone(r) /\ entity' = entity /\ table' = table
      BY <1>1 DEF AnsweredInvariant
    <3>2. (Exists(target[r]))' <=> Exists(target[r])
      BY <1>5, <2>1, <3>1 DEF Exists
    <3>3. Found(r)' <=> Found(r)
      BY <3>1 DEF Found
    <3>. QED
      BY <1>5, <1>8, <2>1, <3>1, <3>2, <3>3 DEF Gone
  <2>2. ~Found(p)'
    BY <1>1, <1>7 DEF Found
  <2>. QED
    BY <2>1, <2>2 DEF Gone
<1>16. \A r \in Requests : Settled(r)'
  <2>1. ASSUME NEW r \in Requests, r # p PROVE Settled(r)'
    <3>1. Done(r)' <=> Done(r)
      BY <1>5, <2>1 DEF Done
    <3>2. Effect(r)' <=> Effect(r)
      BY <1>1, <1>5, <2>1 DEF Effect
    <3>. QED
      BY <1>8, <2>1, <3>1, <3>2 DEF AnsweredInvariant, Settled
  <2>2. ~AllLog(o.does)
    BY <1>6 DEF Neat
  <2>3. Settled(p)'
    BY <1>4, <2>2 DEF Settled, Done
  <2>. QED
    BY <2>1, <2>3
<1>17. \A q, r \in Requests : Carried(q, r)'
  <2>1. ASSUME NEW q \in Requests, NEW r \in Requests, q # p, r # p PROVE Carried(q, r)'
    <3>1. Carried(q, r) /\ entity' = entity /\ changes' = changes
      BY <1>1 DEF AnsweredInvariant
    <3>2. Found(q)' <=> Found(q)
      BY <3>1 DEF Found
    <3>3. ~Excused(r)' => ~Excused(r)
      BY <1>8, <2>1
    <3>. QED
      BY <1>5, <2>1, <3>1, <3>2, <3>3 DEF Carried
  <2>2. ~Found(p)' /\ state'[p] # "ok"
    BY <1>1, <1>4, <1>7 DEF Found
  <2>. QED
    BY <2>1, <2>2 DEF Carried
<1>. QED
  BY <1>4, <1>9, <1>10, <1>12, <1>13, <1>14, <1>15, <1>16, <1>17 DEF AnsweredInvariant

\* Every step keeps the invariant.
LEMMA AnsweredNext == AnsweredInvariant /\ [Next]_vars => AnsweredInvariant'
<1>. SUFFICES ASSUME AnsweredInvariant, [Next]_vars PROVE AnsweredInvariant'
  OBVIOUS
<1>1. RepositoryInvariant'
  BY RepositoryNext DEF AnsweredInvariant
<1>2. ASSUME NEW p \in Requests, Serve(p) PROVE AnsweredInvariant'
  BY <1>1, <1>2, AnsweredStep, AnsweredCall
<1>3. CASE UNCHANGED vars
  <2>1. UNCHANGED <<table, state, op, target, todo, entity, changes, before>>
    BY <1>3 DEF vars, request
  <2>2. \A q, r \in Requests : /\ Reverses(q, r)' <=> Reverses(q, r)
                               /\ Saves(q)' <=> Saves(q)
                               /\ Overlaps(q, r)' <=> Overlaps(q, r)
    BY <2>1 DEF Reverses, Saves, Overlaps
  <2>3. \A r \in Requests : Since(r)' = Since(r) /\ Since(r) \subseteq Requests
    BY <2>1 DEF Since
  <2>4. \A r \in Requests : Excused(r)' <=> Excused(r)
    BY <2>2, <2>3 DEF Excused
  <2>5. ASSUME NEW r \in Requests
        PROVE  /\ Past(r)' /\ Stage(r)' /\ Unborn(r)' /\ Unwritten(r)' /\ Changed(r)'
    <3>1. Past(r) /\ Stage(r) /\ Unborn(r) /\ Unwritten(r) /\ Changed(r)
      BY DEF AnsweredInvariant
    <3>2. Past(r)' /\ Stage(r)' /\ Changed(r)'
      BY <2>1, <3>1 DEF Past, Stage, Changed, Answered, Found
    <3>3. Unborn(r)' /\ Unwritten(r)'
      BY <2>1, <3>1 DEF Unborn, Unwritten, Pending, Exists
    <3>. QED
      BY <3>2, <3>3
  <2>6. ASSUME NEW r \in Requests PROVE Gone(r)' /\ Settled(r)'
    <3>1. Gone(r) /\ Settled(r)
      BY DEF AnsweredInvariant
    <3>2. Gone(r)'
      BY <2>1, <2>3, <3>1 DEF Gone, Found, Exists
    <3>3. (Effect(r)' <=> Effect(r)) /\ (Done(r)' <=> Done(r))
      BY <2>1 DEF Effect, Done
    <3>. QED
      BY <2>4, <3>1, <3>2, <3>3 DEF Settled
  <2>7. ASSUME NEW q \in Requests, NEW r \in Requests PROVE Carried(q, r)'
    <3>1. Carried(q, r) /\ (Found(q)' <=> Found(q))
      BY <2>1 DEF AnsweredInvariant, Found
    <3>. QED
      BY <2>1, <2>4, <3>1 DEF Carried
  <2>8. before' \in [Requests -> SUBSET Requests]
    BY <2>1 DEF AnsweredInvariant
  <2>. QED
    BY <1>1, <2>5, <2>6, <2>7, <2>8 DEF AnsweredInvariant
<1>. QED
  BY <1>2, <1>3 DEF Next, Quiet

\* Whose change is behind finds it in the table, or another request excuses it,
\* and a save that came after an answer found what was answered: save loads the
\* row and writes what differs (abstract.repository.ts:241-253).
THEOREM AnsweredInvariantHolds == Spec => []AnsweredInvariant
<1>. QED
  BY AnsweredInit, AnsweredNext, PTL DEF Spec

\* What was answered holds for any number of requests, rows and columns, until
\* another request is there to change it or a save that overlaps writes old values
\* back (abstract.repository.ts:54-387).
THEOREM AnswersHold == Spec => []AnsweredHolds
<1>1. AnsweredInvariant => AnsweredHolds
  <2>. SUFFICES ASSUME AnsweredInvariant, NEW r \in Requests, state[r] = "ok"
                PROVE  Effect(r) \/ Excused(r)
    BY DEF AnsweredHolds, Excused
  <2>1. Done(r)
    BY NothingLeft DEF AnsweredInvariant, Stage, Done
  <2>. QED
    BY <2>1 DEF AnsweredInvariant, Settled
<1>. QED
  BY <1>1, AnsweredInvariantHolds, PTL

--------------------------------------------------------------------------------
(***************************************************************************)
(* The trail explains the table.                                           *)
(***************************************************************************)
\* An operation writes one entry: after its change, or before a hard removal.
HasLog(s) == \E n \in DOMAIN s : s[n] = "log"
Audited(r) == HasLog(op[r].does)
Sorted(o, s) ==
  /\ \A n, m \in DOMAIN s : s[n] = "log" /\ s[m] = "log" => n = m
  /\ HasLog(s) => HasLog(o.does)
  /\ HasLog(o.does) /\ o.logs # "hard_delete" =>
       \A n \in DOMAIN s : s[n] # "log" => \E m \in DOMAIN s : m > n /\ s[m] = "log"
  /\ o.logs = "hard_delete" =>
       /\ HasLog(o.does)
       /\ \A n \in DOMAIN s : s[n] = "log" => \E m \in DOMAIN s : m > n /\ s[m] # "log"
       /\ \A n \in DOMAIN s : s[n] \in Finds => \E m \in DOMAIN s : m > n /\ s[m] = "log"
  /\ \A n \in DOMAIN s : s[n] \in Finds => o.logs # "create"

\* What a trail tells about a row.
Last(t, i) == {n \in DOMAIN t : t[n].id = i /\ \A m \in DOMAIN t : t[m].id = i => m <= n}
Says(t, i, status) ==
  IF Last(t, i) = {} THEN status = "live" ELSE \E n \in Last(t, i) : status = StatusAfter[t[n].action]

\* The requests about a row so far are such that its trail can be believed.
Clean(i) ==
  \A r \in About(i) :
    /\ state[r] \in {"busy", "ok", "missing"} /\ r \notin unlogged
    /\ Done(r) => Audited(r)
    /\ \A q \in About(i) : ~Overlaps(q, r)

\* What the trail says while the only request about a row is at work.
Told(r) ==
  LET i == target[r]
      status == table[i].status
      removal == op[r].logs = "hard_delete"
  IN /\ Pending(r) /\ op[r].logs # "create" /\ (removal => HasLog(todo[r])) => Says(trail, i, status)
     /\ Pending(r) /\ Found(r) => entity[r].status = status
     /\ Pending(r) /\ removal /\ ~HasLog(todo[r]) => Says(trail, i, "none")
     /\ Done(r) /\ HasLog(todo[r]) => status = StatusAfter[op[r].logs]
     /\ Done(r) /\ ~HasLog(todo[r]) => Says(trail, i, status)

TrailFits(i) ==
  Clean(i) /\ (i = Existing \/ About(i) # {}) =>
    /\ (\A r \in About(i) : state[r] # "busy") => Says(trail, i, table[i].status)
    /\ \A r \in About(i) : state[r] = "busy" => Told(r)

\* A row that nobody has asked for has no entries.
Unknown(i) ==
  About(i) = {} =>
    /\ \A n \in DOMAIN trail : trail[n].id # i
    /\ i # Existing => table[i].status \in {"none", "live"}

TrailInvariant ==
  /\ AnsweredInvariant
  /\ \A r \in Requests : Sorted(op[r], todo[r])
  /\ \A i \in Ids : TrailFits(i) /\ Unknown(i)

--------------------------------------------------------------------------------
\* The head and the tail of what is sorted.
LEMMA SortedTail ==
  ASSUME NEW o, NEW s \in Seq(Statements), s # <<>>, Sorted(o, s)
  PROVE  /\ Sorted(o, Tail(s))
         /\ Head(s) = "log" => HasLog(s) /\ ~HasLog(Tail(s))
         /\ Head(s) # "log" => (HasLog(s) <=> HasLog(Tail(s)))
         /\ Head(s) # "log" /\ HasLog(o.does) /\ o.logs # "hard_delete" => HasLog(Tail(s))
         /\ Head(s) = "log" /\ o.logs # "hard_delete" => AllLog(Tail(s))
         /\ Head(s) = "log" /\ o.logs = "hard_delete" => ~AllLog(Tail(s))
         /\ Head(s) \in Finds => o.logs # "create" /\ (o.logs = "hard_delete" => HasLog(s))
<1>. DEFINE t == Tail(s)
            h == Head(s)
<1>1. /\ Len(s) \in Nat /\ Len(s) >= 1 /\ Len(t) = Len(s) - 1
      /\ DOMAIN s = 1 .. Len(s) /\ DOMAIN t = 1 .. Len(t)
      /\ \A n \in 1 .. Len(s) - 1 : t[n] = s[n + 1]
      /\ h = s[1]
  OBVIOUS
<1>. HIDE DEF t, h
<1>2. \A n \in DOMAIN s : n > 1 => n - 1 \in DOMAIN t /\ t[n - 1] = s[n]
  BY <1>1
<1>3. \A n \in DOMAIN t : n + 1 \in DOMAIN s /\ n + 1 > 1 /\ t[n] = s[n + 1]
  BY <1>1
<1>4. 1 \in DOMAIN s /\ \A n \in DOMAIN s : n \in Int /\ (n = 1 \/ n > 1)
  BY <1>1
<1>5. \A n \in DOMAIN t : n \in Int
  BY <1>1
<1>6. HasLog(t) => HasLog(s)
  BY <1>3 DEF HasLog
<1>7. h # "log" /\ HasLog(s) => HasLog(t)
  BY <1>1, <1>2, <1>4 DEF HasLog
<1>8. h = "log" => HasLog(s) /\ ~HasLog(t)
  <2>1. h = "log" => HasLog(s)
    BY <1>1, <1>4 DEF HasLog
  <2>2. ASSUME h = "log", NEW n \in DOMAIN t, t[n] = "log" PROVE FALSE
    <3>1. s[1] = "log" /\ s[n + 1] = "log" /\ 1 \in DOMAIN s /\ n + 1 \in DOMAIN s /\ n + 1 > 1
      BY <1>1, <1>3, <1>4, <2>2
    <3>2. n + 1 = 1
      BY <3>1 DEF Sorted
    <3>. QED
      BY <3>1, <3>2
  <2>. QED
    BY <2>1, <2>2 DEF HasLog
<1>9. h # "log" /\ HasLog(o.does) /\ o.logs # "hard_delete" => HasLog(t)
  <2>1. ASSUME h # "log", HasLog(o.does), o.logs # "hard_delete" PROVE HasLog(s)
    BY <1>1, <1>4, <2>1 DEF Sorted, HasLog
  <2>. QED
    BY <1>7, <2>1
<1>10. h = "log" /\ o.logs # "hard_delete" => AllLog(t)
  <2>1. ASSUME h = "log", o.logs # "hard_delete", NEW n \in 1 .. Len(t), t[n] # "log" PROVE FALSE
    <3>1. HasLog(o.does) /\ n + 1 \in DOMAIN s /\ s[n + 1] # "log"
      BY <1>1, <1>3, <1>8, <2>1 DEF Sorted
    <3>2. PICK m \in DOMAIN s : m > n + 1 /\ s[m] = "log"
      BY <2>1, <3>1 DEF Sorted
    <3>3. m = 1
      BY <1>1, <1>4, <2>1, <3>2 DEF Sorted
    <3>. QED
      BY <1>1, <3>2, <3>3
  <2>. QED
    BY <2>1 DEF AllLog
<1>11. h = "log" /\ o.logs = "hard_delete" => ~AllLog(t)
  <2>1. ASSUME h = "log", o.logs = "hard_delete" PROVE ~AllLog(t)
    <3>1. PICK m \in DOMAIN s : m > 1 /\ s[m] # "log"
      BY <1>1, <1>4, <2>1 DEF Sorted
    <3>. QED
      BY <1>1, <1>2, <3>1 DEF AllLog
  <2>. QED
    BY <2>1
<1>12. h \in Finds => o.logs # "create" /\ (o.logs = "hard_delete" => HasLog(s))
  BY <1>1, <1>4 DEF Sorted, HasLog
<1>13. Sorted(o, t)
  <2>1. ASSUME NEW n \in DOMAIN t, NEW m \in DOMAIN t, t[n] = "log", t[m] = "log" PROVE n = m
    <3>1. n + 1 = m + 1
      BY <1>3, <2>1 DEF Sorted
    <3>. QED
      BY <1>5, <3>1
  <2>2. HasLog(t) => HasLog(o.does)
    BY <1>6 DEF Sorted
  <2>3. ASSUME HasLog(o.does), o.logs # "hard_delete", NEW n \in DOMAIN t, t[n] # "log"
        PROVE  \E m \in DOMAIN t : m > n /\ t[m] = "log"
    <3>1. PICK m \in DOMAIN s : m > n + 1 /\ s[m] = "log"
      BY <1>3, <2>3 DEF Sorted
    <3>2. m > 1 /\ m - 1 > n
      BY <1>1, <3>1
    <3>. QED
      BY <1>2, <3>1, <3>2
  <2>4. ASSUME o.logs = "hard_delete", NEW n \in DOMAIN t, t[n] = "log"
        PROVE  \E m \in DOMAIN t : m > n /\ t[m] # "log"
    <3>1. PICK m \in DOMAIN s : m > n + 1 /\ s[m] # "log"
      BY <1>3, <2>4 DEF Sorted
    <3>2. m > 1 /\ m - 1 > n
      BY <1>1, <3>1
    <3>. QED
      BY <1>2, <3>1, <3>2
  <2>5. ASSUME o.logs = "hard_delete", NEW n \in DOMAIN t, t[n] \in Finds
        PROVE  \E m \in DOMAIN t : m > n /\ t[m] = "log"
    <3>1. PICK m \in DOMAIN s : m > n + 1 /\ s[m] = "log"
      BY <1>3, <2>5 DEF Sorted
    <3>2. m > 1 /\ m - 1 > n
      BY <1>1, <3>1
    <3>. QED
      BY <1>2, <3>1, <3>2
  <2>6. ASSUME NEW n \in DOMAIN t, t[n] \in Finds PROVE o.logs # "create"
    BY <1>3, <2>6 DEF Sorted
  <2>7. o.logs = "hard_delete" => HasLog(o.does)
    BY DEF Sorted
  <2>. QED
    BY <2>1, <2>2, <2>3, <2>4, <2>5, <2>6, <2>7 DEF Sorted
<1>. QED
  BY <1>6, <1>7, <1>8, <1>9, <1>10, <1>11, <1>12, <1>13 DEF t, h

\* With nothing left there is no entry to come.
LEMMA NothingSorted ==
  ASSUME NEW o, o.logs = "hard_delete" => HasLog(o.does)
  PROVE  Sorted(o, <<>>) /\ ~HasLog(<<>>)
BY DEF Sorted, HasLog

\* The operations are sorted.
LEMMA OperationsAreSorted == \A o \in Operations : Sorted(o, o.does)
<1>1. Sorted(Create, Create.does)
  <2>1. Spells(Create, <<"insert", "log">>, "create", {})
    BY OperationsSpelled
  <2>. QED
    BY <2>1 DEF Spells, Sorted, HasLog, Finds
<1>2. Sorted(CreateMany, CreateMany.does)
  <2>1. Spells(CreateMany, <<"insertMany", "log">>, "create", {})
    BY OperationsSpelled
  <2>. QED
    BY <2>1 DEF Spells, Sorted, HasLog, Finds
<1>3. Sorted(UpdateMany, UpdateMany.does)
  <2>1. Spells(UpdateMany, <<"update", "log">>, "bulk", AColumn)
    BY OperationsSpelled
  <2>. QED
    BY <2>1 DEF Spells, Sorted, HasLog, Finds
<1>4. Sorted(UpdateOne, UpdateOne.does)
  <2>1. Spells(UpdateOne, <<"find", "load", "write", "log">>, "update", AColumn)
    BY OperationsSpelled
  <2>. QED
    BY <2>1 DEF Spells, Sorted, HasLog, Finds
<1>5. Sorted(Remove, Remove.does)
  <2>1. Spells(Remove, <<"find", "softRemove", "log">>, "delete", {})
    BY OperationsSpelled
  <2>. QED
    BY <2>1 DEF Spells, Sorted, HasLog, Finds
<1>6. Sorted(Restore, Restore.does)
  <2>1. Spells(Restore, <<"findDeleted", "recover", "log">>, "restore", {})
    BY OperationsSpelled
  <2>. QED
    BY <2>1 DEF Spells, Sorted, HasLog, Finds
<1>7. Sorted(HardRemove, HardRemove.does)
  <2>1. Spells(HardRemove, <<"find", "log", "remove">>, "hard_delete", {})
    BY OperationsSpelled
  <2>. QED
    BY <2>1 DEF Spells, Sorted, HasLog, Finds
<1>8. Sorted(CreateProduct, CreateProduct.does)
  <2>1. Spells(CreateProduct, <<"insert">>, "create", {})
    BY OperationsSpelled
  <2>. QED
    BY <2>1 DEF Spells, Sorted, HasLog, Finds
<1>9. Sorted(UpdateProduct, UpdateProduct.does)
  <2>1. Spells(UpdateProduct, <<"find", "load", "write">>, "update", AColumn)
    BY OperationsSpelled
  <2>. QED
    BY <2>1 DEF Spells, Sorted, HasLog, Finds
<1>10. Sorted(RemoveProduct, RemoveProduct.does)
  <2>1. Spells(RemoveProduct, <<"find", "softRemove">>, "delete", {})
    BY OperationsSpelled
  <2>. QED
    BY <2>1 DEF Spells, Sorted, HasLog, Finds
<1>11. Sorted(UpdateAccountDetails, UpdateAccountDetails.does)
  <2>1. Spells(UpdateAccountDetails, <<"find", "find", "load", "write">>, "update", Columns \ AColumn)
    BY OperationsSpelled
  <2>. QED
    BY <2>1 DEF Spells, Sorted, HasLog, Finds
<1>12. Sorted(PauseNotifications, PauseNotifications.does)
  <2>1. Spells(PauseNotifications, <<"find", "find", "load", "write">>, "update", Columns)
    BY OperationsSpelled
  <2>. QED
    BY <2>1 DEF Spells, Sorted, HasLog, Finds
<1>. QED
  BY <1>1, <1>2, <1>3, <1>4, <1>5, <1>6, <1>7, <1>8, <1>9, <1>10, <1>11, <1>12
     DEF Operations, CreateRole, UpdateRole, RemoveRole, CreateAccountForUser, CreateLog,
         ResumeNotifications

--------------------------------------------------------------------------------
\* What a trail tells is told by its last entry about the row.
LEMMA SaysAppend ==
  ASSUME NEW t \in Seq([id : Ids, action : Actions]), NEW e \in [id : Ids, action : Actions], NEW i
  PROVE  /\ e.id # i => \A s : Says(Append(t, e), i, s) <=> Says(t, i, s)
         /\ e.id = i => Says(Append(t, e), i, StatusAfter[e.action])
<1>. DEFINE u == Append(t, e)
<1>1. /\ Len(t) \in Nat /\ DOMAIN t = 1 .. Len(t) /\ DOMAIN u = 1 .. Len(t) + 1
      /\ \A n \in 1 .. Len(t) : u[n] = t[n]
      /\ u[Len(t) + 1] = e
  OBVIOUS
<1>. HIDE DEF u
<1>2. DOMAIN u = DOMAIN t \cup {Len(t) + 1} /\ Len(t) + 1 \notin DOMAIN t
  BY <1>1
<1>3. \A n \in DOMAIN t : u[n] = t[n] /\ n \in Int /\ n <= Len(t) + 1
  BY <1>1
<1>4. ASSUME e.id # i PROVE \A s : Says(u, i, s) <=> Says(t, i, s)
  <2>1. Last(u, i) = Last(t, i)
    BY <1>1, <1>2, <1>3, <1>4 DEF Last
  <2>2. \A n \in Last(t, i) : u[n] = t[n]
    BY <1>3 DEF Last
  <2>. QED
    BY <2>1, <2>2 DEF Says
<1>5. ASSUME e.id = i PROVE Says(u, i, StatusAfter[e.action])
  <2>1. Len(t) + 1 \in Last(u, i)
    BY <1>1, <1>2, <1>3, <1>5 DEF Last
  <2>. QED
    BY <1>1, <2>1 DEF Says
<1>. QED
  BY <1>4, <1>5 DEF u

\* What becomes of the trail with a step.
Tracks(p) ==
  \/ ~Logs(p) /\ UNCHANGED <<trail, unlogged>>
  \/ /\ Logs(p) /\ op[p].logs # "bulk" /\ UNCHANGED unlogged
     /\ trail' = Append(trail, [id |-> target[p], action |-> op[p].logs])
  \/ Logs(p) /\ UNCHANGED trail /\ unlogged' = unlogged \cup {p}

\* Only the log statement writes to the trail.
LEMMA TrailSteps ==
  ASSUME RepositoryInvariant, NEW p \in Requests, Serve(p), ~Call(p)
  PROVE  Tracks(p)
<1>1. CASE LogAudit(p)
  <2>1. At(p, "log") /\ Advance(p) /\ UNCHANGED <<table, entity, changes>>
    BY <1>1 DEF LogAudit
  <2>2. Logs(p)
    BY <2>1, GoesOn DEF Logs
  <2>. QED
    BY <1>1, <2>2 DEF LogAudit, Tracks
<1>2. ASSUME UNCHANGED <<trail, unlogged>>, state[p] = "busy", ~At(p, "log") PROVE Tracks(p)
  BY <1>2 DEF Tracks, Logs, Goes, At
<1>3. ASSUME NEW x, x # "log", At(p, x), UNCHANGED <<trail, unlogged>> PROVE Tracks(p)
  BY <1>2, <1>3 DEF At
<1>4. CASE Fail(p)
  BY <1>2, <1>4 DEF Fail
<1>5. CASE FindOne(p) \/ FindOneWithDeletedToo(p)
  BY <1>3, <1>5 DEF FindOne, FindOneWithDeletedToo, Lookup
<1>6. CASE SaveLoad(p)
  BY <1>3, <1>6 DEF SaveLoad
<1>7. CASE SaveWrite(p)
  BY <1>3, <1>7 DEF SaveWrite
<1>8. CASE Insert(p)
  BY <1>3, <1>8 DEF Insert
<1>9. CASE Update(p)
  BY <1>3, <1>9 DEF Update
<1>10. CASE SetStatus(p, "softRemove", "deleted") \/ SetStatus(p, "recover", "live")
            \/ SetStatus(p, "remove", "none")
  BY <1>3, <1>10 DEF SetStatus
<1>. QED
  BY <1>1, <1>4, <1>5, <1>6, <1>7, <1>8, <1>9, <1>10 DEF Serve

\* What the trail tells about a row changes with an entry about that row.
LEMMA SaysKept ==
  ASSUME AnsweredInvariant, NEW p \in Requests, Tracks(p), NEW i
  PROVE  /\ ~Logs(p) \/ target[p] # i => \A s : Says(trail', i, s) <=> Says(trail, i, s)
         /\ Logs(p) /\ target[p] = i => p \in unlogged' \/ Says(trail', i, StatusAfter[op[p].logs])
<1>1. op[p].logs \in Actions /\ target[p] \in Ids
  BY LogsKnown
<1>2. trail \in Seq([id : Ids, action : Actions])
  BY DEF AnsweredInvariant, RepositoryInvariant, Types
<1>. DEFINE e == [id |-> target[p], action |-> op[p].logs]
<1>3. e \in [id : Ids, action : Actions] /\ e.id = target[p] /\ e.action = op[p].logs
  BY <1>1
<1>4. Tracks(p) => \/ ~Logs(p) /\ trail' = trail
                   \/ Logs(p) /\ trail' = Append(trail, e)
                   \/ Logs(p) /\ trail' = trail /\ p \in unlogged'
  BY DEF Tracks
<1>. HIDE DEF e
<1>5. /\ e.id # i => \A s : Says(Append(trail, e), i, s) <=> Says(trail, i, s)
      /\ e.id = i => Says(Append(trail, e), i, StatusAfter[e.action])
  BY <1>2, <1>3, SaysAppend
<1>. QED
  BY <1>3, <1>4, <1>5

\* The requests about a row stay, and so do their overlaps.
LEMMA AboutKept ==
  ASSUME NEW p \in Requests, Frame(p), NEW i
  PROVE  /\ About(i)' = About(i) /\ About(i) \subseteq Requests
         /\ \A q, r \in Requests : Overlaps(q, r)' <=> Overlaps(q, r)
         /\ \A r \in Requests : Audited(r)' <=> Audited(r)
<1>1. \A q \in Requests : state'[q] # "new" <=> state[q] # "new"
  BY DEF Frame
<1>2. op' = op /\ target' = target /\ before' = before
  BY DEF Frame
<1>. QED
  BY <1>1, <1>2 DEF About, Overlaps, Audited, HasLog

\* What is done stays done, unless the database fails.
LEMMA DoneKept ==
  ASSUME AnsweredInvariant, NEW p \in Requests, Frame(p), Does(p), NEW r \in Requests, Done(r)
  PROVE  Done(r)' \/ state'[r] = "error"
<1>1. CASE r # p
  BY <1>1 DEF Done, Frame
<1>2. CASE r = p
  <2>1. ~Pending(p) /\ AllLog(todo[p])
    BY <1>2 DEF Done, Pending
  <2>2. CASE Ends(p)
    <3>1. ~Finding(todo[p])
      BY <2>1, HeadFacts DEF Finding
    <3>. QED
      BY <1>2, <2>2, <3>1 DEF Ends
  <2>3. CASE Logs(p)
    <3>1. AllLog(todo'[p]) /\ state'[p] \in {"busy", "ok"}
      BY <2>1, <2>3, HeadFacts DEF Logs, Goes
    <3>. QED
      BY <1>2, <3>1 DEF Done
  <2>4. ASSUME NEW x \in Mutators \cup Finds \cup {"load"}, todo[p] # <<>>, Head(todo[p]) = x
        PROVE  FALSE
    BY <2>1, <2>4, HeadFacts
  <2>. QED
    BY <2>2, <2>3, <2>4
       DEF Does, Looks, Loads, Inserts, Updates, Writes, Sets, Goes, Mutators, Finds
<1>. QED
  BY <1>1, <1>2

\* What is clean was clean.
LEMMA CleanBefore ==
  ASSUME AnsweredInvariant, NEW p \in Requests, Frame(p), Does(p), Tracks(p), NEW i, Clean(i)'
  PROVE  Clean(i)
<1>1. /\ About(i)' = About(i) /\ About(i) \subseteq Requests
      /\ \A q, r \in Requests : Overlaps(q, r)' <=> Overlaps(q, r)
      /\ \A r \in Requests : Audited(r)' <=> Audited(r)
  BY AboutKept
<1>2. unlogged \subseteq unlogged'
  BY DEF Tracks
<1>3. ASSUME NEW r \in About(i)
      PROVE  /\ state[r] \in {"busy", "ok", "missing"} /\ r \notin unlogged
             /\ Done(r) => Audited(r)
             /\ \A q \in About(i) : ~Overlaps(q, r)
  <2>1. /\ state'[r] \in {"busy", "ok", "missing"} /\ r \notin unlogged'
        /\ Done(r)' => Audited(r)'
        /\ \A q \in About(i)' : ~Overlaps(q, r)'
    BY <1>1, <1>3 DEF Clean
  <2>2. state[r] \in {"busy", "ok", "missing"}
    BY <1>1, <2>1 DEF Frame
  <2>3. \A q \in About(i) : ~Overlaps(q, r)
    BY <1>1, <2>1
  <2>4. ASSUME Done(r) PROVE Audited(r)
    <3>1. Done(r)'
      BY <1>1, <2>1, <2>4, DoneKept
    <3>. QED
      BY <1>1, <2>1, <3>1
  <2>. QED
    BY <1>2, <2>1, <2>2, <2>3, <2>4
<1>. QED
  BY <1>3 DEF Clean

--------------------------------------------------------------------------------
\* What is left stays sorted.
LEMMA SortedKept ==
  ASSUME TrailInvariant, NEW p \in Requests, Frame(p), Does(p), NEW r \in Requests
  PROVE  Sorted(op'[r], todo'[r])
<1>1. /\ Sorted(op[r], todo[r]) /\ op' = op /\ AnsweredInvariant
      /\ todo[r] \in Seq(Statements)
  BY DEF TrailInvariant, Frame, AnsweredInvariant, RepositoryInvariant, Types, Statements
<1>2. CASE todo'[r] = todo[r]
  BY <1>1, <1>2
<1>3. CASE todo[r] # <<>> /\ todo'[r] = Tail(todo[r])
  <2>1. Sorted(op[r], Tail(todo[r]))
    BY <1>1, <1>3, SortedTail
  <2>. QED
    BY <1>1, <1>3, <2>1
<1>4. CASE todo'[r] = <<>>
  <2>1. op[r].logs = "hard_delete" => HasLog(op[r].does)
    BY <1>1 DEF Sorted
  <2>2. Sorted(op[r], <<>>)
    BY <2>1, NothingSorted
  <2>. QED
    BY <1>1, <1>4, <2>2
<1>5. r = p => \/ todo'[r] = <<>>
               \/ todo[r] # <<>> /\ todo'[r] = Tail(todo[r])
  BY DEF Does, Ends, Logs, Loads, Looks, Inserts, Updates, Writes, Sets, Goes
<1>6. r # p => todo'[r] = todo[r]
  BY DEF Frame
<1>. QED
  BY <1>2, <1>3, <1>4, <1>5, <1>6

\* What the trail says of the row a request is at work on.
LEMMA ToldKept ==
  ASSUME TrailInvariant, NEW p \in Requests, Frame(p), Does(p), Tracks(p), NEW i \in Ids,
         target[p] = i, op[p].logs # "bulk", Clean(i), Clean(i)', state'[p] \in {"busy", "ok"}
  PROVE  Told(p)'
<1>. DEFINE a == op[p].logs
            st == table[i].status
<1>1. /\ AnsweredInvariant /\ state[p] = "busy" /\ op' = op /\ target' = target
      /\ todo[p] \in Seq(Statements) /\ i \in Ids /\ Sorted(op[p], todo[p])
  BY DEF TrailInvariant, Frame, AnsweredInvariant, RepositoryInvariant, Types, Statements
<1>2. /\ a \in Actions \ {"bulk"} /\ a = op[p].logs /\ i = target[p]
      /\ p \in About(i) /\ p \in About(i)'
      /\ a = "create" => i = <<p, 1>>
  <2>1. a \in Actions
    BY <1>1, LogsKnown
  <2>2. p \in About(i) /\ p \in About(i)'
    BY <1>1 DEF About
  <2>3. a = "create" => i = <<p, 1>>
    BY <1>1 DEF AnsweredInvariant, Stage
  <2>. QED
    BY <2>1, <2>2, <2>3
<1>3. Told(p)
  BY <1>1, <1>2 DEF TrailInvariant, TrailFits
<1>4. /\ Pending(p) /\ a # "create" /\ (a = "hard_delete" => HasLog(todo[p])) => Says(trail, i, st)
      /\ Pending(p) /\ Found(p) => entity[p].status = st
      /\ Pending(p) /\ a = "hard_delete" /\ ~HasLog(todo[p]) => Says(trail, i, "none")
      /\ Done(p) /\ HasLog(todo[p]) => st = StatusAfter[a]
      /\ Done(p) /\ ~HasLog(todo[p]) => Says(trail, i, st)
  BY <1>3 DEF Told
<1>5. p \notin unlogged' /\ (Done(p)' => Audited(p))
  <2>1. p \notin unlogged' /\ (Done(p)' => Audited(p)')
    BY <1>2 DEF Clean
  <2>. QED
    BY <2>1, AboutKept
<1>6. state'[p] # "new" /\ (Pending(p)' <=> ~AllLog(todo'[p])) /\ (Done(p)' <=> AllLog(todo'[p]))
  BY DEF Pending, Done
<1>7. ASSUME
        /\ Pending(p)' /\ a # "create" /\ (a = "hard_delete" => HasLog(todo'[p]))
             => Says(trail', i, table'[i].status)
        /\ Pending(p)' /\ Found(p)' => entity'[p].status = table'[i].status
        /\ Pending(p)' /\ a = "hard_delete" /\ ~HasLog(todo'[p]) => Says(trail', i, "none")
        /\ Done(p)' /\ HasLog(todo'[p]) => table'[i].status = StatusAfter[a]
        /\ Done(p)' /\ ~HasLog(todo'[p]) => Says(trail', i, table'[i].status)
      PROVE  Told(p)'
  BY <1>1, <1>7 DEF Told
<1>. HIDE DEF a, st
<1>8. ~Logs(p) => \A s : Says(trail', i, s) <=> Says(trail, i, s)
  BY <1>1, SaysKept
<1>9. ~Ends(p) /\ ~Updates(p)
  BY <1>1, <1>2, HeadFacts DEF Ends, Updates, Fits
\* The statements before the change.
<1>10. CASE Logs(p)
  <2>1. todo[p] # <<>> /\ Head(todo[p]) = "log" /\ todo'[p] = Tail(todo[p])
        /\ table' = table /\ entity' = entity
    BY <1>10 DEF Logs, Goes
  <2>2. /\ ~HasLog(todo'[p]) /\ HasLog(todo[p])
        /\ a # "hard_delete" => AllLog(todo'[p])
        /\ a = "hard_delete" => ~AllLog(todo'[p])
    BY <1>1, <1>2, <2>1, SortedTail
  <2>3. AllLog(todo'[p]) <=> AllLog(todo[p])
    BY <1>1, <2>1, HeadFacts
  <2>4. Says(trail', i, StatusAfter[a])
    BY <1>1, <1>2, <1>5, <1>10, SaysKept
  <2>5. Found(p)' <=> Found(p)
    BY <2>1 DEF Found
  <2>6. (Pending(p) <=> ~AllLog(todo[p])) /\ (Done(p) <=> AllLog(todo[p]))
    BY <1>1 DEF Pending, Done
  <2>7. CASE a = "hard_delete"
    <3>1. StatusAfter[a] = "none"
      BY <2>7 DEF StatusAfter
    <3>. QED
      BY <1>4, <1>6, <1>7, <2>1, <2>2, <2>3, <2>4, <2>5, <2>6, <2>7, <3>1 DEF st
  <2>8. CASE a # "hard_delete"
    BY <1>4, <1>6, <1>7, <2>1, <2>2, <2>3, <2>4, <2>6, <2>8 DEF st
  <2>. QED
    BY <2>7, <2>8
<1>11. CASE Looks(p, "find") \/ Looks(p, "findDeleted")
  <2>1. PICK x \in Finds : Looks(p, x)
    BY <1>11 DEF Finds
  <2>2. /\ todo[p] # <<>> /\ Head(todo[p]) = x /\ todo'[p] = Tail(todo[p]) /\ x # "log"
        /\ table' = table /\ entity'[p] = table[i]
    BY <1>2, <2>1 DEF Looks, Goes, Finds
  <2>3. /\ HasLog(todo'[p]) <=> HasLog(todo[p])
        /\ a # "create" /\ (a = "hard_delete" => HasLog(todo[p]))
    BY <1>1, <1>2, <2>1, <2>2, SortedTail
  <2>4. ~AllLog(todo'[p]) /\ Pending(p)
    BY <1>1, <2>1, <2>2, HeadFacts
  <2>5. ~Logs(p)
    BY <2>2 DEF Logs, Goes
  <2>. QED
    BY <1>4, <1>6, <1>7, <1>8, <2>2, <2>3, <2>4, <2>5 DEF st
<1>12. CASE Loads(p)
  <2>1. /\ todo[p] # <<>> /\ Head(todo[p]) = "load" /\ todo'[p] = Tail(todo[p])
        /\ table' = table /\ entity' = entity
    BY <1>12 DEF Loads, Goes
  <2>2. HasLog(todo'[p]) <=> HasLog(todo[p])
    BY <1>1, <2>1, SortedTail
  <2>3. ~AllLog(todo'[p]) /\ Pending(p)
    BY <1>1, <2>1, HeadFacts
  <2>4. ~Logs(p) /\ (Found(p)' <=> Found(p))
    BY <2>1 DEF Logs, Goes, Found
  <2>. QED
    BY <1>4, <1>6, <1>7, <1>8, <2>1, <2>2, <2>3, <2>4 DEF st
\* The change: an entry is still to come, or it is a hard removal.
<1>13. ASSUME NEW x \in Mutators, Goes(p, x), x \in {"insert", "insertMany", "write", "softRemove",
              "recover", "remove"}
       PROVE  /\ Pending(p) /\ AllLog(todo'[p]) /\ ~Logs(p) /\ Fits(op[p], x)
              /\ HasLog(todo'[p]) <=> HasLog(todo[p])
              /\ a # "hard_delete" => HasLog(todo'[p])
              /\ Found(p) \/ a \in {"create", "bulk"}
  <2>1. todo[p] # <<>> /\ Head(todo[p]) = x /\ todo'[p] = Tail(todo[p]) /\ x # "log" /\ x \notin Finds
    BY <1>13 DEF Goes, Finds
  <2>2. /\ Pending(p) /\ AllLog(todo'[p]) /\ Fits(op[p], x)
        /\ Found(p) \/ a \in {"create", "bulk"}
    BY <1>1, <1>2, <1>13, <2>1, HeadFacts
  <2>3. /\ HasLog(todo'[p]) <=> HasLog(todo[p])
        /\ HasLog(op[p].does) /\ a # "hard_delete" => HasLog(todo'[p])
    BY <1>1, <1>2, <2>1, SortedTail
  <2>4. ~Logs(p)
    BY <2>1 DEF Logs, Goes
  <2>. QED
    BY <1>5, <1>6, <2>2, <2>3, <2>4 DEF Audited
<1>14. CASE Inserts(p)
  <2>1. PICK x \in {"insert", "insertMany"} : Goes(p, x)
    BY <1>14 DEF Inserts
  <2>2. AllLog(todo'[p]) /\ Fits(op[p], x) /\ (a # "hard_delete" => HasLog(todo'[p]))
    BY <1>13, <2>1 DEF Mutators
  <2>3. a = "create"
    BY <1>2, <2>1, <2>2 DEF Fits
  <2>4. table'[i].status = "live"
    <3>1. table'[i] = Row("live", p)
      BY <1>2, <1>14, <2>3 DEF Inserts
    <3>. QED
      BY <3>1 DEF Row
  <2>5. StatusAfter[a] = "live"
    BY <2>3 DEF StatusAfter
  <2>. QED
    BY <1>6, <1>7, <2>2, <2>3, <2>4, <2>5
<1>15. CASE Writes(p)
  <2>1. AllLog(todo'[p]) /\ Pending(p) /\ (a # "hard_delete" => HasLog(todo'[p]))
    BY <1>13, <1>15 DEF Writes, Mutators
  <2>2. Found(p) /\ entity[p].status = "live" /\ a = "update"
    BY <1>1, <1>2, <1>15, WriteFacts
  <2>3. st = "live"
    BY <1>4, <2>1, <2>2
  <2>4. table'[i].status = "live"
    BY <1>2, <1>15, <2>2, <2>3 DEF Writes, Exists, st
  <2>5. StatusAfter[a] = "live"
    BY <2>2 DEF StatusAfter
  <2>. QED
    BY <1>6, <1>7, <2>1, <2>2, <2>4, <2>5
<1>16. ASSUME NEW x \in {"softRemove", "recover", "remove"}, NEW status, Sets(p, x, status),
              Fits(op[p], x) => status = StatusAfter[a]
       PROVE  Told(p)'
  <2>1. /\ AllLog(todo'[p]) /\ Pending(p) /\ ~Logs(p) /\ Fits(op[p], x)
        /\ HasLog(todo'[p]) <=> HasLog(todo[p])
        /\ a # "hard_delete" => HasLog(todo'[p])
        /\ Found(p) \/ a \in {"create", "bulk"}
    BY <1>13, <1>16 DEF Sets, Mutators
  <2>2. status = StatusAfter[a] /\ a \in {"delete", "restore", "hard_delete"}
    BY <1>2, <1>16, <2>1 DEF Fits
  <2>3. st # "none"
    BY <1>4, <2>1, <2>2 DEF Found
  <2>4. table'[i].status = StatusAfter[a]
    BY <1>2, <1>16, <2>2, <2>3 DEF Sets, Exists, st
  <2>5. a = "hard_delete" => StatusAfter[a] = "none"
    BY DEF StatusAfter
  <2>. QED
    BY <1>4, <1>6, <1>7, <1>8, <2>1, <2>2, <2>4, <2>5
<1>17. CASE Sets(p, "softRemove", "deleted")
  <2>1. Fits(op[p], "softRemove") => StatusAfter[a] = "deleted"
    BY <1>2 DEF Fits, StatusAfter
  <2>. QED
    BY <1>16, <1>17, <2>1
<1>18. CASE Sets(p, "recover", "live")
  <2>1. Fits(op[p], "recover") => StatusAfter[a] = "live"
    BY <1>2 DEF Fits, StatusAfter
  <2>. QED
    BY <1>16, <1>18, <2>1
<1>19. CASE Sets(p, "remove", "none")
  <2>1. Fits(op[p], "remove") => StatusAfter[a] = "none"
    BY <1>2 DEF Fits, StatusAfter
  <2>. QED
    BY <1>16, <1>19, <2>1
<1>. QED
  BY <1>9, <1>10, <1>11, <1>12, <1>14, <1>15, <1>17, <1>18, <1>19 DEF Does

--------------------------------------------------------------------------------
\* The row of the request that takes the step.
LEMMA OwnRow ==
  ASSUME TrailInvariant, NEW p \in Requests, Frame(p), Does(p), Tracks(p), NEW i \in Ids,
         p \in About(i)
  PROVE  TrailFits(i)' /\ Unknown(i)'
<1>1. /\ AnsweredInvariant /\ state[p] = "busy" /\ op' = op /\ target' = target
      /\ target[p] = i /\ op[p].logs # "bulk" /\ todo[p] \in Seq(Statements)
      /\ Sorted(op[p], todo[p])
  BY DEF TrailInvariant, Frame, AnsweredInvariant, RepositoryInvariant, Types, Statements, About
<1>2. /\ About(i)' = About(i) /\ About(i) \subseteq Requests
      /\ \A q, r \in Requests : Overlaps(q, r)' <=> Overlaps(q, r)
  BY AboutKept
<1>3. Unknown(i)'
  BY <1>2 DEF Unknown
<1>4. ASSUME Clean(i)'
      PROVE  /\ (\A r \in About(i)' : state'[r] # "busy") => Says(trail', i, table'[i].status)
             /\ \A r \in About(i)' : state'[r] = "busy" => Told(r)'
  <2>1. Clean(i)
    BY <1>1, <1>4, CleanBefore
  <2>2. ASSUME NEW r \in About(i), r # p PROVE state'[r] # "busy"
    <3>1. r \in Requests /\ ~Overlaps(r, p) /\ state[r] # "new"
      BY <1>2, <2>1, <2>2 DEF Clean, About
    <3>2. p \notin before[r]
      BY <1>1, <3>1 DEF AnsweredInvariant, Past, Answered
    <3>3. Answered(r)
      BY <1>1, <2>2, <3>1, <3>2 DEF AnsweredInvariant, Past, Overlaps
    <3>. QED
      BY <2>2, <3>1, <3>3 DEF Answered, Frame
  <2>3. state'[p] \in {"busy", "ok", "missing"}
    BY <1>2, <1>4 DEF Clean
  <2>4. CASE state'[p] = "busy"
    <3>1. Told(p)'
      BY <1>1, <1>4, <2>1, <2>4, ToldKept
    <3>. QED
      BY <1>2, <2>2, <2>4, <3>1
  <2>5. CASE state'[p] = "ok"
    <3>1. Told(p)'
      BY <1>1, <1>4, <2>1, <2>5, ToldKept
    <3>2. todo'[p] = <<>>
      BY <1>1, <2>5, StageKept DEF Stage
    <3>3. AllLog(<<>>) /\ ~HasLog(<<>>)
      BY NothingLeft DEF HasLog
    <3>4. Done(p)' /\ ~HasLog(todo'[p])
      BY <2>5, <3>2, <3>3 DEF Done
    <3>5. Says(trail', i, table'[i].status)
      BY <1>1, <3>1, <3>4 DEF Told
    <3>. QED
      BY <1>2, <2>2, <2>5, <3>5
  <2>6. CASE state'[p] = "missing"
    <3>1. Ends(p)
      BY <2>6 DEF Does, Logs, Looks, Loads, Inserts, Updates, Writes, Sets, Goes
    <3>2. Finding(todo[p]) /\ table' = table
      BY <2>6, <3>1 DEF Ends
    <3>3. todo[p] # <<>> /\ Head(todo[p]) \in Finds
      BY <3>2 DEF Finding
    <3>4. op[p].logs # "create" /\ (op[p].logs = "hard_delete" => HasLog(todo[p]))
      BY <1>1, <3>3, SortedTail
    <3>5. Pending(p)
      BY <1>1, <3>3, HeadFacts
    <3>6. Told(p)
      BY <1>1, <2>1 DEF TrailInvariant, TrailFits
    <3>7. Says(trail, i, table[i].status)
      BY <1>1, <3>4, <3>5, <3>6 DEF Told
    <3>8. ~Logs(p)
      BY <3>3 DEF Logs, Goes, Finds
    <3>9. Says(trail', i, table'[i].status)
      BY <1>1, <3>2, <3>7, <3>8, SaysKept
    <3>. QED
      BY <1>2, <2>2, <2>6, <3>9
  <2>. QED
    BY <2>3, <2>4, <2>5, <2>6
<1>. QED
  BY <1>3, <1>4 DEF TrailFits

\* The rows of the others.
LEMMA OtherRows ==
  ASSUME TrailInvariant, NEW p \in Requests, Frame(p), Does(p), Tracks(p), NEW i \in Ids,
         p \notin About(i)
  PROVE  TrailFits(i)' /\ Unknown(i)'
<1>1. /\ AnsweredInvariant /\ state[p] = "busy" /\ op' = op /\ target' = target
      /\ target[p] = i => op[p].logs = "bulk"
      /\ trail \in Seq([id : Ids, action : Actions])
  BY DEF TrailInvariant, Frame, AnsweredInvariant, RepositoryInvariant, Types, About
<1>2. /\ About(i)' = About(i) /\ About(i) \subseteq Requests
  BY AboutKept
<1>3. \A s : Says(trail', i, s) <=> Says(trail, i, s)
  <2>1. Logs(p) /\ target[p] = i => trail' = trail
    BY <1>1 DEF Tracks
  <2>. QED
    BY <1>1, <2>1, SaysKept
<1>4. \/ table'[i].status = table[i].status
      \/ About(i) = {} /\ i # Existing /\ table'[i].status = "live"
  <2>1. CASE Inserts(p) /\ i \in {<<p, 1>>, <<p, 2>>}
    <3>1. Pending(p)
      BY <1>1, <2>1, HeadFacts DEF Inserts, Goes, Mutators
    <3>2. \A q \in Requests \ {p} : state[q] # "new" => target[q] # i
      BY <1>1, <2>1, <3>1 DEF AnsweredInvariant, Unborn
    <3>3. About(i) = {}
      BY <1>2, <3>2 DEF About
    <3>4. i # Existing
      BY <2>1, RepositoryAssumption
    <3>5. table'[i] = table[i] \/ table'[i] = Row("live", p)
      BY <2>1 DEF Inserts
    <3>. QED
      BY <3>3, <3>4, <3>5 DEF Row
  <2>2. CASE Inserts(p) /\ i \notin {<<p, 1>>, <<p, 2>>}
    BY <2>2 DEF Inserts
  <2>3. CASE Updates(p)
    BY <2>3 DEF Updates
  <2>4. ASSUME NEW x, Goes(p, x), x \in {"write", "softRemove", "recover", "remove"}
        PROVE  target[p] # i
    <3>1. Fits(op[p], x)
      BY <1>1, <2>4, HeadFacts DEF Goes
    <3>. QED
      BY <1>1, <2>4, <3>1 DEF Fits
  <2>5. CASE Writes(p)
    BY <2>4, <2>5 DEF Writes
  <2>6. CASE Sets(p, "softRemove", "deleted") \/ Sets(p, "recover", "live")
             \/ Sets(p, "remove", "none")
    BY <2>4, <2>6 DEF Sets
  <2>. QED
    BY <2>1, <2>2, <2>3, <2>5, <2>6 DEF Does, Ends, Logs, Looks, Loads
<1>5. Unknown(i)'
  <2>1. ASSUME About(i) = {}
        PROVE  /\ \A n \in DOMAIN trail' : trail'[n].id # i
               /\ i # Existing => table'[i].status \in {"none", "live"}
    <3>1. /\ \A n \in DOMAIN trail : trail[n].id # i
          /\ i # Existing => table[i].status \in {"none", "live"}
      BY <2>1 DEF TrailInvariant, Unknown
    <3>2. CASE trail' = trail
      BY <1>4, <3>1, <3>2
    <3>3. CASE op[p].logs # "bulk" /\ trail' = Append(trail, [id |-> target[p], action |-> op[p].logs])
      <4>1. target[p] # i
        BY <1>1, <3>3
      <4>2. ASSUME NEW n \in DOMAIN trail' PROVE trail'[n].id # i
        <5>1. \/ n \in DOMAIN trail /\ trail'[n] = trail[n]
              \/ trail'[n] = [id |-> target[p], action |-> op[p].logs]
          BY <1>1, <3>3
        <5>. QED
          BY <3>1, <4>1, <5>1
      <4>. QED
        BY <1>4, <3>1, <4>2
    <3>. QED
      BY <3>2, <3>3 DEF Tracks
  <2>. QED
    BY <1>2, <2>1 DEF Unknown
<1>6. ASSUME Clean(i)', i = Existing \/ About(i)' # {}
      PROVE  /\ (\A r \in About(i)' : state'[r] # "busy") => Says(trail', i, table'[i].status)
             /\ \A r \in About(i)' : state'[r] = "busy" => Told(r)'
  <2>1. Clean(i)
    BY <1>1, <1>6, CleanBefore
  <2>2. table'[i].status = table[i].status
    BY <1>2, <1>4, <1>6
  <2>3. /\ (\A r \in About(i) : state[r] # "busy") => Says(trail, i, table[i].status)
        /\ \A r \in About(i) : state[r] = "busy" => Told(r)
    BY <1>2, <1>6, <2>1 DEF TrailInvariant, TrailFits
  <2>4. ASSUME NEW r \in About(i)
        PROVE  /\ r \in Requests /\ r # p /\ target[r] = i
               /\ state'[r] = state[r] /\ todo'[r] = todo[r] /\ entity'[r] = entity[r]
    BY <1>2 DEF About, Frame
  <2>5. ASSUME NEW r \in About(i), state[r] = "busy" PROVE Told(r)'
    <3>1. Told(r) /\ r \in Requests /\ target[r] = i
      BY <2>3, <2>4, <2>5
    <3>2. /\ (Pending(r)' <=> Pending(r)) /\ (Done(r)' <=> Done(r)) /\ (Found(r)' <=> Found(r))
      BY <2>4 DEF Pending, Done, Found
    <3>3. todo'[r] = todo[r] /\ entity'[r] = entity[r]
      BY <2>4
    <3>. QED
      BY <1>1, <1>3, <2>2, <3>1, <3>2, <3>3 DEF Told
  <2>. QED
    BY <1>2, <1>3, <2>2, <2>3, <2>4, <2>5
<1>. QED
  BY <1>5, <1>6 DEF TrailFits

--------------------------------------------------------------------------------
\* A request arrives: the trail tells what it told, and those before it are done.
LEMMA TrailCall ==
  ASSUME TrailInvariant, AnsweredInvariant', NEW p \in Requests, Call(p)
  PROVE  TrailInvariant'
<1>1. /\ state[p] = "new" /\ state' = [state EXCEPT ![p] = "busy"]
      /\ before' = [before EXCEPT ![p] = {q \in Requests : Answered(q)}]
      /\ UNCHANGED <<table, trail, entity, changes, unlogged>> /\ AnsweredInvariant
  BY DEF Call, TrailInvariant
<1>2. PICK o \in Operations, j \in Ids :
        /\ op' = [op EXCEPT ![p] = o]
        /\ todo' = [todo EXCEPT ![p] = o.does]
        /\ target' = [target EXCEPT ![p] = j]
        /\ IF o.logs = "create" THEN j = <<p, 1>> ELSE Exists(j) \/ j = Existing
  <2>1. <<p, 1>> \in Ids /\ Existing \in Ids
    BY DEF Ids
  <2>. QED
    BY <2>1 DEF Call
<1>3. /\ state \in [Requests -> {"new", "busy", "ok", "missing", "error"}]
      /\ op \in [Requests -> Operations] /\ target \in [Requests -> Ids]
      /\ todo \in [Requests -> Seq(Statements)]
      /\ before \in [Requests -> SUBSET Requests]
  BY <1>1 DEF AnsweredInvariant, RepositoryInvariant, Types, Statements
<1>4. /\ state'[p] = "busy" /\ op'[p] = o /\ todo'[p] = o.does /\ target'[p] = j
      /\ before'[p] = {q \in Requests : Answered(q)}
  BY <1>1, <1>2, <1>3
<1>5. \A r \in Requests \ {p} :
        /\ state'[r] = state[r] /\ op'[r] = op[r] /\ todo'[r] = todo[r]
        /\ target'[r] = target[r] /\ before'[r] = before[r]
  BY <1>1, <1>2, <1>3
<1>6. Sorted(o, o.does) /\ ~AllLog(o.does)
  BY OperationsAreSorted, OperationsAreNeat DEF Neat
<1>7. ~Found(p) /\ \A r \in Requests : p \notin before[r]
  <2>1. ASSUME NEW r \in Requests PROVE p \notin before[r]
    BY <1>1 DEF AnsweredInvariant, Past, Answered
  <2>. QED
    BY <1>1, <2>1 DEF AnsweredInvariant, Stage
<1>8. \A r \in Requests : Sorted(op'[r], todo'[r])
  BY <1>4, <1>5, <1>6 DEF TrailInvariant
<1>9. ASSUME NEW i \in Ids
      PROVE  /\ p \notin About(i) /\ About(i) \subseteq Requests
             /\ \A r \in Requests \ {p} : r \in About(i)' <=> r \in About(i)
             /\ p \in About(i)' <=> i = j /\ o.logs # "bulk"
             /\ About(i)' \subseteq Requests
  BY <1>1, <1>4, <1>5 DEF About
<1>10. ASSUME NEW r \in Requests \ {p}
       PROVE  /\ Pending(r)' <=> Pending(r)
              /\ Done(r)' <=> Done(r)
              /\ Found(r)' <=> Found(r)
              /\ Audited(r)' <=> Audited(r)
              /\ Told(r)' <=> Told(r)
  <2>1. /\ state'[r] = state[r] /\ op'[r] = op[r] /\ todo'[r] = todo[r] /\ target'[r] = target[r]
        /\ table' = table /\ trail' = trail /\ entity' = entity
    BY <1>1, <1>5
  <2>2. /\ Pending(r)' <=> Pending(r)
        /\ Done(r)' <=> Done(r)
        /\ Found(r)' <=> Found(r)
        /\ Audited(r)' <=> Audited(r)
    BY <2>1 DEF Pending, Done, Found, Audited
  <2>. QED
    BY <2>1, <2>2 DEF Told
<1>11. ASSUME NEW i \in Ids, Clean(i)' PROVE Clean(i)
  <2>1. ASSUME NEW r \in About(i)
        PROVE  /\ state[r] \in {"busy", "ok", "missing"} /\ r \notin unlogged
               /\ Done(r) => Audited(r)
               /\ \A q \in About(i) : ~Overlaps(q, r)
    <3>1. r \in Requests \ {p} /\ r \in About(i)'
      BY <1>9
    <3>2. /\ state'[r] \in {"busy", "ok", "missing"} /\ r \notin unlogged'
          /\ Done(r)' => Audited(r)'
          /\ \A q \in About(i)' : ~Overlaps(q, r)'
      BY <1>11, <3>1 DEF Clean
    <3>3. ASSUME NEW q \in About(i) PROVE ~Overlaps(q, r)
      <4>1. q \in Requests \ {p} /\ q \in About(i)'
        BY <1>9
      <4>. QED
        BY <1>5, <3>1, <3>2, <4>1 DEF Overlaps
    <3>. QED
      BY <1>1, <1>5, <1>10, <3>1, <3>2, <3>3
  <2>. QED
    BY <2>1 DEF Clean
<1>12. ASSUME NEW i \in Ids, p \notin About(i)' PROVE TrailFits(i)' /\ Unknown(i)'
  <2>1. /\ About(i)' = About(i)
        /\ \A r \in About(i) : r \in Requests \ {p} /\ state'[r] = state[r]
    <3>1. \A r \in About(i) : r \in Requests \ {p}
      BY <1>9
    <3>2. \A r \in About(i)' : r \in Requests \ {p}
      BY <1>9, <1>12
    <3>3. \A r \in Requests \ {p} : r \in About(i)' <=> r \in About(i)
      BY <1>9
    <3>4. About(i)' = About(i)
      BY <3>1, <3>2, <3>3
    <3>. QED
      BY <1>5, <3>1, <3>4
  <2>2. TrailFits(i) /\ Unknown(i)
    BY <1>1 DEF TrailInvariant
  <2>3. Unknown(i)'
    BY <1>1, <2>1, <2>2 DEF Unknown
  <2>4. TrailFits(i)'
    BY <1>1, <1>10, <1>11, <2>1, <2>2 DEF TrailFits
  <2>. QED
    BY <2>3, <2>4
<1>13. ASSUME NEW i \in Ids, p \in About(i)' PROVE TrailFits(i)' /\ Unknown(i)'
  <2>1. i = j /\ o.logs # "bulk" /\ Unknown(i)'
    BY <1>9, <1>13 DEF Unknown
  <2>2. ASSUME Clean(i)' PROVE Told(p)' /\ \A r \in About(i)' : state'[r] = "busy" => r = p
    <3>1. ASSUME NEW r \in About(i), r # p PROVE Answered(r)
      <4>1. r \in Requests \ {p} /\ r \in About(i)'
        BY <1>9
      <4>2. ~Overlaps(r, p)'
        BY <1>13, <2>2, <4>1 DEF Clean
      <4>3. r \in before'[p] \/ p \in before'[r]
        BY <3>1, <4>2 DEF Overlaps
      <4>. QED
        BY <1>4, <1>5, <1>7, <4>1, <4>3
    <3>2. \A r \in About(i) : state[r] # "busy"
      BY <1>9, <3>1 DEF Answered
    <3>3. \A r \in About(i)' : state'[r] = "busy" => r = p
      BY <1>5, <1>9, <3>2
    <3>4. o.logs # "create" => Says(trail, i, table[i].status)
      <4>1. CASE i = Existing \/ About(i) # {}
        BY <1>11, <2>2, <3>2, <4>1 DEF TrailInvariant, TrailFits
      <4>2. CASE i # Existing /\ About(i) = {}
        <5>1. /\ \A n \in DOMAIN trail : trail[n].id # i
              /\ table[i].status \in {"none", "live"}
          BY <4>2 DEF TrailInvariant, Unknown
        <5>2. Last(trail, i) = {}
          BY <5>1 DEF Last
        <5>3. o.logs # "create" => table[i].status = "live"
          BY <1>2, <2>1, <4>2, <5>1 DEF Exists
        <5>. QED
          BY <5>2, <5>3 DEF Says
      <4>. QED
        BY <4>1, <4>2
    <3>5. Pending(p)' /\ ~Done(p)' /\ ~Found(p)'
      <4>1. ~Found(p)'
        BY <1>1, <1>7 DEF Found
      <4>. QED
        BY <1>4, <1>6, <4>1 DEF Pending, Done
    <3>6. o.logs = "hard_delete" => HasLog(todo'[p])
      <4>1. o.logs = "hard_delete" => HasLog(o.does)
        BY <1>6 DEF Sorted
      <4>. QED
        BY <1>4, <4>1
    <3>7. Told(p)'
      BY <1>1, <1>4, <2>1, <3>4, <3>5, <3>6 DEF Told
    <3>. QED
      BY <3>3, <3>7
  <2>3. state'[p] = "busy"
    BY <1>4
  <2>. QED
    BY <1>13, <2>1, <2>2, <2>3 DEF TrailFits
<1>. QED
  BY <1>8, <1>12, <1>13 DEF TrailInvariant

\* At first the trail is empty, as it should be.
LEMMA TrailInit == Init => TrailInvariant
<1>. SUFFICES ASSUME Init PROVE TrailInvariant
  OBVIOUS
<1>1. AnsweredInvariant
  BY AnsweredInit
<1>2. ASSUME NEW r \in Requests PROVE Sorted(op[r], todo[r])
  <2>1. op[r] = Create /\ todo[r] = <<>>
    BY DEF Init
  <2>2. Spells(Create, <<"insert", "log">>, "create", {})
    BY OperationsSpelled
  <2>3. Create.logs # "hard_delete"
    BY <2>2 DEF Spells
  <2>. QED
    BY <2>1, <2>3, NothingSorted
<1>3. ASSUME NEW i \in Ids PROVE TrailFits(i) /\ Unknown(i)
  <2>1. trail = <<>> /\ About(i) = {}
    BY DEF Init, About
  <2>2. Last(trail, i) = {}
    BY <2>1 DEF Last
  <2>3. table[i].status = IF i = Existing THEN "live" ELSE "none"
    BY DEF Init, Row, NoRow
  <2>4. Unknown(i)
    BY <2>1, <2>3 DEF Unknown
  <2>5. i = Existing => Says(trail, i, table[i].status)
    BY <2>2, <2>3 DEF Says
  <2>. QED
    BY <2>1, <2>4, <2>5 DEF TrailFits
<1>. QED
  BY <1>1, <1>2, <1>3 DEF TrailInvariant

\* Every step keeps the invariant.
LEMMA TrailNext == TrailInvariant /\ [Next]_vars => TrailInvariant'
<1>. SUFFICES ASSUME TrailInvariant, [Next]_vars PROVE TrailInvariant'
  OBVIOUS
<1>1. AnsweredInvariant /\ AnsweredInvariant'
  BY AnsweredNext DEF TrailInvariant
<1>2. ASSUME NEW p \in Requests, Serve(p), ~Call(p) PROVE TrailInvariant'
  <2>1. Frame(p) /\ Does(p) /\ Tracks(p)
    BY <1>1, <1>2, Steps, TrailSteps DEF AnsweredInvariant
  <2>2. \A r \in Requests : Sorted(op'[r], todo'[r])
    BY <2>1, SortedKept
  <2>3. \A i \in Ids : TrailFits(i)' /\ Unknown(i)'
    BY <2>1, OwnRow, OtherRows
  <2>. QED
    BY <1>1, <2>2, <2>3 DEF TrailInvariant
<1>3. CASE UNCHANGED vars
  <2>1. UNCHANGED <<table, trail, state, op, target, todo, entity, before, unlogged>>
    BY <1>3 DEF vars, request
  <2>2. \A r \in Requests : Sorted(op'[r], todo'[r])
    BY <2>1 DEF TrailInvariant
  <2>3. ASSUME NEW i \in Ids PROVE TrailFits(i)' /\ Unknown(i)'
    <3>1. About(i)' = About(i) /\ About(i) \subseteq Requests
      BY <2>1 DEF About
    <3>2. \A r \in Requests : /\ Pending(r)' <=> Pending(r)
                              /\ Done(r)' <=> Done(r)
                              /\ Found(r)' <=> Found(r)
                              /\ Audited(r)' <=> Audited(r)
      BY <2>1 DEF Pending, Done, Found, Audited
    <3>3. \A r \in Requests : Told(r)' <=> Told(r)
      BY <2>1, <3>2 DEF Told
    <3>4. \A q, r \in Requests : Overlaps(q, r)' <=> Overlaps(q, r)
      BY <2>1 DEF Overlaps
    <3>5. Clean(i)' <=> Clean(i)
      BY <2>1, <3>1, <3>2, <3>4 DEF Clean
    <3>6. TrailFits(i) /\ Unknown(i)
      BY DEF TrailInvariant
    <3>. QED
      BY <2>1, <3>1, <3>3, <3>5, <3>6 DEF TrailFits, Unknown
  <2>. QED
    BY <1>1, <2>2, <2>3 DEF TrailInvariant
<1>. QED
  BY <1>1, <1>2, <1>3, TrailCall DEF Next, Quiet

\* The requests about a row wait for one another, or its trail is not to be
\* believed: between the change and its entry only the request knows of it
\* (abstract.repository.ts:64-75, 256-267, 366-379).
THEOREM TrailInvariantHolds == Spec => []TrailInvariant
<1>. QED
  BY TrailInit, TrailNext, PTL DEF Spec

\* The trail explains the table for any number of requests, rows and columns:
\* when those about a row were audited, have ended without an error and did not
\* overlap, its last entry tells whether it is there
\* (abstract.repository.ts:421-455).
THEOREM TrailExplains == Spec => []TrailExplainsTable
<1>1. TrailInvariant => TrailExplainsTable
  <2>. SUFFICES ASSUME TrailInvariant, NEW i \in Ids, i = Existing \/ About(i) # {},
                       \A r \in About(i) :
                         /\ state[r] \in {"ok", "missing"} /\ r \notin unlogged
                         /\ state[r] = "ok" => \E n \in DOMAIN op[r].does : op[r].does[n] = "log"
                         /\ \A q \in About(i) : ~Overlaps(q, r)
                PROVE  Tells(i, table[i].status)
    BY DEF TrailExplainsTable
  <2>1. Clean(i)
    BY DEF Clean, Done, Audited, HasLog
  <2>2. Says(trail, i, table[i].status)
    BY <2>1 DEF TrailInvariant, TrailFits
  <2>3. LastEntry(i) = Last(trail, i)
    BY DEF LastEntry, Last
  <2>. QED
    BY <2>2, <2>3 DEF Says, Tells
<1>. QED
  BY <1>1, TrailInvariantHolds, PTL
===============================================================================
