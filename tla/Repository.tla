------------------------------ MODULE Repository ------------------------------
(***************************************************************************)
(* abstract.repository.ts and the services that extend it, over one table  *)
(* and its audit trail.  An operation is the sequence of its statements;   *)
(* each statement is a step, as none of the callers hands in a             *)
(* transaction.  The services of today log nothing, the operations of      *)
(* AbstractRepository are modelled with an audit context.                  *)
(***************************************************************************)
EXTENDS Integers, Sequences

CONSTANTS
  Requests,   \* each is served once
  Existing,   \* the row that is there to begin with
  Columns     \* of the table, but for deleted_at

\* The ids are uuids: no two rows are given the same one, nor does a value that
\* a request writes stand for what was there.
ASSUME RepositoryAssumption ==
  /\ Columns # {}
  /\ Existing \notin Requests \cup (Requests \X {1, 2})

VARIABLES
  table,      \* the rows
  trail,      \* the entries of audit_logs
  state,      \* "new", "busy" or the answer of each request
  op,         \* what it does
  target,     \* the row it is about
  todo,       \* the statements that are left
  entity,     \* the row it has found
  changes,    \* what its save has found to differ
  before,     \* history: the requests answered when it arrived
  unlogged    \* history: the requests whose entry failed

request == <<state, op, target, before>>
vars == <<table, trail, request, todo, entity, changes, unlogged>>

--------------------------------------------------------------------------------
(***************************************************************************)
(* The operations: statements, name in the trail, columns written.  save   *)
(* is a SELECT by id, which sees deleted rows, and then an UPDATE or an    *)
(* INSERT.                                                                 *)
(***************************************************************************)
Operation(does, logs, sets) == [does |-> does, logs |-> logs, sets |-> sets]
Find == <<"find">>
Save == <<"load", "write">>
Log == <<"log">>
AColumn == {CHOOSE c \in Columns : TRUE}

Create == Operation(<<"insert">> \o Log, "create", {})
CreateMany == Operation(<<"insertMany">> \o Log, "create", {})
UpdateMany == Operation(<<"update">> \o Log, "bulk", AColumn)
UpdateOne == Operation(Find \o Save \o Log, "update", AColumn)
Remove == Operation(Find \o <<"softRemove">> \o Log, "delete", {})
Restore == Operation(<<"findDeleted", "recover">> \o Log, "restore", {})

\* Mutant of HardRemove: the entry is written when the row is gone.
HardRemoveFirst == Operation(Find \o <<"remove">> \o Log, "hard_delete", {})

HardRemove == Operation(Find \o Log \o <<"remove">>, "hard_delete", {})

CreateProduct == Operation(<<"insert">>, "create", {})
UpdateProduct == Operation(Find \o Save, "update", AColumn)
RemoveProduct == Operation(Find \o <<"softRemove">>, "delete", {})
CreateRole == CreateProduct
UpdateRole == UpdateProduct
RemoveRole == RemoveProduct
CreateAccountForUser == CreateProduct
CreateLog == CreateProduct
\* The account is found by its user and then, in updateOne, by its id.
UpdateAccountDetails == Operation(Find \o Find \o Save, "update", Columns \ AColumn)
PauseNotifications == [UpdateAccountDetails EXCEPT !.sets = Columns]
ResumeNotifications == PauseNotifications

Operations == {Create, CreateMany, UpdateMany, UpdateOne, Remove, Restore, HardRemove,
               CreateProduct, UpdateProduct, RemoveProduct, CreateRole, UpdateRole, RemoveRole,
               CreateAccountForUser, UpdateAccountDetails, PauseNotifications,
               ResumeNotifications, CreateLog}

--------------------------------------------------------------------------------
Ids == {Existing} \cup (Requests \X {1, 2})
Row(status, by) == [status |-> status, cols |-> [c \in Columns |-> by]]
NoRow == Row("none", Existing)
Exists(i) == table[i].status # "none"
NoChange == [insert |-> FALSE, status |-> FALSE, cols |-> {}]

Init ==
  /\ table = [i \in Ids |-> IF i = Existing THEN Row("live", Existing) ELSE NoRow]
  /\ trail = <<>>
  /\ state = [r \in Requests |-> "new"]
  /\ op = [r \in Requests |-> Create]
  /\ target = [r \in Requests |-> Existing]
  /\ todo = [r \in Requests |-> <<>>]
  /\ entity = [r \in Requests |-> NoRow]
  /\ changes = [r \in Requests |-> NoChange]
  /\ before = [r \in Requests |-> {}]
  /\ unlogged = {}

Answered(r) == state[r] \notin {"new", "busy"}

\* A request names a row that has been there, or makes one of its own.
Call(r) ==
  /\ state[r] = "new"
  /\ \E o \in Operations, i \in {j \in Ids : Exists(j)} \cup {Existing} :
       /\ op' = [op EXCEPT ![r] = o]
       /\ todo' = [todo EXCEPT ![r] = o.does]
       /\ IF o.logs = "create"
          THEN i = Existing /\ target' = [target EXCEPT ![r] = <<r, 1>>]
          ELSE target' = [target EXCEPT ![r] = i]
  /\ state' = [state EXCEPT ![r] = "busy"]
  /\ before' = [before EXCEPT ![r] = {q \in Requests : Answered(q)}]
  /\ UNCHANGED <<table, trail, entity, changes, unlogged>>

At(r, statement) == state[r] = "busy" /\ todo[r] # <<>> /\ Head(todo[r]) = statement

\* On to the next statement, or to the answer.
Advance(r) ==
  /\ todo' = [todo EXCEPT ![r] = Tail(@)]
  /\ state' = [state EXCEPT ![r] = IF Len(todo[r]) = 1 THEN "ok" ELSE "busy"]
  /\ UNCHANGED <<op, target, before>>

Give(r, answer) ==
  /\ state' = [state EXCEPT ![r] = answer]
  /\ todo' = [todo EXCEPT ![r] = <<>>]
  /\ UNCHANGED <<op, target, before>>

--------------------------------------------------------------------------------
(***************************************************************************)
(* The statements.                                                         *)
(***************************************************************************)
Lookup(r, found) ==
  /\ IF found THEN Advance(r) /\ entity' = [entity EXCEPT ![r] = table[target[r]]]
              ELSE Give(r, "missing") /\ UNCHANGED entity
  /\ UNCHANGED <<table, trail, changes, unlogged>>

\* Mutant of FindOne: deleted rows are found too.
FindOneWithDeleted(r) == At(r, "find") /\ Lookup(r, Exists(target[r]))

\* Mutant of FindOne: the check for a missing row is dropped.
FindOneUnchecked(r) == At(r, "find") /\ Lookup(r, TRUE)

FindOne(r) == At(r, "find") /\ Lookup(r, table[target[r]].status = "live")
FindOneWithDeletedToo(r) == At(r, "findDeleted") /\ Lookup(r, Exists(target[r]))

\* The entity with the payload over it.
Merged(r) ==
  [entity[r] EXCEPT !.cols = [c \in Columns |-> IF c \in op[r].sets THEN r ELSE @[c]]]

SaveLoad(r) ==
  LET row == table[target[r]] IN
  /\ At(r, "load")
  /\ changes' = [changes EXCEPT ![r] =
       [insert |-> ~Exists(target[r]),
        status |-> row.status # entity[r].status,
        cols |-> {c \in Columns : row.cols[c] # Merged(r).cols[c]}]]
  /\ Advance(r)
  /\ UNCHANGED <<table, trail, entity, unlogged>>

\* A row that is gone again is not updated, one that is there again is not
\* inserted twice.
SaveWrite(r) ==
  LET i == target[r]
      d == changes[r]
      updated == [status |-> IF d.status THEN Merged(r).status ELSE table[i].status,
                  cols |-> [c \in Columns |->
                              IF c \in d.cols THEN Merged(r).cols[c] ELSE table[i].cols[c]]]
  IN
  /\ At(r, "write")
  /\ \/ d.insert /\ ~Exists(i) /\ table' = [table EXCEPT ![i] = Merged(r)] /\ Advance(r)
     \/ d.insert /\ Exists(i) /\ UNCHANGED table /\ Give(r, "error")
     \/ ~d.insert /\ table' = (IF Exists(i) THEN [table EXCEPT ![i] = updated] ELSE table)
                  /\ Advance(r)
  /\ UNCHANGED <<trail, entity, changes, unlogged>>

Insert(r) ==
  /\ \/ At(r, "insert") /\ table' = [table EXCEPT ![<<r, 1>>] = Row("live", r)]
     \/ At(r, "insertMany")
        /\ table' = [i \in Ids |-> IF i \in {<<r, 1>>, <<r, 2>>} THEN Row("live", r) ELSE table[i]]
  /\ Advance(r)
  /\ UNCHANGED <<trail, entity, changes, unlogged>>

\* repo.update(criteria) of any rows; with none there is nothing to log.
Update(r) ==
  /\ At(r, "update")
  /\ \E S \in SUBSET {i \in Ids : Exists(i)} :
       /\ table' = [i \in Ids |->
            IF i \in S
            THEN [table[i] EXCEPT !.cols = [c \in Columns |-> IF c \in op[r].sets THEN r ELSE @[c]]]
            ELSE table[i]]
       /\ IF S = {} THEN Give(r, "ok") ELSE Advance(r)
  /\ UNCHANGED <<trail, entity, changes, unlogged>>

\* softRemove, recover and remove of the entity that was found; a row that is
\* no longer there stays away.
SetStatus(r, statement, status) ==
  /\ At(r, statement)
  /\ table' = IF Exists(target[r])
              THEN [table EXCEPT ![target[r]] = IF status = "none" THEN NoRow
                                                ELSE [@ EXCEPT !.status = status]]
              ELSE table
  /\ Advance(r)
  /\ UNCHANGED <<trail, entity, changes, unlogged>>

\* logAudit: a failure is logged and the operation goes on.  The id of an
\* entry for a bulk update is the text 'bulk', which the uuid column refuses.
LogAudit(r) ==
  /\ At(r, "log")
  /\ \/ /\ op[r].logs # "bulk"
        /\ trail' = Append(trail, [id |-> target[r], action |-> op[r].logs])
        /\ UNCHANGED unlogged
     \/ UNCHANGED trail /\ unlogged' = unlogged \cup {r}
  /\ Advance(r)
  /\ UNCHANGED <<table, entity, changes>>

\* The database fails and the request with it.
Fail(r) ==
  /\ state[r] = "busy" /\ ~At(r, "log")
  /\ Give(r, "error")
  /\ UNCHANGED <<table, trail, entity, changes, unlogged>>

Serve(r) ==
  \/ Call(r) \/ FindOne(r) \/ FindOneWithDeletedToo(r) \/ SaveLoad(r) \/ SaveWrite(r) \/ Insert(r)
  \/ Update(r) \/ SetStatus(r, "softRemove", "deleted") \/ SetStatus(r, "recover", "live")
  \/ SetStatus(r, "remove", "none") \/ LogAudit(r) \/ Fail(r)

Quiet == (\A r \in Requests : Answered(r)) /\ UNCHANGED vars

Next == (\E r \in Requests : Serve(r)) \/ Quiet
Spec == Init /\ [][Next]_vars

--------------------------------------------------------------------------------
\* The requests that overlap with r, or come after it, and may touch its row.
Overlaps(q, r) == q # r /\ q \notin before[r] /\ r \notin before[q]
About(i) == {r \in Requests : state[r] # "new" /\ target[r] = i /\ op[r].logs # "bulk"}
Since(r) == {q \in Requests :
  /\ state[q] # "new" /\ q # r /\ q \notin before[r]
  /\ target[q] = target[r] \/ op[q].logs = "bulk"}
Saves(q) == Save[1] \in {op[q].does[n] : n \in DOMAIN op[q].does}

\* What a request that was answered has done, for its row.
Effect(r) ==
  LET row == table[target[r]] IN
  CASE op[r].logs = "create" -> row.status # "none"
    [] op[r].logs = "update" -> \A c \in op[r].sets : row.cols[c] = r
    [] op[r].logs = "delete" -> row.status = "deleted"
    [] op[r].logs = "restore" -> row.status = "live"
    [] op[r].logs = "hard_delete" -> row.status = "none"
    [] op[r].logs = "bulk" -> TRUE

\* The requests that are there to undo it.
Reverses(q, r) ==
  \/ op[q].logs = "hard_delete"
  \/ op[r].logs = "delete" /\ op[q].logs = "restore"
  \/ op[r].logs = "restore" /\ op[q].logs = "delete"
  \/ op[r].logs = "update" /\ op[q].sets \cap op[r].sets # {}

\* What was answered holds until another request is there to change it: only a
\* save that overlaps undoes it otherwise, one that found the row before and
\* writes old columns back, undeletes the row or inserts it again.
AnsweredHolds ==
  \A r \in Requests : state[r] = "ok" =>
    Effect(r) \/ \E q \in Since(r) : Reverses(q, r) \/ (Saves(q) /\ Overlaps(q, r))

\* A row does not disappear without a trace: when a hard removal has begun to
\* take effect its entry is in the trail or has failed, wherever the process
\* stops and whatever runs beside it.
NoTraceIsLost ==
  ~Exists(Existing) =>
    \/ \E n \in DOMAIN trail : trail[n] = [id |-> Existing, action |-> "hard_delete"]
    \/ \E r \in unlogged : op[r] = HardRemove

\* Whether the last entry about a row says that it has this status.
StatusAfter == [create |-> "live", update |-> "live", restore |-> "live",
                delete |-> "deleted", hard_delete |-> "none"]
LastEntry(i) == {n \in DOMAIN trail :
  trail[n].id = i /\ \A m \in DOMAIN trail : trail[m].id = i => m <= n}
Tells(i, status) ==
  IF LastEntry(i) = {} THEN status = "live"
  ELSE \E n \in LastEntry(i) : status = StatusAfter[trail[n].action]

\* The trail explains the table: when the requests about a row were audited,
\* have ended without an error and did not overlap, its last entry tells
\* whether the row is there.  With overlaps it need not: the entries come in
\* another order than the changes.
TrailExplainsTable ==
  \A i \in Ids :
    (/\ i = Existing \/ About(i) # {}
     /\ \A r \in About(i) :
          /\ state[r] \in {"ok", "missing"} /\ r \notin unlogged
          /\ state[r] = "ok" => \E n \in DOMAIN op[r].does : op[r].does[n] = "log"
          /\ \A q \in About(i) : ~Overlaps(q, r))
    => Tells(i, table[i].status)
================================================================================
