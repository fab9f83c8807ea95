-------------------------------- MODULE UserRow --------------------------------
(***************************************************************************)
(* One row of the table users and the requests that change it:             *)
(* updateUserById, updateUserByIdRaw and softDeleteUser of                 *)
(* src/src/modules/identity/user/user.service.ts, called by auth.service   *)
(* and identity.service.                                                   *)
(*                                                                         *)
(* updateUserById is three database statements: its findOne, then, inside  *)
(* TypeORM's save(), a SELECT of the row by id and an UPDATE of the        *)
(* columns in which the entity in memory differs from what that SELECT     *)
(* returned.  Nothing locks the row between them and there is no version   *)
(* column, so the entity found first may be old when it is compared.       *)
(***************************************************************************)
EXTENDS Integers, FiniteSets

CONSTANTS
  Requests,   \* the requests that change the row, each served once
  Task,       \* what each request is: a member of Tasks
  Patch       \* the body of each profile request

Tasks == {"reset", "verify", "activate", "deactivate", "profile", "login", "delete"}

Columns == {"password", "isActive", "isEmailVerified", "profile", "lastLogin", "deletedAt"}

\* Passwords, profiles and login times are named after the request that chose them.
Named == {"password", "profile", "lastLogin"}

\* PATCH users/:id/profile types its body in line, so no validation looks at
\* it: it may hold a value for every column of the entity.  An id, by which the
\* save would work on another row, and a role are left out.
IsPatch(r, body) ==
  /\ DOMAIN body \subseteq Columns
  /\ \A c \in DOMAIN body : IF c \in Named THEN body[c] = r ELSE body[c] \in BOOLEAN

ASSUME UserRowAssumption ==
  /\ Task \in [Requests -> Tasks]
  /\ \A r \in Requests : Task[r] = "profile" => IsPatch(r, Patch[r])
  /\ "original" \notin Requests

VARIABLES
  row,      \* the row in the database
  pc,       \* where each request is
  entity,   \* the entity each save() works on, for the requests that have one
  dirty,    \* the columns save() has found to differ
  before    \* history: the requests answered when this one arrived

vars == <<row, pc, entity, dirty, before>>

--------------------------------------------------------------------------------
Choice == Requests \cup {"original"}
Row == [password : Choice, isActive : BOOLEAN, isEmailVerified : BOOLEAN,
        profile : Choice, lastLogin : Choice, deletedAt : BOOLEAN]

\* The columns a request sets: the body it passes to the user service.
Body(r) ==
  CASE Task[r] = "reset"      -> [password |-> r, isActive |-> TRUE]
    [] Task[r] = "verify"     -> [isEmailVerified |-> TRUE]
    [] Task[r] = "activate"   -> [isActive |-> TRUE]
    [] Task[r] = "deactivate" -> [isActive |-> FALSE]
    [] Task[r] = "profile"    -> Patch[r]
    [] Task[r] = "login"      -> [lastLogin |-> r]
    [] Task[r] = "delete"     -> [deletedAt |-> TRUE]

Sets(r) == DOMAIN Body(r)

\* The requests served by updateUserById; the others are one UPDATE after a findOne.
Savers == {r \in Requests : Task[r] \notin {"login", "delete"}}

\* Object.assign(user, body), and an UPDATE of the columns of body.
Assign(user, body) == [c \in Columns |-> IF c \in DOMAIN body THEN body[c] ELSE user[c]]

Final == {"notFound", "done", "error"}
PC == {"idle", "find", "load", "write"} \cup Final
Finished == {r \in Requests : pc[r] \in Final}

\* A user as insertNewUserByAdmin leaves it, or the seeder, or later.
Init ==
  /\ \E active, verified \in BOOLEAN :
       row = [password |-> "original", isActive |-> active, isEmailVerified |-> verified,
              profile |-> "original", lastLogin |-> "original", deletedAt |-> FALSE]
  /\ pc = [r \in Requests |-> "idle"]
  /\ entity = [r \in {} |-> row]
  /\ dirty = [r \in Requests |-> {}]
  /\ before = [r \in Requests |-> {}]

Goto(r, l) == pc' = [pc EXCEPT ![r] = l]

Call(r) ==
  /\ pc[r] = "idle"
  /\ Goto(r, "find")
  /\ before' = [before EXCEPT ![r] = Finished]
  /\ UNCHANGED <<row, entity, dirty>>

\* findOne leaves soft-deleted rows out.
NotFound(r) ==
  /\ pc[r] = "find"
  /\ row.deletedAt
  /\ Goto(r, "notFound")
  /\ UNCHANGED <<row, entity, dirty, before>>

\* Mutants of SaveFind: the row overrides the body; soft-deleted rows are found.
SaveFindReversed(r) ==
  /\ r \in Savers /\ pc[r] = "find" /\ ~row.deletedAt
  /\ entity' = [s \in DOMAIN entity \cup {r} |-> IF s = r THEN Assign(Body(r), row) ELSE entity[s]]
  /\ Goto(r, "load")
  /\ UNCHANGED <<row, dirty, before>>
SaveFindWithDeleted(r) ==
  /\ r \in Savers /\ pc[r] = "find"
  /\ entity' = [s \in DOMAIN entity \cup {r} |-> IF s = r THEN Assign(row, Body(r)) ELSE entity[s]]
  /\ Goto(r, "load")
  /\ UNCHANGED <<row, dirty, before>>

\* updateUserById: findOne and Object.assign.
SaveFind(r) ==
  /\ r \in Savers
  /\ pc[r] = "find"
  /\ ~row.deletedAt
  /\ entity' = [s \in DOMAIN entity \cup {r} |-> IF s = r THEN Assign(row, Body(r)) ELSE entity[s]]
  /\ Goto(r, "load")
  /\ UNCHANGED <<row, dirty, before>>

\* Mutant of SaveLoad: the virtual property activeRole is taken for a column.
SaveLoadVirtual(r) ==
  /\ pc[r] = "load"
  /\ dirty' = [dirty EXCEPT ![r] = {"activeRole"} \cup {c \in Columns : entity[r][c] # row[c]}]
  /\ Goto(r, "write")
  /\ UNCHANGED <<row, entity, before>>

\* save(): the SELECT by id, soft-deleted rows included, and the comparison.
SaveLoad(r) ==
  /\ pc[r] = "load"
  /\ dirty' = [dirty EXCEPT ![r] = {c \in Columns : entity[r][c] # row[c]}]
  /\ Goto(r, IF dirty'[r] = {} THEN "done" ELSE "write")
  /\ UNCHANGED <<row, entity, before>>

\* save(): the UPDATE of the columns that differed; its answer may be lost.
SaveWrite(r) ==
  /\ r \in Savers
  /\ pc[r] = "write"
  /\ row' = [c \in Columns |-> IF c \in dirty[r] THEN entity[r][c] ELSE row[c]]
  /\ \E answer \in {"done", "error"} : Goto(r, answer)
  /\ UNCHANGED <<entity, dirty, before>>

\* login and softDeleteUser: a findOne, then an UPDATE of one column by id.
DirectFind(r) ==
  /\ r \notin Savers
  /\ pc[r] = "find"
  /\ ~row.deletedAt
  /\ Goto(r, "write")
  /\ UNCHANGED <<row, entity, dirty, before>>

DirectWrite(r) ==
  /\ r \notin Savers
  /\ pc[r] = "write"
  /\ row' = Assign(row, Body(r))
  /\ \E answer \in {"done", "error"} : Goto(r, answer)
  /\ UNCHANGED <<entity, dirty, before>>

\* The database refuses a statement: the request ends with an error.
Fail(r) ==
  /\ pc[r] \in {"find", "load", "write"}
  /\ Goto(r, "error")
  /\ UNCHANGED <<row, entity, dirty, before>>

Step(r) ==
  \/ NotFound(r)
  \/ SaveFind(r) \/ SaveLoad(r) \/ SaveWrite(r)
  \/ DirectFind(r) \/ DirectWrite(r)
  \/ Fail(r)

Quiet == Finished = Requests /\ UNCHANGED vars

Next == (\E r \in Requests : Call(r) \/ Step(r)) \/ Quiet

Spec == Init /\ [][Next]_vars

--------------------------------------------------------------------------------
\* The type invariant: what a save works on and writes are columns of the row.
TypeOK ==
  /\ row \in Row
  /\ pc \in [Requests -> PC]
  /\ DOMAIN entity \subseteq Requests
  /\ \A r \in DOMAIN entity : entity[r] \in Row
  /\ dirty \in [Requests -> SUBSET Columns]
  /\ before \in [Requests -> SUBSET Requests]

Overlap(r, s) == r # s /\ pc[s] # "idle" /\ s \notin before[r] /\ r \notin before[s]

\* A request that was not answered when r arrived sets column c as well.
Rewrites(r, c) == \E s \in Requests \ {r} : c \in Sets(s) /\ pc[s] # "idle" /\ s \notin before[r]

\* A save that overlaps with r has value v in column c of its entity, and has
\* found that it differs from the row.
WritesBack(r, c, v) == \E s \in Savers : Overlap(r, s) /\ c \in dirty[s] /\ entity[s][c] = v

\* A request answered "done" keeps its effect: a column that it set, and that no
\* overlapping or later request sets, has lost the value it chose only to a save
\* that overlapped with it and wrote an old copy of the column back
\* (user.service.ts:86-93).
AnsweredUpdateSurvives ==
  \A r \in Requests : \A c \in Sets(r) :
    pc[r] = "done" /\ ~Rewrites(r, c) => row[c] = Body(r)[c] \/ WritesBack(r, c, row[c])

\* A user whose deletion was answered is not found by a request that arrives
\* afterwards, unless a request that sets deletedAt, or a save that overlapped
\* with the deletion, has undone it (user.service.ts:78-84, 86-90).
DeletedIsNotFound ==
  \A d, r \in Requests :
    Task[d] = "delete" /\ pc[d] = "done" /\ d \in before[r] /\ pc[r] = "done"
      => Rewrites(d, "deletedAt") \/ WritesBack(d, "deletedAt", FALSE)
================================================================================
