----------------------------- MODULE UserRowProofs -----------------------------
(***************************************************************************)
(* Theorems about the updates of one row of the table users, for every     *)
(* number of requests, every task they have and every body of a profile    *)
(* request.                                                                *)
(***************************************************************************)
EXTENDS UserRow, TLAPS

--------------------------------------------------------------------------------
(***************************************************************************)
(* What a request sets, and what a save writes.                            *)
(***************************************************************************)

\* The body of a request has columns of the row, with values of their type.
LEMMA BodyFacts ==
  ASSUME NEW r \in Requests
  PROVE  /\ Sets(r) \subseteq Columns
         /\ \A user \in Row : Assign(user, Body(r)) \in Row
  <1>1. Task[r] \in Tasks
    BY UserRowAssumption
  <1>2. CASE Task[r] = "reset"
    BY <1>2 DEF Sets, Body, Columns, Assign, Row, Choice
  <1>3. CASE Task[r] = "verify"
    BY <1>3 DEF Sets, Body, Columns, Assign, Row, Choice
  <1>4. CASE Task[r] = "activate"
    BY <1>4 DEF Sets, Body, Columns, Assign, Row, Choice
  <1>5. CASE Task[r] = "deactivate"
    BY <1>5 DEF Sets, Body, Columns, Assign, Row, Choice
  <1>6. CASE Task[r] = "profile"
    <2>1. Body(r) = Patch[r] /\ IsPatch(r, Patch[r])
      BY <1>6, UserRowAssumption DEF Body
    <2>2. Sets(r) \subseteq Columns
      BY <2>1 DEF Sets, IsPatch
    <2>3. ASSUME NEW user \in Row PROVE Assign(user, Body(r)) \in Row
      <3> DEFINE patched == Assign(user, Body(r))
      <3>1. \A c \in Columns : /\ c \in Named => patched[c] \in Choice
                               /\ c \notin Named => patched[c] \in BOOLEAN
        <4> SUFFICES ASSUME NEW c \in Columns
                     PROVE  /\ c \in Named => patched[c] \in Choice
                            /\ c \notin Named => patched[c] \in BOOLEAN
          OBVIOUS
        <4>1. CASE c \in DOMAIN Patch[r]
          BY <2>1, <4>1 DEF Assign, IsPatch, Choice
        <4>2. CASE c \notin DOMAIN Patch[r]
          BY <2>1, <4>2 DEF Assign, Row, Choice, Columns, Named
        <4> QED BY <4>1, <4>2
      <3>2. patched = [c \in Columns |-> patched[c]]
        BY DEF Assign
      <3> HIDE DEF patched
      <3>3. patched \in Row
        BY <3>1, <3>2 DEF Row, Columns, Named
      <3> QED BY <3>3 DEF patched
    <2> QED BY <2>2, <2>3
  <1>7. CASE Task[r] = "login"
    BY <1>7 DEF Sets, Body, Columns, Assign, Row, Choice
  <1>8. CASE Task[r] = "delete"
    BY <1>8 DEF Sets, Body, Columns, Assign, Row, Choice
  <1> QED BY <1>1, <1>2, <1>3, <1>4, <1>5, <1>6, <1>7, <1>8 DEF Tasks

\* An UPDATE of some columns of one user with those of another is a user.
LEMMA WriteType ==
  ASSUME NEW u \in Row, NEW w \in Row, NEW S
  PROVE  [c \in Columns |-> IF c \in S THEN w[c] ELSE u[c]] \in Row
  BY DEF Columns, Row

\* Assign takes the columns of the body from it and the others from the user.
LEMMA AssignFacts ==
  ASSUME NEW user, NEW r \in Requests, NEW c \in Columns
  PROVE  /\ c \in Sets(r) => Assign(user, Body(r))[c] = Body(r)[c]
         /\ c \notin Sets(r) => Assign(user, Body(r))[c] = user[c]
  BY DEF Assign, Sets

--------------------------------------------------------------------------------
(***************************************************************************)
(* The inductive invariant.                                                *)
(***************************************************************************)

\* Nobody else was in progress while r was, or since it arrived.
Alone(r) == \A s \in Requests : ~Overlap(r, s)

\* The history of a request was answered.
Past == \A r \in Requests : before[r] \subseteq Finished

\* A save has its entity from its findOne on, and nobody else has one; it has
\* compared it when it has columns to write.
HasEntity ==
  /\ \A r \in Savers : pc[r] \in {"load", "write"} => r \in DOMAIN entity
  /\ \A r \in DOMAIN entity : pc[r] \notin {"idle", "find"}
  /\ \A r \in Requests : pc[r] = "load" => r \in Savers
  /\ \A r \in Requests : dirty[r] # {} => r \in DOMAIN entity /\ pc[r] # "load"

\* The entity of a save has the values its body chose.
OwnValues == \A r \in DOMAIN entity : \A c \in Sets(r) : entity[r][c] = Body(r)[c]

\* Value v in column c is the one r chose, or there is a reason why it is not.
Explained(r, c, v) == v = Body(r)[c] \/ Rewrites(r, c) \/ WritesBack(r, c, v)

\* The update of column c is done, or its save has found nothing to write there.
Settled(r, c) == pc[r] = "done" \/ (r \in Savers /\ pc[r] = "write" /\ c \notin dirty[r])

\* What the row has, and what a later save has found, is explained.
Kept(r, c) ==
  /\ Settled(r, c) => Explained(r, c, row[c])
  /\ \A s \in DOMAIN entity : pc[r] = "done" /\ r \in before[s] => Explained(r, c, entity[s][c])

\* Whoever finds a user whose deletion was answered has a reason, too.
Undone(d) == Rewrites(d, "deletedAt") \/ WritesBack(d, "deletedAt", FALSE)

Gone(d) ==
  Task[d] = "delete" /\ pc[d] = "done" =>
    \A r \in Requests : d \in before[r] /\ pc[r] \in {"load", "write", "done"} => Undone(d)

RowInvariant ==
  /\ TypeOK
  /\ Past
  /\ HasEntity
  /\ OwnValues
  /\ \A r \in Requests : \A c \in Sets(r) : Kept(r, c)
  /\ \A d \in Requests : Gone(d)

--------------------------------------------------------------------------------
(***************************************************************************)
(* Type correctness.                                                       *)
(***************************************************************************)
LEMMA TypeInit == Init => TypeOK
  BY DEF Init, TypeOK, Row, Choice, PC

LEMMA TypeNext == TypeOK /\ HasEntity /\ [Next]_vars => TypeOK'
  <1> SUFFICES ASSUME TypeOK, HasEntity, [Next]_vars PROVE TypeOK'
    OBVIOUS
  <1> USE DEF Goto
  <1>1. ASSUME NEW r \in Requests, Call(r) PROVE TypeOK'
    BY <1>1 DEF Call, TypeOK, PC, Final, Finished
  <1>2. ASSUME NEW r \in Requests, NotFound(r) \/ DirectFind(r) \/ Fail(r) PROVE TypeOK'
    BY <1>2 DEF NotFound, DirectFind, Fail, TypeOK, PC, Final
  <1>3. ASSUME NEW r \in Requests, SaveFind(r) PROVE TypeOK'
    <2>1. Assign(row, Body(r)) \in Row
      BY BodyFacts DEF TypeOK
    <2>2. DOMAIN entity' \subseteq Requests /\ \A s \in DOMAIN entity' : entity'[s] \in Row
      BY <1>3, <2>1 DEF SaveFind, TypeOK
    <2> QED BY <1>3, <2>2 DEF SaveFind, TypeOK, PC
  <1>4. ASSUME NEW r \in Requests, SaveLoad(r) PROVE TypeOK'
    BY <1>4 DEF SaveLoad, TypeOK, PC, Final
  <1>5. ASSUME NEW r \in Requests, SaveWrite(r) PROVE TypeOK'
    <2>1. row' \in Row
      BY <1>5, WriteType DEF SaveWrite, TypeOK, HasEntity
    <2> QED BY <1>5, <2>1 DEF SaveWrite, TypeOK, PC, Final
  <1>6. ASSUME NEW r \in Requests, DirectWrite(r) PROVE TypeOK'
    <2>1. row' \in Row
      BY <1>6, BodyFacts DEF DirectWrite, TypeOK
    <2> QED BY <1>6, <2>1 DEF DirectWrite, TypeOK, PC, Final
  <1>7. CASE UNCHANGED vars
    BY <1>7 DEF vars, TypeOK
  <1> QED BY <1>1, <1>2, <1>3, <1>4, <1>5, <1>6, <1>7 DEF Next, Step, Quiet

--------------------------------------------------------------------------------
(***************************************************************************)
(* What a step leaves alone.                                               *)
(***************************************************************************)
Busy == {"find", "load", "write"}

\* One request moves: it arrives, or it was in progress.
LEMMA CallFacts ==
  ASSUME TypeOK, NEW w \in Requests, Call(w)
  PROVE  /\ pc[w] = "idle" /\ pc'[w] = "find" /\ \A s \in Requests \ {w} : pc'[s] = pc[s]
         /\ before'[w] = Finished /\ \A s \in Requests \ {w} : before'[s] = before[s]
         /\ UNCHANGED <<row, entity, dirty>>
  BY DEF Call, Goto, TypeOK

LEMMA StepFacts ==
  ASSUME TypeOK, NEW w \in Requests, Step(w)
  PROVE  /\ pc[w] \in Busy /\ pc'[w] \in {"load", "write"} \cup Final
         /\ \A s \in Requests \ {w} : pc'[s] = pc[s]
         /\ UNCHANGED before
  BY DEF Step, Fail, NotFound, SaveFind, SaveLoad, SaveWrite, DirectFind, DirectWrite, Goto,
         TypeOK, Busy, Final

\* Whoever has arrived keeps its history, and whoever is answered its answer.
LEMMA HistoryStep ==
  ASSUME RowInvariant, [Next]_vars
  PROVE  /\ \A s \in Requests : before[s] \subseteq before'[s]
         /\ \A s \in Requests : pc[s] # "idle" => pc'[s] # "idle" /\ before'[s] = before[s]
         /\ \A s \in Requests : s \in Finished => pc'[s] = pc[s]
         /\ Finished \subseteq Finished'
  <1> DEFINE History ==
        /\ \A s \in Requests : before[s] \subseteq before'[s]
        /\ \A s \in Requests : pc[s] # "idle" => pc'[s] # "idle" /\ before'[s] = before[s]
        /\ \A s \in Requests : s \in Finished => pc'[s] = pc[s]
        /\ Finished \subseteq Finished'
  <1>1. ASSUME NEW w \in Requests, Call(w) PROVE History
    BY <1>1, CallFacts DEF RowInvariant, Past, Finished, Final
  <1>2. ASSUME NEW w \in Requests, Step(w) PROVE History
    BY <1>2, StepFacts DEF RowInvariant, Busy, Finished, Final
  <1>3. CASE UNCHANGED vars
    BY <1>3 DEF vars, Finished
  <1> QED BY <1>1, <1>2, <1>3 DEF Next, Quiet

\* Requests that were in progress together stay so.
LEMMA ConditionsStep ==
  ASSUME RowInvariant, [Next]_vars
  PROVE  /\ Finished \subseteq Finished'
         /\ \A s \in Requests : before[s] \subseteq before'[s]
         /\ \A r \in Requests : pc[r] # "idle" /\ Alone(r)' => Alone(r)
  <1>1. ASSUME NEW r \in Requests, pc[r] # "idle", Alone(r)' PROVE Alone(r)
    <2> SUFFICES ASSUME NEW s \in Requests, Overlap(r, s) PROVE FALSE
      BY DEF Alone
    <2>1. Overlap(r, s)'
      BY <1>1, HistoryStep DEF Overlap
    <2> QED BY <1>1, <2>1 DEF Alone
  <1> QED BY <1>1, HistoryStep

\* A save that has compared its entity with the row keeps both.
LEMMA DirtyStep ==
  ASSUME RowInvariant, [Next]_vars, NEW s \in Requests, dirty[s] # {}
  PROVE  dirty'[s] = dirty[s] /\ entity'[s] = entity[s]
  <1>1. s \in DOMAIN entity /\ pc[s] \notin {"idle", "find", "load"}
    BY DEF RowInvariant, HasEntity
  <1>2. ASSUME NEW w \in Requests, Call(w) \/ NotFound(w) \/ SaveWrite(w) \/ DirectFind(w)
                                   \/ DirectWrite(w) \/ Fail(w)
        PROVE  UNCHANGED <<entity, dirty>>
    BY <1>2 DEF Call, NotFound, SaveWrite, DirectFind, DirectWrite, Fail
  <1>3. ASSUME NEW w \in Requests, SaveFind(w) PROVE dirty' = dirty /\ entity'[s] = entity[s]
    BY <1>1, <1>3 DEF SaveFind
  <1>4. ASSUME NEW w \in Requests, SaveLoad(w) PROVE dirty'[s] = dirty[s] /\ entity' = entity
    BY <1>1, <1>4 DEF SaveLoad, RowInvariant, TypeOK
  <1>5. CASE UNCHANGED vars
    BY <1>5 DEF vars
  <1> QED BY <1>2, <1>3, <1>4, <1>5 DEF Next, Step, Quiet

\* Reasons stay reasons.
LEMMA ReasonsStep ==
  ASSUME RowInvariant, [Next]_vars, NEW r \in Requests, pc[r] # "idle", NEW c
  PROVE  /\ Rewrites(r, c) => Rewrites(r, c)'
         /\ \A v : WritesBack(r, c, v) => WritesBack(r, c, v)'
         /\ \A v : Explained(r, c, v) => Explained(r, c, v)'
  <1>1. ASSUME Rewrites(r, c) PROVE Rewrites(r, c)'
    BY <1>1, HistoryStep DEF Rewrites, Sets, Body
  <1>2. ASSUME NEW v, WritesBack(r, c, v) PROVE WritesBack(r, c, v)'
    <2>1. PICK s \in Savers : Overlap(r, s) /\ c \in dirty[s] /\ entity[s][c] = v
      BY <1>2 DEF WritesBack
    <2>2. s \in Requests /\ dirty'[s] = dirty[s] /\ entity'[s] = entity[s]
      BY <2>1, DirtyStep DEF Savers
    <2>3. Overlap(r, s)'
      BY <2>1, <2>2, HistoryStep DEF Overlap
    <2> QED BY <2>1, <2>2, <2>3 DEF WritesBack, Savers
  <1> QED BY <1>1, <1>2 DEF Explained, Body

--------------------------------------------------------------------------------
(***************************************************************************)
(* Every step keeps the invariant.                                         *)
(***************************************************************************)
LEMMA RowInit == Init => RowInvariant
  <1> SUFFICES ASSUME Init PROVE RowInvariant
    OBVIOUS
  <1>1. DOMAIN entity = {} /\ \A r \in Requests : pc[r] = "idle" /\ before[r] = {} /\ dirty[r] = {}
    BY DEF Init
  <1> QED BY <1>1, TypeInit
          DEF RowInvariant, Past, HasEntity, OwnValues, Kept, Settled, Gone, Savers

\* What is explained now is explained after the step, whatever the value is of.
LEMMA ExplainedStep ==
  ASSUME RowInvariant, [Next]_vars, NEW r \in Requests, pc[r] # "idle", NEW c
  PROVE  /\ Explained(r, c, row'[c]) => Explained(r, c, row[c])'
         /\ \A s : Explained(r, c, entity'[s][c]) => Explained(r, c, entity[s][c])'
  <1>1. ASSUME Explained(r, c, row'[c]) PROVE Explained(r, c, row[c])'
    <2>1. PICK v : v = row'[c]
      OBVIOUS
    <2>2. Explained(r, c, v)'
      BY <1>1, <2>1, ReasonsStep
    <2> QED BY <2>1, <2>2 DEF Explained, WritesBack
  <1>2. ASSUME NEW s, Explained(r, c, entity'[s][c]) PROVE Explained(r, c, entity[s][c])'
    <2>1. PICK v : v = entity'[s][c]
      OBVIOUS
    <2>2. Explained(r, c, v)'
      BY <1>2, <2>1, ReasonsStep
    <2> QED BY <2>1, <2>2 DEF Explained, WritesBack
  <1> QED BY <1>1, <1>2

\* The explanations that a step leaves alone.
LEMMA KeptStep ==
  ASSUME RowInvariant, [Next]_vars, NEW r \in Requests, NEW c \in Sets(r),
         Settled(r, c)' => pc[r] # "idle" /\ Explained(r, c, row'[c]),
         \A s \in DOMAIN entity' : pc'[r] = "done" /\ r \in before'[s] =>
            pc[r] = "done" /\ Explained(r, c, entity'[s][c])
  PROVE  Kept(r, c)'
  BY ExplainedStep DEF Kept

\* Who has come to work on a user whose deletion was answered is explained.
LEMMA GoneStep ==
  ASSUME RowInvariant, [Next]_vars, NEW d \in Requests,
         pc'[d] = "done" => \A r \in Requests : d \in before'[r] /\ pc'[r] \in {"load", "write", "done"} =>
            pc[d] = "done" /\ ((pc[r] \in {"load", "write", "done"} /\ d \in before[r]) \/ Undone(d))
  PROVE  Gone(d)'
  <1> SUFFICES ASSUME Task[d] = "delete", pc'[d] = "done", NEW r \in Requests, d \in before'[r],
                      pc'[r] \in {"load", "write", "done"}
               PROVE  Undone(d)'
    BY DEF Gone
  <1>1. pc[d] = "done" /\ Undone(d)
    BY DEF RowInvariant, Gone
  <1> QED BY <1>1, ReasonsStep DEF Undone

\* That the row of an answered deletion is not deleted has a reason.
LEMMA DeletedExplained ==
  ASSUME RowInvariant, NEW d \in Requests, Task[d] = "delete", pc[d] = "done", ~row.deletedAt
  PROVE  Undone(d)
  <1>1. Body(d) = [deletedAt |-> TRUE]
    BY DEF Body
  <1>2. "deletedAt" \in Sets(d) /\ Body(d)["deletedAt"] = TRUE
    BY <1>1 DEF Sets
  <1>3. row["deletedAt"] = FALSE
    BY DEF RowInvariant, TypeOK, Row
  <1>4. Explained(d, "deletedAt", row["deletedAt"])
    BY <1>2 DEF RowInvariant, Kept, Settled
  <1> QED BY <1>2, <1>3, <1>4 DEF Explained, Undone

\* A request arrives.
LEMMA InvCall ==
  ASSUME RowInvariant, TypeOK', [Next]_vars, NEW w \in Requests, Call(w)
  PROVE  RowInvariant'
  <1>1. /\ pc[w] = "idle" /\ pc'[w] = "find" /\ \A s \in Requests \ {w} : pc'[s] = pc[s]
        /\ before'[w] = Finished /\ \A s \in Requests \ {w} : before'[s] = before[s]
        /\ UNCHANGED <<row, entity, dirty>>
    BY CallFacts DEF RowInvariant
  <1>2. Past'
    BY <1>1, HistoryStep DEF RowInvariant, Past
  <1>3. HasEntity'
    BY <1>1 DEF RowInvariant, HasEntity, Savers, TypeOK
  <1>4. OwnValues'
    BY <1>1 DEF RowInvariant, OwnValues, Sets, Body
  <1>5. ASSUME NEW r \in Requests, NEW c \in Sets(r) PROVE Kept(r, c)'
    <2>1. \A s \in DOMAIN entity : s \in Requests /\ s # w
      BY <1>1 DEF RowInvariant, HasEntity, TypeOK
    <2>2. Settled(r, c)' => Settled(r, c) /\ pc[r] # "idle"
      BY <1>1 DEF Settled, Savers
    <2>3. pc'[r] = "done" => pc[r] = "done"
      BY <1>1
    <2>4. Kept(r, c)
      BY <1>5 DEF RowInvariant
    <2> QED BY <1>1, <1>5, <2>1, <2>2, <2>3, <2>4, KeptStep DEF Kept
  <1>6. ASSUME NEW d \in Requests PROVE Gone(d)'
    BY <1>1, GoneStep
  <1> QED BY <1>2, <1>3, <1>4, <1>5, <1>6 DEF RowInvariant, Sets, Body

\* A findOne that finds nothing, or finds the user for an UPDATE of one column,
\* and a statement that is refused.
LEMMA InvMove ==
  ASSUME RowInvariant, TypeOK', [Next]_vars, NEW w \in Requests,
         NotFound(w) \/ DirectFind(w) \/ Fail(w)
  PROVE  RowInvariant'
  <1>1. /\ pc[w] \in Busy /\ pc'[w] \in {"notFound", "write", "error"}
        /\ \A s \in Requests \ {w} : pc'[s] = pc[s]
        /\ UNCHANGED <<row, entity, dirty, before>>
        /\ pc'[w] = "write" => pc[w] = "find" /\ w \notin Savers /\ ~row.deletedAt
    BY DEF RowInvariant, NotFound, DirectFind, Fail, Goto, TypeOK, Busy
  <1>2. Past'
    BY <1>1, HistoryStep DEF RowInvariant, Past
  <1>3. HasEntity'
    BY <1>1 DEF RowInvariant, HasEntity, Savers, TypeOK
  <1>4. OwnValues'
    BY <1>1 DEF RowInvariant, OwnValues, Sets, Body
  <1>5. ASSUME NEW r \in Requests, NEW c \in Sets(r) PROVE Kept(r, c)'
    <2>1. Settled(r, c)' => Settled(r, c) /\ pc[r] # "idle"
      BY <1>1 DEF Settled, Savers
    <2>2. pc'[r] = "done" => pc[r] = "done"
      BY <1>1
    <2>3. Kept(r, c)
      BY <1>5 DEF RowInvariant
    <2> QED BY <1>1, <1>5, <2>1, <2>2, <2>3, KeptStep DEF Kept
  <1>6. ASSUME NEW d \in Requests PROVE Gone(d)'
    <2>1. ASSUME pc[d] = "done", Task[d] = "delete", ~row.deletedAt PROVE Undone(d)
      BY <2>1, DeletedExplained
    <2>2. CASE Task[d] # "delete"
      BY <2>2 DEF Gone
    <2>3. CASE Task[d] = "delete"
      BY <1>1, <2>1, <2>3, GoneStep
    <2> QED BY <2>2, <2>3
  <1> QED BY <1>2, <1>3, <1>4, <1>5, <1>6 DEF RowInvariant, Sets, Body

\* The findOne of a save: the entity has the values of the body and, in the
\* other columns, those of the row.
LEMMA InvSaveFind ==
  ASSUME RowInvariant, TypeOK', [Next]_vars, NEW w \in Requests, SaveFind(w)
  PROVE  RowInvariant'
  <1>1. /\ w \in Savers /\ pc[w] = "find" /\ pc'[w] = "load" /\ ~row.deletedAt
        /\ \A s \in Requests \ {w} : pc'[s] = pc[s]
        /\ UNCHANGED <<row, dirty, before>>
    BY DEF RowInvariant, SaveFind, Goto, TypeOK
  <1>2. /\ DOMAIN entity' = DOMAIN entity \cup {w} /\ w \notin DOMAIN entity
        /\ entity'[w] = Assign(row, Body(w))
        /\ \A s \in DOMAIN entity : entity'[s] = entity[s]
    BY <1>1 DEF RowInvariant, SaveFind, HasEntity
  <1>3. \A c \in Columns : /\ c \in Sets(w) => entity'[w][c] = Body(w)[c]
                           /\ c \notin Sets(w) => entity'[w][c] = row[c]
    BY <1>2, AssignFacts
  <1>4. Past'
    BY <1>1, HistoryStep DEF RowInvariant, Past
  <1>5. HasEntity'
    BY <1>1, <1>2 DEF RowInvariant, HasEntity, Savers, TypeOK
  <1>6. OwnValues'
    <2>1. \A s \in DOMAIN entity : \A c \in Sets(s) : entity'[s][c] = Body(s)[c]
      BY <1>2 DEF RowInvariant, OwnValues
    <2>2. \A c \in Sets(w) : entity'[w][c] = Body(w)[c]
      BY <1>3, BodyFacts
    <2> QED BY <1>2, <2>1, <2>2 DEF OwnValues, Sets, Body
  <1>7. ASSUME NEW r \in Requests, NEW c \in Sets(r) PROVE Kept(r, c)'
    <2>1. Settled(r, c)' => Settled(r, c) /\ pc[r] # "idle"
      BY <1>1 DEF Settled, Savers
    <2>2. pc'[r] = "done" => pc[r] = "done" /\ r # w
      BY <1>1
    <2>3. Kept(r, c) /\ c \in Columns
      BY <1>7, BodyFacts DEF RowInvariant
    <2>4. ASSUME pc[r] = "done", r \in before[w] PROVE Explained(r, c, entity'[w][c])
      <3>1. CASE c \in Sets(w)
        BY <1>1, <2>2, <2>4, <3>1 DEF Explained, Rewrites, RowInvariant, Past, Finished, Final
      <3>2. CASE c \notin Sets(w)
        BY <1>3, <2>3, <2>4, <3>2 DEF Kept, Settled
      <3> QED BY <3>1, <3>2
    <2> QED BY <1>1, <1>2, <1>7, <2>1, <2>2, <2>3, <2>4, KeptStep DEF Kept
  <1>8. ASSUME NEW d \in Requests PROVE Gone(d)'
    <2>1. CASE Task[d] # "delete"
      BY <2>1 DEF Gone
    <2>2. CASE Task[d] = "delete"
      <3>1. pc[d] = "done" => Undone(d)
        BY <1>1, <2>2, DeletedExplained
      <3> QED BY <1>1, <3>1, GoneStep
    <2> QED BY <2>1, <2>2
  <1> QED BY <1>4, <1>5, <1>6, <1>7, <1>8 DEF RowInvariant, Sets, Body

\* The SELECT of a save: the columns that do not differ are as the entity.
LEMMA InvSaveLoad ==
  ASSUME RowInvariant, TypeOK', [Next]_vars, NEW w \in Requests, SaveLoad(w)
  PROVE  RowInvariant'
  <1>1. /\ w \in Savers /\ w \in DOMAIN entity /\ pc[w] = "load" /\ pc'[w] \in {"done", "write"}
        /\ \A s \in Requests \ {w} : pc'[s] = pc[s]
        /\ UNCHANGED <<row, entity, before>>
    BY DEF RowInvariant, SaveLoad, Goto, TypeOK, HasEntity
  <1>2. /\ \A c \in Columns \ dirty'[w] : row[c] = entity[w][c]
        /\ pc'[w] = "done" => dirty'[w] = {}
        /\ \A s \in Requests \ {w} : dirty'[s] = dirty[s]
    BY DEF RowInvariant, SaveLoad, Goto, TypeOK
  <1>3. Past'
    BY <1>1, HistoryStep DEF RowInvariant, Past
  <1>4. HasEntity'
    BY <1>1, <1>2 DEF RowInvariant, HasEntity, Savers, TypeOK
  <1>5. OwnValues'
    BY <1>1 DEF RowInvariant, OwnValues, Sets, Body
  <1>6. ASSUME NEW r \in Requests, NEW c \in Sets(r) PROVE Kept(r, c)'
    <2>1. Kept(r, c) /\ c \in Columns
      BY <1>6, BodyFacts DEF RowInvariant
    <2>2. CASE r # w
      <3>1. Settled(r, c)' => Settled(r, c) /\ pc[r] # "idle"
        BY <1>1, <1>2, <2>2 DEF Settled, Savers
      <3>2. pc'[r] = "done" => pc[r] = "done"
        BY <1>1, <2>2
      <3> QED BY <1>1, <1>6, <2>1, <3>1, <3>2, KeptStep DEF Kept
    <2>3. CASE r = w
      <3>1. Settled(r, c)' => row[c] = Body(r)[c]
        <4>1. Settled(r, c)' => c \notin dirty'[w]
          BY <1>2, <2>3 DEF Settled
        <4>2. entity[w][c] = Body(w)[c]
          BY <1>1, <1>6, <2>3 DEF RowInvariant, OwnValues
        <4> QED BY <1>2, <2>1, <2>3, <4>1, <4>2
      <3>2. \A s \in DOMAIN entity : r \notin before[s]
        BY <1>1, <2>3 DEF RowInvariant, Past, Finished, Final, TypeOK
      <3> QED BY <1>1, <1>6, <2>3, <3>1, <3>2, KeptStep DEF Explained
    <2> QED BY <2>2, <2>3
  <1>7. ASSUME NEW d \in Requests PROVE Gone(d)'
    <2>1. d = w => \A r \in Requests : d \notin before[r]
      BY <1>1 DEF RowInvariant, Past, Finished, Final
    <2> QED BY <1>1, <2>1, GoneStep
  <1> QED BY <1>3, <1>4, <1>5, <1>6, <1>7 DEF RowInvariant, Sets, Body

\* An UPDATE: every column keeps its value, or gets one that the writer chose,
\* or had found before and found to differ.
LEMMA WriteKeeps ==
  ASSUME RowInvariant, TypeOK', [Next]_vars, NEW w \in Requests, pc[w] = "write",
         pc'[w] \in {"done", "error"},
         \A s \in Requests \ {w} : pc'[s] = pc[s], UNCHANGED <<entity, dirty, before>>,
         \A c \in Sets(w) : Explained(w, c, row'[c]),
         \A r \in Requests \ {w} : \A c \in Sets(r) :
           row'[c] = row[c] \/ ~Settled(r, c) \/ Explained(r, c, row'[c])
  PROVE  RowInvariant'
  <1>1. Past'
    BY HistoryStep DEF RowInvariant, Past
  <1>2. HasEntity'
    BY DEF RowInvariant, HasEntity, Savers, TypeOK
  <1>3. OwnValues'
    BY DEF RowInvariant, OwnValues, Sets, Body
  <1>4. \A r \in Requests : w \notin before[r]
    BY DEF RowInvariant, Past, Finished, Final
  <1>5. ASSUME NEW r \in Requests, NEW c \in Sets(r) PROVE Kept(r, c)'
    <2>1. CASE r = w
      <3>1. \A s \in DOMAIN entity : r \notin before[s]
        BY <1>4, <2>1 DEF RowInvariant, TypeOK
      <3> QED BY <1>5, <2>1, <3>1, KeptStep
    <2>2. CASE r # w
      <3>1. Settled(r, c)' => Settled(r, c) /\ pc[r] # "idle"
        BY <2>2 DEF Settled, Savers
      <3>2. Kept(r, c)
        BY <1>5 DEF RowInvariant
      <3>3. Settled(r, c)' => Explained(r, c, row'[c])
        BY <1>5, <2>2, <3>1, <3>2 DEF Kept, Explained
      <3> QED BY <1>5, <2>2, <3>1, <3>2, <3>3, KeptStep DEF Kept
    <2> QED BY <2>1, <2>2
  <1>6. ASSUME NEW d \in Requests PROVE Gone(d)'
    <2>1. d = w => \A r \in Requests : d \notin before[r]
      BY <1>4
    <2> QED BY <2>1, GoneStep
  <1> QED BY <1>1, <1>2, <1>3, <1>5, <1>6 DEF RowInvariant, Sets, Body

\* The UPDATE of a save: an old value gets to the row only when the save
\* overlaps with whoever chose the newer one.
LEMMA InvSaveWrite ==
  ASSUME RowInvariant, TypeOK', [Next]_vars, NEW w \in Requests, SaveWrite(w)
  PROVE  RowInvariant'
  <1>1. /\ w \in Savers /\ w \in DOMAIN entity /\ pc[w] = "write" /\ pc'[w] \in {"done", "error"}
        /\ \A s \in Requests \ {w} : pc'[s] = pc[s]
        /\ UNCHANGED <<entity, dirty, before>>
        /\ \A c \in Columns : row'[c] = IF c \in dirty[w] THEN entity[w][c] ELSE row[c]
    BY DEF RowInvariant, SaveWrite, Goto, TypeOK, HasEntity
  <1>2. ASSUME NEW c \in Sets(w) PROVE Explained(w, c, row'[c])
    <2>1. c \in Columns
      BY <1>2, BodyFacts
    <2>2. CASE c \in dirty[w]
      BY <1>1, <1>2, <2>1, <2>2 DEF Explained, RowInvariant, OwnValues
    <2>3. CASE c \notin dirty[w]
      BY <1>1, <1>2, <2>1, <2>3 DEF RowInvariant, Kept, Settled
    <2> QED BY <2>2, <2>3
  <1>3. ASSUME NEW r \in Requests \ {w}, NEW c \in Sets(r), row'[c] # row[c]
        PROVE  Explained(r, c, row'[c]) \/ ~Settled(r, c)
    <2>1. c \in Columns
      BY <1>3, BodyFacts
    <2>2. c \in dirty[w] /\ row'[c] = entity[w][c]
      BY <1>1, <1>3, <2>1
    <2>3. CASE r \in before[w]
      <3>1. Settled(r, c) => pc[r] = "done"
        BY <2>3 DEF RowInvariant, Past, Finished, Final, Settled
      <3>2. Kept(r, c)
        BY <1>3 DEF RowInvariant
      <3> QED BY <1>1, <2>2, <2>3, <3>1, <3>2 DEF Kept
    <2>4. CASE r \notin before[w]
      <3>1. w \notin before[r]
        BY <1>1 DEF RowInvariant, Past, Finished, Final
      <3>2. Overlap(r, w)
        BY <1>1, <1>3, <2>4, <3>1 DEF Overlap
      <3> QED BY <1>1, <2>2, <3>2 DEF Explained, WritesBack
    <2> QED BY <2>3, <2>4
  <1> QED BY <1>1, <1>2, <1>3, WriteKeeps

\* The UPDATE of a login or of a deletion.
LEMMA InvDirectWrite ==
  ASSUME RowInvariant, TypeOK', [Next]_vars, NEW w \in Requests, DirectWrite(w)
  PROVE  RowInvariant'
  <1>1. /\ pc[w] = "write" /\ pc'[w] \in {"done", "error"} /\ row' = Assign(row, Body(w))
        /\ \A s \in Requests \ {w} : pc'[s] = pc[s]
        /\ UNCHANGED <<entity, dirty, before>>
    BY DEF RowInvariant, DirectWrite, Goto, TypeOK
  <1>2. \A c \in Sets(w) : Explained(w, c, row'[c])
    BY <1>1, BodyFacts, AssignFacts DEF Explained
  <1>3. ASSUME NEW r \in Requests \ {w}, NEW c \in Sets(r), row'[c] # row[c]
        PROVE  Explained(r, c, row'[c])
    <2>1. c \in Sets(w)
      BY <1>1, <1>3, BodyFacts, AssignFacts
    <2>2. w \notin before[r]
      BY <1>1 DEF RowInvariant, Past, Finished, Final
    <2> QED BY <1>1, <2>1, <2>2 DEF Rewrites, Explained
  <1> QED BY <1>1, <1>2, <1>3, WriteKeeps

LEMMA RowNext == RowInvariant /\ [Next]_vars => RowInvariant'
  <1> SUFFICES ASSUME RowInvariant, [Next]_vars PROVE RowInvariant'
    OBVIOUS
  <1>1. TypeOK'
    BY TypeNext DEF RowInvariant
  <1>2. ASSUME NEW w \in Requests, Call(w) \/ Step(w) PROVE RowInvariant'
    BY <1>1, <1>2, InvCall, InvMove, InvSaveFind, InvSaveLoad, InvSaveWrite, InvDirectWrite DEF Step
  <1>3. CASE UNCHANGED vars
    <2>1. UNCHANGED <<row, pc, entity, dirty, before>>
      BY <1>3 DEF vars
    <2>2. Past' /\ HasEntity' /\ OwnValues'
      BY <2>1 DEF RowInvariant, Past, Finished, HasEntity, OwnValues, Savers, Sets, Body
    <2>3. \A d \in Requests : Gone(d)'
      BY <2>1, GoneStep
    <2>4. ASSUME NEW r \in Requests, NEW c \in Sets(r) PROVE Kept(r, c)'
      <3>1. Kept(r, c)
        BY <2>4 DEF RowInvariant
      <3>2. Settled(r, c)' => Settled(r, c) /\ pc[r] # "idle"
        BY <2>1 DEF Settled, Savers
      <3> QED BY <2>1, <2>4, <3>1, <3>2, KeptStep DEF Kept
    <2> QED BY <1>1, <2>2, <2>3, <2>4 DEF RowInvariant, Sets, Body
  <1> QED BY <1>2, <1>3 DEF Next, Quiet

--------------------------------------------------------------------------------
\* The inductive invariant holds of every execution, for any number of requests
\* that change the user at the same time.
THEOREM RowInvariantHolds == Spec => []RowInvariant
  BY RowInit, RowNext, PTL DEF Spec

\* What a save works on and writes are columns of the row, with values of their
\* type (user.service.ts:86-93).
THEOREM RowTypeCorrect == Spec => []TypeOK
  <1>1. RowInvariant => TypeOK
    BY DEF RowInvariant
  <1> QED BY <1>1, RowInvariantHolds, PTL

\* However many requests overlap, an answered update loses a column that nobody
\* else sets only to a save that overlapped with it and wrote back what it had
\* found there (user.service.ts:86-93, 78-84).
THEOREM AnsweredUpdatesSurvive == Spec => []AnsweredUpdateSurvives
  <1>1. RowInvariant => AnsweredUpdateSurvives
    BY DEF RowInvariant, Kept, Settled, Explained, AnsweredUpdateSurvives
  <1> QED BY <1>1, RowInvariantHolds, PTL

\* A user whose deletion was answered is found by a later request only when such
\* a save, or a request that sets deletedAt, has undone the deletion
\* (user.service.ts:78-90).
THEOREM DeletedUsersAreNotFound == Spec => []DeletedIsNotFound
  <1>1. RowInvariant => DeletedIsNotFound
    BY DEF RowInvariant, Gone, Undone, DeletedIsNotFound
  <1> QED BY <1>1, RowInvariantHolds, PTL
================================================================================
