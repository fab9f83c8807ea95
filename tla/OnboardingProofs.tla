--------------------------- MODULE OnboardingProofs ---------------------------
(***************************************************************************)
(* Theorems about how users come to be, change and log in, for every       *)
(* number of calls, addresses, passwords and runs of the seeder.           *)
(***************************************************************************)
EXTENDS Onboarding, TLAPS

AnyPassword == Passwords \cup {DefaultPassword, AdminPassword}
Statuses == {"none", "live", "deleted"}
Hashes == [plain : AnyPassword, times : Nat]
UserRow == [id : Inserters \cup {Nobody}, status : Statuses, email : Emails,
            password : Hashes, role : BOOLEAN]

CreatorPC == {"role", "lookup", "save", "token", "mail", "ok", "error", "conflict"}
LoginPC == {"lookup", "compare", "touch", "ok", "invalid", "error"}
PatchPC == {"find_user", "save_user", "ok", "error"}
SeedsRoles == {"find_role", "update_role", "create_role"}
SeedsAdmin == {"admin_role", "find_admin", "save_admin", "account", "assign_role", "done"}
SeederPC == SeedsRoles \cup SeedsAdmin \cup {"error"}

\* Type correctness.
Types ==
  /\ users \in [Inserters -> UserRow]
  /\ roles \in [{"admin", "user"} -> Statuses]
  /\ pc \in [Processes -> CreatorPC \cup LoginPC \cup PatchPC \cup SeederPC]
  /\ arg \in [Callers -> Emails \X AnyPassword]
  /\ \A r \in Creators : arg[r][2] \in Passwords
  /\ found \in [Finders -> UserRow]
  /\ at \in [Seeders -> 1 .. 3]
  /\ moved \subseteq Inserters
  /\ chosen \in [Inserters -> SUBSET Passwords]

There(i) == users[i].status # "none"

\* A password hashed once was chosen for its row; one that others gave is hashed
\* twice.
Secret(h, i) == h.times = 1 => h.plain \in chosen[i]

\* A row keeps the address it was inserted with until it is moved.
Address(i) == IF i \in Creators THEN arg[i][1] ELSE AdminEmail
RowFine(i) ==
  There(i) => /\ users[i].id = i
              /\ Secret(users[i].password, i)
              /\ i \notin moved => users[i].email = Address(i)

\* The unique index.
Unique == \A i, j \in Inserters : i # j /\ There(i) /\ There(j) => users[i].email # users[j].email

TableFine == Unique /\ \A i \in Inserters : RowFine(i)

\* The row that a login, a PATCH or a run of the seeder found is one of the
\* table, as it is or was.
CopyFine(x) ==
  found[x].status # "none" =>
    /\ found[x].status = "live"
    /\ found[x].id \in Inserters /\ There(found[x].id)
    /\ Secret(found[x].password, found[x].id)

CreatorFine(r) ==
  /\ pc[r] \in CreatorPC
  /\ pc[r] \in {"role", "lookup", "save"} => ~There(r)
  /\ pc[r] \in {"token", "mail", "ok"} => There(r)

LoginFine(l) ==
  /\ pc[l] \in LoginPC
  /\ CopyFine(l)
  /\ pc[l] \in {"compare", "touch", "ok"} => found[l].status = "live"
  /\ pc[l] \in {"touch", "ok"} => arg[l][2] \in chosen[found[l].id]

PatchFine(p) ==
  /\ pc[p] \in PatchPC
  /\ CopyFine(p)
  /\ pc[p] = "save_user" => found[p].status = "live"

SeederFine(s) ==
  /\ pc[s] \in SeederPC
  /\ CopyFine(s)
  /\ pc[s] = "assign_role" => found[s].status = "live" /\ found[s].email = AdminEmail
  /\ pc[s] \in SeedsRoles => at[s] < 3
  /\ pc[s] \in SeedsAdmin => at[s] = 3
  /\ at[s] > 1 => roles["admin"] # "none"
  /\ at[s] > 2 => roles["user"] # "none"
  /\ pc[s] \notin {"account", "done", "error"} => ~There(s)

ProcessFine(x) ==
  /\ x \in Creators => CreatorFine(x)
  /\ x \in Logins => LoginFine(x)
  /\ x \in Patches => PatchFine(x)
  /\ x \in Seeders => SeederFine(x)

OnboardingInvariant == Types /\ TableFine /\ \A x \in Processes : ProcessFine(x)

--------------------------------------------------------------------------------
(***************************************************************************)
(* What no step takes back.                                                *)
(***************************************************************************)
Grow ==
  /\ \A i \in Inserters : There(i) => There(i)' /\ chosen[i] \subseteq chosen'[i]
  /\ \A n \in {"admin", "user"} : roles[n] # "none" => roles'[n] # "none"

\* The kinds of processes.
LEMMA Kinds ==
  /\ Creators \subseteq Callers /\ Creators \subseteq Inserters /\ Creators \subseteq Processes
  /\ Logins \subseteq Callers /\ Logins \subseteq Finders /\ Logins \subseteq Processes
  /\ Patches \subseteq Finders /\ Patches \subseteq Processes
  /\ Seeders \subseteq Inserters /\ Seeders \subseteq Finders /\ Seeders \subseteq Processes
  /\ Inserters \subseteq Processes /\ Finders \subseteq Processes /\ Callers \subseteq Processes
  /\ \A x \in Creators : x \notin Logins /\ x \notin Patches /\ x \notin Seeders
  /\ \A x \in Logins : x \notin Patches /\ x \notin Seeders
  /\ \A x \in Patches : x \notin Seeders
  BY OnboardingAssumption DEF Callers, Inserters, Finders, Processes, Creators

\* A copy stays one of the table.
LEMMA CopyStays ==
  ASSUME Grow, NEW x \in Finders, CopyFine(x), UNCHANGED found
  PROVE  CopyFine(x)'
  BY DEF CopyFine, Grow, Secret, There

\* A process that does not move in a step is fine after it.
LEMMA OthersFine ==
  ASSUME OnboardingInvariant, Grow, UNCHANGED arg, NEW x \in Processes,
         pc'[x] = pc[x],
         x \in Finders => found'[x] = found[x],
         x \in Seeders => at'[x] = at[x],
         x \in Inserters => (~There(x) => ~There(x)')
  PROVE  ProcessFine(x)'
  <1> USE Kinds
  <1>0. ProcessFine(x) /\ Types
    BY DEF OnboardingInvariant
  <1>1. ASSUME x \in Finders, CopyFine(x) PROVE CopyFine(x)'
    BY <1>1 DEF CopyFine, Grow, Secret, There
  <1>2. ASSUME x \in Creators PROVE CreatorFine(x)'
    BY <1>0, <1>2 DEF ProcessFine, CreatorFine, Grow, There
  <1>3. ASSUME x \in Logins PROVE LoginFine(x)'
    <2>1. LoginFine(x) /\ CopyFine(x)' /\ found'[x] = found[x]
      BY <1>0, <1>1, <1>3 DEF ProcessFine, LoginFine
    <2>2. pc[x] \in {"touch", "ok"} => arg[x][2] \in chosen'[found[x].id]
      BY <2>1 DEF LoginFine, CopyFine, Grow
    <2> QED BY <2>1, <2>2 DEF LoginFine
  <1>4. ASSUME x \in Patches PROVE PatchFine(x)'
    BY <1>0, <1>1, <1>4 DEF ProcessFine, PatchFine
  <1>5. ASSUME x \in Seeders PROVE SeederFine(x)'
    <2>1. SeederFine(x) /\ CopyFine(x)' /\ found'[x] = found[x] /\ at'[x] = at[x]
      BY <1>0, <1>1, <1>5 DEF ProcessFine, SeederFine
    <2> QED BY <1>5, <2>1 DEF SeederFine, Grow
  <1> QED BY <1>2, <1>3, <1>4, <1>5 DEF ProcessFine

\* A step that leaves the rows alone keeps them fine.
LEMMA RowsStay ==
  ASSUME OnboardingInvariant, UNCHANGED <<users, arg>>, moved \subseteq moved',
         \A i \in Inserters : chosen[i] \subseteq chosen'[i]
  PROVE  TableFine'
  <1>1. \A i \in Inserters : RowFine(i)'
    BY DEF OnboardingInvariant, TableFine, RowFine, Secret, There, Address
  <1>2. Unique'
    BY DEF OnboardingInvariant, TableFine, Unique, There
  <1> QED BY <1>1, <1>2 DEF TableFine

\* A step of one process: what is left to see is the tables and the process.
LEMMA OneMoves ==
  ASSUME OnboardingInvariant, Grow, Types', TableFine', UNCHANGED arg,
         NEW x \in Processes, NEW l, Goto(x, l),
         \A y \in Finders : y # x => found'[y] = found[y],
         \A y \in Seeders : y # x => at'[y] = at[y],
         \A y \in Inserters : y # x => (~There(y) => ~There(y)'),
         ProcessFine(x)'
  PROVE  OnboardingInvariant'
  <1>1. \A y \in Processes \ {x} : pc'[y] = pc[y]
    BY DEF Goto, OnboardingInvariant, Types
  <1>2. ASSUME NEW y \in Processes, y # x PROVE ProcessFine(y)'
    BY <1>1, <1>2, OthersFine
  <1> QED BY <1>2 DEF OnboardingInvariant

\* A step of nobody.
LEMMA NobodyMoves ==
  ASSUME OnboardingInvariant, Grow, Types', TableFine', UNCHANGED <<arg, pc, found, at>>,
         \A y \in Inserters : ~There(y) => ~There(y)'
  PROVE  OnboardingInvariant'
  <1>1. ASSUME NEW y \in Processes PROVE ProcessFine(y)'
    BY <1>1, OthersFine
  <1> QED BY <1>1 DEF OnboardingInvariant

\* Where a process goes.
LEMMA GotoFacts ==
  ASSUME OnboardingInvariant, NEW x \in Processes, NEW l, Goto(x, l),
         l \in CreatorPC \cup LoginPC \cup PatchPC \cup SeederPC
  PROVE  /\ pc' \in [Processes -> CreatorPC \cup LoginPC \cup PatchPC \cup SeederPC]
         /\ pc'[x] = l
  BY DEF Goto, OnboardingInvariant, Types

--------------------------------------------------------------------------------
\* No row, no process that has come further than its first step.
LEMMA OnboardingInit == Init => OnboardingInvariant
  <1> SUFFICES ASSUME Init PROVE OnboardingInvariant
    OBVIOUS
  <1> USE OnboardingAssumption, Kinds
  <1>1. NoRow \in UserRow /\ NoRow.status = "none"
    BY DEF NoRow, Plain, UserRow, AnyPassword, Statuses, Hashes
  <1>2. /\ \A r \in Invitations : pc[r] = "role"
        /\ \A r \in Creations : pc[r] = "save"
        /\ \A r \in Registrations \cup Logins : pc[r] = "lookup"
        /\ \A p \in Patches : pc[p] = "find_user"
        /\ \A s \in Seeders : pc[s] = "find_role"
    BY DEF Init, Creators
  <1>3. pc \in [Processes -> CreatorPC \cup LoginPC \cup PatchPC \cup SeederPC]
    <2>1. \A x \in Processes : x \in Invitations \cup Creations \cup Registrations \cup Logins
                                     \cup Patches \cup Seeders
      BY DEF Processes, Callers, Creators
    <2>2. \A x \in Processes : pc[x] \in CreatorPC \cup LoginPC \cup PatchPC \cup SeederPC
      BY <1>2, <2>1 DEF CreatorPC, LoginPC, PatchPC, SeedsRoles, SeederPC
    <2> QED BY <2>2 DEF Init
  <1>4. \A i \in Inserters : ~There(i)
    BY <1>1 DEF Init, There
  <1>5. Types
    <2>1. users \in [Inserters -> UserRow] /\ found \in [Finders -> UserRow]
      BY <1>1 DEF Init
    <2>2. at \in [Seeders -> 1 .. 3] /\ chosen \in [Inserters -> SUBSET Passwords]
      BY DEF Init
    <2>3. roles \in [{"admin", "user"} -> Statuses] /\ moved \subseteq Inserters
      BY DEF Init, Statuses
    <2>4. arg \in [Callers -> Emails \X AnyPassword] /\ \A r \in Creators : arg[r][2] \in Passwords
      BY DEF Init, AnyPassword
    <2> QED BY <1>3, <2>1, <2>2, <2>3, <2>4 DEF Types
  <1>6. TableFine
    BY <1>4 DEF TableFine, Unique, RowFine
  <1>7. \A x \in Finders : CopyFine(x)
    BY <1>1 DEF Init, CopyFine
  <1>8. \A r \in Creators : CreatorFine(r)
    BY <1>2, <1>4 DEF CreatorFine, CreatorPC, Creators
  <1>9. \A l \in Logins : LoginFine(l)
    BY <1>2, <1>7 DEF LoginFine, LoginPC
  <1>10. \A p \in Patches : PatchFine(p)
    BY <1>2, <1>7 DEF PatchFine, PatchPC
  <1>11. \A s \in Seeders : SeederFine(s)
    <2>1. \A s \in Seeders : at[s] = 1
      BY DEF Init
    <2> QED BY <1>2, <1>4, <1>7, <2>1 DEF SeederFine, SeederPC, SeedsRoles, SeedsAdmin
  <1> QED BY <1>5, <1>6, <1>8, <1>9, <1>10, <1>11 DEF OnboardingInvariant, ProcessFine

\* A process moves and nothing else changes.
LEMMA InvMove ==
  ASSUME OnboardingInvariant, NEW x \in Processes, NEW l, Move(x, l),
         x \in Creators => l \in CreatorPC
                           /\ (l \in {"role", "lookup", "save"} => pc[x] \in {"role", "lookup", "save"})
                           /\ (l \in {"token", "mail", "ok"} => pc[x] \in {"token", "mail", "ok"}),
         x \in Logins => /\ l \in LoginPC
                         /\ l \in {"compare", "touch", "ok"} => pc[x] \in {"compare", "touch", "ok"}
                         /\ l \in {"touch", "ok"} => arg[x][2] \in chosen[found[x].id],
         x \in Patches => l \in PatchPC \ {"save_user"},
         x \in Seeders => \/ l = "error"
                          \/ l \in SeedsRoles /\ pc[x] \in SeedsRoles
                          \/ l = "find_admin" /\ pc[x] = "admin_role"
  PROVE  OnboardingInvariant'
  <1> USE Kinds
  <1>1. UNCHANGED <<users, roles, accounts, tokens, arg, found, at, moved, chosen>> /\ Goto(x, l)
    BY DEF Move, tables, history
  <1>2. l \in CreatorPC \cup LoginPC \cup PatchPC \cup SeederPC
    BY DEF Processes, Callers, SeederPC, SeedsAdmin
  <1>3. pc'[x] = l /\ Types'
    BY <1>1, <1>2, GotoFacts DEF OnboardingInvariant, Types
  <1>4. Grow /\ \A y \in Inserters : ~There(y) => ~There(y)'
    BY <1>1 DEF Grow, There
  <1>5. TableFine'
    BY <1>1, RowsStay
  <1>6. ProcessFine(x)
    BY DEF OnboardingInvariant
  <1>7. \A y \in Finders : CopyFine(y) => CopyFine(y)'
    BY <1>1, <1>4, CopyStays
  <1>8. ASSUME x \in Creators PROVE CreatorFine(x)'
    BY <1>1, <1>3, <1>6, <1>8 DEF ProcessFine, CreatorFine, There
  <1>9. ASSUME x \in Logins PROVE LoginFine(x)'
    BY <1>1, <1>3, <1>6, <1>7, <1>9 DEF ProcessFine, LoginFine
  <1>10. ASSUME x \in Patches PROVE PatchFine(x)'
    BY <1>1, <1>3, <1>6, <1>7, <1>10 DEF ProcessFine, PatchFine
  <1>11. ASSUME x \in Seeders PROVE SeederFine(x)'
    <2>1. SeederFine(x) /\ CopyFine(x)'
      BY <1>6, <1>7, <1>11 DEF ProcessFine, SeederFine
    <2> QED BY <1>1, <1>3, <1>11, <2>1 DEF SeederFine, SeederPC, SeedsRoles, SeedsAdmin, There
  <1>12. ProcessFine(x)'
    BY <1>8, <1>9, <1>10, <1>11 DEF ProcessFine
  <1> QED BY <1>1, <1>3, <1>4, <1>5, <1>12, OneMoves

--------------------------------------------------------------------------------
(***************************************************************************)
(* Rows come to be and change.                                             *)
(***************************************************************************)
LEMMA HashFacts ==
  /\ \A p \in AnyPassword : Plain(p) \in Hashes /\ Plain(p).plain = p /\ Plain(p).times = 0
  /\ \A h \in Hashes : Hash(h) \in Hashes /\ Hash(h).plain = h.plain /\ Hash(h).times = h.times + 1
  BY DEF Plain, Hash, Hashes

\* One row is written: the others stay, and addresses stay unique when the index
\* let it pass.
LEMMA OneRow ==
  ASSUME OnboardingInvariant, NEW i \in Inserters, NEW row \in UserRow,
         users' = [users EXCEPT ![i] = row], ~Taken(row.email, i)
  PROVE  /\ users' \in [Inserters -> UserRow] /\ users'[i] = row
         /\ \A j \in Inserters \ {i} : users'[j] = users[j]
         /\ Unique'
  <1>1. /\ users' \in [Inserters -> UserRow] /\ users'[i] = row
        /\ \A j \in Inserters \ {i} : users'[j] = users[j]
    BY DEF OnboardingInvariant, Types
  <1>2. \A j \in Inserters \ {i} : There(j) => users[j].email # row.email
    BY DEF Taken, There
  <1>3. Unique'
    BY <1>1, <1>2 DEF OnboardingInvariant, TableFine, Unique, There
  <1> QED BY <1>1, <1>3

\* A row is fine with more chosen for it, and so are those that are not written.
LEMMA OtherRows ==
  ASSUME OnboardingInvariant, NEW i \in Inserters, UNCHANGED arg,
         \A j \in Inserters \ {i} : users'[j] = users[j] /\ chosen[j] \subseteq chosen'[j],
         moved' \ {i} = moved \ {i}
  PROVE  \A j \in Inserters \ {i} : RowFine(j)'
  BY DEF OnboardingInvariant, TableFine, RowFine, Secret, There, Address

\* An INSERT that passes makes the row.
LEMMA InsertFacts ==
  ASSUME OnboardingInvariant, NEW x \in Inserters, NEW e \in Emails, NEW h \in Hashes,
         NEW role \in BOOLEAN, Insert(x, e, h, role)
  PROVE  /\ users' \in [Inserters -> UserRow] /\ Unique'
         /\ users'[x].status = "live" /\ users'[x].password = Hash(h) /\ users'[x].id = x
         /\ users'[x].email = e
         /\ \A j \in Inserters \ {x} : users'[j] = users[j]
  <1> DEFINE new == [id |-> x, status |-> "live", email |-> e, password |-> BeforeInsert(h),
                     role |-> role]
  <1>1. users' = [users EXCEPT ![x] = new] /\ ~Taken(e, x)
    BY DEF Insert
  <1>2. new \in UserRow
    BY HashFacts DEF UserRow, Statuses, BeforeInsert
  <1>3. /\ new.status = "live" /\ new.password = Hash(h) /\ new.id = x /\ new.email = e
    BY DEF BeforeInsert
  <1> HIDE DEF new
  <1> QED BY <1>1, <1>2, <1>3, OneRow

\* A row that was found is written back, with another address, password, role
\* or status.
LEMMA WriteBackFacts ==
  ASSUME OnboardingInvariant, NEW row \in UserRow, row.id \in Inserters, There(row.id),
         row.status # "none", UNCHANGED arg,
         \A j \in Inserters : chosen[j] \subseteq chosen'[j],
         row.password.times = 1 => row.password.plain \in chosen'[row.id],
         WriteBack(row)
  PROVE  /\ users' \in [Inserters -> UserRow] /\ users'[row.id] = row
         /\ moved' \subseteq Inserters
         /\ \A j \in Inserters : There(j)' <=> There(j)
         /\ TableFine'
  <1> DEFINE i == row.id
  <1>1. /\ users' = [users EXCEPT ![i] = row] /\ ~Taken(row.email, i)
        /\ moved' = moved \cup {j \in {i} : users[j].email # row.email}
    BY DEF WriteBack
  <1>2. /\ users' \in [Inserters -> UserRow] /\ users'[i] = row
        /\ \A j \in Inserters \ {i} : users'[j] = users[j]
        /\ Unique'
    BY <1>1, OneRow
  <1>3. moved' \subseteq Inserters /\ moved' \ {i} = moved \ {i}
    BY <1>1 DEF OnboardingInvariant, Types
  <1>4. \A j \in Inserters \ {i} : RowFine(j)'
    BY <1>2, <1>3, OtherRows
  <1>5. RowFine(i)'
    <2>1. RowFine(i)
      BY DEF OnboardingInvariant, TableFine
    <2>2. i \notin moved' => i \notin moved /\ users[i].email = row.email
      BY <1>1
    <2>3. Address(i)' = Address(i)
      BY DEF Address
    <2> QED BY <1>2, <2>1, <2>2, <2>3 DEF RowFine, Secret
  <1>6. \A j \in Inserters : There(j)' <=> There(j)
    BY <1>2 DEF There
  <1> QED BY <1>2, <1>3, <1>4, <1>5, <1>6 DEF TableFine

\* The password a creator gives is hashed once more by the INSERT: the one of a
\* registration then is once, the others twice.
LEMMA NewPasswordFacts ==
  ASSUME OnboardingInvariant, NEW r \in Creators
  PROVE  /\ NewPassword(r) \in Hashes
         /\ r \in Registrations => NewPassword(r).plain = arg[r][2] /\ NewPassword(r).times = 0
         /\ r \notin Registrations => NewPassword(r).times = 1
         /\ arg[r][1] \in Emails /\ arg[r][2] \in Passwords
  <1>1. arg[r][1] \in Emails /\ arg[r][2] \in AnyPassword /\ DefaultPassword \in AnyPassword
        /\ arg[r][2] \in Passwords
    BY Kinds DEF OnboardingInvariant, Types, AnyPassword
  <1>2. CASE r \in Registrations
    <2>1. NewPassword(r) = Plain(arg[r][2])
      BY <1>2, OnboardingAssumption DEF NewPassword
    <2> QED BY <1>1, <1>2, <2>1, HashFacts
  <1>3. CASE r \in Creations
    <2>1. NewPassword(r) = Hash(Plain(arg[r][2])) /\ r \notin Registrations
      BY <1>3, OnboardingAssumption DEF NewPassword
    <2> QED BY <1>1, <2>1, HashFacts
  <1>4. CASE r \in Invitations
    <2>1. NewPassword(r) = Hash(Plain(DefaultPassword)) /\ r \notin Registrations
      BY <1>4, OnboardingAssumption DEF NewPassword
    <2> QED BY <1>1, <2>1, HashFacts
  <1> QED BY <1>2, <1>3, <1>4 DEF Creators

\* The INSERT of a creator.
LEMMA InvSave ==
  ASSUME OnboardingInvariant, NEW r \in Creators, Save(r)
  PROVE  OnboardingInvariant'
  <1> USE Kinds
  <1> DEFINE e == arg[r][1]
             to == IF r \in Invitations THEN "token" ELSE "ok"
             picked == IF r \in Registrations THEN {arg[r][2]} ELSE {}
             role == r \in Invitations
  <1>1. /\ pc[r] = "save" /\ Insert(r, e, NewPassword(r), role) /\ Goto(r, to)
        /\ chosen' = [chosen EXCEPT ![r] = picked]
        /\ UNCHANGED <<roles, accounts, tokens, arg, found, at, moved>>
    BY DEF Save
  <1>2. /\ NewPassword(r) \in Hashes /\ e \in Emails /\ picked \subseteq Passwords /\ role \in BOOLEAN
        /\ Hash(NewPassword(r)).times = 1 => Hash(NewPassword(r)).plain \in picked
    BY NewPasswordFacts, HashFacts
  <1>3. to \in {"token", "ok"}
    OBVIOUS
  <1>4. CreatorFine(r) /\ ~There(r)
    BY <1>1 DEF OnboardingInvariant, ProcessFine, CreatorFine
  <1> HIDE DEF to, picked, role
  <1>5. /\ users' \in [Inserters -> UserRow] /\ Unique'
        /\ users'[r].status = "live" /\ users'[r].password = Hash(NewPassword(r))
        /\ users'[r].id = r /\ users'[r].email = e
        /\ \A j \in Inserters \ {r} : users'[j] = users[j]
    BY <1>1, <1>2, InsertFacts
  <1>6. /\ chosen' \in [Inserters -> SUBSET Passwords] /\ chosen'[r] = picked
        /\ \A j \in Inserters \ {r} : chosen'[j] = chosen[j]
    BY <1>1, <1>2 DEF OnboardingInvariant, Types
  <1>7. pc'[r] = to /\ Types'
    <2>1. to \in CreatorPC
      BY <1>3 DEF CreatorPC
    <2> QED BY <1>1, <1>5, <1>6, <2>1, GotoFacts DEF OnboardingInvariant, Types
  <1>8. Grow
    BY <1>1, <1>4, <1>5, <1>6 DEF Grow, There
  <1>9. TableFine'
    <2>1. \A j \in Inserters \ {r} : RowFine(j)'
      BY <1>1, <1>5, <1>6, OtherRows
    <2>2. RowFine(r)'
      BY <1>1, <1>2, <1>5, <1>6 DEF RowFine, Secret, Address
    <2> QED BY <1>5, <2>1, <2>2 DEF TableFine
  <1>10. ProcessFine(r)'
    BY <1>3, <1>5, <1>7 DEF ProcessFine, CreatorFine, CreatorPC, There
  <1>11. \A y \in Inserters : y # r => (~There(y) => ~There(y)')
    BY <1>5 DEF There
  <1> QED BY <1>1, <1>7, <1>8, <1>9, <1>10, <1>11, OneMoves

\* The token of an invitation.
LEMMA InvToken ==
  ASSUME OnboardingInvariant, NEW r \in Creators, GenerateResetPasswordToken(r)
  PROVE  OnboardingInvariant'
  <1> USE Kinds
  <1>1. /\ UNCHANGED <<users, roles, accounts, arg, found, at, moved, chosen>>
        /\ pc[r] = "token" /\ Goto(r, "mail")
    BY DEF GenerateResetPasswordToken, history
  <1>2. pc'[r] = "mail" /\ Types'
    <2>1. "mail" \in CreatorPC
      BY DEF CreatorPC
    <2> QED BY <1>1, <2>1, GotoFacts DEF OnboardingInvariant, Types
  <1>3. Grow /\ \A y \in Inserters : ~There(y) => ~There(y)'
    BY <1>1 DEF Grow, There
  <1>4. TableFine'
    BY <1>1, RowsStay
  <1>5. CreatorFine(r) /\ ProcessFine(r)'
    BY <1>1, <1>2 DEF OnboardingInvariant, ProcessFine, CreatorFine, CreatorPC, There
  <1> QED BY <1>1, <1>2, <1>3, <1>4, <1>5, OneMoves

--------------------------------------------------------------------------------
(***************************************************************************)
(* Users are found, log in and change.                                     *)
(***************************************************************************)
\* A lookup by address finds a live row of that address, or none.
LEMMA FindFacts ==
  ASSUME OnboardingInvariant, NEW e \in Emails, NEW row, row = FindByEmail(e)
  PROVE  /\ row \in UserRow /\ row.status \in {"none", "live"}
         /\ row.status = "none" => ~row.role
         /\ row.status = "live" => /\ row.id \in Inserters /\ row = users[row.id]
                                   /\ row.email = e
                                   /\ There(row.id) /\ Secret(row.password, row.id)
  <1>1. CASE WithEmail(e) = {}
    <2>1. row = NoRow
      BY <1>1 DEF FindByEmail
    <2> QED BY <2>1, OnboardingAssumption
            DEF NoRow, Plain, UserRow, AnyPassword, Statuses, Hashes
  <1>2. CASE WithEmail(e) # {}
    <2>1. PICK i \in WithEmail(e) : row = users[i]
      BY <1>2 DEF FindByEmail
    <2>2. i \in Inserters /\ users[i].status = "live" /\ users[i].email = e
      BY <2>1 DEF WithEmail, Live
    <2>3. users[i] \in UserRow /\ RowFine(i)
      BY <2>2 DEF OnboardingInvariant, Types, TableFine
    <2> QED BY <2>1, <2>2, <2>3 DEF RowFine, There
  <1> QED BY <1>1, <1>2

\* A step of a finder that changes only its copy.
LEMMA Finds ==
  ASSUME OnboardingInvariant, NEW x \in Finders, NEW l, Goto(x, l),
         l \in LoginPC \cup PatchPC \cup SeederPC,
         NEW row \in UserRow, found' = [found EXCEPT ![x] = row],
         row.status # "none" => /\ row.status = "live" /\ row.id \in Inserters
                                /\ There(row.id) /\ Secret(row.password, row.id),
         UNCHANGED <<users, roles, arg, at, moved, chosen>>,
         pc'[x] = l /\ found'[x] = row /\ CopyFine(x)' => ProcessFine(x)'
  PROVE  OnboardingInvariant'
  <1> USE Kinds
  <1>1. /\ found' \in [Finders -> UserRow] /\ found'[x] = row
        /\ \A y \in Finders : y # x => found'[y] = found[y]
    BY DEF OnboardingInvariant, Types
  <1>2. pc'[x] = l /\ Types'
    BY <1>1, GotoFacts DEF OnboardingInvariant, Types
  <1>3. Grow /\ \A y \in Inserters : ~There(y) => ~There(y)'
    BY DEF Grow, There
  <1>4. CopyFine(x)'
    BY <1>1 DEF CopyFine, There, Secret
  <1>5. TableFine'
    BY RowsStay
  <1>6. ProcessFine(x)'
    BY <1>1, <1>2, <1>4
  <1> QED BY <1>1, <1>2, <1>3, <1>5, <1>6, OneMoves

\* A login keeps the row it found.
LEMMA InvLoginFind ==
  ASSUME OnboardingInvariant, NEW l \in Logins, LoginFind(l)
  PROVE  OnboardingInvariant'
  <1> USE Kinds
  <1>1. PICK row : row = FindByEmail(arg[l][1])
    OBVIOUS
  <1>2. /\ UNCHANGED <<users, roles, accounts, tokens, arg, at, moved, chosen>>
        /\ found' = [found EXCEPT ![l] = row]
        /\ Goto(l, IF row.status = "live" THEN "compare" ELSE "invalid")
    BY <1>1 DEF LoginFind, tables, history
  <1>3. arg[l][1] \in Emails
    BY DEF OnboardingInvariant, Types
  <1>4. /\ row \in UserRow /\ row.status \in {"none", "live"}
        /\ row.status = "live" => row.id \in Inserters /\ There(row.id) /\ Secret(row.password, row.id)
    BY <1>1, <1>3, FindFacts
  <1>5. PICK to \in {"compare", "invalid"} : Goto(l, to) /\ (to = "compare" => row.status = "live")
    BY <1>2
  <1>6. to \in LoginPC
    BY DEF LoginPC
  <1>7. pc'[l] = to /\ found'[l] = row /\ CopyFine(l)' => ProcessFine(l)'
    BY <1>5, <1>6 DEF ProcessFine, LoginFine
  <1> QED BY <1>2, <1>4, <1>5, <1>6, <1>7, Finds

\* A password compares with a hash of itself, hashed once: it was chosen.
LEMMA InvLoginCompare ==
  ASSUME OnboardingInvariant, NEW l \in Logins, LoginCompare(l)
  PROVE  OnboardingInvariant'
  <1> USE Kinds
  <1>1. /\ pc[l] = "compare"
        /\ Move(l, IF ComparePassword(arg[l][2], found[l].password) THEN "touch" ELSE "invalid")
    BY DEF LoginCompare
  <1>2. LoginFine(l) /\ arg[l][2] \in AnyPassword /\ found[l].status = "live"
    BY <1>1 DEF OnboardingInvariant, ProcessFine, LoginFine, Types
  <1>3. ASSUME ComparePassword(arg[l][2], found[l].password)
        PROVE  arg[l][2] \in chosen[found[l].id]
    <2>1. found[l].password.times = 1 /\ found[l].password.plain = arg[l][2]
      BY <1>2, <1>3, HashFacts DEF ComparePassword
    <2> QED BY <1>2, <2>1 DEF LoginFine, CopyFine, Secret
  <1>4. PICK to \in {"touch", "invalid"} :
          Move(l, to) /\ (to = "touch" => arg[l][2] \in chosen[found[l].id])
    BY <1>1, <1>3
  <1> QED BY <1>1, <1>4, InvMove DEF LoginPC

\* A PATCH keeps the row it found.
LEMMA InvPatchFind ==
  ASSUME OnboardingInvariant, NEW p \in Patches, PatchFind(p)
  PROVE  OnboardingInvariant'
  <1> USE Kinds
  <1>1. CASE Move(p, "error")
    BY <1>1, InvMove DEF PatchPC
  <1>2. ASSUME NEW i \in Inserters, Live(i), found' = [found EXCEPT ![p] = users[i]],
               Goto(p, "save_user"), UNCHANGED <<tables, arg, at, history>>
        PROVE  OnboardingInvariant'
    <2>1. UNCHANGED <<users, roles, accounts, tokens, arg, at, moved, chosen>>
      BY <1>2 DEF tables, history
    <2>2. PICK row \in UserRow : row = users[i]
      BY <1>2 DEF OnboardingInvariant, Types
    <2>3. row.status = "live" /\ row.id \in Inserters /\ There(row.id) /\ Secret(row.password, row.id)
      BY <1>2, <2>2 DEF OnboardingInvariant, TableFine, RowFine, Live, There
    <2>4. "save_user" \in PatchPC
      BY DEF PatchPC
    <2>5. pc'[p] = "save_user" /\ found'[p] = row /\ CopyFine(p)' => ProcessFine(p)'
      BY <2>3, <2>4 DEF ProcessFine, PatchFine
    <2> QED BY <1>2, <2>1, <2>2, <2>3, <2>4, <2>5, Finds
  <1> QED BY <1>1, <1>2 DEF PatchFind

\* A row is written back by its finder, which ends.
LEMMA InvWriteBack ==
  ASSUME OnboardingInvariant, NEW x \in Patches \cup Seeders, NEW l, Goto(x, l),
         l = IF x \in Patches THEN "ok" ELSE "done",
         x \in Seeders => pc[x] = "assign_role",
         NEW row \in UserRow, row.id \in Inserters, There(row.id), row.status # "none",
         row.password.times = 1 => row.password.plain \in chosen'[row.id],
         \A j \in Inserters : chosen[j] \subseteq chosen'[j],
         chosen' \in [Inserters -> SUBSET Passwords],
         WriteBack(row),
         UNCHANGED <<roles, accounts, tokens, arg, found, at>>
  PROVE  OnboardingInvariant'
  <1> USE Kinds
  <1>1. /\ users' \in [Inserters -> UserRow] /\ moved' \subseteq Inserters
        /\ \A j \in Inserters : There(j)' <=> There(j)
        /\ TableFine'
    BY WriteBackFacts
  <1>2. l \in PatchPC \cup SeederPC
    BY DEF PatchPC, SeederPC, SeedsAdmin
  <1>3. pc'[x] = l /\ Types'
    BY <1>1, <1>2, GotoFacts DEF OnboardingInvariant, Types
  <1>4. Grow
    BY <1>1 DEF Grow
  <1>5. ProcessFine(x) /\ CopyFine(x)'
    <2>1. ProcessFine(x) /\ CopyFine(x)
      BY DEF OnboardingInvariant, ProcessFine, PatchFine, SeederFine
    <2> QED BY <1>4, <2>1, CopyStays
  <1>6. ASSUME x \in Patches PROVE ProcessFine(x)'
    BY <1>3, <1>5, <1>6 DEF ProcessFine, PatchFine, PatchPC
  <1>7. ASSUME x \in Seeders PROVE ProcessFine(x)'
    <2>1. SeederFine(x) /\ pc[x] \in SeedsAdmin
      BY <1>5, <1>7 DEF ProcessFine, SeedsAdmin
    <2>2. SeederFine(x)'
      BY <1>3, <1>5, <1>7, <2>1 DEF SeederFine, SeederPC, SeedsAdmin, SeedsRoles
    <2> QED BY <1>7, <2>2 DEF ProcessFine
  <1>8. x \in Patches \/ x \in Seeders
    OBVIOUS
  <1> QED BY <1>1, <1>3, <1>4, <1>6, <1>7, <1>8, OneMoves

\* What a PATCH may send, and what it was in the row.
LEMMA InvPatchSave ==
  ASSUME OnboardingInvariant, NEW p \in Patches, PatchSave(p)
  PROVE  OnboardingInvariant'
  <1> USE Kinds
  <1>1. /\ pc[p] = "save_user" /\ Goto(p, "ok")
        /\ UNCHANGED <<roles, accounts, tokens, arg, found, at>>
    BY DEF PatchSave
  <1>2. /\ found[p] \in UserRow /\ found[p].status = "live" /\ found[p].id \in Inserters
        /\ There(found[p].id) /\ Secret(found[p].password, found[p].id)
    BY <1>1 DEF OnboardingInvariant, ProcessFine, PatchFine, CopyFine, Types
  <1>4. PICK e \in Emails, role \in BOOLEAN, status \in {"live", "deleted"} :
          LET row == [found[p] EXCEPT !.email = e, !.role = role, !.status = status] IN
          \/ WriteBack(row) /\ UNCHANGED chosen
          \/ \E c \in Passwords : \E h \in Sent(c) :
               /\ WriteBack([row EXCEPT !.password = h])
               /\ chosen' = [chosen EXCEPT ![row.id] = @ \cup {c}]
    BY DEF PatchSave
  <1> DEFINE row == [found[p] EXCEPT !.email = e, !.role = role, !.status = status]
  <1>5. /\ row \in UserRow /\ row.id = found[p].id /\ row.status # "none"
        /\ row.password = found[p].password
    BY <1>2 DEF UserRow, Statuses
  <1>6. \/ WriteBack(row) /\ UNCHANGED chosen
        \/ \E c \in Passwords : \E h \in Sent(c) :
             /\ WriteBack([row EXCEPT !.password = h])
             /\ chosen' = [chosen EXCEPT ![row.id] = @ \cup {c}]
    BY <1>4
  <1> HIDE DEF row
  <1>7. chosen \in [Inserters -> SUBSET Passwords]
    BY DEF OnboardingInvariant, Types
  <1>8. CASE WriteBack(row) /\ UNCHANGED chosen
    BY <1>1, <1>2, <1>5, <1>7, <1>8, InvWriteBack DEF Secret
  <1>9. ASSUME NEW c \in Passwords, NEW h \in Sent(c), WriteBack([row EXCEPT !.password = h]),
               chosen' = [chosen EXCEPT ![row.id] = @ \cup {c}]
        PROVE  OnboardingInvariant'
    <2>1. h \in Hashes /\ h.plain = c
      BY HashFacts DEF Sent, AnyPassword
    <2> DEFINE new == [row EXCEPT !.password = h]
    <2>2. new \in UserRow /\ new.id = row.id /\ new.status = row.status /\ new.password = h
      BY <1>5, <2>1 DEF UserRow
    <2>3. new.status # "none" /\ WriteBack(new)
      BY <1>5, <1>9, <2>2
    <2> HIDE DEF new
    <2>4. /\ chosen' \in [Inserters -> SUBSET Passwords] /\ c \in chosen'[row.id]
          /\ \A j \in Inserters : chosen[j] \subseteq chosen'[j]
      BY <1>2, <1>5, <1>7, <1>9
    <2> QED BY <1>1, <1>2, <1>5, <2>1, <2>2, <2>3, <2>4, InvWriteBack
  <1> QED BY <1>6, <1>8, <1>9

\* A reset, which chooses a password.
LEMMA InvResetPassword ==
  ASSUME OnboardingInvariant, NEW i \in Inserters, NEW p \in Passwords, ResetPassword(i, p)
  PROVE  OnboardingInvariant'
  <1> DEFINE h == Hash(Plain(p))  new == [users[i] EXCEPT !.password = h]
  <1>1. /\ users[i].status = "live" /\ users' = [users EXCEPT ![i] = new]
        /\ chosen' = [chosen EXCEPT ![i] = @ \cup {p}]
        /\ UNCHANGED <<roles, accounts, tokens, pc, arg, found, at, moved>>
    BY DEF ResetPassword, Live
  <1>2. h \in Hashes /\ h.plain = p
    BY HashFacts DEF AnyPassword
  <1>3. users[i] \in UserRow
    BY DEF OnboardingInvariant, Types
  <1> HIDE DEF h
  <1>4. /\ new \in UserRow /\ new.id = users[i].id /\ new.status = users[i].status
        /\ new.email = users[i].email /\ new.password = h
    BY <1>2, <1>3 DEF UserRow
  <1> HIDE DEF new
  <1>5. /\ users' \in [Inserters -> UserRow] /\ users'[i] = new
        /\ \A j \in Inserters \ {i} : users'[j] = users[j]
    BY <1>1, <1>4 DEF OnboardingInvariant, Types
  <1>6. /\ chosen' \in [Inserters -> SUBSET Passwords] /\ p \in chosen'[i]
        /\ \A j \in Inserters : chosen[j] \subseteq chosen'[j]
    BY <1>1 DEF OnboardingInvariant, Types
  <1>7. TableFine'
    <2>1. \A j \in Inserters : There(j)' = There(j) /\ users'[j].email = users[j].email
      BY <1>4, <1>5 DEF There
    <2>2. Unique'
      BY <2>1 DEF OnboardingInvariant, TableFine, Unique
    <2>3. \A j \in Inserters \ {i} : RowFine(j)'
      BY <1>1, <1>5, <1>6, OtherRows
    <2>4. RowFine(i)'
      <3>1. RowFine(i)
        BY DEF OnboardingInvariant, TableFine
      <3>2. Address(i)' = Address(i)
        BY <1>1 DEF Address
      <3> QED BY <1>1, <1>2, <1>4, <1>5, <1>6, <3>1, <3>2 DEF RowFine, Secret, There
    <2> QED BY <2>2, <2>3, <2>4 DEF TableFine
  <1>8. Grow /\ \A j \in Inserters : ~There(j) => ~There(j)'
    BY <1>1, <1>4, <1>5, <1>6 DEF Grow, There
  <1>9. Types'
    BY <1>1, <1>5, <1>6 DEF OnboardingInvariant, Types
  <1> QED BY <1>1, <1>7, <1>8, <1>9, NobodyMoves

\* A user or a role is deleted.
LEMMA InvDelete ==
  ASSUME OnboardingInvariant,
         (\E i \in Inserters : SoftDeleteUser(i)) \/ (\E n \in DOMAIN roles : RemoveRole(n))
  PROVE  OnboardingInvariant'
  <1>1. ASSUME NEW i \in Inserters, SoftDeleteUser(i) PROVE OnboardingInvariant'
    <2> DEFINE new == [users[i] EXCEPT !.status = "deleted"]
    <2>1. /\ users[i].status = "live" /\ users' = [users EXCEPT ![i] = new]
          /\ UNCHANGED <<roles, accounts, tokens, pc, arg, found, at, moved, chosen>>
      BY <1>1 DEF SoftDeleteUser, Live, history
    <2>2. users[i] \in UserRow
      BY DEF OnboardingInvariant, Types
    <2>3. /\ new \in UserRow /\ new.id = users[i].id /\ new.status = "deleted"
          /\ new.email = users[i].email /\ new.password = users[i].password
      BY <2>2 DEF UserRow, Statuses
    <2> HIDE DEF new
    <2>4. /\ users' \in [Inserters -> UserRow] /\ users'[i] = new
          /\ \A j \in Inserters \ {i} : users'[j] = users[j]
      BY <2>1, <2>3 DEF OnboardingInvariant, Types
    <2>5. \A j \in Inserters : /\ There(j)' = There(j) /\ users'[j].email = users[j].email
                               /\ users'[j].id = users[j].id
                               /\ users'[j].password = users[j].password
      BY <2>1, <2>3, <2>4 DEF There
    <2>6. Unique' /\ \A j \in Inserters : RowFine(j)'
      <3>1. Unique'
        BY <2>5 DEF OnboardingInvariant, TableFine, Unique
      <3>2. \A j \in Inserters : RowFine(j)'
        BY <2>1, <2>5 DEF OnboardingInvariant, TableFine, RowFine, Secret, Address
      <3> QED BY <3>1, <3>2
    <2>7. Grow /\ \A j \in Inserters : ~There(j) => ~There(j)'
      BY <2>1, <2>5 DEF Grow
    <2>8. Types'
      BY <2>1, <2>4 DEF OnboardingInvariant, Types
    <2> QED BY <2>1, <2>6, <2>7, <2>8, NobodyMoves DEF TableFine
  <1>2. ASSUME NEW n \in DOMAIN roles, RemoveRole(n) PROVE OnboardingInvariant'
    <2>1. /\ UNCHANGED <<users, accounts, tokens, pc, arg, found, at, moved, chosen>>
          /\ roles' = [roles EXCEPT ![n] = "deleted"]
      BY <1>2 DEF RemoveRole, history
    <2>2. /\ roles' \in [{"admin", "user"} -> Statuses]
          /\ \A m \in {"admin", "user"} : roles[m] # "none" => roles'[m] # "none"
      BY <2>1 DEF OnboardingInvariant, Types, Statuses
    <2>3. Types' /\ Grow /\ \A j \in Inserters : ~There(j) => ~There(j)'
      BY <2>1, <2>2 DEF OnboardingInvariant, Types, Grow, There
    <2>4. TableFine'
      BY <2>1, RowsStay
    <2> QED BY <2>1, <2>3, <2>4, NobodyMoves
  <1> QED BY <1>1, <1>2

\* The steps that only move a request.
LEMMA InvRequestMove ==
  ASSUME OnboardingInvariant, NEW r \in Callers \cup Patches,
         \/ FindRoleById(r) \/ Lookup(r) \/ SendResetPasswordOtp(r) \/ LoginTouch(r)
  PROVE  OnboardingInvariant'
  <1> USE Kinds
  <1>0. /\ r \in Creators \/ r \in Logins \/ r \in Patches
        /\ r \in Processes /\ ProcessFine(r)
    BY DEF Callers, OnboardingInvariant
  <1>1. CASE FindRoleById(r)
    <2>1. pc[r] = "role" /\ \E l \in {"lookup", "error"} : Move(r, l)
      BY <1>1 DEF FindRoleById
    <2>2. r \in Creators
      BY <1>0, <2>1 DEF ProcessFine, LoginFine, LoginPC, PatchFine, PatchPC
    <2> QED BY <2>1, <2>2, InvMove DEF CreatorPC
  <1>2. CASE Lookup(r)
    <2>1. r \in Creators /\ pc[r] = "lookup" /\ \E l \in {"conflict", "save"} : Move(r, l)
      BY <1>2 DEF Lookup
    <2> QED BY <2>1, InvMove DEF CreatorPC
  <1>3. CASE SendResetPasswordOtp(r)
    <2>1. pc[r] = "mail" /\ Move(r, "ok")
      BY <1>3 DEF SendResetPasswordOtp
    <2>2. r \in Creators
      BY <1>0, <2>1 DEF ProcessFine, LoginFine, LoginPC, PatchFine, PatchPC
    <2> QED BY <2>1, <2>2, InvMove DEF CreatorPC
  <1>4. CASE LoginTouch(r)
    <2>1. pc[r] = "touch" /\ Move(r, "ok")
      BY <1>4 DEF LoginTouch
    <2>2. r \in Logins /\ arg[r][2] \in chosen[found[r].id]
      BY <1>0, <2>1 DEF ProcessFine, LoginFine, CreatorFine, CreatorPC, PatchFine, PatchPC
    <2> QED BY <2>1, <2>2, InvMove DEF LoginPC
  <1> QED BY <1>1, <1>2, <1>3, <1>4

\* Anything may end between two statements.
LEMMA InvFail ==
  ASSUME OnboardingInvariant, NEW x \in Processes, Fail(x)
  PROVE  OnboardingInvariant'
  BY InvMove, Kinds DEF Fail, CreatorPC, LoginPC, PatchPC

--------------------------------------------------------------------------------
(***************************************************************************)
(* The seeder.                                                             *)
(***************************************************************************)
\* The name a run of the seeder has come to while it seeds roles.
LEMMA RoleFacts ==
  ASSUME OnboardingInvariant, NEW s \in Seeders, pc[s] \in SeedsRoles
  PROVE  \/ at[s] = 1 /\ Roles[at[s]] = "admin"
         \/ at[s] = 2 /\ Roles[at[s]] = "user" /\ roles["admin"] # "none"
  <1>1. SeederFine(s) /\ at[s] \in 1 .. 3
    BY Kinds DEF OnboardingInvariant, ProcessFine, Types
  <1>2. at[s] = 1 \/ at[s] = 2
    BY <1>1 DEF SeederFine
  <1>3. Roles[1] = "admin" /\ Roles[2] = "user"
    BY DEF Roles
  <1> QED BY <1>1, <1>2, <1>3 DEF SeederFine

\* A role is there once its save went through, and the next one is looked for.
LEMMA InvSeedSaveRole ==
  ASSUME OnboardingInvariant, NEW s \in Seeders, SeedSaveRole(s)
  PROVE  OnboardingInvariant'
  <1> USE Kinds
  <1> DEFINE n == Roles[at[s]]
             to == IF at[s] < 2 THEN "find_role" ELSE "admin_role"
  <1>1. /\ UNCHANGED <<users, accounts, tokens, arg, found, moved, chosen>>
        /\ pc[s] \in SeedsRoles
        /\ roles' = [roles EXCEPT ![n] = "live"]
        /\ at' = [at EXCEPT ![s] = @ + 1]
        /\ Goto(s, to)
    BY DEF SeedSaveRole, SeedsRoles, history
  <1>2. \/ at[s] = 1 /\ n = "admin"
        \/ at[s] = 2 /\ n = "user" /\ roles["admin"] # "none"
    BY <1>1, RoleFacts
  <1> HIDE DEF n
  <1>3. /\ roles' \in [{"admin", "user"} -> Statuses] /\ roles'[n] = "live"
        /\ \A m \in {"admin", "user"} : roles[m] # "none" => roles'[m] # "none"
    BY <1>1, <1>2 DEF OnboardingInvariant, Types, Statuses
  <1>4. at' \in [Seeders -> 1 .. 3] /\ at'[s] = at[s] + 1 /\ \A y \in Seeders : y # s => at'[y] = at[y]
    BY <1>1, <1>2 DEF OnboardingInvariant, Types
  <1>5. to \in SeederPC /\ (to = "find_role" => at[s] = 1) /\ to \in {"find_role", "admin_role"}
        /\ (to = "admin_role" => at[s] = 2)
    BY <1>2 DEF SeederPC, SeedsRoles, SeedsAdmin
  <1> HIDE DEF to
  <1>6. pc'[s] = to /\ Types'
    BY <1>1, <1>3, <1>4, <1>5, GotoFacts DEF OnboardingInvariant, Types
  <1>7. Grow /\ \A y \in Inserters : ~There(y) => ~There(y)'
    BY <1>1, <1>3 DEF Grow, There
  <1>8. TableFine'
    BY <1>1, RowsStay
  <1>9. SeederFine(s) /\ CopyFine(s)'
    <2>1. SeederFine(s) /\ CopyFine(s)
      BY DEF OnboardingInvariant, ProcessFine, SeederFine
    <2> QED BY <1>1, <1>7, <2>1, CopyStays
  <1>10. SeederFine(s)'
    <2>1. ~There(s)'
      BY <1>1, <1>9, <1>7 DEF SeederFine, SeedsRoles
    <2> QED BY <1>2, <1>3, <1>4, <1>5, <1>6, <1>9, <2>1 DEF SeederFine, SeederPC, SeedsRoles, SeedsAdmin
  <1> QED BY <1>1, <1>4, <1>6, <1>7, <1>8, <1>10, OneMoves DEF ProcessFine

\* The seeder keeps the administrator it found, and is done when that one has a
\* role.
LEMMA InvSeedFindAdmin ==
  ASSUME OnboardingInvariant, NEW s \in Seeders, SeedFindAdmin(s)
  PROVE  OnboardingInvariant'
  <1> USE Kinds
  <1>1. PICK row : row = FindByEmail(AdminEmail)
    OBVIOUS
  <1>2. /\ UNCHANGED <<users, roles, accounts, tokens, arg, at, moved, chosen>>
        /\ pc[s] = "find_admin"
        /\ found' = [found EXCEPT ![s] = row]
        /\ Goto(s, CASE row.status = "none" -> "save_admin" [] row.role -> "done"
                     [] OTHER -> "assign_role")
    BY <1>1 DEF SeedFindAdmin, tables, history
  <1>3. /\ row \in UserRow /\ row.status \in {"none", "live"}
        /\ row.status = "live" => /\ row.id \in Inserters /\ There(row.id)
                                  /\ Secret(row.password, row.id) /\ row.email = AdminEmail
    BY <1>1, FindFacts, OnboardingAssumption
  <1>4. PICK to \in {"save_admin", "done", "assign_role"} :
          Goto(s, to) /\ (to = "assign_role" => row.status # "none")
    BY <1>2
  <1>5. to \in SeedsAdmin /\ to \in SeederPC /\ to \notin SeedsRoles
    BY DEF SeederPC, SeedsAdmin, SeedsRoles
  <1>6. SeederFine(s) /\ at[s] = 3
    BY <1>2 DEF OnboardingInvariant, ProcessFine, SeederFine, SeedsAdmin
  <1>7. ASSUME pc'[s] = to, found'[s] = row, CopyFine(s)' PROVE ProcessFine(s)'
    <2>1. SeederFine(s)'
      BY <1>2, <1>3, <1>4, <1>5, <1>6, <1>7 DEF SeederFine, There
    <2> QED BY <2>1 DEF ProcessFine
  <1> QED BY <1>2, <1>3, <1>4, <1>5, <1>7, Finds

\* The INSERT of the administrator, whose password the repository hashes again.
LEMMA InvSeedSaveAdmin ==
  ASSUME OnboardingInvariant, NEW s \in Seeders, SeedSaveAdmin(s)
  PROVE  OnboardingInvariant'
  <1> USE Kinds, OnboardingAssumption
  <1> DEFINE h == Hash(Plain(AdminPassword))
  <1>1. /\ UNCHANGED <<roles, accounts, tokens, arg, found, at, moved, chosen>>
        /\ pc[s] = "save_admin" /\ Insert(s, AdminEmail, h, TRUE) /\ Goto(s, "account")
    BY DEF SeedSaveAdmin, history
  <1>2. h \in Hashes /\ Hash(h).times = 2
    BY HashFacts DEF AnyPassword
  <1> HIDE DEF h
  <1>3. SeederFine(s) /\ ~There(s)
    BY <1>1 DEF OnboardingInvariant, ProcessFine, SeederFine
  <1>4. /\ users' \in [Inserters -> UserRow] /\ Unique'
        /\ users'[s].status = "live" /\ users'[s].password = Hash(h) /\ users'[s].id = s
        /\ users'[s].email = AdminEmail
        /\ \A j \in Inserters \ {s} : users'[j] = users[j]
    BY <1>1, <1>2, InsertFacts
  <1>5. pc'[s] = "account" /\ Types'
    <2>1. "account" \in SeederPC
      BY DEF SeederPC, SeedsAdmin
    <2> QED BY <1>1, <1>4, <2>1, GotoFacts DEF OnboardingInvariant, Types
  <1>6. Grow
    BY <1>1, <1>4 DEF Grow, There
  <1>7. TableFine'
    <2>1. \A j \in Inserters \ {s} : RowFine(j)'
      BY <1>1, <1>4, OtherRows
    <2>2. RowFine(s)'
      BY <1>2, <1>4 DEF RowFine, Secret, Address
    <2> QED BY <1>4, <2>1, <2>2 DEF TableFine
  <1>8. CopyFine(s)'
    BY <1>1, <1>3, <1>6, CopyStays DEF SeederFine
  <1>9. ProcessFine(s)'
    <2>1. at[s] = 3
      BY <1>1, <1>3 DEF SeederFine, SeedsAdmin
    <2> QED BY <1>1, <1>3, <1>5, <1>8, <2>1 DEF ProcessFine, SeederFine, SeederPC, SeedsAdmin, SeedsRoles
  <1>10. \A y \in Inserters : y # s => (~There(y) => ~There(y)')
    BY <1>4 DEF There
  <1> QED BY <1>1, <1>5, <1>6, <1>7, <1>9, <1>10, OneMoves

\* The account of the administrator is saved before the run ends well.
LEMMA InvSeedSaveAccount ==
  ASSUME OnboardingInvariant, NEW s \in Seeders, SeedSaveAccount(s)
  PROVE  OnboardingInvariant'
  <1> USE Kinds
  <1>1. /\ UNCHANGED <<users, roles, tokens, arg, found, at, moved, chosen>>
        /\ pc[s] = "account" /\ Goto(s, "done")
    BY DEF SeedSaveAccount, history
  <1>2. pc'[s] = "done" /\ Types'
    <2>1. "done" \in SeederPC
      BY DEF SeederPC, SeedsAdmin
    <2> QED BY <1>1, <2>1, GotoFacts DEF OnboardingInvariant, Types
  <1>3. Grow /\ \A y \in Inserters : ~There(y) => ~There(y)'
    BY <1>1 DEF Grow, There
  <1>4. TableFine'
    BY <1>1, RowsStay
  <1>5. SeederFine(s) /\ CopyFine(s)'
    <2>1. SeederFine(s) /\ CopyFine(s)
      BY DEF OnboardingInvariant, ProcessFine, SeederFine
    <2> QED BY <1>1, <1>3, <2>1, CopyStays
  <1>6. SeederFine(s)'
    BY <1>1, <1>2, <1>5 DEF SeederFine, SeederPC, SeedsRoles, SeedsAdmin
  <1> QED BY <1>1, <1>2, <1>3, <1>4, <1>6, OneMoves DEF ProcessFine

\* What the seeder writes back is the row it found, with a role.
LEMMA AssignFacts ==
  ASSUME OnboardingInvariant, NEW s \in Seeders, pc[s] = "assign_role"
  PROVE  LET row == [found[s] EXCEPT !.role = TRUE]
         IN  /\ row \in UserRow /\ row.id \in Inserters /\ row.id # s /\ There(row.id)
             /\ row.status = "live" /\ row.email = AdminEmail /\ row.role
             /\ Secret(row.password, row.id)
  <1>1. SeederFine(s) /\ found[s] \in UserRow
    BY Kinds DEF OnboardingInvariant, ProcessFine, Types
  <1>2. /\ found[s].status = "live" /\ found[s].email = AdminEmail /\ found[s].id \in Inserters
        /\ There(found[s].id) /\ ~There(s) /\ Secret(found[s].password, found[s].id)
    BY <1>1 DEF SeederFine, CopyFine
  <1> DEFINE row == [found[s] EXCEPT !.role = TRUE]
  <1>3. /\ row \in UserRow /\ row.id = found[s].id /\ row.status = found[s].status
        /\ row.email = found[s].email /\ row.password = found[s].password /\ row.role
    BY <1>1 DEF UserRow
  <1> HIDE DEF row
  <1>4. row.id # s
    BY <1>2, <1>3
  <1>5. /\ row \in UserRow /\ row.id \in Inserters /\ row.id # s /\ There(row.id)
        /\ row.status = "live" /\ row.email = AdminEmail /\ row.role
        /\ Secret(row.password, row.id)
    BY <1>2, <1>3, <1>4
  <1> QED BY <1>5 DEF row

\* The administrator that was found is written back with a role, live again
\* when it was deleted meanwhile; its password was one of this row.
LEMMA InvSeedAssignRole ==
  ASSUME OnboardingInvariant, NEW s \in Seeders, SeedAssignRole(s)
  PROVE  OnboardingInvariant'
  <1>1. PICK row : row = [found[s] EXCEPT !.role = TRUE]
    OBVIOUS
  <1>2. /\ UNCHANGED <<roles, accounts, tokens, arg, found, at, chosen>>
        /\ pc[s] = "assign_role" /\ Goto(s, "done") /\ WriteBack(row)
    BY <1>1 DEF SeedAssignRole
  <1>3. /\ row \in UserRow /\ row.id \in Inserters /\ There(row.id)
        /\ row.status = "live" /\ Secret(row.password, row.id)
    BY <1>1, <1>2, AssignFacts
  <1>4. chosen' \in [Inserters -> SUBSET Passwords] /\ s \notin Patches
    BY <1>2, Kinds DEF OnboardingInvariant, Types
  <1> QED BY <1>2, <1>3, <1>4, InvWriteBack DEF Secret

\* The other steps of the seeder look something up.
LEMMA InvSeedMove ==
  ASSUME OnboardingInvariant, NEW s \in Seeders, SeedFindRole(s) \/ SeedAdminRole(s)
  PROVE  OnboardingInvariant'
  <1> USE Kinds
  <1>1. CASE SeedFindRole(s)
    <2>1. pc[s] = "find_role" /\ \E l \in {"update_role", "create_role"} : Move(s, l)
      BY <1>1 DEF SeedFindRole
    <2> QED BY <2>1, InvMove DEF SeedsRoles
  <1>2. CASE SeedAdminRole(s)
    <2>1. pc[s] = "admin_role" /\ \E l \in {"find_admin", "error"} : Move(s, l)
      BY <1>2 DEF SeedAdminRole
    <2> QED BY <2>1, InvMove
  <1> QED BY <1>1, <1>2

--------------------------------------------------------------------------------
\* Every step keeps the invariant.
LEMMA OnboardingNext == OnboardingInvariant /\ [Next]_vars => OnboardingInvariant'
  <1> SUFFICES ASSUME OnboardingInvariant, [Next]_vars PROVE OnboardingInvariant'
    OBVIOUS
  <1>1. ASSUME NEW r \in Callers \cup Patches, Request(r) PROVE OnboardingInvariant'
    <2>0. /\ r \in Creators \/ r \in Logins \/ r \in Patches
          /\ ProcessFine(r)
      BY Kinds DEF Callers, OnboardingInvariant
    <2>1. CASE Save(r) \/ GenerateResetPasswordToken(r)
      <3>1. pc[r] \in {"save", "token"}
        BY <2>1 DEF Save, GenerateResetPasswordToken
      <3>2. r \in Creators
        BY <2>0, <3>1 DEF ProcessFine, LoginFine, LoginPC, PatchFine, PatchPC
      <3> QED BY <2>1, <3>2, InvSave, InvToken
    <2>2. CASE LoginFind(r) \/ LoginCompare(r)
      <3>1. r \in Logins
        BY <2>0, <2>2 DEF LoginFind, LoginCompare, ProcessFine, CreatorFine, CreatorPC, PatchFine, PatchPC
      <3> QED BY <2>2, <3>1, InvLoginFind, InvLoginCompare
    <2>3. CASE PatchFind(r) \/ PatchSave(r)
      <3>1. pc[r] \in {"find_user", "save_user"}
        BY <2>3 DEF PatchFind, PatchSave
      <3>2. r \in Patches
        BY <2>0, <3>1 DEF ProcessFine, CreatorFine, CreatorPC, LoginFine, LoginPC
      <3> QED BY <2>3, <3>2, InvPatchFind, InvPatchSave
    <2> QED BY <1>1, <2>1, <2>2, <2>3, InvRequestMove DEF Request
  <1>2. ASSUME NEW s \in Seeders, Seeder(s) PROVE OnboardingInvariant'
    BY <1>2, InvSeedSaveRole, InvSeedFindAdmin, InvSeedSaveAdmin, InvSeedSaveAccount,
       InvSeedAssignRole, InvSeedMove DEF Seeder
  <1>3. CASE UNCHANGED vars
    <2>1. UNCHANGED <<users, roles, accounts, tokens, pc, arg, found, at, moved, chosen>>
      BY <1>3 DEF vars, tables, history
    <2>2. Types' /\ Grow /\ \A y \in Inserters : ~There(y) => ~There(y)'
      BY <2>1 DEF OnboardingInvariant, Types, Grow, There
    <2>3. TableFine'
      BY <2>1, RowsStay
    <2> QED BY <2>1, <2>2, <2>3, NobodyMoves
  <1> QED BY <1>1, <1>2, <1>3, InvDelete, InvResetPassword, InvFail DEF Next, Quiet

\* What a row, a process and the copy it keeps are at every moment of user
\* creation, change, login and seeding: user.service.ts:33-164,
\* auth.service.ts:31-67 and the seeders, role.seeder.ts:24-38 and
\* user.seeder.ts:11-63.
THEOREM OnboardingInvariantHolds == Spec => []OnboardingInvariant
  BY OnboardingInit, OnboardingNext, PTL DEF Spec

\* Of the calls that create a user for one address two are answered with success
\* only when the user of one of them has been moved, however many calls,
\* PATCHes and runs of the seeder overlap (user.service.ts:33-53 and 86-164).
THEOREM OnlyMovedUsersMakeRoom == Spec => []OneOwner
  <1>1. ASSUME OnboardingInvariant, NEW r \in Creators, NEW s \in Creators, r # s,
               arg[r][1] = arg[s][1], pc[r] = "ok", pc[s] = "ok"
        PROVE  {r, s} \cap moved # {}
    <2>1. There(r) /\ There(s) /\ r \in Inserters /\ s \in Inserters
      BY <1>1, Kinds DEF OnboardingInvariant, ProcessFine, CreatorFine
    <2>2. users[r].email # users[s].email
      BY <1>1, <2>1 DEF OnboardingInvariant, TableFine, Unique
    <2>3. /\ r \notin moved => users[r].email = arg[r][1]
          /\ s \notin moved => users[s].email = arg[s][1]
      BY <1>1, <2>1 DEF OnboardingInvariant, TableFine, RowFine, Address
    <2> QED BY <1>1, <2>2, <2>3
  <1>2. OnboardingInvariant => OneOwner
    BY <1>1 DEF OneOwner
  <1> QED BY <1>2, OnboardingInvariantHolds, PTL

\* A login succeeds only with a password that a registration, a reset or a PATCH
\* chose for that very row, whatever its address was (auth.service.ts:31-67): the
\* others are hashed twice, by their creator and by @BeforeInsert
\* (user.entity.ts:65-70).
THEOREM OnlyChosenPasswordsLogIn == Spec => []OnlyChosenPasswordsOpen
  <1>1. OnboardingInvariant => OnlyChosenPasswordsOpen
    BY Kinds DEF OnboardingInvariant, ProcessFine, LoginFine, OnlyChosenPasswordsOpen
  <1> QED BY <1>1, OnboardingInvariantHolds, PTL

\* When a run of the seeder ends well both roles have a row, and either it has
\* inserted an administrator and its account or the administrator's address is
\* that of a user with a role: for any number of runs and requests that overlap
\* or were stopped between two statements (seeder.ts:7-28, role.seeder.ts:24-38
\* and user.seeder.ts:11-63).
THEOREM SeedersComplete == Spec => SeedComplete
  <1> DEFINE Complete(s) ==
        /\ \A n \in DOMAIN roles : roles'[n] # "none"
        /\ \E i \in Inserters :
             IF i = s THEN s \in accounts'
                      ELSE Live(i)' /\ users'[i].email = AdminEmail /\ users'[i].role
      EndsComplete == \A s \in Seeders : pc[s] # "done" /\ pc'[s] = "done" => Complete(s)
  <1> USE Kinds
  <1>1. ASSUME OnboardingInvariant, [Next]_vars, NEW s \in Seeders, pc[s] # "done", pc'[s] = "done"
        PROVE  Complete(s)
    <2>1. SeederFine(s) /\ Types
      BY <1>1 DEF OnboardingInvariant, ProcessFine
    <2>2. ASSUME NEW x \in Processes, NEW l, Goto(x, l) PROVE x = s /\ l = "done"
      BY <1>1, <2>1, <2>2 DEF Goto, Types
    <2>3. ASSUME NEW x \in Processes, NEW l, Move(x, l), l # "done" PROVE FALSE
      BY <2>2, <2>3 DEF Move
    <2>4. ASSUME at[s] = 3, UNCHANGED roles PROVE \A n \in DOMAIN roles : roles'[n] # "none"
      BY <2>1, <2>4 DEF SeederFine, Types
    <2>5. CASE SeedFindAdmin(s)
      <3>1. PICK row : row = FindByEmail(AdminEmail)
        OBVIOUS
      <3>2. /\ UNCHANGED <<users, roles>> /\ pc[s] = "find_admin"
            /\ Goto(s, CASE row.status = "none" -> "save_admin" [] row.role -> "done"
                         [] OTHER -> "assign_role")
        BY <2>5, <3>1 DEF SeedFindAdmin, tables
      <3>3. /\ row.status \in {"none", "live"}
            /\ row.status = "none" => ~row.role
            /\ row.status = "live" => /\ row.id \in Inserters /\ row = users[row.id]
                                      /\ row.email = AdminEmail /\ There(row.id)
        BY <1>1, <3>1, FindFacts, OnboardingAssumption
      <3>4. row.status = "live" /\ row.role
        <4>1. ASSUME row.status = "none" PROVE FALSE
          <5>1. Goto(s, "save_admin")
            BY <3>2, <3>3, <4>1
          <5> QED BY <2>2, <5>1
        <4>2. ASSUME row.status # "none", ~row.role PROVE FALSE
          <5>1. Goto(s, "assign_role")
            BY <3>2, <4>2
          <5> QED BY <2>2, <5>1
        <4> QED BY <3>3, <4>1, <4>2
      <3>5. at[s] = 3 /\ ~There(s)
        BY <2>1, <3>2 DEF SeederFine, SeedsAdmin
      <3>6. row.id # s /\ row.id \in Inserters
        BY <3>3, <3>4, <3>5
      <3>7. Live(row.id)' /\ users'[row.id].email = AdminEmail /\ users'[row.id].role
        BY <3>2, <3>3, <3>4 DEF Live
      <3> QED BY <2>4, <3>2, <3>5, <3>6, <3>7
    <2>6. CASE SeedSaveAccount(s)
      <3>1. UNCHANGED roles /\ pc[s] = "account" /\ s \in accounts'
        BY <2>6 DEF SeedSaveAccount
      <3>2. at[s] = 3
        BY <2>1, <3>1 DEF SeederFine, SeedsAdmin
      <3> QED BY <2>4, <3>1, <3>2
    <2>7. CASE SeedAssignRole(s)
      <3>1. PICK row : row = [found[s] EXCEPT !.role = TRUE]
        OBVIOUS
      <3>2. UNCHANGED roles /\ pc[s] = "assign_role" /\ users' = [users EXCEPT ![row.id] = row]
        BY <2>7, <3>1 DEF SeedAssignRole, WriteBack
      <3>3. /\ row.id \in Inserters /\ row.id # s
            /\ row.status = "live" /\ row.email = AdminEmail /\ row.role
        BY <1>1, <3>1, <3>2, AssignFacts
      <3>4. users'[row.id] = row
        BY <2>1, <3>2, <3>3 DEF Types
      <3>5. at[s] = 3
        BY <2>1, <3>2 DEF SeederFine, SeedsAdmin
      <3> QED BY <2>4, <3>2, <3>3, <3>4, <3>5 DEF Live
    <2>8. ASSUME NEW x \in Seeders, Seeder(x) PROVE Complete(s)
      <3>1. x = s
        BY <2>2, <2>8 DEF Seeder, SeedFindRole, SeedSaveRole, SeedAdminRole, SeedFindAdmin,
                          SeedSaveAdmin, SeedSaveAccount, SeedAssignRole, Move
      <3>2. ~SeedFindRole(s) /\ ~SeedAdminRole(s)
        BY <2>3 DEF SeedFindRole, SeedAdminRole
      <3>3. ~SeedSaveRole(s) /\ ~SeedSaveAdmin(s)
        <4>1. SeedSaveRole(s) => \E l \in {"find_role", "admin_role"} : Goto(s, l)
          BY DEF SeedSaveRole
        <4>2. SeedSaveAdmin(s) => Goto(s, "account")
          BY DEF SeedSaveAdmin
        <4>3. \A l : Goto(s, l) => l = "done"
          BY <2>2
        <4>4. ~SeedSaveRole(s)
          BY <4>1, <4>3
        <4> QED BY <4>2, <4>3, <4>4
      <3> QED BY <2>5, <2>6, <2>7, <2>8, <3>1, <3>2, <3>3 DEF Seeder
    <2>9. ASSUME NEW r \in Callers \cup Patches, Request(r) PROVE FALSE
      <3>1. r \in Processes /\ r \notin Seeders
        BY Kinds, OnboardingAssumption DEF Callers, Finders
      <3> QED BY <2>2, <2>9, <3>1
              DEF Request, FindRoleById, Lookup, Save, GenerateResetPasswordToken,
                  SendResetPasswordOtp, LoginFind, LoginCompare, LoginTouch, PatchFind, PatchSave, Move
    <2>10. ASSUME NEW x \in Processes, Fail(x) PROVE FALSE
      BY <2>3, <2>10 DEF Fail
    <2>11. ASSUME UNCHANGED pc PROVE FALSE
      BY <1>1, <2>11
    <2> QED BY <1>1, <2>8, <2>9, <2>10, <2>11
            DEF Next, SoftDeleteUser, ResetPassword, RemoveRole, Quiet, vars
  <1>2. OnboardingInvariant /\ [Next]_vars => [EndsComplete]_vars
    BY <1>1
  <1>3. SeedComplete <=> [][EndsComplete]_vars
    BY DEF SeedComplete
  <1> QED BY <1>2, <1>3, OnboardingInvariantHolds, PTL DEF Spec
===============================================================================
