------------------------------ MODULE Onboarding ------------------------------
(***************************************************************************)
(* How users come to be, user.service.ts and the seeder, how they change,  *)
(* and the password they log in with, auth.service.ts.  Every step is one  *)
(* database statement or call.  A row of users is named after the call or  *)
(* the run of the seeder that inserts it.  The unique index on the address *)
(* also holds of deleted rows, which no lookup sees.                       *)
(***************************************************************************)
EXTENDS Integers

CONSTANTS
  Emails, AdminEmail,         \* SUPER_ADMIN_EMAIL
  Passwords,                  \* passwords that people choose
  DefaultPassword,            \* DEFAULT_PASSWORD
  AdminPassword,              \* SUPER_ADMIN_PASSWORD
  Registrations,              \* calls of register
  Creations,                  \* calls of createUserWithPassword
  Invitations,                \* calls of insertNewUserByAdmin
  Logins,                     \* calls of login
  Patches,                    \* calls of updateUserById by PATCH users/:id/profile
  Seeders,                    \* runs of the seeder
  Nobody

Creators == Registrations \cup Creations \cup Invitations
Callers == Creators \cup Logins      \* those that give an address and a password
Inserters == Creators \cup Seeders
Finders == Logins \cup Patches \cup Seeders
Processes == Callers \cup Patches \cup Seeders

ASSUME OnboardingAssumption ==
  /\ AdminEmail \in Emails
  /\ Passwords # {}
  /\ Nobody \notin Inserters
  /\ Registrations \cap (Creations \cup Invitations) = {}
  /\ Creations \cap Invitations = {}
  /\ Creators \cap Finders = {}
  /\ Logins \cap (Patches \cup Seeders) = {}
  /\ Patches \cap Seeders = {}

Roles == <<"admin", "user">>   \* in the order in which they are seeded

VARIABLES
  users,      \* the rows, "none" before they are inserted
  roles,      \* "none", "live" or "deleted" for each name
  accounts,   \* the rows that have an account
  tokens,     \* the rows that have a token to reset the password
  pc,         \* where each request and each run of the seeder is
  arg,        \* the address and the password of each caller
  found,      \* the copy of a row that each finder keeps
  at,         \* the role each seeder has come to
  moved,      \* history: the rows whose address a save has changed
  chosen      \* history: the passwords that were chosen for each row

tables == <<users, roles, accounts, tokens>>
history == <<moved, chosen>>
vars == <<tables, pc, arg, found, at, history>>

--------------------------------------------------------------------------------
\* A password column is a text hashed a number of times.
Hash(h) == [h EXCEPT !.times = @ + 1]
Plain(p) == [plain |-> p, times |-> 0]
NoRow == [id |-> Nobody, status |-> "none", email |-> AdminEmail,
          password |-> Plain(DefaultPassword), role |-> FALSE]
Live(i) == users[i].status = "live"

\* findOne by address: deleted rows are not seen.
WithEmail(e) == {i \in Inserters : Live(i) /\ users[i].email = e}
FindByEmail(e) == IF WithEmail(e) = {} THEN NoRow ELSE users[CHOOSE i \in WithEmail(e) : TRUE]
ComparePassword(p, h) == h = Hash(Plain(p))

\* Mutant of BeforeInsert: the entity has no listener.
NoListener(h) == h

\* @BeforeInsert hashes whatever the password is.
BeforeInsert(h) == Hash(h)

Goto(r, l) == pc' = [pc EXCEPT ![r] = l]

\* A step that changes nothing but where its process is.
Move(r, l) == Goto(r, l) /\ UNCHANGED <<tables, arg, found, at, history>>

\* A new database, or one whose roles were seeded by a run that stopped then.
Init ==
  /\ users = [i \in Inserters |-> NoRow]
  /\ roles \in [{"admin", "user"} -> {"none", "live"}]
  /\ accounts = {} /\ tokens = {}
  /\ pc = [r \in Processes |->
             CASE r \in Seeders -> "find_role"
               [] r \in Patches -> "find_user"
               [] r \in Invitations -> "role"
               [] r \in Creations -> "save"
               [] OTHER -> "lookup"]
  /\ arg \in [Callers -> Emails \X (Passwords \cup {DefaultPassword, AdminPassword})]
  /\ \A r \in Creators : arg[r][2] \in Passwords
  /\ found = [r \in Finders |-> NoRow]
  /\ at = [s \in Seeders |-> 1]
  /\ moved = {}
  /\ chosen = [i \in Inserters |-> {}]

\* Another row has the address, deleted or not.
Taken(e, i) == \E j \in Inserters \ {i} : users[j].status # "none" /\ users[j].email = e

\* Mutant of Insert: the address has no unique index.
InsertUnindexed(r, e, password, role) ==
  users' = [users EXCEPT ![r] = [id |-> r, status |-> "live", email |-> e,
                                 password |-> BeforeInsert(password), role |-> role]]

\* The unique index lets an INSERT pass, or refuses it.
Insert(r, e, password, role) ==
  /\ ~Taken(e, r)
  /\ users' = [users EXCEPT ![r] = [id |-> r, status |-> "live", email |-> e,
                                    password |-> BeforeInsert(password), role |-> role]]

\* save of a row found earlier: every column that differs is written.
WriteBack(row) ==
  /\ ~Taken(row.email, row.id)
  /\ users' = [users EXCEPT ![row.id] = row]
  /\ moved' = moved \cup {i \in {row.id} : users[i].email # row.email}

--------------------------------------------------------------------------------
(***************************************************************************)
(* register, createUserWithPassword and insertNewUserByAdmin.              *)
(***************************************************************************)
\* findRoleById throws when the role is not there.
FindRoleById(r) ==
  /\ pc[r] = "role"
  /\ \E n \in DOMAIN roles : Move(r, IF roles[n] = "live" THEN "lookup" ELSE "error")

Lookup(r) ==
  /\ r \in Creators /\ pc[r] = "lookup"
  /\ Move(r, IF WithEmail(arg[r][1]) # {} THEN "conflict" ELSE "save")

\* The password a creator gives to the repository.
NewPassword(r) ==
  CASE r \in Registrations -> Plain(arg[r][2])
    [] r \in Creations -> Hash(Plain(arg[r][2]))
    [] r \in Invitations -> Hash(Plain(DefaultPassword))

\* The INSERT; its failure, of the index or another, is Fail.
Save(r) ==
  /\ pc[r] = "save"
  /\ Insert(r, arg[r][1], NewPassword(r), r \in Invitations)
  /\ Goto(r, IF r \in Invitations THEN "token" ELSE "ok")
  /\ chosen' = [chosen EXCEPT ![r] = IF r \in Registrations THEN {arg[r][2]} ELSE {}]
  /\ UNCHANGED <<roles, accounts, tokens, arg, found, at, moved>>

GenerateResetPasswordToken(r) ==
  /\ pc[r] = "token"
  /\ tokens' = tokens \cup {r} /\ Goto(r, "mail")
  /\ UNCHANGED <<users, roles, accounts, arg, found, at, history>>

SendResetPasswordOtp(r) ==
  /\ pc[r] = "mail"
  /\ Move(r, "ok")

--------------------------------------------------------------------------------
(***************************************************************************)
(* login, and what else happens to a user.                                 *)
(***************************************************************************)
LoginFind(l) ==
  LET row == FindByEmail(arg[l][1]) IN
  /\ l \in Logins /\ pc[l] = "lookup"
  /\ found' = [found EXCEPT ![l] = row]
  /\ Goto(l, IF row.status = "live" THEN "compare" ELSE "invalid")
  /\ UNCHANGED <<tables, arg, at, history>>

LoginCompare(l) ==
  /\ pc[l] = "compare"
  /\ Move(l, IF ComparePassword(arg[l][2], found[l].password) THEN "touch" ELSE "invalid")

\* generateAccessTokens, and lastLogin is written whatever became of the row.
LoginTouch(l) ==
  /\ pc[l] = "touch"
  /\ Move(l, "ok")

\* updateUserById: the row is found by its id, or is not there.
PatchFind(p) ==
  /\ pc[p] = "find_user"
  /\ \/ /\ \E i \in Inserters : Live(i) /\ found' = [found EXCEPT ![p] = users[i]]
        /\ Goto(p, "save_user")
        /\ UNCHANGED <<tables, arg, at, history>>
     \/ Move(p, "error")

\* A password in the body is stored as it is sent: a text, or the hash of one.
Sent(p) == {Plain(p), Hash(Plain(p))}

\* Nothing validates the body: it may hold an address, a password, a role and a
\* time of deletion.  An id, by which the save would work on another row, is
\* left out.
PatchSave(p) ==
  /\ pc[p] = "save_user"
  /\ \E e \in Emails, role \in BOOLEAN, status \in {"live", "deleted"} :
       LET row == [found[p] EXCEPT !.email = e, !.role = role, !.status = status] IN
       \/ WriteBack(row) /\ UNCHANGED chosen
       \/ \E c \in Passwords : \E h \in Sent(c) :
            /\ WriteBack([row EXCEPT !.password = h])
            /\ chosen' = [chosen EXCEPT ![row.id] = @ \cup {c}]
  /\ Goto(p, "ok")
  /\ UNCHANGED <<roles, accounts, tokens, arg, found, at>>

\* resetPassword once its OTP is accepted, in one step: AuthFlow and UserRow
\* have its own.
ResetPassword(i, p) ==
  /\ Live(i)
  /\ users' = [users EXCEPT ![i].password = Hash(Plain(p))]
  /\ chosen' = [chosen EXCEPT ![i] = @ \cup {p}]
  /\ UNCHANGED <<roles, accounts, tokens, pc, arg, found, at, moved>>

SoftDeleteUser(i) ==
  /\ Live(i)
  /\ users' = [users EXCEPT ![i].status = "deleted"]
  /\ UNCHANGED <<roles, accounts, tokens, pc, arg, found, at, history>>

RemoveRole(n) ==
  /\ roles[n] = "live"
  /\ roles' = [roles EXCEPT ![n] = "deleted"]
  /\ UNCHANGED <<users, accounts, tokens, pc, arg, found, at, history>>

--------------------------------------------------------------------------------
(***************************************************************************)
(* A run of the seeder; an exception is logged and ends it.                *)
(***************************************************************************)
SeedFindRole(s) ==
  /\ pc[s] = "find_role"
  /\ Move(s, IF roles[Roles[at[s]]] = "live" THEN "update_role" ELSE "create_role")

\* The save of a new role fails when its name is taken, by a deleted role
\* too; the save of one found earlier writes that it is not deleted.
SeedSaveRole(s) ==
  LET n == Roles[at[s]] IN
  /\ pc[s] \in {"create_role", "update_role"}
  /\ pc[s] = "create_role" => roles[n] = "none"
  /\ roles' = [roles EXCEPT ![n] = "live"]
  /\ at' = [at EXCEPT ![s] = @ + 1]
  /\ Goto(s, IF at[s] < 2 THEN "find_role" ELSE "admin_role")
  /\ UNCHANGED <<users, accounts, tokens, arg, found, history>>

SeedAdminRole(s) ==
  /\ pc[s] = "admin_role"
  /\ Move(s, IF roles["admin"] = "live" THEN "find_admin" ELSE "error")

SeedFindAdmin(s) ==
  LET row == FindByEmail(AdminEmail) IN
  /\ pc[s] = "find_admin"
  /\ found' = [found EXCEPT ![s] = row]
  /\ Goto(s, CASE row.status = "none" -> "save_admin" [] row.role -> "done" [] OTHER -> "assign_role")
  /\ UNCHANGED <<tables, arg, at, history>>

SeedSaveAdmin(s) ==
  /\ pc[s] = "save_admin"
  /\ Insert(s, AdminEmail, Hash(Plain(AdminPassword)), TRUE)
  /\ Goto(s, "account")
  /\ UNCHANGED <<roles, accounts, tokens, arg, found, at, history>>

\* Mutant of SeedSaveAccount: the save is not awaited and its failure lost.
SeedSaveAccountUnawaited(s) ==
  /\ pc[s] = "account"
  /\ accounts' \in {accounts, accounts \cup {s}}
  /\ Goto(s, "done")
  /\ UNCHANGED <<users, roles, tokens, arg, found, at, history>>

SeedSaveAccount(s) ==
  /\ pc[s] = "account"
  /\ accounts' = accounts \cup {s}
  /\ Goto(s, "done")
  /\ UNCHANGED <<users, roles, tokens, arg, found, at, history>>

\* save writes the row found earlier, all of it, and its role.
SeedAssignRole(s) ==
  /\ pc[s] = "assign_role"
  /\ WriteBack([found[s] EXCEPT !.role = TRUE])
  /\ Goto(s, "done")
  /\ UNCHANGED <<roles, accounts, tokens, arg, found, at, chosen>>

Ended == {"ok", "error", "conflict", "invalid", "done"}

\* A statement fails, of the unique index or of the database, the queue fails, or
\* the process is stopped: between two statements everything may end.
Fail(x) ==
  /\ pc[x] \notin Ended
  /\ Move(x, "error")

Seeder(s) ==
  \/ SeedFindRole(s) \/ SeedSaveRole(s) \/ SeedAdminRole(s)
  \/ SeedFindAdmin(s) \/ SeedSaveAdmin(s) \/ SeedSaveAccount(s) \/ SeedAssignRole(s)

Request(r) ==
  \/ FindRoleById(r) \/ Lookup(r) \/ Save(r)
  \/ GenerateResetPasswordToken(r) \/ SendResetPasswordOtp(r)
  \/ LoginFind(r) \/ LoginCompare(r) \/ LoginTouch(r)
  \/ PatchFind(r) \/ PatchSave(r)

Quiet == (\A r \in DOMAIN pc : pc[r] \in Ended) /\ UNCHANGED vars

Next ==
  \/ \E r \in Callers \cup Patches : Request(r)
  \/ \E s \in Seeders : Seeder(s)
  \/ \E x \in Processes : Fail(x)
  \/ \E i \in Inserters : SoftDeleteUser(i) \/ \E p \in Passwords : ResetPassword(i, p)
  \/ \E n \in DOMAIN roles : RemoveRole(n)
  \/ Quiet

Spec == Init /\ [][Next]_vars

--------------------------------------------------------------------------------
\* Of the calls for one address two are answered with success only when the user
\* that one of them inserted has been moved to another address since: whether
\* they overlap, or come after a failed invitation, a deletion, an overlapping
\* PATCH that writes a stale address back, or a run of the seeder that does.
OneOwner ==
  \A r, s \in Creators :
    r # s /\ arg[r][1] = arg[s][1] /\ pc[r] = "ok" /\ pc[s] = "ok" => {r, s} \cap moved # {}

\* Nobody logs in with DEFAULT_PASSWORD, the password of the seeder or the one
\* that a creation gave: only with one that a registration, a reset or a PATCH
\* chose for that very row, under whatever address it is found.  login does not
\* ask whether the user is active, so an invitation rests on this.
OnlyChosenPasswordsOpen ==
  \A l \in Logins : pc[l] \in {"touch", "ok"} => arg[l][2] \in chosen[found[l].id]

\* When a run of the seeder ends well, both roles have a row and either it has
\* inserted the administrator, and its account, or the administrator's address
\* is that of a user who has a role: whatever other runs, requests and stops left
\* behind or do meanwhile.
SeedComplete ==
  [][\A s \in Seeders : pc[s] # "done" /\ pc'[s] = "done" =>
       /\ \A n \in DOMAIN roles : roles'[n] # "none"
       /\ \E i \in Inserters :
            IF i = s THEN s \in accounts'
                     ELSE Live(i)' /\ users'[i].email = AdminEmail /\ users'[i].role]_vars

\* The administrator of the seeder logs in with the password of the seeder.
SeededAdminLogsIn ==
  \A l \in Logins :
    pc[l] = "invalid" /\ found[l].status = "live" /\ found[l].id \in Seeders
      => arg[l][2] # found[l].password.plain
================================================================================
