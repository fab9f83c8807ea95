---------------------------- MODULE AuthFlowProofs ----------------------------
(***************************************************************************)
(* Theorems about the one-time-password service (Otp), for every number of *)
(* requests, every limit and every clock bound; about the status it gives  *)
(* of an OTP (OtpStatus); and about the flows of AuthService that use it:  *)
(* they run it as Otp specifies it and the user service as UserRow does,   *)
(* so the theorems of both hold of them; a password changes only with an   *)
(* OTP proved, and an OTP is about the user who has its address.           *)
(***************************************************************************)
EXTENDS AuthFlow, OtpStatus, FiniteSetTheorems, TLAPS

--------------------------------------------------------------------------------
(***************************************************************************)
(* What the operators on the table return.                                 *)
(***************************************************************************)

\* Put inserts or overwrites one element of a function and keeps the others.
LEMMA PutFacts ==
  ASSUME NEW f, NEW x, NEW y
  PROVE  /\ DOMAIN Put(f, x, y) = DOMAIN f \cup {x}
         /\ Put(f, x, y)[x] = y
         /\ \A z \in DOMAIN f : z # x => Put(f, x, y)[z] = f[z]
  BY DEF Put

\* Put keeps the type of the values.
LEMMA PutType ==
  ASSUME NEW f, NEW x, NEW S, NEW y \in S, \A z \in DOMAIN f : f[z] \in S
  PROVE  \A z \in DOMAIN Put(f, x, y) : Put(f, x, y)[z] \in S
  <1>1. ASSUME NEW z \in DOMAIN f \cup {x} PROVE Put(f, x, y)[z] \in S
    <2>1. CASE z = x
      BY <2>1 DEF Put
    <2>2. CASE z # x
      BY <2>2 DEF Put
    <2> QED BY <2>1, <2>2
  <1>2. DOMAIN Put(f, x, y) = DOMAIN f \cup {x}
    BY DEF Put
  <1> QED BY <1>1, <1>2

\* MarkUsed sets isUsed on the rows of S that exist and changes nothing else.
LEMMA MarkUsedFacts ==
  ASSUME NEW S, \A i \in Ids : otp[i] \in Row
  PROVE  /\ DOMAIN MarkUsed(S) = Ids
         /\ \A i \in Ids : /\ MarkUsed(S)[i] \in Row
                           /\ MarkUsed(S)[i].key = otp[i].key
                           /\ MarkUsed(S)[i].code = otp[i].code
                           /\ MarkUsed(S)[i].createdAt = otp[i].createdAt
                           /\ MarkUsed(S)[i].expiresAt = otp[i].expiresAt
                           /\ MarkUsed(S)[i].attempts = otp[i].attempts
                           /\ MarkUsed(S)[i].isUsed = (otp[i].isUsed \/ i \in S)
  <1>1. DOMAIN MarkUsed(S) = Ids
    BY DEF MarkUsed
  <1>2. ASSUME NEW i \in Ids
        PROVE  /\ MarkUsed(S)[i] \in Row
               /\ MarkUsed(S)[i].key = otp[i].key
               /\ MarkUsed(S)[i].code = otp[i].code
               /\ MarkUsed(S)[i].createdAt = otp[i].createdAt
               /\ MarkUsed(S)[i].expiresAt = otp[i].expiresAt
               /\ MarkUsed(S)[i].attempts = otp[i].attempts
               /\ MarkUsed(S)[i].isUsed = (otp[i].isUsed \/ i \in S)
    <2>1. otp[i] \in Row
      OBVIOUS
    <2>2. CASE i \in S
      BY <2>1, <2>2 DEF MarkUsed, Row
    <2>3. CASE i \notin S
      BY <2>1, <2>3 DEF MarkUsed, Row
    <2> QED BY <2>2, <2>3
  <1> QED BY <1>1, <1>2

\* SetAttempts writes the attempts of one row, if it exists.
LEMMA SetAttemptsFacts ==
  ASSUME NEW x, NEW n \in Nat, \A i \in Ids : otp[i] \in Row
  PROVE  /\ DOMAIN SetAttempts(x, n) = Ids
         /\ \A i \in Ids : /\ SetAttempts(x, n)[i] \in Row
                           /\ SetAttempts(x, n)[i].key = otp[i].key
                           /\ SetAttempts(x, n)[i].code = otp[i].code
                           /\ SetAttempts(x, n)[i].createdAt = otp[i].createdAt
                           /\ SetAttempts(x, n)[i].expiresAt = otp[i].expiresAt
                           /\ SetAttempts(x, n)[i].isUsed = otp[i].isUsed
                           /\ SetAttempts(x, n)[i].attempts = IF i = x THEN n ELSE otp[i].attempts
  <1>1. DOMAIN SetAttempts(x, n) = Ids
    BY DEF SetAttempts
  <1>2. ASSUME NEW i \in Ids
        PROVE  /\ SetAttempts(x, n)[i] \in Row
               /\ SetAttempts(x, n)[i].key = otp[i].key
               /\ SetAttempts(x, n)[i].code = otp[i].code
               /\ SetAttempts(x, n)[i].createdAt = otp[i].createdAt
               /\ SetAttempts(x, n)[i].expiresAt = otp[i].expiresAt
               /\ SetAttempts(x, n)[i].isUsed = otp[i].isUsed
               /\ SetAttempts(x, n)[i].attempts = IF i = x THEN n ELSE otp[i].attempts
    <2>1. otp[i] \in Row
      OBVIOUS
    <2>2. CASE i = x
      BY <2>1, <2>2 DEF SetAttempts, Row
    <2>3. CASE i # x
      BY <2>1, <2>3 DEF SetAttempts, Row
    <2> QED BY <2>2, <2>3
  <1> QED BY <1>1, <1>2

--------------------------------------------------------------------------------
(***************************************************************************)
(* Type correctness.                                                       *)
(***************************************************************************)
LEMMA TypeInit == Init => TypeOK
  BY OtpAssumption DEF Init, TypeOK, Ids, Requests, GenPC, VerPC, GenFinal, VerFinal

\* A change of one pc to a label of its own kind keeps the types of pc.
LEMMA GotoType ==
  ASSUME TypeOK, NEW r \in Requests, NEW l, Goto(r, l),
         r \in Generators => l \in GenPC,
         r \in Verifiers => l \in VerPC
  PROVE  /\ pc' \in [Requests -> GenPC \cup VerPC]
         /\ \A g \in Generators : pc'[g] \in GenPC
         /\ \A v \in Verifiers : pc'[v] \in VerPC
  BY OtpAssumption DEF TypeOK, Goto, Requests

\* A request arriving.
LEMMA ArriveType ==
  ASSUME TypeOK, NEW r \in Requests, NEW l, Arrive(r, l),
         r \in Generators => l \in GenPC,
         r \in Verifiers => l \in VerPC,
         at' \in [Generators -> Nat]
  PROVE  TypeOK'
  <1>1. Goto(r, l) /\ UNCHANGED <<now, otp, seen>>
    BY DEF Arrive
  <1>2. before' \in [Requests -> SUBSET Requests]
    BY DEF Arrive, Finished, TypeOK
  <1> QED BY <1>1, <1>2, GotoType DEF TypeOK, Ids

\* A step that moves one request and changes neither the table nor the reads.
LEMMA MoveType ==
  ASSUME TypeOK, NEW r \in Requests, NEW l, Goto(r, l),
         r \in Generators => l \in GenPC,
         r \in Verifiers => l \in VerPC,
         UNCHANGED <<now, otp, at, seen, before>>
  PROVE  TypeOK'
  BY GotoType DEF TypeOK, Ids

\* The verdict is one of the four writes.
LEMMA VerdictType ==
  ASSUME NEW s \in Snapshot, NEW c, NEW t \in Nat
  PROVE  /\ Verdict(s, c, t) \in {"expire", "exhaust", "miss", "consume"}
         /\ Verdict(s, c, t) = "miss" => s.attempts < MaxAttempts /\ s.code # c
         /\ Verdict(s, c, t) = "consume" => s.attempts < MaxAttempts /\ s.code = c
  BY OtpAssumption DEF Verdict, Snapshot

\* Every step keeps the types.
LEMMA TypeNext == TypeOK /\ HasRow /\ [Next]_vars => TypeOK'
  <1> SUFFICES ASSUME TypeOK, HasRow, [Next]_vars PROVE TypeOK'
    OBVIOUS
  <1> USE OtpAssumption
  <1> USE DEF GenPC, VerPC, GenFinal, VerFinal, Requests
  <1>1. ASSUME NEW g \in Generators, GenerateCall(g) PROVE TypeOK'
    <2>1. at' \in [Generators -> Nat]
      BY <1>1 DEF GenerateCall, TypeOK
    <2> QED BY <1>1, <2>1, ArriveType DEF GenerateCall
  <1>2. ASSUME NEW g \in Generators, GenerateRefuse(g) PROVE TypeOK'
    BY <1>2, MoveType DEF GenerateRefuse
  <1>3. ASSUME NEW g \in Generators, GenerateProceed(g) PROVE TypeOK'
    BY <1>3, MoveType DEF GenerateProceed
  <1>4. ASSUME NEW g \in Generators, GenerateInvalidate(g) PROVE TypeOK'
    <2>1. at' \in [Generators -> Nat]
      BY <1>4 DEF GenerateInvalidate, TypeOK
    <2>2. /\ pc' \in [Requests -> GenPC \cup VerPC]
          /\ \A h \in Generators : pc'[h] \in GenPC
          /\ \A v \in Verifiers : pc'[v] \in VerPC
      BY <1>4, GotoType DEF GenerateInvalidate
    <2> QED BY <1>4, <2>1, <2>2, MarkUsedFacts DEF GenerateInvalidate, TypeOK, Ids
  <1>5. ASSUME NEW g \in Generators, GenerateInsert(g) PROVE TypeOK'
    <2>1. /\ pc' \in [Requests -> GenPC \cup VerPC]
          /\ \A h \in Generators : pc'[h] \in GenPC
          /\ \A v \in Verifiers : pc'[v] \in VerPC
      BY <1>5, GotoType DEF GenerateInsert
    <2>2. PICK sent \in Row : otp' = Put(otp, g, sent)
      <3>1. PICK c \in Codes, t \in at[g]..now :
              otp' = Put(otp, g, [key |-> KeyOf[g], code |-> c, createdAt |-> now,
                                  expiresAt |-> t + Expiry, isUsed |-> FALSE, attempts |-> 0])
        BY <1>5 DEF GenerateInsert
      <3>2. [key |-> KeyOf[g], code |-> c, createdAt |-> now,
             expiresAt |-> t + Expiry, isUsed |-> FALSE, attempts |-> 0] \in Row
        BY DEF Row, TypeOK
      <3> QED BY <3>1, <3>2
    <2>3. Ids' = Ids \cup {g}
      BY <2>2, PutFacts DEF Ids
    <2>4. \A i \in Ids' : otp'[i] \in Row
      BY <2>2, PutType DEF Ids, TypeOK
    <2> QED BY <1>5, <2>1, <2>3, <2>4 DEF GenerateInsert, TypeOK
  <1>6. ASSUME NEW v \in Verifiers, VerifyCall(v) PROVE TypeOK'
    <2>1. at' \in [Generators -> Nat]
      BY <1>6 DEF VerifyCall, TypeOK
    <2> QED BY <1>6, <2>1, ArriveType DEF VerifyCall
  <1>7. ASSUME NEW v \in Verifiers, VerifyNotFound(v) PROVE TypeOK'
    BY <1>7, MoveType DEF VerifyNotFound
  <1>8. ASSUME NEW v \in Verifiers, VerifyRead(v) PROVE TypeOK'
    <2>1. /\ pc' \in [Requests -> GenPC \cup VerPC]
          /\ \A h \in Generators : pc'[h] \in GenPC
          /\ \A w \in Verifiers : pc'[w] \in VerPC
      BY <1>8, GotoType DEF VerifyRead
    <2>2. PICK snap \in Snapshot : seen' = Put(seen, v, snap)
      <3>1. PICK i \in Latest(KeyOf[v]) :
              seen' = Put(seen, v, [id |-> i, code |-> otp[i].code,
                                    expiresAt |-> otp[i].expiresAt, attempts |-> otp[i].attempts])
        BY <1>8 DEF VerifyRead
      <3>2. i \in Generators /\ otp[i] \in Row
        BY DEF Latest, Unused, TypeOK
      <3>3. [id |-> i, code |-> otp[i].code,
             expiresAt |-> otp[i].expiresAt, attempts |-> otp[i].attempts] \in Snapshot
        BY <3>2 DEF Row, Snapshot
      <3> QED BY <3>1, <3>3
    <2>3. DOMAIN seen' = DOMAIN seen \cup {v}
      BY <2>2, PutFacts
    <2>4. \A w \in DOMAIN seen' : seen'[w] \in Snapshot
      BY <2>2, PutType DEF TypeOK
    <2> QED BY <1>8, <2>1, <2>3, <2>4 DEF VerifyRead, TypeOK, Ids
  <1>9. ASSUME NEW v \in Verifiers, VerifyJudge(v) PROVE TypeOK'
    <2>1. seen[v] \in Snapshot /\ now \in Nat
      BY <1>9 DEF VerifyJudge, HasRow, TypeOK
    <2>2. PICK c \in Codes : Goto(v, Verdict(seen[v], c, now))
      BY <1>9 DEF VerifyJudge
    <2>3. Verdict(seen[v], c, now) \in VerPC
      BY <2>1, VerdictType
    <2> QED BY <1>9, <2>2, <2>3, MoveType DEF VerifyJudge
  <1>10. ASSUME NEW v \in Verifiers, VerifyExpire(v) \/ VerifyExhaust(v) \/ VerifyConsume(v)
         PROVE TypeOK'
    <2>1. /\ pc' \in [Requests -> GenPC \cup VerPC]
          /\ \A h \in Generators : pc'[h] \in GenPC
          /\ \A w \in Verifiers : pc'[w] \in VerPC
      BY <1>10, GotoType DEF VerifyExpire, VerifyExhaust, VerifyConsume
    <2> QED BY <1>10, <2>1, MarkUsedFacts
            DEF VerifyExpire, VerifyExhaust, VerifyConsume, TypeOK, Ids
  <1>11. ASSUME NEW v \in Verifiers, VerifyMiss(v) PROVE TypeOK'
    <2>1. /\ pc' \in [Requests -> GenPC \cup VerPC]
          /\ \A h \in Generators : pc'[h] \in GenPC
          /\ \A w \in Verifiers : pc'[w] \in VerPC
      BY <1>11, GotoType DEF VerifyMiss
    <2>2. seen[v].attempts + 1 \in Nat
      BY <1>11 DEF VerifyMiss, HasRow, TypeOK, Snapshot
    <2> QED BY <1>11, <2>1, <2>2, SetAttemptsFacts DEF VerifyMiss, TypeOK, Ids
  <1>12. CASE Cleanup
    BY <1>12 DEF Cleanup, TypeOK, Ids
  <1>13. CASE Tick
    BY <1>13 DEF Tick, TypeOK, Ids
  <1>14. CASE UNCHANGED vars
    BY <1>14 DEF vars, TypeOK, Ids
  <1> QED BY <1>1, <1>2, <1>3, <1>4, <1>5, <1>6, <1>7, <1>8, <1>9, <1>10, <1>11, <1>12, <1>13, <1>14
          DEF Next, GenStep, VerStep, Quiet

--------------------------------------------------------------------------------
(***************************************************************************)
(* The inductive invariant.  One lemma for each kind of step.              *)
(***************************************************************************)
LEMMA InvInit == Init => OtpInvariant
  <1> SUFFICES ASSUME Init PROVE OtpInvariant
    OBVIOUS
  <1>1. TypeOK
    BY TypeInit
  <1>2. Ids = {} /\ DOMAIN seen = {} /\ \A r \in Requests : pc[r] = "idle" /\ before[r] = {}
    BY DEF Init, Ids
  <1>3. HasRow /\ Past
    BY <1>2 DEF HasRow, Past, Requests
  <1>4. Stored /\ Held /\ BelowLimit /\ AcceptedSpent /\ NoReread /\ NoSuperseded
    BY <1>2 DEF Stored, Held, BelowLimit, AttemptsBounded, AcceptedSpent, NoReread, NoSuperseded
  <1>5. NewerRetires
    BY <1>2 DEF NewerRetires, Requests
  <1> QED BY <1>1, <1>3, <1>4, <1>5 DEF OtpInvariant

\* A request arrives: only its own history and label change.
LEMMA InvArrive ==
  ASSUME OtpInvariant, TypeOK', NEW r \in Requests, NEW l, Arrive(r, l),
         (r \in Generators /\ l = "check") \/ (r \in Verifiers /\ l = "read")
  PROVE  OtpInvariant'
  <1> USE OtpAssumption DEF Requests
  <1>1. /\ pc[r] = "idle" /\ pc'[r] = l /\ l \in {"check", "read"}
        /\ \A s \in Requests \ {r} : pc'[s] = pc[s] /\ before'[s] = before[s]
        /\ before'[r] = Finished
        /\ UNCHANGED <<otp, seen>>
    BY DEF Arrive, Goto, OtpInvariant, TypeOK
  <1>2. r \notin DOMAIN seen /\ DOMAIN seen \subseteq Verifiers
    BY <1>1 DEF OtpInvariant, HasRow, TypeOK
  <1>3. Finished \subseteq Finished'
    BY <1>1 DEF Finished, GenFinal, VerFinal
  <1>4. HasRow'
    BY <1>1 DEF OtpInvariant, HasRow, TypeOK
  <1>5. Stored' /\ Held' /\ BelowLimit'
    BY <1>1, <1>2 DEF OtpInvariant, Stored, Held, BelowLimit, AttemptsBounded, Ids, TypeOK, Snapshot
  <1>6. Past'
    BY <1>1, <1>3 DEF OtpInvariant, Past
  <1>7. AcceptedSpent' /\ NoReread'
    BY <1>1, <1>2 DEF OtpInvariant, AcceptedSpent, NoReread, Spent, Ids
  <1>8. NewerRetires'
    BY <1>1 DEF OtpInvariant, NewerRetires, Spent, Ids
  <1>9. NoSuperseded'
    BY <1>1, <1>2 DEF OtpInvariant, NoSuperseded
  <1> QED BY <1>4, <1>5, <1>6, <1>7, <1>8, <1>9 DEF OtpInvariant

\* A step of one request that changes only its label, or the labels of nobody,
\* and leaves the table, the reads and the history alone.
LEMMA InvMove ==
  ASSUME OtpInvariant, TypeOK', NEW r \in Requests, NEW l, Goto(r, l),
         UNCHANGED <<otp, seen, before>>,
         \/ r \in Generators /\ pc[r] = "check" /\ l \in {"refused", "invalidate"}
         \/ r \in Verifiers /\ pc[r] = "read" /\ l = "notFound"
         \/ /\ r \in Verifiers /\ pc[r] = "judge" /\ l \in {"expire", "exhaust", "miss", "consume"}
            /\ l = "miss" => seen[r].attempts < MaxAttempts
  PROVE  OtpInvariant'
  <1> USE OtpAssumption DEF Requests
  <1>1. /\ pc'[r] = l
        /\ \A s \in Requests \ {r} : pc'[s] = pc[s]
        /\ pc[r] \notin GenFinal \cup VerFinal
    BY DEF Goto, OtpInvariant, TypeOK, GenFinal, VerFinal
  <1>2. Finished \subseteq Finished'
    BY <1>1 DEF Finished
  <1>3. HasRow'
    BY <1>1 DEF OtpInvariant, HasRow, TypeOK
  <1>4. Stored' /\ Held' /\ BelowLimit'
    BY <1>1 DEF OtpInvariant, Stored, Held, BelowLimit, AttemptsBounded, Ids, TypeOK, Snapshot
  <1>5. Past'
    BY <1>2 DEF OtpInvariant, Past
  <1>6. AcceptedSpent' /\ NoReread'
    BY <1>1 DEF OtpInvariant, AcceptedSpent, NoReread, Spent, Ids, TypeOK
  <1>7. NewerRetires'
    BY <1>1 DEF OtpInvariant, NewerRetires, Spent, Ids
  <1>8. NoSuperseded'
    BY <1>1 DEF OtpInvariant, NoSuperseded
  <1> QED BY <1>3, <1>4, <1>5, <1>6, <1>7, <1>8 DEF OtpInvariant

\* The UPDATE of a generation retires every row of its key.
LEMMA InvInvalidate ==
  ASSUME OtpInvariant, TypeOK', NEW g \in Generators, GenerateInvalidate(g)
  PROVE  OtpInvariant'
  <1> USE OtpAssumption DEF Requests
  <1>1. /\ pc[g] = "invalidate" /\ pc'[g] = "insert"
        /\ \A s \in Requests \ {g} : pc'[s] = pc[s]
        /\ UNCHANGED <<seen, before>>
    BY DEF GenerateInvalidate, Goto, OtpInvariant, TypeOK
  <1>2. /\ Ids' = Ids
        /\ \A i \in Ids : /\ otp'[i].key = otp[i].key
                          /\ otp'[i].attempts = otp[i].attempts
                          /\ otp[i].isUsed => otp'[i].isUsed
                          /\ otp[i].key = KeyOf[g] => otp'[i].isUsed
    <2>1. \A i \in Ids : otp[i] \in Row
      BY DEF OtpInvariant, TypeOK
    <2>2. otp' = MarkUsed(Unused(KeyOf[g]))
      BY DEF GenerateInvalidate
    <2>3. Ids' = Ids
      BY <2>1, <2>2, MarkUsedFacts DEF Ids
    <2>4. ASSUME NEW i \in Ids
          PROVE  /\ otp'[i].key = otp[i].key /\ otp'[i].attempts = otp[i].attempts
                 /\ otp'[i].isUsed = (otp[i].isUsed \/ i \in Unused(KeyOf[g]))
      BY <2>1, <2>2, MarkUsedFacts
    <2>5. ASSUME NEW i \in Ids, otp[i].key = KeyOf[g]
          PROVE  otp'[i].isUsed
      <3>1. otp[i].isUsed \/ i \in Unused(KeyOf[g])
        BY <2>5 DEF Unused
      <3> QED BY <3>1, <2>4
    <2> QED BY <2>3, <2>4, <2>5
  <1>3. \A i : Spent(i) => Spent(i)'
    BY <1>2 DEF Spent
  <1>4. Finished \subseteq Finished'
    BY <1>1 DEF Finished, GenFinal, VerFinal
  <1>5. HasRow'
    BY <1>1 DEF OtpInvariant, HasRow, TypeOK
  <1>6. Stored' /\ Held' /\ BelowLimit'
    BY <1>1, <1>2 DEF OtpInvariant, Stored, Held, BelowLimit, AttemptsBounded, TypeOK, Snapshot
  <1>7. Past'
    BY <1>1, <1>4 DEF OtpInvariant, Past
  <1>8. AcceptedSpent' /\ NoReread'
    BY <1>1, <1>3 DEF OtpInvariant, AcceptedSpent, NoReread, TypeOK
  <1>9. NewerRetires'
    <2> SUFFICES ASSUME NEW a \in Generators, NEW b \in Generators,
                        KeyOf[a] = KeyOf[b], a \in before'[b], pc'[b] \in {"insert", "sent"}
                 PROVE  Spent(a)'
      BY DEF NewerRetires
    <2>1. CASE b = g
      BY <2>1, <1>2 DEF Spent, OtpInvariant, Stored
    <2>2. CASE b # g
      BY <2>2, <1>1, <1>3 DEF OtpInvariant, NewerRetires
    <2> QED BY <2>1, <2>2
  <1>10. NoSuperseded'
    BY <1>1 DEF OtpInvariant, NoSuperseded
  <1> QED BY <1>5, <1>6, <1>7, <1>8, <1>9, <1>10 DEF OtpInvariant

\* The INSERT of a generation: its row is new, so nobody has read or named it.
LEMMA InvInsert ==
  ASSUME OtpInvariant, TypeOK', NEW g \in Generators, GenerateInsert(g)
  PROVE  OtpInvariant'
  <1> USE OtpAssumption DEF Requests
  <1>1. /\ pc[g] = "insert" /\ pc'[g] = "sent"
        /\ \A s \in Requests \ {g} : pc'[s] = pc[s]
        /\ UNCHANGED <<seen, before>>
    BY DEF GenerateInsert, Goto, OtpInvariant, TypeOK
  <1>2. /\ Ids' = Ids \cup {g}
        /\ g \notin Ids
        /\ \A i \in Ids : otp'[i] = otp[i]
        /\ otp'[g].key = KeyOf[g] /\ otp'[g].attempts = 0
    <2>1. PICK sent : /\ otp' = Put(otp, g, sent)
                      /\ sent.key = KeyOf[g] /\ sent.attempts = 0
      BY DEF GenerateInsert
    <2>2. g \notin Ids
      BY <1>1 DEF OtpInvariant, Stored
    <2>3. Ids' = Ids \cup {g}
      BY <2>1 DEF Ids, Put
    <2>4. otp'[g] = sent
      BY <2>1 DEF Put
    <2>5. \A i \in Ids : otp'[i] = otp[i]
      BY <2>1, <2>2 DEF Ids, Put
    <2> QED BY <2>1, <2>2, <2>3, <2>4, <2>5
  <1>3. \A i : i # g /\ Spent(i) => Spent(i)'
    BY <1>2 DEF Spent
  <1>4. Finished \subseteq Finished' /\ g \notin Finished
    BY <1>1 DEF Finished, GenFinal, VerFinal
  <1>5. \A r \in Requests : g \notin before[r]
    BY <1>4 DEF OtpInvariant, Past
  <1>6. HasRow'
    BY <1>1 DEF OtpInvariant, HasRow, TypeOK
  <1>7. Stored' /\ Held' /\ BelowLimit'
    BY <1>1, <1>2 DEF OtpInvariant, Stored, Held, BelowLimit, AttemptsBounded, TypeOK, Snapshot
  <1>8. Past'
    BY <1>1, <1>4 DEF OtpInvariant, Past
  <1>9. AcceptedSpent' /\ NoReread'
    <2>1. \A v \in DOMAIN seen : seen[v].id # g
      BY <1>1 DEF OtpInvariant, Held
    <2> QED BY <1>1, <1>3, <2>1 DEF OtpInvariant, AcceptedSpent, NoReread, TypeOK
  <1>10. NewerRetires'
    BY <1>1, <1>3, <1>5 DEF OtpInvariant, NewerRetires
  <1>11. NoSuperseded'
    BY <1>1, <1>5 DEF OtpInvariant, NoSuperseded, TypeOK
  <1> QED BY <1>6, <1>7, <1>8, <1>9, <1>10, <1>11 DEF OtpInvariant

\* The findOne of a verification returns a row that is not used.
LEMMA InvRead ==
  ASSUME OtpInvariant, TypeOK', NEW v \in Verifiers, VerifyRead(v)
  PROVE  OtpInvariant'
  <1> USE OtpAssumption DEF Requests
  <1>1. /\ pc[v] = "read" /\ pc'[v] = "judge"
        /\ \A s \in Requests \ {v} : pc'[s] = pc[s]
        /\ UNCHANGED <<otp, before>>
    BY DEF VerifyRead, Goto, OtpInvariant, TypeOK
  <1>2. PICK i \in Latest(KeyOf[v]) :
          seen' = Put(seen, v, [id |-> i, code |-> otp[i].code,
                                expiresAt |-> otp[i].expiresAt, attempts |-> otp[i].attempts])
    BY DEF VerifyRead
  <1>3. /\ DOMAIN seen' = DOMAIN seen \cup {v}
        /\ v \notin DOMAIN seen
        /\ seen'[v].id = i
        /\ \A w \in DOMAIN seen : seen'[w] = seen[w]
    <2>1. v \notin DOMAIN seen
      BY <1>1 DEF OtpInvariant, HasRow
    <2>2. DOMAIN seen' = DOMAIN seen \cup {v}
      BY <1>2 DEF Put
    <2>3. seen'[v].id = i
      BY <1>2 DEF Put
    <2>4. \A w \in DOMAIN seen : seen'[w] = seen[w]
      BY <1>2, <2>1 DEF Put
    <2> QED BY <2>1, <2>2, <2>3, <2>4
  <1>4. i \in Ids /\ ~Spent(i) /\ pc[i] = "sent" /\ KeyOf[i] = KeyOf[v] /\ i \in Generators
    BY DEF Latest, Unused, Spent, OtpInvariant, Stored, TypeOK
  <1>5. Finished \subseteq Finished' /\ \A x : Spent(x)' = Spent(x)
    BY <1>1 DEF Finished, GenFinal, VerFinal, Spent, Ids
  <1>6. HasRow'
    BY <1>1, <1>3 DEF OtpInvariant, HasRow, TypeOK
  <1>7. Stored' /\ Held'
    BY <1>1, <1>3, <1>4 DEF OtpInvariant, Stored, Held, Ids, TypeOK, Snapshot
  <1>8. BelowLimit'
    BY <1>1, <1>3 DEF OtpInvariant, BelowLimit, AttemptsBounded, Ids, TypeOK
  <1>9. Past'
    BY <1>1, <1>5 DEF OtpInvariant, Past
  <1>10. AcceptedSpent'
    BY <1>1, <1>3, <1>5 DEF OtpInvariant, AcceptedSpent, TypeOK
  <1>11. NoReread'
    <2> SUFFICES ASSUME NEW a \in DOMAIN seen', NEW b \in DOMAIN seen',
                        pc'[a] = "accepted", seen'[a].id = seen'[b].id
                 PROVE  a \notin before'[b]
      BY DEF NoReread
    <2>1. a \in DOMAIN seen /\ a # v /\ pc[a] = "accepted"
      BY <1>1, <1>3 DEF OtpInvariant, TypeOK
    <2>2. Spent(seen[a].id)
      BY <2>1 DEF OtpInvariant, AcceptedSpent
    <2>3. b # v
      BY <2>1, <2>2, <1>3, <1>4
    <2> QED BY <2>1, <2>3, <1>1, <1>3 DEF OtpInvariant, NoReread
  <1>12. NewerRetires'
    BY <1>1, <1>5 DEF OtpInvariant, NewerRetires
  <1>13. NoSuperseded'
    <2> SUFFICES ASSUME NEW a \in DOMAIN seen', NEW h \in Generators,
                        KeyOf[h] = KeyOf[a], seen'[a].id \in before'[h], pc'[h] = "sent"
                 PROVE  h \notin before'[a]
      BY DEF NoSuperseded
    <2>1. CASE a = v
      BY <2>1, <1>1, <1>3, <1>4 DEF OtpInvariant, NewerRetires
    <2>2. CASE a # v
      BY <2>2, <1>1, <1>3 DEF OtpInvariant, NoSuperseded
    <2> QED BY <2>1, <2>2
  <1> QED BY <1>6, <1>7, <1>8, <1>9, <1>10, <1>11, <1>12, <1>13 DEF OtpInvariant

\* A verification marks its row used: expired, exhausted or accepted.
LEMMA InvMark ==
  ASSUME OtpInvariant, TypeOK', NEW v \in Verifiers, NEW l, Goto(v, l),
         pc[v] \in {"expire", "exhaust", "consume"},
         l \in {"expired", "exhausted", "accepted"},
         otp' = MarkUsed({seen[v].id}), UNCHANGED <<seen, before>>
  PROVE  OtpInvariant'
  <1> USE OtpAssumption DEF Requests
  <1>1. /\ pc'[v] = l /\ pc'[v] \in VerFinal /\ pc'[v] # "miss"
        /\ \A s \in Requests \ {v} : pc'[s] = pc[s]
        /\ \A g \in Generators : pc'[g] = pc[g]
        /\ v \in DOMAIN seen
    BY DEF Goto, OtpInvariant, TypeOK, HasRow, VerFinal
  <1>2. /\ Ids' = Ids
        /\ \A i \in Ids : /\ otp'[i].key = otp[i].key
                          /\ otp'[i].attempts = otp[i].attempts
                          /\ otp[i].isUsed \/ i = seen[v].id => otp'[i].isUsed
    <2>1. \A i \in Ids : otp[i] \in Row
      BY DEF OtpInvariant, TypeOK
    <2>2. Ids' = Ids
      BY <2>1, MarkUsedFacts DEF Ids
    <2>3. ASSUME NEW i \in Ids
          PROVE  /\ otp'[i].key = otp[i].key /\ otp'[i].attempts = otp[i].attempts
                 /\ otp'[i].isUsed = (otp[i].isUsed \/ i \in {seen[v].id})
      BY <2>1, MarkUsedFacts
    <2> QED BY <2>2, <2>3
  <1>3. /\ \A i : Spent(i) => Spent(i)'
        /\ Spent(seen[v].id)'
    BY <1>2 DEF Spent
  <1>4. Finished \subseteq Finished' /\ v \notin Finished
    BY <1>1 DEF Finished, GenFinal, VerFinal
  <1>5. \A r \in Requests : v \notin before[r]
    BY <1>4 DEF OtpInvariant, Past
  <1>6. HasRow'
    BY <1>1 DEF OtpInvariant, HasRow, TypeOK
  <1>7. Stored' /\ Held'
    <2>1. Stored'
      BY <1>1, <1>2 DEF OtpInvariant, Stored, TypeOK
    <2>2. Held'
      BY <1>1 DEF OtpInvariant, Held, TypeOK, Snapshot
    <2> QED BY <2>1, <2>2
  <1>13. BelowLimit'
    <2>1. AttemptsBounded'
      BY <1>2 DEF OtpInvariant, BelowLimit, AttemptsBounded
    <2>2. \A w \in DOMAIN seen : pc'[w] = "miss" => seen[w].attempts < MaxAttempts
      BY <1>1 DEF OtpInvariant, BelowLimit, TypeOK
    <2> QED BY <1>1, <2>1, <2>2 DEF BelowLimit
  <1>8. Past'
    BY <1>1, <1>4 DEF OtpInvariant, Past
  <1>9. AcceptedSpent'
    BY <1>1, <1>3 DEF OtpInvariant, AcceptedSpent, TypeOK
  <1>10. NoReread'
    BY <1>1, <1>5 DEF OtpInvariant, NoReread, TypeOK
  <1>11. NewerRetires'
    BY <1>1, <1>3 DEF OtpInvariant, NewerRetires
  <1>12. NoSuperseded'
    BY <1>1 DEF OtpInvariant, NoSuperseded
  <1> QED BY <1>6, <1>7, <1>8, <1>9, <1>10, <1>11, <1>12, <1>13 DEF OtpInvariant

\* A wrong guess is counted from a row that was below the limit.
LEMMA InvMiss ==
  ASSUME OtpInvariant, TypeOK', NEW v \in Verifiers, VerifyMiss(v)
  PROVE  OtpInvariant'
  <1> USE OtpAssumption DEF Requests
  <1>1. /\ pc[v] = "miss" /\ pc'[v] = "mismatch"
        /\ \A s \in Requests \ {v} : pc'[s] = pc[s]
        /\ v \in DOMAIN seen
        /\ UNCHANGED <<seen, before>>
    BY DEF VerifyMiss, Goto, OtpInvariant, TypeOK, HasRow
  <1>2. /\ seen[v].attempts \in Nat
        /\ seen[v].attempts + 1 \in Nat
        /\ seen[v].attempts + 1 <= MaxAttempts
    BY <1>1 DEF OtpInvariant, BelowLimit, TypeOK, Snapshot
  <1>3. /\ Ids' = Ids
        /\ \A i \in Ids : /\ otp'[i].key = otp[i].key
                          /\ otp'[i].isUsed = otp[i].isUsed
                          /\ otp'[i].attempts <= MaxAttempts
    BY <1>2, SetAttemptsFacts DEF VerifyMiss, Ids, OtpInvariant, TypeOK, BelowLimit, AttemptsBounded
  <1>4. \A i : Spent(i) => Spent(i)'
    BY <1>3 DEF Spent
  <1>5. Finished \subseteq Finished'
    BY <1>1 DEF Finished, GenFinal, VerFinal
  <1>6. HasRow'
    BY <1>1 DEF OtpInvariant, HasRow, TypeOK
  <1>7. Stored' /\ Held' /\ BelowLimit'
    BY <1>1, <1>3 DEF OtpInvariant, Stored, Held, BelowLimit, AttemptsBounded, TypeOK, Snapshot
  <1>8. Past'
    BY <1>1, <1>5 DEF OtpInvariant, Past
  <1>9. AcceptedSpent' /\ NoReread'
    BY <1>1, <1>4 DEF OtpInvariant, AcceptedSpent, NoReread, TypeOK
  <1>10. NewerRetires'
    BY <1>1, <1>4 DEF OtpInvariant, NewerRetires
  <1>11. NoSuperseded'
    BY <1>1 DEF OtpInvariant, NoSuperseded
  <1> QED BY <1>6, <1>7, <1>8, <1>9, <1>10, <1>11 DEF OtpInvariant

\* Rows may disappear, time may pass, nothing may happen.
LEMMA InvIdle ==
  ASSUME OtpInvariant, TypeOK', UNCHANGED <<pc, seen, before>>,
         Ids' \subseteq Ids, \A i \in Ids' : otp'[i] = otp[i]
  PROVE  OtpInvariant'
  <1>1. \A i : Spent(i) => Spent(i)'
    BY DEF Spent
  <1>2. Finished' = Finished
    BY DEF Finished
  <1>3. HasRow' /\ Stored' /\ Held' /\ BelowLimit' /\ Past'
    BY <1>2 DEF OtpInvariant, HasRow, Stored, Held, BelowLimit, AttemptsBounded, Past
  <1>4. AcceptedSpent' /\ NoReread' /\ NewerRetires' /\ NoSuperseded'
    BY <1>1 DEF OtpInvariant, AcceptedSpent, NoReread, NewerRetires, NoSuperseded
  <1> QED BY <1>3, <1>4 DEF OtpInvariant

\* Every step keeps the invariant: one case per action.
LEMMA InvNext == OtpInvariant /\ [Next]_vars => OtpInvariant'
  <1> SUFFICES ASSUME OtpInvariant, [Next]_vars PROVE OtpInvariant'
    OBVIOUS
  <1> USE DEF Requests
  <1>0. TypeOK'
    BY TypeNext DEF OtpInvariant
  <1>1. ASSUME NEW g \in Generators, GenerateCall(g) \/ GenStep(g) PROVE OtpInvariant'
    <2>1. CASE GenerateCall(g)
      BY <2>1, <1>0, InvArrive DEF GenerateCall
    <2>2. CASE GenerateRefuse(g)
      BY <2>2, <1>0, InvMove DEF GenerateRefuse
    <2>3. CASE GenerateProceed(g)
      BY <2>3, <1>0, InvMove DEF GenerateProceed
    <2>4. CASE GenerateInvalidate(g)
      BY <2>4, <1>0, InvInvalidate
    <2>5. CASE GenerateInsert(g)
      BY <2>5, <1>0, InvInsert
    <2> QED BY <1>1, <2>1, <2>2, <2>3, <2>4, <2>5 DEF GenStep
  <1>2. ASSUME NEW v \in Verifiers, VerifyCall(v) \/ VerStep(v) PROVE OtpInvariant'
    <2>1. CASE VerifyCall(v)
      BY <2>1, <1>0, InvArrive DEF VerifyCall
    <2>2. CASE VerifyNotFound(v)
      BY <2>2, <1>0, InvMove DEF VerifyNotFound
    <2>3. CASE VerifyRead(v)
      BY <2>3, <1>0, InvRead
    <2>4. CASE VerifyJudge(v)
      <3>1. seen[v] \in Snapshot /\ now \in Nat
        BY <2>4 DEF VerifyJudge, OtpInvariant, HasRow, TypeOK
      <3>2. PICK c \in Codes : Goto(v, Verdict(seen[v], c, now))
        BY <2>4 DEF VerifyJudge
      <3> QED BY <2>4, <3>1, <3>2, <1>0, VerdictType, InvMove DEF VerifyJudge
    <2>5. CASE VerifyExpire(v)
      BY <2>5, <1>0, InvMark DEF VerifyExpire
    <2>6. CASE VerifyExhaust(v)
      BY <2>6, <1>0, InvMark DEF VerifyExhaust
    <2>7. CASE VerifyMiss(v)
      BY <2>7, <1>0, InvMiss
    <2>8. CASE VerifyConsume(v)
      BY <2>8, <1>0, InvMark DEF VerifyConsume
    <2> QED BY <1>2, <2>1, <2>2, <2>3, <2>4, <2>5, <2>6, <2>7, <2>8 DEF VerStep
  <1>3. CASE Cleanup
    BY <1>3, <1>0, InvIdle DEF Cleanup, Ids
  <1>4. CASE Tick
    BY <1>4, <1>0, InvIdle DEF Tick, Ids
  <1>5. CASE UNCHANGED vars
    BY <1>5, <1>0, InvIdle DEF vars, Ids
  <1> QED BY <1>1, <1>2, <1>3, <1>4, <1>5 DEF Next, Quiet

--------------------------------------------------------------------------------
\* The inductive invariant holds of every execution of the service, for any
\* number of concurrent generateOtp and verifyOtp calls.
THEOREM OtpInvariantHolds == Spec => []OtpInvariant
  BY InvInit, InvNext, PTL DEF Spec

\* Type correctness of the table and of every request in flight.
THEOREM OtpTypeCorrect == Spec => []TypeOK
  <1>1. OtpInvariant => TypeOK
    BY DEF OtpInvariant
  <1> QED BY OtpInvariantHolds, <1>1, PTL

\* The attempts column never passes MAX_OTP_ATTEMPTS, although it is written
\* from a stale read (otp.service.ts:121, 130).
THEOREM AttemptsStayBounded == Spec => []AttemptsBounded
  <1>1. OtpInvariant => AttemptsBounded
    BY DEF OtpInvariant, BelowLimit
  <1> QED BY OtpInvariantHolds, <1>1, PTL

\* Once an OTP has been accepted and answered, no verification that arrives
\* later is accepted with it, however requests overlap (otp.service.ts:98-138).
THEOREM AnsweredOtpIsNotReused == Spec => []NoReuseAfterAnswer
  <1>1. OtpInvariant => NoReuseAfterAnswer
    BY DEF OtpInvariant, NoReread, NoReuseAfterAnswer, Accepted
  <1> QED BY OtpInvariantHolds, <1>1, PTL

\* A verification that arrives after a newer OTP was sent does not accept the
\* older one (otp.service.ts:65-66, 98-106).
THEOREM SupersededOtpIsRejected == Spec => []SupersededRejected
  <1>1. OtpInvariant => SupersededRejected
    BY DEF OtpInvariant, NoSuperseded, Held, SupersededRejected, Accepted
  <1> QED BY OtpInvariantHolds, <1>1, PTL

--------------------------------------------------------------------------------
(***************************************************************************)
(* What every step leaves alone.                                           *)
(***************************************************************************)

\* A step moves at most one request; only an arrival writes the history, and
\* an answered request has no step.
LEMMA OneMoves ==
  ASSUME OtpInvariant, [Next]_vars
  PROVE  \/ UNCHANGED <<pc, seen, before>>
         \/ \E r \in Requests, l \in {"check", "read"} : Arrive(r, l)
         \/ \E r \in Requests : \E l :
              Goto(r, l) /\ pc[r] \notin {"idle"} \cup GenFinal \cup VerFinal
              /\ l # "idle" /\ UNCHANGED before
  <1> USE DEF Requests
  <1>1. ASSUME NEW g \in Generators, GenerateCall(g) \/ GenStep(g)
        PROVE  \/ Arrive(g, "check")
               \/ \E l : Goto(g, l) /\ pc[g] \notin {"idle"} \cup GenFinal \cup VerFinal
                         /\ l # "idle" /\ UNCHANGED before
    BY <1>1 DEF GenerateCall, GenStep, GenerateRefuse, GenerateProceed, GenerateInvalidate,
                GenerateInsert, GenFinal, VerFinal
  <1>2. ASSUME NEW v \in Verifiers, VerifyCall(v) \/ VerStep(v)
        PROVE  \/ Arrive(v, "read")
               \/ \E l : Goto(v, l) /\ pc[v] \notin {"idle"} \cup GenFinal \cup VerFinal
                         /\ l # "idle" /\ UNCHANGED before
    <2>1. CASE VerifyJudge(v)
      <3>1. PICK c \in Codes : Goto(v, Verdict(seen[v], c, now))
        BY <2>1 DEF VerifyJudge
      <3>2. Verdict(seen[v], c, now) # "idle"
      <4>1. seen[v] \in Snapshot /\ now \in Nat
        BY <2>1 DEF VerifyJudge, OtpInvariant, HasRow, TypeOK
      <4> QED BY <4>1, VerdictType
      <3> QED BY <2>1, <3>1, <3>2 DEF VerifyJudge, GenFinal, VerFinal
    <2>2. CASE VerifyCall(v)
      BY <2>2 DEF VerifyCall
    <2> QED BY <1>2, <2>1, <2>2 DEF VerStep, VerifyNotFound, VerifyRead, VerifyExpire,
                VerifyExhaust, VerifyMiss, VerifyConsume, GenFinal, VerFinal
  <1>3. CASE Cleanup \/ Tick \/ UNCHANGED vars
    BY <1>3 DEF Cleanup, Tick, vars
  <1> QED BY <1>1, <1>2, <1>3 DEF Next, Quiet

\* Whoever has arrived keeps its history and whoever is answered its answer.
LEMMA HistoryStep ==
  ASSUME OtpInvariant, [Next]_vars, NEW r \in Requests
  PROVE  /\ pc[r] # "idle" => pc'[r] # "idle" /\ before'[r] = before[r]
         /\ pc[r] = "idle" /\ before'[r] # before[r] =>
              pc'[r] \in {"check", "read"} /\ before'[r] = Finished
         /\ pc[r] = "idle" => pc'[r] \in {"idle", "check", "read"}
         /\ r \in Finished => pc'[r] = pc[r]
  <1>0. TypeOK
    BY DEF OtpInvariant
  <1>1. CASE UNCHANGED <<pc, seen, before>>
    BY <1>1
  <1>2. ASSUME NEW q \in Requests, NEW l, Arrive(q, l), l \in {"check", "read"}
        PROVE  /\ pc[r] # "idle" => pc'[r] # "idle" /\ before'[r] = before[r]
               /\ pc[r] = "idle" /\ before'[r] # before[r] =>
                    pc'[r] \in {"check", "read"} /\ before'[r] = Finished
               /\ pc[r] = "idle" => pc'[r] \in {"idle", "check", "read"}
               /\ r \in Finished => pc'[r] = pc[r]
    BY <1>0, <1>2 DEF Arrive, Goto, TypeOK, Finished, GenFinal, VerFinal
  <1>3. ASSUME NEW q \in Requests, NEW l, Goto(q, l), l # "idle",
               pc[q] \notin {"idle"} \cup GenFinal \cup VerFinal, UNCHANGED before
        PROVE  /\ pc[r] # "idle" => pc'[r] # "idle" /\ before'[r] = before[r]
               /\ pc[r] = "idle" /\ before'[r] # before[r] =>
                    pc'[r] \in {"check", "read"} /\ before'[r] = Finished
               /\ pc[r] = "idle" => pc'[r] \in {"idle", "check", "read"}
               /\ r \in Finished => pc'[r] = pc[r]
    BY <1>0, <1>3 DEF Goto, TypeOK, Finished
  <1> QED BY <1>1, <1>2, <1>3, OneMoves

\* A row is new or keeps its key and the time at which it was created.
LEMMA RowStep ==
  ASSUME OtpInvariant, [Next]_vars, NEW i \in Ids'
  PROVE  \/ i \in Ids /\ otp'[i].key = otp[i].key /\ otp'[i].createdAt = otp[i].createdAt
         \/ i \in Generators /\ GenerateInsert(i) /\ otp'[i].createdAt = now
  <1>0. \A j \in Ids : otp[j] \in Row
    BY DEF OtpInvariant, TypeOK
  <1> DEFINE Kept == i \in Ids /\ otp'[i].key = otp[i].key /\ otp'[i].createdAt = otp[i].createdAt
  <1>1. ASSUME NEW g \in Generators, GenerateInsert(g)
        PROVE  Kept \/ (i = g /\ otp'[i].createdAt = now)
    BY <1>1 DEF GenerateInsert, Put, Ids
  <1>2. ASSUME NEW S, otp' = MarkUsed(S) PROVE Kept
    <2>1. i \in Ids
      BY <1>2 DEF MarkUsed, Ids
    <2> QED BY <1>0, <1>2, <2>1, MarkUsedFacts
  <1>3. ASSUME NEW v \in Verifiers, VerifyMiss(v) PROVE Kept
    <2>1. v \in DOMAIN seen /\ seen[v].attempts + 1 \in Nat
      BY <1>3 DEF VerifyMiss, OtpInvariant, HasRow, TypeOK, Snapshot
    <2>2. i \in Ids
      BY <1>3 DEF VerifyMiss, SetAttempts, Ids
    <2> QED BY <1>0, <1>3, <2>1, <2>2, SetAttemptsFacts DEF VerifyMiss
  <1>4. ASSUME Cleanup \/ UNCHANGED otp PROVE Kept
    BY <1>4 DEF Cleanup, Ids
  <1>5. ASSUME NEW g \in Generators, GenerateCall(g) \/ GenStep(g)
        PROVE  Kept \/ (i = g /\ GenerateInsert(g) /\ otp'[i].createdAt = now)
    <2>1. CASE GenerateInvalidate(g)
      BY <1>2, <2>1 DEF GenerateInvalidate
    <2>2. CASE GenerateCall(g) \/ GenerateRefuse(g) \/ GenerateProceed(g)
      <3>1. UNCHANGED otp
        BY <2>2 DEF GenerateCall, Arrive, GenerateRefuse, GenerateProceed
      <3> QED BY <1>4, <3>1
    <2>3. CASE GenerateInsert(g)
      BY <1>1, <2>3
    <2> QED BY <1>5, <2>1, <2>2, <2>3 DEF GenStep
  <1>6. ASSUME NEW v \in Verifiers, VerifyCall(v) \/ VerStep(v) PROVE Kept
    <2>1. CASE VerifyCall(v) \/ VerifyNotFound(v) \/ VerifyRead(v) \/ VerifyJudge(v)
      <3>1. UNCHANGED otp
        BY <2>1 DEF VerifyCall, Arrive, VerifyNotFound, VerifyRead, VerifyJudge
      <3> QED BY <1>4, <3>1
    <2>2. CASE VerifyExpire(v) \/ VerifyExhaust(v) \/ VerifyConsume(v)
      BY <1>2, <2>2 DEF VerifyExpire, VerifyExhaust, VerifyConsume
    <2> QED BY <1>3, <1>6, <2>1, <2>2 DEF VerStep
  <1> QED BY <1>4, <1>5, <1>6 DEF Next, Tick, Quiet, vars

--------------------------------------------------------------------------------
(***************************************************************************)
(* The cooldown.                                                           *)
(***************************************************************************)

\* A generation that has passed its check is a cooldown after every OTP of its
\* address and purpose that was sent before it arrived, used or not.
CooldownAhead ==
  \A g \in Ids, h \in Generators :
    KeyOf[g] = KeyOf[h] /\ g \in before[h] /\ pc[h] \in {"invalidate", "insert"}
      => otp[g].createdAt + Cooldown <= now

\* The readings of the clock that requests keep are not ahead of it.
Clocked == \A g \in Generators : at[g] <= now

CooldownInvariant == Clocked /\ CooldownAhead /\ CooldownRespected

LEMMA CooldownInit == Init => CooldownInvariant
  BY DEF Init, CooldownInvariant, Clocked, CooldownAhead, CooldownRespected, Ids

\* Time goes on, and what is kept of it was read just now.
LEMMA ClockStep ==
  ASSUME TypeOK, [Next]_vars
  PROVE  now' >= now /\ now' \in Nat /\ \A g \in Generators : at'[g] \in {at[g], now}
  <1>1. CASE Tick
    BY <1>1 DEF Tick, TypeOK
  <1>2. ASSUME NEW g \in Generators, GenerateCall(g) \/ GenerateInvalidate(g)
        PROVE  UNCHANGED now /\ at' = [at EXCEPT ![g] = now]
    BY <1>2 DEF GenerateCall, Arrive, GenerateInvalidate
  <1>3. CASE UNCHANGED <<now, at>>
    BY <1>3 DEF TypeOK
  <1>4. ASSUME NEW v \in Verifiers, VerifyCall(v) \/ VerStep(v) PROVE UNCHANGED <<now, at>>
    BY <1>4 DEF VerifyCall, Arrive, VerStep, VerifyNotFound, VerifyRead, VerifyJudge,
                VerifyExpire, VerifyExhaust, VerifyMiss, VerifyConsume
  <1>5. ASSUME NEW g \in Generators, GenerateRefuse(g) \/ GenerateProceed(g) \/ GenerateInsert(g)
        PROVE  UNCHANGED <<now, at>>
    BY <1>5 DEF GenerateRefuse, GenerateProceed, GenerateInsert
  <1>6. CASE Cleanup \/ UNCHANGED vars
    BY <1>3, <1>6 DEF Cleanup, vars
  <1> QED BY <1>1, <1>2, <1>3, <1>4, <1>5, <1>6 DEF Next, GenStep, Quiet, TypeOK

\* The generation that goes on to retire and insert has just passed its check.
LEMMA AheadStep ==
  ASSUME TypeOK, [Next]_vars, NEW h \in Generators, pc'[h] \in {"invalidate", "insert"}
  PROVE  \/ pc[h] \in {"invalidate", "insert"}
         \/ GenerateProceed(h)
  <1> USE OtpAssumption DEF Requests
  <1>1. ASSUME NEW g \in Generators, GenerateCall(g) \/ GenStep(g) PROVE
         \/ pc[h] \in {"invalidate", "insert"}
         \/ GenerateProceed(h)
    BY <1>1 DEF GenerateCall, Arrive, GenStep, GenerateRefuse, GenerateInvalidate, GenerateInsert,
                GenerateProceed, Goto, TypeOK
  <1>2. ASSUME NEW v \in Verifiers, VerifyCall(v) \/ VerStep(v) PROVE pc'[h] = pc[h]
    BY <1>2 DEF VerifyCall, Arrive, VerStep, VerifyNotFound, VerifyRead, VerifyJudge,
                VerifyExpire, VerifyExhaust, VerifyMiss, VerifyConsume, Goto, TypeOK
  <1>3. CASE Cleanup \/ Tick \/ UNCHANGED vars
    BY <1>3 DEF Cleanup, Tick, vars
  <1> QED BY <1>1, <1>2, <1>3 DEF Next, Quiet

LEMMA CooldownNext == OtpInvariant /\ CooldownInvariant /\ [Next]_vars => CooldownInvariant'
  <1> SUFFICES ASSUME OtpInvariant, CooldownInvariant, [Next]_vars PROVE CooldownInvariant'
    OBVIOUS
  <1> USE OtpAssumption DEF Requests
  <1>0. /\ TypeOK /\ Ids \subseteq Generators
        /\ now \in Nat /\ now' \in Nat /\ now' >= now
        /\ \A i \in Ids : otp[i].createdAt \in Nat
        /\ at \in [Generators -> Nat]
    BY ClockStep DEF OtpInvariant, TypeOK, Row
  <1>1. Clocked'
    BY <1>0, ClockStep DEF CooldownInvariant, Clocked
  \* Whoever is named in the history of a request that has arrived has its row already.
  <1>2. ASSUME NEW g \in Ids', NEW h \in Generators, g \in before'[h], pc[h] # "idle"
        PROVE  /\ g \in before[h] /\ g \in Ids
               /\ otp'[g].createdAt = otp[g].createdAt /\ otp'[g].key = otp[g].key
    <2>1. before'[h] = before[h]
      BY <1>2, HistoryStep
    <2>2. ~GenerateInsert(g)
      BY <1>2, <2>1 DEF OtpInvariant, Past, Finished, GenerateInsert, GenFinal, VerFinal
    <2> QED BY <1>2, <2>1, <2>2, RowStep
  <1>3. CooldownAhead'
    <2> SUFFICES ASSUME NEW g \in Ids', NEW h \in Generators,
                        KeyOf[g] = KeyOf[h], g \in before'[h], pc'[h] \in {"invalidate", "insert"}
                 PROVE  otp'[g].createdAt + Cooldown <= now'
      BY DEF CooldownAhead
    <2>1. pc[h] # "idle"
      BY HistoryStep
    <2>2. /\ g \in before[h] /\ g \in Ids
          /\ otp'[g].createdAt = otp[g].createdAt
      BY <1>2, <2>1
    <2>3. CASE pc[h] \in {"invalidate", "insert"}
      BY <1>0, <2>2, <2>3 DEF CooldownInvariant, CooldownAhead
    <2>4. CASE GenerateProceed(h)
      <3>1. otp[g].key = KeyOf[h]
        BY <2>2 DEF OtpInvariant, Stored
      <3>2. g \notin Recent(KeyOf[h], at[h])
        BY <2>4 DEF GenerateProceed
      <3>3. ~(otp[g].createdAt > at[h] - Cooldown)
        BY <2>2, <3>1, <3>2 DEF Recent
      <3> QED BY <1>0, <2>2, <3>3 DEF CooldownInvariant, Clocked
    <2> QED BY <1>0, <2>3, <2>4, AheadStep
  <1>4. CooldownRespected'
    <2> SUFFICES ASSUME NEW g \in Ids', NEW h \in Ids',
                        otp'[g].key = otp'[h].key, g \in before'[h]
                 PROVE  otp'[h].createdAt >= otp'[g].createdAt + Cooldown
      BY DEF CooldownRespected
    <2>1. CASE h \in Ids /\ otp'[h].key = otp[h].key /\ otp'[h].createdAt = otp[h].createdAt
      <3>1. h \in Generators /\ pc[h] # "idle"
        BY <1>0, <2>1 DEF OtpInvariant, Stored
      <3> QED BY <1>2, <2>1, <3>1 DEF CooldownInvariant, CooldownRespected
    <2>2. CASE h \in Generators /\ GenerateInsert(h) /\ otp'[h].createdAt = now
      <3>1. pc[h] = "insert"
        BY <2>2 DEF GenerateInsert
      <3>2. g \in before[h] /\ g \in Ids /\ otp'[g].createdAt = otp[g].createdAt
        BY <1>2, <2>2, <3>1
      <3>3. KeyOf[g] = KeyOf[h]
        <4>1. OtpInvariant'
          BY InvNext
        <4> QED BY <4>1 DEF OtpInvariant, Stored
      <3> QED BY <1>0, <2>2, <3>1, <3>2, <3>3 DEF CooldownInvariant, CooldownAhead
    <2> QED BY <2>1, <2>2, RowStep
  <1> QED BY <1>1, <1>3, <1>4 DEF CooldownInvariant

\* Two OTPs for one address and purpose that were not requested at the same
\* time are at least the cooldown apart (otp.service.ts:42-63).
THEOREM CooldownIsRespected == Spec => []CooldownRespected
  <1>1. Spec => []CooldownInvariant
    BY CooldownInit, CooldownNext, OtpInvariantHolds, PTL DEF Spec
  <1>2. CooldownInvariant => CooldownRespected
    BY DEF CooldownInvariant
  <1> QED BY <1>1, <1>2, PTL

--------------------------------------------------------------------------------
\* Two OTPs for one address and purpose are pending only when their generations
\* overlapped, however many generations there are (otp.service.ts:65-66).
THEOREM PendingOtpsOverlap == Spec => []PendingOverlap
  <1>1. OtpInvariant => PendingOverlap
    <2> SUFFICES ASSUME OtpInvariant, NEW k \in Keys, NEW g \in Unused(k), NEW h \in Unused(k), g # h
                 PROVE  Overlap(g, h)
      BY DEF PendingOverlap
    <2>1. ASSUME NEW i \in Unused(k)
          PROVE  i \in Ids /\ i \in Generators /\ KeyOf[i] = k /\ pc[i] = "sent" /\ ~otp[i].isUsed
      BY DEF Unused, OtpInvariant, TypeOK, Stored
    <2>2. ASSUME NEW i \in Unused(k), NEW j \in Unused(k) PROVE i \notin before[j]
      BY <2>1, <2>2 DEF OtpInvariant, NewerRetires, Spent
    <2> QED BY <2>2 DEF Overlap
  <1> QED BY <1>1, OtpInvariantHolds, PTL

--------------------------------------------------------------------------------
(***************************************************************************)
(* The status of an OTP (OtpStatus).                                       *)
(***************************************************************************)

\* Whoever asks goes on holding the time of the newest OTP, as long as no
\* generation overlaps with the question.
Freshest(a) ==
  ask[a] = "answer" /\ NoRace(a) =>
    \A i \in Ids : otp[i].key = AskKey[a] => otp[i].createdAt <= found[a]

StatusInvariant ==
  /\ ask \in [Askers -> {"idle", "query", "answer", "none", "wait", "resend"}]
  /\ earlier \in [Askers -> SUBSET Requests] /\ \A a \in Askers : earlier[a] \subseteq Finished
  /\ \A a \in Askers : ask[a] = "answer" => a \in DOMAIN found /\ found[a] \in Nat
  /\ \A a \in Askers : Freshest(a)

\* Nobody has asked at the start.
LEMMA StatusInitInvariant == StatusInit => StatusInvariant
  BY DEF StatusInit, StatusInvariant, Freshest

\* Without a race the only OTP that is not spent is the newest of its key.
LEMMA PendingIsNewest ==
  ASSUME OtpInvariant, CooldownRespected, NEW a \in Askers, NoRace(a),
         NEW i \in Ids, otp[i].key = AskKey[a], ~otp[i].isUsed,
         NEW j \in Ids, otp[j].key = AskKey[a]
  PROVE  otp[j].createdAt <= otp[i].createdAt
  <1>1. /\ i \in Generators /\ pc[i] = "sent" /\ KeyOf[i] = AskKey[a]
        /\ j \in Generators /\ pc[j] = "sent" /\ KeyOf[j] = AskKey[a]
        /\ otp[i].createdAt \in Nat /\ otp[j].createdAt \in Nat
    BY DEF OtpInvariant, TypeOK, Stored, Row
  <1>2. i = j \/ i \in before[j] \/ j \in before[i]
    BY <1>1 DEF NoRace, Arrived, Serial, Overlap
  <1>3. i \notin before[j]
    BY <1>1 DEF OtpInvariant, NewerRetires, Spent
  <1>4. j \in before[i] => otp[i].createdAt >= otp[j].createdAt + Cooldown
    BY DEF CooldownRespected
  <1> QED BY <1>1, <1>2, <1>3, <1>4, OtpAssumption

\* A step of the service: nothing is sent that the question was not told of.
LEMMA ServiceKeepsStatus ==
  ASSUME OtpInvariant, StatusInvariant, [Next]_vars, UNCHANGED statusVars
  PROVE  StatusInvariant'
  <1> USE DEF Requests
  <1>1. UNCHANGED <<ask, found, earlier>>
    BY DEF statusVars
  <1>2. Finished \subseteq Finished'
    BY HistoryStep DEF Finished
  <1>3. ASSUME NEW a \in Askers, ask[a] = "answer", NoRace(a)',
               NEW i \in Ids', otp'[i].key = AskKey[a]
        PROVE  otp'[i].createdAt <= found[a]
    <2>1. NoRace(a)
      <3>1. \A g \in Arrived(AskKey[a]) : g \in Arrived(AskKey[a])' /\ before'[g] = before[g]
        BY HistoryStep DEF Arrived
      <3> QED BY <1>1, <1>3, <3>1 DEF NoRace, Serial, Overlap
    <2>2. CASE i \in Ids /\ otp'[i].key = otp[i].key /\ otp'[i].createdAt = otp[i].createdAt
      BY <1>3, <2>1, <2>2 DEF StatusInvariant, Freshest
    <2>3. CASE i \in Generators /\ GenerateInsert(i)
      <3>1. pc[i] = "insert" /\ pc'[i] = "sent"
        BY <2>3 DEF GenerateInsert, Goto, OtpInvariant, TypeOK
      <3>2. KeyOf[i] = AskKey[a]
        <4>1. OtpInvariant'
          BY InvNext
        <4> QED BY <1>3, <4>1 DEF OtpInvariant, Stored
      <3>3. i \in earlier[a]
        BY <1>1, <1>3, <2>3, <3>1, <3>2 DEF NoRace, Arrived
      <3> QED BY <3>1, <3>3 DEF StatusInvariant, Finished, GenFinal, VerFinal
    <2> QED BY <2>2, <2>3, RowStep
  <1>4. \A a \in Askers : Freshest(a)'
    BY <1>1, <1>3 DEF Freshest
  <1> QED BY <1>1, <1>2, <1>4 DEF StatusInvariant

\* A step of one who asks.
LEMMA AskerKeepsStatus ==
  ASSUME OtpInvariant, CooldownRespected, StatusInvariant, UNCHANGED vars, NEW a \in Askers,
         StatusCall(a) \/ StatusStep(a)
  PROVE  StatusInvariant'
  <1>1. UNCHANGED <<now, otp, pc, before>> /\ Finished' = Finished
    BY DEF vars, Finished
  <1>2. \A k : Arrived(k)' = Arrived(k)
    BY <1>1 DEF Arrived
  <1>3. ASSUME NEW b \in Askers, earlier'[b] = earlier[b] PROVE NoRace(b)' <=> NoRace(b)
    BY <1>1, <1>2, <1>3 DEF NoRace, Serial, Overlap
  <1>4. ASSUME NEW b \in Askers, ask'[b] = ask[b], found'[b] = found[b], earlier'[b] = earlier[b]
        PROVE  Freshest(b)'
    BY <1>1, <1>3, <1>4 DEF StatusInvariant, Freshest, Ids
  <1>5. CASE StatusCall(a)
    <2>1. /\ ask' = [ask EXCEPT ![a] = "query"] /\ found' = found
          /\ earlier' = [earlier EXCEPT ![a] = Finished \cap Generators]
      BY <1>5 DEF StatusCall
    <2>2. Finished \cap Generators \in SUBSET Requests
      BY DEF Finished
    <2>3. /\ ask' \in [Askers -> {"idle", "query", "answer", "none", "wait", "resend"}]
          /\ earlier' \in [Askers -> SUBSET Requests] /\ ask'[a] = "query"
          /\ \A b \in Askers : earlier'[b] \subseteq Finished
          /\ \A b \in Askers \ {a} : ask'[b] = ask[b] /\ earlier'[b] = earlier[b]
      BY <2>1, <2>2 DEF StatusInvariant
    <2>4. ASSUME NEW b \in Askers PROVE Freshest(b)'
      <3>1. CASE b = a
        BY <2>3, <3>1 DEF Freshest
      <3>2. CASE b # a
        BY <1>4, <2>1, <2>3, <3>2
      <3> QED BY <3>1, <3>2
    <2> QED BY <1>1, <2>1, <2>3, <2>4 DEF StatusInvariant
  <1>6. ASSUME NEW text \in {"none", "wait", "resend"}, Answer(a, text)
        PROVE  StatusInvariant'
    <2>1. /\ ask' \in [Askers -> {"idle", "query", "answer", "none", "wait", "resend"}]
          /\ ask'[a] = text /\ \A b \in Askers \ {a} : ask'[b] = ask[b]
      BY <1>6 DEF Answer, StatusInvariant
    <2>2. /\ earlier' \in [Askers -> SUBSET Requests] /\ earlier'[a] = {}
          /\ \A b \in Askers \ {a} : earlier'[b] = earlier[b]
      BY <1>6 DEF Answer, StatusInvariant
    <2>3. \A b \in DOMAIN found \ {a} : b \in DOMAIN found' /\ found'[b] = found[b]
      BY <1>6 DEF Answer
    <2>4. ASSUME NEW b \in Askers
          PROVE  (ask'[b] = "answer" => b \in DOMAIN found' /\ found'[b] \in Nat) /\ Freshest(b)'
      <3>1. CASE ask'[b] # "answer"
        BY <3>1 DEF Freshest
      <3>2. CASE ask'[b] = "answer"
        <4>1. /\ b # a /\ ask[b] = "answer" /\ b \in DOMAIN found /\ found[b] \in Nat
              /\ earlier'[b] = earlier[b]
          BY <2>1, <2>2, <3>2 DEF StatusInvariant
        <4> QED BY <1>4, <2>3, <3>2, <4>1
      <3> QED BY <3>1, <3>2
    <2> QED BY <1>1, <2>1, <2>2, <2>4 DEF StatusInvariant
  <1>7. CASE StatusNone(a) \/ StatusAnswer(a)
    BY <1>6, <1>7 DEF StatusNone, StatusAnswer
  <1>8. CASE StatusFound(a)
    <2>1. PICK i \in Newest(Pending(AskKey[a], cutoff[a])) : found' = Put(found, a, otp[i].createdAt)
      BY <1>8 DEF StatusFound
    <2>2. i \in Ids /\ otp[i].key = AskKey[a] /\ ~otp[i].isUsed /\ otp[i].createdAt \in Nat
      BY DEF Newest, Pending, Unused, OtpInvariant, TypeOK, Row
    <2>3. ask' = [ask EXCEPT ![a] = "answer"] /\ earlier' = earlier
      BY <1>8 DEF StatusFound
    <2>4. /\ ask' \in [Askers -> {"idle", "query", "answer", "none", "wait", "resend"}]
          /\ ask'[a] = "answer" /\ \A b \in Askers \ {a} : ask'[b] = ask[b]
      BY <2>3 DEF StatusInvariant
    <2>5. /\ DOMAIN found' = DOMAIN found \cup {a} /\ found'[a] = otp[i].createdAt
          /\ \A b \in DOMAIN found \ {a} : found'[b] = found[b]
      <3>. DEFINE t == otp[i].createdAt
      <3>1. found' = Put(found, a, t)
        BY <2>1
      <3>. HIDE DEF t
      <3>2. found'[a] = t /\ \A b \in DOMAIN found \ {a} : found'[b] = found[b]
        BY <3>1 DEF Put
      <3>3. DOMAIN found' = DOMAIN found \cup {a}
        BY <3>1 DEF Put
      <3> QED BY <3>2, <3>3 DEF t
    <2>6. ASSUME NEW b \in Askers
          PROVE  (ask'[b] = "answer" => b \in DOMAIN found' /\ found'[b] \in Nat) /\ Freshest(b)'
      <3>1. CASE b = a
        <4>1. ASSUME NoRace(a)', NEW j \in Ids, otp[j].key = AskKey[a]
              PROVE  otp[j].createdAt <= otp[i].createdAt
          <5>1. NoRace(a)
            BY <1>3, <2>3, <4>1
          <5> QED BY <2>2, <4>1, <5>1, PendingIsNewest
        <4>2. Freshest(a)'
          BY <1>1, <2>5, <4>1 DEF Freshest, Ids
        <4> QED BY <2>2, <2>5, <3>1, <4>2
      <3>2. CASE b # a /\ ask[b] # "answer"
        BY <2>4, <3>2 DEF Freshest
      <3>3. CASE b # a /\ ask[b] = "answer"
        <4>1. b \in DOMAIN found /\ found[b] \in Nat
          BY <3>3 DEF StatusInvariant
        <4>2. b \in DOMAIN found' /\ found'[b] = found[b] /\ ask'[b] = ask[b] /\ earlier'[b] = earlier[b]
          BY <2>3, <2>4, <2>5, <3>3, <4>1
        <4> QED BY <1>4, <4>1, <4>2
      <3> QED BY <3>1, <3>2, <3>3
    <2> QED BY <1>1, <2>3, <2>4, <2>6 DEF StatusInvariant
  <1> QED BY <1>5, <1>7, <1>8 DEF StatusStep

\* Whoever asks leaves the service alone, so its theorems hold beside questions
\* as well (otp.service.ts:156).
THEOREM StatusImplementsOtp == StatusSpec => Spec
  <1>1. StatusInit => Init
    BY DEF StatusInit
  <1>2. [StatusNext]_<<vars, statusVars>> => [Next]_vars
    BY DEF StatusNext
  <1> QED BY <1>1, <1>2, PTL DEF StatusSpec, Spec

\* A step of the service or of one who asks keeps the status invariant.
LEMMA StatusNextInvariant ==
  OtpInvariant /\ CooldownRespected /\ StatusInvariant /\ [StatusNext]_<<vars, statusVars>>
    => StatusInvariant'
  <1> SUFFICES ASSUME OtpInvariant, CooldownRespected, StatusInvariant,
                      [StatusNext]_<<vars, statusVars>>
               PROVE  StatusInvariant'
    OBVIOUS
  <1>1. CASE Next /\ UNCHANGED statusVars
    BY <1>1, ServiceKeepsStatus
  <1>2. CASE UNCHANGED vars /\ UNCHANGED statusVars
    BY <1>2, ServiceKeepsStatus
  <1>3. ASSUME NEW a \in Askers, StatusCall(a) \/ StatusStep(a), UNCHANGED vars
        PROVE  StatusInvariant'
    BY <1>3, AskerKeepsStatus
  <1> QED BY <1>1, <1>2, <1>3 DEF StatusNext

\* "canResend" with a pending OTP is honest for any clock and cooldown: a
\* generateOtp that arrives at that moment is not turned down, when no generation
\* overlaps with the question (otp.service.ts:182-195, 42-63).
THEOREM ResendsAreHonest == StatusSpec => PendingCanResend
  <1>1. OtpInvariant /\ StatusInvariant /\ [StatusNext]_<<vars, statusVars>>
          => [\A a \in Askers : ask[a] = "answer" /\ ask'[a] = "resend" /\ NoRace(a)
                                  => Recent(AskKey[a], now) = {}]_<<vars, statusVars>>
    <2> SUFFICES ASSUME OtpInvariant, StatusInvariant, StatusNext, NEW a \in Askers,
                        ask[a] = "answer", ask'[a] = "resend", NoRace(a)
                 PROVE  Recent(AskKey[a], now) = {}
      OBVIOUS
    <2>1. StatusAnswer(a)
      <3>1. ASSUME NEW b \in Askers, b # a, StatusCall(b) \/ StatusStep(b) PROVE ask'[a] = ask[a]
        BY <3>1 DEF StatusCall, StatusStep, StatusNone, StatusFound, StatusAnswer, Answer, StatusInvariant
      <3>2. ~StatusCall(a) /\ ~StatusNone(a) /\ ~StatusFound(a)
        BY DEF StatusCall, StatusNone, StatusFound, Answer, StatusInvariant
      <3> QED BY <3>1, <3>2 DEF StatusNext, StatusStep, statusVars
    <2>2. now - found[a] > Cooldown
      BY <2>1 DEF StatusAnswer, Answer, StatusInvariant
    <2>3. ASSUME NEW i \in Recent(AskKey[a], now) PROVE FALSE
      <3>1. i \in Ids /\ otp[i].key = AskKey[a] /\ otp[i].createdAt > now - Cooldown
        BY DEF Recent
      <3>2. otp[i].createdAt <= found[a]
        BY <3>1 DEF StatusInvariant, Freshest
      <3>3. otp[i].createdAt \in Nat /\ found[a] \in Nat /\ now \in Nat
        BY <3>1 DEF OtpInvariant, TypeOK, Row, StatusInvariant
      <3> QED BY <2>2, <3>1, <3>2, <3>3, OtpAssumption
    <2> QED BY <2>3
  <1>2. StatusSpec => [](OtpInvariant /\ CooldownRespected)
    BY StatusImplementsOtp, OtpInvariantHolds, CooldownIsRespected, PTL
  <1>3. StatusSpec => []StatusInvariant
    BY <1>2, StatusInitInvariant, StatusNextInvariant, PTL DEF StatusSpec
  <1> QED BY <1>1, <1>2, <1>3, PTL DEF StatusSpec, PendingCanResend

--------------------------------------------------------------------------------
(***************************************************************************)
(* The limit on guesses: increments are lost only to one another.          *)
(***************************************************************************)
InProgress == {"judge", "expire", "exhaust", "miss", "consume"}

\* The attempts column, and what a verification in progress has read of it,
\* count the wrong guesses that nothing has overlapped, or more.
Counted(i) ==
  /\ i \in Ids => Cardinality(Undisturbed(i)) <= otp[i].attempts
  /\ \A v \in Readers(i) :
       pc[v] \in InProgress => Cardinality(Undisturbed(i)) <= seen[v].attempts
  /\ Cardinality(Undisturbed(i)) <= MaxAttempts
  /\ Accepted(i) # {} => Cardinality(Undisturbed(i)) < MaxAttempts

\* Only a row below the limit is about to be consumed.
ConsumeBelowLimit ==
  \A v \in DOMAIN seen : pc[v] = "consume" => seen[v].attempts < MaxAttempts

GuessInvariant == ConsumeBelowLimit /\ \A i \in Generators : Counted(i)

LEMMA GuessInit == Init => GuessInvariant
  <1> SUFFICES ASSUME Init PROVE GuessInvariant
    OBVIOUS
  <1>1. Ids = {} /\ DOMAIN seen = {}
    BY DEF Init, Ids
  <1>2. ASSUME NEW i \in Generators PROVE Counted(i)
    <2>1. Readers(i) = {} /\ Undisturbed(i) = {} /\ Accepted(i) = {}
      BY <1>1 DEF Readers, Undisturbed, Missed, Accepted
    <2>2. Cardinality(Undisturbed(i)) = 0
      BY <2>1, FS_EmptySet
    <2> QED BY <1>1, <2>1, <2>2, OtpAssumption DEF Counted
  <1> QED BY <1>1, <1>2 DEF GuessInvariant, ConsumeBelowLimit

\* There are finitely many guesses.
LEMMA GuessesFinite ==
  ASSUME OtpInvariant, NEW i
  PROVE  IsFiniteSet(Undisturbed(i)) /\ Cardinality(Undisturbed(i)) \in Nat
  <1>1. Undisturbed(i) \in SUBSET Verifiers
    BY DEF Undisturbed, Missed, OtpInvariant, TypeOK
  <1>2. IsFiniteSet(Undisturbed(i))
    BY <1>1, OtpAssumption, FS_Subset
  <1> QED BY <1>2, FS_CardinalityType

\* A row that has been read stays read.
LEMMA SeenStep ==
  ASSUME OtpInvariant, [Next]_vars
  PROVE  \/ UNCHANGED seen
         \/ \E v \in Verifiers : VerifyRead(v)
  <1>1. ASSUME NEW g \in Generators, GenerateCall(g) \/ GenStep(g) PROVE UNCHANGED seen
    BY <1>1 DEF GenerateCall, Arrive, GenStep, GenerateRefuse, GenerateProceed, GenerateInvalidate,
                GenerateInsert
  <1>2. ASSUME NEW v \in Verifiers, VerifyCall(v) \/ VerStep(v) PROVE UNCHANGED seen \/ VerifyRead(v)
    BY <1>2 DEF VerifyCall, Arrive, VerStep, VerifyNotFound, VerifyJudge, VerifyExpire,
                VerifyExhaust, VerifyMiss, VerifyConsume
  <1> QED BY <1>1, <1>2 DEF Next, Cleanup, Tick, Quiet, vars

\* What a findOne adds to the rows that have been read.
LEMMA ReadAdds ==
  ASSUME OtpInvariant, NEW v \in Verifiers, VerifyRead(v)
  PROVE  \E i \in Latest(KeyOf[v]) :
           /\ i \in Generators /\ i \in Ids /\ ~otp[i].isUsed
           /\ DOMAIN seen' = DOMAIN seen \cup {v} /\ v \notin DOMAIN seen
           /\ seen'[v].id = i /\ seen'[v].attempts = otp[i].attempts
           /\ \A w \in DOMAIN seen : seen'[w] = seen[w]
           /\ pc' = [pc EXCEPT ![v] = "judge"] /\ UNCHANGED <<otp, before>>
  <1>1. PICK i \in Latest(KeyOf[v]) :
          seen' = Put(seen, v, [id |-> i, code |-> otp[i].code,
                                expiresAt |-> otp[i].expiresAt, attempts |-> otp[i].attempts])
    BY DEF VerifyRead
  <1>2. v \notin DOMAIN seen
    BY DEF VerifyRead, OtpInvariant, HasRow
  <1>3. i \in Generators /\ i \in Ids /\ ~otp[i].isUsed
    BY DEF Latest, Unused, OtpInvariant, TypeOK
  <1>4. DOMAIN seen' = DOMAIN seen \cup {v}
    BY <1>1 DEF Put
  <1>5. seen'[v].id = i /\ seen'[v].attempts = otp[i].attempts
    BY <1>1 DEF Put
  <1>6. \A w \in DOMAIN seen : seen'[w] = seen[w]
    BY <1>1, <1>2 DEF Put
  <1> QED BY <1>2, <1>3, <1>4, <1>5, <1>6 DEF VerifyRead, Goto

\* A wrong guess that nothing has overlapped was that before.
LEMMA UndisturbedBefore ==
  ASSUME OtpInvariant, [Next]_vars, NEW i, Readers(i) \subseteq Readers(i)',
         NEW v \in Undisturbed(i)', v \in Missed(i)
  PROVE  v \in Undisturbed(i)
  <1>1. \A w \in Readers(i) : w \in Requests /\ pc[w] # "idle"
    BY DEF Readers, OtpInvariant, TypeOK, HasRow, Requests
  <1>2. v \in Readers(i)
    BY DEF Missed, Readers
  <1>3. \A w \in Readers(i) : before'[w] = before[w]
    BY <1>1, HistoryStep
  <1>4. \A w \in Readers(i) : ~Overlap(v, w)
    BY <1>2, <1>3 DEF Undisturbed, Overlap
  <1> QED BY <1>4 DEF Undisturbed

\* Of what is read, only the attempts of a verification in progress matter.
LEMMA CountedKeeps ==
  ASSUME OtpInvariant, NEW i \in Generators, Counted(i),
         Undisturbed(i)' \subseteq Undisturbed(i), Accepted(i)' = Accepted(i),
         \A u \in Readers(i)' : pc'[u] \in InProgress =>
            \/ u \in Readers(i) /\ pc[u] \in InProgress /\ seen'[u] = seen[u]
            \/ i \in Ids /\ seen'[u].attempts = otp[i].attempts,
         i \in Ids' => i \in Ids /\ otp'[i].attempts = otp[i].attempts
  PROVE  Counted(i)'
  <1> DEFINE n == Cardinality(Undisturbed(i))
             m == Cardinality(Undisturbed(i)')
  <1>1. IsFiniteSet(Undisturbed(i)) /\ n \in Nat
    BY GuessesFinite
  <1>2. m <= n /\ m \in Nat
    BY <1>1, FS_Subset, FS_CardinalityType
  <1>3. /\ i \in Ids => otp[i].attempts \in Nat
        /\ \A u \in Readers(i) : seen[u].attempts \in Nat
    BY DEF OtpInvariant, TypeOK, Row, Snapshot, Readers
  <1>4. /\ i \in Ids => n <= otp[i].attempts
        /\ \A v \in Readers(i) : pc[v] \in InProgress => n <= seen[v].attempts
        /\ n <= MaxAttempts
        /\ Accepted(i) # {} => n < MaxAttempts
    BY DEF Counted
  <1>5. MaxAttempts \in Nat
    BY OtpAssumption
  <1> HIDE DEF n, m
  <1>6. /\ i \in Ids' => m <= otp'[i].attempts
        /\ m <= MaxAttempts
        /\ Accepted(i)' # {} => m < MaxAttempts
    BY <1>1, <1>2, <1>3, <1>4, <1>5
  <1>7. ASSUME NEW u \in Readers(i)', pc'[u] \in InProgress PROVE m <= seen'[u].attempts
    BY <1>1, <1>2, <1>3, <1>4, <1>7
  <1> QED BY <1>6, <1>7 DEF Counted, m

\* One request moves, nothing is read, and attempts stay.
LEMMA CountedMove ==
  ASSUME OtpInvariant, [Next]_vars, NEW i \in Generators, Counted(i),
         NEW r \in Requests, NEW l, Goto(r, l), UNCHANGED seen,
         r \in DOMAIN seen => /\ pc[r] \in InProgress
                              /\ seen[r].id = i => l \notin {"mismatch", "accepted"},
         i \in Ids' => i \in Ids /\ otp'[i].attempts = otp[i].attempts
  PROVE  Counted(i)'
  <1>1. /\ \A q \in Requests \ {r} : pc'[q] = pc[q]
        /\ pc'[r] = l /\ DOMAIN seen \subseteq Requests
    BY DEF Goto, OtpInvariant, TypeOK, Requests
  <1>2. Readers(i)' = Readers(i)
    BY DEF Readers
  <1>3. Missed(i)' = Missed(i) /\ Accepted(i)' = Accepted(i)
    BY <1>1 DEF Missed, Accepted, InProgress
  <1>4. \A u \in Readers(i) : pc'[u] \in InProgress => pc[u] \in InProgress
    BY <1>1 DEF Readers
  <1>5. Undisturbed(i)' \subseteq Undisturbed(i)
    BY <1>2, <1>3, UndisturbedBefore DEF Undisturbed
  <1> QED BY <1>2, <1>3, <1>4, <1>5, CountedKeeps DEF Readers

\* A findOne reads the attempts, and may overlap with a guess.
LEMMA CountedRead ==
  ASSUME OtpInvariant, [Next]_vars, NEW i \in Generators, Counted(i),
         NEW v \in Verifiers, VerifyRead(v)
  PROVE  Counted(i)'
  <1>1. PICK j \in Latest(KeyOf[v]) :
           /\ j \in Generators /\ j \in Ids /\ ~otp[j].isUsed
           /\ DOMAIN seen' = DOMAIN seen \cup {v} /\ v \notin DOMAIN seen
           /\ seen'[v].id = j /\ seen'[v].attempts = otp[j].attempts
           /\ \A w \in DOMAIN seen : seen'[w] = seen[w]
           /\ pc' = [pc EXCEPT ![v] = "judge"] /\ UNCHANGED <<otp, before>>
    BY ReadAdds
  <1>2. /\ v \in Requests /\ DOMAIN seen \subseteq Requests
        /\ pc'[v] = "judge" /\ \A q \in Requests \ {v} : pc'[q] = pc[q]
    BY <1>1 DEF OtpInvariant, TypeOK, Requests
  <1>3. Missed(i)' = Missed(i) /\ Accepted(i)' = Accepted(i)
    BY <1>1, <1>2 DEF Missed, Accepted
  <1>4. Readers(i) \subseteq Readers(i)'
    BY <1>1 DEF Readers
  <1>5. Undisturbed(i)' \subseteq Undisturbed(i)
    BY <1>3, <1>4, UndisturbedBefore DEF Undisturbed
  <1>6. \A u \in Readers(i)' : pc'[u] \in InProgress =>
            \/ u \in Readers(i) /\ pc[u] \in InProgress /\ seen'[u] = seen[u]
            \/ i \in Ids /\ seen'[u].attempts = otp[i].attempts
    BY <1>1, <1>2 DEF Readers
  <1>7. i \in Ids' => i \in Ids /\ otp'[i].attempts = otp[i].attempts
    BY <1>1 DEF Ids
  <1> QED BY <1>3, <1>5, <1>6, <1>7, CountedKeeps

\* One more member makes a finite set larger by one at most.
LEMMA OneMore ==
  ASSUME NEW S, IsFiniteSet(S), NEW x
  PROVE  IsFiniteSet(S \cup {x}) /\ Cardinality(S \cup {x}) <= Cardinality(S) + 1
  <1>1. Cardinality(S) \in Nat
    BY FS_CardinalityType
  <1>2. /\ IsFiniteSet(S \cup {x})
        /\ Cardinality(S \cup {x}) = IF x \in S THEN Cardinality(S) ELSE Cardinality(S) + 1
    BY FS_AddElement
  <1> QED BY <1>1, <1>2

\* A wrong guess is counted, unless another verification overlaps with it.
LEMMA CountedMiss ==
  ASSUME OtpInvariant, [Next]_vars, NEW i \in Generators, Counted(i),
         NEW v \in Verifiers, VerifyMiss(v), seen[v].id = i
  PROVE  Counted(i)'
  <1>1. /\ v \in Requests /\ v \in DOMAIN seen /\ DOMAIN seen \subseteq Requests
        /\ pc[v] = "miss" /\ pc'[v] = "mismatch" /\ \A q \in Requests \ {v} : pc'[q] = pc[q]
        /\ UNCHANGED <<seen, before>>
        /\ seen[v].attempts \in Nat /\ seen[v].attempts < MaxAttempts
    BY DEF VerifyMiss, Goto, OtpInvariant, TypeOK, HasRow, BelowLimit, Snapshot, Requests
  <1>2. /\ Readers(i)' = Readers(i) /\ v \in Readers(i) /\ Accepted(i)' = Accepted(i)
        /\ Missed(i)' = Missed(i) \cup {v} /\ v \notin Missed(i)
    BY <1>1 DEF Readers, Accepted, Missed
  <1>3. Undisturbed(i)' \subseteq Undisturbed(i) \cup {v}
    BY <1>2, UndisturbedBefore DEF Undisturbed
  <1>4. \A w \in Requests : v \notin before[w]
    BY <1>1 DEF OtpInvariant, Past, Finished, GenFinal, VerFinal
  <1>5. ASSUME NEW w \in Readers(i), w # v, pc[w] \in InProgress \cup {"accepted"}
        PROVE  v \notin Undisturbed(i)'
    <2>1. w \notin before[v]
      <3>1. CASE pc[w] = "accepted"
        BY <1>1, <1>2, <3>1 DEF OtpInvariant, NoReread, Readers
      <3>2. CASE pc[w] \in InProgress
        BY <1>1, <3>2 DEF OtpInvariant, Past, Finished, InProgress, GenFinal, VerFinal
      <3> QED BY <1>5, <3>1, <3>2
    <2>2. w \in Requests
      BY <1>1 DEF Readers
    <2>3. Overlap(v, w)'
      BY <1>1, <1>4, <1>5, <2>1, <2>2 DEF Overlap
    <2> QED BY <1>2, <2>3 DEF Undisturbed
  <1>6. i \in Ids' => i \in Ids /\ otp'[i].attempts = seen[v].attempts + 1
    <2>1. seen[v].attempts + 1 \in Nat /\ \A j \in Ids : otp[j] \in Row
      BY <1>1 DEF OtpInvariant, TypeOK
    <2>2. Ids' = Ids
      BY <2>1, SetAttemptsFacts DEF VerifyMiss, Ids
    <2> QED BY <2>1, <2>2, SetAttemptsFacts DEF VerifyMiss
  <1> DEFINE n == Cardinality(Undisturbed(i))
             m == Cardinality(Undisturbed(i)')
  <1>7. n \in Nat /\ m \in Nat /\ m <= n + 1 /\ (v \notin Undisturbed(i)' => m <= n)
    <2>1. IsFiniteSet(Undisturbed(i)) /\ n \in Nat
      BY GuessesFinite
    <2>2. IsFiniteSet(Undisturbed(i) \cup {v}) /\ Cardinality(Undisturbed(i) \cup {v}) <= n + 1
      BY <2>1, OneMore
    <2>3. /\ Cardinality(Undisturbed(i) \cup {v}) \in Nat
          /\ IsFiniteSet(Undisturbed(i)') /\ m <= Cardinality(Undisturbed(i) \cup {v})
      BY <1>3, <2>2, FS_Subset, FS_CardinalityType
    <2>4. v \notin Undisturbed(i)' => m <= n
      BY <1>3, <2>1, FS_Subset
    <2> QED BY <2>1, <2>2, <2>3, <2>4, FS_CardinalityType
  <1>8. n <= seen[v].attempts /\ n <= MaxAttempts /\ (Accepted(i) # {} => n < MaxAttempts)
        /\ \A u \in Readers(i) : pc[u] \in InProgress => n <= seen[u].attempts
    BY <1>1, <1>2 DEF Counted, InProgress
  <1>9. MaxAttempts \in Nat /\ \A u \in Readers(i) : seen[u].attempts \in Nat
    BY OtpAssumption DEF Readers, OtpInvariant, TypeOK, Snapshot
  <1> HIDE DEF n, m
  <1>10. m <= seen[v].attempts + 1 /\ m <= MaxAttempts
    BY <1>1, <1>7, <1>8, <1>9
  <1>11. Accepted(i)' # {} => m < MaxAttempts
    <2> SUFFICES ASSUME NEW u \in Accepted(i) PROVE m < MaxAttempts
      BY <1>2
    <2>1. u \in Readers(i) /\ u # v /\ pc[u] = "accepted"
      BY <1>1 DEF Accepted, Readers
    <2> QED BY <1>5, <1>7, <1>8, <1>9, <2>1
  <1>12. ASSUME NEW u \in Readers(i)', pc'[u] \in InProgress PROVE m <= seen'[u].attempts
    <2>1. u \in Readers(i) /\ u # v /\ pc[u] \in InProgress
      BY <1>1, <1>2, <1>12 DEF Readers, InProgress
    <2> QED BY <1>1, <1>5, <1>7, <1>8, <1>9, <2>1
  <1> QED BY <1>6, <1>10, <1>11, <1>12 DEF Counted, m

\* An UPDATE that marks rows used keeps the attempts of every row.
LEMMA MarkKeepsAttempts ==
  ASSUME OtpInvariant, NEW S, otp' = MarkUsed(S), NEW i, i \in Ids'
  PROVE  i \in Ids /\ otp'[i].attempts = otp[i].attempts
  <1>1. \A j \in Ids : otp[j] \in Row
    BY DEF OtpInvariant, TypeOK
  <1>2. Ids' = Ids
    BY <1>1, MarkUsedFacts DEF Ids
  <1> QED BY <1>1, <1>2, MarkUsedFacts

\* The OTP is accepted.
LEMMA CountedConsume ==
  ASSUME OtpInvariant, [Next]_vars, ConsumeBelowLimit, NEW i \in Generators, Counted(i),
         NEW v \in Verifiers, VerifyConsume(v), seen[v].id = i
  PROVE  Counted(i)'
  <1>1. /\ v \in Requests /\ v \in DOMAIN seen /\ DOMAIN seen \subseteq Requests
        /\ pc[v] = "consume" /\ pc'[v] = "accepted" /\ \A q \in Requests \ {v} : pc'[q] = pc[q]
        /\ UNCHANGED <<seen, before>>
        /\ seen[v].attempts < MaxAttempts /\ seen[v].attempts \in Nat
    BY DEF VerifyConsume, Goto, OtpInvariant, TypeOK, HasRow, ConsumeBelowLimit, Snapshot, Requests
  <1>2. Missed(i)' = Missed(i) /\ Readers(i)' = Readers(i) /\ v \in Readers(i)
    BY <1>1 DEF Missed, Readers
  <1>3. Undisturbed(i)' = Undisturbed(i)
    BY <1>1, <1>2 DEF Undisturbed, Overlap
  <1>4. i \in Ids' => i \in Ids /\ otp'[i].attempts = otp[i].attempts
    BY MarkKeepsAttempts DEF VerifyConsume
  <1>5. Cardinality(Undisturbed(i)) <= seen[v].attempts
    BY <1>1, <1>2 DEF Counted, InProgress
  <1>6. Cardinality(Undisturbed(i)) < MaxAttempts
    BY <1>1, <1>5, GuessesFinite, OtpAssumption
  <1>7. \A u \in Readers(i) : pc'[u] \in InProgress => pc[u] \in InProgress
    BY <1>1 DEF Readers, InProgress
  <1> QED BY <1>1, <1>2, <1>3, <1>4, <1>6, <1>7 DEF Counted

\* A request that has no row moves, and the attempts stay.
LEMMA CountedOther ==
  ASSUME OtpInvariant, [Next]_vars, NEW i \in Generators, Counted(i),
         NEW r \in Requests, NEW l, Goto(r, l), r \notin DOMAIN seen, UNCHANGED seen,
         i \in Ids' => i \in Ids /\ otp'[i].attempts = otp[i].attempts
  PROVE  Counted(i)'
  BY CountedMove

\* A new OTP has not been guessed at.
LEMMA CountedInsert ==
  ASSUME OtpInvariant, [Next]_vars, NEW i \in Generators, Counted(i),
         NEW g \in Generators, GenerateInsert(g)
  PROVE  Counted(i)'
  <1>1. /\ pc[g] = "insert" /\ g \in Requests /\ g \notin DOMAIN seen /\ Goto(g, "sent") /\ UNCHANGED seen
        /\ \A q \in Requests \ {g} : pc'[q] = pc[q]
    BY OtpAssumption DEF GenerateInsert, OtpInvariant, TypeOK, Requests, Goto
  <1>2. PICK sent : otp' = Put(otp, g, sent) /\ sent.attempts = 0
    BY DEF GenerateInsert
  <1>3. CASE i # g
    <2>1. i \in Ids' => i \in Ids /\ otp'[i].attempts = otp[i].attempts
      BY <1>2, <1>3 DEF Ids, Put
    <2> QED BY <1>1, <2>1, CountedOther
  <1>4. CASE i = g
    <2>1. Readers(i) = {}
      BY <1>1, <1>4 DEF Readers, OtpInvariant, Held
    <2>2. Readers(i)' = {} /\ Undisturbed(i)' = {} /\ Accepted(i)' = {}
      BY <1>1, <2>1 DEF Readers, Undisturbed, Missed, Accepted
    <2>3. Cardinality(Undisturbed(i))' = 0
      BY <2>2, FS_EmptySet
    <2>4. otp'[i].attempts = 0
      BY <1>2, <1>4 DEF Put
    <2> QED BY <2>2, <2>3, <2>4, OtpAssumption DEF Counted
  <1> QED BY <1>3, <1>4

\* Every step of a generator keeps the count.
LEMMA GenCounted ==
  ASSUME OtpInvariant, [Next]_vars, NEW i \in Generators, Counted(i),
         NEW g \in Generators, GenerateCall(g) \/ GenStep(g)
  PROVE  Counted(i)'
  <1>1. g \in Requests /\ g \notin DOMAIN seen
    BY OtpAssumption DEF OtpInvariant, TypeOK, Requests
  <1>2. CASE GenerateCall(g)
    BY <1>1, <1>2, CountedOther DEF GenerateCall, Arrive, Ids
  <1>3. CASE GenerateRefuse(g)
    BY <1>1, <1>3, CountedOther DEF GenerateRefuse, Ids
  <1>4. CASE GenerateProceed(g)
    BY <1>1, <1>4, CountedOther DEF GenerateProceed, Ids
  <1>5. CASE GenerateInvalidate(g)
    <2>1. i \in Ids' => i \in Ids /\ otp'[i].attempts = otp[i].attempts
      BY <1>5, MarkKeepsAttempts DEF GenerateInvalidate
    <2> QED BY <1>1, <1>5, <2>1, CountedOther DEF GenerateInvalidate
  <1>6. CASE GenerateInsert(g)
    BY <1>6, CountedInsert
  <1> QED BY <1>2, <1>3, <1>4, <1>5, <1>6 DEF GenStep

\* Every step of a verifier keeps the count.
LEMMA VerCounted ==
  ASSUME OtpInvariant, [Next]_vars, ConsumeBelowLimit, NEW i \in Generators, Counted(i),
         NEW v \in Verifiers, VerifyCall(v) \/ VerStep(v)
  PROVE  Counted(i)'
  <1>1. v \in Requests
    BY DEF Requests
  <1>2. CASE VerifyCall(v)
    <2>1. v \notin DOMAIN seen
      BY <1>2 DEF VerifyCall, Arrive, OtpInvariant, HasRow
    <2> QED BY <1>1, <1>2, <2>1, CountedOther DEF VerifyCall, Arrive, Ids
  <1>3. CASE VerifyNotFound(v)
    <2>1. v \notin DOMAIN seen
      BY <1>3 DEF VerifyNotFound, OtpInvariant, HasRow
    <2> QED BY <1>1, <1>3, <2>1, CountedOther DEF VerifyNotFound, Ids
  <1>4. CASE VerifyRead(v)
    BY <1>4, CountedRead
  <1>5. CASE VerifyJudge(v)
    <2>1. seen[v] \in Snapshot /\ now \in Nat
      BY <1>5 DEF VerifyJudge, OtpInvariant, HasRow, TypeOK
    <2>2. PICK c \in Codes : Goto(v, Verdict(seen[v], c, now))
      BY <1>5 DEF VerifyJudge
    <2>3. Verdict(seen[v], c, now) \notin {"mismatch", "accepted"}
      BY <2>1, VerdictType
    <2>4. pc[v] \in InProgress /\ UNCHANGED <<otp, seen>>
      BY <1>5 DEF VerifyJudge, InProgress
    <2> QED BY <1>1, <2>2, <2>3, <2>4, CountedMove DEF Ids
  <1>6. CASE VerifyExpire(v)
    <2>1. i \in Ids' => i \in Ids /\ otp'[i].attempts = otp[i].attempts
      BY <1>6, MarkKeepsAttempts DEF VerifyExpire
    <2> QED BY <1>1, <1>6, <2>1, CountedMove DEF VerifyExpire, InProgress
  <1>7. CASE VerifyExhaust(v)
    <2>1. i \in Ids' => i \in Ids /\ otp'[i].attempts = otp[i].attempts
      BY <1>7, MarkKeepsAttempts DEF VerifyExhaust
    <2> QED BY <1>1, <1>7, <2>1, CountedMove DEF VerifyExhaust, InProgress
  <1>8. CASE VerifyMiss(v)
    <2>1. CASE seen[v].id = i
      BY <1>8, <2>1, CountedMiss
    <2>2. CASE seen[v].id # i
      <3>1. seen[v].attempts + 1 \in Nat /\ \A j \in Ids : otp[j] \in Row
        BY <1>8 DEF VerifyMiss, OtpInvariant, HasRow, TypeOK, Snapshot
      <3>2. Ids' = Ids
        BY <1>8, <3>1, SetAttemptsFacts DEF VerifyMiss, Ids
      <3>3. i \in Ids' => i \in Ids /\ otp'[i].attempts = otp[i].attempts
        BY <1>8, <2>2, <3>1, <3>2, SetAttemptsFacts DEF VerifyMiss
      <3> QED BY <1>1, <1>8, <2>2, <3>3, CountedMove DEF VerifyMiss, InProgress
    <2> QED BY <2>1, <2>2
  <1>9. CASE VerifyConsume(v)
    <2>1. CASE seen[v].id = i
      BY <1>9, <2>1, CountedConsume
    <2>2. CASE seen[v].id # i
      <3>1. i \in Ids' => i \in Ids /\ otp'[i].attempts = otp[i].attempts
        BY <1>9, MarkKeepsAttempts DEF VerifyConsume
      <3> QED BY <1>1, <1>9, <2>2, <3>1, CountedMove DEF VerifyConsume, InProgress
    <2> QED BY <2>1, <2>2
  <1> QED BY <1>2, <1>3, <1>4, <1>5, <1>6, <1>7, <1>8, <1>9 DEF VerStep

\* Only the verdict sends a request to the UPDATE that accepts.
LEMMA ConsumeStep ==
  ASSUME OtpInvariant, [Next]_vars, ConsumeBelowLimit
  PROVE  ConsumeBelowLimit'
  <1> SUFFICES ASSUME NEW v \in DOMAIN seen', pc'[v] = "consume"
               PROVE  seen'[v].attempts < MaxAttempts
    BY DEF ConsumeBelowLimit
  <1>1. v \in Verifiers /\ v \in DOMAIN seen /\ seen'[v] = seen[v]
    <2>1. CASE UNCHANGED seen
      BY <2>1 DEF OtpInvariant, TypeOK
    <2>2. ASSUME NEW w \in Verifiers, VerifyRead(w)
          PROVE  v \in Verifiers /\ v \in DOMAIN seen /\ seen'[v] = seen[v]
      <3>1. DOMAIN seen' = DOMAIN seen \cup {w} /\ \A u \in DOMAIN seen : seen'[u] = seen[u]
        BY <2>2, ReadAdds
      <3>2. pc'[w] = "judge"
        BY <2>2 DEF VerifyRead, Goto, OtpInvariant, TypeOK, Requests
      <3> QED BY <3>1, <3>2 DEF OtpInvariant, TypeOK
    <2> QED BY <2>1, <2>2, SeenStep
  <1>2. CASE pc[v] = "consume"
    BY <1>1, <1>2 DEF ConsumeBelowLimit
  <1>3. CASE pc[v] # "consume"
    <2>1. seen[v] \in Snapshot /\ now \in Nat /\ pc \in [Requests -> GenPC \cup VerPC]
          /\ v \in Requests /\ v \notin Generators
      BY <1>1, OtpAssumption DEF OtpInvariant, TypeOK, Requests
    <2>2. ASSUME NEW g \in Generators, GenerateCall(g) \/ GenStep(g) PROVE FALSE
      BY <1>3, <2>1, <2>2 DEF GenerateCall, Arrive, GenStep, GenerateRefuse, GenerateProceed,
                         GenerateInvalidate, GenerateInsert, Goto
    <2>3. ASSUME NEW w \in Verifiers, VerifyCall(w) \/ VerStep(w)
          PROVE  w = v /\ VerifyJudge(v)
      BY <1>3, <2>1, <2>3 DEF VerifyCall, Arrive, VerStep, VerifyNotFound, VerifyRead, VerifyJudge,
                         VerifyExpire, VerifyExhaust, VerifyMiss, VerifyConsume, Goto
    <2>4. VerifyJudge(v)
      BY <1>3, <2>2, <2>3 DEF Next, Cleanup, Tick, Quiet, vars
    <2>5. PICK c \in Codes : Goto(v, Verdict(seen[v], c, now))
      BY <2>4 DEF VerifyJudge
    <2>6. Verdict(seen[v], c, now) = "consume"
      BY <2>1, <2>5 DEF Goto
    <2> QED BY <1>1, <2>1, <2>6, VerdictType
  <1> QED BY <1>2, <1>3

LEMMA GuessNext == OtpInvariant /\ GuessInvariant /\ [Next]_vars => GuessInvariant'
  <1> SUFFICES ASSUME OtpInvariant, GuessInvariant, [Next]_vars PROVE GuessInvariant'
    OBVIOUS
  <1>1. ConsumeBelowLimit /\ ConsumeBelowLimit'
    BY ConsumeStep DEF GuessInvariant
  <1>2. ASSUME NEW i \in Generators PROVE Counted(i)'
    <2>1. Counted(i)
      BY DEF GuessInvariant
    <2>2. CASE \E g \in Generators : GenerateCall(g) \/ GenStep(g)
      BY <2>1, <2>2, GenCounted
    <2>3. CASE \E v \in Verifiers : VerifyCall(v) \/ VerStep(v)
      BY <1>1, <2>1, <2>3, VerCounted
    <2>4. CASE Cleanup \/ Tick \/ UNCHANGED vars
      <3>1. UNCHANGED <<pc, seen>>
        BY <2>4 DEF Cleanup, Tick, vars
      <3>2. Readers(i)' = Readers(i) /\ Missed(i)' = Missed(i) /\ Accepted(i)' = Accepted(i)
        BY <3>1 DEF Readers, Missed, Accepted
      <3>4. Undisturbed(i)' \subseteq Undisturbed(i)
        BY <3>2, UndisturbedBefore DEF Undisturbed
      <3>3. i \in Ids' => i \in Ids /\ otp'[i].attempts = otp[i].attempts
        BY <2>4 DEF Cleanup, Tick, vars, Ids
      <3> QED BY <2>1, <3>1, <3>2, <3>3, <3>4, CountedKeeps DEF Readers
    <2> QED BY <2>2, <2>3, <2>4 DEF Next, Quiet
  <1> QED BY <1>1, <1>2 DEF GuessInvariant

\* The wrong codes compared with an OTP while no other verification of it was
\* going on are at most MAX_OTP_ATTEMPTS: the attempts column, which is written
\* from a stale read, counts these at least (otp.service.ts:120-135).
THEOREM GuessesStayBounded == Spec => []GuessesBounded
  <1>1. OtpInvariant /\ GuessInvariant => GuessesBounded
    BY DEF GuessInvariant, Counted, GuessesBounded
  <1> QED BY GuessInit, GuessNext, OtpInvariantHolds, <1>1, PTL DEF Spec

\* After MAX_OTP_ATTEMPTS such codes no verification is accepted, whatever it
\* overlaps with (otp.service.ts:121 before 129).
THEOREM LimitLocksOut == Spec => []LockedOut
  <1>1. OtpInvariant /\ GuessInvariant => LockedOut
    BY DEF GuessInvariant, Counted, LockedOut
  <1> QED BY GuessInit, GuessNext, OtpInvariantHolds, <1>1, PTL DEF Spec

--------------------------------------------------------------------------------
(***************************************************************************)
(* The flows: each of their steps is one of the OTP service, or none.      *)
(***************************************************************************)
\* Every step of a flow is a step of the OTP service or leaves it alone.
LEMMA FlowStepsOtp == [FlowNext]_flowVars => [Next]_vars
  <1> SUFFICES ASSUME FlowNext PROVE [Next]_vars
    BY DEF flowVars
  <1>1. ASSUME NEW g \in Generators, Generator(g) PROVE [Next]_vars
    <2>1. CASE SendFound(g)
      BY <2>1 DEF SendFound, Next
    <2>2. CASE GenStep(g)
      BY <2>2 DEF Next
    <2>3. CASE SendCall(g) \/ SendNoUser(g) \/ SendVerified(g) \/ SendMail(g) \/ LookupFails(g)
      BY <2>3 DEF SendCall, SendNoUser, SendVerified, SendMail, LookupFails
    <2> QED BY <1>1, <2>1, <2>2, <2>3 DEF Generator
  <1>2. ASSUME NEW v \in Verifiers, Verifier(v) PROVE [Next]_vars
    <2>1. CASE RedeemCall(v)
      BY <2>1 DEF RedeemCall, Next
    <2>2. CASE VerStep(v)
      BY <2>2 DEF Next
    <2>3. CASE RedeemNoUser(v) \/ RedeemFound(v) \/ LookupFails(v) \/ UNCHANGED <<vars, flow, known>>
      BY <2>3 DEF RedeemNoUser, RedeemFound, LookupFails
    <2> QED BY <1>2, <2>1, <2>2, <2>3 DEF Verifier
  <1>3. ASSUME NEW c \in Changers, Changer(c) PROVE [Next]_vars
    BY <1>3 DEF Changer
  <1>4. CASE (Cleanup \/ Tick) /\ UNCHANGED <<userVars, flow, known>>
    BY <1>4 DEF Next
  <1>5. CASE FlowAnswered /\ now = MaxTime /\ UNCHANGED flowVars
    BY <1>5 DEF flowVars
  <1> QED BY <1>1, <1>2, <1>3, <1>4, <1>5 DEF FlowNext

\* The flows implement the OTP service (auth.service.ts calls generateOtp and
\* verifyOtp and touches the table in no other way).
THEOREM FlowImplementsOtp == FlowSpec => Spec
  <1>1. FlowInit => Init
    BY DEF FlowInit
  <1> QED BY <1>1, FlowStepsOtp, PTL DEF FlowSpec, Spec

\* Therefore the inductive invariant of the OTP service holds of the flows.
LEMMA FlowOtpInvariant == FlowSpec => []OtpInvariant
  BY FlowImplementsOtp, OtpInvariantHolds, PTL

--------------------------------------------------------------------------------
\* What verifiers and changers do to the user.
LEMMA TasksOf ==
  /\ \A v \in Verifiers : v \in Writers /\ Task[v] \in {"reset", "verify"}
  /\ \A c \in Changers : c \in Writers /\ Task[c] \in {"activate", "deactivate", "profile", "delete"}
  <1>1. \A v \in Verifiers : KeyOf[v] \in Emails \X {"reset", "verify"}
    BY OtpAssumption, FlowAssumption DEF Requests
  <1> QED BY <1>1, FlowAssumption DEF Writers

\* No password has been changed when the program starts.
LEMMA FlowInitInvariant == FlowInit => FlowInvariant
  <1> SUFFICES ASSUME FlowInit PROVE FlowInvariant
    OBVIOUS
  <1>1. row.password = "original" /\ step = [w \in Writers |-> "idle"] /\ DOMAIN entity = {}
    BY DEF FlowInit, U!Init
  <1>2. flow = [r \in Requests |-> "idle"] /\ \A g \in Generators : pc[g] = "idle"
    BY DEF FlowInit, Init, Requests
  <1> QED BY <1>1, <1>2 DEF FlowInvariant, U!PC, Writers, U!Savers, Authorised

\* An accepted verification stays accepted, and a request of the OTP service
\* that moves has been in a flow.
LEMMA OtpStepKeeps ==
  ASSUME TypeOK, NEW r \in Requests, NEW l, Goto(r, l), pc[r] # "accepted", UNCHANGED userVars
  PROVE  /\ \A v \in Verifiers : pc[v] = "accepted" => pc'[v] = "accepted"
         /\ \A q \in Requests \ {r} : pc'[q] = pc[q]
         /\ Authorised \subseteq Authorised'
  BY DEF TypeOK, Goto, Requests, Authorised, userVars

\* FlowInvariant across a step that moves one request of the OTP service and
\* leaves the user alone.
LEMMA FlowMove ==
  ASSUME TypeOK, FlowInvariant, NEW r \in Requests, NEW l, Goto(r, l), pc[r] # "accepted",
         UNCHANGED userVars,
         flow' \in [Requests -> {"idle", "lookup", "noUser", "verified", "generate",
                                 "queued", "failed", "verify", "update", "error"}],
         \A q \in Requests \ {r} : flow'[q] = flow[q],
         r \in Generators => flow'[r] \in {"generate", "queued", "failed"}
  PROVE  FlowInvariant'
  <1>1. /\ \A v \in Verifiers : pc[v] = "accepted" => pc'[v] = "accepted"
        /\ \A q \in Requests \ {r} : pc'[q] = pc[q]
        /\ Authorised \subseteq Authorised'
    BY OtpStepKeeps
  <1>2. \A g \in Generators : pc'[g] # "idle" => flow'[g] \in {"generate", "queued", "failed"}
    BY <1>1 DEF FlowInvariant, Requests
  <1> QED BY <1>1, <1>2 DEF FlowInvariant, userVars

\* FlowInvariant across a step that leaves the OTP service and the user alone.
LEMMA FlowOnly ==
  ASSUME FlowInvariant, NEW r \in Requests, NEW a, NEW b, Move(r, a, b),
         UNCHANGED <<vars, userVars>>,
         a \notin {"generate", "queued", "failed"} \/ b \in {"queued", "failed"},
         b \in {"lookup", "noUser", "verified", "queued", "failed", "error"}
  PROVE  FlowInvariant'
  BY DEF FlowInvariant, Move, vars, userVars, Authorised, Requests

\* FlowInvariant across a SELECT of the user that is refused.
LEMMA FlowLookupFails ==
  ASSUME FlowInvariant, NEW r \in Requests, LookupFails(r)
  PROVE  FlowInvariant'
  <1>1. CASE flow[r] = "lookup"
    BY <1>1, FlowOnly DEF LookupFails
  <1>2. CASE flow[r] = "verify"
    BY <1>2, FlowOnly DEF LookupFails
  <1> QED BY <1>1, <1>2 DEF LookupFails

\* FlowInvariant across a statement of a request that updates the user.
LEMMA FlowUser ==
  ASSUME FlowInvariant, NEW w \in Writers, U!Step(w), UNCHANGED <<vars, flow, known>>
  PROVE  FlowInvariant'
  <1> USE FlowAssumption DEF Writers
  <1>1. Authorised \subseteq Authorised' /\ UNCHANGED pc /\ step[w] # "idle" /\ step'[w] # "idle"
    <2>1. UNCHANGED pc /\ step[w] # "idle" /\ step'[w] # "idle"
          /\ \A q \in Writers \ {w} : step'[q] = step[q]
      BY DEF vars, FlowInvariant, U!Step, U!NotFound, U!SaveFind, U!SaveLoad, U!SaveWrite,
             U!DirectFind, U!DirectWrite, U!Fail, U!Goto
    <2> QED BY <2>1 DEF Authorised
  <1>2. CASE U!NotFound(w) \/ U!SaveLoad(w) \/ U!DirectFind(w) \/ U!Fail(w)
    <2>1. /\ step' \in [Writers -> U!PC]
          /\ \A q \in Writers \ {w} : step'[q] = step[q]
          /\ step'[w] = "write" /\ w \in U!Savers => step[w] = "load"
          /\ step'[w] # "load"
      BY <1>2 DEF U!NotFound, U!SaveLoad, U!DirectFind, U!Fail, U!Goto, FlowInvariant, U!PC, U!Final
    <2>2. UNCHANGED <<row, entity>>
      BY <1>2 DEF U!NotFound, U!SaveLoad, U!DirectFind, U!Fail
    <2> QED BY <1>1, <2>1, <2>2 DEF FlowInvariant, vars, U!Savers
  <1>3. CASE U!SaveFind(w)
    <2>1. /\ step[w] = "find" /\ step' = [step EXCEPT ![w] = "load"] /\ UNCHANGED row
          /\ entity' = [s \in DOMAIN entity \cup {w} |->
                          IF s = w THEN U!Assign(row, U!Body(w)) ELSE entity[s]]
      BY <1>3 DEF U!SaveFind, U!Goto
    <2>2. U!Assign(row, U!Body(w)).password \in Authorised
      <3>1. CASE Task[w] = "reset"
        <4>1. w \in Verifiers /\ pc[w] = "accepted"
          BY <2>1, <3>1 DEF FlowInvariant
        <4>2. U!Assign(row, U!Body(w)).password = w
          BY <3>1 DEF U!Assign, U!Columns, U!Body
        <4> QED BY <3>1, <4>1, <4>2 DEF Authorised
      <3>2. CASE Task[w] = "profile" /\ "password" \in DOMAIN Patch[w]
        <4>1. w \in Changers /\ U!IsPatch(w, Patch[w]) /\ U!Body(w) = Patch[w]
          BY <3>2, TasksOf DEF U!Body
        <4>2. U!Assign(row, U!Body(w)).password = w
          BY <3>2, <4>1 DEF U!Assign, U!Columns, U!IsPatch, U!Named
        <4> QED BY <1>1, <3>2, <4>1, <4>2 DEF Authorised
      <3>3. CASE Task[w] # "reset" /\ ~(Task[w] = "profile" /\ "password" \in DOMAIN Patch[w])
        <4>1. "password" \notin DOMAIN U!Body(w)
          BY <3>3 DEF U!Body, U!Tasks
        <4>2. U!Assign(row, U!Body(w)).password = row.password
          BY <4>1 DEF U!Assign, U!Columns
        <4> QED BY <4>2 DEF FlowInvariant
      <3> QED BY <3>1, <3>2, <3>3
    <2>3. \A q \in DOMAIN entity' : entity'[q].password \in Authorised
      BY <2>1, <2>2 DEF FlowInvariant
    <2>4. step' \in [Writers -> U!PC] /\ \A q \in Writers \ {w} : step'[q] = step[q]
      BY <2>1 DEF FlowInvariant, U!PC
    <2>5. \A q \in U!Savers : step'[q] \in {"load", "write"} => q \in DOMAIN entity'
      BY <2>1, <2>4 DEF FlowInvariant, U!Savers
    <2>6. \A v \in Verifiers : step'[v] # "idle" => pc[v] = "accepted"
      BY <2>1, <2>4 DEF FlowInvariant
    <2> QED BY <1>1, <2>1, <2>3, <2>4, <2>5, <2>6 DEF FlowInvariant
  <1>4. CASE U!SaveWrite(w) \/ U!DirectWrite(w)
    <2>1. /\ step[w] = "write" /\ UNCHANGED entity
          /\ \E answer \in {"done", "error"} : step' = [step EXCEPT ![w] = answer]
      BY <1>4 DEF U!SaveWrite, U!DirectWrite, U!Goto
    <2>2. row'.password \in Authorised
      <3>1. CASE U!SaveWrite(w)
        <4>1. w \in DOMAIN entity /\ row'.password \in {entity[w].password, row.password}
          BY <2>1, <3>1 DEF U!SaveWrite, U!Columns, FlowInvariant
        <4> QED BY <4>1 DEF FlowInvariant
      <3>2. CASE U!DirectWrite(w)
        <4>1. "password" \notin DOMAIN U!Body(w)
          BY <3>2 DEF U!DirectWrite, U!Savers, U!Body
        <4>2. row'.password = row.password
          BY <3>2, <4>1 DEF U!DirectWrite, U!Assign, U!Columns
        <4> QED BY <4>2 DEF FlowInvariant
      <3> QED BY <1>4, <3>1, <3>2
    <2>3. step' \in [Writers -> U!PC] /\ \A q \in Writers \ {w} : step'[q] = step[q]
      BY <2>1 DEF FlowInvariant, U!PC, U!Final
    <2>4. step'[w] \in {"done", "error"} /\ w \in Writers
      BY <2>1 DEF FlowInvariant
    <2>5. \A q \in U!Savers : step'[q] \in {"load", "write"} => q \in DOMAIN entity'
      BY <2>1, <2>3, <2>4 DEF FlowInvariant, U!Savers
    <2>6. \A v \in Verifiers : step'[v] # "idle" => pc[v] = "accepted"
      BY <2>1, <2>3 DEF FlowInvariant
    <2> QED BY <1>1, <2>1, <2>2, <2>3, <2>5, <2>6 DEF FlowInvariant
  <1>5. U!NotFound(w) \/ U!SaveLoad(w) \/ U!DirectFind(w) \/ U!Fail(w) \/ U!SaveFind(w)
        \/ U!SaveWrite(w) \/ U!DirectWrite(w)
    BY DEF U!Step
  <1> QED BY <1>2, <1>3, <1>4, <1>5

\* FlowInvariant across the start of an update: an accepted reset or
\* verification that found the user, or a request of an administrator.
LEMMA FlowCall ==
  ASSUME FlowInvariant, NEW w \in Writers, U!Call(w), UNCHANGED vars,
         flow' \in [Requests -> {"idle", "lookup", "noUser", "verified", "generate",
                                 "queued", "failed", "verify", "update", "error"}],
         \A g \in Generators : flow'[g] = flow[g],
         w \in Verifiers => pc[w] = "accepted"
  PROVE  FlowInvariant'
  <1>1. Authorised \subseteq Authorised' /\ UNCHANGED <<pc, row, entity>>
    BY DEF vars, Authorised, U!Call, U!Goto, FlowInvariant, Writers
  <1>2. /\ step' \in [Writers -> U!PC] /\ step'[w] = "find"
        /\ \A q \in Writers \ {w} : step'[q] = step[q]
    BY DEF FlowInvariant, U!Call, U!Goto, U!PC
  <1>3. \A q \in U!Savers : step'[q] \in {"load", "write"} => q \in DOMAIN entity'
    BY <1>1, <1>2 DEF FlowInvariant, U!Savers
  <1>4. \A v \in Verifiers : step'[v] # "idle" => pc[v] = "accepted"
    BY <1>2 DEF FlowInvariant, Writers
  <1> QED BY <1>1, <1>2, <1>3, <1>4 DEF FlowInvariant

\* Every step of the flows keeps FlowInvariant: one case per action.
LEMMA FlowNextInvariant ==
  OtpInvariant /\ FlowInvariant /\ [FlowNext]_flowVars => FlowInvariant'
  <1> SUFFICES ASSUME OtpInvariant, FlowInvariant, [FlowNext]_flowVars PROVE FlowInvariant'
    OBVIOUS
  <1> DEFINE Flows == {"idle", "lookup", "noUser", "verified", "generate",
                       "queued", "failed", "verify", "update", "error"}
  <1>0. TypeOK /\ flow \in [Requests -> Flows]
    BY DEF OtpInvariant, FlowInvariant
  <1>1. ASSUME NEW g \in Generators, Generator(g) PROVE FlowInvariant'
    <2>0. g \in Requests
      BY DEF Requests
    <2>1. CASE SendCall(g)
      BY <2>0, <2>1, FlowOnly DEF SendCall
    <2>2. CASE SendNoUser(g)
      BY <2>0, <2>2, FlowOnly DEF SendNoUser
    <2>3. CASE SendVerified(g)
      BY <2>0, <2>3, FlowOnly DEF SendVerified
    <2>4. CASE SendMail(g)
      BY <2>0, <2>4, FlowOnly DEF SendMail
    <2>7. CASE LookupFails(g)
      BY <2>0, <2>7, FlowLookupFails
    <2>5. CASE SendFound(g)
      <3>1. /\ pc[g] = "idle" /\ Goto(g, "check") /\ flow[g] = "lookup"
            /\ flow' = [flow EXCEPT ![g] = "generate"] /\ UNCHANGED userVars
        BY <2>5 DEF SendFound, GenerateCall, Arrive, Move
      <3>2. flow' \in [Requests -> Flows] /\ flow'[g] = "generate"
            /\ \A q \in Requests \ {g} : flow'[q] = flow[q]
        BY <1>0, <2>0, <3>1
      <3> QED BY <1>0, <2>0, <3>1, <3>2, FlowMove
    <2>6. CASE GenStep(g) /\ UNCHANGED <<userVars, flow, known>>
      <3>1. PICK l : Goto(g, l) /\ pc[g] # "accepted" /\ pc[g] # "idle"
        BY <2>6 DEF GenStep, GenerateRefuse, GenerateProceed, GenerateInvalidate, GenerateInsert
      <3>2. flow[g] \in {"generate", "queued", "failed"}
        BY <3>1 DEF FlowInvariant
      <3> QED BY <1>0, <2>0, <2>6, <3>1, <3>2, FlowMove
    <2> QED BY <1>1, <2>1, <2>2, <2>3, <2>4, <2>5, <2>6, <2>7 DEF Generator
  <1>2. ASSUME NEW v \in Verifiers, Verifier(v) PROVE FlowInvariant'
    <2>0. v \in Requests /\ v \in Writers /\ v \notin Generators
      BY OtpAssumption DEF Requests, Writers
    <2>1. CASE RedeemCall(v)
      <3>1. /\ pc[v] = "idle" /\ Goto(v, "read")
            /\ flow' = [flow EXCEPT ![v] = "verify"] /\ UNCHANGED userVars
        BY <2>1 DEF RedeemCall, VerifyCall, Arrive, Move
      <3>2. flow' \in [Requests -> Flows] /\ \A q \in Requests \ {v} : flow'[q] = flow[q]
        BY <1>0, <2>0, <3>1
      <3> QED BY <1>0, <2>0, <3>1, <3>2, FlowMove
    <2>2. CASE RedeemNoUser(v)
      BY <2>0, <2>2, FlowOnly DEF RedeemNoUser
    <2>3. CASE RedeemFound(v)
      <3>1. /\ pc[v] = "accepted" /\ U!Call(v) /\ UNCHANGED vars
            /\ flow' = [flow EXCEPT ![v] = "update"]
        BY <2>3 DEF RedeemFound, Move
      <3>2. flow' \in [Requests -> Flows] /\ \A g \in Generators : flow'[g] = flow[g]
        BY <1>0, <2>0, <3>1 DEF Requests
      <3> QED BY <2>0, <3>1, <3>2, FlowCall
    <2>4. CASE VerStep(v) /\ UNCHANGED <<userVars, flow, known>>
      <3>1. PICK l : Goto(v, l) /\ pc[v] # "accepted"
        BY <2>4 DEF VerStep, VerifyNotFound, VerifyRead, VerifyJudge, VerifyExpire,
                    VerifyExhaust, VerifyMiss, VerifyConsume
      <3> QED BY <1>0, <2>0, <2>4, <3>1, FlowMove
    <2>5. CASE U!Step(v) /\ UNCHANGED <<vars, flow, known>>
      BY <2>0, <2>5, FlowUser
    <2>6. CASE LookupFails(v)
      BY <2>0, <2>6, FlowLookupFails
    <2> QED BY <1>2, <2>1, <2>2, <2>3, <2>4, <2>5, <2>6 DEF Verifier
  <1>3. ASSUME NEW c \in Changers, Changer(c) PROVE FlowInvariant'
    <2>0. c \in Writers /\ c \notin Verifiers
      BY FlowAssumption DEF Writers, Requests
    <2>1. CASE U!Call(c)
      BY <1>0, <1>3, <2>0, <2>1, FlowCall DEF Changer
    <2>2. CASE U!Step(c)
      BY <1>3, <2>0, <2>2, FlowUser DEF Changer
    <2> QED BY <1>3, <2>1, <2>2 DEF Changer
  <1>4. CASE UNCHANGED <<pc, userVars, flow>>
    BY <1>4 DEF FlowInvariant, userVars, Authorised
  <1>5. CASE (Cleanup \/ Tick) /\ UNCHANGED <<userVars, flow, known>>
    BY <1>4, <1>5 DEF Cleanup, Tick
  <1>6. CASE UNCHANGED flowVars
    BY <1>4, <1>6 DEF flowVars, vars
  <1> QED BY <1>1, <1>2, <1>3, <1>5, <1>6 DEF FlowNext

\* The inductive invariant of the flows, beside the one of the OTP service.
THEOREM FlowInvariantHolds == FlowSpec => []FlowInvariant
  BY FlowInitInvariant, FlowNextInvariant, FlowOtpInvariant, PTL DEF FlowSpec

\* A password that is not the original one was chosen by a reset that has shown
\* the code of an OTP sent, for resets, to the address it looked the user up by
\* (auth.service.ts:97-113), or stood in the body of a profile request
\* (user.service.ts:86-93), whatever saves of old copies overlap with it.
THEOREM PasswordsAreAuthorised == FlowSpec => []PasswordAuthorised
  <1>1. OtpInvariant /\ FlowInvariant => PasswordAuthorised
    <2> SUFFICES ASSUME OtpInvariant, FlowInvariant, row.password # "original",
                        row.password \notin Changers
                 PROVE  /\ row.password \in Verifiers
                        /\ Purpose(row.password) = "reset" /\ Proved(row.password)
      <3>1. ASSUME FlowInvariant, row.password \in Changers, row.password # "original"
            PROVE  row.password \in {c \in Changers : /\ Task[c] = "profile" /\ step[c] # "idle"
                                                      /\ "password" \in DOMAIN Patch[c]}
        <4>1. row.password \notin Verifiers
          BY <3>1, FlowAssumption DEF Requests
        <4> QED BY <3>1, <4>1 DEF FlowInvariant, Authorised
      <3> QED BY <3>1 DEF PasswordAuthorised
    <2> DEFINE v == row.password
    <2>1. v \in Verifiers /\ Task[v] = "reset" /\ pc[v] = "accepted"
      BY DEF FlowInvariant, Authorised
    <2>2. Purpose(v) = "reset"
      BY <2>1, FlowAssumption DEF Purpose
    <2>3. v \in DOMAIN seen
      BY <2>1 DEF OtpInvariant, HasRow
    <2>4. pc[seen[v].id] = "sent" /\ KeyOf[seen[v].id] = KeyOf[v] /\ seen[v].id \in Generators
      BY <2>3 DEF OtpInvariant, Held, TypeOK, Snapshot
    <2>5. flow[seen[v].id] \in {"generate", "queued", "failed"}
      BY <2>4 DEF FlowInvariant
    <2> QED BY <2>1, <2>2, <2>4, <2>5 DEF Proved
  <1> QED BY <1>1, FlowInvariantHolds, FlowOtpInvariant, PTL

--------------------------------------------------------------------------------
(***************************************************************************)
(* The user: the flows run the user service as UserRow specifies it, so    *)
(* its theorems hold of them too.                                          *)
(***************************************************************************)
UP == INSTANCE UserRowProofs WITH Requests <- Writers, pc <- step, before <- prior

\* What a step of the flows does to the user: nothing, an arrival, or one
\* statement of a request that has arrived.
LEMMA FlowUserCases ==
  ASSUME [FlowNext]_flowVars
  PROVE  \/ UNCHANGED userVars
         \/ \E v \in Verifiers : RedeemFound(v)
         \/ \E c \in Changers : U!Call(c) /\ UNCHANGED <<vars, flow, known>>
         \/ \E w \in Writers : U!Step(w) /\ UNCHANGED <<vars, flow, known>>
  <1>1. ASSUME NEW g \in Generators, Generator(g) PROVE UNCHANGED userVars
    BY <1>1 DEF Generator, SendCall, SendNoUser, SendVerified, SendFound, SendMail, LookupFails
  <1>2. ASSUME NEW v \in Verifiers, Verifier(v)
        PROVE  UNCHANGED userVars \/ RedeemFound(v) \/ (U!Step(v) /\ UNCHANGED <<vars, flow, known>>)
    BY <1>2 DEF Verifier, RedeemCall, RedeemNoUser, LookupFails
  <1>3. ASSUME NEW c \in Changers, Changer(c)
        PROVE  (U!Call(c) \/ U!Step(c)) /\ UNCHANGED <<vars, flow, known>>
    BY <1>3 DEF Changer
  <1>4. CASE UNCHANGED flowVars
    BY <1>4 DEF flowVars
  <1> QED BY <1>1, <1>2, <1>3, <1>4 DEF FlowNext, Writers

\* The instance of UserRow in AuthFlow is the one the theorems are about.
LEMMA SameStep == \A w \in Writers : U!Step(w) => UP!Step(w)
  BY DEF U!Step, UP!Step, U!Fail, UP!Fail, U!NotFound, UP!NotFound, U!SaveFind, UP!SaveFind,
         U!SaveLoad, UP!SaveLoad, U!SaveWrite, UP!SaveWrite, U!DirectFind, UP!DirectFind,
         U!DirectWrite, UP!DirectWrite, U!Goto, UP!Goto, U!Savers, UP!Savers,
         U!Assign, UP!Assign, U!Columns, UP!Columns, U!Body, UP!Body

\* So its initial states and its steps are the same too.
LEMMA SameUser == (U!Init => UP!Init) /\ ([U!Next]_(U!vars) => [UP!Next]_(UP!vars))
  <1>1. \A w \in Writers : U!Call(w) => UP!Call(w)
    BY DEF U!Call, UP!Call, U!Goto, UP!Goto, U!Finished, UP!Finished, U!Final, UP!Final
  <1>2. U!Quiet \/ UNCHANGED U!vars => UNCHANGED UP!vars
    BY DEF U!Quiet, U!vars, UP!vars
  <1>3. U!Init => UP!Init
    BY DEF U!Init, UP!Init
  <1> QED BY <1>1, <1>2, <1>3, SameStep DEF U!Next, UP!Next

\* The assumption of UserRow, of the verifiers and the changers.
LEMMA UserAssumption ==
  /\ Task \in [Writers -> UP!Tasks]
  /\ \A c \in Writers : Task[c] = "profile" => UP!IsPatch(c, Patch[c])
  /\ "original" \notin Writers
  <1>1. \A c \in Writers : Task[c] = "profile" => c \in Changers
    BY TasksOf DEF Writers
  <1> QED BY <1>1, FlowAssumption
          DEF U!Tasks, UP!Tasks, U!IsPatch, UP!IsPatch, U!Columns, UP!Columns, U!Named, UP!Named

\* Every step of a flow is a step of the user service or leaves it alone.
LEMMA FlowStepsUser == [FlowNext]_flowVars => [U!Next]_(U!vars)
  <1> SUFFICES ASSUME [FlowNext]_flowVars PROVE U!Next \/ UNCHANGED U!vars
    OBVIOUS
  <1>1. CASE UNCHANGED userVars
    BY <1>1 DEF userVars, U!vars
  <1>2. ASSUME NEW v \in Verifiers, RedeemFound(v) PROVE U!Next
    BY <1>2 DEF RedeemFound, U!Next, Writers
  <1>3. ASSUME NEW w \in Writers, U!Call(w) \/ U!Step(w) PROVE U!Next
    BY <1>3 DEF U!Next
  <1> QED BY <1>1, <1>2, <1>3, FlowUserCases DEF Writers

\* The flows and the administrator implement the updates of the user's row
\* (auth.service.ts and identity.service.ts call the user service and touch the
\* row in no other way).
THEOREM FlowImplementsUserRow == FlowSpec => U!Spec
  <1>1. FlowInit => U!Init
    BY DEF FlowInit
  <1> QED BY <1>1, FlowStepsUser, PTL DEF FlowSpec, U!Spec

\* Therefore the inductive invariant of the updates holds of the flows.
LEMMA FlowRowInvariant == FlowSpec => []UP!RowInvariant
  <1>1. UP!Spec => []UP!RowInvariant
    BY UserAssumption, UP!RowInvariantHolds
  <1>2. FlowInit => UP!Init
    BY SameUser DEF FlowInit
  <1>3. [FlowNext]_flowVars => [UP!Next]_(UP!vars)
    BY SameUser, FlowStepsUser
  <1> QED BY <1>1, <1>2, <1>3, PTL DEF FlowSpec, UP!Spec

--------------------------------------------------------------------------------
(***************************************************************************)
(* A moved user is out of reach of the old address.                        *)
(***************************************************************************)

\* The address of a user whose move was answered, with no other at work on it
\* and no later change of the profile, is the one it moved to.
LEMMA MovedAddress ==
  ASSUME UP!RowInvariant, NEW p \in Changers, "profile" \in U!Sets(p), step[p] = "done",
         \A s \in Writers : ~U!Overlap(p, s),
         \A s \in Changers : p \in prior[s] => "profile" \notin U!Sets(s)
  PROVE  row.profile = p
  <1>1. p \in Writers /\ "profile" \in UP!Sets(p)
    BY TasksOf DEF UP!Sets, UP!Body, U!Sets, U!Body
  <1>2. UP!Body(p)["profile"] = p
    <2>1. Task[p] = "profile"
      BY <1>1, TasksOf DEF UP!Sets, UP!Body
    <2>2. UP!IsPatch(p, Patch[p]) /\ UP!Body(p) = Patch[p]
      BY <1>1, <2>1, UserAssumption DEF UP!Body
    <2> QED BY <1>1, <2>2 DEF UP!IsPatch, UP!Named, UP!Sets
  <1>3. \A s \in Writers : ~UP!Overlap(p, s)
    BY DEF UP!Overlap, U!Overlap
  <1>4. ~UP!Rewrites(p, "profile")
    <2> SUFFICES ASSUME NEW s \in Writers \ {p}, "profile" \in UP!Sets(s), step[s] # "idle", s \notin prior[p]
                 PROVE  FALSE
      BY DEF UP!Rewrites
    <2>1. p \in prior[s]
      BY <1>3 DEF UP!Overlap
    <2>2. CASE s \in Changers
      BY <2>1, <2>2 DEF UP!Sets, UP!Body, U!Sets, U!Body
    <2>3. CASE s \in Verifiers
      BY <2>3, TasksOf DEF UP!Sets, UP!Body
    <2> QED BY <2>2, <2>3 DEF Writers
  <1>5. row["profile"] = UP!Body(p)["profile"]
    <2>1. ~UP!WritesBack(p, "profile", row["profile"])
      BY <1>3 DEF UP!WritesBack, UP!Savers
    <2> QED BY <1>1, <1>4, <2>1 DEF UP!RowInvariant, UP!Kept, UP!Settled, UP!Explained
  <1> QED BY <1>2, <1>5

LEMMA AddresseeNext ==
  UP!RowInvariant /\ FlowInvariant /\ AddresseeOnly /\ [FlowNext]_flowVars => AddresseeOnly'
  <1> SUFFICES ASSUME UP!RowInvariant, FlowInvariant, AddresseeOnly, [FlowNext]_flowVars,
                      NEW p \in Changers, NEW v \in Verifiers,
                      "profile" \in U!Sets(p), step'[p] = "done", Holds[p] # Email(v),
                      \A s \in Writers : ~U!Overlap(p, s)',
                      \A s \in Changers : p \in prior'[s] => "profile" \notin U!Sets(s),
                      p \in prior'[v]
               PROVE  FALSE
    BY DEF AddresseeOnly, Email, U!Sets, U!Body
  <1>1. p \in Writers /\ v \in Writers /\ \A c \in Changers : c \in Writers
    BY TasksOf
  <1>2. [UP!Next]_(UP!vars)
    BY SameUser, FlowStepsUser
  <1>3. \A s \in Writers : prior[s] \subseteq prior'[s]
    BY <1>2, UserAssumption, UP!ConditionsStep
  <1>4. step[p] # "idle" => \A s \in Writers : ~U!Overlap(p, s)
    <2>1. UP!Alone(p)'
      BY DEF UP!Alone, UP!Overlap, U!Overlap
    <2>2. step[p] # "idle" => UP!Alone(p)
      BY <1>1, <1>2, <2>1, UserAssumption, UP!ConditionsStep
    <2> QED BY <2>2 DEF UP!Alone, UP!Overlap, U!Overlap
  <1>5. CASE p \in prior[v]
    <2>1. step[p] \in {"notFound", "done", "error"}
      BY <1>1, <1>5 DEF UP!RowInvariant, UP!Past, UP!Finished, UP!Final
    <2>2. step[p] = "done"
      BY <1>1, <1>2, <2>1 DEF UP!Next, UP!vars, UP!Quiet, UP!Call, UP!Step, UP!Fail, UP!NotFound,
         UP!SaveFind, UP!SaveLoad, UP!SaveWrite, UP!DirectFind, UP!DirectWrite, UP!Goto,
         UP!RowInvariant, UP!TypeOK
    <2> QED BY <1>1, <1>3, <1>4, <1>5, <2>2 DEF AddresseeOnly
  <1>6. CASE p \notin prior[v]
    <2>1. RedeemFound(v)
      <3>1. ASSUME NEW w \in Writers, w # v, U!Call(w) PROVE prior'[v] = prior[v]
        BY <1>1, <3>1 DEF U!Call, UP!RowInvariant, UP!TypeOK
      <3>2. ASSUME NEW w \in Writers, U!Step(w) PROVE UNCHANGED prior
        BY <3>2 DEF U!Step, U!Fail, U!NotFound, U!SaveFind, U!SaveLoad, U!SaveWrite,
                    U!DirectFind, U!DirectWrite
      <3>3. \A c \in Changers : c # v
        BY FlowAssumption DEF Requests
      <3> QED BY <1>6, <3>1, <3>2, <3>3, TasksOf, FlowUserCases DEF RedeemFound, userVars
    <2>2. step[p] = "done" /\ \A s \in Writers : s # v => prior'[s] = prior[s]
      <3>1. p # v
        BY FlowAssumption DEF Requests
      <3> QED BY <1>1, <2>1, <3>1 DEF RedeemFound, U!Call, U!Goto, UP!RowInvariant, UP!TypeOK
    <2>3. row.profile = p
      BY <1>1, <1>3, <1>4, <2>2, MovedAddress
    <2> QED BY <2>1, <2>3 DEF RedeemFound, HasAddress
  <1> QED BY <1>5, <1>6

\* A user that moved is not updated with an OTP of the old address, whatever
\* overlaps with the OTP (auth.service.ts:104, 155).
THEOREM OnlyTheAddresseeUpdates == FlowSpec => []AddresseeOnly
  <1>1. FlowInit => AddresseeOnly
    <2> SUFFICES ASSUME FlowInit, NEW p \in Changers PROVE step[p] # "done"
      BY DEF AddresseeOnly
    <2>1. step = [w \in Writers |-> "idle"]
      BY DEF FlowInit, U!Init
    <2> QED BY <2>1, TasksOf
  <1> QED BY <1>1, AddresseeNext, FlowInvariantHolds, FlowRowInvariant, PTL DEF FlowSpec

--------------------------------------------------------------------------------
(***************************************************************************)
(* Nobody is sent an OTP that can not be redeemed.                         *)
(***************************************************************************)
Served == {"generate", "queued", "failed"}

\* A change of the address or of the deletion that has been served.
Changed(c) == Relocates(c) /\ step[c] \in {"done", "error"}

\* One of them was served after the request g had found the user.
Since(g) == \E c \in Changers : Changed(c) /\ c \notin known[g]

\* None of them overlapped with another update.
Apart == \A c \in Changers : Changed(c) => \A w \in Writers : ~U!Overlap(c, w)

\* Then a save that sets neither column has them as they are in the row, and
\* whoever was sent an OTP is still found, or somebody was changed since.
Placed ==
  /\ \A w \in UP!Savers : step[w] \in {"load", "write"} /\ ~Relocates(w) =>
       entity[w].profile = row.profile /\ entity[w].deletedAt = row.deletedAt
  /\ \A g \in Generators : flow[g] \in Served => HasAddress(Email(g)) \/ Since(g)
  /\ \A v \in Verifiers : flow[v] = "noUser" \/ step[v] = "notFound" => Since(seen[v].id)

StayInvariant ==
  /\ \A g \in Generators : known[g] \subseteq U!Finished
  /\ known = [g \in Generators |-> known[g]]
  /\ \A v \in Verifiers : flow[v] = "noUser" => pc[v] = "accepted"
  /\ Apart => Placed

\* Only changers relocate the user, and a deletion does.
LEMMA WhoRelocates ==
  /\ \A v \in Verifiers : ~Relocates(v)
  /\ \A w \in Writers : Task[w] = "delete" => Relocates(w)
  <1>1. \A v \in Verifiers : ~Relocates(v)
    BY TasksOf DEF Relocates, U!Sets, U!Body
  <1> QED BY <1>1 DEF Relocates, U!Sets, U!Body

\* A body that does not relocate the user leaves the two columns alone.
LEMMA Unrelocated ==
  ASSUME NEW w \in Writers, ~Relocates(w), NEW user
  PROVE  /\ UP!Assign(user, UP!Body(w)).profile = user.profile
         /\ UP!Assign(user, UP!Body(w)).deletedAt = user.deletedAt
  <1>1. "profile" \notin DOMAIN UP!Body(w) /\ "deletedAt" \notin DOMAIN UP!Body(w)
    BY DEF Relocates, U!Sets, U!Body, UP!Body
  <1> QED BY <1>1 DEF UP!Assign, UP!Columns

LEMMA StayInit == FlowInit => StayInvariant
  <1> SUFFICES ASSUME FlowInit PROVE StayInvariant
    OBVIOUS
  <1>1. step = [w \in Writers |-> "idle"] /\ known = [g \in Generators |-> {}]
    BY DEF FlowInit, U!Init
  <1>2. \A r \in Requests : flow[r] = "idle"
    BY DEF FlowInit
  <1> QED BY <1>1, <1>2 DEF StayInvariant, Placed, Served, Writers, Requests, UP!Savers

\* Who has shown an OTP was sent it by a request that had found the user.
LEMMA ProofOfSender ==
  ASSUME OtpInvariant, FlowInvariant, NEW v \in Verifiers, pc[v] = "accepted"
  PROVE  /\ seen[v].id \in Generators /\ Email(seen[v].id) = Email(v)
         /\ flow[seen[v].id] \in Served
  <1>1. v \in DOMAIN seen
    BY DEF OtpInvariant, HasRow
  <1>2. pc[seen[v].id] = "sent" /\ KeyOf[seen[v].id] = KeyOf[v] /\ seen[v].id \in Generators
    BY <1>1 DEF OtpInvariant, Held, TypeOK, Snapshot
  <1> QED BY <1>2 DEF FlowInvariant, Served, Email

\* What was served stays served, and what overlapped with it stays known.
LEMMA ChangedStep ==
  ASSUME UP!RowInvariant, [UP!Next]_(UP!vars)
  PROVE  /\ \A c \in Changers : Changed(c) => Changed(c)'
         /\ UP!Finished \subseteq UP!Finished'
         /\ Apart' => Apart
  <1>1. \A c \in Changers : Changed(c) => Changed(c)'
    <2>1. \A c \in Writers : step[c] \in {"done", "error"} => step'[c] = step[c]
      BY DEF UP!Next, UP!vars, UP!Quiet, UP!Call, UP!Step, UP!Fail, UP!NotFound,
         UP!SaveFind, UP!SaveLoad, UP!SaveWrite, UP!DirectFind, UP!DirectWrite, UP!Goto,
         UP!RowInvariant, UP!TypeOK
    <2> QED BY <2>1, TasksOf DEF Changed, Relocates, U!Sets, U!Body
  <1>2. UP!Finished \subseteq UP!Finished'
    BY UserAssumption, UP!ConditionsStep
  <1>3. \A r \in Writers : step[r] # "idle" /\ UP!Alone(r)' => UP!Alone(r)
    BY UserAssumption, UP!ConditionsStep
  <1>4. ASSUME Apart', NEW c \in Changers, Changed(c) PROVE \A w \in Writers : ~U!Overlap(c, w)
    <2>1. Changed(c)'
      BY <1>1, <1>4
    <2>2. UP!Alone(c)'
      BY <1>4, <2>1 DEF Apart, UP!Alone, UP!Overlap, U!Overlap
    <2>3. UP!Alone(c)
      BY <1>3, <1>4, <2>2, TasksOf DEF Changed
    <2> QED BY <2>3 DEF UP!Alone, UP!Overlap, U!Overlap
  <1> QED BY <1>1, <1>2, <1>4 DEF Apart

\* A statement of a request that updates the user, while none has overlapped
\* with a change: only a change alters the two columns of the row.
LEMMA PlacedRow ==
  ASSUME UP!RowInvariant, Apart, Apart', Placed, NEW w \in Writers, UP!Step(w)
  PROVE  \/ row'.profile = row.profile /\ row'.deletedAt = row.deletedAt
         \/ /\ w \in Changers /\ Relocates(w) /\ step[w] \notin UP!Final
            /\ step'[w] \in {"done", "error"}
            /\ \A u \in Writers \ {w} : step[u] \notin UP!Busy
  <1>1. /\ step[w] \in UP!Busy /\ \A s \in Writers \ {w} : step'[s] = step[s]
        /\ UNCHANGED prior
    BY UserAssumption, UP!StepFacts DEF UP!RowInvariant
  <1>2. CASE UNCHANGED row
    BY <1>2
  <1>3. CASE ~Relocates(w) /\ UP!SaveWrite(w)
    <2>1. /\ w \in UP!Savers /\ step[w] = "write"
          /\ row' = [c \in UP!Columns |-> IF c \in dirty[w] THEN entity[w][c] ELSE row[c]]
      BY <1>3 DEF UP!SaveWrite
    <2>2. entity[w].profile = row.profile /\ entity[w].deletedAt = row.deletedAt
      BY <1>3, <2>1 DEF Placed
    <2> QED BY <2>1, <2>2 DEF UP!Columns
  <1>4. CASE ~Relocates(w) /\ UP!DirectWrite(w)
    BY <1>4, Unrelocated DEF UP!DirectWrite
  <1>5. CASE Relocates(w) /\ (UP!SaveWrite(w) \/ UP!DirectWrite(w))
    <2>1. w \in Changers
      BY <1>5, WhoRelocates DEF Writers
    <2>2. step[w] = "write" /\ step'[w] \in {"done", "error"}
      BY <1>5 DEF UP!SaveWrite, UP!DirectWrite, UP!Goto, UP!RowInvariant, UP!TypeOK
    <2>3. Changed(w)'
      BY <1>5, <2>2 DEF Changed, Relocates, U!Sets, U!Body
    <2>4. ASSUME NEW u \in Writers, u # w, step[u] \in UP!Busy PROVE FALSE
      <3>1. w \notin prior[u] /\ u \notin prior[w]
        BY <2>2, <2>4 DEF UP!RowInvariant, UP!Past, UP!Finished, UP!Final, UP!Busy
      <3>2. U!Overlap(w, u)'
        BY <1>1, <2>4, <3>1 DEF U!Overlap, UP!Busy
      <3> QED BY <2>1, <2>3, <3>2 DEF Apart
    <2> QED BY <1>5, <2>1, <2>2, <2>4 DEF UP!Final
  <1> QED BY <1>2, <1>3, <1>4, <1>5
          DEF UP!Step, UP!Fail, UP!NotFound, UP!SaveFind, UP!SaveLoad, UP!DirectFind

\* So the entities of the saves in progress keep agreeing with the row.
LEMMA PlacedSaves ==
  ASSUME UP!RowInvariant, Apart, Apart', Placed, NEW w \in Writers, UP!Step(w)
  PROVE  \A u \in UP!Savers : step'[u] \in {"load", "write"} /\ ~Relocates(u) =>
           entity'[u].profile = row'.profile /\ entity'[u].deletedAt = row'.deletedAt
  <1> SUFFICES ASSUME NEW u \in UP!Savers, step'[u] \in {"load", "write"}, ~Relocates(u)
               PROVE  entity'[u].profile = row'.profile /\ entity'[u].deletedAt = row'.deletedAt
    OBVIOUS
  <1>0. u \in Writers
    BY DEF UP!Savers
  <1>1. /\ step[w] \in UP!Busy /\ \A s \in Writers \ {w} : step'[s] = step[s]
        /\ step \in [Writers -> UP!PC]
    BY UserAssumption, UP!StepFacts DEF UP!RowInvariant, UP!TypeOK
  <1>2. CASE UP!SaveFind(w)
    <2>1. /\ UNCHANGED row
          /\ entity' = [s \in DOMAIN entity \cup {w} |->
                          IF s = w THEN UP!Assign(row, UP!Body(w)) ELSE entity[s]]
      BY <1>2 DEF UP!SaveFind
    <2>2. CASE u = w
      BY <1>0, <2>1, <2>2, Unrelocated
    <2>3. CASE u # w
      <3>1. step[u] \in {"load", "write"} /\ u \in DOMAIN entity
        BY <1>0, <1>1, <2>3 DEF UP!RowInvariant, UP!HasEntity
      <3> QED BY <2>1, <2>3, <3>1 DEF Placed
    <2> QED BY <2>2, <2>3
  <1>3. CASE ~UP!SaveFind(w)
    <2>1. UNCHANGED entity /\ (step'[w] \in {"load", "write"} /\ w \in UP!Savers => step[w] = "load" /\ UNCHANGED row)
      BY <1>1, <1>3 DEF UP!Step, UP!Fail, UP!NotFound, UP!SaveLoad, UP!SaveWrite,
                  UP!DirectFind, UP!DirectWrite, UP!Goto
    <2>2. step[u] \in {"load", "write"}
      BY <1>0, <1>1, <2>1
    <2>3. entity[u].profile = row.profile /\ entity[u].deletedAt = row.deletedAt
      BY <2>2 DEF Placed
    <2>4. CASE u = w
      BY <2>1, <2>3, <2>4
    <2>5. CASE u # w
      BY <1>0, <2>1, <2>2, <2>3, <2>5, PlacedRow DEF UP!Busy
    <2> QED BY <2>4, <2>5
  <1> QED BY <1>2, <1>3

\* What has been served since a request found the user stays so.
LEMMA SinceStep ==
  ASSUME UP!RowInvariant, [UP!Next]_(UP!vars), NEW g, Since(g), known'[g] = known[g]
  PROVE  Since(g)'
  <1>1. PICK c \in Changers : Changed(c) /\ c \notin known[g]
    BY DEF Since
  <1>2. Changed(c)'
    BY <1>1, ChangedStep
  <1> QED BY <1>1, <1>2 DEF Since

\* A statement of a request that updates the user.
LEMMA StayUser ==
  ASSUME OtpInvariant, UP!RowInvariant, FlowInvariant, StayInvariant, [UP!Next]_(UP!vars),
         NEW w \in Writers, UP!Step(w), UNCHANGED <<vars, flow, known>>
  PROVE  StayInvariant'
  <1>1. UNCHANGED <<pc, seen, flow, known>>
    BY DEF vars
  <1>2. /\ step[w] \in UP!Busy /\ \A s \in Writers \ {w} : step'[s] = step[s]
    BY UserAssumption, UP!StepFacts DEF UP!RowInvariant
  <1>3. \A g \in Generators : known'[g] \subseteq U!Finished'
    BY <1>1, ChangedStep DEF StayInvariant, U!Finished, UP!Finished, U!Final, UP!Final
  <1>4. ASSUME Apart' PROVE Placed'
    <2>1. Apart /\ Placed
      BY <1>4, ChangedStep DEF StayInvariant
    <2>2. \A u \in UP!Savers : step'[u] \in {"load", "write"} /\ ~Relocates(u) =>
            entity'[u].profile = row'.profile /\ entity'[u].deletedAt = row'.deletedAt
      BY <1>4, <2>1, PlacedSaves
    <2>3. ASSUME NEW g \in Generators, flow'[g] \in Served PROVE (HasAddress(Email(g)) \/ Since(g))'
      <3>1. HasAddress(Email(g)) \/ Since(g)
        BY <1>1, <2>1, <2>3 DEF Placed
      <3>2. CASE Since(g)
        BY <1>1, <3>2, SinceStep
      <3>3. CASE HasAddress(Email(g)) /\ row'.profile = row.profile /\ row'.deletedAt = row.deletedAt
        BY <3>3 DEF HasAddress, Email
      <3>4. CASE w \in Changers /\ Relocates(w) /\ step[w] \notin UP!Final /\ step'[w] \in {"done", "error"}
        <4>1. Changed(w)'
          BY <3>4 DEF Changed, Relocates, U!Sets, U!Body
        <4>2. w \notin known'[g]
          BY <1>1, <3>4 DEF StayInvariant, U!Finished, U!Final, UP!Final
        <4> QED BY <3>4, <4>1, <4>2 DEF Since
      <3> QED BY <1>4, <2>1, <3>1, <3>2, <3>3, <3>4, PlacedRow
    <2>4. ASSUME NEW v \in Verifiers, flow'[v] = "noUser" \/ step'[v] = "notFound" PROVE Since(seen[v].id)'
      <3>1. CASE flow[v] = "noUser" \/ step[v] = "notFound"
        <4>1. Since(seen[v].id)
          BY <2>1, <3>1 DEF Placed
        <4> QED BY <1>1, <4>1, SinceStep
      <3>2. CASE ~(flow[v] = "noUser" \/ step[v] = "notFound")
        <4>1. v = w /\ UP!NotFound(w)
          BY <1>1, <1>2, <2>4, <3>2, TasksOf
             DEF UP!Step, UP!Fail, UP!SaveFind, UP!SaveLoad, UP!SaveWrite, UP!DirectFind,
                 UP!DirectWrite, UP!Goto, UP!RowInvariant, UP!TypeOK
        <4>2. row.deletedAt /\ pc[v] = "accepted"
          BY <1>2, <4>1 DEF UP!NotFound, UP!Busy, FlowInvariant
        <4>3. seen[v].id \in Generators /\ flow[seen[v].id] \in Served
          BY <4>2, ProofOfSender
        <4>4. Since(seen[v].id)
          BY <2>1, <4>2, <4>3 DEF Placed, HasAddress
        <4> QED BY <1>1, <4>4, SinceStep
      <3> QED BY <3>1, <3>2
    <2> QED BY <1>1, <2>2, <2>3, <2>4 DEF Placed, Relocates, U!Sets, U!Body, UP!Savers
  <1> QED BY <1>1, <1>3, <1>4 DEF StayInvariant

\* A step that leaves the row alone: the request r of a flow may move, and an
\* update may arrive.
LEMMA StayFlow ==
  ASSUME OtpInvariant, UP!RowInvariant, FlowInvariant, StayInvariant, [UP!Next]_(UP!vars),
         NEW r, UNCHANGED <<row, entity>>,
         \A w \in Writers : step'[w] = step[w] \/ (step[w] = "idle" /\ step'[w] = "find"),
         \A q \in Requests \ {r} : flow'[q] = flow[q],
         \A g \in Generators : g = r \/ known'[g] = known[g],
         known = [g \in Generators |-> known[g]] => known' = [g \in Generators |-> known'[g]],
         r \in Generators => \/ flow'[r] \in Served /\ flow[r] \in Served /\ known'[r] = known[r]
                             \/ flow'[r] \notin Served /\ known'[r] = known[r]
                             \/ /\ flow[r] = "lookup" /\ HasAddress(Email(r))
                                /\ known'[r] = U!Finished,
         r \in Verifiers /\ flow'[r] = "noUser" =>
           flow[r] = "noUser" \/ (pc[r] = "accepted" /\ ~HasAddress(Email(r))),
         \A v \in Verifiers : pc[v] = "accepted" => pc'[v] = "accepted" /\ seen'[v] = seen[v]
  PROVE  StayInvariant'
  <1>0. Requests = Generators \cup Verifiers /\ Generators \cap Verifiers = {}
    BY OtpAssumption DEF Requests
  <1>1. \A g \in Generators : known'[g] \subseteq U!Finished'
    BY <1>0, ChangedStep DEF StayInvariant, U!Finished, UP!Finished, U!Final, UP!Final
  <1>2. \A v \in Verifiers : flow'[v] = "noUser" => pc'[v] = "accepted"
    BY <1>0 DEF StayInvariant
  <1>3. ASSUME Apart' PROVE Placed'
    <2>1. Apart /\ Placed
      BY <1>3, ChangedStep DEF StayInvariant
    <2>2. \A u \in UP!Savers : step'[u] \in {"load", "write"} /\ ~Relocates(u) =>
            entity'[u].profile = row'.profile /\ entity'[u].deletedAt = row'.deletedAt
      BY <2>1 DEF Placed, UP!Savers
    <2>3. ASSUME NEW g \in Generators, flow'[g] \in Served PROVE (HasAddress(Email(g)) \/ Since(g))'
      <3>1. CASE HasAddress(Email(g))
        BY <3>1 DEF HasAddress, Email
      <3>2. CASE ~HasAddress(Email(g))
        <4>1. flow[g] \in Served /\ known'[g] = known[g]
          BY <1>0, <2>3, <3>2
        <4>2. Since(g)
          BY <2>1, <3>2, <4>1 DEF Placed
        <4> QED BY <4>1, <4>2, SinceStep
      <3> QED BY <3>1, <3>2
    <2>4. ASSUME NEW v \in Verifiers, flow'[v] = "noUser" \/ step'[v] = "notFound"
          PROVE  Since(seen[v].id)'
      <3>1. pc[v] = "accepted" /\ seen'[v] = seen[v]
        <4>1. step'[v] = "notFound" => step[v] = "notFound"
          BY TasksOf
        <4> QED BY <1>0, <2>4, <4>1 DEF StayInvariant, FlowInvariant
      <3>2. /\ seen[v].id \in Generators /\ Email(seen[v].id) = Email(v)
            /\ flow[seen[v].id] \in Served
        BY <3>1, ProofOfSender
      <3>3. Since(seen[v].id)
        <4>1. CASE flow[v] = "noUser" \/ step[v] = "notFound"
          BY <2>1, <4>1 DEF Placed
        <4>2. CASE ~(flow[v] = "noUser" \/ step[v] = "notFound")
          BY <1>0, <2>1, <2>4, <3>2, <4>2, TasksOf DEF Placed
        <4> QED BY <4>1, <4>2
      <3>4. known'[seen[v].id] = known[seen[v].id]
        BY <1>0, <3>2 DEF Served
      <3> QED BY <3>1, <3>3, <3>4, SinceStep
    <2> QED BY <2>2, <2>3, <2>4 DEF Placed, Relocates, U!Sets, U!Body, UP!Savers
  <1> QED BY <1>1, <1>2, <1>3 DEF StayInvariant

\* An accepted verification is over.
LEMMA AcceptedStep ==
  ASSUME OtpInvariant, [Next]_vars, NEW v \in Verifiers, pc[v] = "accepted"
  PROVE  pc'[v] = "accepted" /\ seen'[v] = seen[v]
  <1>1. v \in Requests /\ v \in Finished /\ v \in DOMAIN seen
    BY DEF Requests, Finished, VerFinal, OtpInvariant, HasRow
  <1>2. pc'[v] = pc[v]
    BY <1>1, HistoryStep
  <1>3. CASE UNCHANGED seen
    BY <1>2, <1>3
  <1>4. ASSUME NEW w \in Verifiers, VerifyRead(w) PROVE seen'[v] = seen[v]
    BY <1>1, <1>4, ReadAdds
  <1> QED BY <1>2, <1>3, <1>4, SeenStep

LEMMA StayNext ==
  /\ OtpInvariant /\ UP!RowInvariant /\ FlowInvariant
  /\ StayInvariant /\ [FlowNext]_flowVars
  => StayInvariant'
  <1> SUFFICES ASSUME OtpInvariant, UP!RowInvariant, FlowInvariant, StayInvariant, [FlowNext]_flowVars
               PROVE  StayInvariant'
    OBVIOUS
  <1> DEFINE Flows == {"idle", "lookup", "noUser", "verified", "generate",
                       "queued", "failed", "verify", "update", "error"}
  <1>0. /\ flow \in [Requests -> Flows] /\ known = [g \in Generators |-> known[g]]
        /\ \A r \in Generators : r \in Requests /\ r \notin Verifiers
        /\ \A r \in Verifiers : r \in Requests /\ r \notin Generators
    BY OtpAssumption DEF FlowInvariant, StayInvariant, Requests
  <1>1. [UP!Next]_(UP!vars) /\ \A v \in Verifiers : pc[v] = "accepted" => pc'[v] = "accepted" /\ seen'[v] = seen[v]
    BY SameUser, FlowStepsUser, FlowStepsOtp, AcceptedStep
  <1>2. ASSUME NEW g \in Generators, Generator(g) PROVE StayInvariant'
    <2>1. UNCHANGED <<row, entity, step>>
      BY <1>2 DEF Generator, SendCall, SendNoUser, SendVerified, SendFound, SendMail, LookupFails, userVars
    <2>2. /\ \A q \in Requests \ {g} : flow'[q] = flow[q]
          /\ \A h \in Generators : h = g \/ known'[h] = known[h]
          /\ known' = [h \in Generators |-> known'[h]]
          /\ \/ flow'[g] \in Served /\ flow[g] \in Served /\ known'[g] = known[g]
             \/ flow'[g] \notin Served /\ known'[g] = known[g]
             \/ flow[g] = "lookup" /\ HasAddress(Email(g)) /\ known'[g] = U!Finished
      <3>1. CASE SendFound(g)
        BY <1>0, <3>1 DEF SendFound, Move
      <3>2. CASE SendCall(g) \/ SendNoUser(g) \/ SendVerified(g) \/ LookupFails(g)
        BY <1>0, <3>2 DEF SendCall, SendNoUser, SendVerified, LookupFails, Move, Served
      <3>3. CASE SendMail(g)
        BY <1>0, <3>3 DEF SendMail, Move, Served
      <3>4. CASE GenStep(g) /\ UNCHANGED <<userVars, flow, known>>
        BY <1>0, <3>4
      <3> QED BY <1>2, <3>1, <3>2, <3>3, <3>4 DEF Generator
    <2> QED BY <1>0, <1>1, <2>1, <2>2, StayFlow
  <1>3. ASSUME NEW v \in Verifiers, Verifier(v) PROVE StayInvariant'
    <2>0. v \in Writers
      BY TasksOf
    <2>1. CASE RedeemCall(v) \/ RedeemNoUser(v) \/ RedeemFound(v) \/ LookupFails(v)
               \/ (VerStep(v) /\ UNCHANGED <<userVars, flow, known>>)
      <3>1. UNCHANGED <<row, entity, known>>
        BY <2>1 DEF RedeemCall, RedeemNoUser, RedeemFound, LookupFails, U!Call, userVars
      <3>2. \A w \in Writers : step'[w] = step[w] \/ (step[w] = "idle" /\ step'[w] = "find")
        BY <2>0, <2>1 DEF RedeemCall, RedeemNoUser, RedeemFound, LookupFails, U!Call, U!Goto,
                          userVars, FlowInvariant
      <3>3. /\ \A q \in Requests \ {v} : flow'[q] = flow[q]
            /\ flow'[v] = "noUser" => flow[v] = "noUser" \/ (pc[v] = "accepted" /\ ~HasAddress(Email(v)))
        BY <1>0, <2>1 DEF RedeemCall, RedeemNoUser, RedeemFound, LookupFails, Move
      <3> QED BY <1>0, <1>1, <3>1, <3>2, <3>3, StayFlow
    <2>2. CASE U!Step(v) /\ UNCHANGED <<vars, flow, known>>
      BY <1>1, <2>0, <2>2, SameStep, StayUser
    <2> QED BY <1>3, <2>1, <2>2 DEF Verifier
  <1>4. ASSUME NEW c \in Changers, Changer(c) PROVE StayInvariant'
    <2>0. c \in Writers /\ c \notin Requests
      BY FlowAssumption, TasksOf DEF Requests
    <2>1. CASE U!Call(c)
      <3>1. UNCHANGED <<row, entity, flow, known>>
        BY <1>4, <2>0, <2>1 DEF Changer, U!Call
      <3>2. \A w \in Writers : step'[w] = step[w] \/ (step[w] = "idle" /\ step'[w] = "find")
        BY <2>0, <2>1 DEF U!Call, U!Goto, FlowInvariant
      <3> QED BY <1>0, <1>1, <2>0, <3>1, <3>2, StayFlow
    <2>2. CASE U!Step(c)
      BY <1>1, <1>4, <2>0, <2>2, SameStep, StayUser DEF Changer
    <2> QED BY <1>4, <2>1, <2>2 DEF Changer
  <1>5. CASE UNCHANGED <<userVars, flow, known>>
    <2>1. \A r : r \in Generators =>
                 \/ flow'[r] \in Served /\ flow[r] \in Served /\ known'[r] = known[r]
                 \/ flow'[r] \notin Served /\ known'[r] = known[r]
      BY <1>5
    <2> QED BY <1>0, <1>1, <1>5, <2>1, StayFlow DEF userVars
  <1>6. CASE UNCHANGED flowVars
    BY <1>5, <1>6 DEF flowVars
  <1> QED BY <1>2, <1>3, <1>4, <1>5, <1>6 DEF FlowNext

\* An accepted OTP finds nobody to update only when the user was moved or
\* deleted after the request that sent it had found it, or such a change
\* overlapped with another update: nobody is sent an OTP that can not be
\* redeemed (auth.service.ts:73, 124 against 105, 156 and user.service.ts:88).
THEOREM OtpsAreRedeemable == FlowSpec => []WastedForAReason
  <1>1. StayInvariant => WastedForAReason
    <2> SUFFICES ASSUME StayInvariant, NEW v \in Verifiers, flow[v] = "noUser" \/ step[v] = "notFound"
                 PROVE  \E c \in Changers :
                          /\ Relocates(c) /\ step[c] \in {"done", "error"}
                          /\ c \notin known[seen[v].id] \/ \E w \in Writers : U!Overlap(c, w)
      BY DEF WastedForAReason
    <2>1. CASE Apart
      BY <2>1 DEF StayInvariant, Placed, Since, Changed
    <2>2. CASE ~Apart
      BY <2>2 DEF Apart, Changed
    <2> QED BY <2>1, <2>2
  <1> QED BY <1>1, StayInit, StayNext, FlowOtpInvariant, FlowRowInvariant, FlowInvariantHolds, PTL
          DEF FlowSpec
================================================================================
