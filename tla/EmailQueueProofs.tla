--------------------------- MODULE EmailQueueProofs ----------------------------
(***************************************************************************)
(* How often a mail can be sent, that whoever was told that it is on its   *)
(* way can rely on it, and what outage of the SMTP server it survives, for *)
(* any number of mails, workers and crashes and for every limit on         *)
(* attempts and stalls.                                                    *)
(***************************************************************************)
EXTENDS EmailQueue, FiniteSetTheorems, TLAPS

TypeOK ==
  /\ useQueue \in BOOLEAN
  /\ call \in [Mails -> {"idle", "sending", "ok", "error"}]
  /\ job \in [Mails -> {"none", "waiting", "delayed", "active"} \cup Settled]
  /\ tries \in [Mails -> Nat] /\ starts \in [Mails -> Nat] /\ stalls \in [Mails -> Nat]
  /\ lock \in [Mails -> Workers \cup {NoWorker}]
  /\ step \in [Workers -> {"idle", "render", "send", "done", "throw", "down"}]
  /\ doing \in [Workers -> [mail : Mails, start : Nat]]
  /\ copies \in [Mails -> SUBSET Nat]

\* A start that is not over is neither a failed attempt nor a stall.
Accounted ==
  \A m \in Mails :
    starts[m] = tries[m] + stalls[m] + IF job[m] \in {"active", "completed"} THEN 1 ELSE 0

\* Both limits are kept until the step with which the job fails.
Limited ==
  \A m \in Mails :
    IF job[m] = "failed"
    THEN \/ tries[m] <= MaxAttempts /\ stalls[m] <= MaxStalled
         \/ tries[m] < MaxAttempts /\ stalls[m] <= MaxStalled + 1
    ELSE tries[m] < MaxAttempts /\ stalls[m] <= MaxStalled

\* Only active jobs are locked, and no job is there before its call is over.
Locked ==
  \A m \in Mails :
    /\ lock[m] # NoWorker => job[m] = "active"
    /\ call[m] \in {"idle", "sending"} => job[m] = "none"

\* What the workers hold has been started, and done means sent.
Held ==
  \A w \in Workers :
    /\ doing[w].start <= starts[doing[w].mail]
    /\ step[w] = "done" => copies[doing[w].mail] # {}

Copied == \A m \in Mails : copies[m] \subseteq 0 .. starts[m]

QueueInvariant ==
  TypeOK /\ Accounted /\ Limited /\ Locked /\ Held /\ Copied /\ MailIsKept

--------------------------------------------------------------------------------
LEMMA QueueInit == Init => QueueInvariant
<1>. SUFFICES ASSUME Init PROVE QueueInvariant
  OBVIOUS
<1>1. NoJob \in [mail : Mails, start : Nat] /\ NoJob.start = 0
  BY MailAssumption DEF NoJob
<1>2. TypeOK
  BY <1>1 DEF Init, TypeOK, Settled
<1>3. Accounted /\ Limited /\ Locked
  BY MailAssumption DEF Init, Accounted, Limited, Locked
<1>4. Held /\ Copied /\ MailIsKept
  BY <1>1 DEF Init, Held, Copied, MailIsKept
<1>. QED
  BY <1>2, <1>3, <1>4 DEF QueueInvariant

\* The caller's steps.
LEMMA CallerStep ==
  ASSUME QueueInvariant, NEW m \in Mails, Caller(m) PROVE QueueInvariant'
<1>. USE DEF QueueInvariant
<1>1. CASE Send(m)
  <2>1. UNCHANGED <<useQueue, job, tries, starts, stalls, lock, step, doing, copies>>
    BY <1>1 DEF Send, setup, queue, worker
  <2>2. call[m] = "idle" /\ call' \in {[call EXCEPT ![m] = "sending"], [call EXCEPT ![m] = "error"]}
    BY <1>1 DEF Send, Answer
  <2>3. TypeOK'
    BY <2>1, <2>2 DEF TypeOK
  <2>4. Accounted' /\ Limited' /\ Held' /\ Copied'
    BY <2>1 DEF Accounted, Limited, Held, Copied
  <2>5. Locked' /\ MailIsKept'
    BY <2>1, <2>2 DEF Locked, MailIsKept, TypeOK
  <2>. QED
    BY <2>3, <2>4, <2>5
<1>2. CASE AddEmailJob(m)
  <2>1. UNCHANGED <<useQueue, tries, starts, stalls, lock, step, doing, copies>>
    BY <1>2 DEF AddEmailJob, setup, worker
  <2>2. /\ call[m] = "sending" /\ useQueue /\ job[m] = "none"
        /\ \/ job' = [job EXCEPT ![m] = "waiting"] /\ call' \in {[call EXCEPT ![m] = "ok"], [call EXCEPT ![m] = "error"]}
           \/ job' = job /\ call' = [call EXCEPT ![m] = "error"]
    BY <1>2 DEF AddEmailJob, Answer, Locked
  <2>3. TypeOK'
    BY <2>1, <2>2 DEF TypeOK
  <2>4. Accounted' /\ Limited' /\ Held' /\ Copied'
    BY <2>1, <2>2 DEF Accounted, Limited, Held, Copied, TypeOK
  <2>5. Locked' /\ MailIsKept'
    BY <2>1, <2>2 DEF Locked, MailIsKept, TypeOK
  <2>. QED
    BY <2>3, <2>4, <2>5
<1>3. CASE SendDirectly(m)
  <2>1. UNCHANGED <<useQueue, job, tries, starts, stalls, lock, step, doing>>
    BY <1>3 DEF SendDirectly, setup, queue, worker
  <2>2. /\ call[m] = "sending" /\ ~useQueue
        /\ \/ copies' = [copies EXCEPT ![m] = {0}] /\ call' \in {[call EXCEPT ![m] = "ok"], [call EXCEPT ![m] = "error"]}
           \/ copies' = copies /\ call' = [call EXCEPT ![m] = "error"]
    BY <1>3 DEF SendDirectly, Answer
  <2>3. TypeOK'
    BY <2>1, <2>2 DEF TypeOK
  <2>4. Accounted' /\ Limited'
    BY <2>1, <2>2 DEF Accounted, Limited
  <2>5. ASSUME NEW x \in Mails
        PROVE  /\ copies[x] # {} => copies'[x] # {}
               /\ copies'[x] \subseteq 0 .. starts[x]
    <3>1. CASE copies' = copies
      BY <3>1 DEF Copied
    <3>2. CASE copies' = [copies EXCEPT ![m] = {0}]
      BY <3>2 DEF Copied, TypeOK
    <3>. QED
      BY <2>2, <3>1, <3>2
  <2>6. Held' /\ Copied'
    BY <2>1, <2>5 DEF Held, Copied, TypeOK
  <2>7. Locked' /\ MailIsKept'
    <3>1. call'[m] = "ok" => copies'[m] # {}
      <4>1. call'[m] = "ok" => 0 \in copies'[m]
        BY <2>2 DEF TypeOK
      <4>. QED
        BY <4>1
    <3>2. \A x \in Mails \ {m} : call'[x] = call[x]
      BY <2>2 DEF TypeOK
    <3>3. call'[m] \notin {"idle", "sending"}
      BY <2>2 DEF TypeOK
    <3>. QED
      <4>1. Locked'
        BY <2>1, <3>2, <3>3 DEF Locked
      <4>2. MailIsKept'
        <5>. SUFFICES ASSUME NEW x \in Mails
                      PROVE  /\ call'[x] = "ok" => copies'[x] # {}
                             /\ job[x] = "completed" => copies'[x] # {}
          BY <2>1, <2>2 DEF MailIsKept
        <5>1. CASE x = m
          BY <2>5, <3>1, <5>1 DEF MailIsKept
        <5>2. CASE x # m
          BY <2>2, <2>5, <3>2, <5>2 DEF MailIsKept
        <5>. QED
          BY <5>1, <5>2
      <4>. QED
        BY <4>1, <4>2
  <2>. QED
    BY <2>3, <2>4, <2>6, <2>7
<1>. QED
  BY <1>1, <1>2, <1>3 DEF Caller

\* Taking a job makes it active, once more.
LEMMA TakeStep ==
  ASSUME QueueInvariant, NEW w \in Workers, NEW m \in Mails, Take(w, m) PROVE QueueInvariant'
<1>. USE DEF QueueInvariant
<1>1. UNCHANGED <<useQueue, call, tries, stalls, copies>>
  BY DEF Take, setup
<1>2. /\ job[m] = "waiting" /\ job' = [job EXCEPT ![m] = "active"]
      /\ lock' = [lock EXCEPT ![m] = w] /\ starts' = [starts EXCEPT ![m] = @ + 1]
      /\ doing' = [doing EXCEPT ![w] = [mail |-> m, start |-> starts[m] + 1]]
      /\ step' = [step EXCEPT ![w] = "render"]
  BY DEF Take, Goto
<1>3. TypeOK'
  BY <1>1, <1>2 DEF TypeOK
<1>4. Accounted' /\ Limited' /\ Copied'
  BY <1>1, <1>2 DEF Accounted, Limited, Copied, TypeOK
<1>5. Held'
  BY <1>1, <1>2 DEF Held, TypeOK
<1>6. Locked' /\ MailIsKept'
  BY <1>1, <1>2 DEF Locked, MailIsKept, TypeOK
<1>. QED
  BY <1>3, <1>4, <1>5, <1>6

\* The processor's steps, up to the outcome.
LEMMA ProcessStep ==
  ASSUME QueueInvariant, NEW w \in Workers, Render(w) \/ Deliver(w) PROVE QueueInvariant'
<1>. USE DEF QueueInvariant
<1>1. UNCHANGED <<useQueue, call, job, tries, starts, stalls, lock, doing>>
  BY DEF Render, Deliver, setup, queue
<1>2. PICK l \in {"send", "throw", "done"} :
        /\ step' = [step EXCEPT ![w] = l]
        /\ \/ copies' = copies /\ l # "done"
           \/ copies' = [copies EXCEPT ![doing[w].mail] = @ \cup {doing[w].start}]
  BY DEF Render, Deliver, Goto
<1>3. doing[w].mail \in Mails /\ doing[w].start \in 0 .. starts[doing[w].mail]
  BY DEF TypeOK, Held
<1>4. TypeOK'
  BY <1>1, <1>2, <1>3 DEF TypeOK
<1>5. Accounted' /\ Limited' /\ Locked'
  BY <1>1 DEF Accounted, Limited, Locked
<1>6. ASSUME NEW x \in Mails PROVE copies[x] \subseteq copies'[x] /\ copies'[x] \subseteq 0 .. starts[x]
  <2>1. CASE copies' = copies
    BY <2>1 DEF Copied
  <2>2. CASE copies' = [copies EXCEPT ![doing[w].mail] = @ \cup {doing[w].start}]
    BY <1>3, <2>2 DEF Copied, TypeOK
  <2>. QED
    BY <1>2, <2>1, <2>2
<1>7. l = "done" => copies'[doing[w].mail] # {}
  <2>1. l = "done" => doing[w].start \in copies'[doing[w].mail]
    BY <1>2, <1>3 DEF TypeOK
  <2>. QED
    BY <2>1
<1>8. Held'
  <2>. SUFFICES ASSUME NEW v \in Workers
                PROVE  /\ doing[v].start <= starts[doing[v].mail]
                       /\ step'[v] = "done" => copies'[doing[v].mail] # {}
    BY <1>1 DEF Held
  <2>1. doing[v].mail \in Mails
    BY DEF TypeOK
  <2>2. doing[v].start <= starts[doing[v].mail]
    BY DEF Held
  <2>3. CASE v = w
    <3>1. step'[v] = l
      BY <1>2, <2>3 DEF TypeOK
    <3>. QED
      BY <1>7, <2>2, <2>3, <3>1
  <2>4. CASE v # w
    <3>1. step'[v] = step[v]
      BY <1>2, <2>4 DEF TypeOK
    <3>. QED
      BY <1>6, <2>1, <2>2, <3>1 DEF Held
  <2>. QED
    BY <2>3, <2>4
<1>9. Copied' /\ MailIsKept'
  BY <1>1, <1>6 DEF Copied, MailIsKept
<1>. QED
  BY <1>4, <1>5, <1>8, <1>9

\* The outcome is recorded by the worker that still has the lock.
LEMMA OutcomeStep ==
  ASSUME QueueInvariant, NEW w \in Workers, Complete(w) \/ Fail(w) PROVE QueueInvariant'
<1>. USE DEF QueueInvariant
<1>. DEFINE m == doing[w].mail
<1>1. /\ UNCHANGED <<useQueue, call, starts, stalls, copies>>
      /\ step' = [step EXCEPT ![w] = "idle"] /\ doing' = [doing EXCEPT ![w] = NoJob]
  BY DEF Complete, Fail, Goto, Drop, setup
<1>2. m \in Mails /\ NoJob \in [mail : Mails, start : Nat] /\ NoJob.start = 0
  BY MailAssumption DEF TypeOK, NoJob
<1>3. w # NoWorker
  BY MailAssumption
<1>4. Held'
  BY <1>1, <1>2 DEF Held, TypeOK
<1>. HIDE DEF m
<1>5. CASE UNCHANGED <<job, lock, tries>>
  <2>1. TypeOK'
    BY <1>1, <1>2, <1>5 DEF TypeOK
  <2>. QED
    BY <1>1, <1>4, <1>5, <2>1 DEF Accounted, Limited, Locked, Copied, MailIsKept
<1>6. CASE Complete(w) /\ lock[m] = w
  <2>1. /\ job' = [job EXCEPT ![m] = "completed"] /\ lock' = [lock EXCEPT ![m] = NoWorker]
        /\ UNCHANGED tries /\ job[m] = "active" /\ copies[m] # {}
    BY <1>2, <1>3, <1>6 DEF Complete, Locked, Held, m
  <2>2. TypeOK'
    BY <1>1, <1>2, <2>1 DEF TypeOK, Settled
  <2>3. Accounted' /\ Limited' /\ Copied'
    BY <1>1, <1>2, <2>1 DEF Accounted, Limited, Copied, TypeOK
  <2>4. Locked' /\ MailIsKept'
    BY <1>1, <1>2, <2>1 DEF Locked, MailIsKept, TypeOK
  <2>. QED
    BY <1>4, <2>2, <2>3, <2>4
<1>7. CASE Fail(w) /\ lock[m] = w
  <2>1. PICK j \in {"delayed", "failed"} :
          /\ job' = [job EXCEPT ![m] = j] /\ lock' = [lock EXCEPT ![m] = NoWorker]
          /\ tries' = [tries EXCEPT ![m] = @ + 1] /\ job[m] = "active"
          /\ j = "delayed" => tries[m] + 1 < MaxAttempts
    BY <1>2, <1>3, <1>7 DEF Fail, Locked, m
  <2>2. TypeOK'
    BY <1>1, <1>2, <2>1 DEF TypeOK, Settled
  <2>3. Accounted' /\ Copied'
    BY <1>1, <1>2, <2>1 DEF Accounted, Copied, TypeOK
  <2>4. Limited'
    BY <1>1, <1>2, <2>1, MailAssumption DEF Limited, TypeOK
  <2>5. Locked' /\ MailIsKept'
    BY <1>1, <1>2, <2>1 DEF Locked, MailIsKept, TypeOK
  <2>. QED
    BY <1>4, <2>2, <2>3, <2>4, <2>5
<1>. QED
  BY <1>5, <1>6, <1>7 DEF Complete, Fail, m

\* A stalled job goes back to the queue or fails; a delayed one is promoted.
LEMMA HousekeepingStep ==
  ASSUME QueueInvariant, NEW m \in Mails, Stalled(m) \/ Promote(m) PROVE QueueInvariant'
<1>. USE DEF QueueInvariant
<1>1. UNCHANGED <<useQueue, call, tries, starts, step, doing, copies>>
  BY DEF Stalled, Promote, setup, worker
<1>2. CASE Promote(m)
  <2>1. job[m] = "delayed" /\ job' = [job EXCEPT ![m] = "waiting"] /\ UNCHANGED <<stalls, lock>>
    BY <1>2 DEF Promote
  <2>2. TypeOK' /\ Held'
    BY <1>1, <2>1 DEF TypeOK, Held
  <2>3. Accounted' /\ Limited' /\ Copied'
    BY <1>1, <2>1 DEF Accounted, Limited, Copied, TypeOK
  <2>4. Locked' /\ MailIsKept'
    BY <1>1, <2>1 DEF Locked, MailIsKept, TypeOK
  <2>. QED
    BY <2>2, <2>3, <2>4
<1>3. CASE Stalled(m)
  <2>1. PICK j \in {"waiting", "failed"} :
          /\ job' = [job EXCEPT ![m] = j] /\ lock' = [lock EXCEPT ![m] = NoWorker]
          /\ stalls' = [stalls EXCEPT ![m] = @ + 1] /\ job[m] = "active"
          /\ j = "waiting" => stalls[m] < MaxStalled
    BY <1>3 DEF Stalled
  <2>2. TypeOK' /\ Held'
    BY <1>1, <2>1 DEF TypeOK, Held, Settled
  <2>3. Accounted' /\ Copied'
    BY <1>1, <2>1 DEF Accounted, Copied, TypeOK
  <2>4. Limited'
    BY <1>1, <2>1, MailAssumption DEF Limited, TypeOK
  <2>5. Locked' /\ MailIsKept'
    BY <1>1, <2>1 DEF Locked, MailIsKept, TypeOK
  <2>. QED
    BY <2>2, <2>3, <2>4, <2>5
<1>. QED
  BY <1>2, <1>3

\* Crashes, signals, starts of workers and time change no job.
LEMMA ProcessLife ==
  ASSUME QueueInvariant,
         Tick \/ UNCHANGED vars \/ \E w \in Workers : Crash(w) \/ Sigterm(w) \/ Exit(w) \/ Bootstrap(w)
  PROVE  QueueInvariant'
<1>. USE DEF QueueInvariant
<1>1. UNCHANGED <<useQueue, call, job, tries, starts, stalls, lock, copies>>
  BY DEF Tick, vars, Crash, Sigterm, Exit, Bootstrap, setup, queue
<1>2. \/ UNCHANGED <<step, doing>>
      \/ \E w \in Workers, l \in {"down", "idle"} :
           /\ step' = [step EXCEPT ![w] = l]
           /\ doing' = doing \/ doing' = [doing EXCEPT ![w] = NoJob]
  BY DEF Tick, vars, Crash, Sigterm, Exit, Bootstrap, Goto, Drop, worker
<1>3. NoJob \in [mail : Mails, start : Nat] /\ NoJob.start = 0
  BY MailAssumption DEF NoJob
<1>4. TypeOK'
  BY <1>1, <1>2, <1>3 DEF TypeOK
<1>5. Held'
  BY <1>1, <1>2, <1>3 DEF Held, TypeOK
<1>6. Accounted' /\ Limited' /\ Locked' /\ Copied' /\ MailIsKept'
  BY <1>1 DEF Accounted, Limited, Locked, Copied, MailIsKept
<1>. QED
  BY <1>4, <1>5, <1>6

\* The inductive invariant of the queue.
THEOREM QueueInvariantHolds == Spec => []QueueInvariant
<1>1. QueueInvariant /\ [Next]_vars => QueueInvariant'
  <2>. SUFFICES ASSUME QueueInvariant, [Next]_vars PROVE QueueInvariant'
    OBVIOUS
  <2>1. ASSUME NEW m \in Mails, Caller(m) \/ Stalled(m) \/ Promote(m) PROVE QueueInvariant'
    BY <2>1, CallerStep, HousekeepingStep
  <2>2. ASSUME NEW w \in Workers, NEW m \in Mails, Take(w, m) PROVE QueueInvariant'
    BY <2>2, TakeStep
  <2>3. ASSUME NEW w \in Workers, Worker(w) PROVE QueueInvariant'
    BY <2>3, ProcessStep, OutcomeStep DEF Worker
  <2>4. ASSUME Tick \/ UNCHANGED vars \/ \E w \in Workers : Crash(w) \/ Sigterm(w) \/ Exit(w) \/ Bootstrap(w)
        PROVE QueueInvariant'
    BY <2>4, ProcessLife
  <2>. QED
    BY <2>1, <2>2, <2>3, <2>4 DEF Next, StalledByCrash, StalledBySlowness, Done
<1>. QED
  BY QueueInit, <1>1, PTL DEF Spec

\* A mail is sent at most once per attempt and per permitted stall.
THEOREM CopiesStayBounded == Spec => []CopiesBounded
<1>1. QueueInvariant => CopiesBounded
  <2>. SUFFICES ASSUME QueueInvariant, NEW m \in Mails
                PROVE  starts[m] <= MaxAttempts + MaxStalled /\ copies[m] \subseteq 0 .. starts[m]
    BY DEF CopiesBounded
  <2>1. starts[m] <= MaxAttempts + MaxStalled
    BY MailAssumption DEF QueueInvariant, TypeOK, Accounted, Limited
  <2>. QED
    BY <2>1 DEF QueueInvariant, Copied
<1>. QED
  BY <1>1, QueueInvariantHolds, PTL

\* Whoever was told that the mail is on its way can rely on it.
THEOREM AnsweredMailIsKept == Spec => []MailIsKept
<1>1. QueueInvariant => MailIsKept
  BY DEF QueueInvariant
<1>. QED
  BY <1>1, QueueInvariantHolds, PTL

--------------------------------------------------------------------------------
(***************************************************************************)
(* How long an outage of the SMTP server a mail survives.                  *)
(***************************************************************************)

\* A power of two counts the subsets of an interval, of which one element
\* more makes twice as many.
LEMMA PowerOfTwo ==
  ASSUME NEW n \in Nat
  PROVE  2 ^ n \in Nat /\ 2 ^ (n + 1) = 2 ^ n + 2 ^ n
<1>. DEFINE S == SUBSET (1 .. n)
            T == {s \cup {n + 1} : s \in S}
<1>1. ASSUME NEW k \in Nat
      PROVE  /\ IsFiniteSet(SUBSET (1 .. k)) /\ Cardinality(SUBSET (1 .. k)) = 2 ^ k
             /\ 2 ^ k \in Nat
  <2>1. IsFiniteSet(1 .. k) /\ Cardinality(1 .. k) = k
    BY FS_Interval
  <2>. QED
    BY <2>1, FS_SUBSET, FS_CardinalityType
<1>2. \A s \in S : n + 1 \notin s
  OBVIOUS
<1>3. SUBSET (1 .. (n + 1)) = S \cup T
  <2>1. ASSUME NEW t \in SUBSET (1 .. (n + 1)) PROVE t \in S \cup T
    <3>1. t \ {n + 1} \in S
      OBVIOUS
    <3>2. CASE n + 1 \in t
      <4>1. t = (t \ {n + 1}) \cup {n + 1}
        BY <3>2
      <4>. QED
        BY <3>1, <4>1
    <3>3. CASE n + 1 \notin t
      BY <3>3
    <3>. QED
      BY <3>2, <3>3
  <2>2. ASSUME NEW s \in S PROVE s \subseteq 1 .. (n + 1) /\ s \cup {n + 1} \subseteq 1 .. (n + 1)
    OBVIOUS
  <2>3. \A t \in S \cup T : t \in SUBSET (1 .. (n + 1))
    BY <2>2
  <2>4. \A t : t \in SUBSET (1 .. (n + 1)) <=> t \in S \cup T
    BY <2>1, <2>3, Zenon
  <2>. HIDE DEF S, T
  <2>. QED
    BY <2>4, SMT
<1>4. S \cap T = {}
  BY <1>2
<1>5. IsFiniteSet(T) /\ Cardinality(T) = Cardinality(S)
  <2>. DEFINE f == [s \in S |-> s \cup {n + 1}]
  <2>1. ASSUME NEW r \in S, NEW s \in S, f[r] = f[s] PROVE r = s
    <3>1. r = f[r] \ {n + 1} /\ s = f[s] \ {n + 1}
      BY <1>2
    <3>. QED
      BY <2>1, <3>1
  <2>2. f \in Bijection(S, T)
    <3>1. f \in [S -> T] /\ \A t \in T : \E s \in S : f[s] = t
      OBVIOUS
    <3>2. \A r, s \in S : f[r] = f[s] => r = s
      BY <2>1
    <3>. HIDE DEF f, S, T
    <3>. QED
      BY <3>1, <3>2 DEF Bijection, Injection, Surjection, IsInjective
  <2>3. ExistsBijection(S, T)
    BY <2>2 DEF ExistsBijection
  <2>4. IsFiniteSet(S)
    BY <1>1
  <2>. HIDE DEF S, T
  <2>. QED
    BY <2>3, <2>4, FS_Bijection
<1>6. Cardinality(S \cup T) = Cardinality(S) + Cardinality(T)
  <2>1. IsFiniteSet(S)
    BY <1>1
  <2>. HIDE DEF S, T
  <2>2. Cardinality(S \cup T) = Cardinality(S) + Cardinality(T) - Cardinality(S \cap T)
    BY <1>5, <2>1, FS_Union
  <2>3. Cardinality(S) \in Nat /\ Cardinality(S \cap T) = 0
    BY <1>4, <2>1, FS_EmptySet, FS_CardinalityType
  <2>. QED
    BY <1>5, <2>2, <2>3
<1>7. Cardinality(S) = 2 ^ n /\ 2 ^ n \in Nat
  BY <1>1
<1>8. Cardinality(S \cup T) = 2 ^ (n + 1)
  <2>1. n + 1 \in Nat
    OBVIOUS
  <2>2. Cardinality(SUBSET (1 .. (n + 1))) = 2 ^ (n + 1)
    BY <1>1, <2>1, Zenon
  <2>. HIDE DEF S, T
  <2>. QED
    BY <1>3, <2>2, Zenon
<1>. QED
  BY <1>5, <1>6, <1>7, <1>8

\* The delays before attempt n + 1, in all.
Delays(n) == Backoff * (2 ^ n - 1)

\* Each back-off is added to the ones before it.
LEMMA DelaysAddUp ==
  ASSUME NEW n \in Nat
  PROVE  Delay(n + 1) \in Nat /\ Delays(n) \in Nat /\ Delays(n + 1) = Delays(n) + Delay(n + 1)
<1>1. 2 ^ n \in Nat /\ 2 ^ n >= 1
  <2>1. IsFiniteSet(1 .. n) /\ Cardinality(1 .. n) = n
    BY FS_Interval
  <2>2. IsFiniteSet(SUBSET (1 .. n)) /\ Cardinality(SUBSET (1 .. n)) = 2 ^ n
    BY <2>1, FS_SUBSET
  <2>3. {} \in SUBSET (1 .. n)
    OBVIOUS
  <2>. QED
    BY <2>2, <2>3, PowerOfTwo, FS_EmptySet
<1>. DEFINE p == 2 ^ n
<1>2. 2 ^ (n + 1) = p + p /\ (n + 1) - 1 = n
  BY PowerOfTwo
<1>3. Delay(n + 1) = Backoff * p /\ Delays(n) = Backoff * (p - 1) /\ Delays(n + 1) = Backoff * ((p + p) - 1)
  BY <1>2 DEF Delay, Delays
<1>4. p \in Nat /\ p >= 1 /\ Backoff \in Nat
  BY <1>1, MailAssumption
<1>. HIDE DEF p
<1>. QED
  BY <1>3, <1>4

\* A job that has failed n times has waited for the first n delays, or has what
\* is missing still to wait; one that has failed for its attempts has waited
\* for all of them.
Patient ==
  /\ wait \in [Mails -> Nat] /\ age \in [Mails -> Nat]
  /\ \A m \in Mails :
       /\ wait[m] > 0 => job[m] = "delayed" /\ tries[m] > 0
       /\ job[m] # "failed" => age[m] + wait[m] >= Delays(tries[m])
       /\ job[m] = "failed" /\ stalls[m] <= MaxStalled => age[m] >= Delays(MaxAttempts - 1)

\* Nobody has waited at the start.
LEMMA PatientInit == Init => Patient
<1>1. Delays(0) = 0
  BY MailAssumption DEF Delays
<1>. QED
  BY <1>1 DEF Init, Patient

\* A failed attempt starts the next delay, or gives up after the last one.
LEMMA FailIsPatient ==
  ASSUME QueueInvariant, Patient, NEW w \in Workers, Fail(w) PROVE Patient'
<1>. USE DEF QueueInvariant
<1>. DEFINE m == doing[w].mail
<1>1. m \in Mails
  BY DEF TypeOK
<1>2. UNCHANGED <<age, stalls>>
  BY DEF Fail
<1>. HIDE DEF m
<1>3. CASE UNCHANGED <<job, tries, wait>>
  BY <1>2, <1>3 DEF Patient
<1>4. CASE lock[m] = w
  <2>1. job[m] = "active"
    BY <1>1, <1>4, MailAssumption DEF Locked
  <2>2. age[m] >= Delays(tries[m]) /\ tries[m] \in Nat /\ wait[m] = 0
    BY <1>1, <2>1 DEF Patient, TypeOK
  <2>3. tries' = [tries EXCEPT ![m] = @ + 1]
    BY <1>4 DEF Fail, m
  <2>4. CASE tries[m] + 1 < MaxAttempts
    <3>. DEFINE d == Delay(tries[m] + 1)
    <3>1. job' = [job EXCEPT ![m] = "delayed"] /\ wait' = [wait EXCEPT ![m] = d]
      BY <1>4, <2>4 DEF Fail, m
    <3>2. d \in Nat /\ Delays(tries[m] + 1) = Delays(tries[m]) + d /\ Delays(tries[m]) \in Nat
      BY <2>2, DelaysAddUp
    <3>. HIDE DEF d
    <3>. QED
      BY <1>1, <1>2, <2>2, <2>3, <3>1, <3>2 DEF Patient, TypeOK
  <2>5. CASE ~(tries[m] + 1 < MaxAttempts)
    <3>1. job' = [job EXCEPT ![m] = "failed"] /\ wait' = wait
      BY <1>4, <2>5 DEF Fail, m
    <3>2. tries[m] = MaxAttempts - 1
      BY <1>1, <2>1, <2>2, <2>5, MailAssumption DEF Limited
    <3>. QED
      BY <1>1, <1>2, <2>2, <2>3, <3>1, <3>2 DEF Patient, TypeOK
  <2>. QED
    BY <2>4, <2>5
<1>. QED
  BY <1>3, <1>4 DEF Fail, m

\* Time goes on, for the job and for its back-off alike.
LEMMA TickIsPatient ==
  ASSUME QueueInvariant, Patient, Tick PROVE Patient'
<1>. USE DEF QueueInvariant
<1>1. /\ UNCHANGED <<job, tries, stalls>>
      /\ wait' = [m \in Mails |-> IF wait[m] > 0 THEN wait[m] - 1 ELSE 0]
      /\ age' = [m \in Mails |-> IF tries[m] > 0 /\ job[m] \notin Settled THEN age[m] + 1 ELSE age[m]]
  BY DEF Tick
<1>2. ASSUME NEW m \in Mails
      PROVE  /\ wait'[m] \in Nat /\ age'[m] \in Nat /\ age'[m] >= age[m]
             /\ wait'[m] > 0 => wait[m] > 0
             /\ age'[m] + wait'[m] >= age[m] + wait[m]
  BY <1>1 DEF Patient, Settled
<1>3. wait' \in [Mails -> Nat] /\ age' \in [Mails -> Nat]
  BY <1>1, <1>2
<1>4. ASSUME NEW m \in Mails PROVE Delays(tries[m]) \in Nat /\ Delays(MaxAttempts - 1) \in Nat
  <2>1. tries[m] \in Nat /\ MaxAttempts - 1 \in Nat
    BY MailAssumption DEF TypeOK
  <2>. QED
    BY <2>1, DelaysAddUp
<1>5. ASSUME NEW m \in Mails
      PROVE  /\ wait'[m] > 0 => job'[m] = "delayed" /\ tries'[m] > 0
             /\ job'[m] # "failed" => age'[m] + wait'[m] >= Delays(tries[m])
             /\ job'[m] = "failed" /\ stalls'[m] <= MaxStalled => age'[m] >= Delays(MaxAttempts - 1)
  BY <1>1, <1>2, <1>4 DEF Patient
<1>. QED
  BY <1>1, <1>3, <1>5 DEF Patient

\* The other steps wait for nothing and give up nothing for its attempts.
LEMMA OthersArePatient ==
  ASSUME QueueInvariant, Patient,
         \/ UNCHANGED vars
         \/ \E m \in Mails : Caller(m) \/ Stalled(m) \/ Promote(m)
         \/ \E w \in Workers :
              \/ Render(w) \/ Deliver(w) \/ Complete(w) \/ Crash(w) \/ Sigterm(w) \/ Exit(w) \/ Bootstrap(w)
              \/ \E m \in Mails : Take(w, m)
  PROVE  Patient'
<1>. USE DEF QueueInvariant
<1>1. UNCHANGED <<tries, wait, age>>
  BY DEF vars, queue, Caller, Send, AddEmailJob, SendDirectly, Stalled, Promote, Render, Deliver,
         Complete, Crash, Sigterm, Exit, Bootstrap, Take
<1>2. ASSUME UNCHANGED <<job, stalls>> PROVE Patient'
  BY <1>1, <1>2 DEF Patient
<1>3. ASSUME NEW m \in Mails, NEW j, job' = [job EXCEPT ![m] = j],
             job[m] \in {"none", "waiting", "active"} \/ (job[m] = "delayed" /\ wait[m] = 0),
             \/ j # "failed" /\ UNCHANGED stalls
             \/ stalls' = [stalls EXCEPT ![m] = @ + 1] /\ (j = "failed" => stalls'[m] > MaxStalled)
      PROVE  Patient'
  <2>1. job'[m] = j /\ wait[m] = 0
    BY <1>3 DEF TypeOK, Patient
  <2>2. \A x \in Mails \ {m} : job'[x] = job[x] /\ stalls'[x] = stalls[x]
    BY <1>3 DEF TypeOK
  <2>3. j = "failed" => ~(stalls'[m] <= MaxStalled)
    BY <1>3, MailAssumption DEF TypeOK
  <2>4. ASSUME NEW x \in Mails
        PROVE  /\ wait[x] > 0 => job'[x] = "delayed" /\ tries[x] > 0
               /\ job'[x] # "failed" => age[x] + wait[x] >= Delays(tries[x])
               /\ job'[x] = "failed" /\ stalls'[x] <= MaxStalled => age[x] >= Delays(MaxAttempts - 1)
    <3>1. CASE x = m
      <4>1. job[m] # "failed"
        BY <1>3
      <4>. QED
        BY <2>1, <2>3, <3>1, <4>1 DEF Patient
    <3>2. CASE x # m
      BY <2>2, <3>2 DEF Patient
    <3>. QED
      BY <3>1, <3>2
  <2>. QED
    BY <1>1, <2>4 DEF Patient
<1>4. ASSUME NEW m \in Mails, Caller(m) PROVE Patient'
  <2>1. CASE UNCHANGED job
    <3>1. UNCHANGED stalls
      BY <1>4 DEF Caller, Send, AddEmailJob, SendDirectly, queue
    <3>. QED
      BY <1>2, <2>1, <3>1
  <2>2. CASE AddEmailJob(m) /\ job' = [job EXCEPT ![m] = "waiting"]
    <3>1. job[m] = "none" /\ UNCHANGED stalls
      BY <2>2 DEF AddEmailJob, Locked
    <3>. QED
      BY <1>3, <2>2, <3>1
  <2>. QED
    BY <1>4, <2>1, <2>2 DEF Caller, Send, AddEmailJob, SendDirectly, queue
<1>5. ASSUME NEW m \in Mails, Stalled(m) PROVE Patient'
  <2>1. job[m] = "active" /\ stalls' = [stalls EXCEPT ![m] = @ + 1]
    BY <1>5 DEF Stalled
  <2>2. stalls'[m] = stalls[m] + 1 /\ stalls[m] \in Nat
    BY <2>1 DEF TypeOK
  <2>3. CASE stalls[m] < MaxStalled
    <3>1. job' = [job EXCEPT ![m] = "waiting"]
      BY <1>5, <2>3 DEF Stalled
    <3>. QED
      BY <1>3, <2>1, <3>1
  <2>4. CASE ~(stalls[m] < MaxStalled)
    <3>1. job' = [job EXCEPT ![m] = "failed"] /\ stalls'[m] > MaxStalled
      BY <1>5, <2>2, <2>4, MailAssumption DEF Stalled
    <3>. QED
      BY <1>3, <2>1, <3>1
  <2>. QED
    BY <2>3, <2>4
<1>6. ASSUME NEW m \in Mails, Promote(m) PROVE Patient'
  BY <1>3, <1>6 DEF Promote
<1>7. ASSUME NEW w \in Workers, NEW m \in Mails, Take(w, m) PROVE Patient'
  BY <1>3, <1>7 DEF Take
<1>8. ASSUME NEW w \in Workers, Complete(w) PROVE Patient'
  <2>. DEFINE m == doing[w].mail
  <2>1. UNCHANGED stalls /\ m \in Mails
    BY <1>8 DEF Complete, TypeOK
  <2>2. CASE lock[m] = w
    <3>1. job[m] = "active"
      BY <2>1, <2>2, MailAssumption DEF Locked
    <3>2. job' = [job EXCEPT ![m] = "completed"]
      BY <1>8, <2>2 DEF Complete
    <3>. QED
      BY <1>3, <2>1, <3>1, <3>2
  <2>3. CASE lock[m] # w
    BY <1>2, <1>8, <2>1, <2>3 DEF Complete
  <2>. QED
    BY <2>2, <2>3
<1>9. ASSUME UNCHANGED vars
             \/ \E w \in Workers : Render(w) \/ Deliver(w) \/ Crash(w) \/ Sigterm(w) \/ Exit(w) \/ Bootstrap(w)
      PROVE  Patient'
  BY <1>2, <1>9 DEF vars, queue, Render, Deliver, Crash, Sigterm, Exit, Bootstrap
<1>. QED
  BY <1>4, <1>5, <1>6, <1>7, <1>8, <1>9

\* A job fails for its attempts only after every back-off: an outage of the SMTP
\* server that is shorter loses no mail, for any number of attempts and any
\* first delay (queue.service.ts, email.processor.ts).
THEOREM OutagesAreSurvived == Spec => []OutageSurvived
<1>1. QueueInvariant /\ Patient /\ [Next]_vars => Patient'
  <2>. SUFFICES ASSUME QueueInvariant, Patient, [Next]_vars PROVE Patient'
    OBVIOUS
  <2>1. ASSUME NEW w \in Workers, Fail(w) PROVE Patient'
    BY <2>1, FailIsPatient
  <2>2. CASE Tick
    BY <2>2, TickIsPatient
  <2>3. CASE \/ UNCHANGED vars
             \/ \E m \in Mails : Caller(m) \/ Stalled(m) \/ Promote(m)
             \/ \E w \in Workers :
                  \/ Render(w) \/ Deliver(w) \/ Complete(w) \/ Crash(w) \/ Sigterm(w) \/ Exit(w) \/ Bootstrap(w)
                  \/ \E m \in Mails : Take(w, m)
    BY <2>3, OthersArePatient
  <2>. QED
    BY <2>1, <2>2, <2>3 DEF Next, Worker, StalledByCrash, StalledBySlowness, Done
<1>2. Spec => []Patient
  BY QueueInvariantHolds, PatientInit, <1>1, PTL DEF Spec
<1>3. Patient => OutageSurvived
  BY DEF Patient, OutageSurvived, Delays
<1>. QED
  BY <1>2, <1>3, PTL
================================================================================
