------------------------------- MODULE EmailQueue -------------------------------
(***************************************************************************)
(* Mail: email.service.ts puts it into a BullMQ queue (or sends it itself  *)
(* when there is none), email.processor.ts in the worker sends it.  The    *)
(* queue, its lock, its back-off and its check for stalled jobs belong to  *)
(* BullMQ and are modelled from the options queue.service.ts gives it.     *)
(***************************************************************************)
EXTENDS Integers, TLC

CONSTANTS
  Mails,        \* calls of EmailService, one mail each
  Contents,     \* what a call may put into its mail
  Workers,      \* worker processes, each with one job at a time
  NoWorker,
  MaxAttempts,  \* attempts: 3
  Backoff,      \* backoff.delay, in ticks of the clock
  MaxStalled,   \* BullMQ's maxStalledCount: 1
  MaxCrashes    \* bound: how often worker processes die

ASSUME MailAssumption ==
  /\ Mails # {}
  /\ MaxAttempts \in Nat \ {0}
  /\ MaxStalled \in Nat
  /\ Backoff \in Nat
  /\ MaxCrashes \in Nat
  /\ NoWorker \notin Workers

VARIABLES
  useQueue,   \* EmailService.useQueue, settled by its constructor
  content,    \* what each call puts into its mail
  call,       \* where the caller of each mail is
  job,        \* the state of its job in Redis
  tries,      \* attemptsMade
  starts,     \* attemptsStarted
  stalls,     \* how often the job has stalled
  wait,       \* what is left of its back-off
  lock,       \* the worker whose token the job has
  step,       \* where each worker is
  doing,      \* its job and the number of this start
  closing,    \* whether it has received SIGTERM
  crashes,
  copies,     \* history: the starts whose mail the SMTP server has accepted
  age         \* history: ticks since the first failed attempt

queue == <<job, tries, starts, stalls, wait, lock>>
worker == <<step, doing, closing, crashes>>
setup == <<useQueue, content>>
vars == <<setup, call, queue, worker, copies, age>>

--------------------------------------------------------------------------------
(***************************************************************************)
(* The mails.  "given" are the names a template gets a value for and       *)
(* "undefined" the keys it gets without one.                               *)
(***************************************************************************)
OtpMail == [template |-> "otp", undefined |-> {},
            given |-> {"title", "message", "otp", "appName", "expiryMinutes"}]
WelcomeMail == [OtpMail EXCEPT !.template = "welcome", !.given = @ \cup {"name"}]
GenericMail(missing) ==
  [template |-> "base", undefined |-> missing,
   given |-> {"title", "message", "link", "linkLabel", "appName"} \ missing]
ActivationMail == [template |-> "account-activation", undefined |-> {},
                   given |-> {"title", "tenantName", "link", "linkLabel", "appName"}]
HtmlMail == [template |-> "none", undefined |-> {}, given |-> {}]

\* The names a template uses without asking whether they are defined.
Needs == [otp |-> {"title", "message", "otp"},
          welcome |-> {"title", "name", "message"},
          base |-> {"title", "message", "link", "linkLabel"},
          none |-> {}] @@ ("account-activation" :> {"title", "tenantName"})

\* The job's data is JSON, in which an undefined value takes its key along.
RendersFrom(c, keys) == Needs[c.template] \subseteq keys
Renders(m) ==
  RendersFrom(content[m], content[m].given \cup (IF useQueue THEN {} ELSE content[m].undefined))

NoJob == [mail |-> CHOOSE m \in Mails : TRUE, start |-> 0]
Settled == {"completed", "failed"}

Init ==
  /\ useQueue \in BOOLEAN
  /\ content \in [Mails -> Contents]
  /\ call = [m \in Mails |-> "idle"]
  /\ job = [m \in Mails |-> "none"]
  /\ tries = [m \in Mails |-> 0]
  /\ starts = [m \in Mails |-> 0]
  /\ stalls = [m \in Mails |-> 0]
  /\ wait = [m \in Mails |-> 0]
  /\ lock = [m \in Mails |-> NoWorker]
  /\ step = [w \in Workers |-> "idle"]
  /\ doing = [w \in Workers |-> NoJob]
  /\ closing = [w \in Workers |-> FALSE]
  /\ crashes = 0
  /\ copies = [m \in Mails |-> {}]
  /\ age = [m \in Mails |-> 0]

--------------------------------------------------------------------------------
(***************************************************************************)
(* The caller.                                                             *)
(***************************************************************************)
Answer(m, a) == call' = [call EXCEPT ![m] = a]

\* sendTemplatedEmail or sendMail: without a queue the template is compiled
\* here, and a template that fails is answered as a bad request.
Send(m) ==
  /\ call[m] = "idle"
  /\ Answer(m, IF useQueue \/ Renders(m) THEN "sending" ELSE "error")
  /\ UNCHANGED <<setup, queue, worker, copies, age>>

\* Redis stores the job and says so, or it does not, or its answer is lost.
AddEmailJob(m) ==
  /\ call[m] = "sending" /\ useQueue
  /\ \/ job' = [job EXCEPT ![m] = "waiting"] /\ (Answer(m, "ok") \/ Answer(m, "error"))
     \/ UNCHANGED job /\ Answer(m, "error")
  /\ UNCHANGED <<setup, tries, starts, stalls, wait, lock, worker, copies, age>>

\* The same with the SMTP server, when there is no queue.
SendDirectly(m) ==
  /\ call[m] = "sending" /\ ~useQueue
  /\ \/ copies' = [copies EXCEPT ![m] = {0}] /\ (Answer(m, "ok") \/ Answer(m, "error"))
     \/ UNCHANGED copies /\ Answer(m, "error")
  /\ UNCHANGED <<setup, queue, worker, age>>

--------------------------------------------------------------------------------
(***************************************************************************)
(* The worker.                                                             *)
(***************************************************************************)
Goto(w, l) == step' = [step EXCEPT ![w] = l] /\ UNCHANGED <<closing, crashes>>
Drop(w) == doing' = [doing EXCEPT ![w] = NoJob]

Take(w, m) ==
  /\ step[w] = "idle" /\ ~closing[w]
  /\ job[m] = "waiting"
  /\ job' = [job EXCEPT ![m] = "active"]
  /\ lock' = [lock EXCEPT ![m] = w]
  /\ starts' = [starts EXCEPT ![m] = @ + 1]
  /\ doing' = [doing EXCEPT ![w] = [mail |-> m, start |-> starts[m] + 1]]
  /\ Goto(w, "render")
  /\ UNCHANGED <<setup, call, tries, stalls, wait, copies, age>>

\* process: an exception of compileTemplate is thrown again.
Render(w) ==
  /\ step[w] = "render"
  /\ Goto(w, IF Renders(doing[w].mail) THEN "send" ELSE "throw")
  /\ UNCHANGED <<setup, call, queue, doing, copies, age>>

\* Mutant of Deliver: the exception is logged and not thrown again.
DeliverSwallows(w) ==
  LET d == doing[w] IN
  /\ step[w] = "send"
  /\ copies' \in {copies, [copies EXCEPT ![d.mail] = @ \cup {d.start}]}
  /\ Goto(w, "done")
  /\ UNCHANGED <<setup, call, queue, doing, age>>

\* The server accepts the mail and says so, or it does not, or its answer is
\* lost; an exception is thrown again.
Deliver(w) ==
  LET d == doing[w] IN
  /\ step[w] = "send"
  /\ \/ copies' = [copies EXCEPT ![d.mail] = @ \cup {d.start}] /\ (Goto(w, "done") \/ Goto(w, "throw"))
     \/ UNCHANGED copies /\ Goto(w, "throw")
  /\ UNCHANGED <<setup, call, queue, doing, age>>

\* A worker that no longer has the lock changes nothing.
Complete(w) ==
  LET m == doing[w].mail IN
  /\ step[w] = "done"
  /\ IF lock[m] = w
     THEN job' = [job EXCEPT ![m] = "completed"] /\ lock' = [lock EXCEPT ![m] = NoWorker]
     ELSE UNCHANGED <<job, lock>>
  /\ Goto(w, "idle") /\ Drop(w)
  /\ UNCHANGED <<setup, call, tries, starts, stalls, wait, copies, age>>

\* Mutant of Delay: the back-off does not grow.
DelayFixed(n) == Backoff

\* The exponential back-off before attempt n + 1.
Delay(n) == Backoff * 2 ^ (n - 1)

\* Mutant of Fail: one attempt too many.
FailLater(w) ==
  LET m == doing[w].mail IN
  /\ step[w] = "throw"
  /\ tries' = [tries EXCEPT ![m] = @ + 1]
  /\ lock' = [lock EXCEPT ![m] = NoWorker]
  /\ job' = [job EXCEPT ![m] = IF tries[m] < MaxAttempts THEN "delayed" ELSE "failed"]
  /\ Goto(w, "idle") /\ Drop(w)
  /\ UNCHANGED <<setup, call, starts, stalls, wait, copies, age>>

\* Without its lock the worker changes nothing.
Fail(w) ==
  LET m == doing[w].mail IN
  /\ step[w] = "throw"
  /\ IF lock[m] = w
     THEN /\ tries' = [tries EXCEPT ![m] = @ + 1]
          /\ lock' = [lock EXCEPT ![m] = NoWorker]
          /\ IF tries[m] + 1 < MaxAttempts
             THEN /\ job' = [job EXCEPT ![m] = "delayed"]
                  /\ wait' = [wait EXCEPT ![m] = Delay(tries[m] + 1)]
             ELSE job' = [job EXCEPT ![m] = "failed"] /\ UNCHANGED wait
     ELSE UNCHANGED <<job, lock, tries, wait>>
  /\ Goto(w, "idle") /\ Drop(w)
  /\ UNCHANGED <<setup, call, starts, stalls, copies, age>>

\* The process dies, or is told to stop, finishes its job and exits.
Crash(w) ==
  /\ step[w] # "down" /\ crashes < MaxCrashes
  /\ step' = [step EXCEPT ![w] = "down"]
  /\ crashes' = crashes + 1 /\ Drop(w)
  /\ UNCHANGED <<setup, call, queue, closing, copies, age>>

Sigterm(w) ==
  /\ step[w] # "down" /\ ~closing[w]
  /\ closing' = [closing EXCEPT ![w] = TRUE]
  /\ UNCHANGED <<setup, call, queue, step, doing, crashes, copies, age>>

Exit(w) ==
  /\ step[w] = "idle" /\ closing[w]
  /\ Goto(w, "down")
  /\ UNCHANGED <<setup, call, queue, doing, copies, age>>

Bootstrap(w) ==
  /\ step[w] = "down"
  /\ step' = [step EXCEPT ![w] = "idle"]
  /\ closing' = [closing EXCEPT ![w] = FALSE]
  /\ UNCHANGED <<setup, call, queue, doing, crashes, copies, age>>

--------------------------------------------------------------------------------
(***************************************************************************)
(* The queue's housekeeping, done by any worker that runs, and time.       *)
(***************************************************************************)
Running == \E w \in Workers : step[w] # "down"

\* An active job without a lock goes back to the queue, not too often.
Stalled(m) ==
  /\ Running /\ job[m] = "active"
  /\ stalls' = [stalls EXCEPT ![m] = @ + 1]
  /\ lock' = [lock EXCEPT ![m] = NoWorker]
  /\ job' = [job EXCEPT ![m] = IF stalls[m] < MaxStalled THEN "waiting" ELSE "failed"]
  /\ UNCHANGED <<setup, call, tries, starts, wait, worker, copies, age>>

\* The owner of the lock works on the job no more, or is too slow to renew
\* its lock and goes on without it.
Orphaned(m) == job[m] = "active" /\ doing[lock[m]] # [mail |-> m, start |-> starts[m]]

\* Mutant of StalledByCrash: a worker that was started again is not noticed.
StalledByDown(m) == job[m] = "active" /\ step[lock[m]] = "down" /\ Stalled(m)

StalledByCrash(m) == Orphaned(m) /\ Stalled(m)
StalledBySlowness(m) == ~Orphaned(m) /\ Stalled(m)

Promote(m) ==
  /\ Running /\ job[m] = "delayed" /\ wait[m] = 0
  /\ job' = [job EXCEPT ![m] = "waiting"]
  /\ UNCHANGED <<setup, call, tries, starts, stalls, wait, lock, worker, copies, age>>

Tick ==
  /\ \E m \in Mails : wait[m] > 0
  /\ wait' = [m \in Mails |-> IF wait[m] > 0 THEN wait[m] - 1 ELSE 0]
  /\ age' = [m \in Mails |-> IF tries[m] > 0 /\ job[m] \notin Settled THEN age[m] + 1 ELSE age[m]]
  /\ UNCHANGED <<setup, call, job, tries, starts, stalls, lock, worker, copies>>

Caller(m) == Send(m) \/ AddEmailJob(m) \/ SendDirectly(m)
Worker(w) == Render(w) \/ Deliver(w) \/ Complete(w) \/ Fail(w)

\* Every call answered, every job settled, every worker idle or down.
Done ==
  /\ \A m \in Mails : call[m] \in {"ok", "error"} /\ job[m] \in Settled \cup {"none"}
  /\ \A w \in Workers : step[w] \in {"down", "idle"}
  /\ UNCHANGED vars

Next ==
  \/ \E m \in Mails : Caller(m) \/ StalledByCrash(m) \/ StalledBySlowness(m) \/ Promote(m)
  \/ \E w \in Workers :
       \/ Worker(w) \/ Crash(w) \/ Sigterm(w) \/ Exit(w) \/ Bootstrap(w)
       \/ \E m \in Mails : Take(w, m)
  \/ Tick \/ Done

Spec == Init /\ [][Next]_vars

\* A worker that runs goes on, BullMQ keeps its promises and time passes.
\* Nothing says that a worker is started again.
FairSpec ==
  /\ Spec
  /\ \A m \in Mails :
       WF_vars(StalledByCrash(m)) /\ WF_vars(Promote(m)) /\ WF_vars(Caller(m))
  /\ \A w \in Workers : WF_vars(Worker(w)) /\ WF_vars(\E m \in Mails : Take(w, m))
  /\ WF_vars(Tick)

--------------------------------------------------------------------------------
\* A mail is sent at most once for each attempt and each time its job may be
\* taken back for stalled: crashes, lost answers and slow workers duplicate
\* it, but not without end.
CopiesBounded ==
  \A m \in Mails :
    starts[m] <= MaxAttempts + MaxStalled /\ copies[m] \subseteq 0 .. starts[m]

\* An outage of the SMTP server loses no mail before the whole back-off has
\* passed: a job fails for its attempts only after 1 + 2 + ... delays.
OutageSurvived ==
  \A m \in Mails :
    job[m] = "failed" /\ stalls[m] <= MaxStalled => age[m] >= Backoff * (2 ^ (MaxAttempts - 1) - 1)

\* Whoever was told that the mail is on its way can rely on it being sent or
\* in the queue, and a job is completed only when its mail has been sent.
MailIsKept ==
  \A m \in Mails :
    /\ call[m] = "ok" => IF useQueue THEN job[m] # "none" ELSE copies[m] # {}
    /\ job[m] = "completed" => copies[m] # {}

\* As long as one worker goes on running, every queued mail is sent or given
\* up.
QueuedIsSettled ==
  (\E w \in Workers : <>[](step[w] # "down" /\ ~closing[w]))
    => \A m \in Mails : job[m] # "none" ~> job[m] \in Settled
================================================================================
