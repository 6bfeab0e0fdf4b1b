------------------------------- MODULE JobQueue -------------------------------
(***************************************************************************)
(* Background jobs: SubmitJob.execute, the dispatch the API and the CLI do  *)
(* after it, Celery's late-acknowledged delivery, the worker's _run_async   *)
(* around the work itself, its automatic retries, and JobTask.on_failure.   *)
(* The work is a bulk inference's, which comes in pieces and reports its    *)
(* progress after each; the other kinds are one piece and report nothing.   *)
(*                                                                          *)
(* A call is one submission; if it creates a job, the job carries the       *)
(* call's name.  A client that resends is another call with the same key.   *)
(* A message stays with the broker until the worker acknowledges it, so a   *)
(* crash, or Redis' visibility timeout on a task that still runs, delivers  *)
(* it again.  Transactions that read a row and write it are two steps, and  *)
(* write only the columns that differ from what they read.                  *)
(***************************************************************************)
EXTENDS Naturals, FiniteSets

CONSTANTS
    Calls,        \* submissions, and the jobs they create
    Keys, KeyOf,  \* the idempotency key of each submission
    Workers,
    None,         \* no job
    Chunks,       \* pieces of work of one job, each committed on its own
    MaxRetries,   \* the tasks' max_retries
    MaxCrashes,   \* bound: worker processes lost
    MaxRedeliveries,  \* bound: messages delivered again while their task still runs
    MaxAbandons   \* bound: attempts that end without an outcome

ASSUME CallsAssumption == KeyOf \in [Calls -> Keys] /\ None \notin Calls
ASSUME NumbersAssumption ==
    /\ Chunks \in Nat \ {0}
    /\ MaxRetries \in Nat
    /\ MaxCrashes \in Nat /\ MaxRedeliveries \in Nat /\ MaxAbandons \in Nat

VARIABLES
    jobs,         \* rows of the jobs table; None where no job was created
    effects,      \* how often each piece of each job's work has been done
    call,         \* where each submission stands
    answer,       \* the job each submission returned
    dispatched,   \* how often a task was enqueued for each job
    ready,        \* messages waiting, by job and retry count
    deadLetters,  \* jobs recorded on the dead_letter queue
    worker,       \* what each worker is doing
    spent         \* crashes, redeliveries and abandoned attempts so far, and the jobs of which
                  \* two attempts have overlapped, for the properties

vars == <<jobs, effects, call, answer, dispatched, ready, deadLetters, worker, spent>>
brokerVars == <<ready, deadLetters>>
callVars == <<call, answer, dispatched>>

Status == {"queued", "running", "succeeded", "failed"}
Terminal == {"succeeded", "failed"}

Row == [status : Status, attempts : Nat, started : BOOLEAN, progress : 0..Chunks,
        result : BOOLEAN, error : BOOLEAN]     \* whether result and error are set

ASSUME NoneAssumption == None \notin Row

QueuedRow == [status |-> "queued", attempts |-> 0, started |-> FALSE, progress |-> 0,
              result |-> FALSE, error |-> FALSE]

Message == Calls \X (0..MaxRetries)

WorkerSteps == {"idle", "received", "starting", "executing", "progress", "finishing",
                "raised", "marking", "dead_letter", "ack"}
Worker == [pc : WorkerSteps, job : Calls \cup {None}, retries : 0..MaxRetries,
           row : Row,           \* the job as the current transaction read it, if it did
           done : 0..Chunks]    \* pieces done in this attempt

Idle == [pc |-> "idle", job |-> None, retries |-> 0, row |-> QueuedRow, done |-> 0]

-----------------------------------------------------------------------------
\* _TERMINAL_TRANSITIONS
AllowedTransitions ==
    [queued    |-> {"running", "failed"},
     running   |-> {"running", "succeeded", "failed"},
     succeeded |-> {},
     failed    |-> {}]
CanTransition(row, to) == to \in AllowedTransitions[row.status]

Started(row)   == [row EXCEPT !.status = "running", !.attempts = @ + 1, !.started = TRUE]
Succeeded(row) == [row EXCEPT !.status = "succeeded", !.result = TRUE]
Failed(row)    == [row EXCEPT !.status = "failed", !.error = TRUE]

\* The UPDATE a transaction issues: the columns in which `to` differs from `read`.
Write(j, read, to) ==
    jobs' = [jobs EXCEPT ![j] =
               [col \in DOMAIN @ |-> IF to[col] = read[col] THEN @[col] ELSE to[col]]]

JobsOf(key) == {j \in Calls : jobs[j] # None /\ KeyOf[j] = key}

Enqueue(j, n) == ready' = [ready EXCEPT ![<<j, n>>] = @ + 1]
Return(c, j) ==
    /\ call' = [call EXCEPT ![c] = "done"]
    /\ answer' = [answer EXCEPT ![c] = j]
Go(w, to) == worker' = [worker EXCEPT ![w] = to]

Init ==
    /\ jobs = [c \in Calls |-> None]
    /\ effects = [c \in Calls |-> [k \in 1..Chunks |-> 0]]
    /\ call = [c \in Calls |-> "find"]
    /\ answer = [c \in Calls |-> None]
    /\ dispatched = [c \in Calls |-> 0]
    /\ ready = [m \in Message |-> 0]
    /\ deadLetters = {}
    /\ worker = [w \in Workers |-> Idle]
    /\ spent = [crashes |-> 0, redeliveries |-> 0, abandons |-> 0, overlapped |-> {}]

-----------------------------------------------------------------------------
(* Submission. *)

\* The first transaction looks the key up.
FindKey(c) ==
    /\ call[c] = "find"
    /\ IF JobsOf(KeyOf[c]) = {}
       THEN call' = [call EXCEPT ![c] = "add"] /\ UNCHANGED answer
       ELSE \E j \in JobsOf(KeyOf[c]) : Return(c, j)
    /\ UNCHANGED <<jobs, effects, dispatched, brokerVars, worker, spent>>

\* Mutant: the idempotency key is not unique in the table.
AddJobAlways(c) ==
    /\ call[c] = "add"
    /\ jobs' = [jobs EXCEPT ![c] = QueuedRow]
    /\ call' = [call EXCEPT ![c] = "dispatch"]
    /\ UNCHANGED <<effects, answer, dispatched, brokerVars, worker, spent>>

\* It inserts a new job and commits, unless the unique key was taken since.
AddJob(c) ==
    /\ call[c] = "add"
    /\ IF JobsOf(KeyOf[c]) = {}
       THEN /\ jobs' = [jobs EXCEPT ![c] = QueuedRow]
            /\ call' = [call EXCEPT ![c] = "dispatch"]
       ELSE /\ call' = [call EXCEPT ![c] = "reread"]
            /\ UNCHANGED jobs
    /\ UNCHANGED <<effects, answer, dispatched, brokerVars, worker, spent>>

\* A second transaction finds the job that won.
Reread(c) ==
    /\ call[c] = "reread"
    /\ \E j \in JobsOf(KeyOf[c]) : Return(c, j)
    /\ UNCHANGED <<jobs, effects, dispatched, brokerVars, worker, spent>>

\* The caller enqueues the task of a job that is new, and answers its client.
Dispatch(c) ==
    /\ call[c] = "dispatch"
    /\ Enqueue(c, 0)
    /\ dispatched' = [dispatched EXCEPT ![c] = @ + 1]
    /\ Return(c, c)
    /\ UNCHANGED <<jobs, effects, deadLetters, worker, spent>>

\* The process, the database or the broker fails under the call: nobody dispatches.
LoseCall(c) ==
    /\ call[c] \in {"add", "dispatch"}
    /\ call' = [call EXCEPT ![c] = "lost"]
    /\ UNCHANGED <<jobs, effects, answer, dispatched, brokerVars, worker, spent>>

-----------------------------------------------------------------------------
(* Delivery, and one attempt of a task. *)

Attempting(j) == {v \in Workers : worker[v].job = j /\ worker[v].pc \notin {"dead_letter", "ack"}}
Receive(w) ==
    /\ worker[w].pc = "idle"
    /\ \E m \in Message :
         /\ ready[m] > 0
         /\ ready' = [ready EXCEPT ![m] = @ - 1]
         /\ Go(w, [Idle EXCEPT !.pc = "received", !.job = m[1], !.retries = m[2]])
         /\ spent' = [spent EXCEPT !.overlapped =
                        IF Attempting(m[1]) = {} THEN @ ELSE @ \cup {m[1]}]
    /\ UNCHANGED <<jobs, effects, callVars, deadLetters>>

\* _run_async reads the job; one that has ended is not run again.
LoadJob(w) ==
    /\ worker[w].pc = "received"
    /\ LET row == jobs[worker[w].job]
       IN  Go(w, [worker[w] EXCEPT !.row = row,
                    !.pc = IF row.status \in Terminal THEN "ack" ELSE "starting"])
    /\ UNCHANGED <<jobs, effects, callVars, brokerVars, spent>>

\* It records the attempt and commits.
WriteStart(w) ==
    /\ worker[w].pc = "starting"
    /\ CanTransition(worker[w].row, "running")
    /\ Write(worker[w].job, worker[w].row, Started(worker[w].row))
    /\ Go(w, [worker[w] EXCEPT !.pc = "executing", !.done = 0, !.row = QueuedRow])
    /\ UNCHANGED <<effects, callVars, brokerVars, spent>>

\* One piece of the work: a chunk of predictions.
RunChunk(w) ==
    /\ worker[w].pc = "executing"
    /\ worker[w].done < Chunks
    /\ effects' = [effects EXCEPT ![worker[w].job][worker[w].done + 1] = @ + 1]
    /\ Go(w, [worker[w] EXCEPT !.pc = "progress", !.done = @ + 1])
    /\ UNCHANGED <<jobs, callVars, brokerVars, spent>>

\* Mutant: progress counts the piece about to start.
ReportNext(w) ==
    /\ worker[w].pc = "progress"
    /\ jobs' = [jobs EXCEPT ![worker[w].job].progress = worker[w].done + 1]
    /\ Go(w, [worker[w] EXCEPT !.pc = "executing"])
    /\ UNCHANGED <<effects, callVars, brokerVars, spent>>

\* Its progress is reported, in a transaction that writes nothing else.
ReportProgress(w) ==
    /\ worker[w].pc = "progress"
    /\ jobs' = [jobs EXCEPT ![worker[w].job].progress = worker[w].done]
    /\ Go(w, [worker[w] EXCEPT !.pc = "executing"])
    /\ UNCHANGED <<effects, callVars, brokerVars, spent>>

\* Mutant: the loop over the pieces stops one early.
LoadResultEarly(w) ==
    /\ worker[w].pc = "executing"
    /\ worker[w].done = Chunks - 1
    /\ LET row == jobs[worker[w].job]
       IN  Go(w, [worker[w] EXCEPT !.row = row,
                    !.pc = IF CanTransition(row, "succeeded") THEN "finishing" ELSE "raised"])
    /\ UNCHANGED <<jobs, effects, callVars, brokerVars, spent>>

\* The work is done: the job is read again, and succeed() is illegal if it has ended.
LoadResult(w) ==
    /\ worker[w].pc = "executing"
    /\ worker[w].done = Chunks
    /\ LET row == jobs[worker[w].job]
       IN  Go(w, [worker[w] EXCEPT !.row = row,
                    !.pc = IF CanTransition(row, "succeeded") THEN "finishing" ELSE "raised"])
    /\ UNCHANGED <<jobs, effects, callVars, brokerVars, spent>>

WriteResult(w) ==
    /\ worker[w].pc = "finishing"
    /\ Write(worker[w].job, worker[w].row, Succeeded(worker[w].row))
    /\ Go(w, [worker[w] EXCEPT !.pc = "ack", !.row = QueuedRow])
    /\ UNCHANGED <<effects, callVars, brokerVars, spent>>

\* Any step of the attempt may raise.
Raise(w) ==
    /\ worker[w].pc \in {"received", "starting", "executing", "progress", "finishing"}
    /\ Go(w, [worker[w] EXCEPT !.pc = "raised", !.row = QueuedRow])
    /\ UNCHANGED <<jobs, effects, callVars, brokerVars, spent>>

\* autoretry_for: the task is enqueued again with one retry more.
Retry(w) ==
    /\ worker[w].pc = "raised"
    /\ worker[w].retries < MaxRetries
    /\ Enqueue(worker[w].job, worker[w].retries + 1)
    /\ Go(w, [worker[w] EXCEPT !.pc = "ack"])
    /\ UNCHANGED <<jobs, effects, callVars, deadLetters, spent>>

\* Mutant: _mark_failed does not look whether the job has ended.
LoadFailedAlways(w) ==
    /\ worker[w].pc = "raised"
    /\ worker[w].retries = MaxRetries
    /\ Go(w, [worker[w] EXCEPT !.row = jobs[worker[w].job], !.pc = "marking"])
    /\ UNCHANGED <<jobs, effects, callVars, brokerVars, spent>>

\* on_failure: _mark_failed reads the job and leaves one that has ended alone.
LoadFailed(w) ==
    /\ worker[w].pc = "raised"
    /\ worker[w].retries = MaxRetries
    /\ LET row == jobs[worker[w].job]
       IN  Go(w, [worker[w] EXCEPT !.row = row,
                    !.pc = IF row.status \in Terminal THEN "dead_letter" ELSE "marking"])
    /\ UNCHANGED <<jobs, effects, callVars, brokerVars, spent>>

\* A job that never ran is walked through running first.
WriteFailed(w) ==
    /\ worker[w].pc = "marking"
    /\ LET row == worker[w].row
       IN  Write(worker[w].job, row, Failed(IF row.status = "queued" THEN Started(row) ELSE row))
    /\ Go(w, [worker[w] EXCEPT !.pc = "dead_letter", !.row = QueuedRow])
    /\ UNCHANGED <<effects, callVars, brokerVars, spent>>

RecordDeadLetter(w) ==
    /\ worker[w].pc = "dead_letter"
    /\ deadLetters' = deadLetters \cup {worker[w].job}
    /\ Go(w, [worker[w] EXCEPT !.pc = "ack"])
    /\ UNCHANGED <<jobs, effects, callVars, ready, spent>>

\* The message is acknowledged only now (task_acks_late).
Ack(w) ==
    /\ worker[w].pc = "ack"
    /\ Go(w, Idle)
    /\ UNCHANGED <<jobs, effects, callVars, brokerVars, spent>>

\* Mutant: messages are acknowledged when they are received.
CrashLoses(w) ==
    /\ worker[w].pc # "idle"
    /\ spent.crashes < MaxCrashes
    /\ spent' = [spent EXCEPT !.crashes = @ + 1]
    /\ Go(w, Idle)
    /\ UNCHANGED <<jobs, effects, callVars, brokerVars>>

\* The worker process dies: the broker delivers the message again.
Crash(w) ==
    /\ worker[w].pc # "idle"
    /\ spent.crashes < MaxCrashes
    /\ spent' = [spent EXCEPT !.crashes = @ + 1]
    /\ Enqueue(worker[w].job, worker[w].retries)
    /\ Go(w, Idle)
    /\ UNCHANGED <<jobs, effects, callVars, deadLetters>>

\* The visibility timeout, as long as the task time limit, passes while the task runs.
Redeliver(w) ==
    /\ worker[w].pc # "idle"
    /\ spent.redeliveries < MaxRedeliveries
    /\ spent' = [spent EXCEPT !.redeliveries = @ + 1]
    /\ Enqueue(worker[w].job, worker[w].retries)
    /\ UNCHANGED <<jobs, effects, callVars, deadLetters, worker>>

\* The hard time limit kills the attempt, or _mark_failed itself raises: the message is
\* acknowledged and nobody records an outcome.
Abandon(w) ==
    /\ worker[w].pc \in {"received", "starting", "executing", "progress", "finishing", "marking"}
    /\ spent.abandons < MaxAbandons
    /\ spent' = [spent EXCEPT !.abandons = @ + 1]
    /\ Go(w, Idle)
    /\ UNCHANGED <<jobs, effects, callVars, brokerVars>>

CallStep(c) == FindKey(c) \/ AddJob(c) \/ Reread(c) \/ Dispatch(c) \/ LoseCall(c)

Work(w) ==
    \/ Receive(w) \/ LoadJob(w) \/ WriteStart(w)
    \/ RunChunk(w) \/ ReportProgress(w) \/ LoadResult(w) \/ WriteResult(w)
    \/ Raise(w) \/ Retry(w)
    \/ LoadFailed(w) \/ WriteFailed(w) \/ RecordDeadLetter(w) \/ Ack(w)

Next ==
    \/ \E c \in Calls : CallStep(c)
    \/ \E w \in Workers : Work(w) \/ Crash(w) \/ Redeliver(w) \/ Abandon(w)

\* Celery workers keep consuming; nothing obliges a client or a failure.
Fairness == \A w \in Workers : WF_vars(Work(w))

Spec == Init /\ [][Next]_vars
FairSpec == Spec /\ Fairness

-----------------------------------------------------------------------------
TypeOK ==
    /\ jobs \in [Calls -> Row \cup {None}]
    /\ effects \in [Calls -> [1..Chunks -> Nat]]
    /\ call \in [Calls -> {"find", "add", "reread", "dispatch", "done", "lost"}]
    /\ answer \in [Calls -> Calls \cup {None}]
    /\ dispatched \in [Calls -> Nat]
    /\ ready \in [Message -> Nat]
    /\ deadLetters \subseteq Calls
    /\ worker \in [Workers -> Worker]
    /\ spent \in [crashes : Nat, redeliveries : Nat, abandons : Nat, overlapped : SUBSET Calls]

\* However submissions with one key race, fail or are sent again, one job exists for the
\* key, its task is enqueued at most once, and every call that answers answers that job.
SubmittedOnce ==
    /\ \A k \in Keys : Cardinality(JobsOf(k)) <= 1
    /\ \A c \in Calls : dispatched[c] <= 1
    /\ \A c \in Calls : answer[c] # None => answer[c] \in JobsOf(KeyOf[c])

\* A job that has ended is final unless two attempts of it overlapped: redelivered messages,
\* retries and late failures change neither its row nor do any of its work again.
EndIsFinal ==
    [][\A j \in Calls : jobs[j] # None /\ jobs[j].status \in Terminal /\ j \notin spent.overlapped
         => jobs'[j] = jobs[j] /\ effects'[j] = effects[j]]_vars

\* However deliveries overlap, a job that reports success did every piece of its work and has
\* its result, and one that reports failure says why.  As long as attempts of it did not
\* overlap, it has either a result or an error, its progress is complete, no attempt on record
\* did a piece twice, and the dead-letter queue names it only when its row is final.
OutcomeIsTrue == \A j \in Calls : jobs[j] # None =>
    /\ jobs[j].status = "succeeded" => jobs[j].result /\ \A k \in 1..Chunks : effects[j][k] >= 1
    /\ jobs[j].status = "failed" => jobs[j].error
    /\ j \notin spent.overlapped =>
         /\ jobs[j].status = "succeeded" => jobs[j].progress = Chunks
         /\ ~(jobs[j].result /\ jobs[j].error)
         /\ \A k \in 1..Chunks : effects[j][k] <= jobs[j].attempts
         /\ j \in deadLetters => jobs[j].status \in Terminal

\* A dispatched job ends in its row, through any crash or redelivery, unless an attempt
\* was abandoned.
DispatchedJobsEnd == \A j \in Calls :
    dispatched[j] = 1 ~> \/ jobs[j] # None /\ jobs[j].status \in Terminal
                         \/ spent.abandons > 0
=============================================================================
