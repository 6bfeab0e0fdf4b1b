---------------------------- MODULE JobQueueProofs ----------------------------
(***************************************************************************)
(* Proofs about background jobs, for any number of submissions, keys and    *)
(* workers, and for deliveries that overlap in any way.                     *)
(***************************************************************************)
EXTENDS JobQueue, FiniteSetTheorems, TLAPS

\* What a submission has done so far.
CallInv(c) ==
    /\ call[c] \in {"find", "add", "reread"} => jobs[c] = None
    /\ call[c] = "dispatch" => jobs[c] # None
    /\ dispatched[c] = 0 \/ (dispatched[c] = 1 /\ call[c] = "done")
    /\ answer[c] # None => answer[c] \in JobsOf(KeyOf[c])

\* The jobs the broker and the workers name exist, and no key has two.
JobsInv ==
    /\ \A i, j \in Calls : jobs[i] # None /\ jobs[j] # None /\ KeyOf[i] = KeyOf[j] => i = j
    /\ \A m \in Message : ready[m] > 0 => jobs[m[1]] # None
    /\ \A w \in Workers : worker[w].pc # "idle" =>
         worker[w].job \in Calls /\ jobs[worker[w].job] # None

Inv == TypeOK /\ JobsInv /\ \A c \in Calls : CallInv(c)

\* The types of the state, one variable at a time.
LEMMA Types ==
    ASSUME TypeOK
    PROVE  /\ jobs \in [Calls -> Row \cup {None}]
           /\ effects \in [Calls -> [1..Chunks -> Nat]]
           /\ call \in [Calls -> {"find", "add", "reread", "dispatch", "done", "lost"}]
           /\ answer \in [Calls -> Calls \cup {None}]
           /\ dispatched \in [Calls -> Nat]
           /\ ready \in [Message -> Nat]
           /\ deadLetters \subseteq Calls
           /\ worker \in [Workers -> Worker]
           /\ spent \in [crashes : Nat, redeliveries : Nat, abandons : Nat, overlapped : SUBSET Calls]
BY DEF TypeOK

\* The row of a new job is a row.
LEMMA QueuedType == QueuedRow \in Row /\ QueuedRow # None
<1>1. QueuedRow \in Row
  BY NumbersAssumption DEF Row, QueuedRow, Status
<1> QED BY <1>1, NoneAssumption

\* The rows a job goes through are rows.
LEMMA RowType ==
    ASSUME NEW r \in Row
    PROVE  Started(r) \in Row /\ Succeeded(r) \in Row /\ Failed(r) \in Row
<1>1. Started(r) \in Row
  <2>1. /\ r.attempts + 1 \in Nat /\ r.progress \in 0..Chunks
        /\ r.result \in BOOLEAN /\ r.error \in BOOLEAN
    BY DEF Row
  <2> DEFINE x == [r EXCEPT !.status = "running", !.attempts = r.attempts + 1]
  <2>2. x \in Row
    BY <2>1 DEF Row, Status
  <2>3. Started(r) = [x EXCEPT !.started = TRUE]
    BY DEF Started, Row
  <2> HIDE DEF x
  <2> QED BY <2>2, <2>3 DEF Row
<1>2. Succeeded(r) \in Row
  BY DEF Row, Succeeded, Status
<1>3. Failed(r) \in Row
  BY DEF Row, Failed, Status
<1> QED BY <1>1, <1>2, <1>3

\* An UPDATE of some columns of a row leaves a row.
LEMMA MergeType ==
    ASSUME NEW r \in Row, NEW read \in Row, NEW to \in Row
    PROVE  [col \in DOMAIN r |-> IF to[col] = read[col] THEN r[col] ELSE to[col]] \in Row
<1> DEFINE x == [col \in DOMAIN r |-> IF to[col] = read[col] THEN r[col] ELSE to[col]]
<1>1. DOMAIN r = {"status", "attempts", "started", "progress", "result", "error"}
  BY DEF Row
<1>2. x = [status |-> x["status"], attempts |-> x["attempts"], started |-> x["started"],
           progress |-> x["progress"], result |-> x["result"], error |-> x["error"]]
  BY <1>1
<1>3. /\ x.status \in Status /\ x.attempts \in Nat /\ x.started \in BOOLEAN
      /\ x.progress \in 0..Chunks /\ x.result \in BOOLEAN /\ x.error \in BOOLEAN
  BY <1>1 DEF Row
<1> QED BY <1>2, <1>3 DEF Row

\* The UPDATE of a job that exists leaves one of its row.
LEMMA WriteRow ==
    ASSUME NEW j, NEW read \in Row, NEW to \in Row, jobs[j] \in Row,
           jobs \in [Calls -> Row \cup {None}], j \in Calls, Write(j, read, to)
    PROVE  \E r \in Row : jobs' = [jobs EXCEPT ![j] = r]
<1> DEFINE r == [col \in DOMAIN jobs[j] |-> IF to[col] = read[col] THEN jobs[j][col] ELSE to[col]]
<1>1. r \in Row
  BY MergeType
<1>2. jobs' = [jobs EXCEPT ![j] = r]
  BY DEF Write
<1> QED BY <1>1, <1>2

\* A worker's record stays well formed.
LEMMA GoType ==
    ASSUME TypeOK, NEW w \in Workers, NEW x \in Worker, Go(w, x)
    PROVE  /\ worker' \in [Workers -> Worker]
           /\ worker'[w] = x
           /\ \A v \in Workers \ {w} : worker'[v] = worker[v]
<1>1. worker' = [worker EXCEPT ![w] = x] /\ worker \in [Workers -> Worker]
  BY DEF Go, TypeOK
<1> QED BY <1>1

\* Counting at one place of a table of counters.
LEMMA Increment ==
    ASSUME NEW S, NEW f \in [S -> Nat], NEW k \in S PROVE [f EXCEPT ![k] = @ + 1] \in [S -> Nat]
OBVIOUS

\* The worker at rest.
LEMMA IdleType == Idle \in Worker /\ Idle.pc = "idle"
BY QueuedType, NumbersAssumption DEF Idle, Worker, WorkerSteps

\* A step that creates no job and answers no call, and whose messages and workers name jobs
\* that exist.
LEMMA WorkStep ==
    ASSUME Inv, TypeOK', UNCHANGED callVars,
           \A c \in Calls : jobs'[c] # None <=> jobs[c] # None,
           \A m \in Message : ready'[m] > 0 => jobs[m[1]] # None,
           \A w \in Workers : worker'[w].pc # "idle" =>
             worker'[w].job \in Calls /\ jobs[worker'[w].job] # None
    PROVE  Inv'
<1>1. \A c \in Calls : JobsOf(KeyOf[c])' = JobsOf(KeyOf[c])
  BY DEF JobsOf
<1>2. \A c \in Calls : CallInv(c)'
  BY <1>1 DEF Inv, CallInv, callVars
<1>3. \A m \in Message : m[1] \in Calls
  BY DEF Message
<1>4. JobsInv'
  BY <1>3 DEF Inv, JobsInv
<1> QED BY <1>2, <1>4 DEF Inv

\* A worker's step that writes no row, sends no message and keeps its job.
LEMMA PlainStep ==
    ASSUME Inv, NEW w \in Workers, NEW x \in Worker, Go(w, x),
           x.pc # "idle" => x.job \in Calls /\ jobs[x.job] # None,
           UNCHANGED <<jobs, callVars, ready>>,
           effects' \in [Calls -> [1..Chunks -> Nat]],
           deadLetters' \subseteq Calls,
           spent' \in [crashes : Nat, redeliveries : Nat, abandons : Nat, overlapped : SUBSET Calls]
    PROVE  Inv'
<1>1. TypeOK'
  BY GoType, Types DEF Inv, TypeOK, callVars
<1>2. \A v \in Workers : worker'[v].pc # "idle" =>
        worker'[v].job \in Calls /\ jobs[worker'[v].job] # None
  BY GoType DEF Inv, JobsInv
<1>3. \A m \in Message : ready'[m] > 0 => jobs[m[1]] # None
  BY DEF Inv, JobsInv
<1> QED BY <1>1, <1>2, <1>3, WorkStep

\* A worker's step that writes the row of its job.
LEMMA WriteStep ==
    ASSUME Inv, NEW w \in Workers, NEW x \in Worker, Go(w, x), worker[w].pc # "idle",
           x.job = worker[w].job,
           NEW r \in Row, jobs' = [jobs EXCEPT ![worker[w].job] = r],
           UNCHANGED <<effects, callVars, brokerVars, spent>>
    PROVE  Inv'
<1>1. worker[w].job \in Calls /\ jobs[worker[w].job] # None
  BY DEF Inv, JobsInv
<1>2. jobs' \in [Calls -> Row \cup {None}] /\ \A c \in Calls : jobs'[c] # None <=> jobs[c] # None
  BY <1>1, Types, NoneAssumption DEF Inv
<1>3. TypeOK'
  BY <1>2, GoType, Types DEF Inv, TypeOK, callVars, brokerVars
<1>4. \A v \in Workers : worker'[v].pc # "idle" =>
        worker'[v].job \in Calls /\ jobs[worker'[v].job] # None
  BY <1>1, GoType DEF Inv, JobsInv
<1>5. \A m \in Message : ready'[m] > 0 => jobs[m[1]] # None
  BY DEF Inv, JobsInv, brokerVars
<1> QED BY <1>2, <1>3, <1>4, <1>5, WorkStep

\* A step that enqueues a message about a job that exists.
LEMMA SendStep ==
    ASSUME Inv, NEW j \in Calls, jobs[j] # None, NEW n \in 0..MaxRetries, Enqueue(j, n),
           UNCHANGED <<jobs, effects, callVars, deadLetters>>,
           worker' \in [Workers -> Worker],
           \A v \in Workers : worker'[v].pc # "idle" =>
             worker'[v].job \in Calls /\ jobs[worker'[v].job] # None,
           spent' \in [crashes : Nat, redeliveries : Nat, abandons : Nat, overlapped : SUBSET Calls]
    PROVE  Inv'
<1>1. <<j, n>> \in Message /\ ready \in [Message -> Nat]
  BY Types DEF Message, Inv
<1>2. ready' \in [Message -> Nat]
      /\ \A m \in Message : ready'[m] > 0 => ready[m] > 0 \/ m = <<j, n>>
  BY <1>1 DEF Enqueue
<1>3. TypeOK'
  BY <1>2, Types DEF Inv, TypeOK, callVars
<1>4. \A m \in Message : ready'[m] > 0 => jobs[m[1]] # None
  BY <1>2 DEF Inv, JobsInv
<1> QED BY <1>3, <1>4, WorkStep

\* The job a busy worker names, and the record it holds.
LEMMA Busy ==
    ASSUME Inv, NEW w \in Workers
    PROVE  /\ worker[w] \in Worker
           /\ worker[w].row \in Row /\ worker[w].done \in 0..Chunks
           /\ worker[w].retries \in 0..MaxRetries
           /\ worker[w].pc # "idle" =>
                /\ worker[w].job \in Calls
                /\ jobs[worker[w].job] # None /\ jobs[worker[w].job] \in Row
BY Types DEF Inv, JobsInv, Worker

\* A submission's step preserves the invariant.
LEMMA CallKept == ASSUME Inv, NEW c \in Calls, CallStep(c) PROVE Inv'
<1> USE Types DEF Inv
<1>1. CASE FindKey(c)
  <2>1. UNCHANGED <<jobs, effects, dispatched, ready, deadLetters, worker, spent>>
    BY <1>1 DEF FindKey, brokerVars
  <2>2. \A d \in Calls \ {c} : call'[d] = call[d] /\ answer'[d] = answer[d]
    BY <1>1 DEF FindKey, Return
  <2>3. /\ call[c] = "find" /\ dispatched[c] = 0 /\ jobs[c] = None
        /\ \/ call'[c] = "add" /\ answer'[c] = answer[c]
           \/ call'[c] = "done" /\ answer'[c] \in JobsOf(KeyOf[c])
    BY <1>1 DEF FindKey, Return, CallInv
  <2>4. call' \in [Calls -> {"find", "add", "reread", "dispatch", "done", "lost"}]
        /\ answer' \in [Calls -> Calls \cup {None}]
    BY ZenonT(60), <1>1 DEF FindKey, Return, JobsOf
  <2>5. TypeOK' /\ JobsInv'
    BY <2>1, <2>4 DEF TypeOK, JobsInv
  <2>6. \A d \in Calls : JobsOf(KeyOf[d])' = JobsOf(KeyOf[d])
    BY <2>1 DEF JobsOf
  <2> QED BY <2>1, <2>2, <2>3, <2>5, <2>6 DEF CallInv
<1>2. CASE AddJob(c)
  <2>1. UNCHANGED <<effects, answer, dispatched, ready, deadLetters, worker, spent>>
        /\ call[c] = "add" /\ jobs[c] = None /\ dispatched[c] = 0
    BY <1>2 DEF AddJob, brokerVars, CallInv
  <2>2. CASE JobsOf(KeyOf[c]) = {}
    <3>1. jobs' = [jobs EXCEPT ![c] = QueuedRow] /\ call' = [call EXCEPT ![c] = "dispatch"]
      BY <1>2, <2>2 DEF AddJob
    <3>2. QueuedRow \in Row /\ QueuedRow # None
      BY QueuedType
    <3>3. TypeOK'
      BY <2>1, <3>1, <3>2 DEF TypeOK
    <3>4. \A d \in Calls \ {c} : jobs'[d] = jobs[d] /\ call'[d] = call[d]
      BY <3>1
    <3>5. jobs'[c] # None /\ call'[c] = "dispatch"
      BY <3>1, <3>2
    <3>6. \A d \in Calls : jobs[d] # None => KeyOf[d] # KeyOf[c]
      BY <2>2 DEF JobsOf
    <3>7. JobsInv'
      <4>1. \A i, j \in Calls : jobs'[i] # None /\ jobs'[j] # None /\ KeyOf[i] = KeyOf[j] => i = j
        BY <3>4, <3>6 DEF JobsInv
      <4>2. \A m \in Message : ready'[m] > 0 => jobs'[m[1]] # None
        BY <2>1, <3>4, <3>5 DEF JobsInv, Message
      <4>3. \A w \in Workers : worker'[w].pc # "idle" =>
              worker'[w].job \in Calls /\ jobs'[worker'[w].job] # None
        BY <2>1, <3>4, <3>5 DEF JobsInv
      <4> QED BY <4>1, <4>2, <4>3 DEF JobsInv
    <3>8. \A d \in Calls : JobsOf(KeyOf[d]) \subseteq JobsOf(KeyOf[d])'
      BY <3>4, <3>5 DEF JobsOf
    <3>9. \A d \in Calls : CallInv(d)'
      BY <2>1, <3>4, <3>5, <3>8 DEF CallInv
    <3> QED BY <3>3, <3>7, <3>9
  <2>3. CASE JobsOf(KeyOf[c]) # {}
    <3>1. jobs' = jobs /\ call' = [call EXCEPT ![c] = "reread"]
      BY <1>2, <2>3 DEF AddJob
    <3>2. TypeOK' /\ JobsInv'
      BY <2>1, <3>1 DEF TypeOK, JobsInv
    <3>3. \A d \in Calls : JobsOf(KeyOf[d])' = JobsOf(KeyOf[d])
      BY <3>1 DEF JobsOf
    <3>4. \A d \in Calls : CallInv(d)'
      BY <2>1, <3>1, <3>3 DEF CallInv
    <3> QED BY <3>2, <3>4
  <2> QED BY <2>2, <2>3
<1>3. CASE Reread(c)
  <2>1. UNCHANGED <<jobs, effects, dispatched, ready, deadLetters, worker, spent>>
    BY <1>3 DEF Reread, brokerVars
  <2>2. PICK j \in JobsOf(KeyOf[c]) :
          call' = [call EXCEPT ![c] = "done"] /\ answer' = [answer EXCEPT ![c] = j]
    BY <1>3 DEF Reread, Return
  <2>3. call[c] = "reread" /\ dispatched[c] = 0 /\ jobs[c] = None /\ j \in Calls
    BY <1>3, <2>2 DEF Reread, CallInv, JobsOf
  <2>4. TypeOK' /\ JobsInv'
    BY <2>1, <2>2, <2>3 DEF TypeOK, JobsInv
  <2>5. \A d \in Calls : JobsOf(KeyOf[d])' = JobsOf(KeyOf[d])
    BY <2>1 DEF JobsOf
  <2>6. \A d \in Calls : CallInv(d)'
    BY <2>1, <2>2, <2>3, <2>5 DEF CallInv
  <2> QED BY <2>4, <2>6
<1>4. CASE Dispatch(c)
  <2>1. UNCHANGED <<jobs, effects, deadLetters, worker, spent>> /\ Enqueue(c, 0)
    BY <1>4 DEF Dispatch
  <2>2. /\ call' = [call EXCEPT ![c] = "done"] /\ answer' = [answer EXCEPT ![c] = c]
        /\ dispatched' = [dispatched EXCEPT ![c] = @ + 1]
    BY <1>4 DEF Dispatch, Return
  <2>3. call[c] = "dispatch" /\ jobs[c] # None /\ dispatched[c] = 0 /\ c \in JobsOf(KeyOf[c])
    BY <1>4 DEF Dispatch, CallInv, JobsOf
  <2>4. <<c, 0>> \in Message
    BY NumbersAssumption DEF Message
  <2>5. ready' \in [Message -> Nat]
        /\ \A m \in Message : ready'[m] > 0 => ready[m] > 0 \/ m = <<c, 0>>
    BY <2>1, <2>4 DEF Enqueue
  <2>6. TypeOK'
    BY <2>1, <2>2, <2>5 DEF TypeOK
  <2>7. JobsInv'
    BY <2>1, <2>3, <2>5 DEF JobsInv
  <2>8. \A d \in Calls : JobsOf(KeyOf[d])' = JobsOf(KeyOf[d])
    BY <2>1 DEF JobsOf
  <2>9. \A d \in Calls : CallInv(d)'
    BY <2>1, <2>2, <2>3, <2>8 DEF CallInv
  <2> QED BY <2>6, <2>7, <2>9
<1>5. CASE LoseCall(c)
  <2>1. UNCHANGED <<jobs, effects, answer, dispatched, ready, deadLetters, worker, spent>>
        /\ call' = [call EXCEPT ![c] = "lost"] /\ dispatched[c] = 0
    BY <1>5 DEF LoseCall, brokerVars, CallInv
  <2>2. call' \in [Calls -> {"find", "add", "reread", "dispatch", "done", "lost"}]
    BY <2>1
  <2>3. TypeOK' /\ JobsInv'
    BY <2>1, <2>2 DEF TypeOK, JobsInv
  <2>4. \A d \in Calls : JobsOf(KeyOf[d])' = JobsOf(KeyOf[d])
    BY <2>1 DEF JobsOf
  <2>5. call'[c] = "lost" /\ \A d \in Calls \ {c} : call'[d] = call[d]
    BY <2>1
  <2>6. CallInv(c)'
    <3>1. /\ jobs'[c] = jobs[c] /\ answer'[c] = answer[c] /\ dispatched'[c] = 0
          /\ JobsOf(KeyOf[c])' = JobsOf(KeyOf[c]) /\ call'[c] = "lost"
      BY <2>1, <2>4, <2>5
    <3> QED BY <3>1 DEF CallInv
  <2>7. \A d \in Calls \ {c} : CallInv(d)'
    BY <2>1, <2>4, <2>5 DEF CallInv
  <2> QED BY <2>3, <2>6, <2>7
<1> QED BY <1>1, <1>2, <1>3, <1>4, <1>5 DEF CallStep

\* A worker's step preserves the invariant.
LEMMA WorkKept == ASSUME Inv, NEW w \in Workers, Work(w) \/ Crash(w) \/ Redeliver(w) \/ Abandon(w) PROVE Inv'
<1> USE DEF Inv, brokerVars
<1> DEFINE x == worker[w]
<1>0. /\ x \in Worker /\ x.row \in Row /\ x.done \in 0..Chunks /\ x.retries \in 0..MaxRetries
      /\ x.pc # "idle" => x.job \in Calls /\ jobs[x.job] # None /\ jobs[x.job] \in Row
      /\ jobs \in [Calls -> Row \cup {None}] /\ effects \in [Calls -> [1..Chunks -> Nat]]
      /\ ready \in [Message -> Nat] /\ deadLetters \subseteq Calls
      /\ worker \in [Workers -> Worker]
      /\ spent \in [crashes : Nat, redeliveries : Nat, abandons : Nat, overlapped : SUBSET Calls]
  BY Busy, Types
<1>1. ASSUME Receive(w) PROVE Inv'
  <2>1. PICK m \in Message :
          /\ ready[m] > 0 /\ ready' = [ready EXCEPT ![m] = @ - 1]
          /\ Go(w, [Idle EXCEPT !.pc = "received", !.job = m[1], !.retries = m[2]])
          /\ spent' = [spent EXCEPT !.overlapped =
                         IF Attempting(m[1]) = {} THEN @ ELSE @ \cup {m[1]}]
    BY <1>1 DEF Receive
  <2> DEFINE y == [Idle EXCEPT !.pc = "received", !.job = m[1], !.retries = m[2]]
  <2>2. m[1] \in Calls /\ m[2] \in 0..MaxRetries /\ jobs[m[1]] # None
    BY <2>1 DEF Message, JobsInv
  <2>3. y \in Worker /\ y.job = m[1]
    BY <2>2, IdleType DEF Worker, WorkerSteps, Idle
  <2>4. Go(w, y)
    BY <2>1
  <2> HIDE DEF y
  <2>5. /\ worker' \in [Workers -> Worker] /\ worker'[w] = y
        /\ \A v \in Workers \ {w} : worker'[v] = worker[v]
    BY <2>3, <2>4, GoType
  <2>6. ready' \in [Message -> Nat] /\ \A n \in Message : ready'[n] > 0 => ready[n] > 0
    BY <1>0, <2>1
  <2>7. UNCHANGED <<jobs, effects, call, answer, dispatched, deadLetters>>
        /\ spent' \in [crashes : Nat, redeliveries : Nat, abandons : Nat, overlapped : SUBSET Calls]
    BY <1>0, <1>1, <2>1, <2>2 DEF Receive, callVars
  <2>8. TypeOK'
    BY <2>5, <2>6, <2>7, Types DEF TypeOK
  <2>9. \A v \in Workers : worker'[v].pc # "idle" =>
          worker'[v].job \in Calls /\ jobs[worker'[v].job] # None
    BY <2>2, <2>3, <2>5 DEF JobsInv
  <2> QED BY <2>6, <2>7, <2>8, <2>9, WorkStep DEF JobsInv, callVars
<1>2. ASSUME LoadJob(w) PROVE Inv'
  <2> DEFINE pc == IF jobs[x.job].status \in Terminal THEN "ack" ELSE "starting"
             y == [x EXCEPT !.row = jobs[x.job], !.pc = pc]
  <2>1. x.pc = "received" /\ UNCHANGED <<jobs, effects, callVars, brokerVars, spent>>
    BY <1>2 DEF LoadJob
  <2>2. y \in Worker /\ y.job = x.job
    BY <1>0, <2>1 DEF Worker, WorkerSteps
  <2>3. Go(w, y)
    BY <1>2 DEF LoadJob
  <2> QED BY <1>0, <2>1, <2>2, <2>3, PlainStep
<1>3. ASSUME WriteStart(w) PROVE Inv'
  <2> DEFINE y == [x EXCEPT !.pc = "executing", !.done = 0, !.row = QueuedRow]
  <2>1. x.pc = "starting" /\ UNCHANGED <<effects, callVars, brokerVars, spent>>
    BY <1>3 DEF WriteStart
  <2>2. y \in Worker /\ y.job = x.job
    <3>1. 0 \in 0..Chunks
      BY NumbersAssumption
    <3> QED BY <1>0, <3>1, QueuedType DEF Worker, WorkerSteps
  <2>3. Go(w, y) /\ Write(x.job, x.row, Started(x.row))
    BY <1>3 DEF WriteStart
  <2>4. PICK r \in Row : jobs' = [jobs EXCEPT ![x.job] = r]
    BY <1>0, <2>1, <2>3, RowType, WriteRow
  <2> QED BY <2>1, <2>2, <2>3, <2>4, WriteStep
<1>4. ASSUME RunChunk(w) PROVE Inv'
  <2> DEFINE y == [x EXCEPT !.pc = "progress", !.done = x.done + 1]
  <2>1. x.pc = "executing" /\ x.done + 1 \in 1..Chunks /\ UNCHANGED <<jobs, callVars, brokerVars, spent>>
        /\ effects' = [effects EXCEPT ![x.job][x.done + 1] = @ + 1]
    BY <1>0, <1>4, NumbersAssumption DEF RunChunk
  <2>2. y \in Worker /\ y.job = x.job
    <3>1. x.done + 1 \in 0..Chunks
      BY <2>1, NumbersAssumption
    <3> QED BY <1>0, <3>1 DEF Worker, WorkerSteps
  <2>3. Go(w, y)
    BY <1>0, <1>4 DEF RunChunk, Worker
  <2>4. effects' \in [Calls -> [1..Chunks -> Nat]]
    <3> DEFINE e == [effects[x.job] EXCEPT ![x.done + 1] = @ + 1]
    <3>1. e \in [1..Chunks -> Nat]
      <4>1. effects[x.job] \in [1..Chunks -> Nat]
        BY <1>0, <2>1
      <4> QED BY <2>1, <4>1, Increment
    <3>2. effects' = [effects EXCEPT ![x.job] = e]
      BY <2>1
    <3> HIDE DEF e
    <3> QED BY <1>0, <3>1, <3>2
  <2> QED BY <1>0, <2>1, <2>2, <2>3, <2>4, PlainStep
<1>5. ASSUME ReportProgress(w) PROVE Inv'
  <2> DEFINE y == [x EXCEPT !.pc = "executing"]
             r == [jobs[x.job] EXCEPT !.progress = x.done]
  <2>1. x.pc = "progress" /\ UNCHANGED <<effects, callVars, brokerVars, spent>>
        /\ jobs' = [jobs EXCEPT ![x.job].progress = x.done]
    BY <1>5 DEF ReportProgress
  <2>2. y \in Worker /\ y.job = x.job
    BY <1>0 DEF Worker, WorkerSteps
  <2>3. Go(w, y)
    BY <1>5 DEF ReportProgress
  <2>4. r \in Row
    BY <1>0, <2>1 DEF Row
  <2>5. jobs' = [jobs EXCEPT ![x.job] = r]
    BY <2>1
  <2> QED BY <2>1, <2>2, <2>3, <2>4, <2>5, WriteStep
<1>6. ASSUME LoadResult(w) PROVE Inv'
  <2> DEFINE pc == IF CanTransition(jobs[x.job], "succeeded") THEN "finishing" ELSE "raised"
             y == [x EXCEPT !.row = jobs[x.job], !.pc = pc]
  <2>1. x.pc = "executing" /\ UNCHANGED <<jobs, effects, callVars, brokerVars, spent>>
    BY <1>6 DEF LoadResult
  <2>2. y \in Worker /\ y.job = x.job
    BY <1>0, <2>1 DEF Worker, WorkerSteps
  <2>3. Go(w, y)
    BY <1>6 DEF LoadResult
  <2> QED BY <1>0, <2>1, <2>2, <2>3, PlainStep
<1>7. ASSUME WriteResult(w) PROVE Inv'
  <2> DEFINE y == [x EXCEPT !.pc = "ack", !.row = QueuedRow]
  <2>1. x.pc = "finishing" /\ UNCHANGED <<effects, callVars, brokerVars, spent>>
    BY <1>7 DEF WriteResult
  <2>2. y \in Worker /\ y.job = x.job
    BY <1>0, QueuedType DEF Worker, WorkerSteps
  <2>3. Go(w, y) /\ Write(x.job, x.row, Succeeded(x.row))
    BY <1>7 DEF WriteResult
  <2>4. PICK r \in Row : jobs' = [jobs EXCEPT ![x.job] = r]
    BY <1>0, <2>1, <2>3, RowType, WriteRow
  <2> QED BY <2>1, <2>2, <2>3, <2>4, WriteStep
<1>8. ASSUME Raise(w) PROVE Inv'
  <2> DEFINE y == [x EXCEPT !.pc = "raised", !.row = QueuedRow]
  <2>1. x.pc # "idle" /\ UNCHANGED <<jobs, effects, callVars, brokerVars, spent>>
    BY <1>8 DEF Raise
  <2>2. y \in Worker /\ y.job = x.job
    BY <1>0, QueuedType DEF Worker, WorkerSteps
  <2>3. Go(w, y)
    BY <1>8 DEF Raise
  <2> QED BY <1>0, <2>1, <2>2, <2>3, PlainStep
<1>9. ASSUME Retry(w) PROVE Inv'
  <2> DEFINE y == [x EXCEPT !.pc = "ack"]
  <2>1. x.pc = "raised" /\ UNCHANGED <<jobs, effects, callVars, deadLetters, spent>>
        /\ Enqueue(x.job, x.retries + 1) /\ x.retries + 1 \in 0..MaxRetries
    BY <1>0, <1>9, NumbersAssumption DEF Retry
  <2>2. y \in Worker /\ y.job = x.job
    BY <1>0 DEF Worker, WorkerSteps
  <2>3. Go(w, y)
    BY <1>9 DEF Retry
  <2> HIDE DEF y
  <2>4. /\ worker' \in [Workers -> Worker] /\ worker'[w] = y
        /\ \A v \in Workers \ {w} : worker'[v] = worker[v]
    BY <2>2, <2>3, GoType
  <2>5. \A v \in Workers : worker'[v].pc # "idle" =>
          worker'[v].job \in Calls /\ jobs[worker'[v].job] # None
    BY <1>0, <2>1, <2>2, <2>4 DEF JobsInv
  <2> QED BY <1>0, <2>1, <2>4, <2>5, SendStep
<1>10. ASSUME LoadFailed(w) PROVE Inv'
  <2> DEFINE pc == IF jobs[x.job].status \in Terminal THEN "dead_letter" ELSE "marking"
             y == [x EXCEPT !.row = jobs[x.job], !.pc = pc]
  <2>1. x.pc = "raised" /\ UNCHANGED <<jobs, effects, callVars, brokerVars, spent>>
    BY <1>10 DEF LoadFailed
  <2>2. y \in Worker /\ y.job = x.job
    BY <1>0, <2>1 DEF Worker, WorkerSteps
  <2>3. Go(w, y)
    BY <1>10 DEF LoadFailed
  <2> QED BY <1>0, <2>1, <2>2, <2>3, PlainStep
<1>11. ASSUME WriteFailed(w) PROVE Inv'
  <2> DEFINE y == [x EXCEPT !.pc = "dead_letter", !.row = QueuedRow]
             to == Failed(IF x.row.status = "queued" THEN Started(x.row) ELSE x.row)
  <2>1. x.pc = "marking" /\ UNCHANGED <<effects, callVars, brokerVars, spent>>
    BY <1>11 DEF WriteFailed
  <2>2. y \in Worker /\ y.job = x.job
    BY <1>0, QueuedType DEF Worker, WorkerSteps
  <2>3. Go(w, y) /\ Write(x.job, x.row, to)
    BY <1>11 DEF WriteFailed
  <2>4. to \in Row
    BY <1>0, RowType
  <2>5. PICK r \in Row : jobs' = [jobs EXCEPT ![x.job] = r]
    BY <1>0, <2>1, <2>3, <2>4, WriteRow
  <2> QED BY <2>1, <2>2, <2>3, <2>5, WriteStep
<1>12. ASSUME RecordDeadLetter(w) PROVE Inv'
  <2> DEFINE y == [x EXCEPT !.pc = "ack"]
  <2>1. x.pc = "dead_letter" /\ UNCHANGED <<jobs, effects, callVars, ready, spent>>
        /\ deadLetters' \subseteq Calls
    BY <1>0, <1>12 DEF RecordDeadLetter
  <2>2. y \in Worker /\ y.job = x.job
    BY <1>0 DEF Worker, WorkerSteps
  <2>3. Go(w, y)
    BY <1>12 DEF RecordDeadLetter
  <2> QED BY <1>0, <2>1, <2>2, <2>3, PlainStep
<1>13. ASSUME Ack(w) PROVE Inv'
  <2>1. UNCHANGED <<jobs, effects, callVars, brokerVars, spent>> /\ Go(w, Idle)
    BY <1>13 DEF Ack
  <2> QED BY <1>0, <2>1, IdleType, PlainStep
<1>14. ASSUME Crash(w) PROVE Inv'
  <2>1. x.pc # "idle" /\ UNCHANGED <<jobs, effects, callVars, deadLetters>>
        /\ Enqueue(x.job, x.retries) /\ Go(w, Idle)
        /\ spent' = [spent EXCEPT !.crashes = @ + 1]
    BY <1>14 DEF Crash
  <2>2. spent' \in [crashes : Nat, redeliveries : Nat, abandons : Nat, overlapped : SUBSET Calls]
    <3>1. /\ spent.crashes + 1 \in Nat /\ spent.redeliveries \in Nat /\ spent.abandons \in Nat
          /\ spent.overlapped \in SUBSET Calls
      BY <1>0
    <3>2. spent' = [crashes |-> spent.crashes + 1, redeliveries |-> spent.redeliveries,
                    abandons |-> spent.abandons, overlapped |-> spent.overlapped]
      BY <1>0, <2>1
    <3> QED BY <3>1, <3>2
  <2>3. /\ worker' \in [Workers -> Worker]
        /\ \A v \in Workers : worker'[v].pc # "idle" =>
             worker'[v].job \in Calls /\ jobs[worker'[v].job] # None
    BY <2>1, IdleType, GoType DEF JobsInv
  <2> QED BY <1>0, <2>1, <2>2, <2>3, SendStep
<1>15. ASSUME Redeliver(w) PROVE Inv'
  <2>1. x.pc # "idle" /\ UNCHANGED <<jobs, effects, callVars, deadLetters, worker>>
        /\ Enqueue(x.job, x.retries)
        /\ spent' = [spent EXCEPT !.redeliveries = @ + 1]
    BY <1>15 DEF Redeliver
  <2>2. spent' \in [crashes : Nat, redeliveries : Nat, abandons : Nat, overlapped : SUBSET Calls]
    <3>1. /\ spent.crashes \in Nat /\ spent.redeliveries + 1 \in Nat /\ spent.abandons \in Nat
          /\ spent.overlapped \in SUBSET Calls
      BY <1>0
    <3>2. spent' = [crashes |-> spent.crashes, redeliveries |-> spent.redeliveries + 1,
                    abandons |-> spent.abandons, overlapped |-> spent.overlapped]
      BY <1>0, <2>1
    <3> QED BY <3>1, <3>2
  <2>3. \A v \in Workers : worker'[v].pc # "idle" =>
          worker'[v].job \in Calls /\ jobs[worker'[v].job] # None
    BY <2>1 DEF JobsInv
  <2> QED BY <1>0, <2>1, <2>2, <2>3, SendStep
<1>16. ASSUME Abandon(w) PROVE Inv'
  <2>1. UNCHANGED <<jobs, effects, callVars, brokerVars>> /\ Go(w, Idle)
        /\ spent' = [spent EXCEPT !.abandons = @ + 1]
    BY <1>16 DEF Abandon
  <2>2. spent' \in [crashes : Nat, redeliveries : Nat, abandons : Nat, overlapped : SUBSET Calls]
    <3>1. /\ spent.crashes \in Nat /\ spent.redeliveries \in Nat /\ spent.abandons + 1 \in Nat
          /\ spent.overlapped \in SUBSET Calls
      BY <1>0
    <3>2. spent' = [crashes |-> spent.crashes, redeliveries |-> spent.redeliveries,
                    abandons |-> spent.abandons + 1, overlapped |-> spent.overlapped]
      BY <1>0, <2>1
    <3> QED BY <3>1, <3>2
  <2> QED BY <1>0, <2>1, <2>2, IdleType, PlainStep
<1> QED BY <1>1, <1>2, <1>3, <1>4, <1>5, <1>6, <1>7, <1>8, <1>9, <1>10, <1>11, <1>12, <1>13,
           <1>14, <1>15, <1>16 DEF Work

\* The initial state satisfies the invariant.
LEMMA InvInit == Init => Inv
<1> SUFFICES ASSUME Init PROVE Inv OBVIOUS
<1>1. /\ jobs = [c \in Calls |-> None] /\ call = [c \in Calls |-> "find"]
      /\ answer = [c \in Calls |-> None] /\ dispatched = [c \in Calls |-> 0]
      /\ ready = [m \in Message |-> 0] /\ worker = [w \in Workers |-> Idle]
  BY DEF Init
<1>2. TypeOK
  BY <1>1, IdleType DEF Init, TypeOK
<1>3. JobsInv
  BY <1>1, IdleType DEF JobsInv
<1>4. ASSUME NEW c \in Calls PROVE CallInv(c)
  <2>1. jobs[c] = None /\ call[c] = "find" /\ answer[c] = None /\ dispatched[c] = 0
    BY <1>1
  <2> QED BY <2>1 DEF CallInv
<1> QED BY <1>2, <1>3, <1>4 DEF Inv

\* Every behaviour satisfies it.
LEMMA InvInvariant == Spec => []Inv
<1>1. Inv /\ UNCHANGED vars => Inv'
  BY DEF vars, callVars, brokerVars, Inv, TypeOK, JobsInv, CallInv, JobsOf
<1>2. Inv /\ Next => Inv'
  BY CallKept, WorkKept DEF Next
<1> QED BY <1>1, <1>2, InvInit, PTL DEF Spec

\* Rows, messages and workers stay what they can be, however deliveries overlap.
THEOREM TypeCorrect == Spec => []TypeOK
BY InvInvariant, PTL DEF Inv

\* One key, one job, one dispatch, one answer: for any number of racing, failing and
\* repeated submissions, and whatever workers, crashes and redeliveries do meanwhile.
THEOREM SubmissionIsIdempotent == Spec => []SubmittedOnce
<1>1. ASSUME Inv PROVE SubmittedOnce
  <2>1. ASSUME NEW k \in Keys PROVE Cardinality(JobsOf(k)) <= 1
    <3>1. \A i, j \in JobsOf(k) : i = j
      BY <1>1 DEF Inv, JobsInv, JobsOf
    <3>2. CASE JobsOf(k) = {}
      BY <3>2, FS_EmptySet
    <3>3. CASE JobsOf(k) # {}
      <4>1. PICK j : JobsOf(k) = {j}
        BY <3>1, <3>3
      <4> QED BY <4>1, FS_Singleton
    <3> QED BY <3>2, <3>3
  <2>2. \A c \in Calls : CallInv(c)
    BY <1>1 DEF Inv
  <2> QED BY <2>1, <2>2 DEF CallInv, SubmittedOnce
<1> QED BY <1>1, InvInvariant, PTL

-----------------------------------------------------------------------------
(***************************************************************************)
(* What a row reports.  With overlapping attempts only what no writer ever  *)
(* takes back is certain; a job whose attempts never overlapped has one     *)
(* attempt at a time, which has read the row as it is.                      *)
(***************************************************************************)

\* A row, with the work done for its job, whatever attempts overlapped.
RowTold(row, eff) ==
    /\ row.status = "succeeded" => row.result /\ \A k \in 1..Chunks : eff[k] >= 1
    /\ row.status = "failed" => row.error

\* An attempt, with the row and the work of its job.
Knows(x, row, eff) ==
    /\ x.pc \in {"starting", "finishing", "marking"} =>
         /\ x.row.status \notin Terminal
         /\ x.row.result => row.result
         /\ x.row.error => row.error
    /\ x.pc = "finishing" => \A k \in 1..Chunks : eff[k] >= 1
    /\ x.pc \in {"executing", "progress"} => \A k \in 1..x.done : eff[k] >= 1

\* The same two, of a job whose attempts have not overlapped.
Settled(row, eff, dead) ==
    /\ row.result <=> row.status = "succeeded"
    /\ row.error <=> row.status = "failed"
    /\ row.status = "succeeded" => row.progress = Chunks
    /\ \A k \in 1..Chunks : eff[k] <= row.attempts
    /\ dead => row.status \in Terminal

Alone(x, row, eff) ==
    /\ x.pc \in {"starting", "finishing", "marking"} => x.row = row /\ row.status \notin Terminal
    /\ x.pc = "finishing" => row.progress = Chunks
    /\ x.pc \in {"executing", "progress"} =>
         row.status = "running" /\ \A k \in 1..Chunks : k > x.done => eff[k] < row.attempts
    /\ x.pc = "executing" /\ x.done > 0 => row.progress = x.done
    /\ x.pc = "dead_letter" => row.status \in Terminal

OutInv ==
    /\ \A j \in Calls : jobs[j] # None => RowTold(jobs[j], effects[j])
    /\ \A j \in Calls : jobs[j] = None =>
         j \notin deadLetters /\ \A k \in 1..Chunks : effects[j][k] = 0
    /\ \A w \in Workers : worker[w].job \in Calls =>
         Knows(worker[w], jobs[worker[w].job], effects[worker[w].job])
    /\ \A j \in Calls \ spent.overlapped :
         /\ \A v, w \in Attempting(j) : v = w
         /\ jobs[j] # None => Settled(jobs[j], effects[j], j \in deadLetters)
         /\ \A w \in Workers : worker[w].job = j => Alone(worker[w], jobs[j], effects[j])

LEMMA OutInit == Init => OutInv
<1> SUFFICES ASSUME Init PROVE OutInv OBVIOUS
<1>1. /\ \A j \in Calls : jobs[j] = None
      /\ \A j \in Calls : \A k \in 1..Chunks : effects[j][k] = 0
      /\ deadLetters = {} /\ \A w \in Workers : worker[w].job = None
  BY DEF Init, Idle
<1>2. \A w \in Workers : worker[w].job \notin Calls BY <1>1, CallsAssumption
<1>3. \A j \in Calls : Attempting(j) = {} BY <1>2 DEF Attempting
<1> QED BY <1>1, <1>2, <1>3 DEF OutInv

\* A worker goes on with its job, of which it may write the row and do some work.
LEMMA GoOn ==
    ASSUME Inv, OutInv, NEW w \in Workers, worker[w].pc # "idle",
           NEW y \in Worker, Go(w, y), y.job = worker[w].job,
           NEW r \in Row, jobs' = [jobs EXCEPT ![worker[w].job] = r],
           NEW e \in [1..Chunks -> Nat], effects' = [effects EXCEPT ![worker[w].job] = e],
           \A j \in Calls \ {worker[w].job} : j \in deadLetters' <=> j \in deadLetters,
           spent' = spent,
           jobs[worker[w].job].result => r.result,
           jobs[worker[w].job].error => r.error,
           \A k \in 1..Chunks : e[k] >= effects[worker[w].job][k],
           RowTold(r, e), Knows(y, r, e),
           worker[w].job \notin spent.overlapped =>
             /\ Settled(r, e, worker[w].job \in deadLetters')
             /\ Alone(y, r, e)
             /\ jobs[worker[w].job].status \in Terminal => r.status \in Terminal
             /\ \/ w \in Attempting(worker[w].job)
                \/ y.pc \in {"dead_letter", "ack"} /\ r = jobs[worker[w].job]
                   /\ e = effects[worker[w].job]
    PROVE  OutInv'
<1> DEFINE i == worker[w].job
<1>1. /\ i \in Calls /\ jobs[i] \in Row /\ r # None
      /\ jobs \in [Calls -> Row \cup {None}] /\ effects \in [Calls -> [1..Chunks -> Nat]]
  BY Busy, Types, NoneAssumption DEF Inv
<1>2. /\ worker'[w] = y /\ \A v \in Workers \ {w} : worker'[v] = worker[v]
  BY GoType DEF Inv
<1>3. /\ jobs'[i] = r /\ effects'[i] = e
      /\ \A j \in Calls \ {i} : jobs'[j] = jobs[j] /\ effects'[j] = effects[j]
  BY <1>1
<1> HIDE DEF i
<1>j. i = worker[w].job BY DEF i
<1>4. \A j \in Calls : jobs'[j] # None => RowTold(jobs'[j], effects'[j])
  BY <1>3 DEF OutInv
<1>5. \A j \in Calls : jobs'[j] = None =>
        j \notin deadLetters' /\ \A k \in 1..Chunks : effects'[j][k] = 0
  BY <1>1, <1>3, <1>j DEF OutInv
<1>6. ASSUME NEW v \in Workers, worker'[v].job \in Calls
      PROVE  Knows(worker'[v], jobs'[worker'[v].job], effects'[worker'[v].job])
  <2>1. CASE v = w BY <1>2, <1>3, <1>j, <2>1
  <2>2. CASE v # w /\ worker[v].job # i
    BY <1>2, <1>3, <1>6, <2>2 DEF OutInv
  <2>3. CASE v # w /\ worker[v].job = i
    <3>1. Knows(worker[v], jobs[i], effects[i]) /\ worker'[v] = worker[v]
      BY <1>1, <1>2, <2>3 DEF OutInv
    <3>2. \A k \in 1..Chunks : effects[i][k] >= 1 => e[k] >= 1
      <4>1. effects[i] \in [1..Chunks -> Nat] BY <1>1
      <4>2. \A k \in 1..Chunks : e[k] \in Nat /\ effects[i][k] \in Nat BY <4>1
      <4>3. \A k \in 1..Chunks : e[k] >= effects[i][k] BY <1>j
      <4> QED BY <4>2, <4>3
    <3>3. worker[v] \in Worker BY Busy
    <3>4. worker[v].done \in 0..Chunks BY Busy
    <3>5. \A k \in 1..worker[v].done : k \in 1..Chunks BY <3>4, NumbersAssumption
    <3>6. Knows(worker[v], r, e) BY <3>1, <3>2, <3>5, <1>j DEF Knows
    <3> QED BY <1>3, <2>3, <3>1, <3>6
  <2> QED BY <2>1, <2>2, <2>3
<1>7. ASSUME NEW j \in Calls \ spent.overlapped
      PROVE  /\ \A u, v \in Attempting(j)' : u = v
             /\ jobs'[j] # None => Settled(jobs'[j], effects'[j], j \in deadLetters')
             /\ \A v \in Workers : worker'[v].job = j => Alone(worker'[v], jobs'[j], effects'[j])
  <2>1. CASE j # i
    <3>1. Attempting(j)' \subseteq Attempting(j) BY <1>2, <1>j, <2>1 DEF Attempting
    <3>2. \A v \in Workers : worker'[v].job = j => Alone(worker'[v], jobs'[j], effects'[j])
      BY <1>2, <1>3, <1>j, <2>1 DEF OutInv
    <3>3. jobs'[j] # None => Settled(jobs'[j], effects'[j], j \in deadLetters')
      <4>1. (j \in deadLetters') <=> (j \in deadLetters) BY <1>j, <2>1
      <4>2. jobs'[j] = jobs[j] /\ effects'[j] = effects[j] BY <1>3, <2>1
      <4>3. jobs[j] # None => Settled(jobs[j], effects[j], j \in deadLetters) BY DEF OutInv
      <4> QED BY <4>1, <4>2, <4>3 DEF Settled
    <3> QED BY <3>1, <3>2, <3>3 DEF OutInv
  <2>2. CASE j = i
    <3>1. i \notin spent.overlapped BY <2>2
    <3>2. Settled(r, e, i \in deadLetters') /\ Alone(y, r, e) BY <3>1, <1>j
    <3>3. Attempting(j)' \subseteq Attempting(j)
      <4>1. ASSUME NEW v \in Workers, v \in Attempting(j)', v # w PROVE v \in Attempting(j)
        BY <1>2, <4>1 DEF Attempting
      <4>2. ASSUME w \in Attempting(j)' PROVE w \in Attempting(j)
        <5>1. y.pc \notin {"dead_letter", "ack"} BY <1>2, <4>2 DEF Attempting
        <5> QED BY <1>j, <2>2, <3>1, <5>1
      <4>3. Attempting(j)' \subseteq Workers BY DEF Attempting
      <4> QED BY <4>1, <4>2, <4>3
    <3>4. ASSUME NEW v \in Workers \ {w}, worker[v].job = i
          PROVE  Alone(worker[v], r, e)
      <4>1. Alone(worker[v], jobs[i], effects[i]) BY <3>1, <3>4, <1>1 DEF OutInv
      <4>2. CASE w \in Attempting(i)
        <5>1. v \notin Attempting(i) BY <3>1, <4>2, <1>1 DEF OutInv
        <5>2. worker[v].pc \in {"dead_letter", "ack"} BY <3>4, <5>1 DEF Attempting
        <5> QED BY <4>1, <5>2, <3>1, <1>j DEF Alone
      <4>3. CASE w \notin Attempting(i) BY <4>1, <4>3, <3>1, <1>j
      <4> QED BY <4>2, <4>3
    <3>5. \A v \in Workers : worker'[v].job = i => Alone(worker'[v], r, e)
      BY <1>2, <3>2, <3>4
    <3>6. \A u, v \in Attempting(j)' : u = v BY <3>3 DEF OutInv
    <3>7. Settled(jobs'[i], effects'[i], i \in deadLetters') BY <1>3, <3>2
    <3>8. \A v \in Workers : worker'[v].job = i => Alone(worker'[v], jobs'[i], effects'[i])
      BY SMTT(60), <1>3, <3>5
    <3> QED BY <2>2, <3>6, <3>7, <3>8
  <2> QED BY <2>1, <2>2
<1> QED BY <1>4, <1>5, <1>6, <1>7 DEF OutInv

\* A step that only moves a worker on, or notes its job on the dead-letter queue.
LEMMA MoveOn ==
    ASSUME Inv, OutInv, NEW w \in Workers, worker[w].pc # "idle",
           NEW y \in Worker, Go(w, y), y.job = worker[w].job,
           UNCHANGED <<jobs, effects, spent>>,
           \A j \in Calls \ {worker[w].job} : j \in deadLetters' <=> j \in deadLetters,
           Knows(y, jobs[worker[w].job], effects[worker[w].job]),
           worker[w].job \notin spent.overlapped =>
             /\ Settled(jobs[worker[w].job], effects[worker[w].job],
                        worker[w].job \in deadLetters')
             /\ Alone(y, jobs[worker[w].job], effects[worker[w].job])
             /\ w \in Attempting(worker[w].job) \/ y.pc \in {"dead_letter", "ack"}
    PROVE  OutInv'
<1> DEFINE i == worker[w].job
           r == jobs[i]
           e == effects[i]
<1>1. /\ i \in Calls /\ r \in Row /\ r # None /\ e \in [1..Chunks -> Nat]
      /\ jobs \in [Calls -> Row \cup {None}] /\ effects \in [Calls -> [1..Chunks -> Nat]]
  BY Busy, Types DEF Inv
<1>2. jobs' = [jobs EXCEPT ![i] = r] /\ effects' = [effects EXCEPT ![i] = e]
  BY <1>1
<1>3. RowTold(r, e) BY <1>1 DEF OutInv
<1>4. \A k \in 1..Chunks : e[k] >= effects[i][k]
  <2>1. \A k \in 1..Chunks : e[k] \in Nat BY <1>1
  <2> QED BY <2>1
<1>5. r.result => r.result OBVIOUS
<1>6. /\ jobs[worker[w].job].result => r.result
      /\ jobs[worker[w].job].error => r.error
      /\ worker[w].job \notin spent.overlapped =>
           /\ jobs[worker[w].job].status \in Terminal => r.status \in Terminal
           /\ \/ w \in Attempting(worker[w].job)
              \/ y.pc \in {"dead_letter", "ack"} /\ r = jobs[worker[w].job]
                 /\ e = effects[worker[w].job]
  OBVIOUS
<1> QED BY <1>1, <1>2, <1>3, <1>4, <1>6, GoOn

\* A worker that leaves its job, while nothing else that is told changes.
LEMMA Leave ==
    ASSUME Inv, OutInv, NEW w \in Workers, Go(w, Idle),
           UNCHANGED <<jobs, effects, deadLetters>>, spent'.overlapped = spent.overlapped
    PROVE  OutInv'
<1>1. worker'[w] = Idle /\ \A v \in Workers \ {w} : worker'[v] = worker[v]
  BY GoType, IdleType DEF Inv
<1>2. Idle.job \notin Calls BY CallsAssumption DEF Idle
<1>3. \A v \in Workers : worker'[v].job \in Calls => worker'[v] = worker[v]
  BY <1>1, <1>2
<1>4. \A j \in Calls : Attempting(j)' \subseteq Attempting(j)
  BY <1>3 DEF Attempting
<1>5. \A v \in Workers : worker'[v].job \in Calls =>
        Knows(worker'[v], jobs'[worker'[v].job], effects'[worker'[v].job])
  BY <1>3 DEF OutInv
<1>6. ASSUME NEW j \in Calls \ spent'.overlapped
      PROVE  /\ \A u, v \in Attempting(j)' : u = v
             /\ jobs'[j] # None => Settled(jobs'[j], effects'[j], j \in deadLetters')
             /\ \A v \in Workers : worker'[v].job = j => Alone(worker'[v], jobs'[j], effects'[j])
  <2>1. j \in Calls \ spent.overlapped BY <1>6
  <2>2. \A u, v \in Attempting(j)' : u = v BY <1>4, <2>1 DEF OutInv
  <2>3. \A v \in Workers : worker'[v].job = j => Alone(worker'[v], jobs'[j], effects'[j])
    BY <1>3, <2>1 DEF OutInv
  <2>4. jobs'[j] # None => Settled(jobs'[j], effects'[j], j \in deadLetters')
    BY <2>1 DEF OutInv
  <2> QED BY <2>2, <2>3, <2>4
<1> QED BY <1>5, <1>6 DEF OutInv

\* What an UPDATE leaves in each column.
Merge(r, row, read, to) ==
    /\ r.status = IF to.status = read.status THEN row.status ELSE to.status
    /\ r.attempts = IF to.attempts = read.attempts THEN row.attempts ELSE to.attempts
    /\ r.progress = IF to.progress = read.progress THEN row.progress ELSE to.progress
    /\ r.result = IF to.result = read.result THEN row.result ELSE to.result
    /\ r.error = IF to.error = read.error THEN row.error ELSE to.error

LEMMA Merged ==
    ASSUME NEW j \in Calls, NEW read \in Row, NEW to \in Row, jobs[j] \in Row,
           jobs \in [Calls -> Row \cup {None}], Write(j, read, to)
    PROVE  \E r \in Row :
             jobs' = [jobs EXCEPT ![j] = r] /\ Merge(r, jobs[j], read, to)
<1> DEFINE r == [col \in DOMAIN jobs[j] |-> IF to[col] = read[col] THEN jobs[j][col] ELSE to[col]]
<1>1. r \in Row BY MergeType
<1>2. jobs' = [jobs EXCEPT ![j] = r] BY DEF Write
<1>3. DOMAIN jobs[j] = {"status", "attempts", "started", "progress", "result", "error"}
  BY DEF Row
<1>4. \A col \in DOMAIN jobs[j] : r[col] = IF to[col] = read[col] THEN jobs[j][col] ELSE to[col]
  OBVIOUS
<1> HIDE DEF r
<1>5. Merge(r, jobs[j], read, to) BY <1>3, <1>4 DEF Merge
<1> QED BY <1>1, <1>2, <1>5

\* The columns of the rows a job goes through.
LEMMA Columns ==
    ASSUME NEW r \in Row
    PROVE  /\ Started(r).status = "running" /\ Started(r).attempts = r.attempts + 1
           /\ Started(r).progress = r.progress
           /\ Started(r).result = r.result /\ Started(r).error = r.error
           /\ Succeeded(r).status = "succeeded" /\ Succeeded(r).attempts = r.attempts
           /\ Succeeded(r).progress = r.progress
           /\ Succeeded(r).result = TRUE /\ Succeeded(r).error = r.error
           /\ Failed(r).status = "failed" /\ Failed(r).attempts = r.attempts
           /\ Failed(r).progress = r.progress
           /\ Failed(r).result = r.result /\ Failed(r).error = TRUE
BY DEF Row, Started, Succeeded, Failed

\* One more piece of work.
LEMMA Bump ==
    ASSUME NEW f \in [1..Chunks -> Nat], NEW n \in 1..Chunks
    PROVE  /\ [f EXCEPT ![n] = @ + 1] \in [1..Chunks -> Nat]
           /\ [f EXCEPT ![n] = @ + 1][n] = f[n] + 1
           /\ \A k \in 1..Chunks \ {n} : [f EXCEPT ![n] = @ + 1][k] = f[k]
OBVIOUS

\* A worker's step preserves it.
LEMMA WorkTold ==
    ASSUME Inv, OutInv, NEW w \in Workers, Work(w) \/ Crash(w) \/ Redeliver(w) \/ Abandon(w)
    PROVE  OutInv'
<1> DEFINE x == worker[w]
           i == worker[w].job
<1>0. /\ x \in Worker /\ x.row \in Row /\ x.done \in 0..Chunks /\ Chunks \in Nat /\ Chunks > 0
      /\ jobs \in [Calls -> Row \cup {None}] /\ effects \in [Calls -> [1..Chunks -> Nat]]
      /\ spent \in [crashes : Nat, redeliveries : Nat, abandons : Nat, overlapped : SUBSET Calls]
      /\ worker \in [Workers -> Worker]
  BY Busy, Types, NumbersAssumption DEF Inv
<1>i. ASSUME x.pc # "idle"
      PROVE  /\ i \in Calls /\ jobs[i] \in Row /\ jobs[i] # None
             /\ effects[i] \in [1..Chunks -> Nat]
             /\ RowTold(jobs[i], effects[i]) /\ Knows(x, jobs[i], effects[i])
             /\ jobs[i].attempts \in Nat /\ \A k \in 1..Chunks : effects[i][k] \in Nat
             /\ i \notin spent.overlapped =>
                  /\ Settled(jobs[i], effects[i], i \in deadLetters)
                  /\ Alone(x, jobs[i], effects[i])
             /\ x.pc \notin {"dead_letter", "ack"} => w \in Attempting(i)
  <2>1. i \in Calls /\ jobs[i] \in Row /\ jobs[i] # None BY <1>i, Busy
  <2>2. jobs[i].attempts \in Nat BY <2>1 DEF Row
  <2>3. effects[i] \in [1..Chunks -> Nat] BY <2>1, <1>0
  <2>4. \A k \in 1..Chunks : effects[i][k] \in Nat BY <2>3
  <2>5. RowTold(jobs[i], effects[i]) /\ Knows(x, jobs[i], effects[i]) BY <2>1 DEF OutInv
  <2>6. i \notin spent.overlapped =>
          /\ Settled(jobs[i], effects[i], i \in deadLetters)
          /\ Alone(x, jobs[i], effects[i])
    BY <2>1 DEF OutInv
  <2>7. x.pc \notin {"dead_letter", "ack"} => w \in Attempting(i) BY DEF Attempting
  <2> QED BY <2>1, <2>2, <2>3, <2>4, <2>5, <2>6, <2>7
<1>1. ASSUME Receive(w) PROVE OutInv'
  <2>1. PICK m \in Message :
          /\ ready[m] > 0
          /\ Go(w, [Idle EXCEPT !.pc = "received", !.job = m[1], !.retries = m[2]])
          /\ spent' = [spent EXCEPT !.overlapped =
                         IF Attempting(m[1]) = {} THEN @ ELSE @ \cup {m[1]}]
    BY <1>1 DEF Receive
  <2> DEFINE y == [Idle EXCEPT !.pc = "received", !.job = m[1], !.retries = m[2]]
  <2>2. m[1] \in Calls /\ m[2] \in 0..MaxRetries /\ jobs[m[1]] # None
    BY <2>1 DEF Message, JobsInv, Inv
  <2>3. y \in Worker /\ y.job = m[1] /\ y.pc = "received"
    BY <2>2, IdleType DEF Worker, WorkerSteps, Idle
  <2>4. Go(w, y) BY <2>1
  <2> HIDE DEF y
  <2>5. worker'[w] = y /\ \A v \in Workers \ {w} : worker'[v] = worker[v]
    BY <2>3, <2>4, GoType DEF Inv
  <2>6. UNCHANGED <<jobs, effects, deadLetters>> BY <1>1 DEF Receive
  <2>7. /\ spent.overlapped \subseteq spent'.overlapped
        /\ m[1] \notin spent'.overlapped => Attempting(m[1]) = {}
    BY <1>0, <2>1
  <2>8. \A r, e : Knows(y, r, e) /\ Alone(y, r, e) BY <2>3 DEF Knows, Alone
  <2>9. \A v \in Workers : worker'[v].job \in Calls =>
          Knows(worker'[v], jobs'[worker'[v].job], effects'[worker'[v].job])
    BY <2>5, <2>6, <2>8 DEF OutInv
  <2>10. ASSUME NEW j \in Calls \ spent'.overlapped
         PROVE  /\ \A u, v \in Attempting(j)' : u = v
                /\ jobs'[j] # None => Settled(jobs'[j], effects'[j], j \in deadLetters')
                /\ \A v \in Workers : worker'[v].job = j =>
                     Alone(worker'[v], jobs'[j], effects'[j])
    <3>1. j \in Calls \ spent.overlapped BY <2>7, <2>10
    <3>2. \A v \in Workers : worker'[v].job = j => Alone(worker'[v], jobs'[j], effects'[j])
      BY <2>5, <2>6, <2>8, <3>1 DEF OutInv
    <3>3. jobs'[j] # None => Settled(jobs'[j], effects'[j], j \in deadLetters')
      BY <2>6, <3>1 DEF OutInv
    <3>4. \A u, v \in Attempting(j)' : u = v
      <4>1. CASE j = m[1]
        <5>1. Attempting(j) = {} BY <2>7, <2>10, <4>1
        <5>2. Attempting(j)' \subseteq {w} BY <2>5, <5>1 DEF Attempting
        <5> QED BY <5>2
      <4>2. CASE j # m[1]
        <5>1. Attempting(j)' \subseteq Attempting(j) BY <2>3, <2>5, <4>2 DEF Attempting
        <5> QED BY <3>1, <5>1 DEF OutInv
      <4> QED BY <4>1, <4>2
    <3> QED BY <3>2, <3>3, <3>4
  <2> QED BY <2>6, <2>9, <2>10 DEF OutInv
<1>2. ASSUME LoadJob(w) PROVE OutInv'
  <2> DEFINE pc == IF jobs[i].status \in Terminal THEN "ack" ELSE "starting"
             y == [x EXCEPT !.row = jobs[i], !.pc = pc]
  <2>1. x.pc = "received" /\ UNCHANGED <<jobs, effects, deadLetters, spent>> /\ Go(w, y)
    BY <1>2 DEF LoadJob, brokerVars
  <2>2. y \in Worker /\ y.job = i /\ y.row = jobs[i] /\ y.pc = pc
    BY <1>0, <1>i, <2>1 DEF Worker, WorkerSteps
  <2>3. y.pc = "starting" => jobs[i].status \notin Terminal BY <2>2
  <2>4. y.pc \in {"ack", "starting"} BY <2>2
  <2> HIDE DEF y
  <2>5. Knows(y, jobs[i], effects[i]) BY <2>2, <2>3, <2>4 DEF Knows
  <2>6. Alone(y, jobs[i], effects[i]) BY SMTT(60), <2>2, <2>3, <2>4 DEF Alone
  <2> QED BY <1>i, <2>1, <2>2, <2>5, <2>6, MoveOn
<1>3. ASSUME WriteStart(w) PROVE OutInv'
  <2> DEFINE y == [x EXCEPT !.pc = "executing", !.done = 0, !.row = QueuedRow]
             e == effects[i]
  <2>1. x.pc = "starting" /\ UNCHANGED <<effects, deadLetters, spent>>
        /\ Go(w, y) /\ Write(i, x.row, Started(x.row))
    BY <1>3 DEF WriteStart, brokerVars
  <2>2. y \in Worker /\ y.job = i /\ y.pc = "executing" /\ y.done = 0
    <3>1. 0 \in 0..Chunks BY <1>0
    <3> QED BY <1>0, <3>1, QueuedType DEF Worker, WorkerSteps
  <2> HIDE DEF y
  <2>3. /\ i \in Calls /\ jobs[i] \in Row /\ e \in [1..Chunks -> Nat]
        /\ RowTold(jobs[i], e) /\ Knows(x, jobs[i], e) /\ w \in Attempting(i)
        /\ jobs[i].attempts \in Nat /\ \A k \in 1..Chunks : e[k] \in Nat
    BY <1>i, <2>1
  <2>4. PICK r \in Row :
          /\ jobs' = [jobs EXCEPT ![i] = r]
          /\ r.status = IF "running" = x.row.status THEN jobs[i].status ELSE "running"
          /\ r.attempts = IF x.row.attempts + 1 = x.row.attempts THEN jobs[i].attempts
                                                                 ELSE x.row.attempts + 1
          /\ r.progress = jobs[i].progress
          /\ r.result = jobs[i].result /\ r.error = jobs[i].error
    <3> DEFINE to == Started(x.row)
    <3>1. to \in Row BY <1>0, RowType
    <3>2. /\ to.status = "running" /\ to.attempts = x.row.attempts + 1
          /\ to.progress = x.row.progress
          /\ to.result = x.row.result /\ to.error = x.row.error
      BY <1>0, Columns DEF Row
    <3>3. Write(i, x.row, to) BY <2>1
    <3> HIDE DEF to
    <3>4. PICK r \in Row :
            jobs' = [jobs EXCEPT ![i] = r] /\ Merge(r, jobs[i], x.row, to)
      BY <1>0, <2>3, <3>1, <3>3, Merged
    <3> QED BY <1>0, <3>2, <3>4 DEF Merge, Row
  <2>5. effects' = [effects EXCEPT ![i] = e] BY <1>0, <2>1, <2>3
  <2>6. x.row.status \notin Terminal BY <2>1, <2>3 DEF Knows
  <2>7. RowTold(r, e) BY <2>3, <2>4 DEF RowTold
  <2>8. Knows(y, r, e)
    <3>1. 1..0 = {} OBVIOUS
    <3> QED BY <2>2, <3>1 DEF Knows
  <2>9. ASSUME i \notin spent.overlapped
        PROVE  /\ Settled(r, e, i \in deadLetters') /\ Alone(y, r, e)
               /\ jobs[i].status \notin Terminal
    <3>1. Settled(jobs[i], e, i \in deadLetters) /\ Alone(x, jobs[i], e)
      BY <1>i, <2>1, <2>9
    <3>2. x.row = jobs[i] /\ jobs[i].status \notin Terminal BY <2>1, <3>1 DEF Alone
    <3>3. r.status = "running" /\ r.attempts = jobs[i].attempts + 1 BY <2>3, <2>4, <3>2
    <3>4. ~jobs[i].result /\ ~jobs[i].error /\ i \notin deadLetters
      <4>1. ~jobs[i].result BY <3>1, <3>2 DEF Settled, Terminal
      <4>2. ~jobs[i].error BY <3>1, <3>2 DEF Settled, Terminal
      <4>3. (i \in deadLetters) => jobs[i].status \in Terminal BY <3>1 DEF Settled
      <4> QED BY <4>1, <4>2, <4>3, <3>2
    <3>5. ~r.result /\ ~r.error /\ i \notin deadLetters' BY <2>1, <2>4, <3>4
    <3>6. \A k \in 1..Chunks : e[k] <= jobs[i].attempts BY <3>1 DEF Settled
    <3>7. \A k \in 1..Chunks : e[k] < r.attempts /\ e[k] <= r.attempts BY <2>3, <3>3, <3>6
    <3>8. Settled(r, e, i \in deadLetters') BY <3>3, <3>5, <3>7 DEF Settled
    <3>9. Alone(y, r, e) BY <2>2, <3>3, <3>7 DEF Alone
    <3> QED BY <3>2, <3>8, <3>9
  <2>10. \A k \in 1..Chunks : e[k] >= effects[i][k] BY <2>3
  <2>11. /\ jobs[i].result => r.result
         /\ jobs[i].error => r.error BY <2>4
  <2> QED BY <2>1, <2>2, <2>3, <2>4, <2>5, <2>7, <2>8, <2>9, <2>10, <2>11, GoOn
<1>4. ASSUME RunChunk(w) PROVE OutInv'
  <2> DEFINE y == [x EXCEPT !.pc = "progress", !.done = x.done + 1]
             n == x.done + 1
             e == [effects[i] EXCEPT ![n] = @ + 1]
             r == jobs[i]
  <2>1. /\ x.pc = "executing" /\ n \in 1..Chunks /\ n \in 0..Chunks
        /\ UNCHANGED <<jobs, deadLetters, spent>>
        /\ effects' = [effects EXCEPT ![i] = e]
    BY <1>0, <1>4, NumbersAssumption DEF RunChunk, brokerVars
  <2>2. y \in Worker /\ y.job = i /\ y.pc = "progress" /\ y.done = n
    BY <1>0, <2>1 DEF Worker, WorkerSteps
  <2>3. Go(w, y) BY <1>0, <1>4 DEF RunChunk, Worker
  <2>4. /\ i \in Calls /\ r \in Row /\ effects[i] \in [1..Chunks -> Nat]
        /\ RowTold(r, effects[i]) /\ Knows(x, r, effects[i]) /\ w \in Attempting(i)
        /\ r.attempts \in Nat /\ \A k \in 1..Chunks : effects[i][k] \in Nat
    BY <1>i, <2>1
  <2>5. /\ e \in [1..Chunks -> Nat] /\ e[n] = effects[i][n] + 1
        /\ \A k \in 1..Chunks \ {n} : e[k] = effects[i][k]
    BY <2>1, <2>4, Bump
  <2> HIDE DEF y, e
  <2>6. \A k \in 1..Chunks : e[k] >= effects[i][k] BY <2>4, <2>5
  <2>7. jobs' = [jobs EXCEPT ![i] = r] BY <1>0, <2>1, <2>4
  <2>8. RowTold(r, e)
    <3>1. \A k \in 1..Chunks : effects[i][k] >= 1 => e[k] >= 1 BY <2>4, <2>5
    <3> QED BY <2>4, <3>1 DEF RowTold
  <2>9. Knows(y, r, e)
    <3>1. \A k \in 1..x.done : effects[i][k] >= 1 BY <2>1, <2>4 DEF Knows
    <3>2. ASSUME NEW k \in 1..n PROVE e[k] >= 1
      <4>1. k \in 1..Chunks BY <1>0, <2>1
      <4>2. CASE k = n BY <2>1, <2>4, <2>5, <4>2
      <4>3. CASE k # n
        <5>1. k \in 1..x.done BY <1>0, <4>3
        <5> QED BY <2>5, <3>1, <4>1, <4>3, <5>1
      <4> QED BY <4>2, <4>3
    <3> QED BY <2>2, <3>2 DEF Knows
  <2>10. ASSUME i \notin spent.overlapped
         PROVE  Settled(r, e, i \in deadLetters') /\ Alone(y, r, e)
    <3>1. Settled(r, effects[i], i \in deadLetters) /\ Alone(x, r, effects[i])
      BY <1>i, <2>1, <2>10
    <3>2. r.status = "running" /\ \A k \in 1..Chunks : k > x.done => effects[i][k] < r.attempts
      BY <2>1, <3>1 DEF Alone
    <3>3. n > x.done BY <1>0
    <3>4. effects[i][n] < r.attempts BY <2>1, <3>2, <3>3
    <3>5. \A k \in 1..Chunks : effects[i][k] <= r.attempts BY <3>1 DEF Settled
    <3>6. \A k \in 1..Chunks : e[k] <= r.attempts
      <4>1. e[n] <= r.attempts BY SMTT(60), <2>1, <2>4, <2>5, <3>4
      <4> QED BY <2>5, <3>5, <4>1
    <3>7. \A k \in 1..Chunks : k > n => e[k] < r.attempts
      <4>1. \A k \in 1..Chunks : k > n => k # n /\ k > x.done BY <1>0
      <4> QED BY <2>5, <3>2, <4>1
    <3>8. Settled(r, e, i \in deadLetters) BY <3>1, <3>6 DEF Settled
    <3>9. Alone(y, r, e) BY <2>2, <3>2, <3>7 DEF Alone
    <3> QED BY <2>1, <3>8, <3>9
  <2>11. /\ jobs[i].result => r.result
         /\ jobs[i].error => r.error
         /\ jobs[i].status \in Terminal => r.status \in Terminal OBVIOUS
  <2> HIDE DEF r
  <2> QED BY <2>1, <2>2, <2>3, <2>4, <2>5, <2>6, <2>7, <2>8, <2>9, <2>10, <2>11, GoOn
<1>5. ASSUME ReportProgress(w) PROVE OutInv'
  <2> DEFINE y == [x EXCEPT !.pc = "executing"]
             r == [jobs[i] EXCEPT !.progress = x.done]
             e == effects[i]
  <2>1. x.pc = "progress" /\ UNCHANGED <<effects, deadLetters, spent>>
        /\ jobs' = [jobs EXCEPT ![i].progress = x.done] /\ Go(w, y)
    BY <1>5 DEF ReportProgress, brokerVars
  <2>2. y \in Worker /\ y.job = i /\ y.pc = "executing" /\ y.done = x.done
    BY <1>0 DEF Worker, WorkerSteps
  <2>3. /\ i \in Calls /\ jobs[i] \in Row /\ e \in [1..Chunks -> Nat]
        /\ RowTold(jobs[i], e) /\ Knows(x, jobs[i], e) /\ w \in Attempting(i)
        /\ jobs[i].attempts \in Nat /\ \A k \in 1..Chunks : e[k] \in Nat
    BY <1>i, <2>1
  <2>4. /\ r \in Row /\ r.progress = x.done /\ r.status = jobs[i].status
        /\ r.attempts = jobs[i].attempts /\ r.result = jobs[i].result /\ r.error = jobs[i].error
    BY <1>0, <2>3 DEF Row
  <2>5. jobs' = [jobs EXCEPT ![i] = r] BY <2>1
  <2> HIDE DEF y, r
  <2>6. effects' = [effects EXCEPT ![i] = e] BY <1>0, <2>1, <2>3
  <2>7. RowTold(r, e) BY <2>3, <2>4 DEF RowTold
  <2>8. Knows(y, r, e) BY <2>1, <2>2, <2>3 DEF Knows
  <2>9. ASSUME i \notin spent.overlapped
        PROVE  Settled(r, e, i \in deadLetters') /\ Alone(y, r, e)
    <3>1. Settled(jobs[i], e, i \in deadLetters) /\ Alone(x, jobs[i], e)
      BY <1>i, <2>1, <2>9
    <3>2. r.status = "running" /\ \A k \in 1..Chunks : k > y.done => e[k] < r.attempts
      BY <2>1, <2>2, <2>4, <3>1 DEF Alone
    <3>3. Settled(r, e, i \in deadLetters) BY <2>4, <3>1, <3>2 DEF Settled
    <3>4. Alone(y, r, e) BY <2>2, <2>4, <3>2 DEF Alone
    <3> QED BY <2>1, <3>3, <3>4
  <2>10. \A k \in 1..Chunks : e[k] >= effects[i][k] BY <2>3
  <2>11. /\ jobs[i].result => r.result
         /\ jobs[i].error => r.error
         /\ jobs[i].status \in Terminal => r.status \in Terminal BY <2>4
  <2>12. \A j \in Calls \ {i} : j \in deadLetters' <=> j \in deadLetters BY <2>1
  <2>13. x.pc # "idle" /\ spent' = spent BY <2>1
  <2> HIDE DEF e
  <2> QED BY <2>1, <2>2, <2>3, <2>4, <2>5, <2>6, <2>7, <2>8, <2>9, <2>10, <2>11, <2>12, <2>13, GoOn
<1>6. ASSUME LoadResult(w) PROVE OutInv'
  <2> DEFINE pc == IF CanTransition(jobs[i], "succeeded") THEN "finishing" ELSE "raised"
             y == [x EXCEPT !.row = jobs[i], !.pc = pc]
  <2>1. x.pc = "executing" /\ x.done = Chunks /\ UNCHANGED <<jobs, effects, deadLetters, spent>>
        /\ Go(w, y)
    BY <1>6 DEF LoadResult, brokerVars
  <2>2. y \in Worker /\ y.job = i /\ y.row = jobs[i] /\ y.pc = pc
    BY <1>0, <1>i, <2>1 DEF Worker, WorkerSteps
  <2>3. y.pc = "finishing" => jobs[i].status \notin Terminal
    <3>1. jobs[i].status \in Status BY <1>i, <2>1 DEF Row
    <3> QED BY <2>2, <3>1 DEF CanTransition, AllowedTransitions, Terminal, Status
  <2>4. y.pc \in {"finishing", "raised"} BY <2>2
  <2> HIDE DEF y
  <2>5. Knows(y, jobs[i], effects[i])
    <3>1. \A k \in 1..Chunks : effects[i][k] >= 1 BY <1>i, <2>1 DEF Knows
    <3> QED BY <2>2, <2>3, <2>4, <3>1 DEF Knows
  <2>6. ASSUME i \notin spent.overlapped PROVE Alone(y, jobs[i], effects[i])
    <3>1. jobs[i].progress = Chunks BY SMTT(60), <1>0, <1>i, <2>1, <2>6 DEF Alone
    <3> QED BY <2>2, <2>3, <2>4, <3>1 DEF Alone
  <2> QED BY <1>i, <2>1, <2>2, <2>5, <2>6, MoveOn
<1>7. ASSUME WriteResult(w) PROVE OutInv'
  <2> DEFINE y == [x EXCEPT !.pc = "ack", !.row = QueuedRow]
             e == effects[i]
  <2>1. x.pc = "finishing" /\ UNCHANGED <<effects, deadLetters, spent>>
        /\ Go(w, y) /\ Write(i, x.row, Succeeded(x.row))
    BY <1>7 DEF WriteResult, brokerVars
  <2>2. y \in Worker /\ y.job = i /\ y.pc = "ack"
    BY <1>0, QueuedType DEF Worker, WorkerSteps
  <2> HIDE DEF y
  <2>3. /\ i \in Calls /\ jobs[i] \in Row /\ e \in [1..Chunks -> Nat]
        /\ RowTold(jobs[i], e) /\ Knows(x, jobs[i], e) /\ w \in Attempting(i)
        /\ \A k \in 1..Chunks : e[k] \in Nat
    BY <1>i, <2>1
  <2>4. PICK r \in Row :
          /\ jobs' = [jobs EXCEPT ![i] = r]
          /\ r.status = IF "succeeded" = x.row.status THEN jobs[i].status ELSE "succeeded"
          /\ r.attempts = jobs[i].attempts /\ r.progress = jobs[i].progress
          /\ r.result = IF TRUE = x.row.result THEN jobs[i].result ELSE TRUE
          /\ r.error = jobs[i].error
    <3> DEFINE to == Succeeded(x.row)
    <3>1. to \in Row BY <1>0, RowType
    <3>2. /\ to.status = "succeeded" /\ to.attempts = x.row.attempts
          /\ to.progress = x.row.progress
          /\ to.result = TRUE /\ to.error = x.row.error
      BY <1>0, Columns DEF Row
    <3>3. Write(i, x.row, to) BY <2>1
    <3> HIDE DEF to
    <3>4. PICK r \in Row :
            jobs' = [jobs EXCEPT ![i] = r] /\ Merge(r, jobs[i], x.row, to)
      BY <1>0, <2>3, <3>1, <3>3, Merged
    <3> QED BY <1>0, <3>2, <3>4 DEF Merge, Row
  <2>5. effects' = [effects EXCEPT ![i] = e] BY <1>0, <2>1, <2>3
  <2>6. /\ x.row.status \notin Terminal
        /\ x.row.result => jobs[i].result
        /\ \A k \in 1..Chunks : e[k] >= 1
    BY <2>1, <2>3 DEF Knows
  <2>7. r.status = "succeeded" /\ r.result
    <3>1. x.row.result \in BOOLEAN /\ jobs[i].result \in BOOLEAN BY <1>0, <2>3 DEF Row
    <3> QED BY <2>4, <2>6, <3>1 DEF Terminal
  <2>8. RowTold(r, e) BY <2>6, <2>7 DEF RowTold
  <2>9. Knows(y, r, e) BY <2>2 DEF Knows
  <2>10. ASSUME i \notin spent.overlapped
         PROVE  Settled(r, e, i \in deadLetters') /\ Alone(y, r, e)
    <3>1. Settled(jobs[i], e, i \in deadLetters) /\ Alone(x, jobs[i], e)
      BY <1>i, <2>1, <2>10
    <3>2. jobs[i].status \notin Terminal /\ jobs[i].progress = Chunks BY <2>1, <3>1 DEF Alone
    <3>3. ~jobs[i].error BY <3>1, <3>2 DEF Settled, Terminal
    <3>4. r.progress = Chunks /\ ~r.error BY <2>4, <3>2, <3>3
    <3>5. \A k \in 1..Chunks : e[k] <= r.attempts BY <2>4, <3>1 DEF Settled
    <3>6. Settled(r, e, i \in deadLetters') BY <2>7, <3>4, <3>5 DEF Settled, Terminal
    <3> QED BY <2>2, <3>6 DEF Alone
  <2>11. \A k \in 1..Chunks : e[k] >= effects[i][k] BY <2>3
  <2>12. /\ jobs[i].result => r.result
         /\ jobs[i].error => r.error
         /\ r.status \in Terminal BY <2>4, <2>7 DEF Terminal
  <2> QED BY <2>1, <2>2, <2>3, <2>4, <2>5, <2>8, <2>9, <2>10, <2>11, <2>12, GoOn
<1>8. ASSUME Raise(w) PROVE OutInv'
  <2> DEFINE y == [x EXCEPT !.pc = "raised", !.row = QueuedRow]
  <2>1. x.pc \in {"received", "starting", "executing", "progress", "finishing"}
        /\ UNCHANGED <<jobs, effects, deadLetters, spent>> /\ Go(w, y)
    BY <1>8 DEF Raise, brokerVars
  <2>2. y \in Worker /\ y.job = i /\ y.pc = "raised"
    BY <1>0, QueuedType DEF Worker, WorkerSteps
  <2> HIDE DEF y
  <2>3. Knows(y, jobs[i], effects[i]) /\ Alone(y, jobs[i], effects[i]) BY <2>2 DEF Knows, Alone
  <2>4. x.pc # "idle" BY <2>1
  <2> QED BY <1>i, <2>1, <2>2, <2>3, <2>4, MoveOn
<1>9. ASSUME Retry(w) PROVE OutInv'
  <2> DEFINE y == [x EXCEPT !.pc = "ack"]
  <2>1. x.pc = "raised" /\ UNCHANGED <<jobs, effects, deadLetters, spent>> /\ Go(w, y)
    BY <1>9 DEF Retry
  <2>2. y \in Worker /\ y.job = i /\ y.pc = "ack"
    BY <1>0 DEF Worker, WorkerSteps
  <2> HIDE DEF y
  <2>3. Knows(y, jobs[i], effects[i]) /\ Alone(y, jobs[i], effects[i]) BY <2>2 DEF Knows, Alone
  <2> QED BY <1>i, <2>1, <2>2, <2>3, MoveOn
<1>10. ASSUME LoadFailed(w) PROVE OutInv'
  <2> DEFINE pc == IF jobs[i].status \in Terminal THEN "dead_letter" ELSE "marking"
             y == [x EXCEPT !.row = jobs[i], !.pc = pc]
  <2>1. x.pc = "raised" /\ UNCHANGED <<jobs, effects, deadLetters, spent>> /\ Go(w, y)
    BY <1>10 DEF LoadFailed, brokerVars
  <2>2. y \in Worker /\ y.job = i /\ y.row = jobs[i] /\ y.pc = pc
    BY <1>0, <1>i, <2>1 DEF Worker, WorkerSteps
  <2>3. /\ y.pc \in {"marking", "dead_letter"}
        /\ y.pc = "marking" => jobs[i].status \notin Terminal
        /\ y.pc = "dead_letter" => jobs[i].status \in Terminal
    BY <2>2
  <2> HIDE DEF y
  <2>4. Knows(y, jobs[i], effects[i]) BY <2>2, <2>3 DEF Knows
  <2>5. Alone(y, jobs[i], effects[i]) BY <2>2, <2>3 DEF Alone
  <2> QED BY <1>i, <2>1, <2>2, <2>4, <2>5, MoveOn
<1>11. ASSUME WriteFailed(w) PROVE OutInv'
  <2> DEFINE y == [x EXCEPT !.pc = "dead_letter", !.row = QueuedRow]
             from == IF x.row.status = "queued" THEN Started(x.row) ELSE x.row
             to == Failed(from)
             e == effects[i]
  <2>1. x.pc = "marking" /\ UNCHANGED <<effects, deadLetters, spent>>
        /\ Go(w, y) /\ Write(i, x.row, to)
    BY <1>11 DEF WriteFailed, brokerVars
  <2>2. y \in Worker /\ y.job = i /\ y.pc = "dead_letter"
    BY <1>0, QueuedType DEF Worker, WorkerSteps
  <2> HIDE DEF y
  <2>3. /\ i \in Calls /\ jobs[i] \in Row /\ e \in [1..Chunks -> Nat]
        /\ RowTold(jobs[i], e) /\ Knows(x, jobs[i], e) /\ w \in Attempting(i)
        /\ jobs[i].attempts \in Nat /\ \A k \in 1..Chunks : e[k] \in Nat
    BY <1>i, <2>1
  <2>4. /\ from \in Row /\ from.attempts \in {x.row.attempts, x.row.attempts + 1}
        /\ from.progress = x.row.progress
        /\ from.result = x.row.result /\ from.error = x.row.error
    BY <1>0, RowType, Columns
  <2> HIDE DEF from
  <2>5. /\ to \in Row /\ to.status = "failed" /\ to.attempts = from.attempts
        /\ to.progress = x.row.progress /\ to.result = x.row.result /\ to.error = TRUE
    BY <2>4, RowType, Columns
  <2> HIDE DEF to
  <2>6. PICK r \in Row :
          /\ jobs' = [jobs EXCEPT ![i] = r]
          /\ r.status = IF "failed" = x.row.status THEN jobs[i].status ELSE "failed"
          /\ r.attempts = IF to.attempts = x.row.attempts THEN jobs[i].attempts ELSE to.attempts
          /\ r.progress = jobs[i].progress
          /\ r.result = jobs[i].result
          /\ r.error = IF TRUE = x.row.error THEN jobs[i].error ELSE TRUE
    <3>1. PICK r \in Row :
            jobs' = [jobs EXCEPT ![i] = r] /\ Merge(r, jobs[i], x.row, to)
      BY <1>0, <2>1, <2>3, <2>5, Merged
    <3> QED BY <2>5, <3>1 DEF Merge
  <2>7. effects' = [effects EXCEPT ![i] = e] BY <1>0, <2>1, <2>3
  <2>8. x.row.status \notin Terminal /\ (x.row.error => jobs[i].error)
    BY <2>1, <2>3 DEF Knows
  <2>9. r.status = "failed" /\ r.error
    <3>1. x.row.error \in BOOLEAN /\ jobs[i].error \in BOOLEAN BY <1>0, <2>3 DEF Row
    <3> QED BY <2>6, <2>8, <3>1 DEF Terminal
  <2>10. RowTold(r, e) BY <2>9 DEF RowTold
  <2>11. Knows(y, r, e) BY <2>2 DEF Knows
  <2>12. ASSUME i \notin spent.overlapped
         PROVE  Settled(r, e, i \in deadLetters') /\ Alone(y, r, e)
    <3>1. Settled(jobs[i], e, i \in deadLetters) /\ Alone(x, jobs[i], e)
      BY <1>i, <2>1, <2>12
    <3>2. x.row = jobs[i] /\ jobs[i].status \notin Terminal BY <2>1, <3>1 DEF Alone
    <3>3. ~jobs[i].result BY <3>1, <3>2 DEF Settled, Terminal
    <3>4. ~r.result BY <2>6, <3>3
    <3>5. r.attempts >= jobs[i].attempts BY <2>3, <2>4, <2>5, <2>6, <3>2
    <3>6. \A k \in 1..Chunks : e[k] <= jobs[i].attempts BY <3>1 DEF Settled
    <3>7. \A k \in 1..Chunks : e[k] <= r.attempts
      <4>1. r.attempts \in Nat BY DEF Row
      <4> QED BY <2>3, <3>5, <3>6, <4>1
    <3>8. Settled(r, e, i \in deadLetters') BY <2>9, <3>4, <3>7 DEF Settled, Terminal
    <3>9. Alone(y, r, e) BY <2>2, <2>9 DEF Alone, Terminal
    <3> QED BY <3>8, <3>9
  <2>13. \A k \in 1..Chunks : e[k] >= effects[i][k] BY <2>3
  <2>14. /\ jobs[i].result => r.result
         /\ jobs[i].error => r.error
         /\ r.status \in Terminal BY <2>6, <2>9 DEF Terminal
  <2> QED BY <2>1, <2>2, <2>3, <2>6, <2>7, <2>10, <2>11, <2>12, <2>13, <2>14, GoOn
<1>12. ASSUME RecordDeadLetter(w) PROVE OutInv'
  <2> DEFINE y == [x EXCEPT !.pc = "ack"]
  <2>1. x.pc = "dead_letter" /\ UNCHANGED <<jobs, effects, spent>> /\ Go(w, y)
        /\ deadLetters' = deadLetters \cup {i}
    BY <1>12 DEF RecordDeadLetter
  <2>2. y \in Worker /\ y.job = i /\ y.pc = "ack"
    BY <1>0 DEF Worker, WorkerSteps
  <2> HIDE DEF y
  <2>3. Knows(y, jobs[i], effects[i]) /\ Alone(y, jobs[i], effects[i]) BY <2>2 DEF Knows, Alone
  <2>4. ASSUME i \notin spent.overlapped PROVE Settled(jobs[i], effects[i], i \in deadLetters')
    <3>1. Settled(jobs[i], effects[i], i \in deadLetters) /\ Alone(x, jobs[i], effects[i])
      BY <1>i, <2>1, <2>4
    <3>2. jobs[i].status \in Terminal BY <2>1, <3>1 DEF Alone
    <3> QED BY <3>1, <3>2 DEF Settled
  <2>5. \A j \in Calls \ {i} : j \in deadLetters' <=> j \in deadLetters BY <2>1
  <2> QED BY <1>i, <2>1, <2>2, <2>3, <2>4, <2>5, MoveOn
<1>13. ASSUME Ack(w) PROVE OutInv'
  BY <1>13, Leave DEF Ack, brokerVars
<1>14. ASSUME Crash(w) PROVE OutInv'
  <2>1. spent'.overlapped = spent.overlapped BY <1>0, <1>14 DEF Crash
  <2> QED BY <1>14, <2>1, Leave DEF Crash
<1>15. ASSUME Redeliver(w) PROVE OutInv'
  <2>1. spent'.overlapped = spent.overlapped BY <1>0, <1>15 DEF Redeliver
  <2>2. UNCHANGED <<jobs, effects, deadLetters, worker>> BY <1>15 DEF Redeliver
  <2> QED BY <2>1, <2>2 DEF OutInv, Attempting
<1>16. ASSUME Abandon(w) PROVE OutInv'
  <2>1. spent'.overlapped = spent.overlapped BY <1>0, <1>16 DEF Abandon
  <2> QED BY <1>16, <2>1, Leave DEF Abandon, brokerVars
<1> QED BY <1>1, <1>2, <1>3, <1>4, <1>5, <1>6, <1>7, <1>8, <1>9, <1>10, <1>11, <1>12, <1>13,
           <1>14, <1>15, <1>16 DEF Work

\* A submission's step preserves it: a new row is queued, and nothing has been done for it.
LEMMA CallTold == ASSUME Inv, OutInv, NEW c \in Calls, CallStep(c) PROVE OutInv'
<1>0. jobs \in [Calls -> Row \cup {None}] /\ effects \in [Calls -> [1..Chunks -> Nat]]
  BY Types DEF Inv
<1>1. UNCHANGED <<effects, deadLetters, worker, spent>>
  BY DEF CallStep, FindKey, AddJob, Reread, Dispatch, LoseCall, brokerVars
<1>2. CASE UNCHANGED jobs BY <1>1, <1>2 DEF OutInv, Attempting
<1>3. CASE AddJob(c) /\ jobs' = [jobs EXCEPT ![c] = QueuedRow]
  <2>1. jobs[c] = None /\ jobs'[c] = QueuedRow /\ \A j \in Calls \ {c} : jobs'[j] = jobs[j]
    BY <1>0, <1>3 DEF AddJob, Inv, CallInv
  <2>2. c \notin deadLetters /\ \A k \in 1..Chunks : effects[c][k] = 0
    BY <2>1 DEF OutInv
  <2>3. \A v \in Workers : worker[v].job = c => worker[v].pc = "idle"
    BY <2>1 DEF Inv, JobsInv
  <2>4. QueuedRow # None BY QueuedType
  <2>5. RowTold(QueuedRow, effects[c]) BY DEF RowTold, QueuedRow
  <2>6. Settled(QueuedRow, effects[c], c \in deadLetters)
    BY <2>2 DEF Settled, QueuedRow, Terminal
  <2>7. \A v \in Workers : worker[v].job = c =>
          /\ Knows(worker[v], QueuedRow, effects[c])
          /\ Alone(worker[v], QueuedRow, effects[c])
    BY <2>3 DEF Knows, Alone
  <2>8. \A j \in Calls : jobs'[j] # None => RowTold(jobs'[j], effects'[j])
    BY <1>1, <2>1, <2>5 DEF OutInv
  <2>9. \A j \in Calls : jobs'[j] = None =>
          j \notin deadLetters' /\ \A k \in 1..Chunks : effects'[j][k] = 0
    BY <1>1, <2>1, <2>4 DEF OutInv
  <2>10. \A v \in Workers : worker'[v].job \in Calls =>
           Knows(worker'[v], jobs'[worker'[v].job], effects'[worker'[v].job])
    BY <1>1, <2>1, <2>7 DEF OutInv
  <2>11. ASSUME NEW j \in Calls \ spent'.overlapped
         PROVE  /\ \A u, v \in Attempting(j)' : u = v
                /\ jobs'[j] # None => Settled(jobs'[j], effects'[j], j \in deadLetters')
                /\ \A v \in Workers : worker'[v].job = j =>
                     Alone(worker'[v], jobs'[j], effects'[j])
    <3>1. j \in Calls \ spent.overlapped BY <1>1, <2>11
    <3>2. Attempting(j)' = Attempting(j) BY <1>1 DEF Attempting
    <3>3. \A u, v \in Attempting(j) : u = v BY <3>1 DEF OutInv
    <3>4. CASE j = c BY <1>1, <2>1, <2>6, <2>7, <3>2, <3>3, <3>4
    <3>5. CASE j # c
      <4>1. jobs'[j] = jobs[j] /\ effects'[j] = effects[j] BY <1>1, <2>1, <3>1, <3>5
      <4>2. jobs[j] # None => Settled(jobs[j], effects[j], j \in deadLetters)
        BY <3>1 DEF OutInv
      <4>3. \A v \in Workers : worker[v].job = j => Alone(worker[v], jobs[j], effects[j])
        BY <3>1 DEF OutInv
      <4> QED BY <1>1, <3>2, <3>3, <4>1, <4>2, <4>3
    <3> QED BY <3>4, <3>5
  <2> QED BY <2>8, <2>9, <2>10, <2>11 DEF OutInv
<1>4. UNCHANGED jobs \/ (AddJob(c) /\ jobs' = [jobs EXCEPT ![c] = QueuedRow])
  BY DEF CallStep, FindKey, AddJob, Reread, Dispatch, LoseCall
<1> QED BY <1>2, <1>3, <1>4

\* Every behaviour satisfies it.
LEMMA OutInvariant == Spec => []OutInv
<1>1. OutInv /\ UNCHANGED vars => OutInv'
  BY DEF vars, callVars, brokerVars, OutInv, Attempting
<1>2. Inv /\ OutInv /\ Next => OutInv'
  BY CallTold, WorkTold DEF Next
<1> QED BY <1>1, <1>2, OutInit, InvInvariant, PTL DEF Spec

\* A job's row never lies about its work, however deliveries overlap, for any number of jobs,
\* workers, pieces, retries, crashes and redeliveries; of a job whose attempts did not overlap
\* it tells everything.
THEOREM OutcomesHold == Spec => []OutcomeIsTrue
<1>1. OutInv => OutcomeIsTrue
  BY DEF OutInv, OutcomeIsTrue, RowTold, Settled
<1> QED BY <1>1, OutInvariant, PTL

\* A job that ended without overlapping attempts is never touched again: no attempt of it is
\* past the read that would have stopped it.
THEOREM EndsAreFinal == Spec => EndIsFinal
<1> DEFINE Kept == \A j \in Calls :
             jobs[j] # None /\ jobs[j].status \in Terminal /\ j \notin spent.overlapped
               => jobs'[j] = jobs[j] /\ effects'[j] = effects[j]
<1>1. ASSUME Inv, OutInv, NEW c \in Calls, CallStep(c) PROVE Kept
  <2>0. jobs \in [Calls -> Row \cup {None}] BY <1>1, Types DEF Inv
  <2>1. UNCHANGED effects
    BY <1>1 DEF CallStep, FindKey, AddJob, Reread, Dispatch, LoseCall
  <2>2. UNCHANGED jobs \/ (jobs[c] = None /\ jobs' = [jobs EXCEPT ![c] = QueuedRow])
    BY <1>1 DEF CallStep, FindKey, AddJob, Reread, Dispatch, LoseCall, Inv, CallInv
  <2> QED BY <2>0, <2>1, <2>2
<1>2. ASSUME Inv, OutInv, NEW w \in Workers, Work(w) \/ Crash(w) \/ Redeliver(w) \/ Abandon(w)
      PROVE  Kept
  <2> DEFINE i == worker[w].job
             writes == {"starting", "executing", "progress", "finishing", "marking"}
  <2>0. jobs \in [Calls -> Row \cup {None}] /\ effects \in [Calls -> [1..Chunks -> Nat]]
    BY <1>2, Types DEF Inv
  <2>1. \/ UNCHANGED <<jobs, effects>>
        \/ /\ worker[w].pc \in writes
           /\ \A j \in Calls \ {i} : jobs'[j] = jobs[j] /\ effects'[j] = effects[j]
    <3>1. CASE WriteStart(w) \/ WriteResult(w) \/ WriteFailed(w)
      BY <2>0, <3>1 DEF WriteStart, WriteResult, WriteFailed, Write
    <3>2. CASE RunChunk(w) \/ ReportProgress(w)
      BY <2>0, <3>2 DEF RunChunk, ReportProgress
    <3>3. CASE \/ Receive(w) \/ LoadJob(w) \/ LoadResult(w) \/ Raise(w) \/ Retry(w)
               \/ LoadFailed(w) \/ RecordDeadLetter(w) \/ Ack(w)
               \/ Crash(w) \/ Redeliver(w) \/ Abandon(w)
      BY <3>3 DEF Receive, LoadJob, LoadResult, Raise, Retry, LoadFailed, RecordDeadLetter, Ack,
                  Crash, Redeliver, Abandon
    <3> QED BY <1>2, <3>1, <3>2, <3>3 DEF Work
  <2>2. ASSUME worker[w].pc \in writes
        PROVE  i \in Calls /\ (i \notin spent.overlapped => jobs[i].status \notin Terminal)
    <3>1. worker[w].pc # "idle" BY <2>2
    <3>2. i \in Calls BY <1>2, <3>1, Busy
    <3>3. i \notin spent.overlapped => Alone(worker[w], jobs[i], effects[i])
      BY <1>2, <3>2 DEF OutInv
    <3> QED BY <2>2, <3>2, <3>3 DEF Alone, Terminal
  <2> QED BY <2>1, <2>2
<1>3. UNCHANGED vars => Kept BY DEF vars
<1>4. Inv /\ OutInv /\ [Next]_vars => [Kept]_vars
  BY <1>1, <1>2, <1>3 DEF Next
<1> QED BY <1>4, InvInvariant, OutInvariant, PTL DEF Spec, EndIsFinal

-----------------------------------------------------------------------------
(***************************************************************************)
(* Why a dispatched job ends: until it has, a message or an attempt sees to *)
(* it, attempts run out, and only so many messages are sent.                *)
(***************************************************************************)

\* A message of the job waits, or a worker that has one has something left to do about it.
InHand(j) ==
    \/ \E n \in 0..MaxRetries : ready[<<j, n>>] > 0
    \/ \E w \in Workers :
         worker[w].job = j /\ worker[w].pc \notin {"idle", "dead_letter", "ack"}

Ended(j) == jobs[j] # None /\ jobs[j].status \in Terminal

\* Somebody sees to every dispatched job that has not ended, unless an attempt was abandoned.
Carried ==
    \A j \in Calls : dispatched[j] > 0 => Ended(j) \/ InHand(j) \/ spent.abandons > 0

\* How many steps an attempt has left, at most.
Left(x) ==
    CASE x.pc = "received" -> 2 * Chunks + 8
      [] x.pc = "starting" -> 2 * Chunks + 7
      [] x.pc = "progress" -> 2 * (Chunks - x.done) + 7
      [] x.pc = "executing" -> 2 * (Chunks - x.done) + 6
      [] x.pc = "finishing" -> 5
      [] x.pc = "raised" -> 4
      [] x.pc = "marking" -> 3
      [] x.pc = "dead_letter" -> 2
      [] x.pc = "ack" -> 1
      [] OTHER -> 0

\* An attempt comes nearer to its end with every step.  A message is sent by the one dispatch
\* of its job, by a crash or a redelivery, or as the next retry of an attempt that raised and
\* now does no more.
RunsOut ==
    /\ \A w \in Workers : worker[w].pc # "idle" =>
         /\ Left(worker[w])' <= Left(worker[w])
         /\ Work(w) => Left(worker[w])' < Left(worker[w])
    /\ \A m \in Message : ready'[m] > ready[m] =>
         \/ m[2] = 0 /\ dispatched[m[1]] = 0 /\ dispatched'[m[1]] = 1
         \/ spent'.crashes > spent.crashes \/ spent'.redeliveries > spent.redeliveries
         \/ \E w \in Workers :
              /\ worker[w].pc = "raised" /\ worker'[w].pc = "ack"
              /\ worker[w].job = m[1] /\ worker[w].retries + 1 = m[2]

\* What a step of worker w leaves of the jobs it does not have.
LEMMA OthersInHand ==
    ASSUME NEW w \in Workers, NEW j \in Calls, Ended(j) \/ InHand(j), jobs'[j] = jobs[j],
           worker[w].pc \in {"idle", "dead_letter", "ack"} \/ worker[w].job # j,
           \A n \in 0..MaxRetries : ready'[<<j, n>>] = ready[<<j, n>>],
           \A v \in Workers \ {w} : worker'[v] = worker[v]
    PROVE  Ended(j)' \/ InHand(j)'
BY DEF Ended, InHand

\* A worker takes a message: now it has the job in hand.
LEMMA ReceiveCarries == ASSUME Inv, Carried, NEW w \in Workers, Receive(w) PROVE Carried'
<1>1. PICK m \in Message :
        /\ ready[m] > 0 /\ ready' = [ready EXCEPT ![m] = @ - 1]
        /\ Go(w, [Idle EXCEPT !.pc = "received", !.job = m[1], !.retries = m[2]])
        /\ spent' = [spent EXCEPT !.overlapped =
                       IF Attempting(m[1]) = {} THEN @ ELSE @ \cup {m[1]}]
  BY DEF Receive
<1>2. /\ worker'[w].job = m[1] /\ worker'[w].pc = "received"
      /\ \A v \in Workers \ {w} : worker'[v] = worker[v]
  BY <1>1, Types DEF Inv, Go, Idle
<1>3. \A j \in Calls \ {m[1]} : \A n \in 0..MaxRetries : ready'[<<j, n>>] = ready[<<j, n>>]
  BY <1>1, Types DEF Inv, Message
<1>4. spent'.abandons = spent.abandons
  BY <1>1, Types DEF Inv
<1>5. ASSUME NEW j \in Calls, dispatched'[j] > 0
      PROVE  Ended(j)' \/ InHand(j)' \/ spent'.abandons > 0
  <2>1. dispatched[j] > 0 /\ jobs' = jobs /\ worker[w].pc = "idle"
    BY <1>5 DEF Receive, callVars
  <2>2. CASE j = m[1]
    BY <1>2, <2>2 DEF InHand
  <2>3. CASE j # m[1]
    BY <1>2, <1>3, <1>4, <2>1, <2>3, OthersInHand DEF Carried
  <2> QED BY <2>2, <2>3
<1> QED BY <1>5 DEF Carried

\* A job whose end has been written by this worker has ended.
LEMMA WrittenEnd ==
    ASSUME Inv, NEW j \in Calls, jobs[j] \in Row, NEW read \in Row, NEW to \in Row,
           Write(j, read, to), to.status \in Terminal, read.status \notin Terminal
    PROVE  Ended(j)'
<1>1. PICK r \in Row : jobs' = [jobs EXCEPT ![j] = r] /\ Merge(r, jobs[j], read, to)
  BY Merged, Types DEF Inv
<1>2. r.status \in Terminal
  BY <1>1 DEF Merge
<1>3. jobs'[j] = r
  BY <1>1, Types DEF Inv
<1> QED BY <1>2, <1>3, NoneAssumption DEF Ended

\* Another step of worker w: who else has something in hand, and what becomes of its job.
LEMMA StepSpares ==
    ASSUME Inv, NEW w \in Workers, worker[w].pc # "idle",
           Work(w) \/ Crash(w) \/ Redeliver(w) \/ Abandon(w)
    PROVE  /\ dispatched' = dispatched
           /\ \A v \in Workers \ {w} : worker'[v] = worker[v]
           /\ \A j \in Calls \ {worker[w].job} : jobs'[j] = jobs[j]
           /\ \A j \in Calls \ {worker[w].job} :
                \A n \in 0..MaxRetries : ready'[<<j, n>>] = ready[<<j, n>>]
           /\ spent'.abandons >= spent.abandons
<1> DEFINE i == worker[w].job
<1>0. /\ jobs \in [Calls -> Row \cup {None}] /\ ready \in [Message -> Nat]
      /\ worker \in [Workers -> Worker] /\ i \in Calls
      /\ spent \in [crashes : Nat, redeliveries : Nat, abandons : Nat, overlapped : SUBSET Calls]
  BY Busy, Types DEF Inv
<1>1. dispatched' = dispatched /\ \A v \in Workers \ {w} : worker'[v] = worker[v]
  BY <1>0 DEF Work, Receive, LoadJob, WriteStart, RunChunk, ReportProgress, LoadResult,
     WriteResult, Raise, Retry, LoadFailed, WriteFailed, RecordDeadLetter, Ack, Crash,
     Redeliver, Abandon, Go, callVars
<1>2. \A j \in Calls \ {i} : jobs'[j] = jobs[j]
  <2>1. CASE WriteStart(w) \/ WriteResult(w) \/ WriteFailed(w) \/ ReportProgress(w)
    BY <1>0, <2>1 DEF WriteStart, WriteResult, WriteFailed, ReportProgress, Write
  <2>2. CASE ~(WriteStart(w) \/ WriteResult(w) \/ WriteFailed(w) \/ ReportProgress(w))
    BY <2>2 DEF Work, Receive, LoadJob, RunChunk, LoadResult, Raise, Retry, LoadFailed,
       RecordDeadLetter, Ack, Crash, Redeliver, Abandon
  <2> QED BY <2>1, <2>2
<1>3. ready' = ready \/ \E n \in 0..MaxRetries : Enqueue(i, n)
  <2>1. CASE Retry(w)
    <3>1. worker[w].retries + 1 \in 0..MaxRetries
      BY <2>1, Busy, NumbersAssumption DEF Retry
    <3> QED BY <2>1, <3>1 DEF Retry
  <2>2. CASE Crash(w) \/ Redeliver(w)
    BY <2>2, Busy DEF Crash, Redeliver
  <2>3. CASE ~(Retry(w) \/ Crash(w) \/ Redeliver(w))
    BY <2>3 DEF Work, Receive, LoadJob, WriteStart, RunChunk, ReportProgress, LoadResult,
       WriteResult, Raise, LoadFailed, WriteFailed, RecordDeadLetter, Ack, Abandon, brokerVars
  <2> QED BY <2>1, <2>2, <2>3
<1>4. \A j \in Calls \ {i} : \A n \in 0..MaxRetries : ready'[<<j, n>>] = ready[<<j, n>>]
  BY <1>0, <1>3 DEF Enqueue, Message
<1>5. spent'.abandons >= spent.abandons
  <2>1. CASE Abandon(w)
    BY <1>0, <2>1 DEF Abandon
  <2>2. CASE Crash(w) \/ Redeliver(w)
    BY <1>0, <2>2 DEF Crash, Redeliver
  <2>3. CASE Work(w)
    <3>1. spent' = spent
      BY <2>3 DEF Work, Receive, LoadJob, WriteStart, RunChunk, ReportProgress, LoadResult,
         WriteResult, Raise, Retry, LoadFailed, WriteFailed, RecordDeadLetter, Ack
    <3> QED BY <1>0, <3>1
  <2> QED BY <2>1, <2>2, <2>3
<1> QED BY <1>1, <1>2, <1>4, <1>5

LEMMA JobStaysInHand ==
    ASSUME Inv, OutInv, NEW w \in Workers, worker[w].pc # "idle",
           NEW i \in Calls, worker[w].job = i,
           Work(w) \/ Crash(w) \/ Redeliver(w) \/ Abandon(w)
    PROVE  \/ Ended(i)' \/ InHand(i)' \/ spent'.abandons > 0
           \/ RecordDeadLetter(w) \/ Ack(w)
<1> DEFINE x == worker[w]
<1>0. /\ jobs[i] \in Row /\ jobs[i] # None /\ i \in Calls /\ x.row \in Row /\ x \in Worker
      /\ ready \in [Message -> Nat] /\ worker \in [Workers -> Worker]
      /\ x.retries \in 0..MaxRetries /\ Knows(x, jobs[i], effects[i])
      /\ spent \in [crashes : Nat, redeliveries : Nat, abandons : Nat, overlapped : SUBSET Calls]
  BY Busy, Types DEF Inv, OutInv
<1>m. ASSUME NEW n \in 0..MaxRetries, Enqueue(i, n) PROVE InHand(i)'
  BY <1>0, <1>m DEF Enqueue, InHand, Message
<1>g. ASSUME worker'[w].job = i, worker'[w].pc \notin {"idle", "dead_letter", "ack"}
      PROVE  InHand(i)'
  BY <1>g DEF InHand
<1>1. CASE LoadJob(w)
  <2>1. jobs' = jobs /\ worker'[w].job = i
        /\ worker'[w].pc = IF jobs[i].status \in Terminal THEN "ack" ELSE "starting"
    BY <1>0, <1>1 DEF LoadJob, Go, Worker
  <2> QED BY <1>0, <1>g, <2>1 DEF Ended
<1>2. CASE WriteStart(w) \/ RunChunk(w) \/ ReportProgress(w) \/ Raise(w)
  <2>1. WriteStart(w) => worker'[w].job = i /\ worker'[w].pc = "executing"
    BY <1>0 DEF WriteStart, Go, Worker
  <2>2. RunChunk(w) => worker'[w].job = i /\ worker'[w].pc = "progress"
    BY <1>0 DEF RunChunk, Go, Worker
  <2>3. ReportProgress(w) => worker'[w].job = i /\ worker'[w].pc = "executing"
    BY <1>0 DEF ReportProgress, Go, Worker
  <2>4. Raise(w) => worker'[w].job = i /\ worker'[w].pc = "raised"
    BY <1>0 DEF Raise, Go, Worker
  <2> QED BY <1>2, <1>g, <2>1, <2>2, <2>3, <2>4
<1>3. CASE LoadResult(w)
  <2>1. worker'[w].job = i /\ worker'[w].pc \in {"finishing", "raised"}
    BY <1>0, <1>3 DEF LoadResult, Go, Worker
  <2> QED BY <1>g, <2>1
<1>4. CASE WriteResult(w)
  <2> DEFINE to == Succeeded(x.row)
  <2>1. x.pc = "finishing" /\ Write(i, x.row, to)
    BY <1>4 DEF WriteResult
  <2>2. to \in Row /\ to.status = "succeeded"
    BY <1>0, RowType, Columns
  <2> HIDE DEF to
  <2> QED BY <1>0, <2>1, <2>2, WrittenEnd DEF Knows, Terminal
<1>5. CASE Retry(w)
  <2>1. x.retries + 1 \in 0..MaxRetries /\ Enqueue(i, x.retries + 1)
    BY <1>0, <1>5, NumbersAssumption DEF Retry
  <2> QED BY <1>m, <2>1
<1>6. CASE LoadFailed(w)
  <2>1. jobs' = jobs /\ worker'[w].job = i
        /\ worker'[w].pc = IF jobs[i].status \in Terminal THEN "dead_letter" ELSE "marking"
    BY <1>0, <1>6 DEF LoadFailed, Go, Worker
  <2> QED BY <1>0, <1>g, <2>1 DEF Ended
<1>7. CASE WriteFailed(w)
  <2> DEFINE to == Failed(IF x.row.status = "queued" THEN Started(x.row) ELSE x.row)
  <2>1. x.pc = "marking" /\ Write(i, x.row, to)
    BY <1>7 DEF WriteFailed
  <2>2. to \in Row /\ to.status = "failed"
    BY <1>0, RowType, Columns
  <2> HIDE DEF to
  <2> QED BY <1>0, <2>1, <2>2, WrittenEnd DEF Knows, Terminal
<1>8. CASE Crash(w) \/ Redeliver(w)
  BY <1>0, <1>8, <1>m DEF Crash, Redeliver
<1>9. CASE Abandon(w)
  BY <1>0, <1>9 DEF Abandon
<1>10. CASE Receive(w)
  BY <1>10 DEF Receive
<1> QED BY <1>1, <1>2, <1>3, <1>4, <1>5, <1>6, <1>7, <1>8, <1>9, <1>10 DEF Work

LEMMA WorkCarries ==
    ASSUME Inv, OutInv, Carried, NEW w \in Workers,
           Work(w) \/ Crash(w) \/ Redeliver(w) \/ Abandon(w)
    PROVE  Carried'
<1>1. CASE worker[w].pc = "idle"
  <2>1. Receive(w)
    BY <1>1 DEF Work, LoadJob, WriteStart, RunChunk, ReportProgress, LoadResult, WriteResult,
       Raise, Retry, LoadFailed, WriteFailed, RecordDeadLetter, Ack, Crash, Redeliver, Abandon
  <2> QED BY <2>1, ReceiveCarries
<1>2. CASE worker[w].pc # "idle"
  <2> SUFFICES ASSUME NEW j \in Calls, dispatched'[j] > 0
               PROVE  Ended(j)' \/ InHand(j)' \/ spent'.abandons > 0
    BY DEF Carried
  <2>1. Ended(j) \/ InHand(j) \/ spent.abandons > 0
    BY <1>2, StepSpares DEF Carried
  <2>2. spent.abandons \in Nat /\ spent'.abandons \in Int
    <3>1. TypeOK'
      BY WorkKept DEF Inv
    <3> QED BY <3>1 DEF Inv, TypeOK
  <2>3. CASE spent.abandons > 0
    BY <1>2, <2>2, <2>3, StepSpares
  <2>4. CASE j # worker[w].job
    BY <1>2, <2>1, <2>3, <2>4, StepSpares, OthersInHand
  <2>5. CASE j = worker[w].job /\ (RecordDeadLetter(w) \/ Ack(w))
    <3>1. /\ jobs' = jobs /\ ready' = ready /\ worker[w].pc \in {"dead_letter", "ack"}
      BY <2>5 DEF RecordDeadLetter, Ack, brokerVars
    <3> QED BY <1>2, <2>1, <2>3, <3>1, StepSpares, OthersInHand
  <2>6. CASE j = worker[w].job /\ ~(RecordDeadLetter(w) \/ Ack(w))
    BY <1>2, <2>6, JobStaysInHand
  <2> QED BY <2>4, <2>5, <2>6
<1> QED BY <1>1, <1>2

LEMMA CallCarries ==
    ASSUME Inv, Carried, NEW c \in Calls, CallStep(c)
    PROVE  Carried'
<1>0. /\ jobs \in [Calls -> Row \cup {None}] /\ ready \in [Message -> Nat]
      /\ dispatched \in [Calls -> Nat]
  BY Types DEF Inv
<1>1. CASE Dispatch(c)
  <2>0. 0 \in 0..MaxRetries
    BY NumbersAssumption
  <2>1. /\ jobs' = jobs /\ worker' = worker /\ spent' = spent
        /\ \A j \in Calls \ {c} : dispatched'[j] = dispatched[j]
        /\ \A m \in Message : ready'[m] >= ready[m] /\ ready[m] \in Nat /\ ready'[m] \in Nat
        /\ ready'[<<c, 0>>] > 0
    BY <1>0, <1>1, <2>0 DEF Dispatch, Enqueue, Message
  <2>2. InHand(c)'
    BY <2>0, <2>1 DEF InHand
  <2>3. ASSUME NEW j \in Calls \ {c}, Ended(j) \/ InHand(j) PROVE Ended(j)' \/ InHand(j)'
    BY <2>1, <2>3 DEF Ended, InHand, Message
  <2> QED BY <2>1, <2>2, <2>3 DEF Carried
<1>2. CASE AddJob(c)
  <2>1. /\ UNCHANGED <<ready, worker, spent, dispatched>>
        /\ \A j \in Calls : jobs[j] # None => jobs'[j] = jobs[j]
    BY <1>0, <1>2 DEF AddJob, Inv, CallInv, brokerVars
  <2> QED BY <2>1 DEF Carried, Ended, InHand
<1>3. CASE FindKey(c) \/ Reread(c) \/ LoseCall(c)
  <2>1. UNCHANGED <<jobs, ready, worker, spent, dispatched>>
    BY <1>3 DEF FindKey, Reread, LoseCall, brokerVars
  <2> QED BY <2>1 DEF Carried, Ended, InHand
<1> QED BY <1>1, <1>2, <1>3 DEF CallStep

\* A dispatched job that has not ended has a message waiting or an attempt that goes on,
\* through crashes, redeliveries and overlaps of any number, unless an attempt was abandoned
\* (task_acks_late, autoretry_for and on_failure in celery_app.py and tasks.py).
THEOREM DispatchedJobsAreCarried == Spec => []Carried
<1>1. Init => Carried
  BY DEF Init, Carried
<1>2. Inv /\ OutInv /\ Carried /\ [Next]_vars => Carried'
  <2>1. ASSUME Carried, UNCHANGED vars PROVE Carried'
    BY <2>1 DEF vars, callVars, brokerVars, Carried, Ended, InHand
  <2> QED BY <2>1, CallCarries, WorkCarries DEF Next
<1> QED BY <1>1, <1>2, InvInvariant, OutInvariant, PTL DEF Spec

\* What an attempt has left after each of its steps.
LEMMA AttemptRunsOut ==
    ASSUME Inv, NEW w \in Workers, Work(w), worker[w].pc # "idle"
    PROVE  Left(worker[w])' \in 0..(Left(worker[w]) - 1)
<1> DEFINE x == worker[w]
<1>0. x \in Worker /\ x.done \in 0..Chunks /\ Chunks \in Nat /\ worker \in [Workers -> Worker]
  BY Busy, Types, NumbersAssumption DEF Inv
<1>1. CASE LoadJob(w)
  <2>1. x.pc = "received" /\ worker'[w].pc \in {"ack", "starting"}
    BY <1>0, <1>1 DEF LoadJob, Go, Worker
  <2> QED BY <1>0, <2>1 DEF Left
<1>2. CASE WriteStart(w)
  <2>1. x.pc = "starting" /\ worker'[w].pc = "executing" /\ worker'[w].done = 0
    BY <1>0, <1>2 DEF WriteStart, Go, Worker
  <2> QED BY <1>0, <2>1 DEF Left
<1>3. CASE RunChunk(w)
  <2>1. x.pc = "executing" /\ worker'[w].pc = "progress" /\ worker'[w].done = x.done + 1
    BY <1>0, <1>3 DEF RunChunk, Go, Worker
  <2> QED BY <1>0, <2>1 DEF Left
<1>4. CASE ReportProgress(w)
  <2>1. x.pc = "progress" /\ worker'[w].pc = "executing" /\ worker'[w].done = x.done
    BY <1>0, <1>4 DEF ReportProgress, Go, Worker
  <2> QED BY <1>0, <2>1 DEF Left
<1>5. CASE LoadResult(w)
  <2>1. x.pc = "executing" /\ worker'[w].pc \in {"finishing", "raised"}
    BY <1>0, <1>5 DEF LoadResult, Go, Worker
  <2> QED BY <1>0, <2>1 DEF Left
<1>6. CASE WriteResult(w)
  <2>1. x.pc = "finishing" /\ worker'[w].pc = "ack"
    BY <1>0, <1>6 DEF WriteResult, Go, Worker
  <2> QED BY <2>1 DEF Left
<1>7. CASE Raise(w)
  <2>1. /\ x.pc \in {"received", "starting", "executing", "progress", "finishing"}
        /\ worker'[w].pc = "raised"
    BY <1>0, <1>7 DEF Raise, Go, Worker
  <2> QED BY <1>0, <2>1 DEF Left
<1>8. CASE Retry(w)
  <2>1. x.pc = "raised" /\ worker'[w].pc = "ack"
    BY <1>0, <1>8 DEF Retry, Go, Worker
  <2> QED BY <2>1 DEF Left
<1>9. CASE LoadFailed(w)
  <2>1. x.pc = "raised" /\ worker'[w].pc \in {"dead_letter", "marking"}
    BY <1>0, <1>9 DEF LoadFailed, Go, Worker
  <2> QED BY <2>1 DEF Left
<1>10. CASE WriteFailed(w)
  <2>1. x.pc = "marking" /\ worker'[w].pc = "dead_letter"
    BY <1>0, <1>10 DEF WriteFailed, Go, Worker
  <2> QED BY <2>1 DEF Left
<1>11. CASE RecordDeadLetter(w)
  <2>1. x.pc = "dead_letter" /\ worker'[w].pc = "ack"
    BY <1>0, <1>11 DEF RecordDeadLetter, Go, Worker
  <2> QED BY <2>1 DEF Left
<1>12. CASE Ack(w)
  <2>1. x.pc = "ack" /\ worker'[w].pc = "idle"
    BY <1>0, <1>12, IdleType DEF Ack, Go
  <2> QED BY <2>1 DEF Left
<1> QED BY <1>1, <1>2, <1>3, <1>4, <1>5, <1>6, <1>7, <1>8, <1>9, <1>10, <1>11, <1>12
        DEF Work, Receive

LEMMA LeftType == ASSUME Inv, NEW w \in Workers PROVE Left(worker[w]) \in Nat
BY Busy, NumbersAssumption DEF Left

\* A worker that dies, whose message is delivered again, or whose attempt is abandoned.
LEMMA FailureRunsOut ==
    ASSUME Inv, NEW w \in Workers, Crash(w) \/ Redeliver(w) \/ Abandon(w)
    PROVE  Left(worker[w])' <= Left(worker[w])
<1>1. Left(worker[w]) \in Nat
  BY LeftType
<1>2. CASE Redeliver(w)
  BY <1>1, <1>2 DEF Redeliver, Left
<1>3. CASE Crash(w) \/ Abandon(w)
  <2>1. worker'[w].pc = "idle"
    BY <1>3, Types, IdleType DEF Inv, Crash, Abandon, Go
  <2>2. Left(worker[w])' = 0
    BY <2>1 DEF Left
  <2> QED BY <1>1, <2>2
<1> QED BY <1>2, <1>3

\* Who sends a message.
LEMMA Sent ==
    ASSUME Inv, NEW j \in Calls, NEW n \in 0..MaxRetries, Enqueue(j, n),
           NEW m \in Message, ready'[m] > ready[m]
    PROVE  m = <<j, n>>
BY Types DEF Inv, Enqueue, Message

LEMMA SentByCalls ==
    ASSUME Inv, NEW c \in Calls, CallStep(c), NEW m \in Message, ready'[m] > ready[m]
    PROVE  m[2] = 0 /\ dispatched[m[1]] = 0 /\ dispatched'[m[1]] = 1
<1>0. ready[m] \in Nat /\ ready'[m] # ready[m] /\ 0 \in 0..MaxRetries
  BY Types, NumbersAssumption DEF Inv
<1>1. Dispatch(c)
  BY <1>0 DEF CallStep, FindKey, AddJob, Reread, LoseCall, brokerVars
<1>2. m = <<c, 0>>
  BY <1>0, <1>1, Sent DEF Dispatch
<1>3. dispatched[c] = 0 /\ dispatched'[c] = 1
  BY <1>1, Types DEF Dispatch, Inv, CallInv
<1> QED BY <1>2, <1>3

LEMMA SentByWorkers ==
    ASSUME Inv, NEW w \in Workers, Work(w) \/ Crash(w) \/ Redeliver(w) \/ Abandon(w),
           NEW m \in Message, ready'[m] > ready[m]
    PROVE  \/ spent'.crashes > spent.crashes \/ spent'.redeliveries > spent.redeliveries
           \/ /\ worker[w].pc = "raised" /\ worker'[w].pc = "ack"
              /\ worker[w].job = m[1] /\ worker[w].retries + 1 = m[2]
<1>0. /\ ready \in [Message -> Nat] /\ worker \in [Workers -> Worker] /\ worker[w] \in Worker
      /\ spent \in [crashes : Nat, redeliveries : Nat, abandons : Nat, overlapped : SUBSET Calls]
  BY Busy, Types DEF Inv
<1>1. CASE Crash(w) \/ Redeliver(w)
  BY <1>0, <1>1 DEF Crash, Redeliver
<1>2. CASE Retry(w)
  <2>1. /\ worker[w].pc = "raised" /\ worker[w].job \in Calls
        /\ worker[w].retries + 1 \in 0..MaxRetries
        /\ Enqueue(worker[w].job, worker[w].retries + 1)
    BY <1>2, Busy, NumbersAssumption DEF Retry
  <2>2. m = <<worker[w].job, worker[w].retries + 1>>
    BY <2>1, Sent
  <2>3. worker'[w].pc = "ack"
    BY <1>0, <1>2 DEF Retry, Go, Worker
  <2> QED BY <2>1, <2>2, <2>3
<1>3. CASE Receive(w)
  <2>1. PICK k \in Message : ready[k] > 0 /\ ready' = [ready EXCEPT ![k] = @ - 1]
    BY <1>3 DEF Receive
  <2> QED BY <1>0, <2>1
<1>4. CASE ~(Retry(w) \/ Crash(w) \/ Redeliver(w) \/ Receive(w))
  <2>1. ready' = ready
    BY <1>4 DEF Work, LoadJob, WriteStart, RunChunk, ReportProgress, LoadResult, WriteResult,
       Raise, LoadFailed, WriteFailed, RecordDeadLetter, Ack, Abandon, brokerVars
  <2> QED BY <1>0, <2>1
<1> QED BY <1>1, <1>2, <1>3, <1>4

\* Every attempt comes to its end within 2 * Chunks + 8 steps of its worker, whatever raises,
\* and every message has a reason of which there are only so many: the one dispatch of its
\* job, a crash or a redelivery, or one retry more than the attempt that it replaces.
THEOREM AttemptsRunOut == Spec => [][RunsOut]_vars
<1>1. ASSUME Inv, [Next]_vars, NEW w \in Workers, worker[w].pc # "idle"
      PROVE  /\ Left(worker[w])' <= Left(worker[w])
             /\ Work(w) => Left(worker[w])' < Left(worker[w])
  <2>0. Left(worker[w]) \in Nat
    BY <1>1, LeftType
  <2>1. Work(w) => /\ Left(worker[w])' <= Left(worker[w])
                   /\ Left(worker[w])' < Left(worker[w])
    BY <1>1, <2>0, AttemptRunsOut
  <2>2. CASE worker'[w] = worker[w]
    BY <2>0, <2>1, <2>2 DEF Left
  <2>3. CASE worker'[w] # worker[w]
    <3>1. Work(w) \/ Crash(w) \/ Redeliver(w) \/ Abandon(w)
      <4>1. ASSUME NEW c \in Calls, CallStep(c) PROVE FALSE
        BY <2>3, <4>1 DEF CallStep, FindKey, AddJob, Reread, Dispatch, LoseCall
      <4>2. ASSUME NEW v \in Workers \ {w},
                   Work(v) \/ Crash(v) \/ Redeliver(v) \/ Abandon(v)
            PROVE  FALSE
        <5>1. worker' = worker \/ \E y : Go(v, y)
          BY <4>2 DEF Work, Receive, LoadJob, WriteStart, RunChunk, ReportProgress, LoadResult,
             WriteResult, Raise, Retry, LoadFailed, WriteFailed, RecordDeadLetter, Ack, Crash,
             Redeliver, Abandon
        <5> QED BY <1>1, <2>3, <5>1, Types DEF Inv, Go
      <4> QED BY <1>1, <2>3, <4>1, <4>2 DEF Next, vars
    <3> QED BY <1>1, <2>1, <3>1, FailureRunsOut
  <2> QED BY <2>2, <2>3
<1>2. ASSUME Inv, [Next]_vars, NEW m \in Message, ready'[m] > ready[m]
      PROVE  \/ m[2] = 0 /\ dispatched[m[1]] = 0 /\ dispatched'[m[1]] = 1
             \/ spent'.crashes > spent.crashes \/ spent'.redeliveries > spent.redeliveries
             \/ \E w \in Workers :
                  /\ worker[w].pc = "raised" /\ worker'[w].pc = "ack"
                  /\ worker[w].job = m[1] /\ worker[w].retries + 1 = m[2]
  <2>1. ~UNCHANGED vars
    <3>1. ready[m] \in Nat
      BY <1>2, Types DEF Inv
    <3> QED BY <1>2, <3>1 DEF vars, brokerVars
  <2> QED BY <1>2, <2>1, SentByCalls, SentByWorkers DEF Next
<1>3. Inv /\ [Next]_vars => [RunsOut]_vars
  BY <1>1, <1>2 DEF RunsOut
<1> QED BY <1>3, InvInvariant, PTL DEF Spec
==============================================================================
