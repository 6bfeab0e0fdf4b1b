------------------------------- MODULE Serving -------------------------------
(***************************************************************************)
(* The inference service's process: the semaphore of prediction slots, the  *)
(* guard, the request timeout, PredictImage.execute_batch and the           *)
(* ModelCache with its lock per category, over the thread pool that         *)
(* asyncio.to_thread hands blocking calls to.                               *)
(*                                                                          *)
(* A timeout cancels what the request awaits: a lock it queues for, or a    *)
(* thread's result.  A call that no thread has taken yet is withdrawn; one  *)
(* that runs goes on, holds its thread to the end, and its result is lost.  *)
(* The timeout ends with the recording: the addresses of stored heatmaps    *)
(* are signed after it, in the same pool and with the slot still taken.     *)
(* Promotions come from other requests and processes.  A detector is the    *)
(* model version whose artifact it was loaded from.  Where a batch makes    *)
(* one call after another, the call of one image stands for them.           *)
(***************************************************************************)
EXTENDS Naturals, Sequences, FiniteSets

CONSTANTS
    Requests, Categories, Versions,
    CategoryOf,     \* the category of each request and of each version
    None,
    Slots,          \* API_MAX_CONCURRENT_PREDICTIONS
    PoolSize,       \* threads of the event loop's default executor
    MaxPromotions,  \* bound: changes of what is in production
    MaxFailures     \* bound: calls in a thread that raise, transactions that fail

ASSUME NamesAssumption ==
    /\ IsFiniteSet(Requests)
    /\ CategoryOf \in [Requests \cup Versions -> Categories]
    /\ None \notin Requests \cup Versions
ASSUME SizesAssumption ==
    /\ Slots \in Nat \ {0} /\ PoolSize \in Nat \ {0}
    /\ MaxPromotions \in Nat /\ MaxFailures \in Nat

VARIABLES
    up,           \* whether the process has warmed up and takes requests
    production,   \* the version in production of each category, in PostgreSQL
    changes,      \* how often that has changed
    request,      \* where each request stands
    freeSlots, slotQueue,  \* the semaphore, and who waits for it
    entry,        \* the cache: the detector each category has loaded
    holder, lockQueue,     \* the lock of each category, and who waits for it
    thread,       \* the call each request has given to the pool, if any
    poolQueue,    \* calls no thread has looked at yet
    predictions,  \* committed rows
    failures,     \* how often something has failed
    seen          \* history: what was in production while a request was served

vars == <<up, production, changes, request, freeSlots, slotQueue, entry, holder,
          lockQueue, thread, poolQueue, predictions, failures, seen>>
worldVars == <<up, production, changes>>
slotVars == <<freeSlots, slotQueue>>
cacheVars == <<entry, holder, lockQueue>>
poolVars == <<thread, poolQueue>>

Timed == {"resolve", "lock", "loading", "storing", "scoring", "recording", "recorded"}
Steps == {"new", "slot", "guard", "presigning", "ending", "done"} \cup Timed
Answers == {"ok", "refused", "rejected", "timeout", "error"}

Version == Versions \cup {None}
Request == [pc : Steps, model : Version, detector : Version, heatmap : BOOLEAN,
            answer : Answers \cup {"none"}]
Blank == [pc |-> "new", model |-> None, detector |-> None, heatmap |-> FALSE, answer |-> "none"]
Prediction == [of : Requests, model : Versions, detector : Versions]

VersionsOf(c) == {v \in Versions : CategoryOf[v] = c}

Running == {r \in Requests : thread[r] = "running"}
Presigning(r) == request[r].pc = "presigning"
Live(r) == request[r].pc \in Timed \/ Presigning(r)  \* it awaits the call it has made
Abandoned(r) == ~Live(r) /\ thread[r] = "running"
HoldsSlot(r) == request[r].pc \in Timed \cup {"guard", "presigning", "ending"}
\* deque.remove
Drop(queue, r) ==
    IF \E i \in 1..Len(queue) : queue[i] = r
    THEN LET i == CHOOSE i \in 1..Len(queue) : queue[i] = r
         IN  SubSeq(queue, 1, i - 1) \o SubSeq(queue, i + 1, Len(queue))
    ELSE queue

Go(r, step) == request' = [request EXCEPT ![r].pc = step]
End(r, answer) == request' = [request EXCEPT ![r].pc = "ending", ![r].answer = answer]

\* await asyncio.to_thread(...)
Spawn(r) ==
    /\ thread' = [thread EXCEPT ![r] = "queued"]
    /\ poolQueue' = Append(poolQueue, r)
Collect(r) == thread' = [thread EXCEPT ![r] = "none"] /\ UNCHANGED poolQueue
Failing == failures < MaxFailures /\ failures' = failures + 1

Init ==
    /\ up = FALSE
    /\ production \in {p \in [Categories -> Version] :
                         \A c \in Categories : p[c] \in VersionsOf(c) \cup {None}}
    /\ changes = 0
    /\ request = [r \in Requests |-> Blank]
    /\ freeSlots = Slots /\ slotQueue = <<>>
    /\ entry = [c \in Categories |-> None]
    /\ holder = [c \in Categories |-> None]
    /\ lockQueue = [c \in Categories |-> <<>>]
    /\ thread = [r \in Requests |-> "none"] /\ poolQueue = <<>>
    /\ predictions = {}
    /\ failures = 0
    /\ seen = [r \in Requests |-> {}]

-----------------------------------------------------------------------------
(* The process starts, and the rest of the platform. *)

\* warm_up: categories without a production model, or whose load fails, are skipped.
WarmUp ==
    /\ ~up /\ up' = TRUE
    /\ entry' \in {e \in [Categories -> Version] :
                     \A c \in Categories : e[c] \in {production[c], None}}
    /\ UNCHANGED <<production, changes, request, slotVars, holder, lockQueue, poolVars,
                   predictions, failures, seen>>

\* A promotion or a rollback commits.
Promote(c) ==
    /\ changes < MaxPromotions
    /\ \E v \in VersionsOf(c) \ {production[c]} :
         /\ production' = [production EXCEPT ![c] = v]
         /\ seen' = [r \in Requests |->
                       IF HoldsSlot(r) /\ CategoryOf[r] = c THEN seen[r] \cup {v} ELSE seen[r]]
    /\ changes' = changes + 1
    /\ UNCHANGED <<up, request, slotVars, cacheVars, poolVars, predictions, failures>>

-----------------------------------------------------------------------------
(* The route's dependencies: the slot, then the guard. *)

Arrive(r) ==
    /\ up /\ request[r].pc = "new"
    /\ Go(r, "slot")
    /\ slotQueue' = Append(slotQueue, r)
    /\ UNCHANGED <<worldVars, freeSlots, cacheVars, poolVars, predictions, failures, seen>>

\* Mutant: a route without the slot dependency.
TakeSlotUncounted(r) ==
    /\ request[r].pc = "slot" /\ slotQueue # <<>> /\ r = Head(slotQueue)
    /\ slotQueue' = Tail(slotQueue)
    /\ Go(r, "guard")
    /\ seen' = [seen EXCEPT ![r] = {production[CategoryOf[r]]} \ {None}]
    /\ UNCHANGED <<worldVars, freeSlots, cacheVars, poolVars, predictions, failures>>

\* The semaphore serves its waiters in order.
TakeSlot(r) ==
    /\ request[r].pc = "slot" /\ slotQueue # <<>> /\ r = Head(slotQueue)
    /\ freeSlots > 0
    /\ freeSlots' = freeSlots - 1 /\ slotQueue' = Tail(slotQueue)
    /\ Go(r, "guard")
    /\ seen' = [seen EXCEPT ![r] = {production[CategoryOf[r]]} \ {None}]
    /\ UNCHANGED <<worldVars, cacheVars, poolVars, predictions, failures>>

\* 401, 403, or a batch of the wrong size; otherwise the timeout starts.
Guard(r) ==
    /\ request[r].pc = "guard"
    /\ End(r, "refused") \/ Go(r, "resolve")
    /\ UNCHANGED <<worldVars, slotVars, cacheVars, poolVars, predictions, failures, seen>>

-----------------------------------------------------------------------------
(* PredictImage.execute_batch *)

\* _resolve: 409 without a production model, 400 for an image that cannot be decoded.
Resolve(r) ==
    LET c == CategoryOf[r] IN
    /\ request[r].pc = "resolve"
    /\ \/ End(r, "rejected") /\ UNCHANGED lockQueue
       \/ /\ production[c] # None
          /\ request' = [request EXCEPT ![r].pc = "lock", ![r].model = production[c]]
          /\ lockQueue' = [lockQueue EXCEPT ![c] = Append(@, r)]
    /\ UNCHANGED <<worldVars, slotVars, entry, holder, poolVars, predictions, failures, seen>>

\* Mutant: a loaded detector serves whatever version is asked for.
TakeLockAnyHit(r) ==
    LET c == CategoryOf[r] IN
    /\ request[r].pc = "lock" /\ holder[c] = None
    /\ lockQueue[c] # <<>> /\ r = Head(lockQueue[c])
    /\ lockQueue' = [lockQueue EXCEPT ![c] = Tail(@)]
    /\ \/ /\ entry[c] # None
          /\ request' = [request EXCEPT ![r].pc = "storing", ![r].detector = entry[c]]
          /\ UNCHANGED <<holder, poolVars>>
       \/ /\ entry[c] = None
          /\ Go(r, "loading")
          /\ holder' = [holder EXCEPT ![c] = r]
          /\ Spawn(r)
    /\ UNCHANGED <<worldVars, slotVars, entry, predictions, failures, seen>>

\* Mutant: the cache looks an entry up without its lock.
TakeNoLock(r) ==
    LET c == CategoryOf[r] IN
    /\ request[r].pc = "lock"
    /\ lockQueue' = [lockQueue EXCEPT ![c] = Drop(@, r)]
    /\ \/ /\ entry[c] = request[r].model
          /\ request' = [request EXCEPT ![r].pc = "storing", ![r].detector = entry[c]]
          /\ UNCHANGED poolVars
       \/ /\ entry[c] # request[r].model
          /\ Go(r, "loading")
          /\ Spawn(r)
    /\ UNCHANGED <<worldVars, slotVars, entry, holder, predictions, failures, seen>>

\* ModelCache.get: under the category's lock, a hit answers at once, and a miss loads.
TakeLock(r) ==
    LET c == CategoryOf[r] IN
    /\ request[r].pc = "lock" /\ holder[c] = None
    /\ lockQueue[c] # <<>> /\ r = Head(lockQueue[c])
    /\ lockQueue' = [lockQueue EXCEPT ![c] = Tail(@)]
    /\ \/ /\ entry[c] = request[r].model
          /\ request' = [request EXCEPT ![r].pc = "storing", ![r].detector = entry[c]]
          /\ UNCHANGED <<holder, poolVars>>
       \/ /\ entry[c] # request[r].model
          /\ Go(r, "loading")
          /\ holder' = [holder EXCEPT ![c] = r]
          /\ Spawn(r)
    /\ UNCHANGED <<worldVars, slotVars, entry, predictions, failures, seen>>

\* The load has returned, or raised; both ways the lock is given back.
Loaded(r) ==
    LET c == CategoryOf[r] IN
    /\ request[r].pc = "loading"
    /\ \/ /\ thread[r] = "returned"
          /\ entry' = [entry EXCEPT ![c] = request[r].model]
          /\ request' = [request EXCEPT ![r].pc = "storing",
                                             ![r].detector = request[r].model]
       \/ thread[r] = "raised" /\ End(r, "error") /\ UNCHANGED entry
    /\ holder' = [holder EXCEPT ![c] = None]
    /\ Collect(r)
    /\ UNCHANGED <<worldVars, slotVars, lockQueue, predictions, failures, seen>>

\* The objects of new images are put, the thread of one call standing for the batch's.
Store(r) ==
    /\ request[r].pc = "storing"
    /\ \/ thread[r] = "none" /\ Spawn(r) /\ UNCHANGED request
       \/ thread[r] \in {"none", "returned"} /\ Go(r, "scoring") /\ Spawn(r)
       \/ thread[r] = "raised" /\ End(r, "error") /\ Collect(r)
    /\ UNCHANGED <<worldVars, slotVars, cacheVars, predictions, failures, seen>>

\* detector.predict_batch has returned, or raised.
Scored(r) ==
    /\ request[r].pc = "scoring"
    /\ \/ thread[r] = "returned" /\ Go(r, "recording")
       \/ thread[r] = "raised" /\ End(r, "error")
    /\ Collect(r)
    /\ UNCHANGED <<worldVars, slotVars, cacheVars, predictions, failures, seen>>

StoreHeatmap(r) ==
    /\ thread[r] = "none" /\ Spawn(r)
    /\ request' = [request EXCEPT ![r].heatmap = TRUE]

\* The second transaction: heatmaps are put while it is open, and it commits the predictions
\* or, when a put or a statement fails, nothing.
Record(r) ==
    LET row == [of |-> r, model |-> request[r].model, detector |-> request[r].detector] IN
    /\ request[r].pc = "recording"
    /\ \/ StoreHeatmap(r) /\ UNCHANGED <<predictions, failures>>
       \/ /\ thread[r] \in {"none", "returned"} /\ Collect(r)
          /\ predictions' = predictions \cup {row}
          /\ Go(r, "recorded")
          /\ UNCHANGED failures
       \/ thread[r] = "raised" /\ Collect(r) /\ End(r, "error")
          /\ UNCHANGED <<predictions, failures>>
       \/ thread[r] \in {"none", "returned"} /\ Collect(r) /\ Failing /\ End(r, "error")
          /\ UNCHANGED predictions
    /\ UNCHANGED <<worldVars, slotVars, cacheVars, seen>>

\* The timeout is over.  Without a heatmap the response is ready; with one its address is
\* signed first, by a thread of the pool.
Return(r) ==
    /\ request[r].pc = "recorded"
    /\ \/ ~request[r].heatmap /\ End(r, "ok") /\ UNCHANGED poolVars
       \/ request[r].heatmap /\ Go(r, "presigning") /\ Spawn(r)
    /\ UNCHANGED <<worldVars, slotVars, cacheVars, predictions, failures, seen>>

\* An address that cannot be signed is a 500, for a prediction that is recorded.
Presigned(r) ==
    /\ Presigning(r)
    /\ \/ thread[r] = "returned" /\ End(r, "ok")
       \/ thread[r] = "raised" /\ End(r, "error")
    /\ Collect(r)
    /\ UNCHANGED <<worldVars, slotVars, cacheVars, predictions, failures, seen>>

-----------------------------------------------------------------------------
(* Timeouts, threads, and the end of a request. *)

\* Mutant: a timeout does not release the lock of the category.
TimeOutKeepsLock(r) ==
    /\ request[r].pc \in Timed
    /\ End(r, "timeout")
    /\ lockQueue' = [lockQueue EXCEPT ![CategoryOf[r]] = Drop(@, r)]
    /\ thread' = [thread EXCEPT ![r] = IF @ = "running" THEN @ ELSE "none"]
    /\ UNCHANGED <<worldVars, slotVars, entry, holder, poolQueue, predictions, failures, seen>>

\* Mutant: the timeout starts when the detector has been loaded.
TimeOutAfterLoad(r) ==
    /\ request[r].pc \in Timed \ {"resolve", "lock", "loading"}
    /\ End(r, "timeout")
    /\ thread' = [thread EXCEPT ![r] = IF @ = "running" THEN @ ELSE "none"]
    /\ UNCHANGED <<worldVars, slotVars, cacheVars, poolQueue, predictions, failures, seen>>

\* asyncio.timeout cancels what the request awaits; its locks are released on the way out.
TimeOut(r) ==
    LET c == CategoryOf[r] IN
    /\ request[r].pc \in Timed
    /\ End(r, "timeout")
    /\ lockQueue' = [lockQueue EXCEPT ![c] = Drop(@, r)]
    /\ holder' = [holder EXCEPT ![c] = IF @ = r THEN None ELSE @]
    /\ thread' = [thread EXCEPT ![r] = IF @ = "running" THEN @ ELSE "none"]
    /\ UNCHANGED <<worldVars, slotVars, entry, poolQueue, predictions, failures, seen>>

\* A thread of the pool takes the oldest call, or skips it if it has been withdrawn.
StartThread ==
    /\ poolQueue # <<>> /\ Cardinality(Running) < PoolSize
    /\ thread' = [thread EXCEPT ![Head(poolQueue)] = IF @ = "queued" THEN "running" ELSE @]
    /\ poolQueue' = Tail(poolQueue)
    /\ UNCHANGED <<worldVars, request, slotVars, cacheVars, predictions, failures, seen>>

\* It ends; nobody collects the result of a call whose request has timed out.
EndThread(r) ==
    /\ thread[r] = "running"
    /\ \/ /\ thread' = [thread EXCEPT ![r] = IF Live(r) THEN "returned" ELSE "none"]
          /\ UNCHANGED failures
       \/ Live(r) /\ Failing /\ thread' = [thread EXCEPT ![r] = "raised"]
    /\ UNCHANGED <<worldVars, request, slotVars, cacheVars, poolQueue, predictions, seen>>

\* The response is sent and the slot given back; nothing is kept of the request.
Finish(r) ==
    /\ request[r].pc = "ending"
    /\ request' = [request EXCEPT ![r] = [Blank EXCEPT !.pc = "done"]]
    /\ freeSlots' = freeSlots + 1
    /\ seen' = [seen EXCEPT ![r] = {}]
    /\ UNCHANGED <<worldVars, slotQueue, cacheVars, poolVars, predictions, failures>>

Serve(r) ==
    \/ Resolve(r) \/ TakeLock(r) \/ Loaded(r) \/ Store(r) \/ Scored(r) \/ Record(r)
    \/ Return(r) \/ Presigned(r)

Next ==
    \/ WarmUp \/ StartThread
    \/ \E c \in Categories : Promote(c)
    \/ \E r \in Requests :
         \/ Arrive(r) \/ TakeSlot(r) \/ Guard(r)
         \/ Serve(r) \/ TimeOut(r) \/ EndThread(r) \/ Finish(r)

Spec == Init /\ [][Next]_vars

\* The event loop serves its waiters, lets timeouts pass and takes up a thread's result, and
\* the guard is answered.  Nothing obliges a thread to start a call or to end one, and nothing
\* obliges the steps between to beat the timeout.
FairSpec ==
    /\ Spec
    /\ \A r \in Requests :
         /\ WF_vars(TakeSlot(r)) /\ WF_vars(Guard(r)) /\ WF_vars(TimeOut(r))
         /\ WF_vars(Presigned(r)) /\ WF_vars(Finish(r))
-----------------------------------------------------------------------------
(* Properties *)

\* The types of the process's state, the pool and the rows.
TypeOK ==
    /\ up \in BOOLEAN
    /\ production \in [Categories -> Version]
    /\ changes \in 0..MaxPromotions
    /\ request \in [Requests -> Request]
    /\ freeSlots \in 0..Slots /\ slotQueue \in Seq(Requests)
    /\ entry \in [Categories -> Version]
    /\ holder \in [Categories -> Requests \cup {None}]
    /\ lockQueue \in [Categories -> Seq(Requests)]
    /\ thread \in [Requests -> {"none", "queued", "running", "returned", "raised"}]
    /\ poolQueue \in Seq(Requests)
    /\ predictions \subseteq Prediction
    /\ failures \in 0..MaxFailures
    /\ seen \in [Requests -> SUBSET Versions]

\* Whatever promotions, timeouts and reloads overlap with it, a recorded prediction was
\* scored by the version it names, and that version was in production while its request was
\* served: a cache that lags behind a promotion never answers for the new version.  A client
\* that is answered 200 finds its prediction and one that is refused has left none.  One that
\* is answered 500 has left one only if a heatmap was stored with it, whose address could not
\* be signed after the commit; a 504 tells nothing (ModelCache.get, execute_batch, predict.py).
AnswersAreTrue ==
    /\ \A p \in predictions :
         /\ p.detector = p.model
         /\ HoldsSlot(p.of) => p.model \in seen[p.of]
    /\ \A r \in Requests :
         LET rows == {p \in predictions : p.of = r} IN
         /\ request[r].answer = "ok" => rows # {}
         /\ request[r].answer \in {"refused", "rejected"} => rows = {}
         /\ request[r].answer = "error" /\ rows # {} => request[r].heatmap

\* The lock of a category is held only by a request that is still served and loads: one that
\* times out while its thread loads on does not keep the others out (ModelCache.get).
LocksAreLive ==
    \A c \in Categories : holder[c] # None =>
        /\ CategoryOf[holder[c]] = c
        /\ request[holder[c]].pc = "loading"
        /\ thread[holder[c]] # "none"

\* Requests of one category that miss together cause one reload: no load is completed for a
\* version that the cache already holds (the lock in ModelCache.get).
NoRedundantReload ==
    [][\A r \in Requests :
         request[r].pc = "loading" /\ request'[r].pc = "storing"
            => entry[CategoryOf[r]] # request[r].model]_vars

\* The slots keep the pool free: when there are as many threads as slots, a call that finds
\* all of them taken waits for a call that some timed-out request has left running, never
\* for requests that are still served (acquire_prediction_slot).
DelaysComeFromAbandoned ==
    /\ PoolSize >= Slots
    /\ Cardinality(Running) = PoolSize
    /\ \E r \in Requests : thread[r] = "queued"
    => \E r \in Requests : Abandoned(r)

\* Even if no thread ever returns, a request that waits for a slot is answered in the end:
\* timeouts give back the lock of the category and the slot.  Only the signing of heatmaps,
\* which no timeout covers, can prevent it: the request waits for its own for ever, or requests
\* that do have taken all the slots (predict.py, model_cache.py, acquire_prediction_slot).
EveryRequestIsAnswered ==
    \A r \in Requests :
        request[r].pc = "slot" ~>
            \/ request[r].pc = "done"
            \/ []Presigning(r)
            \/ [](Cardinality({q \in Requests : Presigning(q)}) = Slots)
==============================================================================
