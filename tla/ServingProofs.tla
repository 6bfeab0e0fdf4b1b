---------------------------- MODULE ServingProofs ----------------------------
(***************************************************************************)
(* Proofs about the inference service, for any number of requests,          *)
(* categories, versions, slots and threads, and for timeouts, failures and  *)
(* promotions at any moment.                                                *)
(***************************************************************************)
EXTENDS Serving, FiniteSetTheorems, SequenceTheorems, TLAPS

Early == {"new", "slot", "guard", "resolve", "lock"}
Scoring == {"storing", "scoring", "recording", "recorded"}
Threads == {"none", "queued", "running", "returned", "raised"}
Holders == {r \in Requests : HoldsSlot(r)}

\* What a request knows, and which call it may have given to the pool, at each step.
RequestInv(r) ==
    /\ request[r].pc \in Early \cup {"recorded"} => thread[r] = "none"
    /\ ~Live(r) => thread[r] \in {"none", "running"}
    /\ request[r].pc = "loading" =>
         /\ thread[r] # "none"
         /\ holder[CategoryOf[r]] = r
         /\ entry[CategoryOf[r]] # request[r].model
    /\ request[r].pc \in Scoring => request[r].detector = request[r].model
    /\ request[r].pc \in Scoring \cup {"lock", "loading"} =>
         request[r].model \in Versions /\ request[r].model \in seen[r]
    /\ HoldsSlot(r) => production[CategoryOf[r]] \in seen[r] \cup {None}
    /\ request[r].pc # "ending" => request[r].answer = "none"
    /\ request[r].pc \in {"recorded", "presigning"} \/ request[r].answer = "ok"
         => \E p \in predictions : p.of = r

\* Which requests have a row, and what it says.
Committed(r) ==
    /\ request[r].pc \in {"recorded", "presigning", "ending", "done"}
    /\ request[r].answer \in {"none", "ok", "timeout", "error"}
    /\ Presigning(r) \/ request[r].answer = "error" => request[r].heatmap
RowInv ==
    \A p \in predictions :
        /\ p.detector = p.model
        /\ HoldsSlot(p.of) => p.model \in seen[p.of]
        /\ Committed(p.of)

\* Before the process has warmed up there are no requests.
UpInv == up \/ \A r \in Requests : request[r].pc = "new"

SlotInv == freeSlots + Cardinality(Holders) = Slots

Inv ==
    /\ TypeOK
    /\ \A r \in Requests : RequestInv(r)
    /\ RowInv
    /\ LocksAreLive
    /\ UpInv
    /\ SlotInv

-----------------------------------------------------------------------------
(* Slots *)

LEMMA HoldersFinite == IsFiniteSet(Holders) /\ Cardinality(Holders) \in Nat
BY NamesAssumption, FS_Subset, FS_CardinalityType DEF Holders

\* A step after which the same requests hold slots keeps the count.
LEMMA SameHolders ==
    ASSUME SlotInv, freeSlots' = freeSlots,
           \A r \in Requests : HoldsSlot(r)' <=> HoldsSlot(r)
    PROVE  SlotInv'
<1>1. Holders' = Holders
  BY DEF Holders
<1> QED BY <1>1 DEF SlotInv

\* A request that takes a slot, and one that gives it back.
LEMMA HolderAdded ==
    ASSUME TypeOK, SlotInv, NEW r \in Requests, ~HoldsSlot(r), HoldsSlot(r)',
           freeSlots' = freeSlots - 1,
           \A q \in Requests \ {r} : HoldsSlot(q)' <=> HoldsSlot(q)
    PROVE  SlotInv'
<1>1. Holders' = Holders \cup {r} /\ r \notin Holders
  BY DEF Holders
<1>2. Cardinality(Holders') = Cardinality(Holders) + 1
  BY <1>1, HoldersFinite, FS_AddElement
<1> QED BY <1>2, HoldersFinite, SizesAssumption DEF SlotInv, TypeOK

LEMMA HolderRemoved ==
    ASSUME TypeOK, SlotInv, NEW r \in Requests, HoldsSlot(r), ~HoldsSlot(r)',
           freeSlots' = freeSlots + 1,
           \A q \in Requests \ {r} : HoldsSlot(q)' <=> HoldsSlot(q)
    PROVE  SlotInv'
<1>1. Holders' = Holders \ {r} /\ r \in Holders
  BY DEF Holders
<1>2. Cardinality(Holders') = Cardinality(Holders) - 1
  BY <1>1, HoldersFinite, FS_RemoveElement
<1> QED BY <1>2, HoldersFinite, SizesAssumption DEF SlotInv, TypeOK

\* The count bounds the free slots.
LEMMA FreeSlotsType ==
    ASSUME SlotInv, freeSlots \in Int
    PROVE  freeSlots <= Slots
BY HoldersFinite, SizesAssumption DEF SlotInv

-----------------------------------------------------------------------------
(* Types *)

\* The types of the state, one variable at a time.
LEMMA Types ==
    ASSUME TypeOK
    PROVE  /\ production \in [Categories -> Version]
           /\ request \in [Requests -> Request]
           /\ freeSlots \in 0..Slots /\ slotQueue \in Seq(Requests)
           /\ entry \in [Categories -> Version]
           /\ holder \in [Categories -> Requests \cup {None}]
           /\ lockQueue \in [Categories -> Seq(Requests)]
           /\ thread \in [Requests -> Threads]
           /\ poolQueue \in Seq(Requests)
           /\ predictions \subseteq Prediction
           /\ seen \in [Requests -> SUBSET Versions]
BY DEF TypeOK, Threads

LEMMA CategoryType == \A r \in Requests : CategoryOf[r] \in Categories
BY NamesAssumption

\* Moving a request on, and ending it, leave records of requests.
LEMMA GoType ==
    ASSUME TypeOK, NEW r \in Requests, NEW step \in Steps, Go(r, step)
    PROVE  request' \in [Requests -> Request]
<1>1. [request[r] EXCEPT !.pc = step] \in Request
  BY DEF TypeOK, Request
<1> QED BY <1>1 DEF TypeOK, Go

LEMMA EndType ==
    ASSUME TypeOK, NEW r \in Requests, NEW answer \in Answers, End(r, answer)
    PROVE  request' \in [Requests -> Request]
<1> DEFINE x == [request[r] EXCEPT !.pc = "ending"]
<1>1. x \in Request
  BY ZenonT(60) DEF TypeOK, Request, Steps
<1>2. [x EXCEPT !.answer = answer] \in Request
  BY <1>1 DEF Request
<1>3. request' = [request EXCEPT ![r] = [x EXCEPT !.answer = answer]]
  BY DEF TypeOK, End
<1> QED BY <1>2, <1>3 DEF TypeOK

\* What the two leave of the records.
LEMMA GoFields ==
    ASSUME TypeOK, NEW r \in Requests, NEW step, Go(r, step)
    PROVE  /\ request'[r].pc = step /\ request'[r].model = request[r].model
           /\ request'[r].detector = request[r].detector
           /\ request'[r].answer = request[r].answer
           /\ request'[r].heatmap = request[r].heatmap
           /\ \A q \in Requests \ {r} : request'[q] = request[q]
BY DEF TypeOK, Go, Request

LEMMA EndFields ==
    ASSUME TypeOK, NEW r \in Requests, NEW answer, End(r, answer)
    PROVE  /\ request'[r].pc = "ending" /\ request'[r].answer = answer
           /\ request'[r].heatmap = request[r].heatmap
           /\ \A q \in Requests \ {r} : request'[q] = request[q]
BY DEF TypeOK, End, Request

LEMMA DropType ==
    ASSUME NEW queue \in Seq(Requests), NEW r
    PROVE  Drop(queue, r) \in Seq(Requests)
<1>1. CASE \E i \in 1..Len(queue) : queue[i] = r
  <2> DEFINE i == CHOOSE i \in 1..Len(queue) : queue[i] = r
  <2>1. i \in 1..Len(queue)
    BY <1>1
  <2>2. Len(queue) \in Nat
    OBVIOUS
  <2>3. i - 1 \in Int /\ i + 1 \in Int
    BY <2>1, <2>2
  <2>4. \A k \in 1..(i - 1) : queue[k] \in Requests
    BY <2>1, <2>2
  <2>5. \A k \in (i + 1)..Len(queue) : queue[k] \in Requests
    BY <2>1, <2>2
  <2> HIDE DEF i
  <2>6. SubSeq(queue, 1, i - 1) \in Seq(Requests)
    BY <2>3, <2>4, SubSeqProperties
  <2>7. SubSeq(queue, i + 1, Len(queue)) \in Seq(Requests)
    BY <2>2, <2>3, <2>5, SubSeqProperties
  <2>8. SubSeq(queue, 1, i - 1) \o SubSeq(queue, i + 1, Len(queue)) \in Seq(Requests)
    BY <2>6, <2>7, ConcatProperties
  <2>9. Drop(queue, r) = SubSeq(queue, 1, i - 1) \o SubSeq(queue, i + 1, Len(queue))
    BY <1>1 DEF Drop, i
  <2> QED BY <2>8, <2>9
<1>2. CASE ~\E i \in 1..Len(queue) : queue[i] = r
  BY <1>2 DEF Drop
<1> QED BY <1>1, <1>2

-----------------------------------------------------------------------------
(* Steps *)

LEMMA InitInv == ASSUME Init PROVE Inv
<1> USE DEF Init, Blank
<1>1. TypeOK
  <2>1. production \in [Categories -> Version]
    OBVIOUS
  <2>2. \A r \in Requests : request[r] \in Request
    BY DEF Request, Version, Steps
  <2>3. freeSlots \in 0..Slots
    BY SizesAssumption
  <2>4. slotQueue \in Seq(Requests) /\ poolQueue \in Seq(Requests) /\ <<>> \in Seq(Requests)
    BY EmptySeq
  <2>5. /\ entry \in [Categories -> Version] /\ holder \in [Categories -> Requests \cup {None}]
        /\ lockQueue \in [Categories -> Seq(Requests)]
    BY <2>4 DEF Version
  <2>6. changes \in 0..MaxPromotions /\ failures \in 0..MaxFailures
    BY SizesAssumption
  <2>7. request \in [Requests -> Request]
    BY <2>2
  <2> QED BY <2>1, <2>3, <2>4, <2>5, <2>6, <2>7 DEF TypeOK
<1>2. \A r \in Requests : RequestInv(r)
  BY DEF RequestInv, Live, Presigning, HoldsSlot, Early, Timed, Scoring
<1>3. RowInv
  BY DEF RowInv
<1>4. LocksAreLive
  BY DEF LocksAreLive
<1>5. UpInv
  BY DEF UpInv
<1>6. SlotInv
  <2>1. Holders = {}
    BY DEF Holders, HoldsSlot, Timed
  <2> QED BY <2>1, FS_EmptySet, SizesAssumption DEF SlotInv
<1> QED BY <1>1, <1>2, <1>3, <1>4, <1>5, <1>6 DEF Inv

\* The process warms up.
LEMMA WarmUpStep == ASSUME Inv, WarmUp PROVE Inv'
<1> USE DEF WarmUp, slotVars, poolVars
<1>1. TypeOK'
  BY DEF Inv, TypeOK
<1>2. \A r \in Requests : RequestInv(r)'
  BY DEF Inv, RequestInv, Live, Presigning, HoldsSlot, UpInv, Timed, Scoring
<1>3. RowInv'
  BY DEF Inv, RowInv, Committed, Presigning, HoldsSlot
<1>4. LocksAreLive'
  BY DEF Inv, LocksAreLive
<1>5. UpInv'
  BY DEF UpInv
<1>6. SlotInv'
  BY SameHolders DEF Inv, HoldsSlot
<1> QED BY <1>1, <1>2, <1>3, <1>4, <1>5, <1>6 DEF Inv

\* What is in production changes.
LEMMA PromoteStep == ASSUME Inv, NEW c \in Categories, Promote(c) PROVE Inv'
<1>0. PICK v \in VersionsOf(c) :
        /\ production' = [production EXCEPT ![c] = v]
        /\ seen' = [r \in Requests |->
                      IF HoldsSlot(r) /\ CategoryOf[r] = c THEN seen[r] \cup {v} ELSE seen[r]]
  BY DEF Promote
<1> USE DEF slotVars, poolVars, cacheVars
<1>1. TypeOK'
  <2>1. v \in Versions
    BY DEF VersionsOf
  <2>2. production' \in [Categories -> Version]
    BY <1>0, <2>1 DEF Inv, TypeOK, Version
  <2>3. seen' \in [Requests -> SUBSET Versions]
    BY <1>0, <2>1 DEF Inv, TypeOK
  <2>4. changes' \in 0..MaxPromotions
    BY SizesAssumption DEF Inv, TypeOK, Promote
  <2> QED BY <2>2, <2>3, <2>4 DEF Inv, TypeOK, Promote
<1>a. \A r \in Requests : seen[r] \subseteq seen'[r]
  BY <1>0
<1>2. ASSUME NEW r \in Requests PROVE RequestInv(r)'
  <2>1. HoldsSlot(r) => production'[CategoryOf[r]] \in seen'[r] \cup {None}
    BY <1>0, <1>a, CategoryType DEF Inv, TypeOK, RequestInv
  <2> QED BY <1>a, <2>1 DEF Inv, RequestInv, Live, Presigning, HoldsSlot, Promote
<1>3. RowInv'
  BY <1>a DEF Inv, RowInv, Committed, Presigning, TypeOK, Prediction, HoldsSlot, Promote
<1>4. LocksAreLive'
  BY DEF Inv, LocksAreLive, Promote
<1>5. UpInv'
  BY DEF Inv, UpInv, Promote
<1>6. SlotInv'
  BY SameHolders DEF Inv, HoldsSlot, Promote
<1> QED BY <1>1, <1>2, <1>3, <1>4, <1>5, <1>6 DEF Inv

\* A step of request r leaves alone what the others know, as long as it does not take a lock
\* they hold or change the entry under it.
LEMMA OthersKeep ==
    ASSUME Inv, NEW r \in Requests, NEW q \in Requests \ {r},
           request'[q] = request[q], thread'[q] = thread[q], seen'[q] = seen[q],
           predictions \subseteq predictions', production' = production,
           holder[CategoryOf[q]] = q =>
              /\ holder'[CategoryOf[q]] = q
              /\ entry'[CategoryOf[q]] = entry[CategoryOf[q]]
    PROVE  RequestInv(q)'
BY DEF Inv, RequestInv, Live, Presigning, HoldsSlot

LEMMA ArriveStep == ASSUME Inv, NEW r \in Requests, Arrive(r) PROVE Inv'
<1> USE DEF Arrive, Go, worldVars, poolVars, cacheVars
<1>0. /\ request[r] \in Request /\ request' = [request EXCEPT ![r].pc = "slot"]
      /\ request[r].pc = "new" /\ RequestInv(r)
  BY DEF Inv, TypeOK
<1>q. /\ request'[r].pc = "slot"
      /\ request'[r].answer = request[r].answer
      /\ \A q \in Requests \ {r} : request'[q] = request[q]
  BY <1>0 DEF Inv, TypeOK
<1>1. TypeOK'
  <2>1. request' \in [Requests -> Request]
    BY GoType DEF Inv, Steps
  <2>2. slotQueue' \in Seq(Requests)
    BY DEF Inv, TypeOK
  <2> QED BY <2>1, <2>2 DEF Inv, TypeOK
<1>2. ASSUME NEW q \in Requests PROVE RequestInv(q)'
  <2>1. CASE q = r
    BY <1>0, <1>q, <2>1 DEF RequestInv, Live, Presigning, HoldsSlot, Early, Timed, Scoring
  <2>2. CASE q # r
    BY <1>q, <2>2, OthersKeep
  <2> QED BY <2>1, <2>2
<1>3. RowInv'
  BY <1>0, <1>q DEF Inv, RowInv, Committed, Presigning, HoldsSlot, Timed, TypeOK, Prediction
<1>4. LocksAreLive'
  BY <1>0, <1>q DEF Inv, LocksAreLive, TypeOK
<1>5. UpInv'
  BY DEF UpInv
<1>6. SlotInv'
  BY <1>0, <1>q, SameHolders DEF Inv, HoldsSlot, Timed
<1> QED BY <1>1, <1>2, <1>3, <1>4, <1>5, <1>6 DEF Inv

\* What is left to show of a step of request r that writes no row.
LEMMA Frame ==
    ASSUME Inv, NEW r \in Requests, TypeOK', SlotInv', RequestInv(r)', up' = up, up,
           predictions' = predictions, production' = production,
           \A q \in Requests \ {r} :
              request'[q] = request[q] /\ thread'[q] = thread[q] /\ seen'[q] = seen[q],
           \A q \in Requests \ {r} : holder[CategoryOf[q]] = q =>
              /\ holder'[CategoryOf[q]] = q
              /\ entry'[CategoryOf[q]] = entry[CategoryOf[q]],
           \A c \in Categories :
              \/ holder'[c] \in {None, holder[c]} \ {r}
              \/ /\ holder'[c] = r /\ CategoryOf[r] = c
                 /\ request'[r].pc = "loading" /\ thread'[r] # "none",
           (\E p \in predictions : p.of = r) =>
              /\ Committed(r)'
              /\ HoldsSlot(r)' => HoldsSlot(r) /\ seen'[r] = seen[r]
    PROVE  Inv'
<1>1. ASSUME NEW q \in Requests PROVE RequestInv(q)'
  BY <1>1, OthersKeep
<1>2. RowInv'
  <2>1. ASSUME NEW p \in predictions PROVE
          /\ p.detector = p.model
          /\ HoldsSlot(p.of)' => p.model \in seen'[p.of]
          /\ Committed(p.of)'
    <3>1. p.of \in Requests
      BY DEF Inv, TypeOK, Prediction
    <3>2. CASE p.of = r
      BY <3>2 DEF Inv, RowInv, Committed, Presigning, HoldsSlot
    <3>3. CASE p.of # r
      BY <3>1, <3>3 DEF Inv, RowInv, Committed, Presigning, HoldsSlot
    <3> QED BY <3>2, <3>3
  <2> QED BY <2>1 DEF RowInv, Committed, Presigning, HoldsSlot
<1>3. LocksAreLive'
  <2>1. ASSUME NEW c \in Categories, holder'[c] # None, holder'[c] # r
        PROVE  /\ CategoryOf[holder'[c]] = c
               /\ request'[holder'[c]].pc = "loading"
               /\ thread'[holder'[c]] # "none"
    <3>1. holder'[c] = holder[c] /\ holder[c] \in Requests \ {r}
      BY <2>1 DEF Inv, TypeOK
    <3> QED BY <3>1, <2>1 DEF Inv, LocksAreLive
  <2> QED BY <2>1 DEF LocksAreLive
<1>4. UpInv'
  BY DEF UpInv
<1> QED BY <1>1, <1>2, <1>3, <1>4 DEF Inv

\* A request past its arrival finds the process up.
LEMMA IsUp == ASSUME Inv, NEW r \in Requests, request[r].pc # "new" PROVE up
BY DEF Inv, UpInv, TypeOK

LEMMA TakeSlotStep == ASSUME Inv, NEW r \in Requests, TakeSlot(r) PROVE Inv'
<1> USE DEF TakeSlot, Go, worldVars, poolVars, cacheVars
<1>0. /\ request[r] \in Request /\ request' = [request EXCEPT ![r].pc = "guard"]
      /\ request[r].pc = "slot" /\ RequestInv(r) /\ up
  BY IsUp DEF Inv, TypeOK
<1>q. /\ request'[r].pc = "guard" /\ request'[r].answer = request[r].answer
      /\ \A q \in Requests \ {r} : request'[q] = request[q] /\ seen'[q] = seen[q]
  BY <1>0 DEF Inv, TypeOK
<1>1. TypeOK'
  <2>1. request' \in [Requests -> Request]
    BY GoType DEF Inv, Steps
  <2>2. slotQueue \in Seq(Requests)
    BY DEF Inv, TypeOK
  <2>a. slotQueue' \in Seq(Requests)
    BY <2>2, HeadTailProperties
  <2>3. seen' \in [Requests -> SUBSET Versions]
    BY CategoryType DEF Inv, TypeOK, Version
  <2>4. freeSlots' \in 0..Slots
    BY SizesAssumption DEF Inv, TypeOK
  <2> QED BY <2>1, <2>a, <2>3, <2>4 DEF Inv, TypeOK
<1>2. SlotInv'
  BY <1>0, <1>q, HolderAdded DEF Inv, HoldsSlot, Timed
<1>s. seen'[r] = {production[CategoryOf[r]]} \ {None} /\ thread' = thread
  BY DEF Inv, TypeOK
<1>3. RequestInv(r)'
  BY <1>0, <1>q, <1>s DEF RequestInv, Live, Presigning, HoldsSlot, Early, Timed, Scoring
<1>4. ~\E p \in predictions : p.of = r
  BY <1>0 DEF Inv, RowInv, Committed
<1>5. \A c \in Categories : holder[c] # r
  BY <1>0, NamesAssumption DEF Inv, LocksAreLive
<1> QED BY <1>0, <1>q, <1>1, <1>2, <1>3, <1>4, <1>5, Frame

LEMMA GuardStep == ASSUME Inv, NEW r \in Requests, Guard(r) PROVE Inv'
<1> USE DEF Guard, worldVars, slotVars, poolVars, cacheVars
<1>0. request[r] \in Request /\ request[r].pc = "guard" /\ RequestInv(r) /\ up
  BY IsUp DEF Inv, TypeOK
<1>q. /\ \/ request'[r].pc = "ending" /\ request'[r].answer = "refused"
         \/ request'[r].pc = "resolve" /\ request'[r].answer = request[r].answer
      /\ \A q \in Requests \ {r} : request'[q] = request[q]
  BY <1>0 DEF Inv, TypeOK, Request, Go, End
<1>1. TypeOK'
  <2>1. request' \in [Requests -> Request]
    BY GoType, EndType DEF Inv, Steps, Timed, Answers
  <2> QED BY <2>1 DEF Inv, TypeOK
<1>2. SlotInv'
  BY <1>0, <1>q, SameHolders DEF Inv, HoldsSlot, Timed
<1>3. RequestInv(r)'
  BY <1>0, <1>q DEF RequestInv, Live, Presigning, HoldsSlot, Early, Timed, Scoring
<1>4. ~\E p \in predictions : p.of = r
  BY <1>0 DEF Inv, RowInv, Committed
<1>5. \A c \in Categories : holder[c] # r
  BY <1>0, NamesAssumption DEF Inv, LocksAreLive
<1> QED BY <1>0, <1>q, <1>1, <1>2, <1>3, <1>4, <1>5, Frame

LEMMA ResolveStep == ASSUME Inv, NEW r \in Requests, Resolve(r) PROVE Inv'
<1> USE DEF Resolve, worldVars, slotVars, poolVars
<1>0. request[r] \in Request /\ request[r].pc = "resolve" /\ RequestInv(r) /\ up
  BY IsUp DEF Inv, TypeOK
<1>a. ~\E p \in predictions : p.of = r
  BY <1>0 DEF Inv, RowInv, Committed
<1>b. \A c \in Categories : holder[c] # r
  BY <1>0, NamesAssumption DEF Inv, LocksAreLive
<1>1. CASE End(r, "rejected") /\ UNCHANGED lockQueue
  <2>q. /\ request'[r].pc = "ending" /\ request'[r].answer = "rejected"
        /\ \A q \in Requests \ {r} : request'[q] = request[q]
    BY <1>1, EndFields DEF Inv
  <2>1. TypeOK'
    BY <1>1, EndType DEF Inv, Answers, TypeOK
  <2>2. SlotInv'
    BY <1>0, <2>q, SameHolders DEF Inv, HoldsSlot, Timed
  <2>3. RequestInv(r)'
    BY <1>0, <2>q DEF RequestInv, Live, Presigning, HoldsSlot, Early, Timed, Scoring
  <2> QED BY <1>0, <1>a, <1>b, <2>q, <2>1, <2>2, <2>3, Frame
<1>2. CASE /\ production[CategoryOf[r]] # None
           /\ request' = [request EXCEPT ![r].pc = "lock",
                                         ![r].model = production[CategoryOf[r]]]
           /\ lockQueue' = [lockQueue EXCEPT ![CategoryOf[r]] = Append(@, r)]
  <2>c. CategoryOf[r] \in Categories /\ production[CategoryOf[r]] \in Versions
    BY <1>2, CategoryType DEF Inv, TypeOK, Version
  <2>q. /\ request'[r].pc = "lock" /\ request'[r].answer = request[r].answer
        /\ request'[r].model = production[CategoryOf[r]]
        /\ \A q \in Requests \ {r} : request'[q] = request[q]
    BY <1>0, <1>2 DEF Inv, TypeOK, Request
  <2>s. production[CategoryOf[r]] \in seen[r]
    BY <1>0, <1>2 DEF RequestInv, Live, Presigning, HoldsSlot, Timed
  <2>1. TypeOK'
    <3>1. request' \in [Requests -> Request]
      BY <1>0, <1>2, <2>c DEF Inv, TypeOK, Request, Steps, Timed, Version
    <3>2. lockQueue' \in [Categories -> Seq(Requests)]
      BY <1>2, <2>c DEF Inv, TypeOK
    <3> QED BY <3>1, <3>2 DEF Inv, TypeOK
  <2>2. SlotInv'
    BY <1>0, <2>q, SameHolders DEF Inv, HoldsSlot, Timed
  <2>3. RequestInv(r)'
    BY <1>0, <2>q, <2>c, <2>s DEF RequestInv, Live, Presigning, HoldsSlot, Early, Timed, Scoring
  <2> QED BY <1>0, <1>a, <1>b, <2>q, <2>1, <2>2, <2>3, Frame
<1> QED BY <1>1, <1>2

\* Handing a call to the pool, and collecting its result, leave the pool's types.
LEMMA PoolType ==
    ASSUME TypeOK, NEW r \in Requests, Spawn(r) \/ Collect(r)
    PROVE  /\ thread' \in [Requests -> Threads] /\ poolQueue' \in Seq(Requests)
           /\ \A q \in Requests \ {r} : thread'[q] = thread[q]
           /\ Spawn(r) => thread'[r] = "queued"
           /\ Collect(r) => thread'[r] = "none"
<1>1. thread \in [Requests -> Threads] /\ poolQueue \in Seq(Requests)
  BY DEF TypeOK, Threads
<1>2. Append(poolQueue, r) \in Seq(Requests)
  BY <1>1
<1>3. CASE Spawn(r)
  <2>1. thread' = [thread EXCEPT ![r] = "queued"] /\ poolQueue' = Append(poolQueue, r)
    BY <1>3 DEF Spawn
  <2>2. thread'[r] = "queued" /\ "queued" # "none" /\ "queued" \in Threads
    BY <1>1, <2>1 DEF Threads
  <2> QED BY <1>1, <1>2, <2>1, <2>2 DEF Collect
<1>4. CASE Collect(r)
  <2>1. thread' = [thread EXCEPT ![r] = "none"] /\ poolQueue' = poolQueue
    BY <1>4 DEF Collect
  <2>2. thread'[r] = "none" /\ "queued" # "none" /\ "none" \in Threads
    BY <1>1, <2>1 DEF Threads
  <2> QED BY <1>1, <2>1, <2>2 DEF Spawn
<1> QED BY <1>3, <1>4

LEMMA TakeLockStep == ASSUME Inv, NEW r \in Requests, TakeLock(r) PROVE Inv'
<1> DEFINE c == CategoryOf[r]
<1> USE DEF worldVars, slotVars
<1>0. /\ request[r] \in Request /\ request[r].pc = "lock" /\ RequestInv(r) /\ up
      /\ c \in Categories /\ holder[c] = None /\ lockQueue[c] # <<>>
  BY IsUp, CategoryType DEF Inv, TypeOK, TakeLock
<1>a. ~\E p \in predictions : p.of = r
  BY <1>0 DEF Inv, RowInv, Committed
<1>b. \A d \in Categories : holder[d] # r
  BY <1>0, NamesAssumption DEF Inv, LocksAreLive
<1>c. lockQueue' \in [Categories -> Seq(Requests)]
  <2>1. lockQueue[c] \in Seq(Requests)
    BY <1>0 DEF Inv, TypeOK
  <2>2. Tail(lockQueue[c]) \in Seq(Requests)
    BY <1>0, <2>1, HeadTailProperties
  <2> QED BY <2>2 DEF TakeLock, Inv, TypeOK
<1>1. CASE /\ entry[c] = request[r].model
           /\ request' = [request EXCEPT ![r].pc = "storing", ![r].detector = entry[c]]
           /\ UNCHANGED <<holder, poolVars>>
  <2>q. /\ request'[r].pc = "storing" /\ request'[r].answer = request[r].answer
        /\ request'[r].model = request[r].model /\ request'[r].detector = request[r].model
        /\ \A q \in Requests \ {r} : request'[q] = request[q]
    BY <1>0, <1>1 DEF Inv, TypeOK, Request
  <2>1. TypeOK'
    <3>1. request' \in [Requests -> Request]
      BY <1>0, <1>1 DEF Inv, TypeOK, Request, Steps, Timed, Version
    <3> QED BY <1>1, <1>c, <3>1 DEF Inv, TypeOK, TakeLock, poolVars
  <2>2. SlotInv'
    BY <1>0, <2>q, SameHolders DEF Inv, HoldsSlot, Timed, TakeLock
  <2>3. RequestInv(r)'
    BY <1>0, <1>1, <2>q
    DEF RequestInv, Live, Presigning, HoldsSlot, Early, Timed, Scoring, TakeLock, poolVars
  <2> QED BY <1>0, <1>1, <1>a, <1>b, <2>q, <2>1, <2>2, <2>3, Frame DEF TakeLock, poolVars
<1>2. CASE /\ entry[c] # request[r].model
           /\ Go(r, "loading")
           /\ holder' = [holder EXCEPT ![c] = r]
           /\ Spawn(r)
  <2>q. /\ request'[r].pc = "loading" /\ request'[r].answer = request[r].answer
        /\ request'[r].model = request[r].model
        /\ \A q \in Requests \ {r} : request'[q] = request[q]
    BY <1>2, GoFields DEF Inv
  <2>t. /\ thread'[r] = "queued" /\ \A q \in Requests \ {r} : thread'[q] = thread[q]
        /\ thread' \in [Requests -> Threads] /\ poolQueue' \in Seq(Requests)
    BY <1>2, PoolType DEF Inv
  <2>h. /\ holder'[c] = r /\ \A d \in Categories \ {c} : holder'[d] = holder[d]
        /\ holder' \in [Categories -> Requests \cup {None}]
    BY <1>0, <1>2 DEF Inv, TypeOK
  <2>1. TypeOK'
    <3>1. request' \in [Requests -> Request]
      BY <1>2, GoType DEF Inv, Steps, Timed
    <3> QED BY <1>c, <2>t, <2>h, <3>1 DEF Inv, TypeOK, Threads, TakeLock
  <2>2. SlotInv'
    BY <1>0, <2>q, SameHolders DEF Inv, HoldsSlot, Timed, TakeLock
  <2>3. RequestInv(r)'
    BY <1>0, <1>2, <2>q, <2>t, <2>h
    DEF RequestInv, Live, Presigning, HoldsSlot, Early, Timed, Scoring, TakeLock
  <2>4. \A q \in Requests \ {r} : holder[CategoryOf[q]] = q =>
           holder'[CategoryOf[q]] = q /\ entry'[CategoryOf[q]] = entry[CategoryOf[q]]
    BY <1>0, <2>h, CategoryType, NamesAssumption DEF TakeLock
  <2>5. \A d \in Categories :
           \/ holder'[d] \in {None, holder[d]} \ {r}
           \/ /\ holder'[d] = r /\ CategoryOf[r] = d
              /\ request'[r].pc = "loading" /\ thread'[r] # "none"
    BY <1>b, <2>q, <2>t, <2>h
  <2> QED BY <1>0, <1>a, <2>q, <2>t, <2>1, <2>2, <2>3, <2>4, <2>5, Frame DEF TakeLock
<1> QED BY <1>1, <1>2 DEF TakeLock

LEMMA LoadedStep == ASSUME Inv, NEW r \in Requests, Loaded(r) PROVE Inv'
<1> DEFINE c == CategoryOf[r]
<1> USE DEF worldVars, slotVars
<1>0. /\ request[r] \in Request /\ request[r].pc = "loading" /\ RequestInv(r) /\ up
      /\ c \in Categories /\ holder[c] = r /\ request[r].model \in Versions
  BY IsUp, CategoryType DEF Inv, TypeOK, Loaded, RequestInv, Timed
<1>a. ~\E p \in predictions : p.of = r
  BY <1>0 DEF Inv, RowInv, Committed
<1>t. /\ thread'[r] = "none" /\ \A q \in Requests \ {r} : thread'[q] = thread[q]
      /\ thread' \in [Requests -> Threads] /\ poolQueue' \in Seq(Requests)
  BY PoolType DEF Inv, Loaded
<1>h. /\ holder'[c] = None /\ \A d \in Categories \ {c} : holder'[d] = holder[d]
      /\ holder' \in [Categories -> Requests \cup {None}]
  BY <1>0 DEF Inv, TypeOK, Loaded
<1>b. \A d \in Categories : holder'[d] \in {None, holder[d]} \ {r}
  BY <1>0, <1>h, NamesAssumption DEF Inv, LocksAreLive
<1>e. /\ \A d \in Categories \ {c} : entry'[d] = entry[d]
      /\ entry' \in [Categories -> Version]
  BY <1>0 DEF Inv, TypeOK, Loaded, Version
<1>o. \A q \in Requests \ {r} : holder[CategoryOf[q]] = q =>
         holder'[CategoryOf[q]] = q /\ entry'[CategoryOf[q]] = entry[CategoryOf[q]]
  BY <1>0, <1>h, <1>e, CategoryType
<1>q. /\ \/ /\ request'[r].pc = "storing" /\ request'[r].answer = request[r].answer
            /\ request'[r].model = request[r].model /\ request'[r].detector = request[r].model
         \/ request'[r].pc = "ending" /\ request'[r].answer = "error"
      /\ \A q \in Requests \ {r} : request'[q] = request[q]
  BY <1>0, EndFields DEF Inv, TypeOK, Request, Loaded
<1>1. TypeOK'
  <2>1. request' \in [Requests -> Request]
    <3>1. CASE End(r, "error")
      BY <3>1, EndType DEF Inv, Answers
    <3>2. CASE request' = [request EXCEPT ![r].pc = "storing",
                                          ![r].detector = request[r].model]
      BY <1>0, <3>2 DEF Inv, TypeOK, Request, Steps, Timed
    <3> QED BY <3>1, <3>2 DEF Loaded
  <2> QED BY <1>t, <1>h, <1>e, <2>1 DEF Inv, TypeOK, Threads, Loaded
<1>2. SlotInv'
  BY <1>0, <1>q, SameHolders DEF Inv, HoldsSlot, Timed, Loaded
<1>3. RequestInv(r)'
  BY <1>0, <1>q, <1>t DEF RequestInv, Live, Presigning, HoldsSlot, Early, Timed, Scoring, Loaded
<1> QED BY <1>0, <1>a, <1>b, <1>o, <1>q, <1>t, <1>1, <1>2, <1>3, Frame DEF Loaded

LEMMA StoreStep == ASSUME Inv, NEW r \in Requests, Store(r) PROVE Inv'
<1> USE DEF worldVars, slotVars, cacheVars
<1>0. /\ request[r] \in Request /\ request[r].pc = "storing" /\ RequestInv(r) /\ up
  BY IsUp DEF Inv, TypeOK, Store
<1>a. ~\E p \in predictions : p.of = r
  BY <1>0 DEF Inv, RowInv, Committed
<1>b. \A d \in Categories : holder[d] # r
  BY <1>0, NamesAssumption DEF Inv, LocksAreLive
<1>t. /\ Spawn(r) => thread'[r] = "queued"
      /\ Collect(r) => thread'[r] = "none"
      /\ \A q \in Requests \ {r} : thread'[q] = thread[q]
      /\ thread' \in [Requests -> Threads] /\ poolQueue' \in Seq(Requests)
  BY PoolType DEF Inv, Store
<1>q. /\ \/ /\ request'[r].pc \in {"storing", "scoring"}
            /\ request'[r].answer = request[r].answer
            /\ request'[r].model = request[r].model /\ request'[r].detector = request[r].detector
            /\ Spawn(r)
         \/ request'[r].pc = "ending" /\ request'[r].answer = "error" /\ Collect(r)
      /\ \A q \in Requests \ {r} : request'[q] = request[q]
  BY <1>0, EndFields, GoFields DEF Inv, Store
<1>1. TypeOK'
  <2>1. request' \in [Requests -> Request]
    BY GoType, EndType DEF Inv, TypeOK, Answers, Steps, Timed, Store
  <2> QED BY <1>t, <2>1 DEF Inv, TypeOK, Threads, Store
<1>2. SlotInv'
  BY <1>0, <1>q, SameHolders DEF Inv, HoldsSlot, Timed, Store
<1>3. RequestInv(r)'
  BY <1>0, <1>q, <1>t DEF RequestInv, Live, Presigning, HoldsSlot, Early, Timed, Scoring, Store
<1> QED BY <1>0, <1>a, <1>b, <1>q, <1>t, <1>1, <1>2, <1>3, Frame DEF Store

LEMMA ScoredStep == ASSUME Inv, NEW r \in Requests, Scored(r) PROVE Inv'
<1> USE DEF worldVars, slotVars, cacheVars
<1>0. /\ request[r] \in Request /\ request[r].pc = "scoring" /\ RequestInv(r) /\ up
  BY IsUp DEF Inv, TypeOK, Scored
<1>a. ~\E p \in predictions : p.of = r
  BY <1>0 DEF Inv, RowInv, Committed
<1>b. \A d \in Categories : holder[d] # r
  BY <1>0, NamesAssumption DEF Inv, LocksAreLive
<1>t. /\ thread'[r] = "none" /\ \A q \in Requests \ {r} : thread'[q] = thread[q]
      /\ thread' \in [Requests -> Threads] /\ poolQueue' \in Seq(Requests)
  BY PoolType DEF Inv, Scored
<1>q. /\ \/ /\ request'[r].pc = "recording" /\ request'[r].answer = request[r].answer
            /\ request'[r].model = request[r].model /\ request'[r].detector = request[r].detector
         \/ request'[r].pc = "ending" /\ request'[r].answer = "error"
      /\ \A q \in Requests \ {r} : request'[q] = request[q]
  BY <1>0, EndFields, GoFields DEF Inv, Scored
<1>1. TypeOK'
  <2>1. request' \in [Requests -> Request]
    BY GoType, EndType DEF Inv, Answers, Steps, Timed, Scored
  <2> QED BY <1>t, <2>1 DEF Inv, TypeOK, Threads, Scored
<1>2. SlotInv'
  BY <1>0, <1>q, SameHolders DEF Inv, HoldsSlot, Timed, Scored
<1>3. RequestInv(r)'
  BY <1>0, <1>q, <1>t DEF RequestInv, Live, Presigning, HoldsSlot, Early, Timed, Scoring, Scored
<1> QED BY <1>0, <1>a, <1>b, <1>q, <1>t, <1>1, <1>2, <1>3, Frame DEF Scored

LEMMA ReturnStep == ASSUME Inv, NEW r \in Requests, Return(r) PROVE Inv'
<1> USE DEF worldVars, slotVars, cacheVars
<1>0. /\ request[r] \in Request /\ request[r].pc = "recorded" /\ RequestInv(r) /\ up
      /\ HoldsSlot(r)
  BY IsUp DEF Inv, TypeOK, Return, HoldsSlot, Timed
<1>r. \E p \in predictions : p.of = r
  BY <1>0 DEF RequestInv
<1>b. \A d \in Categories : holder[d] # r
  BY <1>0, NamesAssumption DEF Inv, LocksAreLive
<1>w. request[r].answer = "none"
  BY <1>0 DEF RequestInv
<1>1. CASE ~request[r].heatmap /\ End(r, "ok") /\ UNCHANGED poolVars
  <2>q. /\ request'[r].pc = "ending" /\ request'[r].answer = "ok"
        /\ \A q \in Requests \ {r} : request'[q] = request[q]
    BY <1>1, EndFields DEF Inv
  <2>1. TypeOK'
    BY <1>1, EndType DEF Inv, TypeOK, Answers, Return, poolVars
  <2>2. SlotInv'
    BY <1>0, <2>q, SameHolders DEF Inv, HoldsSlot, Timed, Return
  <2>3. RequestInv(r)'
    BY <1>0, <1>1, <1>r, <2>q
    DEF RequestInv, Live, Presigning, HoldsSlot, Early, Timed, Scoring, Return, poolVars
  <2>4. Committed(r)'
    BY <2>q DEF Committed, Presigning
  <2> QED BY <1>0, <1>1, <1>b, <2>q, <2>1, <2>2, <2>3, <2>4, Frame DEF Return, poolVars
<1>2. CASE request[r].heatmap /\ Go(r, "presigning") /\ Spawn(r)
  <2>q. /\ request'[r].pc = "presigning" /\ request'[r].answer = "none"
        /\ request'[r].heatmap = TRUE
        /\ \A q \in Requests \ {r} : request'[q] = request[q]
    BY <1>0, <1>2, <1>w, GoFields DEF Inv, Request
  <2>t. /\ thread'[r] = "queued" /\ \A q \in Requests \ {r} : thread'[q] = thread[q]
        /\ thread' \in [Requests -> Threads] /\ poolQueue' \in Seq(Requests)
    BY <1>2, PoolType DEF Inv
  <2>1. TypeOK'
    <3>1. request' \in [Requests -> Request]
      BY <1>2, GoType DEF Inv, Steps
    <3> QED BY <2>t, <3>1 DEF Inv, TypeOK, Threads, Return
  <2>2. SlotInv'
    BY <1>0, <2>q, SameHolders DEF Inv, HoldsSlot, Timed, Return
  <2>3. RequestInv(r)'
    BY <1>0, <1>r, <2>q, <2>t
    DEF RequestInv, Live, Presigning, HoldsSlot, Early, Timed, Scoring, Return
  <2>4. Committed(r)'
    BY <2>q DEF Committed
  <2> QED BY <1>0, <1>b, <2>q, <2>t, <2>1, <2>2, <2>3, <2>4, Frame DEF Return
<1> QED BY <1>1, <1>2 DEF Return

LEMMA PresignedStep == ASSUME Inv, NEW r \in Requests, Presigned(r) PROVE Inv'
<1> USE DEF worldVars, slotVars, cacheVars
<1>0. /\ request[r] \in Request /\ request[r].pc = "presigning" /\ RequestInv(r) /\ up
      /\ HoldsSlot(r)
  BY IsUp DEF Inv, TypeOK, Presigned, Presigning, HoldsSlot
<1>r. (\E p \in predictions : p.of = r) /\ request[r].heatmap
  BY <1>0 DEF Inv, RequestInv, RowInv, Committed, Presigning
<1>b. \A d \in Categories : holder[d] # r
  BY <1>0, NamesAssumption DEF Inv, LocksAreLive
<1>t. /\ thread'[r] = "none" /\ \A q \in Requests \ {r} : thread'[q] = thread[q]
      /\ thread' \in [Requests -> Threads] /\ poolQueue' \in Seq(Requests)
  BY PoolType DEF Inv, Presigned
<1>q. /\ request'[r].pc = "ending" /\ request'[r].answer \in {"ok", "error"}
      /\ request'[r].heatmap = request[r].heatmap
      /\ \A q \in Requests \ {r} : request'[q] = request[q]
  BY EndFields DEF Inv, Presigned
<1>1. TypeOK'
  <2>1. request' \in [Requests -> Request]
    BY EndType DEF Inv, Answers, Presigned
  <2> QED BY <1>t, <2>1 DEF Inv, TypeOK, Threads, Presigned
<1>2. SlotInv'
  BY <1>0, <1>q, SameHolders DEF Inv, HoldsSlot, Timed, Presigned
<1>3. RequestInv(r)'
  BY <1>0, <1>r, <1>q, <1>t
  DEF RequestInv, Live, Presigning, HoldsSlot, Early, Timed, Scoring, Presigned
<1>4. Committed(r)'
  BY <1>r, <1>q DEF Committed
<1> QED BY <1>0, <1>b, <1>q, <1>t, <1>1, <1>2, <1>3, <1>4, Frame DEF Presigned

LEMMA RecordStep == ASSUME Inv, NEW r \in Requests, Record(r) PROVE Inv'
<1> DEFINE row == [of |-> r, model |-> request[r].model, detector |-> request[r].detector]
<1> USE DEF worldVars, slotVars, cacheVars
<1>0. /\ request[r] \in Request /\ request[r].pc = "recording" /\ RequestInv(r) /\ up
      /\ request[r].model \in Versions /\ request[r].detector = request[r].model
      /\ request[r].model \in seen[r] /\ HoldsSlot(r) /\ request[r].answer = "none"
  BY IsUp DEF Inv, TypeOK, Record, RequestInv, Scoring, HoldsSlot, Timed
<1>b. \A d \in Categories : holder[d] # r
  BY <1>0, NamesAssumption DEF Inv, LocksAreLive
<1>a. ~\E p \in predictions : p.of = r
  BY <1>0 DEF Inv, RowInv, Committed
<1>t. /\ Spawn(r) => thread'[r] = "queued"
      /\ Collect(r) => thread'[r] = "none"
      /\ \A q \in Requests \ {r} : thread'[q] = thread[q]
      /\ thread' \in [Requests -> Threads] /\ poolQueue' \in Seq(Requests)
  BY PoolType DEF Inv, Record, StoreHeatmap
<1>f. failures' \in 0..MaxFailures
  BY SizesAssumption DEF Inv, TypeOK, Failing, Record
<1>1. CASE Collect(r) /\ End(r, "error") /\ UNCHANGED predictions
  <2>q. /\ request'[r].pc = "ending" /\ request'[r].answer = "error"
        /\ \A q \in Requests \ {r} : request'[q] = request[q]
    BY <1>1, EndFields DEF Inv
  <2>1. TypeOK'
    <3>1. request' \in [Requests -> Request]
      BY <1>1, EndType DEF Inv, Answers
    <3> QED BY <1>1, <1>t, <1>f, <3>1 DEF Inv, TypeOK, Threads, Record
  <2>2. SlotInv'
    BY <1>0, <2>q, SameHolders DEF Inv, HoldsSlot, Timed, Record
  <2>3. RequestInv(r)'
    BY <1>0, <1>1, <1>t, <2>q
    DEF RequestInv, Live, Presigning, HoldsSlot, Early, Timed, Scoring, Record
  <2> QED BY <1>0, <1>1, <1>a, <1>b, <1>t, <2>q, <2>1, <2>2, <2>3, Frame DEF Record
<1>2. CASE Collect(r) /\ predictions' = predictions \cup {row} /\ Go(r, "recorded")
  <2>q. /\ request'[r].pc = "recorded" /\ request'[r].answer = request[r].answer
        /\ request'[r].model = request[r].model /\ request'[r].detector = request[r].detector
        /\ \A q \in Requests \ {r} : request'[q] = request[q]
    BY <1>2, GoFields DEF Inv
  <2>1. TypeOK'
    <3>1. request' \in [Requests -> Request]
      BY <1>2, GoType DEF Inv, Steps, Timed
    <3>2. row \in Prediction
      BY <1>0 DEF Prediction
    <3> QED BY <1>2, <1>t, <1>f, <3>1, <3>2 DEF Inv, TypeOK, Threads, Record
  <2>2. SlotInv'
    BY <1>0, <2>q, SameHolders DEF Inv, HoldsSlot, Timed, Record
  <2>3. ASSUME NEW q \in Requests PROVE RequestInv(q)'
    <3>0. row \in predictions' /\ row.of = r
      BY <1>2
    <3>r. \E p \in predictions' : p.of = r
      BY <3>0
    <3>1. CASE q = r
      BY <1>0, <1>2, <1>t, <2>q, <3>1, <3>r
      DEF RequestInv, Live, Presigning, HoldsSlot, Early, Timed, Scoring, Record
    <3>2. CASE q # r
      BY <1>2, <1>t, <2>q, <3>2, OthersKeep DEF Record
    <3> QED BY <3>1, <3>2
  <2>4. RowInv'
    <3>1. ASSUME NEW p \in predictions' PROVE
            /\ p.detector = p.model
            /\ HoldsSlot(p.of)' => p.model \in seen'[p.of]
            /\ Committed(p.of)'
      <4>1. CASE p = row
        <5>1. p.of = r /\ p.model = request[r].model /\ p.detector = request[r].detector
          BY <4>1
        <5>2. seen' = seen
          BY DEF Record
        <5> QED BY <1>0, <2>q, <5>1, <5>2 DEF Committed, Presigning
      <4>2. CASE p \in predictions
        <5>1. p.of \in Requests \ {r}
          BY <1>a, <4>2 DEF Inv, TypeOK, Prediction
        <5> QED BY <2>q, <4>2, <5>1 DEF Inv, RowInv, Committed, Presigning, HoldsSlot, Record
      <4> QED BY <1>2, <4>1, <4>2
    <3> QED BY <3>1 DEF RowInv, Committed, Presigning, HoldsSlot
  <2>5. LocksAreLive'
    BY <1>b, <1>t, <2>q DEF Inv, LocksAreLive, TypeOK, Record
  <2>6. UpInv'
    BY <1>0 DEF UpInv, Record
  <2> QED BY <2>1, <2>2, <2>3, <2>4, <2>5, <2>6 DEF Inv
<1>3. CASE /\ Spawn(r) /\ request' = [request EXCEPT ![r].heatmap = TRUE]
           /\ UNCHANGED predictions
  <2>q. /\ request'[r].pc = "recording" /\ request'[r].answer = request[r].answer
        /\ request'[r].model = request[r].model /\ request'[r].detector = request[r].detector
        /\ \A q \in Requests \ {r} : request'[q] = request[q]
    BY <1>0, <1>3 DEF Inv, TypeOK, Request
  <2>1. TypeOK'
    <3>1. request' \in [Requests -> Request]
      BY <1>0, <1>3 DEF Inv, TypeOK, Request
    <3> QED BY <1>3, <1>t, <1>f, <3>1 DEF Inv, TypeOK, Threads, Record
  <2>2. SlotInv'
    BY <1>0, <2>q, SameHolders DEF Inv, HoldsSlot, Timed, Record
  <2>3. RequestInv(r)'
    BY <1>0, <1>3, <1>t, <2>q
    DEF RequestInv, Live, Presigning, HoldsSlot, Early, Timed, Scoring, Record
  <2> QED BY <1>0, <1>3, <1>a, <1>b, <1>t, <2>q, <2>1, <2>2, <2>3, Frame DEF Record
<1> QED BY <1>1, <1>2, <1>3 DEF Record, StoreHeatmap

\* The timeout: what a request that is no longer served keeps is its running thread.
LEMMA TimeOutStep == ASSUME Inv, NEW r \in Requests, TimeOut(r) PROVE Inv'
<1> DEFINE c == CategoryOf[r]
<1> USE DEF worldVars, slotVars
<1>0. /\ request[r] \in Request /\ request[r].pc \in Timed /\ RequestInv(r) /\ up
      /\ c \in Categories /\ HoldsSlot(r)
  <2>1. request[r].pc \in Timed
    BY DEF TimeOut
  <2>2. request[r].pc # "new"
    BY <2>1 DEF Timed
  <2> QED BY <2>1, <2>2, IsUp, CategoryType DEF Inv, TypeOK, HoldsSlot
<1>q. /\ request'[r].pc = "ending" /\ request'[r].answer = "timeout"
      /\ \A q \in Requests \ {r} : request'[q] = request[q]
  BY EndFields DEF Inv, TimeOut
<1>h. /\ holder' \in [Categories -> Requests \cup {None}]
      /\ holder'[c] = (IF holder[c] = r THEN None ELSE holder[c])
      /\ \A d \in Categories \ {c} : holder'[d] = holder[d]
  BY <1>0 DEF Inv, TypeOK, TimeOut
<1>b. \A d \in Categories : holder'[d] \in {None, holder[d]} \ {r}
  <2>1. \A d \in Categories : holder[d] = r => d = c
    BY NamesAssumption DEF Inv, LocksAreLive
  <2> QED BY <1>0, <1>h, <2>1, NamesAssumption
<1>o. \A q \in Requests \ {r} : holder[CategoryOf[q]] = q =>
         holder'[CategoryOf[q]] = q /\ entry'[CategoryOf[q]] = entry[CategoryOf[q]]
  BY <1>0, <1>h, CategoryType DEF TimeOut
<1>t. /\ thread' \in [Requests -> Threads]
      /\ thread'[r] \in {"none", "running"}
      /\ \A q \in Requests \ {r} : thread'[q] = thread[q]
  <2>1. thread \in [Requests -> Threads]
    BY DEF Inv, TypeOK, Threads
  <2>2. thread' = [thread EXCEPT ![r] = IF thread[r] = "running" THEN thread[r] ELSE "none"]
    BY DEF TimeOut
  <2> QED BY <2>1, <2>2 DEF Threads
<1>1. TypeOK'
  <2>1. request' \in [Requests -> Request]
    BY EndType DEF Inv, Answers, TimeOut
  <2>2. lockQueue' \in [Categories -> Seq(Requests)]
    <3>1. lockQueue \in [Categories -> Seq(Requests)]
      BY DEF Inv, TypeOK
    <3>2. Drop(lockQueue[c], r) \in Seq(Requests)
      BY <1>0, <3>1, DropType
    <3>3. lockQueue' = [lockQueue EXCEPT ![c] = Drop(lockQueue[c], r)]
      BY DEF TimeOut
    <3> QED BY <3>1, <3>2, <3>3
  <2> QED BY <1>t, <1>h, <2>1, <2>2 DEF Inv, TypeOK, Threads, TimeOut
<1>2. SlotInv'
  BY <1>0, <1>q, SameHolders DEF Inv, HoldsSlot, TimeOut
<1>3. RequestInv(r)'
  BY <1>0, <1>q, <1>t DEF RequestInv, Live, Presigning, HoldsSlot, Early, Timed, Scoring, TimeOut
<1>4. Committed(r)'
  BY <1>q DEF Committed, Presigning
<1> QED BY <1>0, <1>b, <1>o, <1>q, <1>t, <1>1, <1>2, <1>3, <1>4, Frame DEF TimeOut

\* A step of the pool changes a thread only: what it leaves of the invariant.
LEMMA PoolFrame ==
    ASSUME Inv, NEW r \in Requests, TypeOK', RequestInv(r)',
           UNCHANGED <<up, production, request, freeSlots, entry, holder, predictions, seen>>,
           \A q \in Requests \ {r} : thread'[q] = thread[q],
           thread[r] # "none" /\ request[r].pc = "loading" => thread'[r] # "none"
    PROVE  Inv'
<1>1. ASSUME NEW q \in Requests PROVE RequestInv(q)'
  <2>1. CASE q = r
    BY <2>1
  <2>2. CASE q # r
    BY <2>2, OthersKeep
  <2> QED BY <2>1, <2>2
<1>2. RowInv'
  BY DEF Inv, RowInv, Committed, Presigning, HoldsSlot
<1>3. LocksAreLive'
  <2>1. ASSUME NEW c \in Categories, holder[c] # None
        PROVE  /\ CategoryOf[holder[c]] = c /\ request[holder[c]].pc = "loading"
               /\ thread'[holder[c]] # "none"
    <3>1. holder[c] \in Requests
      BY <2>1 DEF Inv, TypeOK
    <3>2. /\ CategoryOf[holder[c]] = c /\ request[holder[c]].pc = "loading"
          /\ thread[holder[c]] # "none"
      BY <2>1 DEF Inv, LocksAreLive
    <3>3. CASE holder[c] = r
      BY <3>2, <3>3
    <3>4. CASE holder[c] # r
      BY <3>1, <3>2, <3>4
    <3> QED BY <3>2, <3>3, <3>4
  <2> QED BY <2>1 DEF LocksAreLive
<1>4. UpInv'
  BY DEF Inv, UpInv
<1>5. SlotInv'
  BY SameHolders DEF Inv, HoldsSlot
<1> QED BY <1>1, <1>2, <1>3, <1>4, <1>5 DEF Inv

LEMMA StartThreadStep == ASSUME Inv, StartThread PROVE Inv'
<1>0. poolQueue \in Seq(Requests) /\ poolQueue # <<>> /\ thread \in [Requests -> Threads]
  BY DEF Inv, TypeOK, Threads, StartThread
<1>g. Head(poolQueue) \in Requests /\ Tail(poolQueue) \in Seq(Requests)
  BY <1>0, HeadTailProperties
<1>h. PICK r \in Requests : r = Head(poolQueue)
  BY <1>g
<1>t. thread' = [thread EXCEPT ![r] = IF thread[r] = "queued" THEN "running" ELSE thread[r]]
  BY <1>h DEF StartThread
<1>a. /\ \/ thread'[r] = thread[r]
         \/ thread[r] = "queued" /\ thread'[r] = "running"
      /\ \A q \in Requests \ {r} : thread'[q] = thread[q]
      /\ thread' \in [Requests -> Threads]
  BY <1>0, <1>h, <1>t DEF Threads
<1>b. /\ UNCHANGED <<up, production, request, freeSlots, entry, holder, predictions, seen>>
      /\ UNCHANGED <<changes, slotQueue, lockQueue, failures>> /\ poolQueue' = Tail(poolQueue)
  BY DEF StartThread, worldVars, slotVars, cacheVars
<1>1. TypeOK'
  BY <1>a, <1>b, <1>g DEF Inv, TypeOK, Threads
<1>2. RequestInv(r)'
  BY <1>a, <1>b DEF Inv, RequestInv, Live, Presigning, HoldsSlot, Early, Timed
<1> QED BY <1>1, <1>2, <1>a, <1>b, PoolFrame

LEMMA EndThreadStep == ASSUME Inv, NEW r \in Requests, EndThread(r) PROVE Inv'
<1>0. thread \in [Requests -> Threads] /\ thread[r] = "running" /\ RequestInv(r)
  BY DEF Inv, TypeOK, Threads, EndThread
<1>a. /\ \/ Live(r) /\ thread'[r] \in {"returned", "raised"}
         \/ ~Live(r) /\ thread'[r] = "none"
      /\ \A q \in Requests \ {r} : thread'[q] = thread[q]
      /\ thread' \in [Requests -> Threads]
  BY <1>0 DEF Threads, EndThread
<1>b. /\ UNCHANGED <<up, production, request, freeSlots, entry, holder, predictions, seen>>
      /\ UNCHANGED <<changes, slotQueue, lockQueue, poolQueue>>
  BY DEF EndThread, worldVars, slotVars, cacheVars
<1>f. failures' \in 0..MaxFailures
  BY SizesAssumption DEF Inv, TypeOK, EndThread, Failing
<1>1. TypeOK'
  BY <1>a, <1>b, <1>f DEF Inv, TypeOK, Threads
<1>2. RequestInv(r)'
  BY <1>0, <1>a, <1>b DEF RequestInv, Live, Presigning, HoldsSlot, Early, Timed, Live
<1>3. request[r].pc = "loading" => thread'[r] # "none"
  BY <1>a DEF Live, Timed
<1> QED BY <1>1, <1>2, <1>3, <1>a, <1>b, PoolFrame

\* The slot is given back.
LEMMA FinishStep == ASSUME Inv, NEW r \in Requests, Finish(r) PROVE Inv'
<1> USE DEF worldVars, cacheVars, poolVars
<1>0. /\ request[r] \in Request /\ request[r].pc = "ending" /\ RequestInv(r) /\ up
      /\ HoldsSlot(r)
  BY IsUp DEF Inv, TypeOK, Finish, HoldsSlot
<1>b. \A d \in Categories : holder[d] # r
  BY <1>0, NamesAssumption DEF Inv, LocksAreLive
<1>q. /\ request'[r] = [Blank EXCEPT !.pc = "done"]
      /\ \A q \in Requests \ {r} : request'[q] = request[q] /\ seen'[q] = seen[q]
  BY DEF Inv, TypeOK, Finish
<1>r. request'[r].pc = "done" /\ request'[r].answer = "none"
  BY <1>q DEF Blank
<1>2. SlotInv'
  BY <1>0, <1>q, <1>r, HolderRemoved DEF Inv, HoldsSlot, Timed, Finish
<1>1. TypeOK'
  <2>1. request' \in [Requests -> Request]
    BY <1>0 DEF Inv, TypeOK, Request, Steps, Blank, Version, Finish
  <2>2. freeSlots' \in 0..Slots
    <3>1. freeSlots \in Nat /\ freeSlots' = freeSlots + 1
      BY SizesAssumption DEF Inv, TypeOK, Finish
    <3>2. freeSlots' \in Int
      BY <3>1
    <3>3. freeSlots' <= Slots
      <4>1. Holders' \subseteq Requests
        BY DEF Holders
      <4>2. Cardinality(Holders') \in Nat
        BY <4>1, NamesAssumption, FS_Subset, FS_CardinalityType
      <4>3. freeSlots' + Cardinality(Holders') = Slots
        BY <1>2 DEF SlotInv
      <4> QED BY <3>2, <4>2, <4>3, SizesAssumption
    <3> QED BY <3>1, <3>3, SizesAssumption
  <2>3. seen' \in [Requests -> SUBSET Versions]
    BY DEF Inv, TypeOK, Finish
  <2> QED BY <2>1, <2>2, <2>3 DEF Inv, TypeOK, Finish
<1>3. RequestInv(r)'
  BY <1>0, <1>q, <1>r DEF RequestInv, Live, Presigning, HoldsSlot, Early, Timed, Scoring, Finish
<1>4. Committed(r)' /\ ~HoldsSlot(r)'
  BY <1>r DEF Committed, Presigning, HoldsSlot, Timed
<1> QED BY <1>0, <1>b, <1>q, <1>1, <1>2, <1>3, <1>4, Frame DEF Finish

\* Some step is taken, or nothing changes.
LEMMA NextInv == ASSUME Inv, [Next]_vars PROVE Inv'
<1>1. CASE WarmUp
  BY <1>1, WarmUpStep
<1>2. CASE StartThread
  BY <1>2, StartThreadStep
<1>3. ASSUME NEW c \in Categories, Promote(c) PROVE Inv'
  BY <1>3, PromoteStep
<1>4. ASSUME NEW r \in Requests, Arrive(r) \/ TakeSlot(r) \/ Guard(r) PROVE Inv'
  BY <1>4, ArriveStep, TakeSlotStep, GuardStep
<1>5. ASSUME NEW r \in Requests, Serve(r) PROVE Inv'
  BY <1>5, ResolveStep, TakeLockStep, LoadedStep, StoreStep, ScoredStep, RecordStep,
     ReturnStep, PresignedStep DEF Serve
<1>6. ASSUME NEW r \in Requests, TimeOut(r) \/ EndThread(r) \/ Finish(r) PROVE Inv'
  BY <1>6, TimeOutStep, EndThreadStep, FinishStep
<1>7. CASE UNCHANGED vars
  BY <1>7 DEF vars, Inv, TypeOK, RequestInv, Live, Presigning, HoldsSlot, RowInv, Committed,
              LocksAreLive, UpInv, SlotInv, Holders
<1> QED BY <1>1, <1>2, <1>3, <1>4, <1>5, <1>6, <1>7 DEF Next

\* The invariant holds in every reachable state of the process.
THEOREM InvCorrect == Spec => []Inv
BY InitInv, NextInv, PTL DEF Spec

-----------------------------------------------------------------------------
(* What follows *)

\* Requests, locks, slots, threads and rows keep their types; in particular the semaphore
\* never has more free slots than it was made with (dependencies.py, model_cache.py).
THEOREM TypeCorrect == Spec => []TypeOK
<1>1. Inv => TypeOK
  BY DEF Inv
<1> QED BY <1>1, InvCorrect, PTL

\* Recorded predictions were scored by the version they name, which was in production while
\* the request was served, and answers tell whether there is one (PredictImage.execute_batch).
THEOREM AnswersTellTheTruth == Spec => []AnswersAreTrue
<1>1. Inv => AnswersAreTrue
  BY DEF Inv, RequestInv, RowInv, Committed, AnswersAreTrue
<1> QED BY <1>1, InvCorrect, PTL

\* A lock is held only by a request that is served and whose load is under way
\* (ModelCache.get).
THEOREM LocksStayLive == Spec => []LocksAreLive
<1>1. Inv => LocksAreLive
  BY DEF Inv
<1> QED BY <1>1, InvCorrect, PTL

\* The calls of requests that are still served never exhaust a pool that has as many threads
\* as there are slots: each such call belongs to a request that holds one of them
\* (acquire_prediction_slot).
LEMMA SlotsBoundThePool == ASSUME Inv PROVE DelaysComeFromAbandoned
<1> SUFFICES ASSUME PoolSize >= Slots, Cardinality(Running) = PoolSize,
                    NEW r \in Requests, thread[r] = "queued",
                    \A q \in Requests : ~Abandoned(q)
             PROVE  FALSE
  BY DEF DelaysComeFromAbandoned
<1>1. Running \subseteq Requests /\ r \notin Running
  BY DEF Running
<1>2. Running \cup {r} \subseteq Holders
  <2>1. \A q \in Running : HoldsSlot(q)
    BY <1>1 DEF Running, Abandoned, Live, Presigning, HoldsSlot
  <2>2. HoldsSlot(r)
    BY DEF Inv, RequestInv, Live, Presigning, HoldsSlot
  <2> QED BY <1>1, <2>1, <2>2 DEF Holders
<1>3. IsFiniteSet(Running)
  BY <1>1, NamesAssumption, FS_Subset
<1>4. Cardinality(Running \cup {r}) = PoolSize + 1
  BY <1>1, <1>3, FS_AddElement
<1>5. Cardinality(Running \cup {r}) <= Cardinality(Holders)
  BY <1>2, HoldersFinite, FS_Subset
<1>6. Cardinality(Holders) <= Slots
  BY HoldersFinite, SizesAssumption DEF Inv, TypeOK, SlotInv
<1> QED BY <1>4, <1>5, <1>6, HoldersFinite, SizesAssumption

\* A full pool is full of what timed-out requests have left, for any number of threads and
\* slots (acquire_prediction_slot, predict.py).
THEOREM SlotsKeepThePoolFree == Spec => []DelaysComeFromAbandoned
BY SlotsBoundThePool, InvCorrect, PTL

\* No load that the cache already has the answer to is completed (ModelCache.get).
THEOREM NoReloadIsWasted == Spec => NoRedundantReload
<1>1. Inv /\ [Next]_vars =>
        [\A r \in Requests :
           request[r].pc = "loading" /\ request'[r].pc = "storing"
              => entry[CategoryOf[r]] # request[r].model]_vars
  BY DEF Inv, RequestInv
<1> QED BY <1>1, InvCorrect, PTL DEF Spec, NoRedundantReload
-----------------------------------------------------------------------------
(* Turns: why a request that waits for a slot comes to its end.  Somebody always has a slot or
   can take one, whoever has one is at most four stages from giving it back, and nobody
   who comes later is served before. *)

\* Those who wait for a slot are in the queue, once each, and nobody else is.
QueueInv ==
    /\ \A i \in 1..Len(slotQueue) : request[slotQueue[i]].pc = "slot"
    /\ \A i, j \in 1..Len(slotQueue) : slotQueue[i] = slotQueue[j] => i = j
    /\ \A r \in Requests :
         request[r].pc = "slot" => \E i \in 1..Len(slotQueue) : slotQueue[i] = r

Before(q, r) ==
    \E i, j \in 1..Len(slotQueue) : i < j /\ slotQueue[i] = q /\ slotQueue[j] = r
Ahead(r) == {q \in Requests : Before(q, r)}

\* How far a request is from its end.
Stage(r) ==
    CASE request[r].pc = "new" -> 6
      [] request[r].pc = "slot" -> 5
      [] request[r].pc = "guard" -> 4
      [] request[r].pc \in Timed -> 3
      [] request[r].pc = "presigning" -> 2
      [] request[r].pc = "ending" -> 1
      [] OTHER -> 0

\* While a request waits, the first in the queue can take a slot or somebody has one.
Served ==
    \A r \in Requests : request[r].pc = "slot" =>
        \/ freeSlots > 0 /\ request[Head(slotQueue)].pc = "slot"
        \/ \E q \in Requests : HoldsSlot(q)

\* Nobody goes back, and the steps that fairness obliges lead on; nobody joins those ahead of
\* a request that waits, and one who takes a slot leaves them.
InTurn ==
    /\ \A r \in Requests :
         /\ Stage(r)' <= Stage(r)
         /\ TakeSlot(r) \/ Guard(r) \/ TimeOut(r) \/ Presigned(r) \/ Finish(r)
              => Stage(r)' < Stage(r)
    /\ \A r \in Requests : request[r].pc = "slot" /\ request'[r].pc = "slot" =>
         /\ Ahead(r)' \subseteq Ahead(r)
         /\ \A q \in Requests : TakeSlot(q) => q \in Ahead(r) \ Ahead(r)'

\* A step of a request that is past the queue.
PastTheQueue(r) ==
    /\ slotQueue' = slotQueue
    /\ \A q \in Requests \ {r} : request'[q] = request[q]
    /\ request[r].pc \notin {"new", "slot"} /\ request'[r].pc \notin {"new", "slot"}
    /\ Stage(r)' <= Stage(r)

LEMMA GuardPasses ==
    ASSUME Inv, NEW r \in Requests, Guard(r)
    PROVE  PastTheQueue(r) /\ Stage(r)' < Stage(r)
<1> TypeOK /\ request[r].pc = "guard" /\ slotQueue' = slotQueue
  BY DEF Inv, Guard, slotVars
<1>1. CASE End(r, "refused")
  BY <1>1, EndFields DEF PastTheQueue, Stage, Timed
<1>2. CASE Go(r, "resolve")
  BY <1>2, GoFields DEF PastTheQueue, Stage, Timed
<1> QED BY <1>1, <1>2 DEF Guard

\* While it is timed a request stays so, or leaves for the signing of its heatmap, or ends.
LEMMA TimedSteps ==
    ASSUME TypeOK, NEW r \in Requests, request[r].pc \in Timed, slotQueue' = slotQueue,
           \/ \E step \in Timed \cup {"presigning"} : Go(r, step)
           \/ \E answer \in Answers : End(r, answer)
           \/ UNCHANGED request
    PROVE  PastTheQueue(r)
<1>1. ASSUME NEW step \in Timed \cup {"presigning"}, Go(r, step) PROVE PastTheQueue(r)
  BY <1>1, GoFields DEF PastTheQueue, Stage, Timed
<1>2. ASSUME NEW answer \in Answers, End(r, answer) PROVE PastTheQueue(r)
  BY <1>2, EndFields DEF PastTheQueue, Stage, Timed
<1>3. CASE UNCHANGED request
  BY <1>3 DEF PastTheQueue, Stage, Timed
<1> QED BY <1>1, <1>2, <1>3

LEMMA PresignedPasses ==
    ASSUME Inv, NEW r \in Requests, Presigned(r)
    PROVE  PastTheQueue(r) /\ Stage(r)' < Stage(r)
<1>1. /\ request[r].pc = "presigning" /\ slotQueue' = slotQueue /\ request'[r].pc = "ending"
      /\ \A q \in Requests \ {r} : request'[q] = request[q]
  BY EndFields DEF Inv, Presigned, Presigning, slotVars
<1> QED BY <1>1 DEF PastTheQueue, Stage, Timed

LEMMA ServePasses == ASSUME Inv, NEW r \in Requests, Serve(r) PROVE PastTheQueue(r)
<1>0. TypeOK /\ request \in [Requests -> Request]
  BY DEF Inv, TypeOK
<1>1. CASE Resolve(r)
  <2>1. request[r].pc = "resolve" /\ slotQueue' = slotQueue
    BY <1>1 DEF Resolve, slotVars
  <2>2. CASE End(r, "rejected")
    BY <1>0, <2>1, <2>2, EndFields DEF PastTheQueue, Stage, Timed
  <2>3. CASE ~End(r, "rejected")
    <3>1. request'[r].pc = "lock" /\ \A q \in Requests \ {r} : request'[q] = request[q]
      BY <1>0, <1>1, <2>3 DEF Resolve, Request
    <3> QED BY <2>1, <3>1 DEF PastTheQueue, Stage, Timed
  <2> QED BY <2>2, <2>3
<1>2. CASE TakeLock(r)
  <2>1. request[r].pc = "lock" /\ slotQueue' = slotQueue
    BY <1>2 DEF TakeLock, slotVars
  <2>2. /\ request'[r].pc \in {"storing", "loading"}
        /\ \A q \in Requests \ {r} : request'[q] = request[q]
    BY <1>0, <1>2 DEF TakeLock, Go, Request
  <2> QED BY <2>1, <2>2 DEF PastTheQueue, Stage, Timed
<1>3. CASE Loaded(r)
  <2>1. request[r].pc = "loading" /\ slotQueue' = slotQueue
    BY <1>3 DEF Loaded, slotVars
  <2>2. /\ request'[r].pc \in {"storing", "ending"}
        /\ \A q \in Requests \ {r} : request'[q] = request[q]
    BY <1>0, <1>3 DEF Loaded, End, Request
  <2> QED BY <2>1, <2>2 DEF PastTheQueue, Stage, Timed
<1>4. CASE Store(r)
  BY <1>0, <1>4, TimedSteps DEF Store, slotVars, Timed, Answers
<1>5. CASE Scored(r)
  BY <1>0, <1>5, TimedSteps DEF Scored, slotVars, Timed, Answers
<1>6. CASE Record(r)
  <2>1. request[r].pc = "recording" /\ slotQueue' = slotQueue
    BY <1>6 DEF Record, slotVars
  <2>2. /\ request'[r].pc \in {"recording", "recorded", "ending"}
        /\ \A q \in Requests \ {r} : request'[q] = request[q]
    BY <1>0, <1>6 DEF Record, StoreHeatmap, Go, End, Request
  <2> QED BY <2>1, <2>2 DEF PastTheQueue, Stage, Timed
<1>7. CASE Return(r)
  BY <1>0, <1>7, TimedSteps DEF Return, slotVars, Timed, Answers
<1>8. CASE Presigned(r)
  BY <1>8, PresignedPasses
<1> QED BY <1>1, <1>2, <1>3, <1>4, <1>5, <1>6, <1>7, <1>8 DEF Serve

LEMMA TimeOutPasses ==
    ASSUME Inv, NEW r \in Requests, TimeOut(r)
    PROVE  PastTheQueue(r) /\ Stage(r)' < Stage(r)
BY EndFields DEF Inv, TimeOut, slotVars, PastTheQueue, Stage, Timed

LEMMA FinishPasses ==
    ASSUME Inv, NEW r \in Requests, Finish(r)
    PROVE  PastTheQueue(r) /\ Stage(r)' < Stage(r)
<1>1. /\ request[r].pc = "ending" /\ slotQueue' = slotQueue /\ request'[r].pc = "done"
      /\ \A q \in Requests \ {r} : request'[q] = request[q]
  BY DEF Inv, TypeOK, Finish, Blank
<1> QED BY <1>1 DEF PastTheQueue, Stage, Timed

\* What such a step, and one that moves no request, leaves of the queue.
LEMMA QueueKept ==
    ASSUME Inv, QueueInv, slotQueue' = slotQueue,
           \A r \in Requests : request'[r].pc = "slot" <=> request[r].pc = "slot"
    PROVE  QueueInv' /\ \A r \in Requests : Ahead(r)' = Ahead(r)
<1>1. \A i \in 1..Len(slotQueue) : slotQueue[i] \in Requests
  BY ElementOfSeq DEF Inv, TypeOK
<1>2. QueueInv'
  BY <1>1 DEF QueueInv
<1> QED BY <1>2 DEF Ahead, Before

LEMMA ArriveQueues ==
    ASSUME Inv, QueueInv, NEW r \in Requests, Arrive(r)
    PROVE  /\ QueueInv'
           /\ \A q \in Requests : Stage(q)' <= Stage(q)
           /\ \A q \in Requests : request[q].pc = "slot" => Ahead(q)' \subseteq Ahead(q)
<1> DEFINE n == Len(slotQueue)
<1>0. slotQueue \in Seq(Requests) /\ slotQueue' = Append(slotQueue, r)
  BY DEF Inv, TypeOK, Arrive
<1>1. /\ n \in Nat /\ Len(slotQueue') = n + 1 /\ slotQueue'[n + 1] = r
      /\ \A i \in 1..n : slotQueue'[i] = slotQueue[i]
  BY <1>0, AppendProperties, LenProperties
<1>2. /\ request[r].pc = "new" /\ request'[r].pc = "slot"
      /\ \A q \in Requests \ {r} : request'[q] = request[q]
  BY GoFields DEF Inv, Arrive
<1>3. \A i \in 1..n : slotQueue[i] \in Requests \ {r}
  BY <1>0, <1>2, ElementOfSeq DEF QueueInv
<1>n. \A i \in 1..(n + 1) : i \in 1..n \/ i = n + 1
  BY <1>1
<1> HIDE DEF n
<1>4. QueueInv'
  <2>1. \A i \in 1..Len(slotQueue') : request'[slotQueue'[i]].pc = "slot"
    BY <1>1, <1>2, <1>3, <1>n DEF QueueInv, n
  <2>2. \A i, j \in 1..Len(slotQueue') : slotQueue'[i] = slotQueue'[j] => i = j
    BY <1>1, <1>3, <1>n DEF QueueInv, n
  <2>3. \A q \in Requests : request'[q].pc = "slot" =>
           \E i \in 1..Len(slotQueue') : slotQueue'[i] = q
    <3> SUFFICES ASSUME NEW q \in Requests, request'[q].pc = "slot"
                 PROVE  \E i \in 1..(n + 1) : slotQueue'[i] = q
      BY <1>1
    <3>1. CASE q = r
      BY <1>1, <3>1
    <3>2. CASE q # r
      <4>1. PICK i \in 1..n : slotQueue[i] = q
        BY <1>2, <3>2 DEF QueueInv, n
      <4> QED BY <1>1, <4>1
    <3> QED BY <3>1, <3>2
  <2> QED BY <2>1, <2>2, <2>3 DEF QueueInv
<1>5. ASSUME NEW q \in Requests, request[q].pc = "slot", NEW p \in Ahead(q)'
      PROVE  p \in Ahead(q)
  <2>1. PICK i, j \in 1..(n + 1) : i < j /\ slotQueue'[i] = p /\ slotQueue'[j] = q
    BY <1>1, <1>5 DEF Ahead, Before
  <2>2. j \in 1..n
    BY <1>1, <1>2, <1>5, <1>n, <2>1
  <2>3. i \in 1..n
    BY <1>1, <2>1, <2>2
  <2> QED BY <1>1, <1>5, <2>1, <2>2, <2>3 DEF Ahead, Before, n
<1>6. \A q \in Requests : Stage(q)' <= Stage(q)
  <2>1. Stage(r)' <= Stage(r)
    BY <1>2 DEF Stage, Timed
  <2>2. \A q \in Requests \ {r} : Stage(q)' = Stage(q) /\ Stage(q) \in Nat
    BY <1>2 DEF Stage
  <2> QED BY <2>1, <2>2
<1> QED BY <1>4, <1>5, <1>6

\* The first of the queue takes a slot: he was ahead of all who still wait.
LEMMA TakeSlotServes ==
    ASSUME Inv, QueueInv, NEW r \in Requests, TakeSlot(r)
    PROVE  /\ QueueInv'
           /\ Stage(r)' < Stage(r) /\ \A q \in Requests : Stage(q)' <= Stage(q)
           /\ \A q \in Requests : Ahead(q)' \subseteq Ahead(q)
           /\ \A q \in Requests : request'[q].pc = "slot" => r \in Ahead(q) \ Ahead(q)'
<1> DEFINE n == Len(slotQueue)
<1>0. /\ slotQueue \in Seq(Requests) /\ slotQueue # <<>> /\ slotQueue' = Tail(slotQueue)
      /\ r = Head(slotQueue)
  BY DEF Inv, TypeOK, TakeSlot
<1>1. /\ n \in Nat \ {0} /\ slotQueue[1] = r /\ Len(slotQueue') = n - 1
      /\ \A i \in 1..(n - 1) : slotQueue'[i] = slotQueue[i + 1]
  BY <1>0, HeadTailProperties, LenProperties
<1>2. /\ request[r].pc = "slot" /\ request'[r].pc = "guard"
      /\ \A q \in Requests \ {r} : request'[q] = request[q]
  BY GoFields DEF Inv, TakeSlot
<1>3. \A i \in 1..n : slotQueue[i] \in Requests
  BY <1>0, ElementOfSeq
<1> HIDE DEF n
<1>n. \A i \in 1..(n - 1) : i + 1 \in 1..n /\ i + 1 # 1
  BY <1>1
<1>u. \A i, j \in 1..n : slotQueue[i] = slotQueue[j] => i = j
  BY DEF QueueInv, n
<1>r. \A i \in 1..(n - 1) : slotQueue'[i] \in Requests \ {r}
  BY <1>1, <1>3, <1>n, <1>u
<1>4. QueueInv'
  <2>1. \A i \in 1..Len(slotQueue') : request'[slotQueue'[i]].pc = "slot"
    <3> SUFFICES ASSUME NEW i \in 1..(n - 1) PROVE request'[slotQueue'[i]].pc = "slot"
      BY <1>1
    <3>1. request[slotQueue[i + 1]].pc = "slot"
      BY <1>n DEF QueueInv, n
    <3> QED BY <1>1, <1>2, <1>r, <3>1
  <2>2. \A i, j \in 1..Len(slotQueue') : slotQueue'[i] = slotQueue'[j] => i = j
    <3> SUFFICES ASSUME NEW i \in 1..(n - 1), NEW j \in 1..(n - 1),
                        slotQueue'[i] = slotQueue'[j]
                 PROVE  i = j
      BY <1>1
    <3>1. i + 1 = j + 1
      BY <1>1, <1>n, <1>u
    <3> QED BY <1>1, <3>1
  <2>3. \A q \in Requests : request'[q].pc = "slot" =>
           \E i \in 1..Len(slotQueue') : slotQueue'[i] = q
    <3> SUFFICES ASSUME NEW q \in Requests, request'[q].pc = "slot"
                 PROVE  \E i \in 1..(n - 1) : slotQueue'[i] = q
      BY <1>1
    <3>1. q # r /\ request[q].pc = "slot"
      BY <1>2
    <3>2. PICK i \in 1..n : slotQueue[i] = q
      BY <3>1 DEF QueueInv, n
    <3>3. i - 1 \in 1..(n - 1) /\ (i - 1) + 1 = i
      BY <1>1, <3>1, <3>2
    <3> QED BY <1>1, <3>2, <3>3
  <2> QED BY <2>1, <2>2, <2>3 DEF QueueInv
<1>5. ASSUME NEW q \in Requests, NEW p \in Ahead(q)' PROVE p \in Ahead(q) /\ p # r
  <2>1. PICK i, j \in 1..(n - 1) : i < j /\ slotQueue'[i] = p /\ slotQueue'[j] = q
    BY <1>1, <1>5 DEF Ahead, Before
  <2>2. slotQueue[i + 1] = p /\ slotQueue[j + 1] = q /\ i + 1 < j + 1
    BY <1>1, <2>1
  <2> QED BY <1>n, <1>r, <1>5, <2>1, <2>2 DEF Ahead, Before, n
<1>6. ASSUME NEW q \in Requests, request'[q].pc = "slot" PROVE r \in Ahead(q)
  <2>1. PICK j \in 1..n : slotQueue[j] = q
    BY <1>2, <1>6 DEF QueueInv, n
  <2>2. 1 \in 1..n /\ 1 < j
    BY <1>1, <1>2, <1>6, <2>1
  <2> QED BY <1>1, <2>1, <2>2 DEF Ahead, Before, n
<1>7. Stage(r)' < Stage(r) /\ \A q \in Requests : Stage(q)' <= Stage(q)
  <2>1. Stage(r)' = 4 /\ Stage(r) = 5
    BY <1>2 DEF Stage, Timed
  <2>2. \A q \in Requests \ {r} : Stage(q)' = Stage(q) /\ Stage(q) \in Nat
    BY <1>2 DEF Stage
  <2> QED BY <2>1, <2>2
<1> QED BY <1>4, <1>5, <1>6, <1>7

LEMMA StepKeepsTheQueue ==
    ASSUME Inv, QueueInv, [Next]_vars
    PROVE  /\ QueueInv'
           /\ \A q \in Requests : Stage(q)' <= Stage(q)
           /\ \A q \in Requests : request[q].pc = "slot" => Ahead(q)' \subseteq Ahead(q)
<1> DEFINE Keeps ==
             /\ QueueInv'
             /\ \A q \in Requests : Stage(q)' <= Stage(q)
             /\ \A q \in Requests :
                  request[q].pc = "slot" => Ahead(q)' \subseteq Ahead(q)
<1>s. \A q \in Requests : Stage(q) \in Nat
  BY DEF Stage
<1>1. CASE UNCHANGED <<request, slotQueue>>
  <2>1. \A q \in Requests : Stage(q)' = Stage(q)
    BY <1>1 DEF Stage
  <2> QED BY <1>1, <1>s, <2>1, QueueKept
<1>2. ASSUME NEW r \in Requests, PastTheQueue(r) PROVE Keeps
  <2>1. \A q \in Requests : request'[q].pc = "slot" <=> request[q].pc = "slot"
    BY <1>2 DEF PastTheQueue
  <2>2. \A q \in Requests \ {r} : Stage(q)' = Stage(q)
    BY <1>2 DEF PastTheQueue, Stage
  <2> QED BY <1>2, <1>s, <2>1, <2>2, QueueKept DEF PastTheQueue
<1>3. ASSUME NEW r \in Requests, Arrive(r) \/ TakeSlot(r) PROVE Keeps
  BY <1>3, ArriveQueues, TakeSlotServes
<1>4. CASE WarmUp \/ StartThread \/ \E c \in Categories : Promote(c)
  BY <1>1, <1>4 DEF WarmUp, StartThread, Promote, slotVars
<1>5. ASSUME NEW r \in Requests, EndThread(r) PROVE Keeps
  BY <1>1, <1>5 DEF EndThread, slotVars
<1>6. ASSUME NEW r \in Requests, Guard(r) \/ Serve(r) \/ TimeOut(r) \/ Finish(r) PROVE Keeps
  BY <1>2, <1>6, GuardPasses, ServePasses, TimeOutPasses, FinishPasses
<1>7. CASE UNCHANGED vars
  BY <1>1, <1>7 DEF vars
<1> QED BY <1>3, <1>4, <1>5, <1>6, <1>7 DEF Next

LEMMA StepInTurn == ASSUME Inv, QueueInv, [Next]_vars PROVE InTurn
<1>1. \A r \in Requests :
         TakeSlot(r) \/ Guard(r) \/ TimeOut(r) \/ Presigned(r) \/ Finish(r)
            => Stage(r)' < Stage(r)
  BY TakeSlotServes, GuardPasses, TimeOutPasses, PresignedPasses, FinishPasses
<1>2. \A q, r \in Requests : TakeSlot(q) /\ request'[r].pc = "slot" => q \in Ahead(r) \ Ahead(r)'
  BY TakeSlotServes
<1> QED BY <1>1, <1>2, StepKeepsTheQueue DEF InTurn

\* Slots that nobody has are free, and the queue of one who waits has a first.
LEMMA SomebodyIsServed == ASSUME Inv, QueueInv PROVE Served
<1> SUFFICES ASSUME NEW r \in Requests, request[r].pc = "slot",
                    \A q \in Requests : ~HoldsSlot(q)
             PROVE  freeSlots > 0 /\ request[Head(slotQueue)].pc = "slot"
  BY DEF Served
<1>1. Holders = {}
  BY DEF Holders
<1>2. freeSlots = Slots
  <2>1. freeSlots \in Nat
    BY SizesAssumption DEF Inv, TypeOK
  <2> QED BY <1>1, <2>1, FS_EmptySet, SizesAssumption DEF Inv, SlotInv
<1>3. slotQueue \in Seq(Requests) /\ Len(slotQueue) \in Nat
  BY LenProperties DEF Inv, TypeOK
<1>4. PICK i \in 1..Len(slotQueue) : slotQueue[i] = r
  BY DEF QueueInv
<1>5. 1 \in 1..Len(slotQueue)
  BY <1>3, <1>4
<1>6. Head(slotQueue) = slotQueue[1]
  BY <1>3
<1> QED BY <1>2, <1>5, <1>6, SizesAssumption DEF QueueInv

\* While a request waits for a slot, one is free for the first in the queue or somebody has
\* one; no request goes back, and each of TakeSlot, Guard, TimeOut, Presigned and Finish leads
\* it on; nobody overtakes one who waits.  So whoever waits is answered once these steps are
\* taken.  Of them Presigned alone waits for a thread, as no timeout covers it
\* (acquire_prediction_slot, predict.py).
THEOREM SlotsAreServedInTurn == Spec => [](QueueInv /\ Served) /\ [][InTurn]_vars
<1>1. Init => QueueInv
  BY DEF Init, Blank, QueueInv
<1>2. Inv /\ QueueInv /\ [Next]_vars => QueueInv' /\ InTurn
  BY StepKeepsTheQueue, StepInTurn
<1>3. Inv /\ QueueInv => Served
  BY SomebodyIsServed
<1> QED BY <1>1, <1>2, <1>3, InvCorrect, PTL DEF Spec
==============================================================================
