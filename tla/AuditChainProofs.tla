-------------------------- MODULE AuditChainProofs --------------------------
(***************************************************************************)
(* What AuditChain guarantees for any set of writers and any bounds: the    *)
(* log keeps its promise (AppendOnlyLog), verify_chain reports exactly the  *)
(* numbering gaps, and append() refuses only events that are really stale.  *)
(***************************************************************************)
EXTENDS AuditChain, SequenceTheorems, TLAPS

\* A lock holder's rows are the only uncommitted ones.
LockOK == \A w \in Writers :
    /\ pending[w] # << >> => chainLock = w
    /\ pc[w] = "idle" => pending[w] = << >>
    /\ pc[w] = "appended" => pending[w] # << >>

\* What each transaction sees is a linked chain, numbered below the identity column.
ViewOK == \A w \in Writers :
    /\ Linked(View(w))
    /\ \A i \in 1..Len(View(w)) : View(w)[i].seq < nextSeq

\* An event built from the head is current, or a commit has overtaken it.
HeadOK == \A w \in Writers : pc[w] = "read" =>
    \/ event[w] = EventAfter(View(w))
    \/ /\ pending[w] = << >>
       /\ log # << >>
       /\ LastOf(log).seq >= event[w].sequence

\* The inductive invariant.
IInv == TypeOK /\ LockOK /\ ViewOK /\ HeadOK

-----------------------------------------------------------------------------
\* The head of a list of rows yields a well-formed event (AuditEvent.__post_init__).
LEMMA EventAfterType ==
    ASSUME NEW rows \in Seq(Row)
    PROVE  EventAfter(rows) \in Event
<1>1. CASE rows = << >>
  <2>1. GenesisHash \in Digest
    BY EmptySeq DEF GenesisHash, Digest
  <2>2. QED
    BY <1>1, <2>1 DEF EventAfter, Event
<1>2. CASE rows # << >>
  <2>1. Len(rows) \in Nat /\ Len(rows) >= 1
    BY <1>2, EmptySeq
  <2>2. LastOf(rows) \in Row
    BY <2>1, ElementOfSeq DEF LastOf
  <2>3. LastOf(rows).prev \in Digest /\ LastOf(rows).seq \in Nat \ {0}
        /\ LastOf(rows).body \in Writers
    BY <2>2 DEF Row
  <2>4. RowHash(LastOf(rows)) \in Digest
    BY <2>3, AppendProperties DEF RowHash, Digest
  <2>5. QED
    BY <1>2, <2>3, <2>4 DEF EventAfter, Event
<1>3. QED
  BY <1>1, <1>2

\* Identity values are positive numbers.
LEMMA RowSeqs ==
    ASSUME NEW rows \in Seq(Row)
    PROVE  \A i \in 1..Len(rows) : rows[i].seq \in Nat \ {0}
<1>1. \A i \in 1..Len(rows) : rows[i] \in Row
  BY ElementOfSeq
<1>2. QED
  BY <1>1 DEF Row

\* A linked list stays linked when a row built from its head and numbered above it is added.
LEMMA LinkedAppend ==
    ASSUME NEW rows \in Seq(Row), Linked(rows),
           NEW r \in Row, r.prev = EventAfter(rows).prev,
           \A i \in 1..Len(rows) : rows[i].seq < r.seq
    PROVE  Linked(Append(rows, r))
<1> DEFINE new == Append(rows, r)
<1>1. /\ new \in Seq(Row)
      /\ Len(new) = Len(rows) + 1
      /\ Len(rows) \in Nat
      /\ \A i \in 1..Len(rows) : new[i] = rows[i]
      /\ new[Len(rows) + 1] = r
  BY AppendProperties, LenProperties
<1>2. CASE rows = << >>
  <2>1. r.prev = GenesisHash /\ Len(rows) = 0
    BY <1>2 DEF EventAfter
  <2>2. QED
    BY <1>1, <2>1 DEF Linked
<1>3. CASE rows # << >>
  <2>1. Len(rows) >= 1
    BY <1>3, EmptySeq
  <2>2. r.prev = RowHash(rows[Len(rows)])
    BY <1>3 DEF EventAfter, LastOf
  <2>3. new[1].prev = GenesisHash
    BY <1>1, <1>3, <2>1 DEF Linked
  <2>4. ASSUME NEW i \in 2..Len(new)
        PROVE  /\ new[i].prev = RowHash(new[i - 1])
               /\ \A j \in 1..(i - 1) : new[i].seq > new[j].seq
    <3>1. CASE i = Len(rows) + 1
      <4>1. \A j \in 1..Len(rows) : rows[j].seq \in Nat
        BY RowSeqs
      <4>2. r.seq \in Nat
        BY DEF Row
      <4>3. new[i] = r /\ new[i - 1] = rows[Len(rows)]
        BY <3>1, <1>1, <2>1
      <4>4. \A j \in 1..(i - 1) : new[j] = rows[j] /\ rows[j].seq < r.seq
        BY <3>1, <1>1
      <4>5. QED
        BY <3>1, <1>1, <4>1, <4>2, <4>3, <4>4, <2>2
    <3>2. CASE i # Len(rows) + 1
      <4>1. i \in 2..Len(rows) /\ i - 1 \in 1..Len(rows) /\ i \in 1..Len(rows)
        BY <3>2, <1>1
      <4>2. new[i] = rows[i] /\ \A j \in 1..(i - 1) : new[j] = rows[j]
        BY <4>1, <1>1
      <4>3. rows[i].prev = RowHash(rows[i - 1]) /\ \A j \in 1..(i - 1) : rows[i].seq > rows[j].seq
        BY <4>1 DEF Linked
      <4>4. QED
        BY <4>1, <4>2, <4>3
    <3>3. QED
      BY <3>1, <3>2
  <2>5. QED
    BY <2>3, <2>4 DEF Linked
<1>4. QED
  BY <1>2, <1>3

\* A prefix of a linked list is linked.
LEMMA LinkedPrefix ==
    ASSUME NEW s \in Seq(Row), NEW t \in Seq(Row), Linked(s \o t)
    PROVE  Linked(s)
<1>1. /\ Len(s) \in Nat /\ Len(t) \in Nat
      /\ Len(s \o t) = Len(s) + Len(t)
      /\ \A i \in 1..Len(s) : (s \o t)[i] = s[i]
  BY ConcatProperties, LenProperties
<1>2. s # << >> => Len(s) >= 1 /\ s \o t # << >>
  BY EmptySeq, <1>1, ConcatEqualIffEmpty, LenProperties, ConcatSimplifications
<1>3. s # << >> => s[1].prev = GenesisHash
  BY <1>1, <1>2 DEF Linked
<1>4. ASSUME NEW i \in 2..Len(s)
      PROVE  s[i].prev = RowHash(s[i - 1]) /\ \A j \in 1..(i - 1) : s[i].seq > s[j].seq
  <2>1. i \in 2..Len(s \o t) /\ i \in 1..Len(s) /\ i - 1 \in 1..Len(s)
    BY <1>1
  <2>2. (s \o t)[i] = s[i] /\ \A j \in 1..(i - 1) : (s \o t)[j] = s[j]
    BY <2>1, <1>1
  <2>3. QED
    BY <2>1, <2>2 DEF Linked
<1>5. QED
  BY <1>3, <1>4 DEF Linked

\* Every list of rows a transaction sees is well formed.
LEMMA ViewType ==
    ASSUME TypeOK, NEW w \in Writers
    PROVE  View(w) \in Seq(Row) /\ log \in Seq(Row) /\ pending[w] \in Seq(Row)
BY ConcatProperties DEF TypeOK, View

\* An event the re-check accepts was built from the head as it stands.
LEMMA AcceptedIsCurrent ==
    ASSUME IInv, NEW w \in Writers, pc[w] = "read", HeadMatches(event[w], View(w))
    PROVE  event[w] = EventAfter(View(w))
<1>1. CASE View(w) # << >>
  BY <1>1 DEF HeadMatches
<1>2. CASE View(w) = << >>
  <2>1. log = << >>
    BY <1>2, ViewType, ConcatEqualIffEmpty, ConcatSimplifications DEF IInv, View
  <2>2. QED
    BY <2>1 DEF IInv, HeadOK
<1>3. QED
  BY <1>1, <1>2

\* Every step keeps the types: TypeOK is inductive by itself.
LEMMA TypeStep == TypeOK /\ [Next]_vars => TypeOK'
<1> SUFFICES ASSUME TypeOK, [Next]_vars PROVE TypeOK'
  OBVIOUS
<1>1. ASSUME NEW w \in Writers, ReadLatest(w) PROVE TypeOK'
  <2>1. EventAfter(View(w)) \in Event
    BY ViewType, EventAfterType
  <2>2. QED
    BY <1>1, <2>1 DEF ReadLatest, TypeOK
<1>2. ASSUME NEW w \in Writers, AppendEvent(w) PROVE TypeOK'
  <2> DEFINE r == NewRow(w)
  <2> USE DEF NewRow
  <2>1. r \in Row
    BY DEF TypeOK, Event, Row
  <2>2. Append(pending[w], r) \in Seq(Row)
    BY <2>1, AppendProperties DEF TypeOK
  <2>3. pending' = [pending EXCEPT ![w] = Append(pending[w], r)]
    BY <1>2 DEF AppendEvent, TypeOK
  <2>4. pending' \in [Writers -> Seq(Row)]
    BY <2>2, <2>3 DEF TypeOK
  <2>5. QED
    BY <1>2, <2>4 DEF AppendEvent, TypeOK
<1>3. ASSUME NEW w \in Writers, Close(w), log' = log PROVE TypeOK'
  BY <1>3, EmptySeq DEF Close, TypeOK
<1>4. ASSUME NEW w \in Writers, Commit(w) PROVE TypeOK'
  <2>1. log' \in Seq(Row)
    BY <1>4, ViewType, ConcatProperties DEF Commit
  <2>2. QED
    BY <1>4, <2>1, EmptySeq DEF Commit, Close, TypeOK
<1>5. CASE UNCHANGED vars
  BY <1>5 DEF vars, TypeOK
<1>6. QED
  BY <1>1, <1>2, <1>3, <1>4, <1>5 DEF Next, RefuseEvent, RollBack

-----------------------------------------------------------------------------
\* Appending to the right part of a concatenation appends to the whole.
LEMMA ConcatAppend ==
    ASSUME NEW s \in Seq(Row), NEW t \in Seq(Row), NEW r \in Row
    PROVE  s \o Append(t, r) = Append(s \o t, r)
<1>1. <<r>> \in Seq(Row)
  BY AppendProperties, EmptySeq
<1>2. s \o t \in Seq(Row)
  BY ConcatProperties
<1>3. \A u \in Seq(Row) : (s \o t) \o u = s \o (t \o u)
  BY ConcatAssociative
<1>4. Append(t, r) = t \o <<r>> /\ Append(s \o t, r) = (s \o t) \o <<r>>
  BY <1>2, AppendIsConcat
<1>5. QED
  BY <1>1, <1>3, <1>4

\* A row inserted by a transaction is the last one it sees.
LEMMA ViewAppend ==
    ASSUME TypeOK, NEW w \in Writers, NEW r \in Row
    PROVE  log \o Append(pending[w], r) = Append(View(w), r)
  BY ViewType, ConcatAppend DEF View

\* The empty log, and transactions that have not begun, satisfy the invariant.
LEMMA InvInit == Init => IInv
<1> SUFFICES ASSUME Init PROVE IInv
  OBVIOUS
<1>1. TypeOK
  <2>1. << >> \in Seq(Row) /\ EventAfter(<< >>) \in Event
    BY EmptySeq, EventAfterType
  <2>2. QED
    BY <2>1 DEF Init, TypeOK
<1>2. \A w \in Writers : View(w) = << >>
  BY EmptySeq, ConcatEmptySeq DEF Init, View
<1>3. Linked(<< >>) /\ Len(<< >>) = 0
  BY EmptySeq DEF Linked
<1>4. ViewOK
  BY <1>2, <1>3 DEF ViewOK
<1>5. LockOK /\ HeadOK
  BY DEF Init, LockOK, HeadOK
<1>6. QED
  BY <1>1, <1>4, <1>5 DEF IInv

\* Reading the head changes only the event, which is then current.
LEMMA InvReadLatest ==
    ASSUME IInv, TypeOK', NEW w \in Writers, ReadLatest(w)
    PROVE  IInv'
<1>1. \A v \in Writers : View(v)' = View(v)
  BY DEF ReadLatest, View
<1>2. LockOK'
  BY DEF ReadLatest, LockOK, IInv, TypeOK
<1>3. ViewOK'
  BY <1>1 DEF ReadLatest, ViewOK, IInv, Linked
<1>4. ASSUME NEW v \in Writers, pc'[v] = "read"
      PROVE  \/ event'[v] = EventAfter(View(v))
             \/ pending[v] = << >> /\ log # << >> /\ LastOf(log).seq >= event'[v].sequence
  <2>1. CASE v = w
    BY <2>1 DEF ReadLatest, IInv, TypeOK
  <2>2. CASE v # w
    BY <1>4, <2>2 DEF ReadLatest, IInv, TypeOK, HeadOK
  <2>3. QED
    BY <2>1, <2>2
<1>5. HeadOK'
  BY <1>1, <1>4 DEF HeadOK, ReadLatest, EventAfter, LastOf, RowHash
<1>6. QED
  BY <1>2, <1>3, <1>5 DEF IInv

\* An append extends the writer's own view by a linked row numbered above the others.
LEMMA InvAppendEvent ==
    ASSUME IInv, TypeOK', NEW w \in Writers, AppendEvent(w)
    PROVE  IInv'
<1> DEFINE r == NewRow(w)
<1> USE DEF NewRow
<1>1. r \in Row /\ nextSeq \in Nat
  BY DEF IInv, TypeOK, Event, Row
<1>2. pending' = [pending EXCEPT ![w] = Append(pending[w], r)]
  BY DEF AppendEvent, IInv, TypeOK
<1>3. View(w)' = Append(View(w), r)
  BY <1>1, <1>2, ViewAppend DEF IInv, TypeOK, View, AppendEvent
<1>4. \A v \in Writers \ {w} : View(v)' = View(v)
  BY <1>2 DEF IInv, TypeOK, View, AppendEvent
<1>5. View(w) \in Seq(Row) /\ Linked(View(w)) /\ \A i \in 1..Len(View(w)) : View(w)[i].seq < nextSeq
  BY ViewType DEF IInv, ViewOK
<1>6. event[w] = EventAfter(View(w))
  BY AcceptedIsCurrent DEF AppendEvent
<1>7. Linked(Append(View(w), r))
  BY <1>1, <1>5, <1>6, LinkedAppend
<1>8. LockOK'
  <2>1. Append(pending[w], r) # << >>
    <3>1. pending[w] \in Seq(Row)
      BY DEF IInv, TypeOK
    <3> HIDE DEF r
    <3>2. QED
      BY <1>1, <3>1, AppendProperties
  <2>2. \A v \in Writers : v # w => pending[v] = << >>
    BY WritersAssumption DEF IInv, LockOK, AppendEvent, MayLock
  <2>3. QED
    BY <1>2, <2>1, <2>2 DEF IInv, LockOK, AppendEvent, TypeOK
<1>9. ViewOK'
  <2>1. ASSUME NEW v \in Writers, v # w
        PROVE  Linked(View(v)) /\ \A i \in 1..Len(View(v)) : View(v)[i].seq < nextSeq + 1
    <3>1. View(v) \in Seq(Row)
      BY ViewType DEF IInv
    <3>2. \A i \in 1..Len(View(v)) : View(v)[i].seq \in Nat
      BY <3>1, RowSeqs
    <3>3. QED
      BY <3>2, <1>1 DEF IInv, ViewOK
  <2>2. \A i \in 1..Len(Append(View(w), r)) : Append(View(w), r)[i].seq < nextSeq + 1
    <3>1. \A i \in 1..Len(View(w)) : View(w)[i].seq \in Nat
      BY <1>5, RowSeqs
    <3>2. QED
      BY <3>1, <1>1, <1>5, AppendProperties, LenProperties
  <2>3. nextSeq' = nextSeq + 1
    BY DEF AppendEvent
  <2>4. ASSUME NEW v \in Writers
        PROVE  Linked(View(v)') /\ \A i \in 1..Len(View(v)') : View(v)'[i].seq < nextSeq'
    <3>1. CASE v = w
      BY <3>1, <1>3, <1>7, <2>2, <2>3
    <3>2. CASE v # w
      BY <3>2, <1>4, <2>1, <2>3
    <3>3. QED
      BY <3>1, <3>2
  <2>5. QED
    BY <2>4 DEF ViewOK, Linked, RowHash
<1>10. HeadOK'
  <2>1. ASSUME NEW v \in Writers, pc'[v] = "read"
        PROVE  v # w /\ pc[v] = "read" /\ event'[v] = event[v] /\ pending'[v] = pending[v]
    BY <2>1 DEF AppendEvent, IInv, TypeOK
  <2>2. log' = log
    BY DEF AppendEvent
  <2>3. ASSUME NEW v \in Writers, pc'[v] = "read"
        PROVE  \/ event'[v] = EventAfter(View(v)')
               \/ pending'[v] = << >> /\ log' # << >> /\ LastOf(log').seq >= event'[v].sequence
    BY <1>4, <2>1, <2>2, <2>3 DEF IInv, HeadOK
  <2>4. QED
    BY <2>3 DEF HeadOK, EventAfter, LastOf, RowHash
<1>11. QED
  BY <1>8, <1>9, <1>10 DEF IInv

\* Rolling back leaves the committed log, a prefix of the view, to everyone.
LEMMA InvRollBack ==
    ASSUME IInv, TypeOK', NEW w \in Writers, Close(w), log' = log
    PROVE  IInv'
<1>1. /\ pending' = [pending EXCEPT ![w] = << >>]
      /\ \A v \in Writers \ {w} : pending'[v] = pending[v] /\ View(v)' = View(v)
      /\ pending'[w] = << >>
  BY DEF Close, IInv, TypeOK, View
<1>2. View(w)' = log
  BY <1>1, ConcatEmptySeq DEF View, IInv, TypeOK
<1>3. LockOK'
  BY <1>1 DEF Close, IInv, LockOK, TypeOK
<1>4. Linked(log) /\ \A i \in 1..Len(log) : log[i].seq < nextSeq
  <2>1. /\ log \in Seq(Row) /\ pending[w] \in Seq(Row)
        /\ Linked(log \o pending[w])
        /\ \A i \in 1..Len(log \o pending[w]) : (log \o pending[w])[i].seq < nextSeq
    BY ViewType DEF IInv, ViewOK, View
  <2>2. \A i \in 1..Len(log) : /\ i \in 1..Len(log \o pending[w])
                              /\ (log \o pending[w])[i] = log[i]
    BY <2>1, ConcatProperties, LenProperties
  <2>3. QED
    BY <2>1, <2>2, LinkedPrefix
<1>5. ViewOK'
  <2>1. ASSUME NEW v \in Writers
        PROVE  Linked(View(v)') /\ \A i \in 1..Len(View(v)') : View(v)'[i].seq < nextSeq'
    <3>1. CASE v = w
      BY <3>1, <1>2, <1>4 DEF Close
    <3>2. CASE v # w
      BY <3>2, <1>1 DEF Close, IInv, ViewOK
    <3>3. QED
      BY <3>1, <3>2
  <2>2. QED
    BY <2>1 DEF ViewOK, Linked, RowHash
<1>6. HeadOK'
  <2>1. ASSUME NEW v \in Writers, pc'[v] = "read"
        PROVE  v # w /\ pc[v] = "read" /\ event'[v] = event[v]
    BY <2>1 DEF Close, IInv, TypeOK
  <2>2. ASSUME NEW v \in Writers, pc'[v] = "read"
        PROVE  \/ event'[v] = EventAfter(View(v)')
               \/ pending'[v] = << >> /\ log' # << >> /\ LastOf(log').seq >= event'[v].sequence
    BY <2>1, <2>2, <1>1 DEF IInv, HeadOK
  <2>3. QED
    BY <2>2 DEF HeadOK, EventAfter, LastOf, RowHash
<1>7. QED
  BY <1>3, <1>5, <1>6 DEF IInv

\* A commit makes the writer's view the log; nobody else has uncommitted rows, and an
\* event built from the old head is now overtaken.
LEMMA InvCommit ==
    ASSUME IInv, TypeOK', NEW w \in Writers, Commit(w)
    PROVE  IInv'
<1>1. pending[w] # << >> /\ \A v \in Writers \ {w} : pending[v] = << >>
  BY WritersAssumption DEF Commit, IInv, LockOK
<1>2. \A v \in Writers : pending'[v] = << >>
  BY <1>1 DEF Commit, Close, IInv, TypeOK
<1>3. log' = View(w) /\ log' \in Seq(Row)
  BY ViewType DEF Commit, View, IInv
<1>4. \A v \in Writers : View(v)' = log'
  BY <1>2, <1>3, ConcatEmptySeq DEF View
<1>5. LockOK'
  BY <1>1, <1>2 DEF Commit, Close, IInv, LockOK, TypeOK
<1>6. ViewOK'
  <2>1. ASSUME NEW v \in Writers
        PROVE  Linked(View(v)') /\ \A i \in 1..Len(View(v)') : View(v)'[i].seq < nextSeq'
    BY <1>3, <1>4 DEF IInv, ViewOK, Commit, Close
  <2>2. QED
    BY <2>1 DEF ViewOK, Linked, RowHash
<1>7. ASSUME NEW v \in Writers, pc'[v] = "read"
      PROVE  pending'[v] = << >> /\ log' # << >> /\ LastOf(log').seq >= event'[v].sequence
  <2>1. v # w /\ pc[v] = "read" /\ event'[v] = event[v]
    BY <1>7 DEF Commit, Close, IInv, TypeOK
  <2>2. /\ log \in Seq(Row) /\ pending[w] \in Seq(Row)
        /\ Len(log) \in Nat /\ Len(pending[w]) \in Nat /\ Len(pending[w]) >= 1
        /\ log' = log \o pending[w]
    BY <1>1, <1>3, EmptySeq, LenProperties, ViewType DEF IInv, View
  <2>3. /\ Len(log') = Len(log) + Len(pending[w])
        /\ \A i \in 1..Len(log) : log'[i] = log[i]
    BY <2>2, ConcatProperties
  <2>4. log' # << >>
    BY <2>2, <2>3, EmptySeq
  <2>5. \A i \in 1..Len(log') : log'[i].seq \in Nat \ {0}
    BY <1>3, RowSeqs
  <2>6. LastOf(log').seq \in Nat \ {0}
    <3>1. Len(log') \in 1..Len(log')
      BY <2>2, <2>3
    <3>2. QED
      BY <3>1, <2>5 DEF LastOf
  <2>7. event[v].sequence \in Nat
    BY DEF IInv, TypeOK, Event
  <2>8. LastOf(log').seq >= event[v].sequence
    <3>1. CASE log = << >>
      <4>1. View(v) = << >>
        BY <2>1, <1>1, <3>1, ConcatEmptySeq, EmptySeq DEF View
      <4>2. event[v] = EventAfter(View(v))
        BY <2>1, <3>1 DEF IInv, HeadOK
      <4>3. event[v].sequence = 1
        BY <4>1, <4>2 DEF EventAfter
      <4>4. QED
        BY <4>3, <2>6
    <3>2. CASE log # << >>
      <4>1. Len(log) >= 1
        BY <3>2, <2>2, EmptySeq
      <4>2. LastOf(log).seq \in Nat /\ LastOf(log) = log'[Len(log)]
        BY <4>1, <2>2, <2>3, RowSeqs DEF LastOf
      <4>3. event[v].sequence <= LastOf(log).seq + 1
        <5>1. View(v) = log
          BY <2>1, <1>1, <2>2, ConcatEmptySeq DEF View
        <5>2. CASE event[v] = EventAfter(View(v))
          BY <5>1, <5>2, <3>2, <4>2 DEF EventAfter
        <5>3. CASE LastOf(log).seq >= event[v].sequence
          BY <5>3, <2>7, <4>2
        <5>4. QED
          BY <2>1, <5>2, <5>3 DEF IInv, HeadOK
      <4>4. LastOf(log').seq > LastOf(log).seq
        <5>1. /\ Linked(log')
              /\ Len(log') \in Nat
              /\ Len(log) \in 1..Len(log')
              /\ Len(log) < Len(log')
          <6>1. Linked(View(w))
            BY DEF IInv, ViewOK
          <6>2. QED
            BY SMTT(60), <1>3, <2>2, <2>3, <4>1, <6>1
        <5>2. Len(log') \in 2..Len(log') /\ Len(log) \in 1..(Len(log') - 1)
          BY <5>1
        <5>3. log'[Len(log')].seq > log'[Len(log)].seq
          BY <5>1, <5>2 DEF Linked
        <5>4. QED
          BY <5>3, <4>2 DEF LastOf
      <4>5. QED
        BY <4>2, <4>3, <4>4, <2>6, <2>7
    <3>3. QED
      BY <3>1, <3>2
  <2>9. QED
    BY <1>2, <2>1, <2>4, <2>8
<1>8. HeadOK'
  BY <1>7 DEF HeadOK, LastOf
<1>9. QED
  BY <1>5, <1>6, <1>8 DEF IInv

-----------------------------------------------------------------------------
\* Every step of every transaction keeps the invariant.
LEMMA InvStep == IInv /\ [Next]_vars => IInv'
<1> SUFFICES ASSUME IInv, [Next]_vars PROVE IInv'
  OBVIOUS
<1>1. TypeOK'
  BY TypeStep DEF IInv
<1>2. ASSUME NEW w \in Writers, ReadLatest(w) PROVE IInv'
  BY <1>1, <1>2, InvReadLatest
<1>3. ASSUME NEW w \in Writers, AppendEvent(w) PROVE IInv'
  BY <1>1, <1>3, InvAppendEvent
<1>4. ASSUME NEW w \in Writers, RefuseEvent(w) \/ RollBack(w) PROVE IInv'
  BY <1>1, <1>4, InvRollBack DEF RefuseEvent, RollBack
<1>5. ASSUME NEW w \in Writers, Commit(w) PROVE IInv'
  BY <1>1, <1>5, InvCommit
<1>6. CASE UNCHANGED vars
  BY <1>6 DEF vars, IInv, TypeOK, LockOK, ViewOK, HeadOK, View, Linked, EventAfter,
              LastOf, RowHash
<1>7. QED
  BY <1>2, <1>3, <1>4, <1>5, <1>6 DEF Next

\* Whatever transactions interleave, one at most has uncommitted rows, each sees a linked
\* list of rows, and an event it has built is current or overtaken by committed rows.
THEOREM InvCorrect == Spec => []IInv
  BY InvInit, InvStep, PTL DEF Spec

\* The committed log is linked: it is a prefix of every transaction's view.
LEMMA LogLinked == IInv => log \in Seq(Row) /\ Linked(log)
<1> SUFFICES ASSUME IInv, NEW w \in Writers PROVE Linked(log)
  BY WritersAssumption DEF IInv, TypeOK
<1>1. log \in Seq(Row) /\ pending[w] \in Seq(Row) /\ Linked(log \o pending[w])
  BY ViewType DEF IInv, ViewOK, View
<1>2. QED
  BY <1>1, LinkedPrefix

\* Type correctness.
THEOREM TypeCorrect == Spec => []TypeOK
<1>1. IInv => TypeOK
  BY DEF IInv
<1>2. QED
  BY <1>1, InvCorrect, PTL

\* append() refuses an event only when it is stale.
THEOREM RefusalsAreStale == Spec => []RefusedOnlyWhenStale
<1>1. IInv => RefusedOnlyWhenStale
  <2> SUFFICES ASSUME IInv, NEW w \in Writers,
                      pc[w] = "read", ~HeadMatches(event[w], View(w))
               PROVE  pending[w] = << >> /\ log # << >> /\ LastOf(log).seq >= event[w].sequence
    BY DEF RefusedOnlyWhenStale
  <2>1. event[w] # EventAfter(View(w))
    BY DEF HeadMatches, EventAfter
  <2>2. QED
    BY <2>1 DEF IInv, HeadOK
<1>2. QED
  BY <1>1, InvCorrect, PTL

\* Every refusal of verify_chain is a numbering gap, and every gap is one.
THEOREM BreaksAreExactlyGaps == Spec => []BreaksAreGaps
<1>1. IInv => BreaksAreGaps
  <2> SUFFICES ASSUME IInv PROVE BreaksAreGaps
    OBVIOUS
  <2>1. Linked(log) /\ log \in Seq(Row)
    BY LogLinked
  <2> DEFINE Gaps == {i \in 2..Len(log) : log[i].seq # log[i - 1].seq + 1}
             Broken == {i \in 2..Len(log) : ~Follows(log[i], log[i - 1])}
  <2>2. Broken = Gaps
    BY <2>1 DEF Linked, Follows
  <2>3. log = << >> => Broken = {}
    BY EmptySeq
  <2>4. log # << >> => log[1].prev = GenesisHash
    BY <2>1 DEF Linked
  <2>5. VerifyChain(log) =
          IF Broken = {} THEN Intact
          ELSE BrokenAt(log[CHOOSE i \in Broken : \A j \in Broken : i <= j].seq)
    <3> HIDE DEF Gaps
    <3>1. VerifyChain(log) =
            IF log = << >> THEN Intact
            ELSE IF log[1].prev # GenesisHash THEN Partial
            ELSE IF Broken = {} THEN Intact
            ELSE BrokenAt(log[CHOOSE i \in Broken : \A j \in Broken : i <= j].seq)
      BY Zenon DEF VerifyChain
    <3> HIDE DEF Broken
    <3>2. QED
      BY <3>1, <2>3, <2>4, Zenon
  <2>6. QED
    BY <2>2, <2>5, Zenon DEF BreaksAreGaps
<1>2. QED
  BY <1>1, InvCorrect, PTL

\* The detailed log implements what its readers are promised.
THEOREM LogKeepsPromise == Spec => LogImplementsPromise
<1>1. Init => Promise!Init
  BY DEF Init, Promise!Init
<1>2. IInv /\ IInv' /\ [Next]_vars => [Promise!Extend]_log
  <2> SUFFICES ASSUME IInv, IInv', [Next]_vars, log' # log PROVE Promise!Extend
    OBVIOUS
  <2>1. PICK w \in Writers : Commit(w)
    BY DEF Next, vars, ReadLatest, AppendEvent, RefuseEvent, RollBack
  <2>2. log \in Seq(Row) /\ pending[w] \in Seq(Row) /\ log' = log \o pending[w]
    BY <2>1, ViewType DEF IInv, Commit
  <2>3. /\ Len(log) \in Nat
        /\ Len(log') = Len(log) + Len(pending[w])
        /\ Len(pending[w]) \in Nat
        /\ \A i \in 1..Len(log) : log'[i] = log[i]
    BY <2>2, ConcatProperties, LenProperties
  <2>4. SubSeq(log', 1, Len(log)) = log
    <3>1. \A i \in 1..Len(log) : log'[i] \in Row
      BY <2>2, <2>3, ElementOfSeq
    <3>2. /\ SubSeq(log', 1, Len(log)) \in Seq(Row)
          /\ Len(SubSeq(log', 1, Len(log))) = Len(log)
          /\ \A i \in 1..Len(log) : SubSeq(log', 1, Len(log))[i] = log'[i]
      BY <3>1, <2>3, SubSeqProperties
    <3>3. QED
      BY <3>2, <2>2, <2>3, SeqEqual
  <2>5. Linked(log')
    BY <2>1 DEF IInv, ViewOK, Commit, View
  <2>6. QED
    BY <2>3, <2>4, <2>5 DEF Promise!Extend
<1>3. QED
  BY <1>1, <1>2, InvCorrect, PTL DEF Spec, LogImplementsPromise, Promise!Spec

-----------------------------------------------------------------------------
\* Which lists of rows verify_chain accepts.
LEMMA AcceptedRows ==
    ASSUME NEW rows, rows # << >>
    PROVE  VerifyChain(rows) = Intact <=>
             /\ rows[1].prev = GenesisHash
             /\ \A i \in 2..Len(rows) : Follows(rows[i], rows[i - 1])
<1> DEFINE Broken == {i \in 2..Len(rows) : ~Follows(rows[i], rows[i - 1])}
           n == rows[CHOOSE i \in Broken : \A j \in Broken : i <= j].seq
<1>1. VerifyChain(rows) =
        IF rows = << >> THEN Intact
        ELSE IF rows[1].prev # GenesisHash THEN Partial
        ELSE IF Broken = {} THEN Intact
        ELSE BrokenAt(n)
  BY Zenon DEF VerifyChain
<1>2. Broken = {} <=> \A i \in 2..Len(rows) : Follows(rows[i], rows[i - 1])
  OBVIOUS
<1>3. Partial # Intact
  BY DEF Partial, Intact
<1> HIDE DEF n, Broken
<1>4. BrokenAt(n) # Intact
  BY DEF BrokenAt, Intact
<1> QED BY <1>1, <1>2, <1>3, <1>4, Zenon

\* A digest determines the record it ends with.
LEMMA HashInjective ==
    ASSUME NEW p \in Digest, NEW q \in Digest, NEW m \in Nat \X Writers, NEW n \in Nat \X Writers,
           Append(p, m) = Append(q, n)
    PROVE  m = n
<1>1. p \in Seq(Nat \X Writers) /\ q \in Seq(Nat \X Writers)
  BY DEF Digest
<1>2. /\ Len(Append(p, m)) = Len(p) + 1 /\ Append(p, m)[Len(p) + 1] = m /\ Len(p) \in Nat
      /\ Len(Append(q, n)) = Len(q) + 1 /\ Append(q, n)[Len(q) + 1] = n /\ Len(q) \in Nat
  BY <1>1, AppendProperties, LenProperties
<1> QED BY <1>2

\* No record has the genesis hash.
LEMMA HashNotGenesis ==
    ASSUME NEW p \in Digest, NEW m \in Nat \X Writers
    PROVE  Append(p, m) # << >>
<1>1. p \in Seq(Nat \X Writers)
  BY DEF Digest
<1> QED BY <1>1, AppendProperties

\* Writing to a row breaks its successor's link if and only if a hashed column changed; the
\* last row has no successor.
LEMMA ChangesNoticed ==
    ASSUME NEW rows \in Seq(Row), VerifyChain(rows) = Intact, NEW i \in 1..Len(rows),
           NEW b \in Writers, NEW c \in Writers
    PROVE  VerifyChain(Edited(rows, i, b, c)) = Intact <=> i = Len(rows) \/ b = rows[i].body
<1> DEFINE new == Edited(rows, i, b, c)
           old == rows[i]
           row == [old EXCEPT !.body = b, !.correlation = c]
<1>1. Len(rows) \in Nat /\ DOMAIN rows = 1..Len(rows) /\ \A j \in 1..Len(rows) : rows[j] \in Row
  BY LenProperties, ElementOfSeq
<1>2. /\ rows # << >> /\ rows[1].prev = GenesisHash
      /\ \A j \in 2..Len(rows) : Follows(rows[j], rows[j - 1])
  <2>1. rows # << >>
    BY <1>1, EmptySeq
  <2> QED BY <2>1, AcceptedRows
<1>3. row \in Row /\ row.seq = old.seq /\ row.prev = old.prev /\ row.body = b
  BY <1>1 DEF Row
<1>4. new = [rows EXCEPT ![i] = row]
  BY DEF Edited
<1> HIDE DEF row
<1>5. new \in Seq(Row) /\ Len(new) = Len(rows)
  <2>1. /\ [rows EXCEPT ![i] = row] \in Seq(Row)
        /\ Len([rows EXCEPT ![i] = row]) = Len(rows)
    BY ONLY <1>3, rows \in Seq(Row), i \in 1..Len(rows), ExceptSeq
  <2> HIDE DEF new
  <2> QED BY <1>4, <2>1
<1>6. new[i] = row /\ \A j \in 1..Len(rows) : j # i => new[j] = rows[j]
  BY <1>1, <1>4
<1> HIDE DEF new
<1>7. new # << >> /\ new[1].prev = GenesisHash
  <2>1. 1 \in 1..Len(rows)
    BY <1>1
  <2> QED BY <1>2, <1>3, <1>5, <1>6, <2>1, EmptySeq
<1>8. RowHash(row) = RowHash(old) <=> b = old.body
  <2>1. /\ old.prev \in Digest /\ <<old.seq, old.body>> \in Nat \X Writers
        /\ <<old.seq, b>> \in Nat \X Writers
    BY <1>1 DEF Row
  <2>2. RowHash(row) = Append(old.prev, <<old.seq, b>>)
    BY <1>3 DEF RowHash
  <2>3. RowHash(old) = Append(old.prev, <<old.seq, old.body>>)
    BY DEF RowHash
  <2>4. RowHash(row) = RowHash(old) => <<old.seq, b>> = <<old.seq, old.body>>
    BY <2>1, <2>2, <2>3, HashInjective
  <2> HIDE DEF old
  <2> QED BY <2>2, <2>3, <2>4
<1>9. ASSUME NEW j \in 2..Len(rows)
      PROVE  Follows(new[j], new[j - 1]) <=> j - 1 # i \/ b = old.body
  <2>1. /\ j \in 1..Len(rows) /\ j - 1 \in 1..Len(rows) /\ j - 1 # j
        /\ Follows(rows[j], rows[j - 1])
    BY <1>1, <1>2
  <2>2. new[j].seq = rows[j].seq /\ new[j].prev = rows[j].prev
    BY <1>3, <1>6, <2>1
  <2>3. CASE j - 1 # i
    <3>1. new[j - 1] = rows[j - 1]
      BY <1>6, <2>1, <2>3
    <3> QED BY <2>1, <2>2, <2>3, <3>1 DEF Follows
  <2>4. CASE j - 1 = i
    <3>1. new[j - 1] = row /\ rows[j - 1] = old
      BY <1>6, <2>4
    <3>2. rows[j].prev = RowHash(old) /\ rows[j].seq = old.seq + 1
      BY <2>1, <3>1 DEF Follows
    <3> HIDE DEF old
    <3> QED BY <1>3, <1>8, <2>2, <2>4, <3>1, <3>2 DEF Follows
  <2> QED BY <2>3, <2>4
<1>10. VerifyChain(new) = Intact <=> \A j \in 2..Len(rows) : j - 1 # i \/ b = old.body
  <2>1. VerifyChain(new) = Intact <=>
          /\ new[1].prev = GenesisHash
          /\ \A j \in 2..Len(new) : Follows(new[j], new[j - 1])
    BY <1>7, AcceptedRows
  <2> HIDE DEF old
  <2> QED BY <1>5, <1>7, <1>9, <2>1
<1>11. (\A j \in 2..Len(rows) : j - 1 # i) <=> i = Len(rows)
  <2> DEFINE n == Len(rows)
  <2>1. n \in Nat /\ i \in 1..n
    BY <1>1
  <2> HIDE DEF n
  <2>2. (\A j \in 2..n : j - 1 # i) <=> i = n
    <3>1. i # n => i + 1 \in 2..n /\ (i + 1) - 1 = i
      BY <2>1
    <3> QED BY <2>1, <3>1
  <2> QED BY <2>2 DEF n
<1> HIDE DEF old
<1>12. VerifyChain(new) = Intact <=> i = Len(rows) \/ b = old.body
  BY <1>10, <1>11
<1> QED BY <1>12 DEF new, old

\* Taking a row out leaves its successor without its predecessor; the last has no successor.
LEMMA RemovalsNoticed ==
    ASSUME NEW rows \in Seq(Row), VerifyChain(rows) = Intact, NEW i \in 1..Len(rows)
    PROVE  VerifyChain(Without(rows, i)) = Intact <=> i = Len(rows)
<1> DEFINE n == Len(rows)
           s == SubSeq(rows, 1, i - 1)
           t == SubSeq(rows, i + 1, n)
           new == s \o t
<1>1. n \in Nat /\ i \in Nat /\ 1 <= i /\ i <= n /\ \A j \in 1..n : rows[j] \in Row
  BY LenProperties, ElementOfSeq
<1>2. /\ rows # << >> /\ rows[1].prev = GenesisHash
      /\ \A j \in 2..n : Follows(rows[j], rows[j - 1])
  <2>1. rows # << >>
    BY <1>1, EmptySeq
  <2> QED BY <2>1, AcceptedRows
<1>3. /\ s \in Seq(Row) /\ Len(s) = i - 1
      /\ \A j \in 1..(i - 1) : s[j] = rows[j]
  <2>1. \A j \in 1..(i - 1) : rows[j] \in Row
    BY <1>1
  <2>2. /\ s \in Seq(Row)
        /\ Len(s) = IF 1 <= i - 1 THEN (i - 1) - 1 + 1 ELSE 0
        /\ \A j \in 1..((i - 1) - 1 + 1) : s[j] = rows[1 + j - 1]
    BY <1>1, <2>1, SubSeqProperties
  <2> HIDE DEF s
  <2> QED BY <1>1, <2>2
<1>4. /\ t \in Seq(Row) /\ Len(t) = n - i
      /\ \A j \in 1..(n - i) : t[j] = rows[i + j]
  <2>1. \A j \in (i + 1)..n : rows[j] \in Row
    BY <1>1
  <2>2. /\ t \in Seq(Row)
        /\ Len(t) = IF i + 1 <= n THEN n - (i + 1) + 1 ELSE 0
        /\ \A j \in 1..(n - (i + 1) + 1) : t[j] = rows[(i + 1) + j - 1]
    BY <1>1, <2>1, SubSeqProperties
  <2> HIDE DEF t, n
  <2>3. n - (i + 1) + 1 = n - i /\ \A j \in 1..(n - i) : (i + 1) + j - 1 = i + j
    BY <1>1
  <2>4. Len(t) = n - i
    BY <1>1, <2>2
  <2>5. ASSUME NEW j \in 1..(n - i) PROVE t[j] = rows[i + j]
    <3>1. j \in 1..(n - (i + 1) + 1) /\ (i + 1) + j - 1 = i + j
      BY <2>3
    <3> QED BY <2>2, <3>1
  <2> QED BY <2>2, <2>4, <2>5
<1> HIDE DEF s, t
<1>5. /\ new \in Seq(Row) /\ Len(new) = n - 1
      /\ \A j \in 1..(i - 1) : new[j] = rows[j]
      /\ \A j \in i..(n - 1) : new[j] = rows[j + 1]
  <2>1. /\ new \in Seq(Row) /\ Len(new) = Len(s) + Len(t)
        /\ \A j \in 1..(Len(s) + Len(t)) : new[j] = IF j <= Len(s) THEN s[j] ELSE t[j - Len(s)]
    BY <1>3, <1>4, ConcatProperties
  <2> HIDE DEF new
  <2>2. Len(s) + Len(t) = n - 1
    BY <1>1, <1>3, <1>4
  <2>3. ASSUME NEW j \in 1..(i - 1) PROVE new[j] = rows[j]
    BY <1>1, <1>3, <2>1, <2>2
  <2>4. ASSUME NEW j \in i..(n - 1) PROVE new[j] = rows[j + 1]
    <3>1. /\ j \in 1..(Len(s) + Len(t)) /\ ~(j <= Len(s)) /\ j - Len(s) \in 1..(n - i)
          /\ i + (j - Len(s)) = j + 1
      BY <1>1, <1>3, <2>2
    <3> QED BY <1>4, <2>1, <3>1
  <2> QED BY <2>1, <2>2, <2>3, <2>4
<1> HIDE DEF new
<1>6. CASE i = n
  <2>1. ASSUME new # << >> PROVE VerifyChain(new) = Intact
    <3>1. n - 1 >= 1
      BY <1>1, <1>5, <2>1, EmptySeq
    <3>2. new[1].prev = GenesisHash
      BY <1>1, <1>2, <1>5, <1>6, <3>1
    <3>3. ASSUME NEW j \in 2..Len(new) PROVE Follows(new[j], new[j - 1])
      <4>1. j \in 2..n /\ j \in 1..(i - 1) /\ j - 1 \in 1..(i - 1)
        BY <1>1, <1>5, <1>6
      <4> QED BY <1>2, <1>5, <4>1
    <3> QED BY <2>1, <3>2, <3>3, AcceptedRows
  <2>2. new = << >> => VerifyChain(new) = Intact
    BY DEF VerifyChain
  <2> QED BY <1>6, <2>1, <2>2 DEF Without, new, s, t
<1>7. CASE i # n
  <2>1. new # << >> /\ i + 1 \in 2..n /\ i \in i..(n - 1)
    BY <1>1, <1>5, <1>7, EmptySeq
  <2>2. new[i] = rows[i + 1]
    BY <1>5, <2>1
  <2>3. rows[i + 1].prev = RowHash(rows[i]) /\ rows[i + 1].seq = rows[i].seq + 1
    BY <1>1, <1>2, <2>1 DEF Follows
  <2>4. CASE i = 1
    <3>1. rows[1].prev \in Digest /\ <<rows[1].seq, rows[1].body>> \in Nat \X Writers
      BY <1>1, <2>4 DEF Row
    <3>2. RowHash(rows[1]) # GenesisHash
      BY <3>1, HashNotGenesis DEF RowHash, GenesisHash
    <3>3. new[1].prev # GenesisHash
      BY <2>2, <2>3, <2>4, <3>2
    <3> QED BY <1>7, <2>1, <3>3, AcceptedRows DEF Without, new, s, t
  <2>5. CASE i # 1
    <3>1. i \in 2..n /\ i - 1 \in 1..(i - 1) /\ i \in 2..Len(new) /\ i - 1 \in 1..n
      BY <1>1, <1>5, <1>7, <2>5
    <3>2. rows[i].seq = rows[i - 1].seq + 1
      BY <1>2, <3>1 DEF Follows
    <3>3. rows[i - 1].seq \in Nat
      BY <1>1, <3>1 DEF Row
    <3>4. ~Follows(new[i], new[i - 1])
      BY <1>5, <2>2, <2>3, <3>1, <3>2, <3>3 DEF Follows
    <3> QED BY <1>7, <2>1, <3>1, <3>4, AcceptedRows DEF Without, new, s, t
  <2> QED BY <2>4, <2>5
<1> QED BY <1>6, <1>7 DEF n

\* What verify_chain notices of a log of any length that verifies: every change of a hashed
\* column and every removal, except of the last row, and no change of the correlation
\* identifier (AuditEvent.row_hash, AuditEvent.follows).
THEOREM EditsAreDetected == Spec => []EditsDetected
<1>1. IInv => log \in Seq(Row)
  BY DEF IInv, TypeOK
<1>2. log \in Seq(Row) => EditsDetected
  BY ChangesNoticed, RemovalsNoticed DEF EditsDetected
<1> QED BY <1>1, <1>2, InvCorrect, PTL

-----------------------------------------------------------------------------
(* Why whoever has built an event gets to append it or is refused: the wait for the lock. *)

\* The lock's holder has uncommitted rows and is not done, and a batch keeps to its bound.
HolderOK ==
    /\ chainLock # Unlocked => pending[chainLock] # << >>
    /\ \A w \in Writers :
         /\ Len(pending[w]) <= MaxBatch
         /\ pc[w] = "read" => Len(pending[w]) < MaxBatch

\* Nobody waits for nobody: who has an event and may not take the lock waits for a holder
\* that is about to commit or has an event itself, and may take it.
HoldersGoOn ==
    \A w \in Writers : pc[w] = "read" /\ ~MayLock(w) =>
        \E h \in Writers \ {w} : chainLock = h /\ MayLock(h) /\ pc[h] \in {"read", "appended"}

\* How many steps a transaction has left, at most.
StepsLeft(w) ==
    IF pc[w] = "idle" THEN 0
    ELSE 2 * (MaxBatch - Len(pending[w])) + (IF pc[w] = "appended" THEN 1 ELSE 0)

\* A transaction that runs comes nearer to its end with each of its steps, and by nobody
\* else's does it get further away.
RunsOut ==
    \A w \in Writers : pc[w] # "idle" =>
        \/ pc'[w] = pc[w] /\ pending'[w] = pending[w]
        \/ StepsLeft(w)' < StepsLeft(w)

\* What a transaction's step leaves of the others, and what it makes of its own batch.
LEMMA ReadOn ==
    ASSUME IInv, HolderOK, NEW w \in Writers, ReadLatest(w)
    PROVE  HolderOK' /\ RunsOut
<1>0. /\ pc \in [Writers -> {"idle", "read", "appended"}] /\ pending[w] \in Seq(Row)
      /\ Len(pending[w]) \in Nat /\ MaxBatch \in Nat
  BY BoundsAssumption, LenProperties DEF IInv, TypeOK
<1>1. /\ pc'[w] = "read" /\ \A v \in Writers \ {w} : pc'[v] = pc[v]
      /\ pending' = pending /\ chainLock' = chainLock /\ Len(pending[w]) < MaxBatch
  BY <1>0 DEF ReadLatest
<1>2. ASSUME pc[w] # "idle" PROVE StepsLeft(w)' < StepsLeft(w)
  <2>1. StepsLeft(w) = 2 * (MaxBatch - Len(pending[w])) + 1
    BY <1>2 DEF StepsLeft, ReadLatest
  <2>2. StepsLeft(w)' = 2 * (MaxBatch - Len(pending[w])) + 0
    BY <1>1 DEF StepsLeft
  <2> QED BY <1>0, <2>1, <2>2
<1> QED BY <1>1, <1>2 DEF HolderOK, RunsOut

LEMMA AppendOn ==
    ASSUME IInv, HolderOK, NEW w \in Writers, AppendEvent(w)
    PROVE  HolderOK' /\ RunsOut
<1> DEFINE r == NewRow(w)
           new == Append(pending[w], r)
<1> USE DEF NewRow
<1>0. /\ pc \in [Writers -> {"idle", "read", "appended"}] /\ pending \in [Writers -> Seq(Row)]
      /\ Len(pending[w]) \in Nat /\ MaxBatch \in Nat /\ Len(pending[w]) < MaxBatch
  BY BoundsAssumption, LenProperties DEF IInv, TypeOK, HolderOK, AppendEvent
<1>1. r \in Row
  BY DEF IInv, TypeOK, Event, Row
<1> HIDE DEF r
<1>2. new \in Seq(Row) /\ new # << >> /\ Len(new) = Len(pending[w]) + 1
  BY <1>0, <1>1, AppendProperties
<1>3. /\ pc[w] = "read" /\ pc'[w] = "appended" /\ pending'[w] = new /\ chainLock' = w
      /\ \A v \in Writers \ {w} : pc'[v] = pc[v] /\ pending'[v] = pending[v]
  BY <1>0 DEF AppendEvent, r
<1>4. StepsLeft(w)' < StepsLeft(w)
  BY <1>0, <1>2, <1>3 DEF StepsLeft
<1> HIDE DEF new
<1>5. HolderOK'
  <2>1. ASSUME NEW v \in Writers
        PROVE  /\ Len(pending'[v]) <= MaxBatch
               /\ pc'[v] = "read" => Len(pending'[v]) < MaxBatch
    <3>1. CASE v = w
      BY <1>0, <1>2, <1>3, <3>1
    <3>2. CASE v # w
      BY <1>3, <3>2 DEF HolderOK
    <3> QED BY <3>1, <3>2
  <2> QED BY <1>2, <1>3, <2>1 DEF HolderOK
<1> QED BY <1>3, <1>4, <1>5 DEF RunsOut

LEMMA CloseOn ==
    ASSUME IInv, HolderOK, NEW w \in Writers, Close(w), pc[w] # "idle"
    PROVE  HolderOK' /\ RunsOut
<1>0. /\ pc \in [Writers -> {"idle", "read", "appended"}] /\ pending \in [Writers -> Seq(Row)]
      /\ chainLock \in Writers \cup {Unlocked}
      /\ Len(pending[w]) \in Nat /\ MaxBatch \in Nat \ {0} /\ Len(pending[w]) <= MaxBatch
  BY BoundsAssumption, LenProperties DEF IInv, TypeOK, HolderOK
<1>1. /\ pc'[w] = "idle" /\ pending'[w] = << >> /\ chainLock' # w
      /\ chainLock' \in {chainLock, Unlocked}
      /\ \A v \in Writers \ {w} : pc'[v] = pc[v] /\ pending'[v] = pending[v]
  BY <1>0, WritersAssumption DEF Close
<1>2. Len(<< >>) = 0
  BY EmptySeq
<1>3. StepsLeft(w) > 0
  BY <1>0 DEF StepsLeft, HolderOK
<1>4. StepsLeft(w)' < StepsLeft(w)
  BY <1>1, <1>3 DEF StepsLeft
<1>5. HolderOK'
  BY <1>0, <1>1, <1>2 DEF HolderOK
<1> QED BY <1>1, <1>4, <1>5 DEF RunsOut

LEMMA StepOn == ASSUME IInv, HolderOK, [Next]_vars PROVE HolderOK' /\ [RunsOut]_vars
<1>1. ASSUME NEW w \in Writers,
             ReadLatest(w) \/ AppendEvent(w) \/ RefuseEvent(w) \/ Commit(w) \/ RollBack(w)
      PROVE  HolderOK' /\ RunsOut
  BY <1>1, ReadOn, AppendOn, CloseOn DEF RefuseEvent, Commit, RollBack
<1>2. CASE UNCHANGED vars
  BY <1>2 DEF vars, HolderOK
<1> QED BY <1>1, <1>2 DEF Next

\* A transaction that waits for the advisory lock waits for one that can go on, and that one
\* has at most 2 * MaxBatch steps left, whatever the others do; then the lock is given back
\* (SqlAlchemyAuditRepository.append and the unit of work's exit).
THEOREM TheLockIsGivenBack == Spec => []HoldersGoOn /\ [][RunsOut]_vars
<1>1. Init => HolderOK
  <2>1. Len(<< >>) = 0
    BY EmptySeq
  <2> QED BY <2>1, BoundsAssumption DEF Init, HolderOK
<1>2. IInv /\ HolderOK /\ [Next]_vars => HolderOK' /\ [RunsOut]_vars
  BY StepOn
<1>3. IInv /\ HolderOK => HoldersGoOn
  BY DEF IInv, TypeOK, LockOK, HolderOK, HoldersGoOn, MayLock
<1> QED BY <1>1, <1>2, <1>3, InvCorrect, PTL DEF Spec
==============================================================================
