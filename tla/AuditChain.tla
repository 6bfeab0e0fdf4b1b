------------------------------ MODULE AuditChain ------------------------------
(***************************************************************************)
(* The hash-chained audit log: AuditEvent and verify_chain                  *)
(* (domain/entities/audit.py), SqlAlchemyAuditRepository (repositories.py), *)
(* the audit_logs table, and the unit of work its callers run it in.        *)
(*                                                                          *)
(* A writer is one database transaction slot: a request or a task that      *)
(* reads the chain head, builds the next event from it, appends it, and may *)
(* do so several times (a batch prediction) before it commits.  The         *)
(* position of a record is not the sequence its event was built with: it is *)
(* the table's identity column, and the database does not give back an      *)
(* identity value when the transaction that drew it rolls back.             *)
(***************************************************************************)
EXTENDS Naturals, Sequences, FiniteSets

CONSTANTS
    Writers,   \* transaction slots that append to the log
    Unlocked,  \* not a writer: nobody holds the advisory lock
    MaxBatch,  \* bound: appends of one transaction
    MaxSeq     \* bound: identity values the table hands out

ASSUME WritersAssumption == Writers # {} /\ Unlocked \notin Writers
ASSUME BoundsAssumption == MaxBatch \in Nat \ {0} /\ MaxSeq \in Nat \ {0}

VARIABLES
    log,       \* committed rows of audit_logs, in seq order
    nextSeq,   \* next value of the identity column, not transactional
    chainLock, \* holder of the transaction-scoped advisory lock
    pc,        \* where each transaction stands
    event,     \* the event each transaction has built and not yet appended
    pending    \* rows each transaction has inserted and not yet committed

vars == <<log, nextSeq, chainLock, pc, event, pending>>

-----------------------------------------------------------------------------
(***************************************************************************)
(* SHA-256 is taken as injective: a digest IS the contents it commits to,   *)
(* the <<seq, body>> pairs of the record and of all its predecessors.  The  *)
(* body stands for action, resource, actor, timestamp and payload.  The     *)
(* correlation identifier of a row is stored beside them and not hashed;    *)
(* the stored row_hash is left out, as nothing reads it back.               *)
(***************************************************************************)
Digest == Seq(Nat \X Writers)
GenesisHash == << >>

Row   == [seq : Nat \ {0}, body : Writers, correlation : Writers, prev : Digest]
Event == [sequence : Nat \ {0}, prev : Digest]

RowHash(r) == Append(r.prev, <<r.seq, r.body>>)

LastOf(rows) == rows[Len(rows)]

\* Mutant: the hash link is not compared.
FollowsBySeq(r, previous) == r.seq = previous.seq + 1

Follows(r, previous) == r.seq = previous.seq + 1 /\ r.prev = RowHash(previous)

Intact      == <<"intact">>
Partial     == <<"audit.partial_chain">>
BrokenAt(n) == <<"broken", n>>

\* What verify_chain answers: None, an error, or the seq of the first record that fails.
VerifyChain(rows) ==
    LET Broken == {i \in 2..Len(rows) : ~Follows(rows[i], rows[i - 1])}
    IN  IF rows = << >> THEN Intact
        ELSE IF rows[1].prev # GenesisHash THEN Partial
        ELSE IF Broken = {} THEN Intact
        ELSE BrokenAt(rows[CHOOSE i \in Broken : \A j \in Broken : i <= j].seq)

\* The event a caller builds from latest().
EventAfter(rows) ==
    IF rows = << >> THEN [sequence |-> 1, prev |-> GenesisHash]
    ELSE [sequence |-> LastOf(rows).seq + 1, prev |-> RowHash(LastOf(rows))]

\* Mutant: the event's sequence is compared with the identity column.
HeadMatchesIdentity(e, rows) == e.sequence = nextSeq

\* append()'s re-check of the event against the head it reads under the lock.
HeadMatches(e, rows) ==
    IF rows = << >> THEN e.sequence = 1 ELSE e = EventAfter(rows)

-----------------------------------------------------------------------------
View(w) == log \o pending[w]      \* READ COMMITTED, plus the transaction's own rows

\* Mutant: appends take no lock.
MayLockAlways(w) == w \in Writers

MayLock(w) == chainLock \in {Unlocked, w}
Reading == {w \in Writers : pc[w] = "read"}

\* Mutant: the identity value is given back.
CloseGivesBack(w) ==
    /\ pc' = [pc EXCEPT ![w] = "idle"]
    /\ pending' = [pending EXCEPT ![w] = << >>]
    /\ chainLock' = IF chainLock = w THEN Unlocked ELSE chainLock
    /\ nextSeq' = nextSeq - 1
    /\ UNCHANGED event

\* Mutant: the advisory lock belongs to the session and outlives the transaction.
CloseKeepsLock(w) ==
    /\ pc' = [pc EXCEPT ![w] = "idle"]
    /\ pending' = [pending EXCEPT ![w] = << >>]
    /\ UNCHANGED <<nextSeq, event, chainLock>>

\* Ends w's transaction: its locks are released, its uncommitted rows are gone.
Close(w) ==
    /\ pc' = [pc EXCEPT ![w] = "idle"]
    /\ pending' = [pending EXCEPT ![w] = << >>]
    /\ chainLock' = IF chainLock = w THEN Unlocked ELSE chainLock
    /\ UNCHANGED <<nextSeq, event>>

Init ==
    /\ log = << >>
    /\ nextSeq = 1
    /\ chainLock = Unlocked
    /\ pc = [w \in Writers |-> "idle"]
    /\ event = [w \in Writers |-> EventAfter(<< >>)]
    /\ pending = [w \in Writers |-> << >>]

\* latest(), outside the lock, and the event the caller builds from it.
ReadLatest(w) ==
    /\ pc[w] \in {"idle", "appended"}
    /\ Len(pending[w]) < MaxBatch
    /\ nextSeq + Cardinality(Reading) <= MaxSeq
    /\ event' = [event EXCEPT ![w] = EventAfter(View(w))]
    /\ pc' = [pc EXCEPT ![w] = "read"]
    /\ UNCHANGED <<log, nextSeq, chainLock, pending>>

\* The row inserted for w's event: it takes the identity column's value.
NewRow(w) == [seq |-> nextSeq, body |-> w, correlation |-> w, prev |-> event[w].prev]

\* Mutant: the head is not read again under the lock.
AppendUnchecked(w) ==
    /\ pc[w] = "read"
    /\ MayLock(w)
    /\ chainLock' = w
    /\ pending' = [pending EXCEPT ![w] = Append(@, NewRow(w))]
    /\ nextSeq' = nextSeq + 1
    /\ pc' = [pc EXCEPT ![w] = "appended"]
    /\ UNCHANGED <<log, event>>

\* append(): lock, re-read the head, insert.
AppendEvent(w) ==
    /\ pc[w] = "read"
    /\ MayLock(w)
    /\ HeadMatches(event[w], View(w))
    /\ chainLock' = w
    /\ pending' = [pending EXCEPT ![w] = Append(@, NewRow(w))]
    /\ nextSeq' = nextSeq + 1
    /\ pc' = [pc EXCEPT ![w] = "appended"]
    /\ UNCHANGED <<log, event>>

\* append() finds that the head moved: TransientError, which no caller retries.
RefuseEvent(w) ==
    /\ pc[w] = "read"
    /\ MayLock(w)
    /\ ~HeadMatches(event[w], View(w))
    /\ Close(w)
    /\ UNCHANGED log

\* The unit of work exits after commit().
Commit(w) ==
    /\ pc[w] = "appended"
    /\ log' = log \o pending[w]
    /\ Close(w)

\* The unit of work exits on an exception: a later item of the batch failed, the
\* request timed out, the connection or the process died.
RollBack(w) ==
    /\ pc[w] \in {"read", "appended"}
    /\ Close(w)
    /\ UNCHANGED log

Next == \E w \in Writers :
    \/ ReadLatest(w)
    \/ AppendEvent(w)
    \/ RefuseEvent(w)
    \/ Commit(w)
    \/ RollBack(w)

\* The advisory lock queues its waiters in order; a transaction that holds it goes on.
Fairness == \A w \in Writers :
    /\ SF_vars(AppendEvent(w) \/ RefuseEvent(w))
    /\ WF_vars(Commit(w))

Spec == Init /\ [][Next]_vars
FairSpec == Spec /\ Fairness

-----------------------------------------------------------------------------
TypeOK ==
    /\ log \in Seq(Row)
    /\ nextSeq \in Nat \ {0}
    /\ chainLock \in Writers \cup {Unlocked}
    /\ pc \in [Writers -> {"idle", "read", "appended"}]
    /\ event \in [Writers -> Event]
    /\ pending \in [Writers -> Seq(Row)]

\* A list of rows linked from the genesis hash on, in strictly increasing seq order: each
\* carries the hash of the row before it.
Linked(rows) ==
    /\ rows # << >> => rows[1].prev = GenesisHash
    /\ \A i \in 2..Len(rows) :
         /\ rows[i].prev = RowHash(rows[i - 1])
         /\ \A j \in 1..(i - 1) : rows[i].seq > rows[j].seq

\* verify_chain's answer is explained by the numbering alone: it reports the first record
\* whose identity value does not succeed its predecessor's, and never a partial chain.
BreaksAreGaps ==
    LET Gaps == {i \in 2..Len(log) : log[i].seq # log[i - 1].seq + 1}
    IN  VerifyChain(log) =
          IF Gaps = {} THEN Intact
          ELSE BrokenAt(log[CHOOSE i \in Gaps : \A j \in Gaps : i <= j].seq)

\* append() refuses an event only when another transaction's records really were
\* committed after the head was read; a batch's own appends are never refused, and the
\* gaps a rollback leaves do not stop the appends after it.
RefusedOnlyWhenStale == \A w \in Writers :
    (pc[w] = "read" /\ MayLock(w) /\ ~HeadMatches(event[w], View(w)))
      => /\ pending[w] = << >>
         /\ log # << >>
         /\ LastOf(log).seq >= event[w].sequence

\* Row i of a log after somebody wrote to it, and a log somebody took row i out of.
Edited(rows, i, b, c) == [rows EXCEPT ![i] = [@ EXCEPT !.body = b, !.correlation = c]]
Without(rows, i) == SubSeq(rows, 1, i - 1) \o SubSeq(rows, i + 1, Len(rows))

\* What verification notices, exactly.  Of a log that verifies, a change of row i goes
\* unnoticed if and only if the row is the last one or the change spares every hashed column,
\* the correlation identifier being the one that is not hashed; taking row i out goes
\* unnoticed if and only if it is the last one.
EditsDetected ==
    VerifyChain(log) = Intact =>
      \A i \in 1..Len(log) :
        /\ \A b \in Writers, c \in Writers :
             VerifyChain(Edited(log, i, b, c)) = Intact <=> i = Len(log) \/ b = log[i].body
        /\ VerifyChain(Without(log, i)) = Intact <=> i = Len(log)

\* The claim that an untouched log verifies: no transaction here edits or deletes a row.
UntouchedLogVerifies == VerifyChain(log) = Intact

\* A transaction that has built its event appends it, is refused or rolls back: the wait
\* for the advisory lock ends although other transactions keep taking it.
EveryWriterFinishes == \A w \in Writers : pc[w] = "read" ~> pc[w] = "idle"

\* What the log promises its readers: it only grows, and every record carries the hash of
\* the one before it, the first the genesis hash, although each writer read the head before
\* it took the lock and append() takes any predecessor hash in an empty log.
Promise == INSTANCE AppendOnlyLog WITH entries <- log, Linked <- Linked
LogImplementsPromise == Promise!Spec
=============================================================================
