----------------------------- MODULE ImageCatalog -----------------------------
(***************************************************************************)
(* Images in one table and one bucket: IngestImage.execute, the storing and *)
(* recording part of PredictImage.execute_batch, and SubmitFeedback.execute.*)
(*                                                                          *)
(* A call is one ingestion, one prediction request or one feedback.  It     *)
(* works inside a READ COMMITTED transaction: what it inserts is seen by    *)
(* others when it commits, but a unique checksum, a row it updates and the  *)
(* audit log's advisory lock make others wait at once.  The bucket knows no *)
(* transaction.  An image is its content; the checksum is the content.      *)
(***************************************************************************)
EXTENDS Naturals, Sequences, FiniteSets, Functions

CONSTANTS
    Uploads, Requests, Reviews,   \* the three kinds of calls
    None,
    Contents,
    Near,         \* pairs of contents whose perceptual hashes are close
    Flagged,      \* contents the production model scores above its threshold
    Sent,         \* the contents each upload (one) and each request (a batch) carries
    FolderOf,     \* category and month under which each of these calls stores
    LabelOf,      \* the label an upload comes with
    Corrections,  \* what operators answer: a label, or None to confirm the prediction
    MaxFailures   \* bound: steps that raise or are cut off

Calls == Uploads \cup Requests \cup Reviews
Senders == Uploads \cup Requests
Labels == {"good", "defect", "unlabeled"}

ASSUME CallsAssumption ==
    /\ Uploads \cap Requests = {} /\ Senders \cap Reviews = {}
    /\ None \notin Calls /\ None \notin Labels
ASSUME SentAssumption ==
    /\ Sent \in [Senders -> Seq(Contents)]
    /\ \A u \in Uploads : Len(Sent[u]) = 1
    /\ \A p \in Requests : Len(Sent[p]) >= 1
ASSUME InputsAssumption ==
    /\ Near \subseteq Contents \X Contents /\ Flagged \subseteq Contents
    /\ DOMAIN FolderOf = Senders /\ LabelOf \in [Uploads -> Labels]
    /\ Corrections \subseteq Labels \cup {None}
    /\ MaxFailures \in Nat

VARIABLES
    images,       \* committed rows of the images table
    blobs,        \* keys of the objects in the raw bucket
    predictions, feedback,   \* committed rows of these tables
    auditLen,     \* committed length of the audit log
    auditLock,    \* the call that holds its advisory lock
    call,         \* what each call is doing
    failures      \* steps that raised or were cut off so far

vars == <<images, blobs, predictions, feedback, auditLen, auditLock, call, failures>>
tables == <<images, predictions, feedback, auditLen>>

-----------------------------------------------------------------------------
\* _ALLOWED_TRANSITIONS
AllowedTransitions ==
    [pending     |-> {"validating", "rejected", "valid"},
     validating  |-> {"valid", "rejected", "quarantined"},
     valid       |-> {"quarantined", "archived"},
     quarantined |-> {"valid", "archived"},
     rejected    |-> {},
     archived    |-> {}]
MayBecome(status, to) == to = status \/ to \in AllowedTransitions[status]

Key == [kind : {"raw", "inference"}, folder : Range(FolderOf), content : Contents]
KeyOf(c, i) == [kind |-> IF c \in Uploads THEN "raw" ELSE "inference",
                folder |-> FolderOf[c], content |-> Sent[c][i]]

\* Mutant: the label has no default.
NewRowUnset(c, i) ==
    [id |-> <<c, i>>, content |-> Sent[c][i], key |-> KeyOf(c, i),
     status |-> IF c \in Uploads THEN "valid" ELSE "pending",
     label |-> IF c \in Uploads THEN LabelOf[c] ELSE None,
     reviewed |-> FALSE]

\* The row the call inserts for its i-th content.  An upload has passed validation; an
\* image that only came to be scored stays pending.
NewRow(c, i) ==
    [id |-> <<c, i>>, content |-> Sent[c][i], key |-> KeyOf(c, i),
     status |-> IF c \in Uploads THEN "valid" ELSE "pending",
     label |-> IF c \in Uploads THEN LabelOf[c] ELSE "unlabeled",
     reviewed |-> FALSE]

RowId == UNION {{s} \X DOMAIN Sent[s] : s \in Senders}
Row == [id : RowId, content : Contents, key : Key,
        status : DOMAIN AllowedTransitions, label : Labels, reviewed : BOOLEAN]
Prediction == [id : RowId, image : RowId, label : Labels]
Feedback == [id : Reviews, prediction : Prediction, truth : Labels,
             before : SUBSET Reviews]   \* feedback committed when it read its image

\* _fold_ground_truth_into_image
Fold(row, truth) ==
    [row EXCEPT !.status = IF MayBecome(@, "valid") THEN "valid" ELSE @,
                !.label = truth, !.reviewed = TRUE]

Ended == {"done", "duplicate", "refused", "failed", "lost"}
Steps == {"start", "put", "insert", "update", "head", "append", "commit", "deleting"} \cup Ended

\* One call.
Call == [pc : Steps,
         image : Seq(RowId),          \* the row it decided on for each content it carries
         at : Nat,                    \* the position it works on
         inserted : SUBSET Nat,       \* the positions whose rows it has inserted
         head : Nat,                  \* the audit log's length as it read it
         events : Nat,                \* audit events it appended
         fb : Feedback \cup {None},   \* a review's feedback
         read : Row \cup {None}, write : Row \cup {None}]  \* its image as read, as folded
Fresh == [pc |-> "start", image |-> <<>>, at |-> 1, inserted |-> {}, head |-> 0, events |-> 0,
          fb |-> None, read |-> None, write |-> None]

Uncommitted(c) == {NewRow(c, i) : i \in call[c].inserted}
Holds(c, id) == call[c].pc \in {"head", "append", "commit"}
                /\ call[c].write # call[c].read /\ call[c].write.id = id

Go(c, to) == call' = [call EXCEPT ![c] = to]
Unlock(c) == auditLock' = IF auditLock = c THEN None ELSE auditLock
\* The transaction is over; nothing of it is left but how the call ended.
Drop(c, end) == Go(c, [Fresh EXCEPT !.pc = end]) /\ Unlock(c)

Init ==
    /\ images = {} /\ blobs = {} /\ predictions = {} /\ feedback = {}
    /\ auditLen = 0 /\ auditLock = None
    /\ call = [c \in Calls |-> Fresh]
    /\ failures = 0

-----------------------------------------------------------------------------
(* An ingestion. *)

\* Exact and near duplicates of committed rows are reported and nothing is stored.
Check(u) ==
    /\ u \in Uploads /\ call[u].pc = "start"
    /\ IF \E r \in images :
            \/ r.content = Sent[u][1]
            \/ r.key.kind = "raw" /\ <<r.content, Sent[u][1]>> \in Near
       THEN Drop(u, "duplicate")
       ELSE Go(u, [call[u] EXCEPT !.pc = "put", !.image = <<<<u, 1>>>>]) /\ UNCHANGED auditLock
    /\ UNCHANGED <<tables, blobs, failures>>

\* The object is written under its content-addressed key; so are those of a request's new
\* images, one after the other.
NewKeys(c) == {KeyOf(c, i) : i \in {j \in DOMAIN Sent[c] : call[c].image[j] = <<c, j>>}}
Put(c) ==
    /\ call[c].pc = "put"
    /\ blobs' = blobs \cup NewKeys(c)
    /\ Go(c, [call[c] EXCEPT !.pc = "insert"])
    /\ UNCHANGED <<tables, auditLock, failures>>

\* The unique checksum: an insert waits for another transaction that has inserted the
\* same content, and is refused once a row with it is committed.
RowOwners(c, content) ==
    {d \in Calls \ {c} : \E r \in Uncommitted(d) : r.content = content}
IsKeyTaken(c, content) ==     \* Mutant: unique is the storage key, not the checksum.
    \E r \in images \cup Uncommitted(c) : r.key = KeyOf(c, call[c].at)
IsTaken(c, content) == \E r \in images \cup Uncommitted(c) : r.content = content
NextContent(c) == Sent[c][call[c].at]

\* Mutant: a refused insert is answered as a duplicate.
InsertImageOrReport(u) ==
    /\ u \in Uploads /\ call[u].pc = "insert"
    /\ RowOwners(u, NextContent(u)) = {}
    /\ IF IsTaken(u, NextContent(u))
       THEN Drop(u, "duplicate")
       ELSE /\ Go(u, [call[u] EXCEPT !.pc = "head", !.inserted = {1}])
            /\ UNCHANGED auditLock
    /\ UNCHANGED <<tables, blobs, failures>>

InsertImage(u) ==
    /\ u \in Uploads /\ call[u].pc = "insert"
    /\ RowOwners(u, NextContent(u)) = {}
    /\ IF IsTaken(u, NextContent(u))
       THEN Go(u, [call[u] EXCEPT !.pc = "deleting"])
       ELSE Go(u, [call[u] EXCEPT !.pc = "head", !.inserted = {1}])
    /\ UNCHANGED <<tables, blobs, auditLock, failures>>

\* The compensating action of a failed ingestion; only then does it roll back.
Compensate(u) ==
    /\ call[u].pc = "deleting"
    /\ blobs' = blobs \ {KeyOf(u, 1)}
    /\ Drop(u, "failed")
    /\ UNCHANGED <<tables, failures>>

-----------------------------------------------------------------------------
(* A prediction request. *)

\* Mutant: contents of one batch are resolved without looking at each other.
ResolveEach(p) ==
    /\ p \in Requests /\ call[p].pc = "start"
    /\ \E ids \in [DOMAIN Sent[p] -> RowId] :
         /\ \A i \in DOMAIN ids :
              LET known == {r \in images : r.content = Sent[p][i]}
              IN  IF known # {} THEN \E r \in known : ids[i] = r.id ELSE ids[i] = <<p, i>>
         /\ Go(p, [call[p] EXCEPT !.pc = "put", !.image = ids])
    /\ UNCHANGED <<tables, blobs, auditLock, failures>>

\* _resolve: each content's row is the committed one, the one an earlier content of the
\* batch will get, or a new one.  The lookups of a batch are one step: were a content to be
\* committed between two of them, the batch would be refused where it inserts it, as it is
\* when that happens after them all.
FirstWith(content, batch) ==
    CHOOSE i \in DOMAIN batch : batch[i] = content /\ \A j \in 1..(i - 1) : batch[j] # content
Resolve(p) ==
    /\ p \in Requests /\ call[p].pc = "start"
    /\ \E ids \in [DOMAIN Sent[p] -> RowId] :
         /\ \A i \in DOMAIN ids :
              LET known == {r \in images : r.content = Sent[p][i]}
              IN  IF known # {} THEN \E r \in known : ids[i] = r.id
                                ELSE ids[i] = <<p, FirstWith(Sent[p][i], Sent[p])>>
         /\ Go(p, [call[p] EXCEPT !.pc = "put", !.image = ids])
    /\ UNCHANGED <<tables, blobs, auditLock, failures>>

\* Mutant: a refused request deletes its objects, as an ingestion does.
RecordOrClean(p) ==
    /\ p \in Requests /\ call[p].pc = "insert"
    /\ IF call[p].image[call[p].at] = <<p, call[p].at>>
       THEN /\ RowOwners(p, NextContent(p)) = {}
            /\ IF IsTaken(p, NextContent(p))
               THEN Drop(p, "refused") /\ blobs' = blobs \ NewKeys(p)
               ELSE /\ Go(p, [call[p] EXCEPT !.pc = "head", !.inserted = @ \cup {call[p].at}])
                    /\ UNCHANGED <<auditLock, blobs>>
       ELSE Go(p, [call[p] EXCEPT !.pc = "head"]) /\ UNCHANGED <<auditLock, blobs>>
    /\ UNCHANGED <<tables, failures>>

\* The images are scored; then one transaction inserts, image by image, the row if it is
\* new and the prediction.  A request that is refused leaves its objects where they are.
RecordPrediction(p) ==
    /\ p \in Requests /\ call[p].pc = "insert"
    /\ IF call[p].image[call[p].at] = <<p, call[p].at>>
       THEN /\ RowOwners(p, NextContent(p)) = {}
            /\ IF IsTaken(p, NextContent(p))
               THEN Drop(p, "refused")
               ELSE /\ Go(p, [call[p] EXCEPT !.pc = "head", !.inserted = @ \cup {call[p].at}])
                    /\ UNCHANGED auditLock
       ELSE Go(p, [call[p] EXCEPT !.pc = "head"]) /\ UNCHANGED auditLock
    /\ UNCHANGED <<tables, blobs, failures>>

-----------------------------------------------------------------------------
(* A feedback. *)

\* Mutant: only a correction relabels the image.
LoadCorrection(v) ==
    /\ v \in Reviews /\ call[v].pc = "start"
    /\ \E p \in predictions, answer \in Corrections, row \in images :
         LET truth == IF answer = None THEN p.label ELSE answer
             label == IF answer = None THEN row.label ELSE answer
         IN  /\ row.id = p.image
             /\ Go(v, [call[v] EXCEPT !.pc = "update", !.read = row, !.write = Fold(row, label),
                         !.fb = [id |-> v, prediction |-> p, truth |-> truth,
                                 before |-> {f.id : f \in feedback}]])
    /\ UNCHANGED <<tables, blobs, auditLock, failures>>

\* It reads a prediction and, later in the transaction, the image; the truth is the
\* correction, or what the prediction implied.
Load(v) ==
    /\ v \in Reviews /\ call[v].pc = "start"
    /\ \E p \in predictions, answer \in Corrections, row \in images :
         LET truth == IF answer = None THEN p.label ELSE answer
         IN  /\ row.id = p.image
             /\ Go(v, [call[v] EXCEPT !.pc = "update", !.read = row, !.write = Fold(row, truth),
                         !.fb = [id |-> v, prediction |-> p, truth |-> truth,
                                 before |-> {f.id : f \in feedback}]])
    /\ UNCHANGED <<tables, blobs, auditLock, failures>>

\* The session flushes the UPDATE, if any column differs, which waits for the row's lock.
UpdateImage(v) ==
    /\ call[v].pc = "update"
    /\ call[v].write # call[v].read => \A d \in Reviews \ {v} : ~Holds(d, call[v].read.id)
    /\ Go(v, [call[v] EXCEPT !.pc = "head"])
    /\ UNCHANGED <<tables, blobs, auditLock, failures>>

-----------------------------------------------------------------------------
(* What all three do with the audit log, and how they end. *)

ReadHead(c) ==
    /\ call[c].pc = "head"
    /\ Go(c, [call[c] EXCEPT !.pc = "append", !.head = auditLen + call[c].events])
    /\ UNCHANGED <<tables, blobs, auditLock, failures>>

MayLock(c) == auditLock \in {None, c}
HeadStands(c) == call[c].head = auditLen + call[c].events

\* An event is appended under the audit log's lock; a batch goes on to its next image.
AppendAudit(c) ==
    /\ call[c].pc = "append" /\ MayLock(c) /\ HeadStands(c)
    /\ auditLock' = c
    /\ LET more == c \in Requests /\ call[c].at < Len(Sent[c])
       IN  Go(c, [call[c] EXCEPT !.events = @ + 1,
                    !.pc = IF more THEN "insert" ELSE "commit",
                    !.at = IF more THEN @ + 1 ELSE @])
    /\ UNCHANGED <<tables, blobs, failures>>

\* Mutant: the exception is handled inside the unit of work, which stays open.
RefuseAuditInside(c) ==
    /\ call[c].pc = "append" /\ MayLock(c) /\ ~HeadStands(c)
    /\ auditLock' = c
    /\ Go(c, [call[c] EXCEPT !.pc = IF c \in Uploads THEN "deleting" ELSE "failed"])
    /\ UNCHANGED <<tables, blobs, failures>>

\* The head moved since it was read: the call fails, and an ingestion deletes its object
\* with its row and the lock still in hand.
RefuseAudit(c) ==
    /\ call[c].pc = "append" /\ MayLock(c) /\ ~HeadStands(c)
    /\ IF c \in Uploads THEN Go(c, [call[c] EXCEPT !.pc = "deleting"]) /\ auditLock' = c
                        ELSE Drop(c, "failed")
    /\ UNCHANGED <<tables, blobs, failures>>

\* Its rows become visible together: of an updated image, the columns that the review
\* changed.
Updated(c, row) ==
    IF call[c].write # call[c].read /\ row.id = call[c].read.id
    THEN [col \in DOMAIN row |-> IF call[c].write[col] = call[c].read[col]
                                 THEN row[col] ELSE call[c].write[col]]
    ELSE row
Served(c) == {[id |-> <<c, i>>, image |-> call[c].image[i],
               label |-> IF Sent[c][i] \in Flagged THEN "defect" ELSE "good"]
              : i \in DOMAIN Sent[c]}

Commit(c) ==
    /\ call[c].pc = "commit"
    /\ images' = {Updated(c, r) : r \in images} \cup Uncommitted(c)
    /\ predictions' = IF c \in Requests THEN predictions \cup Served(c) ELSE predictions
    /\ feedback' = IF c \in Reviews THEN feedback \cup {call[c].fb} ELSE feedback
    /\ auditLen' = auditLen + call[c].events
    /\ Drop(c, "done")
    /\ UNCHANGED <<blobs, failures>>

\* A step raises.  The ingestion's try block covers what follows the put, up to the commit.
Fail(c) ==
    /\ call[c].pc \in {"put", "insert", "update", "head", "append"}
    /\ failures < MaxFailures /\ failures' = failures + 1
    /\ IF c \in Uploads /\ call[c].pc # "put"
       THEN Go(c, [call[c] EXCEPT !.pc = "deleting"]) /\ UNCHANGED auditLock
       ELSE Drop(c, "failed")
    /\ UNCHANGED <<tables, blobs>>

\* The process dies or the call is cancelled, the commit itself fails, or the compensating
\* delete does: the transaction is rolled back and nothing else is done.
Lose(c) ==
    /\ call[c].pc \notin Ended \cup {"start"}
    /\ failures < MaxFailures /\ failures' = failures + 1
    /\ Drop(c, "lost")
    /\ UNCHANGED <<tables, blobs>>

\* The call for which c waits: the owner of a row with the content it inserts, or of the
\* audit lock.  A call inserts its second row only with the audit lock in hand, so two
\* calls that wait for each other are the only deadlock.
WaitsFor(c, d) ==
    \/ call[c].pc = "insert" /\ d \in RowOwners(c, NextContent(c))
       /\ call[c].image[call[c].at] = <<c, call[c].at>>
    \/ call[c].pc = "append" /\ auditLock = d /\ c # d

\* PostgreSQL detects it and aborts one of them, which raises there.
BreakDeadlock(c) ==
    /\ \E d \in Calls : WaitsFor(c, d) /\ WaitsFor(d, c)
    /\ IF c \in Uploads
       THEN /\ Go(c, [call[c] EXCEPT !.pc = "deleting", !.inserted = {}])
            /\ Unlock(c)
       ELSE Drop(c, "failed")
    /\ UNCHANGED <<tables, blobs, failures>>

Begin(c) == Check(c) \/ Resolve(c) \/ Load(c)

Continue(c) ==
    \/ Put(c) \/ InsertImage(c) \/ RecordPrediction(c) \/ UpdateImage(c)
    \/ ReadHead(c) \/ AppendAudit(c) \/ RefuseAudit(c)
    \/ Compensate(c) \/ Commit(c)

Next == \E c \in Calls : Begin(c) \/ Continue(c) \/ BreakDeadlock(c) \/ Fail(c) \/ Lose(c)

\* The event loop runs what can run, and PostgreSQL looks for deadlocks.
Fairness == \A c \in Calls : WF_vars(Continue(c)) /\ WF_vars(BreakDeadlock(c))

Spec == Init /\ [][Next]_vars
FairSpec == Spec /\ Fairness

-----------------------------------------------------------------------------
TypeOK ==
    /\ images \subseteq Row
    /\ blobs \subseteq Key
    /\ predictions \subseteq Prediction
    /\ feedback \subseteq Feedback
    /\ auditLen \in Nat /\ failures \in Nat
    /\ auditLock \in Calls \cup {None}
    /\ call \in [Calls -> Call]

\* A checksum names at most one image, whichever ingestions and predictions of the same
\* bytes overlap.
OneRowPerContent ==
    \A r, s \in images : r.content = s.content => r = s

\* An image that was only scored keeps its bytes.  An ingested one loses them only to the
\* compensating delete of another ingestion with the same content-addressed key.
BytesAreKept == \A r \in images : r.key \notin blobs =>
    \E u \in Uploads : KeyOf(u, 1) = r.key /\ <<u, 1>> # r.id /\ call[u].pc = "failed"

\* An ingested object no row names belongs to a call that still runs, or to one that was
\* cut off before it could compensate.
OrphansAreExplained == \A k \in blobs : k.kind = "raw" =>
    \/ \E r \in images : r.key = k
    \/ \E u \in Uploads : KeyOf(u, 1) = k
         /\ call[u].pc \in {"insert", "head", "append", "commit", "deleting", "lost"}

\* Every prediction is of the image it was asked for, and a request is refused for a
\* duplicate checksum only because of another call, never because it repeats an image.
RequestsFindTheirImages ==
    /\ \A p \in predictions :
         \E r \in images : r.id = p.image /\ r.content = Sent[p.id[1]][p.id[2]]
    /\ \A p \in Requests : call[p].pc = "refused" =>
         \E r \in images : r.content \in Range(Sent[p]) /\ r.id[1] # p

\* An image may be trained on exactly when it passed validation or an operator judged it; a
\* judgement is never lost to one that overlaps it, and a judged image bears the truth of a
\* judgement that none made in its knowledge follows.
JudgementsStand == \A r \in images :
    LET judgements == {f \in feedback : f.prediction.image = r.id}
    IN  /\ r.status = "valid" <=> r.id[1] \in Uploads \/ judgements # {}
        /\ r.reviewed <=> judgements # {}
        /\ r.reviewed => \E f \in judgements :
             f.truth = r.label /\ \A g \in judgements : f.id \notin g.before

\* Whatever waits for a row or for the audit log, every call that began ends.
EveryCallEnds == \A c \in Calls : call[c].pc # "start" ~> call[c].pc \in Ended

\* Claimed of the platform: images are never deleted.
AcceptedBytesRemain == \A r \in images : r.key \in blobs
=============================================================================
