-------------------------- MODULE ImageCatalogProofs --------------------------
(***************************************************************************)
(* Proofs about images in the table and the bucket, for any number of       *)
(* ingestions, batches and reviews, of any contents, that overlap and fail  *)
(* in any way.                                                              *)
(***************************************************************************)
EXTENDS ImageCatalog, TLAPS, WellFoundedInduction

\* Where a call's objects are stored and its rows may yet be committed.
Storing == {"insert", "head", "append", "commit"}
\* Where an ingestion's object may be in the bucket without a row.
Holding == Storing \cup {"deleting", "lost"}

\* What a call's record says at each of its steps.
Shape(c, x) ==
    /\ x.pc \in Ended \cup {"start", "put"} => x.inserted = {}
    /\ c \in Senders =>
         /\ x.at \in DOMAIN Sent[c] /\ x.inserted \subseteq DOMAIN Sent[c]
         /\ x.pc # "update" /\ x.read = None /\ x.write = None
         /\ x.pc \in Storing \cup {"put"} => DOMAIN x.image = DOMAIN Sent[c]
         /\ x.pc \in Storing => \A i \in x.inserted : x.image[i] = <<c, i>>
    /\ c \in Uploads =>
         /\ x.pc \in Storing \cup {"put"} => x.image[1] = <<c, 1>>
         /\ x.pc \in Storing \ {"insert"} => x.inserted = {1}
    /\ x.pc = "deleting" => c \in Uploads
    /\ c \in Reviews =>
         /\ x.inserted = {} /\ x.pc \notin {"put", "insert"}
         /\ x.pc \in {"update", "head", "append", "commit"} =>
              /\ x.fb \in Feedback /\ x.read \in Row /\ x.write \in Row
              /\ x.write.id = x.read.id /\ x.write.content = x.read.content
              /\ x.write.key = x.read.key
ShapeInv == \A c \in Calls : Shape(c, call[c])

\* Rows that are committed or may be have contents of their own.
UniqueInv ==
    /\ OneRowPerContent
    /\ \A c \in Calls : \A r \in Uncommitted(c), s \in images : r.content # s.content
    /\ \A c, d \in Calls : \A r \in Uncommitted(c), s \in Uncommitted(d) :
         r.content = s.content => r = s

\* An object is there, or an ingestion other than c that shares its key has deleted it.
Kept(k, c) ==
    k \in blobs \/ \E u \in Uploads \ {c} : KeyOf(u, 1) = k /\ call[u].pc = "failed"

\* Objects of rows that are committed or may be; a committed row's inserter is done.
BytesInv ==
    /\ \A r \in images : r.id[1] \in Calls /\ call[r.id[1]].pc = "done" /\ Kept(r.key, r.id[1])
    /\ \A c \in Senders : call[c].pc \in Storing =>
         \A i \in DOMAIN Sent[c] : call[c].image[i] = <<c, i>> => Kept(KeyOf(c, i), c)

Inv == TypeOK /\ ShapeInv /\ UniqueInv /\ BytesInv /\ OrphansAreExplained

-----------------------------------------------------------------------------
\* A call carries at least one content, and a list is defined from 1 to its length.
LEMMA SentType ==
    ASSUME NEW c \in Senders
    PROVE  /\ c \in Calls
           /\ Sent[c] \in Seq(Contents) /\ DOMAIN Sent[c] = 1..Len(Sent[c])
           /\ Len(Sent[c]) \in Nat /\ 1 \in DOMAIN Sent[c]
           /\ c \in Uploads => DOMAIN Sent[c] = {1}
<1>1. Sent[c] \in Seq(Contents)
  BY SentAssumption
<1>2. DOMAIN Sent[c] = 1..Len(Sent[c]) /\ Len(Sent[c]) \in Nat
  BY <1>1
<1>3. c \in Uploads => Len(Sent[c]) = 1
  BY SentAssumption
<1>4. c \in Requests => Len(Sent[c]) >= 1
  BY SentAssumption
<1>5. c \in Uploads \/ c \in Requests
  BY DEF Senders
<1>6. c \in Calls
  BY <1>5 DEF Calls
<1>7. Len(Sent[c]) >= 1
  <2>1. CASE c \in Uploads
    <3>1. Len(Sent[c]) = 1
      BY <2>1, <1>3
    <3> QED BY <3>1
  <2>2. CASE c \in Requests
    BY <2>2, <1>4
  <2> QED BY <2>1, <2>2, <1>5
<1>8. c \in Uploads => DOMAIN Sent[c] = {1}
  <2>1. 1..1 = {1}
    OBVIOUS
  <2> QED BY <1>2, <1>3, <2>1
<1>9. 1 \in DOMAIN Sent[c]
  BY <1>2, <1>7
<1> QED BY <1>1, <1>2, <1>6, <1>8, <1>9

\* The rows a call inserts are rows, under its own id and key.
LEMMA NewRowType ==
    ASSUME NEW c \in Senders, NEW i \in DOMAIN Sent[c]
    PROVE  /\ <<c, i>> \in RowId /\ KeyOf(c, i) \in Key
           /\ NewRow(c, i) \in Row
           /\ NewRow(c, i).id = <<c, i>> /\ NewRow(c, i).content = Sent[c][i]
           /\ NewRow(c, i).key = KeyOf(c, i)
<1>1. <<c, i>> \in RowId
  BY DEF RowId
<1>2. Sent[c][i] \in Contents
  BY SentType
<1>3. FolderOf[c] \in Range(FolderOf)
  BY InputsAssumption DEF Range
<1>4. KeyOf(c, i) \in Key
  BY <1>2, <1>3 DEF Key, KeyOf
<1>5. /\ (IF c \in Uploads THEN LabelOf[c] ELSE "unlabeled") \in Labels
      /\ (IF c \in Uploads THEN "valid" ELSE "pending") \in DOMAIN AllowedTransitions
  BY InputsAssumption DEF Labels, AllowedTransitions
<1>6. NewRow(c, i) \in Row
  BY <1>1, <1>2, <1>4, <1>5 DEF NewRow, Row
<1> QED BY <1>1, <1>4, <1>6 DEF NewRow

\* What a review writes is the row it read, with another status, label and flag.
LEMMA FoldType ==
    ASSUME NEW row \in Row, NEW truth \in Labels
    PROVE  /\ Fold(row, truth) \in Row
           /\ Fold(row, truth).id = row.id /\ Fold(row, truth).content = row.content
           /\ Fold(row, truth).key = row.key
<1>1. "valid" \in DOMAIN AllowedTransitions
  BY DEF AllowedTransitions
<1> DEFINE st == IF MayBecome(row.status, "valid") THEN "valid" ELSE row.status
<1>2. st \in DOMAIN AllowedTransitions
  BY <1>1 DEF Row
<1> DEFINE x == [row EXCEPT !.status = st, !.label = truth]
<1>3. x \in Row /\ x.id = row.id /\ x.content = row.content /\ x.key = row.key
  <2> HIDE DEF st
  <2> QED BY <1>2 DEF Row
<1>4. Fold(row, truth) = [x EXCEPT !.reviewed = TRUE]
  BY DEF Fold, Row
<1> HIDE DEF x
<1> QED BY <1>3, <1>4 DEF Row

\* A row that a commit updates keeps its id, its content and its key.
LEMMA UpdatedType ==
    ASSUME Inv, NEW c \in Calls, call[c].pc = "commit", NEW row \in Row
    PROVE  /\ Updated(c, row) \in Row
           /\ Updated(c, row).id = row.id /\ Updated(c, row).content = row.content
           /\ Updated(c, row).key = row.key
<1>1. CASE Updated(c, row) = row
  BY <1>1
<1>2. CASE Updated(c, row) # row
  <2>1. call[c].write # call[c].read
    BY <1>2 DEF Updated
  <2>2. c \in Reviews
    BY <2>1 DEF Inv, ShapeInv, Shape, Calls, Senders
  <2>3. /\ call[c].read \in Row /\ call[c].write \in Row
        /\ call[c].write.id = call[c].read.id /\ call[c].write.content = call[c].read.content
        /\ call[c].write.key = call[c].read.key
    BY <2>2 DEF Inv, ShapeInv, Shape
  <2> DEFINE x == [col \in DOMAIN row |-> IF call[c].write[col] = call[c].read[col]
                                          THEN row[col] ELSE call[c].write[col]]
  <2>4. Updated(c, row) = x
    BY <1>2 DEF Updated
  <2>5. DOMAIN row = {"id", "content", "key", "status", "label", "reviewed"}
    BY DEF Row
  <2>6. x = [id |-> x["id"], content |-> x["content"], key |-> x["key"],
             status |-> x["status"], label |-> x["label"], reviewed |-> x["reviewed"]]
    BY <2>5
  <2>7. /\ x.id = row.id /\ x.content = row.content /\ x.key = row.key
        /\ x.status \in DOMAIN AllowedTransitions /\ x.label \in Labels /\ x.reviewed \in BOOLEAN
    BY <2>3, <2>5 DEF Row
  <2>8. x \in Row
    BY <2>6, <2>7 DEF Row
  <2> QED BY <2>4, <2>7, <2>8
<1> QED BY <1>1, <1>2

-----------------------------------------------------------------------------
\* A step of one call leaves the records of the others.
LEMMA OneCall ==
    ASSUME TypeOK, NEW c \in Calls, NEW x \in Call, Go(c, x)
    PROVE  /\ call' \in [Calls -> Call]
           /\ call'[c] = x
           /\ \A d \in Calls \ {c} : call'[d] = call[d] /\ Uncommitted(d)' = Uncommitted(d)
<1>1. call \in [Calls -> Call] /\ call' = [call EXCEPT ![c] = x]
  BY DEF TypeOK, Go
<1>2. \A d \in Calls \ {c} : call'[d] = call[d]
  BY <1>1
<1> QED BY <1>1, <1>2 DEF Uncommitted

\* An object is kept for a call as long as it is in the bucket and failed ingestions stay so.
LEMMA StaysKept ==
    ASSUME NEW k, NEW c, Kept(k, c), blobs \subseteq blobs',
           \A u \in Uploads : call[u].pc = "failed" => call'[u].pc = "failed"
    PROVE  Kept(k, c)'
BY DEF Kept

\* The steps that touch neither table nor bucket and insert nothing preserve the invariant.
LEMMA LocalStep ==
    ASSUME Inv, NEW c \in Calls, NEW x \in Call, Go(c, x), Shape(c, x),
           UNCHANGED <<tables, blobs>>,
           auditLock' \in Calls \cup {None}, failures' \in Nat,
           call[c].pc \notin Ended,
           x.inserted \subseteq call[c].inserted,
           c \in Senders /\ x.pc \in Storing =>
             call[c].pc \in Storing /\ x.image = call[c].image,
           c \in Uploads /\ call[c].pc \in Holding => x.pc \in Holding
    PROVE  Inv'
<1> USE DEF tables
<1>1. /\ call' \in [Calls -> Call] /\ call'[c] = x
      /\ \A d \in Calls \ {c} : call'[d] = call[d] /\ Uncommitted(d)' = Uncommitted(d)
  BY OneCall DEF Inv
<1>2. TypeOK'
  BY <1>1 DEF Inv, TypeOK
<1>3. ShapeInv'
  <2>1. \A d \in Calls : Shape(d, call'[d])
    BY <1>1 DEF Inv, ShapeInv
  <2> QED BY <2>1 DEF ShapeInv, Shape
<1>4. UniqueInv'
  <2>1. Uncommitted(c)' \subseteq Uncommitted(c)
    BY <1>1 DEF Uncommitted, NewRow, KeyOf
  <2>2. \A d \in Calls : Uncommitted(d)' \subseteq Uncommitted(d)
    BY <1>1, <2>1
  <2> QED BY <2>2 DEF Inv, UniqueInv, OneRowPerContent
<1>5. \A u \in Uploads : call[u].pc = "failed" => call'[u].pc = "failed"
  BY <1>1 DEF Ended, Calls
<1>6. BytesInv'
  <2>1. \A r \in images' :
          r.id[1] \in Calls /\ call'[r.id[1]].pc = "done" /\ Kept(r.key, r.id[1])'
    <3>1. TAKE r \in images'
    <3>2. r.id[1] \in Calls /\ call[r.id[1]].pc = "done" /\ Kept(r.key, r.id[1])
      BY DEF Inv, BytesInv
    <3>3. call'[r.id[1]].pc = "done"
      BY <3>2, <1>1 DEF Ended
    <3> QED BY <3>2, <3>3, <1>5, StaysKept
  <2>2. ASSUME NEW d \in Senders, call'[d].pc \in Storing,
               NEW i \in DOMAIN Sent[d], call'[d].image[i] = <<d, i>>
        PROVE  Kept(KeyOf(d, i), d)'
    <3>1. call[d].pc \in Storing /\ call[d].image[i] = <<d, i>>
      BY <2>2, <1>1, SentType
    <3>2. Kept(KeyOf(d, i), d)
      BY <3>1 DEF Inv, BytesInv
    <3> QED BY <3>2, <1>5, StaysKept DEF KeyOf, Kept
  <2> QED BY <2>1, <2>2 DEF BytesInv
<1>7. OrphansAreExplained'
  <2>1. \A u \in Uploads : call[u].pc \in Holding => call'[u].pc \in Holding
    BY <1>1 DEF Calls
  <2> QED BY <2>1 DEF Inv, OrphansAreExplained, Holding, Storing, KeyOf
<1> QED BY <1>2, <1>3, <1>4, <1>6, <1>7 DEF Inv

\* The record of a call that is over.
LEMMA FreshType ==
    ASSUME NEW end \in Steps
    PROVE  /\ [Fresh EXCEPT !.pc = end] \in Call
           /\ [Fresh EXCEPT !.pc = end].pc = end
           /\ [Fresh EXCEPT !.pc = end].inserted = {}
           /\ [Fresh EXCEPT !.pc = end].at = 1
           /\ [Fresh EXCEPT !.pc = end].read = None
           /\ [Fresh EXCEPT !.pc = end].write = None
<1>1. Fresh \in Call
  <2>1. <<>> \in Seq(RowId)
    OBVIOUS
  <2>2. "start" \in Steps
    BY DEF Steps
  <2> QED BY <2>1, <2>2 DEF Fresh, Call
<1>2. Fresh.inserted = {} /\ Fresh.at = 1 /\ Fresh.read = None /\ Fresh.write = None
  BY DEF Fresh
<1> QED BY <1>1, <1>2 DEF Call

\* A call that ends with nothing committed, and whose object, if it is an ingestion, is
\* accounted for.
LEMMA DropStep ==
    ASSUME Inv, NEW c \in Calls, NEW end \in Ended, Drop(c, end), UNCHANGED <<tables, blobs>>,
           failures' \in Nat, call[c].pc \notin Ended,
           c \in Uploads /\ call[c].pc \in Holding => end = "lost"
    PROVE  Inv'
<1> DEFINE x == [Fresh EXCEPT !.pc = end]
<1>1. /\ x \in Call /\ x.pc = end /\ x.inserted = {} /\ x.at = 1
      /\ x.read = None /\ x.write = None
  BY FreshType DEF Steps
<1> HIDE DEF x
<1>3. Shape(c, x)
  BY <1>1, SentType DEF Shape, Storing, Ended
<1>4. Go(c, x) /\ auditLock' \in Calls \cup {None}
  BY DEF Drop, Unlock, Inv, TypeOK, x
<1>5. /\ x.inserted \subseteq call[c].inserted
      /\ x.pc \in Storing => FALSE
      /\ c \in Uploads /\ call[c].pc \in Holding => x.pc \in Holding
  BY <1>1 DEF Storing, Holding, Ended
<1> QED BY <1>1, <1>3, <1>4, <1>5, LocalStep

\* The fields of a call.
LEMMA CallType ==
    ASSUME Inv, NEW c \in Calls
    PROVE  /\ call[c] \in Call /\ Shape(c, call[c])
           /\ auditLock \in Calls \cup {None} /\ failures \in Nat /\ auditLen \in Nat
BY DEF Inv, TypeOK, ShapeInv

\* A step that only moves a call on, within the part of its life in which it has a
\* transaction and its objects.
LEMMA MoveStep ==
    ASSUME Inv, NEW c \in Calls, NEW to \in Steps, NEW at \in Nat, NEW head \in Nat,
           NEW events \in Nat,
           Go(c, [call[c] EXCEPT !.pc = to, !.at = at, !.head = head, !.events = events]),
           UNCHANGED <<tables, blobs>>,
           auditLock' \in Calls \cup {None}, failures' \in Nat,
           call[c].pc \in Storing \cup {"update"}, to \in Storing \cup {"deleting"},
           call[c].pc = "update" => to # "insert" /\ to # "deleting",
           to = "deleting" => c \in Uploads,
           c \in Senders => at \in DOMAIN Sent[c],
           c \notin Requests => to # "insert",
           c \in Uploads /\ call[c].pc = "insert" => to = "deleting"
    PROVE  Inv'
<1> DEFINE x == [call[c] EXCEPT !.pc = to, !.at = at, !.head = head, !.events = events]
<1>1. call[c] \in Call /\ Shape(c, call[c])
  BY CallType
<1>2. x \in Call
  BY <1>1 DEF Call
<1>3. /\ x.pc = to /\ x.at = at /\ x.image = call[c].image
      /\ x.inserted = call[c].inserted /\ x.fb = call[c].fb /\ x.read = call[c].read
      /\ x.write = call[c].write
  BY <1>1 DEF Call
<1> HIDE DEF x
<1>4. Shape(c, x)
  <2>1. CASE c \in Uploads
    <3>1. c \in Senders /\ c \notin Reviews /\ call[c].pc \in Storing
      BY <2>1, <1>1, CallsAssumption DEF Senders, Shape
    <3>2. to \notin Ended \cup {"start", "put", "update"}
      BY DEF Storing, Ended
    <3>3. to \in Storing => call[c].inserted = {1}
      BY <1>1, <2>1, <3>1 DEF Shape, Storing
    <3> QED BY <1>1, <1>3, <2>1, <3>1, <3>2, <3>3 DEF Shape
  <2>2. CASE c \in Requests
    <3>1. c \in Senders /\ c \notin Reviews /\ c \notin Uploads /\ call[c].pc \in Storing
      BY <2>2, <1>1, CallsAssumption DEF Senders, Shape
    <3>2. to \in Storing /\ to \notin Ended \cup {"start", "put", "update", "deleting"}
      BY <3>1 DEF Storing, Ended
    <3> QED BY <1>1, <1>3, <2>2, <3>1, <3>2 DEF Shape
  <2>3. CASE c \in Reviews
    <3>1. c \notin Senders /\ c \notin Uploads /\ c \notin Requests
      BY <2>3, CallsAssumption DEF Senders
    <3>2. to \in {"head", "append", "commit"}
      BY <3>1 DEF Storing
    <3>3. call[c].pc \in {"update", "head", "append", "commit"}
      BY <1>1, <2>3 DEF Shape, Storing
    <3> QED BY <1>1, <1>3, <2>3, <3>1, <3>2, <3>3 DEF Shape, Ended
  <2> QED BY <2>1, <2>2, <2>3 DEF Calls
<1>5. /\ call[c].pc \notin Ended
      /\ c \in Senders /\ x.pc \in Storing =>
           call[c].pc \in Storing /\ x.image = call[c].image
  BY <1>1, <1>3 DEF Storing, Ended, Shape
<1> QED BY <1>2, <1>3, <1>4, <1>5, LocalStep DEF Holding, x

-----------------------------------------------------------------------------
\* The empty tables, and calls that have not begun.
LEMMA InitInv == Init => Inv
<1> SUFFICES ASSUME Init PROVE Inv
  OBVIOUS
<1>1. /\ Fresh \in Call /\ Fresh.pc = "start" /\ Fresh.inserted = {} /\ Fresh.at = 1
      /\ Fresh.read = None /\ Fresh.write = None
  <2>1. Fresh = [Fresh EXCEPT !.pc = "start"] /\ Fresh.pc = "start"
    BY DEF Fresh
  <2>2. "start" \in Steps
    BY DEF Steps
  <2> QED BY <2>1, <2>2, FreshType
<1>2. \A c \in Calls : call[c] = Fresh
  BY DEF Init
<1>3. TypeOK
  BY <1>1 DEF Init, TypeOK
<1>4. ShapeInv
  <2>1. ASSUME NEW c \in Calls
        PROVE  Shape(c, Fresh)
    BY <1>1, SentType DEF Shape, Storing, Ended
  <2> QED BY <2>1, <1>2 DEF ShapeInv
<1>5. UniqueInv
  <2>1. \A c \in Calls : Uncommitted(c) = {}
    BY <1>1, <1>2 DEF Uncommitted
  <2> QED BY <2>1 DEF UniqueInv, OneRowPerContent, Init
<1>6. BytesInv
  <2>1. \A c \in Senders : call[c].pc \notin Storing
    BY <1>1, <1>2, SentType DEF Storing
  <2> QED BY <2>1 DEF Init, BytesInv
<1>7. OrphansAreExplained
  BY DEF Init, OrphansAreExplained
<1> QED BY <1>3, <1>4, <1>5, <1>6, <1>7 DEF Inv

\* Whether it finds a duplicate or not, an upload that begins has stored nothing.
LEMMA CheckInv == ASSUME Inv, NEW c \in Calls, Check(c) PROVE Inv'
<1>1. /\ c \in Uploads /\ c \in Senders /\ c \notin Reviews /\ call[c].pc = "start"
      /\ UNCHANGED <<tables, blobs, failures>>
  BY CallsAssumption DEF Check, Senders
<1>2. /\ call[c] \in Call /\ Shape(c, call[c])
      /\ auditLock \in Calls \cup {None} /\ failures \in Nat
  BY CallType
<1>3. CASE Drop(c, "duplicate")
  BY <1>1, <1>2, <1>3, DropStep DEF Ended, Holding, Storing
<1>4. CASE Go(c, [call[c] EXCEPT !.pc = "put", !.image = <<<<c, 1>>>>]) /\ UNCHANGED auditLock
  <2> DEFINE x == [call[c] EXCEPT !.pc = "put", !.image = <<<<c, 1>>>>]
  <2>1. <<c, 1>> \in RowId
    BY <1>1, SentType, NewRowType
  <2>2. /\ <<<<c, 1>>>> \in Seq(RowId) /\ DOMAIN <<<<c, 1>>>> = {1}
        /\ <<<<c, 1>>>>[1] = <<c, 1>>
    BY <2>1
  <2>3. x \in Call
    BY <1>2, <2>2 DEF Call, Steps
  <2>4. /\ x.pc = "put" /\ x.image = <<<<c, 1>>>> /\ x.at = call[c].at
        /\ x.inserted = call[c].inserted /\ x.read = call[c].read /\ x.write = call[c].write
    BY <1>2 DEF Call
  <2>5. DOMAIN x.image = DOMAIN Sent[c] /\ x.image[1] = <<c, 1>>
    BY <1>1, <2>2, <2>4, SentType
  <2> HIDE DEF x
  <2>6. Shape(c, x)
    BY <1>1, <1>2, <2>4, <2>5 DEF Shape, Storing, Ended
  <2> QED BY <1>1, <1>2, <1>4, <2>3, <2>4, <2>6, LocalStep DEF x, Storing, Holding, Ended
<1> QED BY <1>3, <1>4 DEF Check

\* A batch that begins decides which rows it will use.
LEMMA ResolveInv == ASSUME Inv, NEW c \in Calls, Resolve(c) PROVE Inv'
<1>1. /\ c \in Requests /\ c \in Senders /\ c \notin Reviews /\ c \notin Uploads
      /\ call[c].pc = "start" /\ UNCHANGED <<tables, blobs, auditLock, failures>>
  BY CallsAssumption DEF Resolve, Senders
<1>2. /\ call[c] \in Call /\ Shape(c, call[c])
      /\ auditLock \in Calls \cup {None} /\ failures \in Nat
  BY CallType
<1>3. PICK ids \in [DOMAIN Sent[c] -> RowId] :
        Go(c, [call[c] EXCEPT !.pc = "put", !.image = ids])
  BY DEF Resolve
<1> DEFINE x == [call[c] EXCEPT !.pc = "put", !.image = ids]
<1>4. ids \in Seq(RowId) /\ DOMAIN ids = DOMAIN Sent[c]
  BY <1>1, SentType
<1>5. x \in Call
  BY <1>2, <1>4 DEF Call, Steps
<1>6. /\ x.pc = "put" /\ x.image = ids /\ x.at = call[c].at
      /\ x.inserted = call[c].inserted /\ x.read = call[c].read /\ x.write = call[c].write
  BY <1>2 DEF Call
<1> HIDE DEF x
<1>7. Shape(c, x)
  BY <1>1, <1>2, <1>4, <1>6 DEF Shape, Storing, Ended
<1>8. x.pc \notin Storing /\ call[c].pc \notin Ended /\ call[c].pc \notin Holding
  BY <1>1, <1>6 DEF Storing, Holding, Ended
<1> QED BY <1>1, <1>2, <1>3, <1>5, <1>6, <1>7, <1>8, LocalStep DEF x

\* A review reads a row and decides what to write in it.
LEMMA LoadInv == ASSUME Inv, NEW c \in Calls, Load(c) PROVE Inv'
<1>1. /\ c \in Reviews /\ c \notin Senders /\ c \notin Uploads /\ c \notin Requests
      /\ call[c].pc = "start" /\ UNCHANGED <<tables, blobs, auditLock, failures>>
  BY CallsAssumption DEF Load, Senders
<1>2. /\ call[c] \in Call /\ Shape(c, call[c])
      /\ auditLock \in Calls \cup {None} /\ failures \in Nat
  BY CallType
<1>3. PICK p \in predictions, answer \in Corrections, row \in images :
        Go(c, [call[c] EXCEPT !.pc = "update", !.read = row,
                 !.write = Fold(row, IF answer = None THEN p.label ELSE answer),
                 !.fb = [id |-> c, prediction |-> p,
                         truth |-> IF answer = None THEN p.label ELSE answer,
                         before |-> {f.id : f \in feedback}]])
  BY DEF Load
<1> DEFINE truth == IF answer = None THEN p.label ELSE answer
<1>4. truth \in Labels /\ p \in Prediction /\ row \in Row /\ feedback \subseteq Feedback
  BY InputsAssumption DEF Inv, TypeOK, Prediction
<1> HIDE DEF truth
<1> DEFINE fb == [id |-> c, prediction |-> p, truth |-> truth, before |-> {f.id : f \in feedback}]
<1>5. fb \in Feedback
  BY <1>1, <1>4 DEF Feedback
<1>6. /\ Fold(row, truth) \in Row
      /\ Fold(row, truth).id = row.id /\ Fold(row, truth).content = row.content
      /\ Fold(row, truth).key = row.key
  BY <1>4, FoldType
<1> HIDE DEF fb
<1> DEFINE x == [call[c] EXCEPT !.pc = "update", !.read = row, !.write = Fold(row, truth),
                                !.fb = fb]
<1>7. Go(c, x)
  BY <1>3 DEF truth, fb
<1>8. x \in Call
  BY <1>2, <1>4, <1>5, <1>6 DEF Call, Steps
<1>9. /\ x.pc = "update" /\ x.at = call[c].at /\ x.inserted = call[c].inserted
      /\ x.fb = fb /\ x.read = row /\ x.write = Fold(row, truth)
  BY <1>2 DEF Call
<1> HIDE DEF x
<1>10. Shape(c, x)
  BY <1>1, <1>2, <1>4, <1>5, <1>6, <1>9 DEF Shape, Ended
<1> QED BY <1>1, <1>2, <1>7, <1>8, <1>9, <1>10, LocalStep DEF Ended

\* A review that has the row's lock goes on to the audit log.
LEMMA UpdateImageInv == ASSUME Inv, NEW c \in Calls, UpdateImage(c) PROVE Inv'
<1>1. call[c].pc = "update" /\ Go(c, [call[c] EXCEPT !.pc = "head"])
      /\ UNCHANGED <<tables, blobs, auditLock, failures>>
  BY DEF UpdateImage
<1>2. /\ call[c] \in Call /\ Shape(c, call[c])
      /\ auditLock \in Calls \cup {None} /\ failures \in Nat
  BY CallType
<1>3. c \notin Senders /\ c \notin Uploads
  BY <1>1, <1>2 DEF Shape, Senders
<1>4. [call[c] EXCEPT !.pc = "head"] =
        [call[c] EXCEPT !.pc = "head", !.at = call[c].at, !.head = call[c].head,
                        !.events = call[c].events]
  BY <1>2 DEF Call
<1>5. call[c].at \in Nat /\ call[c].head \in Nat /\ call[c].events \in Nat
  BY <1>2 DEF Call
<1>6. "update" \notin Storing /\ "head" \in Steps /\ "head" \in Storing
  BY DEF Steps, Storing
<1>9. Go(c, [call[c] EXCEPT !.pc = "head", !.at = call[c].at, !.head = call[c].head,
                           !.events = call[c].events])
  BY <1>1, <1>4
<1>10. UNCHANGED <<tables, blobs>> /\ auditLock' \in Calls \cup {None} /\ failures' \in Nat
  BY <1>1, <1>2
<1>11. c \notin Requests
  BY <1>3 DEF Senders
<1> QED BY <1>1, <1>3, <1>5, <1>6, <1>9, <1>10, <1>11, MoveStep

\* The audit log's head is read.
LEMMA ReadHeadInv == ASSUME Inv, NEW c \in Calls, ReadHead(c) PROVE Inv'
<1> DEFINE h == auditLen + call[c].events
<1>1. call[c].pc = "head" /\ Go(c, [call[c] EXCEPT !.pc = "append", !.head = h])
      /\ UNCHANGED <<tables, blobs, auditLock, failures>>
  BY DEF ReadHead
<1>2. /\ call[c] \in Call /\ Shape(c, call[c]) /\ auditLen \in Nat
      /\ auditLock \in Calls \cup {None} /\ failures \in Nat
  BY CallType
<1>3. call[c].at \in Nat /\ call[c].events \in Nat
  BY <1>2 DEF Call
<1>4. h \in Nat
  BY <1>2, <1>3
<1> HIDE DEF h
<1>5. [call[c] EXCEPT !.pc = "append", !.head = h] =
        [call[c] EXCEPT !.pc = "append", !.at = call[c].at, !.head = h,
                        !.events = call[c].events]
  BY <1>2 DEF Call
<1>6. c \in Senders => call[c].at \in DOMAIN Sent[c]
  BY <1>2 DEF Shape
<1>7. call[c].pc # "insert" /\ call[c].pc # "update"
  BY <1>1
<1>8. "append" \in Steps /\ "append" \in Storing /\ "head" \in Storing
  BY DEF Steps, Storing
<1>9. Go(c, [call[c] EXCEPT !.pc = "append", !.at = call[c].at, !.head = h,
                           !.events = call[c].events])
  BY <1>1, <1>5
<1>10. UNCHANGED <<tables, blobs>> /\ auditLock' \in Calls \cup {None} /\ failures' \in Nat
  BY <1>1, <1>2
<1> QED BY <1>1, <1>3, <1>4, <1>6, <1>7, <1>8, <1>9, <1>10, MoveStep

\* An event is appended; a batch goes to its next content, if it has one.
LEMMA AppendAuditInv == ASSUME Inv, NEW c \in Calls, AppendAudit(c) PROVE Inv'
<1> DEFINE more == c \in Requests /\ call[c].at < Len(Sent[c])
           to == IF more THEN "insert" ELSE "commit"
           at == IF more THEN call[c].at + 1 ELSE call[c].at
           ev == call[c].events + 1
<1>2. /\ call[c] \in Call /\ Shape(c, call[c]) /\ failures \in Nat
  BY CallType
<1>3. call[c].at \in Nat /\ call[c].events \in Nat /\ call[c].head \in Nat
  BY <1>2 DEF Call
<1>1. call[c].pc = "append" /\ auditLock' = c /\ UNCHANGED <<tables, blobs, failures>>
      /\ Go(c, [call[c] EXCEPT !.events = ev, !.pc = to, !.at = at])
  BY <1>2 DEF AppendAudit, Call
<1>4. ev \in Nat /\ at \in Nat
  BY <1>3
<1>5. c \in Senders => at \in DOMAIN Sent[c]
  <2>1. ASSUME c \in Senders PROVE at \in DOMAIN Sent[c]
    <3>1. DOMAIN Sent[c] = 1..Len(Sent[c]) /\ Len(Sent[c]) \in Nat
      BY <2>1, SentType
    <3>2. call[c].at \in DOMAIN Sent[c]
      BY <2>1, <1>2 DEF Shape
    <3> QED BY <3>1, <3>2
  <2> QED BY <2>1
<1>6. to \in {"insert", "commit"} /\ (c \notin Requests => to = "commit")
  OBVIOUS
<1>7. c \in Uploads => c \notin Requests
  BY CallsAssumption
<1> HIDE DEF to, at, ev, more
<1>8. [call[c] EXCEPT !.events = ev, !.pc = to, !.at = at] =
        [call[c] EXCEPT !.pc = to, !.at = at, !.head = call[c].head, !.events = ev]
  BY <1>2 DEF Call
<1>9. to \in Steps /\ to \in Storing /\ call[c].pc \in Storing
  BY <1>1, <1>6 DEF Steps, Storing
<1> QED BY <1>1, <1>2, <1>3, <1>4, <1>5, <1>6, <1>7, <1>8, <1>9, MoveStep

\* An ingestion whose try block raised is about to delete its object.
LEMMA DeletingStep ==
    ASSUME Inv, NEW c \in Uploads, call[c].pc \in Storing,
           NEW ins \in SUBSET call[c].inserted,
           Go(c, [call[c] EXCEPT !.pc = "deleting", !.inserted = ins]),
           UNCHANGED <<tables, blobs>>,
           auditLock' \in Calls \cup {None}, failures' \in Nat
    PROVE  Inv'
<1> DEFINE x == [call[c] EXCEPT !.pc = "deleting", !.inserted = ins]
<1>1. c \in Senders /\ c \in Calls /\ c \notin Reviews
  BY CallsAssumption DEF Senders, Calls
<1>2. call[c] \in Call /\ Shape(c, call[c])
  BY <1>1, CallType
<1>3. x \in Call
  <2>1. ins \in SUBSET Nat /\ "deleting" \in Steps
    BY <1>2 DEF Call, Steps
  <2> QED BY <1>2, <2>1 DEF Call
<1>4. /\ x.pc = "deleting" /\ x.at = call[c].at /\ x.inserted = ins
      /\ x.read = call[c].read /\ x.write = call[c].write
  BY <1>2 DEF Call
<1> HIDE DEF x
<1>5. Shape(c, x)
  BY <1>1, <1>2, <1>4 DEF Shape, Storing, Ended
<1>6. call[c].pc \notin Ended /\ x.pc \notin Storing /\ x.pc \in Holding
  BY <1>4 DEF Storing, Holding, Ended
<1> QED BY <1>1, <1>3, <1>4, <1>5, <1>6, LocalStep DEF x

\* The same when its row is still inserted.
LEMMA FailingStep ==
    ASSUME Inv, NEW c \in Uploads, call[c].pc \in Storing,
           Go(c, [call[c] EXCEPT !.pc = "deleting"]),
           UNCHANGED <<tables, blobs>>,
           auditLock' \in Calls \cup {None}, failures' \in Nat
    PROVE  Inv'
<1>1. call[c] \in Call
  BY CallType DEF Calls
<1>2. [call[c] EXCEPT !.pc = "deleting"] =
        [call[c] EXCEPT !.pc = "deleting", !.inserted = call[c].inserted]
  BY <1>1 DEF Call
<1>3. Go(c, [call[c] EXCEPT !.pc = "deleting", !.inserted = call[c].inserted])
  BY <1>2
<1> QED BY <1>3, DeletingStep

\* The head moved: an ingestion goes on to delete its object, another call is over.
LEMMA RefuseAuditInv == ASSUME Inv, NEW c \in Calls, RefuseAudit(c) PROVE Inv'
<1>1. /\ call[c].pc = "append" /\ UNCHANGED <<tables, blobs, failures>>
      /\ failures' \in Nat
  BY CallType DEF RefuseAudit
<1>2. CASE c \in Uploads
  BY <1>1, <1>2, FailingStep DEF RefuseAudit, Storing
<1>3. CASE c \notin Uploads
  BY <1>1, <1>3, DropStep DEF RefuseAudit, Ended
<1> QED BY <1>2, <1>3

\* A step raises.
LEMMA FailInv == ASSUME Inv, NEW c \in Calls, Fail(c) PROVE Inv'
<1>1. /\ call[c].pc \in {"put", "insert", "update", "head", "append"}
      /\ UNCHANGED <<tables, blobs>> /\ failures' \in Nat
      /\ auditLock \in Calls \cup {None} /\ Shape(c, call[c])
  BY CallType DEF Fail
<1>2. CASE c \in Uploads /\ call[c].pc # "put"
  <2>1. call[c].pc \in Storing
    BY <1>1, <1>2 DEF Shape, Senders, Storing
  <2>2. Go(c, [call[c] EXCEPT !.pc = "deleting"]) /\ auditLock' = auditLock
    BY <1>2 DEF Fail
  <2> QED BY <1>1, <1>2, <2>1, <2>2, FailingStep
<1>3. CASE ~(c \in Uploads /\ call[c].pc # "put")
  BY <1>1, <1>3, DropStep DEF Fail, Ended, Holding, Storing
<1> QED BY <1>2, <1>3

\* A call is cut off.
LEMMA LoseInv == ASSUME Inv, NEW c \in Calls, Lose(c) PROVE Inv'
<1>1. /\ call[c].pc \notin Ended /\ Drop(c, "lost")
      /\ UNCHANGED <<tables, blobs>> /\ failures' \in Nat
  BY CallType DEF Lose
<1> QED BY <1>1, DropStep DEF Ended

\* PostgreSQL aborts a transaction: what it inserted is gone.
LEMMA BreakDeadlockInv == ASSUME Inv, NEW c \in Calls, BreakDeadlock(c) PROVE Inv'
<1>1. /\ call[c].pc \in {"insert", "append"} /\ UNCHANGED <<tables, blobs, failures>>
      /\ failures' \in Nat /\ auditLock \in Calls \cup {None}
  BY CallType DEF BreakDeadlock, WaitsFor
<1>2. CASE c \in Uploads
  <2>1. Go(c, [call[c] EXCEPT !.pc = "deleting", !.inserted = {}]) /\ Unlock(c)
    BY <1>2 DEF BreakDeadlock
  <2>2. auditLock' \in Calls \cup {None}
    BY <1>1, <2>1 DEF Unlock
  <2>3. call[c].pc \in Storing /\ {} \in SUBSET call[c].inserted
        /\ UNCHANGED <<tables, blobs>>
    BY <1>1 DEF Storing
  <2> QED BY <1>1, <1>2, <2>1, <2>2, <2>3, DeletingStep
<1>3. CASE c \notin Uploads
  BY <1>1, <1>3, DropStep DEF BreakDeadlock, Ended
<1> QED BY <1>2, <1>3

-----------------------------------------------------------------------------
\* A row is inserted: nobody else has one with its content, committed or not.
LEMMA InsertStep ==
    ASSUME Inv, NEW c \in Senders, call[c].pc = "insert",
           call[c].image[call[c].at] = <<c, call[c].at>>,
           RowOwners(c, NextContent(c)) = {}, ~IsTaken(c, NextContent(c)),
           Go(c, [call[c] EXCEPT !.pc = "head", !.inserted = @ \cup {call[c].at}]),
           UNCHANGED <<tables, blobs, auditLock, failures>>
    PROVE  Inv'
<1> DEFINE i == call[c].at
           x == [call[c] EXCEPT !.pc = "head", !.inserted = @ \cup {i}]
<1> USE DEF tables
<1>1. c \in Calls /\ c \notin Reviews
  BY CallsAssumption DEF Calls, Senders
<1>2. call[c] \in Call /\ Shape(c, call[c])
  BY <1>1, CallType
<1>3. i \in DOMAIN Sent[c] /\ i \in Nat
  BY <1>2 DEF Shape, Call
<1>4. x \in Call
  BY <1>2, <1>3 DEF Call, Steps
<1>5. /\ x.pc = "head" /\ x.at = i /\ x.image = call[c].image
      /\ x.inserted = call[c].inserted \cup {i}
      /\ x.read = call[c].read /\ x.write = call[c].write
  BY <1>2 DEF Call
<1>6. Go(c, x)
  OBVIOUS
<1> HIDE DEF x
<1>7. /\ call' \in [Calls -> Call] /\ call'[c] = x
      /\ \A d \in Calls \ {c} : call'[d] = call[d] /\ Uncommitted(d)' = Uncommitted(d)
  BY <1>1, <1>4, <1>6, OneCall DEF Inv
<1>8. TypeOK'
  BY <1>7 DEF Inv, TypeOK
<1>9. ShapeInv'
  <2>1. x.inserted \subseteq DOMAIN Sent[c]
    BY <1>2, <1>3, <1>5 DEF Shape
  <2>2. c \in Uploads => x.inserted = {1}
    <3>1. c \in Uploads => DOMAIN Sent[c] = {1}
      BY SentType
    <3> QED BY <2>1, <3>1, <1>3, <1>5
  <2>3. \A j \in x.inserted : x.image[j] = <<c, j>>
    BY <1>2, <1>5 DEF Shape, Storing
  <2>4. DOMAIN x.image = DOMAIN Sent[c] /\ (c \in Uploads => x.image[1] = <<c, 1>>)
    BY <1>2, <1>5 DEF Shape, Storing
  <2>5. Shape(c, x)
    BY <1>1, <1>2, <1>3, <1>5, <2>1, <2>2, <2>3, <2>4 DEF Shape, Ended
  <2>6. \A d \in Calls : Shape(d, call'[d])
    BY <1>7, <2>5 DEF Inv, ShapeInv
  <2> QED BY <2>6 DEF ShapeInv, Shape
<1>10. UniqueInv'
  <2> DEFINE n == NewRow(c, i)
  <2>1. n.content = Sent[c][i]
    BY NewRowType, <1>3
  <2>2. Uncommitted(c)' = Uncommitted(c) \cup {n}
    BY <1>5, <1>7 DEF Uncommitted, NewRow, KeyOf
  <2>3. \A s \in images \cup Uncommitted(c) : s.content # n.content
    BY <2>1 DEF IsTaken, NextContent
  <2>4. \A d \in Calls \ {c} : \A s \in Uncommitted(d) : s.content # n.content
    BY <2>1 DEF RowOwners, NextContent
  <2> HIDE DEF n
  <2>5. \A d \in Calls : \A r \in Uncommitted(d)' : r \in Uncommitted(d) \/ (d = c /\ r = n)
    BY <1>7, <2>2
  <2>6. \A d \in Calls : \A r \in Uncommitted(d)', s \in images : r.content # s.content
    BY <2>3, <2>5 DEF Inv, UniqueInv
  <2>7. \A d, e \in Calls : \A r \in Uncommitted(d)', s \in Uncommitted(e)' :
          r.content = s.content => r = s
    <3>1. TAKE d \in Calls, e \in Calls
    <3>2. TAKE r \in Uncommitted(d)', s \in Uncommitted(e)'
    <3>3. CASE r \in Uncommitted(d) /\ s \in Uncommitted(e)
      BY <3>3 DEF Inv, UniqueInv
    <3>4. CASE d = c /\ r = n /\ s \in Uncommitted(e)
      BY <3>4, <2>3, <2>4
    <3>5. CASE e = c /\ s = n /\ r \in Uncommitted(d)
      BY <3>5, <2>3, <2>4
    <3>6. CASE r = n /\ s = n
      BY <3>6
    <3> QED BY <2>5, <3>3, <3>4, <3>5, <3>6
  <2> QED BY <2>6, <2>7 DEF Inv, UniqueInv, OneRowPerContent
<1>11. \A u \in Uploads : call[u].pc = "failed" => call'[u].pc = "failed"
  BY <1>7 DEF Calls
<1>12. BytesInv'
  <2>1. \A r \in images' :
          r.id[1] \in Calls /\ call'[r.id[1]].pc = "done" /\ Kept(r.key, r.id[1])'
    <3>1. TAKE r \in images'
    <3>2. r.id[1] \in Calls /\ call[r.id[1]].pc = "done" /\ Kept(r.key, r.id[1])
      BY DEF Inv, BytesInv
    <3>3. call'[r.id[1]].pc = "done"
      BY <3>2, <1>7
    <3> QED BY <3>2, <3>3, <1>11, StaysKept
  <2>2. ASSUME NEW d \in Senders, call'[d].pc \in Storing,
               NEW j \in DOMAIN Sent[d], call'[d].image[j] = <<d, j>>
        PROVE  Kept(KeyOf(d, j), d)'
    <3>1. call[d].pc \in Storing /\ call[d].image[j] = <<d, j>>
      BY <2>2, <1>5, <1>7, SentType DEF Storing
    <3>2. Kept(KeyOf(d, j), d)
      BY <3>1 DEF Inv, BytesInv
    <3> QED BY <3>2, <1>11, StaysKept DEF KeyOf, Kept
  <2> QED BY <2>1, <2>2 DEF BytesInv
<1>13. OrphansAreExplained'
  <2>1. \A u \in Uploads : call[u].pc \in Holding => call'[u].pc \in Holding
    BY <1>5, <1>7 DEF Calls, Holding, Storing
  <2> QED BY <2>1 DEF Inv, OrphansAreExplained, Holding, Storing, KeyOf
<1> QED BY <1>8, <1>9, <1>10, <1>12, <1>13 DEF Inv

\* An ingestion inserts its row, or is refused and deletes its object.
LEMMA InsertImageInv == ASSUME Inv, NEW c \in Calls, InsertImage(c) PROVE Inv'
<1>1. /\ c \in Uploads /\ c \in Senders /\ call[c].pc = "insert"
      /\ RowOwners(c, NextContent(c)) = {}
      /\ UNCHANGED <<tables, blobs, auditLock, failures>>
  BY DEF InsertImage, Senders
<1>2. /\ call[c] \in Call /\ Shape(c, call[c])
      /\ auditLock \in Calls \cup {None} /\ failures \in Nat
  BY CallType
<1>3. CASE IsTaken(c, NextContent(c))
  <2>1. Go(c, [call[c] EXCEPT !.pc = "deleting"])
    BY SMTT(60), <1>3 DEF InsertImage
  <2> QED BY <1>1, <1>2, <2>1, FailingStep DEF Storing
<1>4. CASE ~IsTaken(c, NextContent(c))
  <2>1. Go(c, [call[c] EXCEPT !.pc = "head", !.inserted = {1}])
    BY <1>4 DEF InsertImage
  <2>2. DOMAIN Sent[c] = {1}
    BY <1>1, SentType
  <2>3. call[c].at = 1 /\ call[c].inserted \subseteq {1} /\ call[c].image[1] = <<c, 1>>
    BY <1>1, <1>2, <2>2 DEF Shape, Storing
  <2>4. call[c].inserted \cup {call[c].at} = {1}
    BY <2>3
  <2>5. Go(c, [call[c] EXCEPT !.pc = "head", !.inserted = @ \cup {call[c].at}])
    BY <1>2, <2>1, <2>4 DEF Call
  <2> QED BY <1>1, <1>4, <2>3, <2>5, InsertStep
<1> QED BY <1>3, <1>4

\* A request inserts a row if it is new, or is refused; its prediction waits for the commit.
LEMMA RecordPredictionInv == ASSUME Inv, NEW c \in Calls, RecordPrediction(c) PROVE Inv'
<1>1. /\ c \in Requests /\ c \in Senders /\ c \notin Uploads /\ call[c].pc = "insert"
      /\ UNCHANGED <<tables, blobs, failures>>
  BY CallsAssumption DEF RecordPrediction, Senders
<1>2. /\ call[c] \in Call /\ Shape(c, call[c])
      /\ auditLock \in Calls \cup {None} /\ failures \in Nat
  BY CallType
<1>3. CASE Drop(c, "refused")
  BY SMTT(60), <1>1, <1>2, <1>3, DropStep DEF Ended
<1>4. CASE /\ call[c].image[call[c].at] = <<c, call[c].at>>
           /\ RowOwners(c, NextContent(c)) = {} /\ ~IsTaken(c, NextContent(c))
           /\ Go(c, [call[c] EXCEPT !.pc = "head", !.inserted = @ \cup {call[c].at}])
           /\ UNCHANGED auditLock
  <2>1. UNCHANGED <<tables, blobs, auditLock, failures>>
    BY <1>1, <1>4
  <2> QED BY <1>1, <1>4, <2>1, InsertStep
<1>5. CASE Go(c, [call[c] EXCEPT !.pc = "head"]) /\ UNCHANGED auditLock
  <2>1. call[c].at \in Nat /\ call[c].head \in Nat /\ call[c].events \in Nat
    BY <1>2 DEF Call
  <2>2. Go(c, [call[c] EXCEPT !.pc = "head", !.at = call[c].at, !.head = call[c].head,
                              !.events = call[c].events])
    BY <1>2, <1>5 DEF Call
  <2>3. call[c].at \in DOMAIN Sent[c]
    BY <1>1, <1>2 DEF Shape
  <2>4. "head" \in Steps /\ "head" \in Storing /\ call[c].pc \in Storing
    BY <1>1 DEF Steps, Storing
  <2>5. UNCHANGED <<tables, blobs>> /\ auditLock' \in Calls \cup {None} /\ failures' \in Nat
    BY <1>1, <1>2, <1>5
  <2> QED BY <1>1, <2>1, <2>2, <2>3, <2>4, <2>5, MoveStep
<1> QED BY <1>3, <1>4, <1>5 DEF RecordPrediction

\* The objects are in the bucket before a row can name them.
LEMMA PutInv == ASSUME Inv, NEW c \in Calls, Put(c) PROVE Inv'
<1> DEFINE x == [call[c] EXCEPT !.pc = "insert"]
<1> USE DEF tables
<1>1. /\ call[c].pc = "put" /\ blobs' = blobs \cup NewKeys(c) /\ Go(c, x)
      /\ UNCHANGED <<images, predictions, feedback, auditLen, auditLock, failures>>
  BY DEF Put
<1>2. call[c] \in Call /\ Shape(c, call[c])
  BY CallType
<1>3. c \in Senders /\ c \notin Reviews
  BY <1>1, <1>2, CallsAssumption DEF Shape, Calls, Senders
<1>4. x \in Call
  BY <1>2 DEF Call, Steps
<1>5. /\ x.pc = "insert" /\ x.at = call[c].at /\ x.image = call[c].image
      /\ x.inserted = call[c].inserted /\ x.read = call[c].read /\ x.write = call[c].write
  BY <1>2 DEF Call
<1> HIDE DEF x
<1>6. /\ call' \in [Calls -> Call] /\ call'[c] = x
      /\ \A d \in Calls \ {c} : call'[d] = call[d] /\ Uncommitted(d)' = Uncommitted(d)
  BY <1>1, <1>4, OneCall DEF Inv
<1>7. TypeOK'
  <2>1. NewKeys(c) \subseteq Key
    BY <1>3, NewRowType DEF NewKeys
  <2> QED BY <1>1, <1>6, <2>1 DEF Inv, TypeOK
<1>8. x.inserted \subseteq call[c].inserted
  BY <1>5
<1>9. UniqueInv'
  <2>1. Uncommitted(c)' \subseteq Uncommitted(c)
    BY <1>5, <1>6 DEF Uncommitted, NewRow, KeyOf
  <2>2. \A d \in Calls : Uncommitted(d)' \subseteq Uncommitted(d)
    BY <1>6, <2>1
  <2> QED BY <1>1, <2>2 DEF Inv, UniqueInv, OneRowPerContent
<1>10. ShapeInv'
  <2>1. c \in Uploads => x.image[1] = <<c, 1>>
    BY <1>1, <1>2, <1>5 DEF Shape
  <2>2. \A i \in x.inserted : x.image[i] = <<c, i>>
    BY <1>1, <1>2, <1>5 DEF Shape
  <2>3. DOMAIN x.image = DOMAIN Sent[c]
    BY <1>1, <1>2, <1>3, <1>5 DEF Shape
  <2>4. Shape(c, x)
    BY <1>2, <1>3, <1>5, <2>1, <2>2, <2>3 DEF Shape, Storing, Ended
  <2>5. \A d \in Calls : Shape(d, call'[d])
    BY <1>6, <2>4 DEF Inv, ShapeInv
  <2> QED BY <2>5 DEF ShapeInv, Shape
<1>11. \A u \in Uploads : call[u].pc = "failed" => call'[u].pc = "failed"
  BY <1>1, <1>6 DEF Calls
<1>12. BytesInv'
  <2>1. \A r \in images' :
          r.id[1] \in Calls /\ call'[r.id[1]].pc = "done" /\ Kept(r.key, r.id[1])'
    <3>1. TAKE r \in images'
    <3>2. r.id[1] \in Calls /\ call[r.id[1]].pc = "done" /\ Kept(r.key, r.id[1])
      BY <1>1 DEF Inv, BytesInv
    <3>3. call'[r.id[1]].pc = "done"
      BY <3>2, <1>1, <1>6
    <3> QED BY <3>2, <3>3, <1>1, <1>11, StaysKept
  <2>2. ASSUME NEW d \in Senders, call'[d].pc \in Storing,
               NEW j \in DOMAIN Sent[d], call'[d].image[j] = <<d, j>>
        PROVE  Kept(KeyOf(d, j), d)'
    <3>1. CASE d = c
      <4>1. KeyOf(d, j) \in NewKeys(c)
        BY <2>2, <3>1, <1>5, <1>6 DEF NewKeys
      <4> QED BY <4>1, <1>1 DEF Kept, KeyOf
    <3>2. CASE d # c
      <4>1. call[d].pc \in Storing /\ call[d].image[j] = <<d, j>>
        BY <2>2, <3>2, <1>6, SentType
      <4>2. Kept(KeyOf(d, j), d)
        BY <4>1 DEF Inv, BytesInv
      <4> QED BY <4>2, <1>1, <1>11, StaysKept DEF KeyOf, Kept
    <3> QED BY <3>1, <3>2
  <2> QED BY <2>1, <2>2 DEF BytesInv
<1>13. OrphansAreExplained'
  <2>1. \A u \in Uploads : call[u].pc \in Holding => call'[u].pc \in Holding
    BY <1>5, <1>6 DEF Calls, Holding, Storing
  <2>2. ASSUME NEW k \in NewKeys(c), k.kind = "raw"
        PROVE  \E u \in Uploads : KeyOf(u, 1) = k /\ call'[u].pc \in Holding
    <3>1. c \in Uploads
      BY <2>2 DEF NewKeys, KeyOf
    <3>2. k = KeyOf(c, 1)
      BY <3>1, <2>2, <1>3, SentType DEF NewKeys
    <3> QED BY <3>1, <3>2, <1>5, <1>6 DEF Holding, Storing
  <2> QED BY <1>1, <2>1, <2>2 DEF Inv, OrphansAreExplained, Holding, Storing, KeyOf
<1> QED BY <1>7, <1>9, <1>10, <1>12, <1>13 DEF Inv

-----------------------------------------------------------------------------
\* An ingestion deletes its object only when no row of its own can still be committed.
LEMMA CompensateInv == ASSUME Inv, NEW c \in Calls, Compensate(c) PROVE Inv'
<1> DEFINE x == [Fresh EXCEPT !.pc = "failed"]
<1> USE DEF tables
<1>1. /\ call[c].pc = "deleting" /\ blobs' = blobs \ {KeyOf(c, 1)} /\ Go(c, x) /\ Unlock(c)
      /\ UNCHANGED <<images, predictions, feedback, auditLen, failures>>
  BY DEF Compensate, Drop
<1>2. c \in Uploads /\ c \in Senders
  BY <1>1, CallType DEF Shape, Senders
<1>3. /\ x \in Call /\ x.pc = "failed" /\ x.inserted = {} /\ x.at = 1
      /\ x.read = None /\ x.write = None
  BY FreshType DEF Steps, Ended
<1> HIDE DEF x
<1>4. /\ call' \in [Calls -> Call] /\ call'[c] = x
      /\ \A d \in Calls \ {c} : call'[d] = call[d] /\ Uncommitted(d)' = Uncommitted(d)
  BY <1>1, <1>3, OneCall DEF Inv
<1>5. TypeOK'
  BY <1>1, <1>4 DEF Inv, TypeOK, Unlock
<1>6. ShapeInv'
  <2>1. Shape(c, x)
    BY <1>2, <1>3, SentType, CallsAssumption DEF Shape, Storing, Ended
  <2>2. \A d \in Calls : Shape(d, call'[d])
    BY <1>4, <2>1 DEF Inv, ShapeInv
  <2> QED BY <2>2 DEF ShapeInv, Shape
<1>7. UniqueInv'
  <2>1. Uncommitted(c)' = {}
    BY <1>3, <1>4 DEF Uncommitted
  <2>2. \A d \in Calls : Uncommitted(d)' \subseteq Uncommitted(d)
    BY <1>4, <2>1
  <2> QED BY <1>1, <2>2 DEF Inv, UniqueInv, OneRowPerContent
<1>8. ASSUME NEW k, NEW d \in Calls \ {c}, Kept(k, d)
      PROVE  Kept(k, d)'
  <2>1. CASE k = KeyOf(c, 1)
    BY <2>1, <1>2, <1>3, <1>4 DEF Kept, KeyOf
  <2>2. CASE k # KeyOf(c, 1)
    <3>1. CASE k \in blobs
      BY <2>2, <3>1, <1>1 DEF Kept
    <3>2. CASE \E u \in Uploads \ {d} : KeyOf(u, 1) = k /\ call[u].pc = "failed"
      BY <3>2, <1>1, <1>4 DEF Kept, KeyOf, Calls
    <3> QED BY <1>8, <3>1, <3>2 DEF Kept
  <2> QED BY <2>1, <2>2
<1>9. BytesInv'
  <2>1. \A r \in images' :
          r.id[1] \in Calls /\ call'[r.id[1]].pc = "done" /\ Kept(r.key, r.id[1])'
    <3>1. TAKE r \in images'
    <3>2. r.id[1] \in Calls /\ call[r.id[1]].pc = "done" /\ Kept(r.key, r.id[1])
      BY <1>1 DEF Inv, BytesInv
    <3>3. r.id[1] \in Calls \ {c}
      BY <3>2, <1>1
    <3> QED BY <3>2, <3>3, <1>4, <1>8
  <2>2. ASSUME NEW d \in Senders, call'[d].pc \in Storing,
               NEW j \in DOMAIN Sent[d], call'[d].image[j] = <<d, j>>
        PROVE  Kept(KeyOf(d, j), d)'
    <3>1. d \in Calls \ {c}
      BY <2>2, <1>3, <1>4, SentType DEF Storing
    <3>2. call[d].pc \in Storing /\ call[d].image[j] = <<d, j>>
      BY <2>2, <3>1, <1>4
    <3>3. Kept(KeyOf(d, j), d)
      BY <3>2 DEF Inv, BytesInv
    <3> QED BY <3>1, <3>3, <1>8 DEF KeyOf, Kept
  <2> QED BY <2>1, <2>2 DEF BytesInv
<1>10. OrphansAreExplained'
  <2>1. \A u \in Uploads \ {c} : call'[u] = call[u]
    BY <1>4 DEF Calls
  <2> QED BY <1>1, <2>1 DEF Inv, OrphansAreExplained, KeyOf
<1> QED BY <1>5, <1>6, <1>7, <1>9, <1>10 DEF Inv

\* A commit makes rows visible whose contents nobody else has and whose objects are kept.
LEMMA CommitInv == ASSUME Inv, NEW c \in Calls, Commit(c) PROVE Inv'
<1> DEFINE x == [Fresh EXCEPT !.pc = "done"]
<1>1. /\ call[c].pc = "commit" /\ Go(c, x) /\ Unlock(c)
      /\ images' = {Updated(c, r) : r \in images} \cup Uncommitted(c)
      /\ UNCHANGED <<blobs, failures>>
  BY DEF Commit, Drop
<1>2. call[c] \in Call /\ Shape(c, call[c])
  BY CallType
<1>3. /\ x \in Call /\ x.pc = "done" /\ x.inserted = {} /\ x.at = 1
      /\ x.read = None /\ x.write = None
  BY FreshType DEF Steps, Ended
<1> HIDE DEF x
<1>4. /\ call' \in [Calls -> Call] /\ call'[c] = x
      /\ \A d \in Calls \ {c} : call'[d] = call[d] /\ Uncommitted(d)' = Uncommitted(d)
  BY <1>1, <1>3, OneCall DEF Inv
<1>5. \A r \in images :
        /\ r \in Row /\ Updated(c, r) \in Row
        /\ Updated(c, r).id = r.id /\ Updated(c, r).content = r.content
        /\ Updated(c, r).key = r.key
  BY <1>1, UpdatedType DEF Inv, TypeOK
\* What the call inserted are rows of its own, whose objects it stored.
<1>6. ASSUME NEW r \in Uncommitted(c)
      PROVE  /\ r \in Row /\ c \in Senders
             /\ \E i \in DOMAIN Sent[c] : r.id = <<c, i>> /\ r.key = KeyOf(c, i)
                                          /\ call[c].image[i] = <<c, i>>
  <2>1. PICK i \in call[c].inserted : r = NewRow(c, i)
    BY DEF Uncommitted
  <2>2. c \in Senders
    BY <2>1, <1>2 DEF Shape, Calls, Senders
  <2>3. i \in DOMAIN Sent[c] /\ call[c].image[i] = <<c, i>>
    BY <2>2, <1>1, <1>2, <2>1 DEF Shape, Storing
  <2> QED BY <2>1, <2>2, <2>3, NewRowType
<1>7. TypeOK'
  <2>1. images' \subseteq Row
    BY <1>1, <1>5, <1>6
  <2>2. predictions' \subseteq Prediction
    <3>1. CASE c \in Requests
      <4>1. c \in Senders
        BY <3>1 DEF Senders
      <4>2. DOMAIN call[c].image = DOMAIN Sent[c] /\ call[c].image \in Seq(RowId)
        BY <4>1, <1>1, <1>2 DEF Shape, Storing, Call
      <4>3. ASSUME NEW i \in DOMAIN Sent[c]
            PROVE  /\ <<c, i>> \in RowId /\ call[c].image[i] \in RowId
                   /\ (IF Sent[c][i] \in Flagged THEN "defect" ELSE "good") \in Labels
        BY <4>1, <4>2, NewRowType DEF Labels
      <4>4. Served(c) \subseteq Prediction
        BY <4>3 DEF Served, Prediction
      <4> QED BY <3>1, <4>4 DEF Commit, Inv, TypeOK
    <3>2. CASE c \notin Requests
      BY <3>2 DEF Commit, Inv, TypeOK
    <3> QED BY <3>1, <3>2
  <2>3. feedback' \subseteq Feedback
    <3>1. c \in Reviews => call[c].fb \in Feedback
      BY <1>1, <1>2 DEF Shape
    <3> QED BY <3>1 DEF Commit, Inv, TypeOK
  <2>4. auditLen' \in Nat
    <3>1. call[c].events \in Nat /\ auditLen \in Nat
      BY <1>2 DEF Call, Inv, TypeOK
    <3> QED BY <3>1 DEF Commit
  <2> QED BY <2>1, <2>2, <2>3, <2>4, <1>1, <1>4 DEF Inv, TypeOK, Unlock
<1>8. ShapeInv'
  <2>1. Shape(c, x)
    BY <1>3, SentType, CallsAssumption DEF Shape, Storing, Ended
  <2>2. \A d \in Calls : Shape(d, call'[d])
    BY <1>4, <2>1 DEF Inv, ShapeInv
  <2> QED BY <2>2 DEF ShapeInv, Shape
<1>9. UniqueInv'
  <2>1. Uncommitted(c)' = {}
    BY <1>3, <1>4 DEF Uncommitted
  <2>2. \A d \in Calls : \A r \in Uncommitted(d)' : d # c /\ r \in Uncommitted(d)
    BY <1>4, <2>1
  <2>3. ASSUME NEW r \in images', NEW s \in images', r.content = s.content
        PROVE  r = s
    <3>1. CASE r \in Uncommitted(c) /\ s \in Uncommitted(c)
      BY <2>3, <3>1 DEF Inv, UniqueInv
    <3>2. CASE /\ \E a \in images : r = Updated(c, a)
               /\ \E b \in images : s = Updated(c, b)
      BY <2>3, <3>2, <1>5 DEF Inv, UniqueInv, OneRowPerContent
    <3>3. CASE (\E a \in images : r = Updated(c, a)) /\ s \in Uncommitted(c)
      BY <2>3, <3>3, <1>5 DEF Inv, UniqueInv
    <3>4. CASE r \in Uncommitted(c) /\ \E b \in images : s = Updated(c, b)
      BY <2>3, <3>4, <1>5 DEF Inv, UniqueInv
    <3> QED BY <1>1, <3>1, <3>2, <3>3, <3>4
  <2>4. \A d \in Calls : \A r \in Uncommitted(d)', s \in images' : r.content # s.content
    <3>1. TAKE d \in Calls
    <3>2. TAKE r \in Uncommitted(d)', s \in images'
    <3>3. d # c /\ r \in Uncommitted(d)
      BY <2>2
    <3>4. CASE \E a \in images : s = Updated(c, a)
      BY <3>3, <3>4, <1>5 DEF Inv, UniqueInv
    <3>5. CASE s \in Uncommitted(c)
      <4>1. SUFFICES ASSUME r.content = s.content PROVE FALSE
        OBVIOUS
      <4>2. r = s
        BY <3>3, <3>5, <4>1 DEF Inv, UniqueInv
      <4>3. r.id[1] = d /\ r.id[1] = c
        BY <3>3, <3>5, <4>2 DEF Uncommitted, NewRow
      <4> QED BY <3>3, <4>3
    <3> QED BY <1>1, <3>4, <3>5
  <2> QED BY <2>2, <2>3, <2>4 DEF Inv, UniqueInv, OneRowPerContent
<1>10. \A u \in Uploads : call[u].pc = "failed" => call'[u].pc = "failed"
  BY <1>1, <1>4 DEF Calls
<1>11. BytesInv'
  <2>1. ASSUME NEW r \in images'
        PROVE  r.id[1] \in Calls /\ call'[r.id[1]].pc = "done" /\ Kept(r.key, r.id[1])'
    <3>1. CASE \E a \in images : r = Updated(c, a)
      <4>1. PICK a \in images : r.id = a.id /\ r.key = a.key
        BY <3>1, <1>5
      <4>2. a.id[1] \in Calls /\ call[a.id[1]].pc = "done" /\ Kept(a.key, a.id[1])
        BY DEF Inv, BytesInv
      <4>3. call'[a.id[1]].pc = "done" /\ Kept(a.key, a.id[1])'
        BY <4>2, <1>1, <1>4, <1>10, StaysKept
      <4> QED BY <4>1, <4>2, <4>3 DEF Kept
    <3>2. CASE r \in Uncommitted(c)
      <4>1. PICK i \in DOMAIN Sent[c] : r.id = <<c, i>> /\ r.key = KeyOf(c, i)
                                        /\ call[c].image[i] = <<c, i>>
        BY <3>2, <1>6
      <4>2. c \in Senders
        BY <3>2, <1>6
      <4>3. Kept(r.key, c)
        BY <4>1, <4>2, <1>1 DEF Inv, BytesInv, Storing
      <4>4. Kept(r.key, c)'
        BY <4>3, <1>1, <1>10 DEF Kept, KeyOf
      <4> QED BY <4>1, <4>4, <1>3, <1>4
    <3> QED BY <1>1, <3>1, <3>2
  <2>2. ASSUME NEW d \in Senders, call'[d].pc \in Storing,
               NEW j \in DOMAIN Sent[d], call'[d].image[j] = <<d, j>>
        PROVE  Kept(KeyOf(d, j), d)'
    <3>1. d \in Calls \ {c}
      BY <2>2, <1>3, <1>4, SentType DEF Storing
    <3>2. call[d].pc \in Storing /\ call[d].image[j] = <<d, j>>
      BY <2>2, <3>1, <1>4
    <3>3. Kept(KeyOf(d, j), d)
      BY <3>2 DEF Inv, BytesInv
    <3> QED BY <3>3, <1>1, <1>10, StaysKept DEF KeyOf, Kept
  <2> QED BY <2>1, <2>2 DEF BytesInv
<1>12. OrphansAreExplained'
  <2>1. \A r \in images : \E s \in images' : s.key = r.key
    BY <1>1, <1>5
  <2>2. c \in Uploads => \E s \in images' : s.key = KeyOf(c, 1)
    <3>1. ASSUME c \in Uploads PROVE \E s \in images' : s.key = KeyOf(c, 1)
      <4>1. call[c].inserted = {1}
        BY <3>1, <1>1, <1>2 DEF Shape, Storing
      <4>2. NewRow(c, 1) \in Uncommitted(c) /\ NewRow(c, 1).key = KeyOf(c, 1)
        BY <4>1 DEF Uncommitted, NewRow
      <4> QED BY <4>2, <1>1
    <3> QED BY <3>1
  <2>3. \A u \in Uploads \ {c} : call'[u] = call[u]
    BY <1>4 DEF Calls
  <2>4. ASSUME NEW k \in blobs', k.kind = "raw"
        PROVE  \/ \E r \in images' : r.key = k
               \/ \E u \in Uploads : KeyOf(u, 1) = k /\ call'[u].pc \in Holding
    <3>1. CASE \E r \in images : r.key = k
      BY <3>1, <2>1
    <3>2. CASE \E u \in Uploads : KeyOf(u, 1) = k /\ call[u].pc \in Holding
      BY <3>2, <2>2, <2>3
    <3> QED BY <1>1, <2>4, <3>1, <3>2 DEF Inv, OrphansAreExplained, Holding, Storing
  <2> QED BY <2>4 DEF OrphansAreExplained, Holding, Storing, KeyOf
<1> QED BY <1>7, <1>8, <1>9, <1>11, <1>12 DEF Inv

-----------------------------------------------------------------------------
\* Every step preserves the invariant.
LEMMA NextInv == Inv /\ [Next]_vars => Inv'
<1> SUFFICES ASSUME Inv, [Next]_vars PROVE Inv'
  OBVIOUS
<1>1. CASE UNCHANGED vars
  <2>1. /\ images' = images /\ blobs' = blobs /\ predictions' = predictions
        /\ feedback' = feedback /\ auditLen' = auditLen /\ auditLock' = auditLock
        /\ call' = call /\ failures' = failures
    BY <1>1 DEF vars
  <2>2. TypeOK'
    BY <2>1 DEF Inv, TypeOK
  <2>3. ShapeInv'
    BY <2>1 DEF Inv, ShapeInv, Shape
  <2>4. UniqueInv'
    <3>1. \A c \in Calls : Uncommitted(c)' = Uncommitted(c)
      BY <2>1 DEF Uncommitted
    <3> QED BY <2>1, <3>1 DEF Inv, UniqueInv, OneRowPerContent
  <2>5. BytesInv'
    <3>1. \A k : \A c \in Calls : Kept(k, c)' = Kept(k, c)
      BY <2>1 DEF Kept
    <3>2. \A c \in Senders : \A i \in DOMAIN Sent[c] :
            Kept(KeyOf(c, i), c) => Kept(KeyOf(c, i), c)'
      BY <2>1 DEF Kept
    <3>3. \A r \in images : r.id[1] \in Calls /\ Kept(r.key, r.id[1])'
      BY <3>1 DEF Inv, BytesInv
    <3> QED BY <2>1, <3>2, <3>3 DEF Inv, BytesInv
  <2>6. OrphansAreExplained'
    BY <2>1 DEF Inv, OrphansAreExplained
  <2> QED BY <2>2, <2>3, <2>4, <2>5, <2>6 DEF Inv
<1>2. ASSUME NEW c \in Calls, Begin(c) PROVE Inv'
  BY <1>2, CheckInv, ResolveInv, LoadInv DEF Begin
<1>3. ASSUME NEW c \in Calls, Continue(c) PROVE Inv'
  BY <1>3, PutInv, InsertImageInv, RecordPredictionInv, UpdateImageInv, ReadHeadInv,
     AppendAuditInv, RefuseAuditInv, CompensateInv, CommitInv DEF Continue
<1>4. ASSUME NEW c \in Calls, BreakDeadlock(c) \/ Fail(c) \/ Lose(c) PROVE Inv'
  BY <1>4, BreakDeadlockInv, FailInv, LoseInv
<1> QED BY <1>1, <1>2, <1>3, <1>4 DEF Next

LEMMA Invariance == Spec => []Inv
<1> QED BY InitInv, NextInv, PTL DEF Spec

\* The tables, the bucket and what the calls remember are always what TypeOK says: the
\* foreign key of a prediction, the row a review writes and the length of the audit log
\* included.
THEOREM TypeCorrect == Spec => []TypeOK
<1>1. Inv => TypeOK
  BY DEF Inv
<1> QED BY <1>1, Invariance, PTL

\* However ingestions and prediction requests overlap, wait, fail and are cut off, no two
\* committed images have the same checksum.
THEOREM UniqueRows == Spec => []OneRowPerContent
<1>1. Inv => OneRowPerContent
  BY DEF Inv, UniqueInv
<1> QED BY <1>1, Invariance, PTL

\* The bytes of a committed image are in the bucket unless another ingestion of the same
\* content, kind and folder failed: the compensating delete is the only thing that takes
\* them, and only from a row that is not its own.
THEOREM BytesKept == Spec => []BytesAreKept
<1>1. Inv => BytesAreKept
  <2> SUFFICES ASSUME Inv, NEW r \in images, r.key \notin blobs
               PROVE  \E u \in Uploads : KeyOf(u, 1) = r.key /\ <<u, 1>> # r.id
                                         /\ call[u].pc = "failed"
    BY DEF BytesAreKept
  <2>1. PICK u \in Uploads \ {r.id[1]} : KeyOf(u, 1) = r.key /\ call[u].pc = "failed"
    BY DEF Inv, BytesInv, Kept
  <2>2. <<u, 1>> # r.id
    BY <2>1
  <2> QED BY <2>1, <2>2
<1> QED BY <1>1, Invariance, PTL

\* An ingested object without a row is the work of a call that still runs or was cut off.
THEOREM OrphansExplained == Spec => []OrphansAreExplained
<1>1. Inv => OrphansAreExplained
  BY DEF Inv
<1> QED BY <1>1, Invariance, PTL

-----------------------------------------------------------------------------
(* Reviews of one image. *)

\* The judgements of an image among the feedback F, and those that bear its label and that
\* no other was made in the knowledge of.
Judgements(F, id) == {f \in F : f.prediction.image = id}
Standing(F, r) == {f \in Judgements(F, r.id) :
                     f.truth = r.label /\ \A g \in Judgements(F, r.id) : f.id \notin g.before}
Ids(F) == {f.id : f \in F}

\* What JudgementsStand says of one row, and the statuses a row has.
Judged(F, r) ==
    /\ r.status \in {"pending", "valid"}
    /\ r.status = "valid" <=> r.id[1] \in Uploads \/ Judgements(F, r.id) # {}
    /\ r.reviewed <=> Judgements(F, r.id) # {}
    /\ r.reviewed => Standing(F, r) # {}

\* The reviews that have read and not ended, and what feedback all of them knew.
Reading == {"update", "head", "append", "commit"}
Pending == {v \in Reviews : call[v].pc \in Reading}
Befores == {f.before : f \in feedback} \cup {call[v].fb.before : v \in Pending}

\* What a review x of v has read and will write.
Folding(v, x) ==
    /\ x.fb.id = v /\ x.fb.prediction.image = x.read.id
    /\ x.write = Fold(x.read, x.fb.truth)
    /\ x.read.status \in {"pending", "valid"}

\* The row r since x read it: judged rows stay judged, and if its label has changed then
\* for a judgement that x does not know of.
Since(F, x, r) ==
    /\ r.id = x.read.id
    /\ x.read.reviewed => r.reviewed
    /\ x.read.status = "valid" => r.status = "valid"
    /\ r.label # x.read.label => \E f \in Standing(F, r) : f.id \notin x.fb.before

ReviewInv ==
    /\ \A r \in images : Judged(feedback, r)
    /\ \A r, s \in images : r.id = s.id => r = s
    /\ \A f \in feedback : /\ f.id \in Reviews /\ call[f.id].pc = "done"
                           /\ \E r \in images : r.id = f.prediction.image
    /\ \A B \in Befores : B \subseteq Ids(feedback)
    /\ \A A, B \in Befores : A \subseteq B \/ B \subseteq A
    /\ \A v \in Pending : /\ Folding(v, call[v])
                          /\ \E r \in images : Since(feedback, call[v], r)

-----------------------------------------------------------------------------
\* A fold of a row that is pending or valid makes it valid and reviewed.
LEMMA FoldResult ==
    ASSUME NEW row \in Row, NEW truth \in Labels, row.status \in {"pending", "valid"}
    PROVE  /\ Fold(row, truth).status = "valid" /\ Fold(row, truth).label = truth
           /\ Fold(row, truth).reviewed = TRUE /\ Fold(row, truth).id = row.id
           /\ DOMAIN Fold(row, truth) = DOMAIN row
<1>1. MayBecome(row.status, "valid")
  BY DEF MayBecome, AllowedTransitions
<1>2. DOMAIN row = {"id", "content", "key", "status", "label", "reviewed"}
  BY DEF Row
<1> DEFINE a == [row EXCEPT !.status = "valid"]
           b == [a EXCEPT !.label = truth]
<1>3. Fold(row, truth) = [b EXCEPT !.reviewed = TRUE]
  BY <1>1, <1>2 DEF Fold
<1>4. a.status = "valid" /\ a.id = row.id /\ DOMAIN a = DOMAIN row
  BY <1>2
<1> HIDE DEF a
<1>5. b.status = "valid" /\ b.label = truth /\ b.id = row.id /\ DOMAIN b = DOMAIN row
  BY <1>2, <1>4
<1> HIDE DEF b
<1>6. [b EXCEPT !.reviewed = TRUE].reviewed = TRUE
  BY <1>2, <1>5
<1>7. /\ [b EXCEPT !.reviewed = TRUE].status = "valid" /\ [b EXCEPT !.reviewed = TRUE].label = truth
      /\ [b EXCEPT !.reviewed = TRUE].id = row.id
  BY <1>2, <1>5
<1>8. DOMAIN [b EXCEPT !.reviewed = TRUE] = DOMAIN row
  BY <1>5
<1> QED BY <1>3, <1>6, <1>7, <1>8

\* What the commit of a review makes of the row it judged.
LEMMA JudgedRow ==
    ASSUME NEW v \in Reviews, NEW r \in Row, call[v].read \in Row, call[v].fb.truth \in Labels,
           Folding(v, call[v]), NEW F, Since(F, call[v], r)
    PROVE  /\ Updated(v, r).id = r.id
           /\ Updated(v, r).status = "valid" /\ Updated(v, r).reviewed = TRUE
           /\ Updated(v, r).label = IF call[v].fb.truth = call[v].read.label
                                    THEN r.label ELSE call[v].fb.truth
<1> DEFINE read == call[v].read
           write == call[v].write
           truth == call[v].fb.truth
<1>1. /\ write = Fold(read, truth) /\ read \in Row /\ read.status \in {"pending", "valid"}
      /\ r.id = read.id /\ truth \in Labels
  BY DEF Folding, Since
<1>2. /\ write.status = "valid" /\ write.label = truth /\ write.reviewed = TRUE
      /\ write.id = read.id
  <2>1. /\ Fold(read, truth).status = "valid" /\ Fold(read, truth).label = truth
        /\ Fold(read, truth).reviewed = TRUE /\ Fold(read, truth).id = read.id
    <3> HIDE DEF read, truth
    <3> QED BY <1>1, FoldResult
  <2> HIDE DEF read, write, truth
  <2> QED BY <1>1, <2>1
<1>3. DOMAIN r = {"id", "content", "key", "status", "label", "reviewed"}
  BY DEF Row
<1>4. /\ read.status = "valid" => r.status = "valid"
      /\ read.reviewed = TRUE => r.reviewed = TRUE
  BY DEF Since, Row
<1>5. CASE write = read
  BY <1>2, <1>4, <1>5 DEF Updated
<1>6. CASE write # read
  <2>1. Updated(v, r) = [col \in DOMAIN r |-> IF write[col] = read[col]
                                              THEN r[col] ELSE write[col]]
    BY <1>1, <1>6 DEF Updated
  <2> HIDE DEF read, write, truth
  <2>2. \A col \in DOMAIN r : Updated(v, r)[col] = IF write[col] = read[col]
                                                   THEN r[col] ELSE write[col]
    BY <2>1
  <2>3. Updated(v, r).id = r.id
    BY <1>2, <1>3, <2>2
  <2>4. Updated(v, r).status = "valid"
    BY <1>2, <1>3, <1>4, <2>2
  <2>5. Updated(v, r).reviewed = TRUE
    BY <1>2, <1>3, <1>4, <2>2
  <2>6. Updated(v, r).label = IF truth = read.label THEN r.label ELSE truth
    BY <1>2, <1>3, <2>2
  <2> QED BY <2>3, <2>4, <2>5, <2>6 DEF read, truth
<1> QED BY <1>5, <1>6

\* A judgement that bears the row's label and follows no judgement still stands after the
\* commit of one that did not know of it; the new one always does if it bears the label.
LEMMA StandingAfter ==
    ASSUME NEW F, NEW g, NEW r, NEW s, s.id = r.id
    PROVE  /\ \A f \in Standing(F, r) :
                s.label = r.label /\ f.id \notin g.before => f \in Standing(F \cup {g}, s)
           /\ /\ g.prediction.image = s.id /\ g.truth = s.label
              /\ \A f \in F \cup {g} : g.id \notin f.before
              => g \in Standing(F \cup {g}, s)
BY DEF Standing, Judgements

\* Other rows are not concerned.
LEMMA StandingElsewhere ==
    ASSUME NEW F, NEW g, NEW r, g.prediction.image # r.id
    PROVE  /\ Judgements(F \cup {g}, r.id) = Judgements(F, r.id)
           /\ Standing(F \cup {g}, r) = Standing(F, r)
BY DEF Standing, Judgements

\* What a step that is not a commit and not the reading of a review can do.
Local(c) ==
    /\ UNCHANGED tables
    /\ c \in Reviews /\ call'[c].pc \in Reading =>
         /\ call[c].pc \in Reading
         /\ call'[c].fb = call[c].fb /\ call'[c].read = call[c].read
         /\ call'[c].write = call[c].write

\* A call that is over without a commit.
LEMMA OverIsLocal ==
    ASSUME TypeOK, NEW c \in Calls, UNCHANGED tables, NEW end \in Ended, Drop(c, end)
    PROVE  Local(c)
<1>1. call'[c] = [Fresh EXCEPT !.pc = end]
  BY DEF TypeOK, Drop, Go
<1>2. call'[c].pc = end
  BY <1>1, FreshType DEF Steps
<1> QED BY <1>2 DEF Local, Ended, Reading

\* Every step is one of the three kinds, of one call that has not ended.
LEMMA StepKinds ==
    ASSUME Inv, NEW c \in Calls,
           Begin(c) \/ Continue(c) \/ BreakDeadlock(c) \/ Fail(c) \/ Lose(c)
    PROVE  /\ \A d \in Calls \ {c} : call'[d] = call[d]
           /\ call[c].pc \notin Ended
           /\ Load(c) \/ Commit(c) \/ Local(c)
<1>1. call \in [Calls -> Call] /\ call[c] \in Call /\ Shape(c, call[c]) /\ TypeOK
  BY CallType DEF Inv, TypeOK
<1>2. call[c].pc \notin Ended
  <2>1. ASSUME BreakDeadlock(c) PROVE call[c].pc \in {"insert", "append"}
    BY <2>1 DEF BreakDeadlock, WaitsFor
  <2> QED BY <2>1 DEF Begin, Check, Resolve, Load, Continue, Put, InsertImage,
        RecordPrediction, UpdateImage, ReadHead, AppendAudit, RefuseAudit, Compensate, Commit,
        Fail, Lose, Ended
<1>3. \E x : Go(c, x)
  BY DEF Begin, Check, Resolve, Load, Continue, Put, InsertImage, RecordPrediction,
        UpdateImage, ReadHead, AppendAudit, RefuseAudit, Compensate, Commit, BreakDeadlock,
        Fail, Lose, Drop
<1>4. \A d \in Calls \ {c} : call'[d] = call[d]
  BY <1>1, <1>3 DEF Go
<1>5. ASSUME ~Load(c), ~Commit(c) PROVE Local(c)
  <2>1. UNCHANGED tables
    BY <1>5 DEF Begin, Check, Resolve, Continue, Put, InsertImage, RecordPrediction,
        UpdateImage, ReadHead, AppendAudit, RefuseAudit, Compensate, BreakDeadlock,
        Fail, Lose
  <2>2. CASE c \notin Reviews
    BY <2>1, <2>2 DEF Local
  <2>3. CASE c \in Reviews
    <3>1. c \notin Uploads /\ c \notin Requests
      BY <2>3, CallsAssumption DEF Senders
    <3>2. call[c].pc \notin {"put", "insert", "deleting"}
      BY <1>1, <2>3, <3>1 DEF Shape
    <3>3. UpdateImage(c) \/ ReadHead(c) \/ AppendAudit(c) \/ RefuseAudit(c)
          \/ BreakDeadlock(c) \/ Fail(c) \/ Lose(c)
      BY <1>5, <3>1, <3>2 DEF Begin, Check, Resolve, Continue, Put, InsertImage,
         RecordPrediction, Compensate
    <3>4. call[c].pc \in Reading
      <4>1. ASSUME BreakDeadlock(c) PROVE call[c].pc \in {"insert", "append"}
        BY <4>1 DEF BreakDeadlock, WaitsFor
      <4>2. call[c].pc \in Steps
        BY <1>1 DEF Call
      <4> QED BY <3>2, <3>3, <4>1, <4>2 DEF UpdateImage, ReadHead, AppendAudit, RefuseAudit,
            Fail, Lose, Reading, Steps
    <3>5. CASE RefuseAudit(c) \/ BreakDeadlock(c) \/ Fail(c) \/ Lose(c)
      <4>1. \E end \in Ended : Drop(c, end)
        BY <3>1, <3>5 DEF RefuseAudit, BreakDeadlock, Fail, Lose, Ended
      <4> QED BY <1>1, <2>1, <4>1, OverIsLocal
    <3>6. CASE UpdateImage(c)
      <4>1. call'[c] = [call[c] EXCEPT !.pc = "head"]
        BY <1>1, <3>6 DEF UpdateImage, Go
      <4> QED BY <1>1, <2>1, <3>4, <4>1 DEF Local, Call
    <3>7. CASE ReadHead(c)
      <4> DEFINE h == auditLen + call[c].events
      <4>1. call'[c] = [call[c] EXCEPT !.pc = "append", !.head = h]
        BY <1>1, <3>7 DEF ReadHead, Go
      <4> HIDE DEF h
      <4> QED BY <1>1, <2>1, <3>4, <4>1 DEF Local, Call
    <3>8. CASE AppendAudit(c)
      <4> DEFINE ev == call[c].events + 1
                 more == c \in Requests /\ call[c].at < Len(Sent[c])
                 to == IF more THEN "insert" ELSE "commit"
                 at == IF more THEN call[c].at + 1 ELSE call[c].at
      <4>1. call'[c] = [call[c] EXCEPT !.events = ev, !.pc = to, !.at = at]
        BY <1>1, <3>8 DEF AppendAudit, Go, Call
      <4> HIDE DEF ev, to, at
      <4> QED BY <1>1, <2>1, <3>4, <4>1 DEF Local, Call
    <3> QED BY <3>3, <3>5, <3>6, <3>7, <3>8
  <2> QED BY <2>2, <2>3
<1> QED BY <1>2, <1>4, <1>5

-----------------------------------------------------------------------------
LEMMA ReviewInit == Init => ReviewInv
<1> SUFFICES ASSUME Init PROVE ReviewInv
  OBVIOUS
<1>1. Pending = {}
  BY DEF Init, Pending, Fresh, Calls, Reading
<1>2. images = {} /\ feedback = {} /\ Befores = {}
  BY <1>1 DEF Init, Befores
<1> QED BY <1>1, <1>2 DEF ReviewInv

\* Steps that leave the tables and only let reviews go on or end.
LEMMA LocalReview ==
    ASSUME ReviewInv, NEW c \in Calls, \A d \in Calls \ {c} : call'[d] = call[d],
           call[c].pc \notin Ended, Local(c)
    PROVE  ReviewInv'
<1>1. images' = images /\ feedback' = feedback
  BY DEF Local, tables
<1>2. ASSUME NEW v \in Pending'
      PROVE  /\ v \in Pending
             /\ call'[v].fb = call[v].fb /\ call'[v].read = call[v].read
             /\ call'[v].write = call[v].write
  <2>1. v \in Reviews /\ v \in Calls /\ call'[v].pc \in Reading
    BY DEF Pending, Calls
  <2> QED BY <2>1 DEF Local, Pending
<1>3. Befores' \subseteq Befores
  BY <1>1, <1>2 DEF Befores
<1>4. \A f \in feedback : call'[f.id].pc = "done"
  BY DEF ReviewInv, Ended, Calls
<1>5. ASSUME NEW v \in Pending'
      PROVE  Folding(v, call'[v]) /\ \E r \in images : Since(feedback, call'[v], r)
  <2>1. PICK r \in images : Folding(v, call[v]) /\ Since(feedback, call[v], r)
    BY <1>2 DEF ReviewInv
  <2>2. Folding(v, call'[v]) /\ Since(feedback, call'[v], r)
    BY <1>2, <2>1 DEF Folding, Since
  <2> QED BY <2>2
<1> QED BY <1>1, <1>3, <1>4, <1>5 DEF ReviewInv

\* A review that reads its image knows of every judgement that is committed.
LEMMA LoadReview ==
    ASSUME Inv, ReviewInv, NEW c \in Calls, \A d \in Calls \ {c} : call'[d] = call[d], Load(c)
    PROVE  ReviewInv'
<1>1. /\ images' = images /\ feedback' = feedback /\ call[c].pc = "start" /\ c \in Reviews
      /\ call \in [Calls -> Call] /\ call[c] \in Call
  BY CallType DEF Load, tables, Inv, TypeOK
<1>2. PICK p \in predictions, answer \in Corrections, row \in images :
        /\ row.id = p.image
        /\ Go(c, [call[c] EXCEPT !.pc = "update", !.read = row,
                    !.write = Fold(row, IF answer = None THEN p.label ELSE answer),
                    !.fb = [id |-> c, prediction |-> p,
                            truth |-> IF answer = None THEN p.label ELSE answer,
                            before |-> {f.id : f \in feedback}]])
  BY DEF Load
<1> DEFINE truth == IF answer = None THEN p.label ELSE answer
<1> DEFINE fb == [id |-> c, prediction |-> p, truth |-> truth, before |-> Ids(feedback)]
           x == [call[c] EXCEPT !.pc = "update", !.read = row, !.write = Fold(row, truth),
                                !.fb = fb]
<1>3. call'[c] = x
  BY <1>1, <1>2 DEF Go, Ids
<1> HIDE DEF truth
<1>4. /\ x.pc = "update" /\ x.read = row /\ x.write = Fold(row, truth) /\ x.fb = fb
  BY <1>1 DEF Call
<1>5. fb.id = c /\ fb.prediction.image = row.id /\ fb.truth = truth
      /\ fb.before = Ids(feedback)
  BY <1>2
<1> HIDE DEF x, fb
<1>6. \A v \in Pending' \ {c} : v \in Pending /\ call'[v] = call[v]
  BY DEF Pending, Calls
<1>7. \A B \in Befores' : B \in Befores \/ B = Ids(feedback)
  BY <1>1, <1>3, <1>4, <1>5, <1>6 DEF Befores
<1>8. \A f \in feedback : call'[f.id].pc = "done"
  BY <1>1 DEF ReviewInv, Calls
<1>9. Folding(c, call'[c]) /\ Since(feedback, call'[c], row)
  BY <1>3, <1>4, <1>5 DEF Folding, Since, ReviewInv, Judged
<1>10. ASSUME NEW v \in Pending'
       PROVE  Folding(v, call'[v]) /\ \E r \in images : Since(feedback, call'[v], r)
  BY <1>6, <1>9 DEF ReviewInv
<1>11. \A B \in Befores' : B \subseteq Ids(feedback)
  BY <1>7 DEF ReviewInv
<1>12. \A A, B \in Befores' : A \subseteq B \/ B \subseteq A
  BY <1>7 DEF ReviewInv
<1> QED BY <1>1, <1>8, <1>10, <1>11, <1>12 DEF ReviewInv

\* The rows that an ingestion or a batch commits have not been judged.
LEMMA CommitRows ==
    ASSUME Inv, ReviewInv, NEW c \in Senders, \A d \in Calls \ {c} : call'[d] = call[d],
           Commit(c)
    PROVE  ReviewInv'
<1>1. /\ call[c].pc = "commit" /\ c \in Calls /\ c \notin Reviews
      /\ Shape(c, call[c])
  BY CallsAssumption, SentType, CallType DEF Commit
<1>2. feedback' = feedback /\ images' = images \cup Uncommitted(c)
  <2>1. \A r : Updated(c, r) = r
    BY <1>1 DEF Shape, Updated
  <2> QED BY <1>1, <2>1 DEF Commit
<1>3. ASSUME NEW r \in Uncommitted(c)
      PROVE  \E i \in DOMAIN Sent[c] : r = NewRow(c, i)
  BY <1>1 DEF Uncommitted, Shape
<1>4. \A r \in images : r.id[1] # c
  BY <1>1 DEF Inv, BytesInv
<1>5. ASSUME NEW r \in Uncommitted(c)
      PROVE  /\ r.id[1] = c /\ Judgements(feedback, r.id) = {}
             /\ r.status = IF c \in Uploads THEN "valid" ELSE "pending"
             /\ r.reviewed = FALSE
  <2>1. PICK i \in DOMAIN Sent[c] : r = NewRow(c, i)
    BY <1>3
  <2>2. r.id[1] = c
    BY <2>1 DEF NewRow
  <2>3. Judgements(feedback, r.id) = {}
    BY <1>4, <2>2 DEF Judgements, ReviewInv
  <2> QED BY <2>1, <2>2, <2>3 DEF NewRow
<1>6. \A r \in images' : Judged(feedback, r)
  <2>1. ASSUME NEW r \in Uncommitted(c) PROVE Judged(feedback, r)
    BY <1>5 DEF Judged
  <2> QED BY <1>2, <2>1 DEF ReviewInv
<1>7. ASSUME NEW r \in images', NEW s \in images', r.id = s.id
      PROVE  r = s
  <2>1. CASE r \in images /\ s \in images
    BY <1>7, <2>1 DEF ReviewInv
  <2>2. CASE r \in Uncommitted(c) /\ s \in Uncommitted(c)
    <3>1. PICK i \in DOMAIN Sent[c], j \in DOMAIN Sent[c] : r = NewRow(c, i) /\ s = NewRow(c, j)
      BY <1>3, <2>2
    <3>2. i = j
      BY <1>7, <3>1 DEF NewRow
    <3> QED BY <3>1, <3>2
  <2> QED BY <1>2, <1>4, <1>5, <1>7, <2>1, <2>2
<1>8. \A v \in Reviews : call'[v] = call[v]
  BY <1>1 DEF Calls
<1>9. Pending' = Pending /\ Befores' = Befores
  <2>1. Pending' = Pending
    BY <1>8 DEF Pending
  <2> QED BY <1>2, <1>8, <2>1 DEF Befores, Pending
<1>10. \A v \in Pending' : /\ Folding(v, call'[v])
                            /\ \E r \in images' : Since(feedback, call'[v], r)
  <2>1. \A v \in Pending : v \in Reviews
    BY DEF Pending
  <2> QED BY <1>2, <1>8, <1>9, <2>1 DEF ReviewInv
<1>11. \A f \in feedback : /\ call'[f.id].pc = "done"
                           /\ \E r \in images' : r.id = f.prediction.image
  BY <1>2, <1>8 DEF ReviewInv
<1> QED BY <1>2, <1>6, <1>7, <1>9, <1>10, <1>11 DEF ReviewInv

\* The commit of a review: its image bears its truth, or a truth it did not know of.
LEMMA CommitReview ==
    ASSUME Inv, ReviewInv, NEW c \in Reviews, \A d \in Calls \ {c} : call'[d] = call[d],
           Commit(c)
    PROVE  ReviewInv'
<1> DEFINE g == call[c].fb
<1>1. /\ call[c].pc = "commit" /\ c \in Calls /\ c \in Pending /\ call'[c].pc = "done"
      /\ call[c].fb \in Feedback /\ call[c].read \in Row
  <2>1. call'[c] = [Fresh EXCEPT !.pc = "done"]
    BY CallType DEF Commit, Drop, Go, Inv, TypeOK, Calls
  <2>2. call'[c].pc = "done"
    BY <2>1, FreshType DEF Steps, Ended
  <2>3. Shape(c, call[c])
    BY CallType DEF Calls
  <2> QED BY <2>2, <2>3 DEF Commit, Calls, Pending, Reading, Shape
<1>2. /\ feedback' = feedback \cup {g}
      /\ images' = {Updated(c, r) : r \in images}
  <2>1. Uncommitted(c) = {}
    BY <1>1, CallType DEF Shape, Uncommitted
  <2> QED BY <2>1 DEF Commit
<1>3. /\ g.id = c /\ g.prediction.image = call[c].read.id /\ g.truth \in Labels
      /\ Folding(c, call[c])
  BY <1>1 DEF ReviewInv, Folding, Feedback
<1>4. PICK row \in images : Since(feedback, call[c], row)
  BY <1>1 DEF ReviewInv
<1>5. row.id = g.prediction.image /\ row \in Row
  BY <1>3, <1>4 DEF Since, Inv, TypeOK
<1> DEFINE new == Updated(c, row)
<1>6. /\ new.id = row.id /\ new.status = "valid" /\ new.reviewed = TRUE
      /\ new.label = IF g.truth = call[c].read.label THEN row.label ELSE g.truth
  BY <1>1, <1>3, <1>4, <1>5, JudgedRow
<1>7. ASSUME NEW r \in images, r # row
      PROVE  r.id # row.id /\ Updated(c, r) = r
  <2>1. r.id # row.id
    BY <1>7 DEF ReviewInv
  <2> QED BY <2>1, <1>3, <1>5 DEF Updated
<1>8. Pending' = Pending \ {c} /\ \A v \in Pending' : call'[v] = call[v] /\ v \in Pending
  <2>1. c \notin Pending'
    BY <1>1 DEF Pending, Reading
  <2>2. \A v \in Reviews \ {c} : call'[v] = call[v]
    BY DEF Calls
  <2> QED BY <2>1, <2>2 DEF Pending
<1>9. Befores' \subseteq Befores
  <2>1. call[c].fb.before \in Befores
    BY <1>1 DEF Befores
  <2> QED BY <2>1, <1>2, <1>8 DEF Befores
\* Nobody knows of a feedback that is not committed.
<1>10. c \notin Ids(feedback) /\ \A B \in Befores : c \notin B
  <2>1. c \notin Ids(feedback)
    BY <1>1 DEF Ids, ReviewInv
  <2> QED BY <2>1 DEF ReviewInv
<1>11. \A f \in feedback \cup {g} : f.before \in Befores
  BY <1>1 DEF Befores
<1>12. g.truth = new.label => g \in Standing(feedback \cup {g}, new)
  <2>1. \A f \in feedback \cup {g} : g.id \notin f.before
    BY <1>3, <1>10, <1>11
  <2> HIDE DEF new, g
  <2> QED BY <2>1, <1>5, <1>6, StandingAfter
<1>13. \A f \in Standing(feedback, row) : new.label = row.label /\ f.id \notin g.before
         => f \in Standing(feedback \cup {g}, new)
  <2> HIDE DEF new, g
  <2> QED BY <1>6, StandingAfter
\* Either the new judgement stands or one that it did not know of.
<1>14. \/ new.label = g.truth
       \/ new.label = row.label /\ \E f \in Standing(feedback, row) : f.id \notin g.before
  BY <1>4, <1>6 DEF Since
<1> HIDE DEF g, new
<1>15. Standing(feedback \cup {g}, new) # {}
  BY <1>12, <1>13, <1>14
<1>16. Judged(feedback \cup {g}, new)
  <2>1. g \in Judgements(feedback \cup {g}, new.id)
    BY <1>5, <1>6 DEF Judgements
  <2> QED BY <2>1, <1>6, <1>15 DEF Judged
<1>17. ASSUME NEW r \in images, r # row
       PROVE  Judged(feedback \cup {g}, r)
  <2>1. g.prediction.image # r.id
    BY <1>5, <1>7, <1>17
  <2>2. Judged(feedback, r)
    BY DEF ReviewInv
  <2> QED BY <2>1, <2>2, StandingElsewhere DEF Judged
<1>18. images' = (images \ {row}) \cup {new}
  BY <1>2, <1>7 DEF new
<1>19. \A r, s \in images' : r.id = s.id => r = s
  BY <1>6, <1>7, <1>18 DEF ReviewInv
<1>20. \A r \in images : \E s \in images' : s.id = r.id
  BY <1>6, <1>18
<1>21. \A f \in feedback' : /\ f.id \in Reviews /\ call'[f.id].pc = "done"
                            /\ \E r \in images' : r.id = f.prediction.image
  <2>1. ASSUME NEW f \in feedback
        PROVE  /\ f.id \in Reviews /\ call'[f.id].pc = "done"
               /\ \E r \in images' : r.id = f.prediction.image
    BY <1>1, <1>20 DEF ReviewInv, Calls
  <2>2. /\ g.id \in Reviews /\ call'[g.id].pc = "done"
        /\ \E r \in images' : r.id = g.prediction.image
    BY <1>1, <1>3, <1>5, <1>20
  <2> QED BY <1>2, <2>1, <2>2
<1>22. \A B \in Befores' : B \subseteq Ids(feedback')
  BY <1>2, <1>9 DEF ReviewInv, Ids
<1>23. \A A, B \in Befores' : A \subseteq B \/ B \subseteq A
  BY <1>9 DEF ReviewInv
\* Other reviews of the image: what they did not know of, or this judgement.
<1>24. ASSUME NEW v \in Pending'
       PROVE  Folding(v, call'[v]) /\ \E r \in images' : Since(feedback', call'[v], r)
  <2>1. v \in Pending /\ call'[v] = call[v] /\ Folding(v, call[v])
    BY <1>8 DEF ReviewInv
  <2>2. PICK r \in images : Since(feedback, call[v], r)
    BY <2>1 DEF ReviewInv
  <2>3. CASE r # row
    <3>1. Since(feedback', call[v], r)
      <4>1. g.prediction.image # r.id
        BY <1>5, <1>7, <2>3
      <4>2. Standing(feedback \cup {g}, r) = Standing(feedback, r)
        BY <4>1, StandingElsewhere
      <4> QED BY <1>2, <2>2, <4>2 DEF Since
    <3> QED BY <2>1, <2>3, <3>1, <1>18
  <2>4. CASE r = row
    <3>1. g.id \notin call[v].fb.before
      BY <2>1, <1>3, <1>10 DEF Befores
    <3>2. ASSUME new.label # call[v].read.label
          PROVE  \E f \in Standing(feedback \cup {g}, new) : f.id \notin call[v].fb.before
      <4>1. CASE new.label = g.truth
        BY <4>1, <3>1, <1>12
      <4>2. CASE new.label # g.truth
        <5>1. PICK h \in Standing(feedback, row) : h.id \notin g.before /\ new.label = row.label
          BY <4>2, <1>14
        <5>2. PICK f \in Standing(feedback, row) : f.id \notin call[v].fb.before
          BY <2>2, <2>4, <3>2, <5>1 DEF Since
        <5>3. CASE f.id \notin g.before
          BY <5>1, <5>2, <5>3, <1>13
        <5>4. CASE f.id \in g.before
          <6>1. call[v].fb.before \in Befores /\ g.before \in Befores
            BY <2>1, <1>11 DEF Befores
          <6>2. h.id \notin call[v].fb.before
            BY <5>1, <5>2, <5>4, <6>1 DEF ReviewInv
          <6> QED BY <5>1, <6>2, <1>13
        <5> QED BY <5>3, <5>4
      <4> QED BY <4>1, <4>2
    <3>3. Since(feedback', call[v], new)
      BY <1>2, <1>6, <2>2, <2>4, <3>2 DEF Since
    <3> QED BY <2>1, <3>3, <1>18
  <2> QED BY <2>3, <2>4
<1> QED BY <1>2, <1>16, <1>17, <1>18, <1>19, <1>21, <1>22, <1>23, <1>24 DEF ReviewInv

LEMMA ReviewNext == Inv /\ ReviewInv /\ [Next]_vars => ReviewInv'
<1> SUFFICES ASSUME Inv, ReviewInv, [Next]_vars PROVE ReviewInv'
  OBVIOUS
<1>1. CASE UNCHANGED vars
  <2>1. images' = images /\ feedback' = feedback /\ call' = call
    BY <1>1 DEF vars
  <2>2. Pending' = Pending /\ Befores' = Befores
    BY <2>1 DEF Pending, Befores
  <2> QED BY <2>1, <2>2 DEF ReviewInv
<1>2. CASE Next
  <2>1. PICK c \in Calls : Begin(c) \/ Continue(c) \/ BreakDeadlock(c) \/ Fail(c) \/ Lose(c)
    BY <1>2 DEF Next
  <2>2. /\ \A d \in Calls \ {c} : call'[d] = call[d]
        /\ call[c].pc \notin Ended
        /\ Load(c) \/ Commit(c) \/ Local(c)
    BY <2>1, StepKinds
  <2>3. c \in Senders \/ c \in Reviews
    BY DEF Calls, Senders
  <2> QED BY <2>2, <2>3, LocalReview, LoadReview, CommitRows, CommitReview
<1> QED BY <1>1, <1>2

\* However reviews of one image overlap, an image may be trained on exactly when it passed
\* validation or was judged, no judgement is lost, and a judged image bears the truth of a
\* judgement that none made in its knowledge follows.
THEOREM JudgementsAlwaysStand == Spec => []JudgementsStand
<1>1. ReviewInv => JudgementsStand
  BY DEF ReviewInv, Judged, Standing, Judgements, JudgementsStand
<1> QED BY <1>1, Invariance, ReviewInit, ReviewNext, PTL DEF Spec

-----------------------------------------------------------------------------
(* What a batch finds. *)

\* Every nonempty set of naturals has a least element.
LEMMA LeastElement ==
    ASSUME NEW T \in SUBSET Nat, T # {}
    PROVE  \E x \in T : \A y \in T : x <= y
<1> DEFINE R == {ss \in Nat \X Nat : ss[1] < ss[2]}
<1>1. R = OpToRel(<, Nat)
  BY DEF OpToRel
<1>2. IsWellFoundedOn(R, Nat)
  BY <1>1, NatLessThanWellFounded
<1>3. PICK x \in T : \A y \in T : ~ (<<y, x>> \in R)
  <2> HIDE DEF R
  <2> QED BY <1>2, WFMin
<1>4. ASSUME NEW y \in T PROVE x <= y
  <2>1. x \in Nat /\ y \in Nat /\ ~(<<y, x>> \in R)
    BY <1>3
  <2>2. ~(y < x)
    BY <2>1
  <2> QED BY <2>1, <2>2
<1> QED BY <1>4

\* A content of a list has a first position in it.
LEMMA FirstWithFound ==
    ASSUME NEW c \in Senders, NEW i \in DOMAIN Sent[c]
    PROVE  /\ FirstWith(Sent[c][i], Sent[c]) \in DOMAIN Sent[c]
           /\ Sent[c][FirstWith(Sent[c][i], Sent[c])] = Sent[c][i]
<1> DEFINE T == {j \in DOMAIN Sent[c] : Sent[c][j] = Sent[c][i]}
<1>1. DOMAIN Sent[c] = 1..Len(Sent[c]) /\ Len(Sent[c]) \in Nat
  BY SentType
<1>2. T \in SUBSET Nat /\ i \in T
  BY <1>1
<1>3. PICK x \in T : \A y \in T : x <= y
  <2> HIDE DEF T
  <2> QED BY <1>2, LeastElement
<1>4. x \in DOMAIN Sent[c] /\ Sent[c][x] = Sent[c][i]
  OBVIOUS
<1>5. ASSUME NEW j \in 1..(x - 1) PROVE Sent[c][j] # Sent[c][i]
  <2>1. j \in DOMAIN Sent[c] /\ ~(x <= j)
    BY <1>1, <1>4
  <2> QED BY <2>1, <1>3
<1> QED BY <1>4, <1>5 DEF FirstWith

\* A row of that id and content; a row of p's that another call committed.
Found(R, id, content) == \E r \in R : r.id = id /\ r.content = content
Known(R, p) == \E r \in R : r.content \in Range(Sent[p]) /\ r.id[1] # p

\* Whether the request x has dealt with its j-th content.
Handled(x, j) == j < x.at \/ (j = x.at /\ x.pc # "insert")

\* Each content of the request p has a committed row, or the row that p makes for the first
\* content like it; p makes its rows in order and leaves none out.
Working(R, p, x) ==
    /\ x.pc \in {"start", "put"} => x.at = 1
    /\ x.pc \in Storing \cup {"put"} => \A i \in DOMAIN Sent[p] :
         LET k == FirstWith(Sent[p][i], Sent[p])
         IN  Found(R, x.image[i], Sent[p][i]) \/ (x.image[i] = <<p, k>> /\ x.image[k] = <<p, k>>)
    /\ x.pc \in Storing => \A j \in DOMAIN Sent[p] :
         /\ j \in x.inserted => Handled(x, j)
         /\ Handled(x, j) /\ x.image[j] = <<p, j>> => j \in x.inserted
    /\ x.pc = "commit" => x.at = Len(Sent[p])
    /\ x.pc = "refused" => Known(R, p)

RequestInv ==
    /\ \A p \in Requests : Working(images, p, call[p])
    /\ \A p \in predictions : Found(images, p.image, Sent[p.id[1]][p.id[2]])

\* Rows keep their ids and contents.
Stay(R, S) == \A r \in R : \E s \in S : s.id = r.id /\ s.content = r.content

LEMMA FoundStays ==
    ASSUME NEW R, NEW S, Stay(R, S)
    PROVE  /\ \A id, content : Found(R, id, content) => Found(S, id, content)
           /\ \A p \in Requests : Known(R, p) => Known(S, p)
           /\ \A p \in Requests : \A x : Working(R, p, x) => Working(S, p, x)
<1>1. \A id, content : Found(R, id, content) => Found(S, id, content)
  BY DEF Stay, Found
<1>2. \A p \in Requests : Known(R, p) => Known(S, p)
  BY DEF Stay, Known
<1>3. ASSUME NEW p \in Requests, NEW x, Working(R, p, x) PROVE Working(S, p, x)
  BY <1>1, <1>2, <1>3 DEF Working
<1> QED BY <1>1, <1>2, <1>3

LEMMA RowsStay ==
    ASSUME Inv, NEW c \in Calls, Load(c) \/ Commit(c) \/ Local(c)
    PROVE  Stay(images, images')
<1>1. CASE images' = images
  BY <1>1 DEF Stay
<1>2. CASE Commit(c)
  <2>1. ASSUME NEW r \in images
        PROVE  /\ Updated(c, r) \in images'
               /\ Updated(c, r).id = r.id /\ Updated(c, r).content = r.content
    BY <1>2, UpdatedType DEF Commit, Inv, TypeOK
  <2> QED BY <2>1 DEF Stay
<1> QED BY <1>1, <1>2 DEF Load, Local, tables

LEMMA RequestInit == Init => RequestInv
<1> SUFFICES ASSUME Init PROVE RequestInv
  OBVIOUS
<1>1. ASSUME NEW p \in Requests PROVE Working(images, p, call[p])
  <2>1. call[p] = Fresh
    BY DEF Init, Calls
  <2>2. Fresh.pc = "start" /\ Fresh.at = 1
    BY DEF Fresh
  <2> QED BY <2>1, <2>2 DEF Working, Storing
<1> QED BY <1>1 DEF RequestInv, Init

\* A request's own steps.
LEMMA RequestStep ==
    ASSUME Inv, RequestInv, NEW p \in Requests,
           Begin(p) \/ Continue(p) \/ BreakDeadlock(p) \/ Fail(p) \/ Lose(p)
    PROVE  Working(images', p, call'[p])
<1> DEFINE x == call[p]
<1>1. /\ p \in Calls /\ p \in Senders /\ p \notin Uploads /\ p \notin Reviews
      /\ Working(images, p, x)
  BY CallsAssumption DEF Calls, Senders, RequestInv
<1>2. x \in Call /\ Shape(p, x) /\ call \in [Calls -> Call] /\ x.at \in Nat
  BY <1>1, CallType DEF Inv, TypeOK, Call
<1>3. DOMAIN Sent[p] = 1..Len(Sent[p]) /\ Len(Sent[p]) \in Nat
  BY <1>1, SentType
\* However it ends, unless it is refused, there is nothing left to say.
<1>4. ASSUME NEW end \in Ended \ {"refused"}, Drop(p, end)
      PROVE  Working(images', p, call'[p])
  <2>1. call'[p] = [Fresh EXCEPT !.pc = end]
    BY <1>1, <1>2, <1>4 DEF Drop, Go
  <2>2. call'[p].pc = end
    BY <2>1, FreshType DEF Steps
  <2> QED BY <2>2 DEF Working, Storing, Ended
<1>5. CASE Resolve(p)
  <2>1. PICK ids \in [DOMAIN Sent[p] -> RowId] :
          /\ \A i \in DOMAIN ids :
               LET known == {r \in images : r.content = Sent[p][i]}
               IN  IF known # {} THEN \E r \in known : ids[i] = r.id
                                 ELSE ids[i] = <<p, FirstWith(Sent[p][i], Sent[p])>>
          /\ Go(p, [x EXCEPT !.pc = "put", !.image = ids])
    BY <1>5 DEF Resolve
  <2>2. call'[p] = [x EXCEPT !.pc = "put", !.image = ids] /\ x.pc = "start"
    BY <1>1, <1>2, <1>5, <2>1 DEF Go, Resolve
  <2>3. call'[p].pc = "put" /\ call'[p].image = ids /\ call'[p].at = 1
    BY <1>1, <1>2, <2>2 DEF Call, Working
  <2>4. images' = images
    BY <1>5 DEF Resolve, tables
  <2>5. ASSUME NEW i \in DOMAIN Sent[p]
        PROVE  LET k == FirstWith(Sent[p][i], Sent[p])
               IN  Found(images, ids[i], Sent[p][i]) \/ (ids[i] = <<p, k>> /\ ids[k] = <<p, k>>)
    <3> DEFINE k == FirstWith(Sent[p][i], Sent[p])
    <3>1. k \in DOMAIN Sent[p] /\ Sent[p][k] = Sent[p][i]
      BY <1>1, FirstWithFound
    <3> HIDE DEF k
    <3>2. CASE \E r \in images : r.content = Sent[p][i]
      BY <2>1, <3>2 DEF Found
    <3>3. CASE ~ \E r \in images : r.content = Sent[p][i]
      <4>1. ids[i] = <<p, FirstWith(Sent[p][i], Sent[p])>>
            /\ ids[k] = <<p, FirstWith(Sent[p][k], Sent[p])>>
        BY <2>1, <3>1, <3>3
      <4> QED BY <3>1, <4>1 DEF k
    <3> QED BY <3>2, <3>3 DEF k
  <2> QED BY <2>3, <2>4, <2>5 DEF Working, Storing
<1>6. CASE Put(p)
  <2>1. call'[p] = [x EXCEPT !.pc = "insert"] /\ x.pc = "put" /\ images' = images
    BY <1>1, <1>2, <1>6 DEF Put, Go, tables
  <2>2. /\ call'[p].pc = "insert" /\ call'[p].image = x.image /\ call'[p].at = 1
        /\ call'[p].inserted = {}
    BY <1>1, <1>2, <2>1 DEF Call, Working, Shape
  <2>3. \A j \in DOMAIN Sent[p] : ~Handled(call'[p], j)
    BY <1>3, <2>2 DEF Handled
  <2> QED BY <1>1, <2>1, <2>2, <2>3 DEF Working, Storing
<1>7. CASE RecordPrediction(p)
  <2>1. /\ x.pc = "insert" /\ images' = images /\ x.at \in DOMAIN Sent[p]
        /\ \A j \in x.inserted : x.image[j] = <<p, j>> /\ j \in DOMAIN Sent[p] /\ j < x.at
    BY <1>1, <1>2, <1>7 DEF RecordPrediction, tables, Shape, Storing, Working, Handled
  \* Another request's row: its own earlier contents are different.
  <2>2. CASE Drop(p, "refused") /\ x.image[x.at] = <<p, x.at>> /\ IsTaken(p, NextContent(p))
    <3>1. call'[p].pc = "refused"
      <4>1. call'[p] = [Fresh EXCEPT !.pc = "refused"]
        BY <1>1, <1>2, <2>2 DEF Drop, Go
      <4> QED BY <4>1, FreshType DEF Steps, Ended
    <3>2. PICK r \in images \cup Uncommitted(p) : r.content = Sent[p][x.at]
      BY <2>2 DEF IsTaken, NextContent
    <3>3. \A s \in images : s.id[1] # p
      BY <2>1 DEF Inv, BytesInv
    <3>4. r \in images
      <4>1. SUFFICES ASSUME r \in Uncommitted(p) PROVE FALSE
        BY <3>2
      <4>2. PICK j \in x.inserted : r = NewRow(p, j)
        BY <4>1 DEF Uncommitted
      <4>3. Sent[p][j] = Sent[p][x.at] /\ j # x.at /\ x.image[j] = <<p, j>> /\ j \in DOMAIN Sent[p]
        BY <1>3, <2>1, <3>2, <4>2 DEF NewRow
      <4>4. \A i \in DOMAIN Sent[p] : x.image[i][1] = p
              => x.image[i] = <<p, FirstWith(Sent[p][i], Sent[p])>>
        BY <1>1, <2>1, <3>3 DEF Working, Storing, Found
      <4>5. <<p, j>> = <<p, FirstWith(Sent[p][j], Sent[p])>>
            /\ <<p, x.at>> = <<p, FirstWith(Sent[p][x.at], Sent[p])>>
        BY <2>1, <2>2, <4>3, <4>4
      <4> QED BY <4>3, <4>5
    <3>5. r.content \in Range(Sent[p])
      BY <2>1, <3>2 DEF Range
    <3> QED BY <2>1, <3>1, <3>3, <3>4, <3>5 DEF Working, Known, Storing
  <2>3. CASE /\ x.image[x.at] = <<p, x.at>>
             /\ Go(p, [x EXCEPT !.pc = "head", !.inserted = @ \cup {x.at}])
    <3>1. call'[p] = [x EXCEPT !.pc = "head", !.inserted = @ \cup {x.at}]
      BY <1>1, <1>2, <2>3 DEF Go
    <3>2. /\ call'[p].pc = "head" /\ call'[p].image = x.image /\ call'[p].at = x.at
          /\ call'[p].inserted = x.inserted \cup {x.at}
      BY <1>2, <3>1 DEF Call
    <3>3. \A j \in DOMAIN Sent[p] : Handled(call'[p], j) <=> (Handled(x, j) \/ j = x.at)
      BY <2>1, <3>2 DEF Handled
    <3> QED BY <1>1, <2>1, <3>2, <3>3 DEF Working, Storing
  <2>4. CASE x.image[x.at] # <<p, x.at>> /\ Go(p, [x EXCEPT !.pc = "head"])
    <3>1. call'[p] = [x EXCEPT !.pc = "head"]
      BY <1>1, <1>2, <2>4 DEF Go
    <3>2. /\ call'[p].pc = "head" /\ call'[p].image = x.image /\ call'[p].at = x.at
          /\ call'[p].inserted = x.inserted
      BY <1>2, <3>1 DEF Call
    <3>3. \A j \in DOMAIN Sent[p] : Handled(call'[p], j) <=> (Handled(x, j) \/ j = x.at)
      BY <2>1, <3>2 DEF Handled
    <3> QED BY <1>1, <2>1, <2>4, <3>2, <3>3 DEF Working, Storing
  <2> QED BY <1>7, <2>2, <2>3, <2>4 DEF RecordPrediction
<1>8. CASE ReadHead(p)
  <2> DEFINE h == auditLen + x.events
  <2>1. call'[p] = [x EXCEPT !.pc = "append", !.head = h] /\ x.pc = "head" /\ images' = images
    BY <1>1, <1>2, <1>8 DEF ReadHead, Go, tables
  <2> HIDE DEF h
  <2>2. /\ call'[p].pc = "append" /\ call'[p].image = x.image /\ call'[p].at = x.at
        /\ call'[p].inserted = x.inserted
    BY <1>2, <2>1 DEF Call
  <2>3. \A j \in DOMAIN Sent[p] : Handled(call'[p], j) <=> Handled(x, j)
    BY <2>1, <2>2 DEF Handled
  <2> QED BY <1>1, <2>1, <2>2, <2>3 DEF Working, Storing
<1>9. CASE AppendAudit(p)
  <2> DEFINE more == x.at < Len(Sent[p])
             to == IF more THEN "insert" ELSE "commit"
             at == IF more THEN x.at + 1 ELSE x.at
             ev == x.events + 1
  <2>1. call'[p] = [x EXCEPT !.events = ev, !.pc = to, !.at = at] /\ x.pc = "append"
        /\ images' = images
    BY <1>1, <1>2, <1>9 DEF AppendAudit, Go, tables, Call
  <2>2. /\ call'[p].pc = to /\ call'[p].image = x.image /\ call'[p].at = at
        /\ call'[p].inserted = x.inserted
    <3> HIDE DEF to, at, ev
    <3> QED BY <1>2, <2>1 DEF Call
  <2>3. x.at \in DOMAIN Sent[p]
    BY <1>1, <1>2 DEF Shape
  <2>4. \A j \in DOMAIN Sent[p] : Handled(call'[p], j) <=> Handled(x, j)
    BY <1>2, <1>3, <2>1, <2>2, <2>3 DEF Handled
  <2>5. to \in Storing \ {"refused", "start", "put"} /\ (to = "commit" => at = Len(Sent[p]))
    BY <1>2, <1>3, <2>3 DEF Storing
  <2> HIDE DEF to, at
  <2> QED BY <1>1, <2>1, <2>2, <2>4, <2>5 DEF Working, Storing
<1>10. CASE RefuseAudit(p) \/ Commit(p) \/ BreakDeadlock(p) \/ Fail(p) \/ Lose(p)
  <2>1. \E end \in Ended \ {"refused"} : Drop(p, end)
    BY <1>1, <1>10 DEF RefuseAudit, Commit, BreakDeadlock, Fail, Lose, Ended
  <2> QED BY <1>4, <2>1
<1>11. ~Check(p) /\ ~Load(p) /\ ~InsertImage(p) /\ ~UpdateImage(p) /\ ~Compensate(p)
  BY <1>1, <1>2 DEF Check, Load, InsertImage, UpdateImage, Compensate, Shape
<1> QED BY <1>5, <1>6, <1>7, <1>8, <1>9, <1>10, <1>11 DEF Begin, Continue

\* The predictions a batch commits name rows that are committed or that it commits.
LEMMA ServedFound ==
    ASSUME Inv, RequestInv, NEW c \in Requests, Commit(c), Stay(images, images'),
           NEW i \in DOMAIN Sent[c]
    PROVE  Found(images', call[c].image[i], Sent[c][i])
<1> DEFINE k == FirstWith(Sent[c][i], Sent[c])
<1>1. c \in Calls /\ c \in Senders
  BY DEF Calls, Senders
<1>2. /\ call[c] \in Call /\ Shape(c, call[c]) /\ call[c].pc = "commit"
      /\ Working(images, c, call[c])
  BY <1>1, CallType DEF Commit, RequestInv
<1>3. CASE Found(images, call[c].image[i], Sent[c][i])
  BY <1>3, FoundStays
<1>4. CASE call[c].image[i] = <<c, k>> /\ call[c].image[k] = <<c, k>>
  <2>1. k \in DOMAIN Sent[c] /\ Sent[c][k] = Sent[c][i]
    BY <1>1, FirstWithFound
  <2> HIDE DEF k
  <2>2. Handled(call[c], k)
    <3>1. DOMAIN Sent[c] = 1..Len(Sent[c]) /\ Len(Sent[c]) \in Nat
      BY <1>1, SentType
    <3>2. call[c].at = Len(Sent[c])
      BY <1>2 DEF Working
    <3> QED BY <1>2, <2>1, <3>1, <3>2 DEF Handled
  <2>3. k \in call[c].inserted
    BY <1>2, <1>4, <2>1, <2>2 DEF Working, Storing
  <2>4. NewRow(c, k) \in images'
    BY <2>3 DEF Commit, Uncommitted
  <2>5. NewRow(c, k).id = <<c, k>> /\ NewRow(c, k).content = Sent[c][i]
    BY <2>1 DEF NewRow
  <2> QED BY <1>4, <2>4, <2>5 DEF Found
<1> QED BY <1>2, <1>3, <1>4 DEF Working, Storing

LEMMA RequestNext == Inv /\ RequestInv /\ [Next]_vars => RequestInv'
<1> SUFFICES ASSUME Inv, RequestInv, [Next]_vars PROVE RequestInv'
  OBVIOUS
<1>1. CASE UNCHANGED vars
  BY <1>1 DEF vars, RequestInv
<1>2. CASE Next
  <2>1. PICK c \in Calls : Begin(c) \/ Continue(c) \/ BreakDeadlock(c) \/ Fail(c) \/ Lose(c)
    BY <1>2 DEF Next
  <2>2. /\ \A d \in Calls \ {c} : call'[d] = call[d]
        /\ Load(c) \/ Commit(c) \/ Local(c)
    BY <2>1, StepKinds
  <2>3. Stay(images, images')
    BY <2>2, RowsStay
  <2>4. ASSUME NEW p \in Requests PROVE Working(images', p, call'[p])
    <3>1. CASE p = c
      BY <2>1, <3>1, RequestStep
    <3>2. CASE p # c
      <4>1. Working(images, p, call[p]) /\ call'[p] = call[p]
        BY <2>2, <3>2 DEF RequestInv, Calls
      <4> QED BY <2>3, <4>1, FoundStays
    <3> QED BY <3>1, <3>2
  <2>5. ASSUME NEW p \in predictions'
        PROVE  Found(images', p.image, Sent[p.id[1]][p.id[2]])
    <3>1. CASE p \in predictions
      BY <2>3, <3>1, FoundStays DEF RequestInv
    <3>2. CASE p \notin predictions
      <4>1. Commit(c) /\ c \in Requests /\ p \in Served(c)
        BY <2>2, <2>5, <3>2 DEF Load, Local, Commit, tables
      <4>2. PICK i \in DOMAIN Sent[c] : p.id = <<c, i>> /\ p.image = call[c].image[i]
        BY <4>1 DEF Served
      <4>3. Found(images', call[c].image[i], Sent[c][i])
        BY <2>3, <4>1, ServedFound
      <4> QED BY <4>2, <4>3
    <3> QED BY <3>1, <3>2
  <2> QED BY <2>4, <2>5 DEF RequestInv
<1> QED BY <1>1, <1>2

\* Every prediction is of a committed image with the bytes it was asked for, whichever calls
\* stored them, and a batch that repeats an image is never refused for its own rows.
THEOREM RequestsFind == Spec => []RequestsFindTheirImages
<1>1. Inv /\ RequestInv => RequestsFindTheirImages
  <2> SUFFICES ASSUME Inv, RequestInv PROVE RequestsFindTheirImages
    OBVIOUS
  <2>1. \A p \in predictions :
          \E r \in images : r.id = p.image /\ r.content = Sent[p.id[1]][p.id[2]]
    BY DEF RequestInv, Found
  <2>2. \A p \in Requests : call[p].pc = "refused" =>
          \E r \in images : r.content \in Range(Sent[p]) /\ r.id[1] # p
    BY DEF RequestInv, Working, Known
  <2> QED BY <2>1, <2>2 DEF RequestsFindTheirImages
<1> QED BY <1>1, Invariance, RequestInit, RequestNext, PTL DEF Spec
-----------------------------------------------------------------------------
(***************************************************************************)
(* Deadlock.  Calls wait for rows and for the audit log in no fixed order,  *)
(* so they may deadlock.  But a batch inserts its second row only with the  *)
(* audit log's lock in hand, hence calls that all wait include two that     *)
(* wait for each other, which is what BreakDeadlock looks for.              *)
(***************************************************************************)
Running(c) == call[c].pc \notin Ended \cup {"start"}

\* Where a call can go on: only a row being inserted or updated, or the audit log, makes one
\* wait.
CanGoOn(c) ==
    \/ call[c].pc \in {"put", "head", "deleting", "commit"}
    \/ /\ call[c].pc = "insert"
       /\ call[c].image[call[c].at] = <<c, call[c].at>> => RowOwners(c, NextContent(c)) = {}
    \/ /\ call[c].pc = "update"
       /\ call[c].write # call[c].read => \A d \in Reviews \ {c} : ~Holds(d, call[c].read.id)
    \/ call[c].pc = "append" /\ MayLock(c)

OnlyPairsDeadlock ==
    (\E c \in Calls : Running(c)) =>
      \/ \E c \in Calls : CanGoOn(c)
      \/ \E c, d \in Calls : WaitsFor(c, d) /\ WaitsFor(d, c)

\* Who holds the audit log's lock has a transaction; a call that inserts once more holds it.
LogLock(c) ==
    /\ auditLock = c => call[c].pc \in Storing \cup {"deleting"}
    /\ call[c].pc = "insert" /\ call[c].inserted # {} => auditLock = c
LogLockInv == \A c \in Calls : LogLock(c)

\* One call's step keeps who holds the log, if it takes no lock but the free one and lets go
\* of no lock but its own.
LEMMA LogStep ==
    ASSUME TypeOK, LogLockInv, NEW c \in Calls, NEW x \in Call, Go(c, x),
           \/ auditLock' = auditLock
           \/ auditLock \in {None, c} /\ auditLock' \in {None, c},
           auditLock' = c => x.pc \in Storing \cup {"deleting"},
           x.pc = "insert" /\ x.inserted # {} => auditLock' = c
    PROVE  LogLockInv'
<1>1. /\ call'[c] = x
      /\ \A d \in Calls \ {c} : call'[d] = call[d]
  BY OneCall
<1>2. c # None
  BY CallsAssumption
<1>3. ASSUME NEW d \in Calls PROVE LogLock(d)'
  <2>1. CASE d = c
    BY <1>1, <2>1 DEF LogLock
  <2>2. CASE d # c
    <3>1. call'[d] = call[d] /\ LogLock(d)
      BY <1>1, <2>2 DEF LogLockInv
    <3>2. auditLock' = d <=> auditLock = d
      BY <2>2, CallsAssumption
    <3> QED BY <3>1, <3>2 DEF LogLock
  <2> QED BY <2>1, <2>2
<1> QED BY <1>3 DEF LogLockInv

\* A call that is over holds nothing.
LEMMA LogDrop ==
    ASSUME TypeOK, LogLockInv, NEW c \in Calls, NEW end \in Ended, Drop(c, end)
    PROVE  LogLockInv'
<1> DEFINE x == [Fresh EXCEPT !.pc = end]
<1>1. x \in Call /\ x.inserted = {}
  BY FreshType DEF Steps
<1>2. Go(c, x)
  BY DEF Drop
<1>3. /\ auditLock' = auditLock \/ (auditLock \in {None, c} /\ auditLock' \in {None, c})
      /\ auditLock' # c
  BY CallsAssumption DEF Drop, Unlock
<1> HIDE DEF x
<1> QED BY <1>1, <1>2, <1>3, LogStep

\* A step that leaves the lock alone and inserts nothing.
LEMMA LogMove ==
    ASSUME Inv, LogLockInv, NEW c \in Calls, NEW x \in Call, Go(c, x), UNCHANGED auditLock,
           x.pc # "insert" \/ x.inserted = {},
           x.pc \in Storing \cup {"deleting"} \/ call[c].pc \notin Storing \cup {"deleting"}
    PROVE  LogLockInv'
<1>1. auditLock = c => call[c].pc \in Storing \cup {"deleting"}
  BY DEF LogLockInv, LogLock
<1> QED BY <1>1, LogStep DEF Inv

LEMMA LogBegin == ASSUME Inv, LogLockInv, NEW c \in Calls, Begin(c) PROVE LogLockInv'
<1>1. call[c] \in Call /\ Shape(c, call[c])
  BY CallType
<1>2. call[c].pc = "start" /\ call[c].inserted = {}
  BY <1>1 DEF Begin, Check, Resolve, Load, Shape
<1>3. CASE Check(c)
  <2>1. CASE Drop(c, "duplicate")
    BY <2>1, LogDrop DEF Ended, Inv
  <2>2. CASE ~Drop(c, "duplicate")
    <3> DEFINE x == [call[c] EXCEPT !.pc = "put", !.image = <<<<c, 1>>>>]
    <3>1. Go(c, x) /\ UNCHANGED auditLock
      BY <1>3, <2>2 DEF Check
    <3>2. x \in Call /\ x.pc = "put"
      <4>1. <<c, 1>> \in RowId
        BY <1>3, SentType, NewRowType DEF Check, Senders
      <4>2. <<<<c, 1>>>> \in Seq(RowId) /\ "put" \in Steps
        BY <4>1 DEF Steps
      <4> QED BY <1>1, <4>2 DEF Call
    <3> HIDE DEF x
    <3> QED BY <3>1, <3>2, <1>2, LogMove DEF Storing
  <2> QED BY <2>1, <2>2
<1>4. CASE Resolve(c)
  <2>1. PICK ids \in [DOMAIN Sent[c] -> RowId] :
          Go(c, [call[c] EXCEPT !.pc = "put", !.image = ids]) /\ UNCHANGED auditLock
    BY <1>4 DEF Resolve
  <2> DEFINE x == [call[c] EXCEPT !.pc = "put", !.image = ids]
  <2>2. x \in Call /\ x.pc = "put"
    <3>1. ids \in Seq(RowId)
      BY <1>4, SentType DEF Resolve, Senders
    <3> QED BY <1>1, <3>1 DEF Call, Steps
  <2>3. Go(c, x) /\ UNCHANGED auditLock
    BY <2>1
  <2> HIDE DEF x
  <2> QED BY <2>2, <2>3, <1>2, LogMove DEF Storing
<1>5. CASE Load(c)
  <2>1. call'[c].pc = "update" /\ UNCHANGED auditLock
    BY <1>5, <1>1 DEF Load, Go, Inv, TypeOK, Call
  <2>2. \A d \in Calls \ {c} : call'[d] = call[d]
    BY <1>5 DEF Load, Go, Inv, TypeOK
  <2>3. auditLock # c
    BY <1>2 DEF LogLockInv, LogLock, Storing
  <2> QED BY <2>1, <2>2, <2>3 DEF LogLockInv, LogLock
<1> QED BY <1>3, <1>4, <1>5 DEF Begin

LEMMA LogContinue == ASSUME Inv, LogLockInv, NEW c \in Calls, Continue(c) PROVE LogLockInv'
<1>1. call[c] \in Call /\ Shape(c, call[c]) /\ LogLock(c)
  BY CallType DEF LogLockInv
<1>2. CASE Put(c)
  <2> DEFINE x == [call[c] EXCEPT !.pc = "insert"]
  <2>1. x \in Call /\ x.pc = "insert" /\ x.inserted = call[c].inserted
    BY <1>1 DEF Call, Steps
  <2>2. Go(c, x) /\ UNCHANGED auditLock /\ call[c].inserted = {}
    BY <1>1, <1>2 DEF Put, Shape
  <2> HIDE DEF x
  <2> QED BY <2>1, <2>2, LogMove DEF Storing
<1>3. CASE InsertImage(c)
  <2>1. PICK to \in {"deleting", "head"}, ins \in {call[c].inserted, {1}} :
          Go(c, [call[c] EXCEPT !.pc = to, !.inserted = ins])
    <3>1. CASE IsTaken(c, NextContent(c))
      <4>1. [call[c] EXCEPT !.pc = "deleting"]
              = [call[c] EXCEPT !.pc = "deleting", !.inserted = call[c].inserted]
        BY <1>1 DEF Call
      <4> QED BY <1>3, <3>1, <4>1 DEF InsertImage
    <3>2. CASE ~IsTaken(c, NextContent(c))
      BY <1>3, <3>2 DEF InsertImage
    <3> QED BY <3>1, <3>2
  <2> DEFINE x == [call[c] EXCEPT !.pc = to, !.inserted = ins]
  <2>2. x \in Call /\ x.pc = to
    <3>1. ins \in SUBSET Nat /\ to \in Steps
      BY <1>1 DEF Call, Steps
    <3> QED BY <1>1, <3>1 DEF Call
  <2>3. Go(c, x) /\ UNCHANGED auditLock
    BY <1>3, <2>1 DEF InsertImage
  <2> HIDE DEF x
  <2> QED BY <2>2, <2>3, LogMove DEF Storing
<1>4. CASE RecordPrediction(c)
  <2>1. CASE Drop(c, "refused")
    BY <2>1, LogDrop DEF Ended, Inv
  <2>2. CASE ~Drop(c, "refused")
    <3>1. PICK ins \in {call[c].inserted, call[c].inserted \cup {call[c].at}} :
            Go(c, [call[c] EXCEPT !.pc = "head", !.inserted = ins]) /\ UNCHANGED auditLock
      <4>1. [call[c] EXCEPT !.pc = "head"]
              = [call[c] EXCEPT !.pc = "head", !.inserted = call[c].inserted]
        BY <1>1 DEF Call
      <4> QED BY <1>4, <2>2, <4>1 DEF RecordPrediction
    <3> DEFINE x == [call[c] EXCEPT !.pc = "head", !.inserted = ins]
    <3>2. x \in Call /\ x.pc = "head"
      BY <1>1 DEF Call, Steps
    <3>3. Go(c, x)
      BY <3>1
    <3> HIDE DEF x
    <3> QED BY <3>1, <3>2, <3>3, LogMove DEF Storing
  <2> QED BY <2>1, <2>2
<1>5. CASE UpdateImage(c)
  <2> DEFINE x == [call[c] EXCEPT !.pc = "head"]
  <2>1. x \in Call /\ x.pc = "head" /\ Go(c, x) /\ UNCHANGED auditLock
    BY <1>1, <1>5 DEF Call, Steps, UpdateImage
  <2> HIDE DEF x
  <2> QED BY <2>1, LogMove DEF Storing
<1>6. CASE ReadHead(c)
  <2> DEFINE x == [call[c] EXCEPT !.pc = "append", !.head = auditLen + call[c].events]
  <2>1. auditLen + call[c].events \in Nat
    BY <1>1, CallType DEF Call
  <2>2. x \in Call /\ x.pc = "append" /\ Go(c, x) /\ UNCHANGED auditLock
    BY <1>1, <1>6, <2>1 DEF Call, Steps, ReadHead
  <2> HIDE DEF x
  <2> QED BY <2>2, LogMove DEF Storing
<1>7. CASE AppendAudit(c)
  <2> DEFINE more == c \in Requests /\ call[c].at < Len(Sent[c])
             to == IF more THEN "insert" ELSE "commit"
             at == IF more THEN call[c].at + 1 ELSE call[c].at
             x == [call[c] EXCEPT !.events = @ + 1, !.pc = to, !.at = at]
  <2>1. to \in {"insert", "commit"} /\ at \in Nat /\ call[c].events + 1 \in Nat
    BY <1>1 DEF Call
  <2>2. Go(c, x) /\ auditLock \in {None, c} /\ auditLock' = c
    BY <1>7 DEF AppendAudit, MayLock
  <2>3. x \in Call /\ x.pc = to
    <3> HIDE DEF to, at
    <3> QED BY <1>1, <2>1 DEF Call, Steps
  <2> HIDE DEF x, to
  <2> QED BY <2>1, <2>2, <2>3, LogStep DEF Storing, Inv
<1>8. CASE RefuseAudit(c)
  <2>1. CASE c \in Uploads
    <3> DEFINE x == [call[c] EXCEPT !.pc = "deleting"]
    <3>1. x \in Call /\ x.pc = "deleting" /\ Go(c, x)
      BY <1>1, <1>8, <2>1 DEF Call, Steps, RefuseAudit
    <3>2. auditLock \in {None, c} /\ auditLock' = c
      BY <1>8, <2>1 DEF RefuseAudit, MayLock
    <3> HIDE DEF x
    <3> QED BY <3>1, <3>2, LogStep DEF Inv
  <2>2. CASE c \notin Uploads
    BY <1>8, <2>2, LogDrop DEF RefuseAudit, Ended, Inv
  <2> QED BY <2>1, <2>2
<1>9. CASE Compensate(c) \/ Commit(c)
  BY <1>9, LogDrop DEF Compensate, Commit, Ended, Inv
<1> QED BY <1>2, <1>3, <1>4, <1>5, <1>6, <1>7, <1>8, <1>9 DEF Continue

LEMMA LogBreak ==
    ASSUME Inv, LogLockInv, NEW c \in Calls, BreakDeadlock(c) \/ Fail(c) \/ Lose(c)
    PROVE  LogLockInv'
<1>1. call[c] \in Call /\ Shape(c, call[c])
  BY CallType
<1>2. CASE \E end \in Ended : Drop(c, end)
  BY <1>2, LogDrop DEF Inv
<1>3. CASE ~\E end \in Ended : Drop(c, end)
  <2>1. CASE Fail(c)
    <3> DEFINE x == [call[c] EXCEPT !.pc = "deleting"]
    <3>1. x \in Call /\ x.pc = "deleting" /\ Go(c, x) /\ UNCHANGED auditLock
      BY <1>1, <1>3, <2>1 DEF Call, Steps, Fail, Ended
    <3> HIDE DEF x
    <3> QED BY <3>1, LogMove
  <2>2. CASE BreakDeadlock(c)
    <3> DEFINE x == [call[c] EXCEPT !.pc = "deleting", !.inserted = {}]
    <3>1. Go(c, x) /\ Unlock(c)
      BY <1>3, <2>2 DEF BreakDeadlock, Ended
    <3>2. x \in Call /\ x.pc = "deleting"
      BY <1>1 DEF Call, Steps
    <3>3. auditLock' = auditLock \/ (auditLock = c /\ auditLock' = None)
      BY <3>1 DEF Unlock
    <3> HIDE DEF x
    <3> QED BY <3>1, <3>2, <3>3, LogStep DEF Inv
  <2>3. CASE Lose(c)
    BY <1>3, <2>3 DEF Lose, Ended
  <2> QED BY <2>1, <2>2, <2>3
<1> QED BY <1>2, <1>3

LEMMA LogNext == Inv /\ LogLockInv /\ [Next]_vars => LogLockInv'
<1> SUFFICES ASSUME Inv, LogLockInv, [Next]_vars PROVE LogLockInv'
  OBVIOUS
<1>1. CASE UNCHANGED vars
  BY <1>1 DEF vars, LogLockInv, LogLock
<1>2. CASE Next
  <2>1. PICK c \in Calls : Begin(c) \/ Continue(c) \/ BreakDeadlock(c) \/ Fail(c) \/ Lose(c)
    BY <1>2 DEF Next
  <2> QED BY <2>1, LogBegin, LogContinue, LogBreak
<1> QED BY <1>1, <1>2

\* What a call that cannot insert waits for: the row of another that holds the log, or waits
\* for it.
LEMMA RowOwnerRuns ==
    ASSUME Inv, NEW c \in Calls, call[c].pc = "insert", ~CanGoOn(c)
    PROVE  \E d \in Calls \ {c} : /\ WaitsFor(c, d)
                                  /\ call[d].inserted # {}
                                  /\ call[d].pc \in Storing \cup {"deleting"}
<1>1. /\ call[c].image[call[c].at] = <<c, call[c].at>>
      /\ RowOwners(c, NextContent(c)) # {}
  BY DEF CanGoOn
<1>2. PICK d \in Calls \ {c} : d \in RowOwners(c, NextContent(c))
  BY <1>1 DEF RowOwners
<1>3. call[d].inserted # {}
  BY <1>2 DEF RowOwners, Uncommitted
<1>4. call[d] \in Call /\ Shape(d, call[d])
  BY CallType
<1>5. call[d].pc \notin Ended \cup {"start", "put", "update"}
  <2>1. d \in Senders
    BY <1>2, <1>3, <1>4 DEF Shape, Calls, Senders
  <2> QED BY <1>3, <1>4, <2>1 DEF Shape
<1>6. call[d].pc \in Storing \cup {"deleting"}
  BY <1>4, <1>5 DEF Call, Steps, Storing
<1> QED BY <1>1, <1>2, <1>3, <1>6 DEF WaitsFor

\* However many calls overlap, those that all wait include two that wait for each other: the
\* holder of the audit log's lock, which inserts one more row of its batch, and the owner
\* of that row, which has nothing left to wait for but the log.
THEOREM OnlyTwoCallsDeadlock == Spec => []OnlyPairsDeadlock
<1>1. Init => LogLockInv
  BY CallsAssumption DEF Init, LogLockInv, LogLock, Fresh
<1>2. Inv /\ LogLockInv => OnlyPairsDeadlock
  <2> SUFFICES ASSUME Inv, LogLockInv, NEW b \in Calls, Running(b),
                      \A c \in Calls : ~CanGoOn(c)
               PROVE  \E c, d \in Calls : WaitsFor(c, d) /\ WaitsFor(d, c)
    BY DEF OnlyPairsDeadlock
  <2>1. ASSUME NEW c \in Calls, Running(c)
        PROVE  call[c].pc \in {"insert", "update", "append"}
    <3>1. call[c].pc \in Steps
      BY CallType DEF Call
    <3> QED BY <2>1, <3>1 DEF Running, CanGoOn, Steps
  <2>2. ASSUME NEW c \in Calls, call[c].inserted # {}, call[c].pc \in Storing \cup {"deleting"}
        PROVE  call[c].pc = "append" \/ auditLock = c
    <3>1. call[c].pc \in {"insert", "append"}
      BY <2>2 DEF CanGoOn, Storing
    <3> QED BY <2>2, <3>1 DEF LogLockInv, LogLock
  <2>3. \A c \in Calls : call[c].pc = "append" => auditLock # None /\ auditLock # c
    BY DEF CanGoOn, MayLock
  <2>4. auditLock # None
    <3>1. CASE call[b].pc = "insert"
      BY <3>1, <2>2, <2>3, RowOwnerRuns, CallsAssumption
    <3>2. CASE call[b].pc = "update"
      <4>1. PICK d \in Reviews \ {b} : Holds(d, call[b].read.id)
        BY <3>2 DEF CanGoOn
      <4>2. d \in Calls /\ call[d].pc \in {"head", "append", "commit"}
        BY <4>1 DEF Calls, Holds
      <4>3. call[d].pc = "append"
        BY <4>2 DEF CanGoOn
      <4> QED BY <4>2, <4>3, <2>3
    <3>3. CASE call[b].pc = "append"
      BY <3>3, <2>3
    <3> QED BY <2>1, <3>1, <3>2, <3>3
  <2>5. PICK c \in Calls : auditLock = c
    BY <2>4, CallType
  <2>6. call[c].pc = "insert"
    <3>1. call[c].pc \in Storing \cup {"deleting"}
      BY <2>5 DEF LogLockInv, LogLock
    <3> QED BY <2>3, <2>5, <3>1 DEF CanGoOn, Storing
  <2>7. PICK d \in Calls \ {c} : /\ WaitsFor(c, d) /\ call[d].inserted # {}
                                 /\ call[d].pc \in Storing \cup {"deleting"}
    BY <2>6, RowOwnerRuns
  <2>8. WaitsFor(d, c)
    BY <2>2, <2>5, <2>7 DEF WaitsFor
  <2> QED BY <2>7, <2>8
<1> QED BY <1>1, <1>2, Invariance, LogNext, PTL DEF Spec

-----------------------------------------------------------------------------
(***************************************************************************)
(* Nothing is retried: every step takes the call that makes it nearer to    *)
(* its end.  What is left of a call is at most seven steps, and three more  *)
(* for each further image of a batch.                                       *)
(***************************************************************************)
Weight == [start |-> 7, put |-> 6, insert |-> 5, update |-> 5, head |-> 4, append |-> 3,
           commit |-> 2, deleting |-> 1]
More(c) == IF c \in Requests THEN Len(Sent[c]) - call[c].at ELSE 0
StepsLeft(c) == IF call[c].pc \in Ended THEN 0 ELSE Weight[call[c].pc] + 3 * More(c)

\* What is left of a call at each of its steps.
LEMMA WeightOf ==
    ASSUME Inv, NEW c \in Calls
    PROVE  /\ More(c) \in Nat /\ StepsLeft(c) \in Nat
           /\ call[c].pc \in Ended => StepsLeft(c) = 0
           /\ call[c].pc \notin Ended => StepsLeft(c) = Weight[call[c].pc] + 3 * More(c)
           /\ call[c].pc \notin Ended => Weight[call[c].pc] \in 1..7 /\ StepsLeft(c) >= 1
<1>1. call[c].pc \in Steps
  BY CallType DEF Call
<1>2. call[c].pc \notin Ended => Weight[call[c].pc] \in 1..7
  BY <1>1 DEF Steps, Weight
<1>3. More(c) \in Nat
  <2>1. CASE c \in Requests
    <3>1. c \in Senders /\ call[c].at \in DOMAIN Sent[c]
      BY <2>1, CallType DEF Shape, Senders
    <3>2. call[c].at \in 1..Len(Sent[c]) /\ Len(Sent[c]) \in Nat
      BY <3>1, SentType
    <3> QED BY <2>1, <3>2 DEF More
  <2>2. CASE c \notin Requests
    BY <2>2 DEF More
  <2> QED BY <2>1, <2>2
<1> QED BY <1>2, <1>3 DEF StepsLeft

\* The other calls keep their records.
Alone(c) == \A d \in Calls \ {c} : call'[d] = call[d]

\* The record of the one call that moves.
LEMMA MovesTo ==
    ASSUME Inv, NEW c \in Calls, NEW x, Go(c, x)
    PROVE  call'[c] = x /\ Alone(c)
BY DEF Go, Alone, Inv, TypeOK

\* Where a call's step takes it: to its end, to its compensating action, or one step on, which
\* after an append means on to its next image or to the commit.
Ends(c) == call[c].pc \notin Ended /\ call'[c].pc \in Ended
Undoes(c) ==
    /\ call[c].pc \in {"put", "insert", "update", "head", "append"}
    /\ call'[c].pc = "deleting" /\ c \in Uploads
Advances(c) ==
    /\ <<call[c].pc, call'[c].pc>> \in
         {<<"start", "put">>, <<"start", "update">>, <<"put", "insert">>, <<"insert", "head">>,
          <<"update", "head">>, <<"head", "append">>, <<"append", "commit">>}
    /\ call'[c].at = call[c].at
GoesRound(c) ==
    /\ call[c].pc = "append" /\ call'[c].pc = "insert" /\ c \in Requests
    /\ call'[c].at = call[c].at + 1

Moves(c) ==
    /\ Ends(c) \/ Undoes(c) \/ Advances(c) \/ GoesRound(c)
    /\ Alone(c)

\* A call that is dropped is over.
LEMMA DropEnds ==
    ASSUME Inv, NEW c \in Calls, NEW end \in Ended, Drop(c, end), call[c].pc \notin Ended
    PROVE  Moves(c)
<1>1. [Fresh EXCEPT !.pc = end].pc = end
  BY FreshType DEF Steps
<1>2. Go(c, [Fresh EXCEPT !.pc = end])
  BY DEF Drop
<1> QED BY <1>1, <1>2, MovesTo DEF Moves, Ends

\* Each action is such a move.
LEMMA BeginMoves == ASSUME Inv, NEW c \in Calls, Begin(c) PROVE Moves(c)
<1>1. call \in [Calls -> Call]
  BY DEF Inv, TypeOK
<1>2. CASE Check(c)
  <2>1. CASE Drop(c, "duplicate")
    BY <1>2, <2>1, DropEnds DEF Check, Ended
  <2>2. CASE Go(c, [call[c] EXCEPT !.pc = "put", !.image = <<<<c, 1>>>>])
    <3>1. call'[c].pc = "put" /\ call'[c].at = call[c].at /\ Alone(c)
      BY <1>1, <2>2 DEF Go, Alone, Call
    <3> QED BY <1>2, <3>1 DEF Check, Moves, Advances
  <2> QED BY <1>2, <2>1, <2>2 DEF Check
<1>3. CASE Resolve(c)
  <2>1. PICK ids \in [DOMAIN Sent[c] -> RowId] :
          Go(c, [call[c] EXCEPT !.pc = "put", !.image = ids])
    BY <1>3 DEF Resolve
  <2>2. call'[c].pc = "put" /\ call'[c].at = call[c].at /\ Alone(c)
    BY <1>1, <2>1 DEF Go, Alone, Call
  <2> QED BY <1>3, <2>2 DEF Resolve, Moves, Advances
<1>4. CASE Load(c)
  <2>1. call'[c].pc = "update" /\ call'[c].at = call[c].at
    BY <1>1, <1>4 DEF Load, Go, Call
  <2>2. Alone(c)
    BY <1>1, <1>4 DEF Load, Go, Alone
  <2> QED BY <1>4, <2>1, <2>2 DEF Load, Moves, Advances
<1> QED BY <1>2, <1>3, <1>4 DEF Begin

LEMMA ContinueMoves == ASSUME Inv, NEW c \in Calls, Continue(c) PROVE Moves(c)
<1>1. call \in [Calls -> Call]
  BY DEF Inv, TypeOK
<1>2. CASE Put(c)
  <2>1. Go(c, [call[c] EXCEPT !.pc = "insert"]) /\ call[c].pc = "put"
    BY <1>2 DEF Put
  <2>2. call'[c].pc = "insert" /\ call'[c].at = call[c].at /\ Alone(c)
    BY <1>1, <2>1 DEF Go, Alone, Call
  <2> QED BY <2>1, <2>2 DEF Moves, Advances
<1>3. CASE InsertImage(c)
  <2>1. CASE Go(c, [call[c] EXCEPT !.pc = "deleting"])
    <3>1. call'[c].pc = "deleting" /\ Alone(c)
      BY <1>1, <2>1 DEF Go, Alone, Call
    <3> QED BY <1>3, <3>1 DEF InsertImage, Moves, Undoes
  <2>2. CASE Go(c, [call[c] EXCEPT !.pc = "head", !.inserted = {1}])
    <3>1. call'[c].pc = "head" /\ call'[c].at = call[c].at /\ Alone(c)
      BY <1>1, <2>2 DEF Go, Alone, Call
    <3> QED BY <1>3, <3>1 DEF InsertImage, Moves, Advances
  <2> QED BY <1>3, <2>1, <2>2 DEF InsertImage
<1>4. CASE RecordPrediction(c)
  <2>1. CASE Drop(c, "refused")
    BY <1>4, <2>1, DropEnds DEF RecordPrediction, Ended
  <2>2. ASSUME NEW rows, Go(c, [call[c] EXCEPT !.pc = "head", !.inserted = rows]) PROVE Moves(c)
    <3>1. call'[c].pc = "head" /\ call'[c].at = call[c].at /\ Alone(c)
      BY <1>1, <2>2 DEF Go, Alone, Call
    <3> QED BY <1>4, <3>1 DEF RecordPrediction, Moves, Advances
  <2>3. CASE Go(c, [call[c] EXCEPT !.pc = "head"])
    <3>1. call'[c].pc = "head" /\ call'[c].at = call[c].at /\ Alone(c)
      BY <1>1, <2>3 DEF Go, Alone, Call
    <3> QED BY <1>4, <3>1 DEF RecordPrediction, Moves, Advances
  <2> QED BY <1>4, <2>1, <2>2, <2>3 DEF RecordPrediction
<1>5. CASE UpdateImage(c)
  <2>1. Go(c, [call[c] EXCEPT !.pc = "head"]) /\ call[c].pc = "update"
    BY <1>5 DEF UpdateImage
  <2>2. call'[c].pc = "head" /\ call'[c].at = call[c].at /\ Alone(c)
    BY <1>1, <2>1 DEF Go, Alone, Call
  <2> QED BY <2>1, <2>2 DEF Moves, Advances
<1>6. CASE ReadHead(c)
  <2>1. Go(c, [call[c] EXCEPT !.pc = "append", !.head = auditLen + call[c].events])
    BY <1>6 DEF ReadHead
  <2>2. call'[c].pc = "append" /\ call'[c].at = call[c].at /\ Alone(c)
    BY <1>1, <2>1 DEF Go, Alone, Call
  <2> QED BY <1>6, <2>2 DEF ReadHead, Moves, Advances
<1>7. CASE AppendAudit(c)
  <2> DEFINE more == c \in Requests /\ call[c].at < Len(Sent[c])
  <2>1. /\ call[c].pc = "append"
        /\ Go(c, [call[c] EXCEPT !.events = @ + 1, !.pc = IF more THEN "insert" ELSE "commit",
                                 !.at = IF more THEN @ + 1 ELSE @])
    BY <1>7 DEF AppendAudit
  <2>2. /\ call'[c].pc = IF more THEN "insert" ELSE "commit"
        /\ call'[c].at = IF more THEN call[c].at + 1 ELSE call[c].at
        /\ Alone(c)
    <3> HIDE DEF more
    <3> QED BY <1>1, <2>1 DEF Go, Alone, Call
  <2> QED BY <2>1, <2>2 DEF Moves, Advances, GoesRound
<1>8. CASE RefuseAudit(c)
  <2>1. CASE c \in Uploads
    <3>1. Go(c, [call[c] EXCEPT !.pc = "deleting"]) /\ call[c].pc = "append"
      BY <1>8, <2>1 DEF RefuseAudit
    <3>2. call'[c].pc = "deleting" /\ Alone(c)
      BY <1>1, <3>1 DEF Go, Alone, Call
    <3> QED BY <2>1, <3>1, <3>2 DEF Moves, Undoes
  <2>2. CASE c \notin Uploads
    BY <1>8, <2>2, DropEnds DEF RefuseAudit, Ended
  <2> QED BY <2>1, <2>2
<1>9. CASE Compensate(c)
  BY <1>9, DropEnds DEF Compensate, Ended
<1>10. CASE Commit(c)
  BY <1>10, DropEnds DEF Commit, Ended
<1> QED BY <1>2, <1>3, <1>4, <1>5, <1>6, <1>7, <1>8, <1>9, <1>10 DEF Continue

LEMMA FailureMoves ==
    ASSUME Inv, NEW c \in Calls, BreakDeadlock(c) \/ Fail(c) \/ Lose(c)
    PROVE  Moves(c)
<1>1. call \in [Calls -> Call]
  BY DEF Inv, TypeOK
<1>2. CASE BreakDeadlock(c)
  <2>1. call[c].pc \in {"insert", "append"}
    BY <1>2 DEF BreakDeadlock, WaitsFor
  <2>2. CASE c \in Uploads
    <3>1. Go(c, [call[c] EXCEPT !.pc = "deleting", !.inserted = {}])
      BY <1>2, <2>2 DEF BreakDeadlock
    <3>2. call'[c].pc = "deleting" /\ Alone(c)
      BY <1>1, <3>1 DEF Go, Alone, Call
    <3> QED BY <2>1, <2>2, <3>2 DEF Moves, Undoes
  <2>3. CASE c \notin Uploads
    BY <1>2, <2>1, <2>3, DropEnds DEF BreakDeadlock, Ended
  <2> QED BY <2>2, <2>3
<1>3. CASE Fail(c)
  <2>1. CASE Drop(c, "failed")
    BY <1>3, <2>1, DropEnds DEF Fail, Ended
  <2>2. CASE c \in Uploads /\ Go(c, [call[c] EXCEPT !.pc = "deleting"])
    <3>1. call'[c].pc = "deleting" /\ Alone(c)
      BY <1>1, <2>2 DEF Go, Alone, Call
    <3> QED BY <1>3, <2>2, <3>1 DEF Fail, Moves, Undoes
  <2> QED BY <1>3, <2>1, <2>2 DEF Fail
<1>4. CASE Lose(c)
  BY <1>4, DropEnds DEF Lose, Ended
<1> QED BY <1>2, <1>3, <1>4

\* A move leaves its call less to do, and the others what they had.
LEMMA MovesRunOut ==
    ASSUME Inv, Inv', NEW c \in Calls, Moves(c)
    PROVE  /\ StepsLeft(c)' < StepsLeft(c)
           /\ \A d \in Calls \ {c} : StepsLeft(d)' = StepsLeft(d)
<1>1. ASSUME NEW d \in Calls \ {c} PROVE StepsLeft(d)' = StepsLeft(d)
  BY DEF Moves, Alone, StepsLeft, More
<1>2. CASE Ends(c)
  <2>1. StepsLeft(c)' = 0 /\ StepsLeft(c) \in Nat /\ StepsLeft(c) >= 1
    BY <1>2, WeightOf DEF Ends, StepsLeft
  <2> QED BY <1>1, <2>1
<1>3. CASE Undoes(c)
  <2>1. c \notin Requests /\ call'[c].pc \notin Ended /\ call[c].pc \notin Ended
    BY <1>3, CallsAssumption DEF Undoes, Ended
  <2>2. StepsLeft(c)' = 1 /\ StepsLeft(c) = Weight[call[c].pc]
    BY <1>3, <2>1 DEF Undoes, StepsLeft, More, Weight
  <2>3. Weight[call[c].pc] \in 3..6
    BY <1>3 DEF Undoes, Weight
  <2> QED BY <1>1, <2>2, <2>3
<1>4. CASE Advances(c)
  <2>1. call'[c].pc \notin Ended /\ call[c].pc \notin Ended
    BY <1>4 DEF Advances, Ended
  <2>2. More(c)' = More(c) /\ More(c) \in Nat
    BY <1>4, WeightOf DEF Advances, More
  <2>3. /\ StepsLeft(c)' = Weight[call'[c].pc] + 3 * More(c)
        /\ StepsLeft(c) = Weight[call[c].pc] + 3 * More(c)
    BY <2>1, <2>2 DEF StepsLeft
  <2>4. /\ Weight[call'[c].pc] \in Nat /\ Weight[call[c].pc] \in Nat
        /\ Weight[call'[c].pc] < Weight[call[c].pc]
    BY <1>4 DEF Advances, Weight
  <2> QED BY <1>1, <2>2, <2>3, <2>4
<1>5. CASE GoesRound(c)
  <2>1. call'[c].pc \notin Ended /\ call[c].pc \notin Ended
    BY <1>5 DEF GoesRound, Ended
  <2>2. call[c].at \in Nat /\ Len(Sent[c]) \in Nat
    <3>1. c \in Senders
      BY <1>5 DEF GoesRound, Senders
    <3> QED BY <3>1, SentType, CallType DEF Shape
  <2>3. More(c)' = More(c) - 1 /\ More(c) \in Nat
    BY <1>5, <2>2, WeightOf DEF GoesRound, More
  <2>4. StepsLeft(c)' = 5 + 3 * More(c)' /\ StepsLeft(c) = 3 + 3 * More(c)
    BY <1>5, <2>1 DEF StepsLeft, GoesRound, Weight
  <2> QED BY <1>1, <2>3, <2>4
<1> QED BY <1>2, <1>3, <1>4, <1>5 DEF Moves

\* Every step takes one call nearer to its end and none away from it: no call is retried and
\* deadlocks are broken for good, so that any number of calls, of batches of any length,
\* comes to rest.
THEOREM EveryCallRunsOut ==
    Spec => [][\E c \in Calls :
                 /\ StepsLeft(c)' < StepsLeft(c)
                 /\ \A d \in Calls \ {c} : StepsLeft(d)' = StepsLeft(d)]_vars
<1>1. ASSUME Inv, Next PROVE \E c \in Calls : Moves(c)
  BY <1>1, BeginMoves, ContinueMoves, FailureMoves DEF Next
<1> DEFINE RunsOut == \E c \in Calls :
      /\ StepsLeft(c)' < StepsLeft(c)
      /\ \A d \in Calls \ {c} : StepsLeft(d)' = StepsLeft(d)
<1>2. Inv /\ Inv' /\ [Next]_vars => [RunsOut]_vars
  BY <1>1, MovesRunOut
<1> QED BY <1>2, Invariance, PTL DEF Spec
=============================================================================
