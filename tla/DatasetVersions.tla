--------------------------- MODULE DatasetVersions ---------------------------
(***************************************************************************)
(* Freezing the trainable images of a category into a dataset version:      *)
(* CreateDatasetVersion.execute and DvcGitVersionControl.track_and_push.    *)
(*                                                                          *)
(* A call works inside one READ COMMITTED transaction: others see its rows  *)
(* when it commits, but wait at once on a unique name or tag it inserted.   *)
(* The working copy and the DVC remote know no transaction.  Uploads and    *)
(* reviews go on beside it (module ImageCatalog has them in full).          *)
(***************************************************************************)
EXTENDS Integers, FiniteSets

CONSTANTS
    VersionCalls,
    Asked,        \* the dataset name, the version tag and the category of each call
    Images,
    FileOf,       \* FileOf[<<name, tag>>]: the file that "<name>/<tag>.json" names
    Begun, Mixed, \* contents that are nobody's manifest: of a file whose write has begun, and
                  \* of one that overlapping or broken-off writes have left
    CategoryOf,   \* an image's category
    Rank,         \* Rank[S][i]: the place of image i when the seeded shuffle orders S
    None,
    TrainPercent, ValPercent,   \* SplitRatios, in percent
    Rows,         \* the images table at first
    Verdicts,     \* what operators will find: pairs of an image and its true label
    MaxFaults     \* bound: steps that raise or are cut off

Labels == {"good", "defect", "unlabeled"}
Splits == {"train", "val", "test"}
Names == {Asked[c].name : c \in VersionCalls}
Key(c) == <<Asked[c].name, Asked[c].tag>>   \* what is unique among committed versions
PathOf(c) == FileOf[Key(c)]   \* in the working copy; slashes in names and tags make others share it
Paths == {PathOf(c) : c \in VersionCalls}

ASSUME AskedAssumption ==
    \A c \in VersionCalls :
        DOMAIN Asked[c] = {"name", "tag", "category"} /\ Asked[c].category # None
ASSUME RankAssumption ==
    \A S \in SUBSET Images : \A i \in S : Rank[S][i] \in Nat
ASSUME ImagesAssumption ==
    /\ Rows \in [Images -> [status : {"pending", "valid"}, label : Labels, reviewed : {FALSE}]]
    /\ Verdicts \subseteq Images \X (Labels \ {"unlabeled"})
ASSUME RatiosAssumption ==
    TrainPercent \in Nat /\ ValPercent \in Nat /\ TrainPercent + ValPercent <= 100

VARIABLES
    image,     \* rows of the images table
    reviews,   \* the verdicts given so far
    dataset,   \* committed datasets: the category each name was created for
    vcall,     \* what each call is doing; a committed version is a call that is done
    file, pointer,   \* the working copy: a manifest and its .dvc file per path
    remote,    \* manifests the DVC remote holds
    faults     \* steps that raised or were cut off so far

imageVars == <<image, reviews>>
versionVars == <<dataset, vcall, file, pointer, remote>>

-----------------------------------------------------------------------------
(* _assign_splits *)

\* Python's round: to the nearest integer, a half to the even one.
Round(n, percent) ==
    LET q == (n * percent) \div 100
        r == (n * percent) % 100
    IN  IF r > 50 \/ (r = 50 /\ q % 2 = 1) THEN q + 1 ELSE q

AtMost(a, b) == IF a <= b THEN a ELSE b
TrainSize(n) == AtMost(Round(n, TrainPercent), n)
ValSize(n) == AtMost(Round(n, ValPercent), n - TrainSize(n))

\* Mutant: reviewed images are shuffled with the rest.
SplitAll(listed, i) ==
    IF Rank[listed][i] <= TrainSize(Cardinality(listed)) THEN "train" ELSE "test"

\* Images an operator reviewed are held out; the seeded shuffle deals out the others.
SplitOf(listed, i) ==
    LET dealt == {j \in listed : ~image[j].reviewed}
        n == Cardinality(dealt)
    IN  IF image[i].reviewed THEN "test"
        ELSE IF Rank[dealt][i] <= TrainSize(n) THEN "train"
        ELSE IF Rank[dealt][i] <= TrainSize(n) + ValSize(n) THEN "val"
        ELSE "test"

-----------------------------------------------------------------------------
Members(manifest) == DOMAIN manifest
Manifests == UNION {[S -> [split : Splits, label : Labels]] : S \in SUBSET Images}
Empty == [i \in {} |-> None]
Unreadable == {Begun, Mixed}
ASSUME NoneAssumption ==
    None \notin Manifests \cup Unreadable /\ Unreadable \cap Manifests = {}

\* manifest: what the call froze;  held: which of it was reviewed by then;
\* created: it inserted the dataset's row;  hash: the contents its dvc_hash stands for.
NewCall == [pc |-> "idle", manifest |-> Empty, held |-> {}, created |-> FALSE, hash |-> None]

Working == {"insert", "list", "write", "fill", "track", "push", "hash", "row", "commit"}
Versions == {c \in VersionCalls : vcall[c].pc = "done"}
Trainable(category) == {i \in Images : CategoryOf[i] = category /\ image[i].status = "valid"}
Failing == faults < MaxFaults /\ faults' = faults + 1

\* A transaction that inserted the same unique key and is still open makes others wait.
NameIsFree(c) == \A d \in VersionCalls \ {c} : ~(vcall[d].created /\ Asked[d].name = Asked[c].name)
TagIsFree(c) == \A d \in VersionCalls \ {c} : ~(vcall[d].pc = "commit" /\ Key(d) = Key(c))
TagIsTaken(c) == \E d \in Versions : Key(d) = Key(c)

GoTo(c, pc) == vcall' = [vcall EXCEPT ![c].pc = pc]

VersionsInit ==
    /\ dataset = [n \in Names |-> None]
    /\ vcall = [c \in VersionCalls |-> NewCall]
    /\ file = [p \in Paths |-> None] /\ pointer = [p \in Paths |-> None]
    /\ remote = {}
    /\ image = Rows /\ reviews = {}
    /\ faults = 0

-----------------------------------------------------------------------------
(* CreateDatasetVersion.execute *)

\* find_dataset_by_name looks at the name alone; then find_version_by_tag.
Begin(c) ==
    /\ vcall[c].pc = "idle"
    /\ GoTo(c, CASE dataset[Asked[c].name] = None -> "insert"
                 [] dataset[Asked[c].name] # None /\ TagIsTaken(c) -> "refused"
                 [] OTHER -> "list")
    /\ UNCHANGED <<dataset, file, pointer, remote, faults>>

\* add_dataset: the name is unique; whoever comes second fails when the first commits.
InsertDataset(c) ==
    /\ vcall[c].pc = "insert" /\ NameIsFree(c)
    /\ vcall' = IF dataset[Asked[c].name] = None
                THEN [vcall EXCEPT ![c].pc = "list", ![c].created = TRUE]
                ELSE [vcall EXCEPT ![c].pc = "failed"]
    /\ UNCHANGED <<dataset, file, pointer, remote, faults>>

\* list_trainable and _assign_splits; no image rolls the new dataset back.
ListImages(c) ==
    LET listed == Trainable(Asked[c].category) IN
    /\ vcall[c].pc = "list"
    /\ vcall' = IF listed = {} THEN [vcall EXCEPT ![c].pc = "refused", ![c].created = FALSE]
                ELSE [vcall EXCEPT ![c].pc = "write",
                        ![c].manifest = [i \in listed |-> [split |-> SplitOf(listed, i),
                                                           label |-> image[i].label]],
                        ![c].held = {i \in listed : image[i].reviewed}]
    /\ UNCHANGED <<dataset, file, pointer, remote, faults>>

\* track_and_push: write_bytes empties the file,
OpenFile(c) ==
    /\ vcall[c].pc = "write" /\ GoTo(c, "fill")
    /\ file' = [file EXCEPT ![PathOf(c)] = Begun]
    /\ UNCHANGED <<dataset, pointer, remote, faults>>

\* then puts the manifest into it, over whatever others have put there since or are just
\* putting there,
WriteFile(c) ==
    LET others == {d \in VersionCalls \ {c} : vcall[d].pc = "fill" /\ PathOf(d) = PathOf(c)} IN
    /\ vcall[c].pc = "fill" /\ GoTo(c, "track")
    /\ \/ file' = [file EXCEPT ![PathOf(c)] = vcall[c].manifest]
       \/ /\ file[PathOf(c)] # Begun \/ others # {}
          /\ file' = [file EXCEPT ![PathOf(c)] = Mixed]
    /\ UNCHANGED <<dataset, pointer, remote, faults>>

\* dvc add: the .dvc file takes the hash of whatever the file holds by now,
Track(c) ==
    /\ vcall[c].pc = "track" /\ GoTo(c, "push")
    /\ pointer' = [pointer EXCEPT ![PathOf(c)] = file[PathOf(c)]]
    /\ UNCHANGED <<dataset, file, remote, faults>>

\* Mutant: the hash is read once the file is tracked, without pushing it.
PushNothing(c) ==
    /\ vcall[c].pc = "push" /\ GoTo(c, "hash")
    /\ UNCHANGED <<dataset, file, pointer, remote, faults>>

\* dvc push: whatever the .dvc file names by now,
Push(c) ==
    /\ vcall[c].pc = "push" /\ GoTo(c, "hash")
    /\ remote' = remote \cup {pointer[PathOf(c)]}
    /\ UNCHANGED <<dataset, file, pointer, faults>>

\* and reads the hash back from the .dvc file.
ReadHash(c) ==
    /\ vcall[c].pc = "hash"
    /\ vcall' = [vcall EXCEPT ![c].pc = "row", ![c].hash = pointer[PathOf(c)]]
    /\ UNCHANGED <<dataset, file, pointer, remote, faults>>

\* add_version: a tag is unique in its dataset.
InsertVersion(c) ==
    /\ vcall[c].pc = "row" /\ TagIsFree(c)
    /\ vcall' = IF TagIsTaken(c)
                THEN [vcall EXCEPT ![c].pc = "failed", ![c].created = FALSE]
                ELSE [vcall EXCEPT ![c].pc = "commit"]
    /\ UNCHANGED <<dataset, file, pointer, remote, faults>>

\* The audit event and the commit.
CommitVersion(c) ==
    /\ vcall[c].pc = "commit"
    /\ vcall' = [vcall EXCEPT ![c].pc = "done", ![c].created = FALSE]
    /\ dataset' = IF vcall[c].created
                  THEN [dataset EXCEPT ![Asked[c].name] = Asked[c].category] ELSE dataset
    /\ UNCHANGED <<file, pointer, remote, faults>>

\* Any step may raise (DVC's own lock, the audit log's sequence, a lost connection) or the
\* process be killed: the transaction is rolled back, the working copy and the remote stay, a
\* manifest that was being written perhaps with a part of it.
VersionFails(c) ==
    /\ vcall[c].pc \in Working /\ Failing
    /\ vcall' = [vcall EXCEPT ![c].pc = "failed", ![c].created = FALSE]
    /\ \/ UNCHANGED file
       \/ vcall[c].pc = "fill" /\ file' = [file EXCEPT ![PathOf(c)] = Mixed]
    /\ UNCHANGED <<dataset, pointer, remote>>

\* What a call does once it has begun.
FreezeOn(c) ==
    \/ InsertDataset(c) \/ ListImages(c) \/ OpenFile(c) \/ WriteFile(c) \/ Track(c) \/ Push(c)
    \/ ReadHash(c) \/ InsertVersion(c) \/ CommitVersion(c)

-----------------------------------------------------------------------------
(* Images *)

\* SubmitFeedback commits: the image takes the operator's word and may be trained on, even
\* one that PredictImage had recorded as pending.
Review(verdict) ==
    /\ verdict \notin reviews /\ reviews' = reviews \cup {verdict}
    /\ image' = [image EXCEPT ![verdict[1]] =
                   [status |-> "valid", label |-> verdict[2], reviewed |-> TRUE]]

-----------------------------------------------------------------------------
(* Properties *)

\* The types of the rows, the calls, the working copy and the remote.
VersionsTypeOK ==
    /\ image \in [Images -> [status : {"pending", "valid"}, label : Labels, reviewed : BOOLEAN]]
    /\ reviews \subseteq Verdicts /\ faults \in 0..MaxFaults
    /\ dataset \in [Names -> {Asked[c].category : c \in VersionCalls} \cup {None}]
    /\ vcall \in [VersionCalls ->
                    [pc : Working \cup {"idle", "done", "refused", "failed"},
                     manifest : Manifests, held : SUBSET Images, created : BOOLEAN,
                     hash : Manifests \cup Unreadable \cup {None}]]
    /\ file \in [Paths -> Manifests \cup Unreadable \cup {None}]
    /\ pointer \in [Paths -> Manifests \cup Unreadable \cup {None}]
    /\ remote \subseteq Manifests \cup Unreadable \cup {None}

\* A committed version can be replayed: the manifest its dvc_hash stands for is its own and
\* is in the remote.  The working copy is shared, so this can only fail for a version whose
\* file another call has prepared too, be it for the same dataset and tag or for others that
\* join to the same name; then the hash is of what that call froze, or of a file that the two
\* were writing (DatasetVersion's "all three must agree"; track_and_push, _write).
HashesAreTrue ==
    \A v \in Versions :
        \/ vcall[v].hash = vcall[v].manifest /\ vcall[v].manifest \in remote
        \/ \E d \in VersionCalls \ {v} :
             /\ PathOf(d) = PathOf(v) /\ vcall[d].manifest # Empty
             /\ vcall[v].hash \in {vcall[d].manifest} \cup Unreadable

\* The regression suite only grows: what an operator has reviewed is in the test split of
\* every version frozen from then on, so an image that was held out once is never trained on
\* by a later version (_assign_splits, ADR-0015).
SuiteOnlyGrows ==
    [][\A c \in VersionCalls : vcall[c].manifest = Empty /\ vcall'[c].manifest # Empty =>
         \A v \in Versions : Asked[v].category = Asked[c].category =>
             \A i \in vcall[v].held :
                 i \in Members(vcall'[c].manifest) /\ vcall'[c].manifest[i].split = "test"]_vcall
==============================================================================
