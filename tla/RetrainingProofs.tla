-------------------------- MODULE RetrainingProofs --------------------------
(***************************************************************************)
(* Proofs about Retraining, for any number of runs, tries, versions and     *)
(* images: types, what dvc_hash stands for, what a fit has seen, the        *)
(* lineage of models and what runs report.                                  *)
(***************************************************************************)
EXTENDS Retraining, FiniteSetTheorems, TLAPS

DagType == [task : Active \cup Ended \cup {"waiting"}, try : Tries,
            deployed : {"no", "promoted", "rejected"}, model : TrainCalls \cup {None}]

\* A step is one of a dataset version's call, of a training, or one that leaves versions and
\* trainings alone.
VersionStep(c) ==
    /\ Begin(c) \/ FreezeOn(c) \/ VersionFails(c)
    /\ UNCHANGED <<imageVars, trainVars>>
TrainingStep(t) ==
    /\ Load(t) \/ TrainOn(t) \/ TrainingFails(t)
    /\ UNCHANGED <<imageVars, versionVars>>
Quiet == UNCHANGED <<versionVars, trainVars>>

\* The current try of a run is a call of either module.
LEMMA TriesAreCalls ==
    ASSUME dag \in [Runs -> DagType], NEW r \in Runs
    PROVE  Current(r) \in VersionCalls /\ Current(r) \in TrainCalls
<1>1. dag[r].try \in Tries BY DEF DagType
<1> QED BY <1>1, TriesAssumption DEF Current

\* What a step does with a run's bookkeeping.
LEMMA DagTyped ==
    ASSUME dag \in [Runs -> DagType], [Next]_vars
    PROVE  dag' \in [Runs -> DagType]
<1>1. CASE dag' = dag BY <1>1
<1>2. ASSUME NEW r \in Runs, NEW d \in DagType, dag' = [dag EXCEPT ![r] = d]
      PROVE  dag' \in [Runs -> DagType]
  BY <1>2
<1>3. ASSUME NEW r \in Runs, Trigger(r) \/ TriggerOnDrift(r) PROVE dag' \in [Runs -> DagType]
  <2>1. dag' = [dag EXCEPT ![r] = [dag[r] EXCEPT !.task = "version"]]
    BY <1>3 DEF Trigger, TriggerOnDrift
  <2>2. [dag[r] EXCEPT !.task = "version"] \in DagType BY DEF DagType, Active
  <2> QED BY <1>2, <2>1, <2>2
<1>4. ASSUME NEW r \in Runs, NEW task \in Active \cup Ended, NEW m \in TrainCalls \cup {None},
             NextTask(r, task, m)
      PROVE  dag' \in [Runs -> DagType]
  <2>1. 1 \in Tries BY TriesAssumption DEF Tries
  <2>2. [task |-> task, try |-> 1, deployed |-> "no", model |-> m] \in DagType
    BY <2>1 DEF DagType
  <2> QED BY <1>2, <1>4, <2>2 DEF NextTask
<1>5. ASSUME NEW r \in Runs, Versioned(r) \/ Trained(r) \/ Evaluate(r)
      PROVE  dag' \in [Runs -> DagType]
  <2>1. CASE Versioned(r) BY <1>4, <2>1 DEF Versioned, Active
  <2>2. CASE Trained(r) BY <1>4, <2>2, TriesAreCalls DEF Trained, Active
  <2>3. CASE Evaluate(r)
    <3>1. dag[r].model \in TrainCalls \cup {None} BY DEF DagType
    <3> QED BY <1>4, <2>3, <3>1 DEF Evaluate, Active, Ended
  <2> QED BY <1>5, <2>1, <2>2, <2>3
<1>6. ASSUME NEW r \in Runs, NEW x \in {"promoted", "rejected"},
             dag' = [dag EXCEPT ![r].deployed = x]
      PROVE  dag' \in [Runs -> DagType]
  BY <1>2, <1>6 DEF DagType
<1>7. ASSUME NEW r \in Runs, NEW task \in Ended, dag' = [dag EXCEPT ![r].task = task]
      PROVE  dag' \in [Runs -> DagType]
  BY <1>2, <1>7 DEF DagType
<1>8. ASSUME NEW r \in Runs, TryAgain(r) PROVE dag' \in [Runs -> DagType]
  <2>1. CASE dag[r].try < MaxTries
    <3>1. dag[r].try + 1 \in Tries BY <2>1, TriesAssumption DEF DagType, Tries
    <3> QED BY <1>2, <1>8, <2>1, <3>1 DEF TryAgain, DagType
  <2> QED BY <1>7, <1>8, <2>1 DEF TryAgain, Ended
<1>9. ASSUME NEW r \in Runs, Proceed(r) \/ Lose(r) PROVE dag' \in [Runs -> DagType]
  BY <1>1, <1>5, <1>6, <1>7, <1>8, <1>9
     DEF Proceed, Lose, StartVersion, StartTrain, dagVars, Deploy, Deployed, Retry, Ended
<1> QED
  BY <1>1, <1>3, <1>9
     DEF Next, vars, dagVars, OperatorPromotes, Restore, ReviewStep, OperatorVersion, FreezeStep,
         FreezeFails, TrainStep, TrainFails, CheckDrift

\* Every step is one of the three kinds.
LEMMA Kinds ==
    ASSUME dag \in [Runs -> DagType], [Next]_vars
    PROVE  \/ \E c \in VersionCalls : VersionStep(c)
           \/ \E t \in TrainCalls : TrainingStep(t)
           \/ Quiet
<1>1. CASE UNCHANGED vars BY <1>1 DEF vars, Quiet
<1>2. ASSUME NEW o \in Orders, OperatorPromotes(o) \/ Restore(o) PROVE Quiet
  BY <1>2 DEF OperatorPromotes, Restore, Quiet
<1>3. ASSUME NEW v \in Verdicts, ReviewStep(v) PROVE Quiet BY <1>3 DEF ReviewStep, Quiet
<1>4. ASSUME NEW c \in VersionCalls, OperatorVersion(c) \/ FreezeStep(c) \/ FreezeFails(c)
      PROVE  VersionStep(c)
  BY <1>4 DEF OperatorVersion, FreezeStep, FreezeFails, VersionStep
<1>5. ASSUME NEW t \in TrainCalls, TrainStep(t) \/ TrainFails(t) PROVE TrainingStep(t)
  BY <1>5 DEF TrainStep, TrainFails, TrainingStep
<1>6. ASSUME NEW r \in Runs,
             \/ Trigger(r) \/ CheckDrift(r) \/ TriggerOnDrift(r) \/ Lose(r)
             \/ Versioned(r) \/ Trained(r) \/ Evaluate(r) \/ Deploy(r) \/ Deployed(r) \/ Retry(r)
      PROVE  Quiet
  BY <1>6 DEF Trigger, CheckDrift, TriggerOnDrift, Lose, Versioned, Trained, Evaluate,
              Deploy, Deployed, Retry, Quiet
<1>7. ASSUME NEW r \in Runs, StartVersion(r) PROVE VersionStep(Current(r))
  BY <1>7 DEF StartVersion, VersionStep
<1>8. ASSUME NEW r \in Runs, StartTrain(r) PROVE TrainingStep(Current(r))
  BY <1>8 DEF StartTrain, TrainingStep
<1> QED
  BY <1>1, <1>2, <1>3, <1>4, <1>5, <1>6, <1>7, <1>8, TriesAreCalls DEF Next, Proceed

-----------------------------------------------------------------------------
(* Types *)

\* What a file, a pointer and a hash may be.
Contents == Manifests \cup Unreadable \cup {None}

CallType == [pc : Working \cup {"idle", "done", "refused", "failed"}, manifest : Manifests,
             held : SUBSET Images, created : BOOLEAN, hash : Contents]
TrainType == [pc : TrainingNow \cup {"idle", "done", "refused", "failed"},
              version : VersionCalls \cup {None}, todo : SUBSET (Folders \X Images),
              fitted : SUBSET Images, metrics : Metrics \cup {None}]

LEMMA EmptyIsManifest == Empty \in Manifests
<1>1. Empty \in [{} -> [split : Splits, label : Labels]] BY DEF Empty
<1>2. {} \in SUBSET Images OBVIOUS
<1> QED BY <1>1, <1>2 DEF Manifests

\* What _assign_splits deals out of any set of images is a manifest.
LEMMA FrozenIsManifest ==
    ASSUME VersionsTypeOK, NEW S \in SUBSET Images
    PROVE  [i \in S |-> [split |-> SplitOf(S, i), label |-> image[i].label]] \in Manifests
<1>1. ASSUME NEW i \in S PROVE SplitOf(S, i) \in Splits
  <2>1. SplitOf(S, i) = "test" \/ SplitOf(S, i) = "train" \/ SplitOf(S, i) = "val"
    BY DEF SplitOf
  <2> QED BY <2>1 DEF Splits
<1>2. \A i \in S : image[i].label \in Labels BY DEF VersionsTypeOK
<1>3. [i \in S |-> [split |-> SplitOf(S, i), label |-> image[i].label]]
        \in [S -> [split : Splits, label : Labels]]
  BY <1>1, <1>2
<1> QED BY <1>3 DEF Manifests

\* What a call of CreateDatasetVersion does with its own record.
LEMMA CallTyped ==
    ASSUME VersionsTypeOK, NEW c \in VersionCalls, VersionStep(c)
    PROVE  vcall' \in [VersionCalls -> CallType]
<1>1. vcall \in [VersionCalls -> CallType] BY DEF VersionsTypeOK, CallType, Contents
<1>2. ASSUME NEW d \in CallType, vcall' = [vcall EXCEPT ![c] = d]
      PROVE  vcall' \in [VersionCalls -> CallType]
  BY <1>1, <1>2
<1>3. ASSUME NEW pc \in Working \cup {"idle", "done", "refused", "failed"}, GoTo(c, pc)
      PROVE  vcall' \in [VersionCalls -> CallType]
  BY <1>1, <1>2, <1>3 DEF CallType, GoTo
<1>4. ASSUME NEW pc \in Working \cup {"idle", "done", "refused", "failed"}, NEW b \in BOOLEAN,
             vcall' = [vcall EXCEPT ![c].pc = pc, ![c].created = b]
      PROVE  vcall' \in [VersionCalls -> CallType]
  <2>1. [vcall[c] EXCEPT !.pc = pc, !.created = b] \in CallType BY <1>1 DEF CallType
  <2> QED BY <1>2, <1>4, <2>1
<1>5. ASSUME NEW pc \in Working \cup {"idle", "done", "refused", "failed"},
             vcall' = [vcall EXCEPT ![c].pc = pc]
      PROVE  vcall' \in [VersionCalls -> CallType]
  BY <1>3, <1>5 DEF GoTo
<1>6. CASE Begin(c)
  <2>1. \E pc \in {"insert", "refused", "list"} : GoTo(c, pc) BY SMTT(60), <1>6 DEF Begin
  <2> QED BY <1>3, <2>1 DEF Working
<1>7. CASE InsertDataset(c) BY <1>4, <1>5, <1>7 DEF InsertDataset, Working
<1>8. CASE ListImages(c)
  <2> DEFINE S == Trainable(Asked[c].category)
  <2>1. S \in SUBSET Images BY DEF Trainable
  <2>2. CASE S = {} BY <1>4, <1>8, <2>2 DEF ListImages
  <2>3. CASE S # {}
    <3> DEFINE M == [i \in S |-> [split |-> SplitOf(S, i), label |-> image[i].label]]
               H == {i \in S : image[i].reviewed}
    <3>1. M \in Manifests BY <2>1, FrozenIsManifest
    <3>2. H \in SUBSET Images BY <2>1
    <3>3. vcall' = [vcall EXCEPT ![c].pc = "write", ![c].manifest = M, ![c].held = H]
      BY <1>8, <2>3 DEF ListImages
    <3> HIDE DEF S, M, H
    <3>4. [vcall[c] EXCEPT !.pc = "write", !.manifest = M, !.held = H] \in CallType
      BY <1>1, <3>1, <3>2 DEF CallType, Working
    <3> QED BY <1>2, <3>3, <3>4
  <2> QED BY <2>2, <2>3
<1>9. CASE OpenFile(c) \/ WriteFile(c) \/ Track(c) \/ Push(c)
  BY <1>3, <1>9 DEF OpenFile, WriteFile, Track, Push, Working
<1>10. CASE ReadHash(c)
  <2> DEFINE h == pointer[PathOf(c)]
  <2>1. h \in Contents BY DEF VersionsTypeOK, Paths, Contents
  <2>2. vcall' = [vcall EXCEPT ![c].pc = "row", ![c].hash = h] BY <1>10 DEF ReadHash
  <2> HIDE DEF h
  <2>3. [vcall[c] EXCEPT !.pc = "row", !.hash = h] \in CallType
    BY <1>1, <2>1 DEF CallType, Working
  <2> QED BY <1>2, <2>2, <2>3
<1>11. CASE InsertVersion(c) BY <1>4, <1>5, <1>11 DEF InsertVersion, Working
<1>12. CASE CommitVersion(c) BY <1>4, <1>12 DEF CommitVersion
<1>13. CASE VersionFails(c) BY <1>4, <1>13 DEF VersionFails
<1> QED
  BY <1>6, <1>7, <1>8, <1>9, <1>10, <1>11, <1>12, <1>13 DEF VersionStep, FreezeOn

\* And with the stores it shares.
LEMMA VersionTyped ==
    ASSUME VersionsTypeOK, NEW c \in VersionCalls, VersionStep(c), MaxFaults \in Nat
    PROVE  VersionsTypeOK'
<1>1. vcall' \in [VersionCalls -> CallType] BY CallTyped
<1>2. PathOf(c) \in Paths /\ Asked[c].name \in Names BY DEF Paths, Names
<1>3. /\ file[PathOf(c)] \in Contents /\ pointer[PathOf(c)] \in Contents
      /\ vcall[c].manifest \in Contents /\ {Begun, Mixed} \subseteq Contents
  BY <1>2 DEF VersionsTypeOK, Contents, Unreadable
<1>4. faults' \in 0..MaxFaults
  <2>1. CASE VersionFails(c) BY <2>1 DEF VersionFails, Failing, VersionsTypeOK
  <2>2. CASE Begin(c) \/ FreezeOn(c)
    <3>1. faults' = faults
      BY <2>2 DEF Begin, FreezeOn, InsertDataset, ListImages, OpenFile, WriteFile, Track, Push,
                  ReadHash, InsertVersion, CommitVersion
    <3> QED BY <3>1 DEF VersionsTypeOK
  <2> QED BY <2>1, <2>2 DEF VersionStep
<1>5. dataset' \in [Names -> {Asked[d].category : d \in VersionCalls} \cup {None}]
  <2>1. dataset \in [Names -> {Asked[d].category : d \in VersionCalls} \cup {None}]
    BY DEF VersionsTypeOK
  <2>2. CASE CommitVersion(c) BY <1>2, <2>1, <2>2 DEF CommitVersion
  <2>3. CASE dataset' = dataset BY <2>1, <2>3
  <2> QED
    BY <2>2, <2>3 DEF VersionStep, Begin, FreezeOn, InsertDataset, ListImages, OpenFile, WriteFile, Track,
                      Push, ReadHash, InsertVersion, VersionFails
<1>6. file' \in [Paths -> Contents]
  BY <1>2, <1>3 DEF VersionStep, Begin, FreezeOn, InsertDataset, ListImages, OpenFile, WriteFile, Track,
         Push, ReadHash, InsertVersion, CommitVersion, VersionFails, VersionsTypeOK, Contents
<1>7. pointer' \in [Paths -> Contents]
  BY <1>2, <1>3 DEF VersionStep, Begin, FreezeOn, InsertDataset, ListImages, OpenFile, WriteFile, Track,
         Push, ReadHash, InsertVersion, CommitVersion, VersionFails, VersionsTypeOK, Contents
<1>8. remote' \subseteq Contents
  BY ZenonT(60), <1>2, <1>3 DEF VersionStep, Begin, FreezeOn, InsertDataset, ListImages, OpenFile, WriteFile, Track,
         Push, ReadHash, InsertVersion, CommitVersion, VersionFails, VersionsTypeOK, Contents
<1> QED
  BY <1>1, <1>4, <1>5, <1>6, <1>7, <1>8
     DEF VersionsTypeOK, CallType, VersionStep, imageVars, Contents

\* Loading a version stages each of its members once, in one of the folders.
LEMMA Found ==
    ASSUME NEW t \in TrainCalls, VersionsTypeOK, Load(t), tcall' # [tcall EXCEPT ![t].pc = "refused"]
    PROVE  \E v \in Versions :
             /\ Key(v) = <<Wanted[t].name, Wanted[t].tag>>
             /\ tcall' = [tcall EXCEPT ![t].pc = "stage", ![t].version = v, ![t].todo = ToStage(v)]
<1> DEFINE found == {v \in Versions : Key(v) = <<Wanted[t].name, Wanted[t].tag>>}
           first == CHOOSE v \in found : TRUE
<1>1. found # {} BY DEF Load
<1>2. first \in found BY <1>1
<1>3. tcall' = [tcall EXCEPT ![t].pc = "stage", ![t].version = first, ![t].todo = ToStage(first)]
  BY <1>1 DEF Load
<1> HIDE DEF first
<1> QED BY <1>2, <1>3

LEMMA StagedAreMembers ==
    ASSUME VersionsTypeOK, NEW v \in VersionCalls
    PROVE  /\ ToStage(v) \in SUBSET (Folders \X Images)
           /\ \A i : <<"train", i>> \in ToStage(v) =>
                i \in Members(vcall[v].manifest) /\ vcall[v].manifest[i].split = "train"
<1>1. Members(vcall[v].manifest) \in SUBSET Images
  <2>1. vcall[v].manifest \in Manifests BY DEF VersionsTypeOK
  <2> QED BY <2>1 DEF Manifests, Members
<1>2. \A i : FolderFor(v, i) \in Folders BY DEF FolderFor, Folders
<1>3. \A i : FolderFor(v, i) = "train" => vcall[v].manifest[i].split = "train" BY DEF FolderFor
<1>4. ToStage(v) \in SUBSET (Folders \X Images) BY <1>1, <1>2 DEF ToStage
<1>5. ASSUME NEW i, <<"train", i>> \in ToStage(v)
      PROVE  i \in Members(vcall[v].manifest) /\ vcall[v].manifest[i].split = "train"
  BY <1>3, <1>5 DEF ToStage
<1> QED BY <1>4, <1>5

\* A training that has begun holds a committed version.
Loaded == \A t \in TrainCalls :
    tcall[t].pc \in TrainingNow \cup {"done"} => tcall[t].version \in Versions

\* What TrainModel does with a training's own record.
LEMMA TrainCallTyped ==
    ASSUME VersionsTypeOK, TrainingTypeOK, NEW t \in TrainCalls, TrainingStep(t)
    PROVE  tcall' \in [TrainCalls -> TrainType]
<1>1. tcall \in [TrainCalls -> TrainType] BY DEF TrainingTypeOK, TrainType
<1>2. ASSUME NEW d \in TrainType, tcall' = [tcall EXCEPT ![t] = d]
      PROVE  tcall' \in [TrainCalls -> TrainType]
  BY <1>1, <1>2
<1>3. ASSUME NEW pc \in TrainingNow \cup {"idle", "done", "refused", "failed"},
             tcall' = [tcall EXCEPT ![t].pc = pc]
      PROVE  tcall' \in [TrainCalls -> TrainType]
  BY <1>1, <1>2, <1>3 DEF TrainType
<1>4. CASE Load(t)
  <2>1. CASE tcall' = [tcall EXCEPT ![t].pc = "refused"] BY <1>3, <2>1
  <2>2. CASE tcall' # [tcall EXCEPT ![t].pc = "refused"]
    <3>1. PICK v \in Versions :
            tcall' = [tcall EXCEPT ![t].pc = "stage", ![t].version = v, ![t].todo = ToStage(v)]
      BY <1>4, <2>2, Found
    <3>2. v \in VersionCalls BY DEF Versions
    <3>3. ToStage(v) \in SUBSET (Folders \X Images) BY <3>2, StagedAreMembers
    <3>4. [tcall[t] EXCEPT !.pc = "stage", !.version = v, !.todo = ToStage(v)] \in TrainType
      BY <1>1, <3>2, <3>3 DEF TrainType, TrainingNow
    <3> QED BY <1>2, <3>1, <3>4
  <2> QED BY <2>1, <2>2
<1>5. CASE Stage(t)
  <2> DEFINE rest == tcall[t].todo \ {CHOOSE f \in tcall[t].todo : TRUE}
  <2>1. tcall' = [tcall EXCEPT ![t].todo = rest] BY <1>5 DEF Stage
  <2>2. rest \in SUBSET (Folders \X Images) BY <1>1 DEF TrainType
  <2> HIDE DEF rest
  <2>3. [tcall[t] EXCEPT !.todo = rest] \in TrainType BY <1>1, <2>2 DEF TrainType
  <2> QED BY <1>2, <2>1, <2>3
<1>6. CASE StartFit(t)
  <2> DEFINE found == {i \in Images : <<"train", i>> \in dirs[tcall[t].version]}
  <2>1. tcall' = [tcall EXCEPT ![t].pc = "fitting", ![t].fitted = found] BY <1>6 DEF StartFit
  <2>2. found \in SUBSET Images OBVIOUS
  <2> HIDE DEF found
  <2>3. [tcall[t] EXCEPT !.pc = "fitting", !.fitted = found] \in TrainType
    BY <1>1, <2>2 DEF TrainType, TrainingNow, Launched
  <2> QED BY <1>2, <2>1, <2>3
<1>7. CASE EndFit(t)
  <2>1. PICK m \in Metrics : tcall' = [tcall EXCEPT ![t].pc = "log", ![t].metrics = m]
    BY <1>7 DEF EndFit
  <2>2. [tcall[t] EXCEPT !.pc = "log", !.metrics = m] \in TrainType
    BY <1>1 DEF TrainType, TrainingNow, Closing
  <2> QED BY <1>2, <2>1, <2>2
<1>8. CASE \/ Launch(t) \/ RaiseInFit(t) \/ RecordFailure(t) \/ Log(t) \/ Register(t)
           \/ Persist(t) \/ TrainingFails(t)
  <2>1. \E pc \in {"fit", "record", "failed", "register", "persist", "done"} :
          tcall' = [tcall EXCEPT ![t].pc = pc]
    BY <1>8 DEF Launch, RaiseInFit, RecordFailure, Log, Register, Persist, TrainingFails, Step
  <2> QED BY <1>3, <2>1 DEF TrainingNow, Launched, Closing
<1> QED BY <1>4, <1>5, <1>6, <1>7, <1>8 DEF TrainingStep, TrainOn

\* And with what it shares.
LEMMA TrainingTyped ==
    ASSUME VersionsTypeOK, TrainingTypeOK, Loaded, NEW t \in TrainCalls, TrainingStep(t)
    PROVE  TrainingTypeOK' /\ (MaxFaults \in Nat => faults' \in 0..MaxFaults)
<1>1. tcall' \in [TrainCalls -> TrainType] BY TrainCallTyped
<1>2. dirs' \in [VersionCalls -> SUBSET (Folders \X Images)]
  <2>1. CASE dirs' = dirs BY <2>1 DEF TrainingTypeOK
  <2>2. CASE Stage(t)
    <3>1. (CHOOSE f \in tcall[t].todo : TRUE) \in tcall[t].todo BY <2>2 DEF Stage
    <3>2. tcall[t].todo \in SUBSET (Folders \X Images) BY DEF TrainingTypeOK
    <3> QED BY ZenonT(60), <2>2, <3>1, <3>2 DEF Stage, TrainingTypeOK
  <2> QED
    BY <2>1, <2>2 DEF TrainingStep, TrainOn, Load, Launch, StartFit, EndFit, RaiseInFit,
                      RecordFailure, Log, Register, Persist, TrainingFails
<1>3. checkpoint' \in [VersionCalls -> TrainCalls \cup {None}]
  BY DEF TrainingTypeOK, TrainingStep, TrainOn, Load, Stage, Launch, StartFit, EndFit,
         RaiseInFit, RecordFailure, Log, Register, Persist, TrainingFails
<1>4. mlrun' \in [TrainCalls -> {"none", "running", "FAILED", "FINISHED"}]
  BY DEF TrainingTypeOK, TrainingStep, TrainOn, Load, Stage, Launch, StartFit, EndFit,
         RaiseInFit, RecordFailure, Log, Register, Persist, TrainingFails, mlflow
<1>5. artifact' \in [TrainCalls -> TrainCalls \cup {None}]
  <2>1. CASE artifact' = artifact BY <2>1 DEF TrainingTypeOK
  <2>2. CASE Log(t)
    <3>1. tcall[t].version \in VersionCalls
      BY <2>2 DEF Log, Loaded, TrainingNow, Closing, Versions
    <3>2. checkpoint[tcall[t].version] \in TrainCalls \cup {None} BY <3>1 DEF TrainingTypeOK
    <3> QED BY <2>2, <3>2 DEF Log, TrainingTypeOK
  <2> QED
    BY <2>1, <2>2 DEF TrainingStep, TrainOn, Load, Stage, Launch, StartFit, EndFit, RaiseInFit,
                      RecordFailure, Register, Persist, TrainingFails, mlflow
<1>6. registered' \subseteq TrainCalls
  BY DEF TrainingTypeOK, TrainingStep, TrainOn, Load, Stage, Launch, StartFit, EndFit,
         RaiseInFit, RecordFailure, Log, Register, Persist, TrainingFails, mlflow
<1>7. experiment' \in [TrainCalls -> {"none", "completed", "failed"}]
  BY DEF TrainingTypeOK, TrainingStep, TrainOn, Load, Stage, Launch, StartFit, EndFit,
         RaiseInFit, RecordFailure, Log, Register, Persist, TrainingFails
<1>8. ASSUME MaxFaults \in Nat PROVE faults' \in 0..MaxFaults
  <2>1. faults \in 0..MaxFaults BY DEF VersionsTypeOK
  <2>2. faults' = faults \/ Failing
    BY DEF TrainingStep, TrainOn, Load, Stage, Launch, StartFit, EndFit, RaiseInFit,
           RecordFailure, Log, Register, Persist, TrainingFails
  <2> QED BY <1>8, <2>1, <2>2 DEF Failing
<1> QED BY <1>1, <1>2, <1>3, <1>4, <1>5, <1>6, <1>7, <1>8 DEF TrainingTypeOK, TrainType

\* A committed version is never touched again.
LEMMA VersionsStay ==
    ASSUME VersionsTypeOK, NEW c \in VersionCalls, VersionStep(c)
    PROVE  \A v \in Versions : v \in Versions' /\ vcall'[v] = vcall[v]
<1>1. vcall \in [VersionCalls -> CallType] BY DEF VersionsTypeOK, CallType, Contents
<1>2. \A v \in VersionCalls \ {c} : vcall'[v] = vcall[v]
  BY <1>1 DEF VersionStep, Begin, FreezeOn, InsertDataset, ListImages, OpenFile, WriteFile, Track, Push,
              ReadHash, InsertVersion, CommitVersion, VersionFails, GoTo
<1>3. vcall[c].pc # "done"
  BY DEF VersionStep, Begin, FreezeOn, InsertDataset, ListImages, OpenFile, WriteFile, Track, Push,
         ReadHash, InsertVersion, CommitVersion, VersionFails, Working
<1> QED BY <1>2, <1>3 DEF Versions

LEMMA LoadedStep ==
    ASSUME VersionsTypeOK, TrainingTypeOK, Loaded,
           \/ \E c \in VersionCalls : VersionStep(c)
           \/ \E t \in TrainCalls : TrainingStep(t)
           \/ Quiet
    PROVE  Loaded'
<1>1. ASSUME NEW c \in VersionCalls, VersionStep(c) PROVE Loaded'
  BY <1>1, VersionsStay DEF Loaded, VersionStep, trainVars
<1>2. ASSUME NEW t \in TrainCalls, TrainingStep(t) PROVE Loaded'
  <2>1. Versions' = Versions BY <1>2 DEF TrainingStep, versionVars, Versions
  <2>2. tcall \in [TrainCalls -> TrainType] BY DEF TrainingTypeOK, TrainType
  <2>3. ASSUME NEW u \in TrainCalls, tcall'[u].pc \in TrainingNow \cup {"done"}
        PROVE  tcall'[u].version \in Versions
    <3>1. CASE tcall'[u].version = tcall[u].version /\ tcall[u].pc \in TrainingNow \cup {"done"}
      BY <3>1 DEF Loaded
    <3>2. CASE Load(t)
      <4>1. CASE tcall' = [tcall EXCEPT ![t].pc = "refused"]
        <5>1. u # t BY <2>2, <2>3, <4>1 DEF TrainingNow, Launched, Closing
        <5> QED BY <2>2, <2>3, <4>1, <5>1 DEF Loaded
      <4>2. CASE tcall' # [tcall EXCEPT ![t].pc = "refused"]
        <5>1. PICK v \in Versions :
                tcall' = [tcall EXCEPT ![t].pc = "stage", ![t].version = v,
                                       ![t].todo = ToStage(v)]
          BY <3>2, <4>2, Found
        <5>2. CASE u = t BY <2>2, <5>1, <5>2 DEF TrainType
        <5>3. CASE u # t BY <2>2, <2>3, <5>1, <5>3 DEF Loaded
        <5> QED BY <5>2, <5>3
      <4> QED BY <4>1, <4>2
    <3>3. CASE ~Load(t)
      <4>1. /\ \A w \in TrainCalls : tcall'[w].version = tcall[w].version
            /\ \A w \in TrainCalls \ {t} : tcall'[w].pc = tcall[w].pc
            /\ tcall[t].pc \in TrainingNow
        BY <1>2, <2>2, <3>3
           DEF TrainType, TrainingStep, TrainOn, Stage, Launch, StartFit, EndFit, RaiseInFit,
               RecordFailure, Log, Register, Persist, TrainingFails, Step, TrainingNow,
               Launched, Closing
      <4> QED BY SMTT(60), <2>3, <3>1, <4>1
    <3> QED BY <3>2, <3>3
  <2> QED BY <2>1, <2>3 DEF Loaded
<1>3. CASE Quiet BY <1>3 DEF Loaded, Quiet, versionVars, trainVars, Versions
<1> QED BY <1>1, <1>2, <1>3

\* From evaluation on a run has a model.
Handed == \A r \in Runs :
    dag[r].task \in {"evaluate", "deploy", "success", "skipped"} => dag[r].model \in TrainCalls

LEMMA HandedStep ==
    ASSUME dag \in [Runs -> DagType], Handed, [Next]_vars
    PROVE  Handed'
<1>1. CASE dag' = dag BY <1>1 DEF Handed
<1>2. ASSUME NEW r \in Runs, NEW d \in DagType, dag' = [dag EXCEPT ![r] = d],
             d.task \in {"evaluate", "deploy", "success", "skipped"} => d.model \in TrainCalls
      PROVE  Handed'
  <2>1. \A s \in Runs : dag'[s] = IF s = r THEN d ELSE dag[s] BY <1>2
  <2> QED BY <1>2, <2>1 DEF Handed
<1>3. ASSUME NEW r \in Runs, Trigger(r) \/ TriggerOnDrift(r) PROVE Handed'
  <2>1. dag' = [dag EXCEPT ![r] = [dag[r] EXCEPT !.task = "version"]]
    BY <1>3 DEF Trigger, TriggerOnDrift
  <2>2. [dag[r] EXCEPT !.task = "version"] \in DagType BY DEF DagType, Active
  <2> QED BY <1>2, <2>1, <2>2 DEF DagType
<1>4. ASSUME NEW r \in Runs, NEW task \in Active \cup Ended, NEW m \in TrainCalls \cup {None},
             NextTask(r, task, m),
             task \in {"evaluate", "deploy", "success", "skipped"} => m \in TrainCalls
      PROVE  Handed'
  <2>1. 1 \in Tries BY TriesAssumption DEF Tries
  <2>2. [task |-> task, try |-> 1, deployed |-> "no", model |-> m] \in DagType
    BY <2>1 DEF DagType
  <2> QED BY <1>2, <1>4, <2>2 DEF NextTask
<1>5. ASSUME NEW r \in Runs, Versioned(r) \/ Trained(r) \/ Evaluate(r) PROVE Handed'
  <2>1. CASE Versioned(r) BY <1>4, <2>1 DEF Versioned, Active
  <2>2. CASE Trained(r) BY <1>4, <2>2, TriesAreCalls DEF Trained, Active
  <2>3. CASE Evaluate(r)
    <3>1. dag[r].model \in TrainCalls BY <2>3 DEF Evaluate, Handed
    <3> QED BY <1>4, <2>3, <3>1 DEF Evaluate, Active, Ended
  <2> QED BY <1>5, <2>1, <2>2, <2>3
<1>6. ASSUME NEW r \in Runs, NEW x \in {"promoted", "rejected"},
             dag' = [dag EXCEPT ![r].deployed = x]
      PROVE  Handed'
  <2>1. dag' = [dag EXCEPT ![r] = [dag[r] EXCEPT !.deployed = x]] BY <1>6
  <2>2. [dag[r] EXCEPT !.deployed = x] \in DagType BY DEF DagType
  <2> QED BY <1>2, <2>1, <2>2 DEF Handed, DagType
<1>7. ASSUME NEW r \in Runs, NEW task \in Ended, dag' = [dag EXCEPT ![r].task = task],
             dag[r].task = "deploy" \/ task = "failed"
      PROVE  Handed'
  <2>1. dag' = [dag EXCEPT ![r] = [dag[r] EXCEPT !.task = task]] BY <1>7
  <2>2. [dag[r] EXCEPT !.task = task] \in DagType BY DEF DagType
  <2> QED BY <1>2, <1>7, <2>1, <2>2 DEF Handed, DagType
<1>8. ASSUME NEW r \in Runs, TryAgain(r) PROVE Handed'
  <2>1. CASE dag[r].try < MaxTries
    <3>1. dag[r].try + 1 \in Tries BY <2>1, TriesAssumption DEF DagType, Tries
    <3>2. dag' = [dag EXCEPT ![r] = [dag[r] EXCEPT !.try = dag[r].try + 1, !.deployed = "no"]]
      BY <1>8, <2>1 DEF TryAgain
    <3>3. [dag[r] EXCEPT !.try = dag[r].try + 1, !.deployed = "no"] \in DagType
      BY <3>1 DEF DagType
    <3> QED BY <1>2, <3>2, <3>3 DEF Handed, DagType
  <2> QED BY <1>7, <1>8, <2>1 DEF TryAgain, Ended
<1>9. ASSUME NEW r \in Runs, Proceed(r) \/ Lose(r) PROVE Handed'
  BY <1>1, <1>5, <1>6, <1>7, <1>8, <1>9
     DEF Proceed, Lose, StartVersion, StartTrain, dagVars, Deploy, Deployed, Retry, Ended
<1> QED
  BY <1>1, <1>3, <1>9
     DEF Next, vars, dagVars, OperatorPromotes, Restore, ReviewStep, OperatorVersion, FreezeStep,
         FreezeFails, TrainStep, TrainFails, CheckDrift

SlotModels == TrainCalls \cup {Incumbent}
SlotRow == [action : {"promote", "reject", "rollback"}, model : SlotModels,
            prev : SlotModels \cup {None}, by : Runs \cup {None}]
SlotTypeOK ==
    /\ production \in SlotModels \cup {None} /\ displaced \in SlotModels \cup {None}
    /\ latest \in SlotModels
    /\ deployments \subseteq SlotRow
    /\ drift \in [Runs -> Severities \cup {"unknown"}]
    /\ orders \in 0..MaxOrders

\* A change of production or of the history is a deployment, a promotion or a rollback.
LEMMA SlotSteps ==
    ASSUME [Next]_vars
    PROVE  \/ \E o \in Orders : OperatorPromotes(o) \/ Restore(o)
           \/ \E r \in Runs : Deploy(r)
           \/ UNCHANGED slotVars
BY DEF Next, vars, ReviewStep, OperatorVersion, FreezeStep, FreezeFails, TrainStep, TrainFails,
       Trigger, CheckDrift, TriggerOnDrift, Lose, Proceed, StartVersion, StartTrain, Versioned,
       Trained, Evaluate, Deployed, Retry

LEMMA SlotTyped ==
    ASSUME SlotTypeOK, dag \in [Runs -> DagType], Handed, [Next]_vars
    PROVE  SlotTypeOK'
<1> DEFINE Good == /\ production' \in SlotModels \cup {None} /\ displaced' \in SlotModels \cup {None}
                   /\ latest' \in SlotModels /\ deployments' \subseteq SlotRow
<1>1. Good /\ orders' \in 0..MaxOrders
  <2>1. CASE UNCHANGED slotVars BY <2>1 DEF slotVars, SlotTypeOK
  <2>2. ASSUME NEW m \in SlotModels, Put(m), NEW a \in {"promote", "rollback"},
               NEW by \in Runs \cup {None},
               deployments' = deployments \cup
                  {[action |-> a, model |-> m, prev |-> production, by |-> by]}
        PROVE  Good
    <3>1. [action |-> a, model |-> m, prev |-> production, by |-> by] \in SlotRow
      BY DEF SlotTypeOK, SlotRow
    <3> QED BY <2>2, <3>1 DEF Put, SlotTypeOK
  <2>3. ASSUME NEW m \in SlotModels, NEW by \in Runs \cup {None}, Promote(m, by) PROVE Good
    <3>1. [action |-> "reject", model |-> m, prev |-> production, by |-> by] \in SlotRow
      BY DEF SlotTypeOK, SlotRow
    <3>2. CASE PassesGate(m, production) BY <2>2, <2>3, <3>2 DEF Promote
    <3>3. CASE ~PassesGate(m, production) BY <2>3, <3>1, <3>3 DEF Promote, SlotTypeOK
    <3> QED BY <3>2, <3>3
  <2>4. orders \in 0..MaxOrders /\ MaxOrders \in Nat BY BoundsAssumption DEF SlotTypeOK
  <2>5. ASSUME NEW o \in Orders, OperatorPromotes(o) \/ Restore(o)
        PROVE  Good /\ orders' \in 0..MaxOrders
    <3>1. orders' \in 0..MaxOrders BY <2>4, <2>5 DEF OperatorPromotes, Restore
    <3>2. CASE OperatorPromotes(o)
      <4>1. o.model \in SlotModels BY <3>2 DEF OperatorPromotes, SlotModels, Models
      <4> QED BY <2>3, <3>1, <3>2, <4>1 DEF OperatorPromotes
    <3>3. CASE Restore(o)
      <4>1. PICK m : m = IF o.model = None THEN displaced ELSE o.model OBVIOUS
      <4>2. m \in SlotModels BY <3>3, <4>1 DEF Restore, SlotModels, Models
      <4> QED BY <2>2, <3>1, <3>3, <4>1, <4>2 DEF Restore
    <3> QED BY <2>5, <3>2, <3>3
  <2>6. ASSUME NEW r \in Runs, Deploy(r) PROVE Good /\ orders' \in 0..MaxOrders
    <3>1. PICK m : m = dag[r].model OBVIOUS
    <3>2. m \in SlotModels BY <2>6, <3>1 DEF Deploy, Handed, SlotModels
    <3> QED BY <2>3, <2>4, <2>6, <3>1, <3>2 DEF Deploy
  <2> QED BY <2>1, <2>5, <2>6, SlotSteps
<1>2. drift' \in [Runs -> Severities \cup {"unknown"}]
  <2>1. \A w : Severity(w) \in Severities BY DEF Severity, Severities
  <2>2. ASSUME NEW r \in Runs, NEW x \in Severities \cup {"unknown"},
               drift' = [drift EXCEPT ![r] = x]
        PROVE  drift' \in [Runs -> Severities \cup {"unknown"}]
    BY <2>2 DEF SlotTypeOK
  <2>3. CASE drift' = drift BY <2>3 DEF SlotTypeOK
  <2>4. ASSUME NEW r \in Runs, Trigger(r) \/ TriggerOnDrift(r) \/ CheckDrift(r)
        PROVE  drift' \in [Runs -> Severities \cup {"unknown"}]
    <3>1. \E x \in Severities \cup {"unknown"} : drift' = [drift EXCEPT ![r] = x]
      BY <2>1, <2>4 DEF Trigger, TriggerOnDrift, CheckDrift
    <3> QED BY <2>2, <3>1
  <2> QED
    BY <2>3, <2>4
       DEF Next, vars, dagVars, OperatorPromotes, Restore, ReviewStep, OperatorVersion, FreezeStep,
           FreezeFails, TrainStep, TrainFails, Lose, Proceed, StartVersion, StartTrain, Versioned, Trained,
           Evaluate, Deploy, Deployed, Retry
<1> QED BY <1>1, <1>2 DEF SlotTypeOK

\* Reviews and faults outside the calls.
LEMMA QuietTyped ==
    ASSUME VersionsTypeOK, Quiet, [Next]_vars
    PROVE  VersionsTypeOK'
<1>1. image' \in [Images -> [status : {"pending", "valid"}, label : Labels, reviewed : BOOLEAN]]
      /\ reviews' \subseteq Verdicts
  <2>1. CASE UNCHANGED imageVars BY <2>1 DEF imageVars, VersionsTypeOK
  <2>2. ASSUME NEW verdict \in Verdicts, ReviewStep(verdict)
        PROVE  image' \in [Images -> [status : {"pending", "valid"}, label : Labels, reviewed : BOOLEAN]]
               /\ reviews' \subseteq Verdicts
    <3>1. verdict[1] \in Images /\ verdict[2] \in Labels BY ImagesAssumption
    <3> QED BY <2>2, <3>1 DEF ReviewStep, Review, VersionsTypeOK
  <2> QED
    BY <2>1, <2>2
       DEF Next, vars, OperatorPromotes, Restore, OperatorVersion, FreezeStep, FreezeFails, TrainStep, TrainFails,
           Trigger, CheckDrift, TriggerOnDrift, Lose, Proceed, StartVersion, StartTrain, Versioned,
           Trained, Evaluate, Deploy, Deployed, Retry
<1>2. faults' \in 0..MaxFaults
  <2>1. faults \in 0..MaxFaults /\ MaxFaults \in Nat BY SMTT(60), BoundsAssumption DEF VersionsTypeOK
  <2>2. faults' = faults \/ Failing
    BY ZenonT(60) DEF Next, vars, OperatorPromotes, Restore, ReviewStep, OperatorVersion, Begin, FreezeStep, FreezeOn,
           InsertDataset, ListImages, OpenFile, WriteFile, Track, Push, ReadHash, InsertVersion,
           CommitVersion, FreezeFails, VersionFails, TrainStep, TrainOn, Stage, Launch, StartFit,
           EndFit, RaiseInFit, RecordFailure, Log, Register, Persist, TrainFails, TrainingFails,
           Trigger, CheckDrift, TriggerOnDrift, Lose, Proceed, StartVersion, StartTrain, Load,
           Versioned, Trained, Evaluate, Deploy, Deployed, Retry
  <2> QED BY <2>1, <2>2 DEF Failing
<1> QED BY <1>1, <1>2 DEF VersionsTypeOK, Quiet, versionVars

TypeInv == TypeOK /\ Loaded /\ Handed

LEMMA TypeParts == TypeOK <=> /\ VersionsTypeOK /\ TrainingTypeOK /\ SlotTypeOK
                              /\ dag \in [Runs -> DagType]
BY DEF TypeOK, SlotTypeOK, SlotModels, SlotRow, DagType

LEMMA TypeInit == Init => TypeInv
<1> SUFFICES ASSUME Init PROVE TypeInv OBVIOUS
<1>1. VersionsTypeOK
  <2>1. image \in [Images -> [status : {"pending", "valid"}, label : Labels, reviewed : BOOLEAN]]
    BY ImagesAssumption DEF Init, VersionsInit
  <2>2. vcall \in [VersionCalls -> CallType]
    <3>1. NewCall \in CallType BY EmptyIsManifest DEF NewCall, CallType, Contents
    <3> QED BY <3>1 DEF Init, VersionsInit
  <2> QED BY <2>1, <2>2, BoundsAssumption DEF Init, VersionsInit, VersionsTypeOK, CallType, Contents
<1>2. TrainingTypeOK
  <2>1. NewTraining \in TrainType BY DEF NewTraining, TrainType
  <2>2. tcall \in [TrainCalls -> TrainType] BY <2>1 DEF Init, TrainingInit
  <2> QED BY <2>2 DEF Init, TrainingInit, TrainingTypeOK, TrainType
<1>3. SlotTypeOK BY BoundsAssumption DEF Init, SlotTypeOK, SlotModels
<1>4. dag \in [Runs -> DagType]
  <2>1. 1 \in Tries BY TriesAssumption DEF Tries
  <2> QED BY <2>1 DEF Init, DagType
<1>5. Loaded BY DEF Init, TrainingInit, Loaded, NewTraining, TrainingNow, Launched, Closing
<1>6. Handed BY DEF Init, Handed
<1> QED BY <1>1, <1>2, <1>3, <1>4, <1>5, <1>6, TypeParts DEF TypeInv

LEMMA TypeStep == TypeInv /\ [Next]_vars => TypeInv'
<1> SUFFICES ASSUME TypeInv, [Next]_vars PROVE TypeInv' OBVIOUS
<1>1. VersionsTypeOK /\ TrainingTypeOK /\ SlotTypeOK /\ dag \in [Runs -> DagType]
      /\ Loaded /\ Handed
  BY TypeParts DEF TypeInv
<1>2. dag' \in [Runs -> DagType] /\ Handed' /\ SlotTypeOK'
  BY <1>1, DagTyped, HandedStep, SlotTyped
<1>3. \/ \E c \in VersionCalls : VersionStep(c)
      \/ \E t \in TrainCalls : TrainingStep(t)
      \/ Quiet
  BY <1>1, Kinds
<1>4. Loaded' BY <1>1, <1>3, LoadedStep
<1>5. VersionsTypeOK' /\ TrainingTypeOK'
  <2>1. ASSUME NEW c \in VersionCalls, VersionStep(c) PROVE VersionsTypeOK' /\ TrainingTypeOK'
    <3>1. VersionsTypeOK' BY <1>1, <2>1, VersionTyped, BoundsAssumption
    <3> QED BY <1>1, <2>1, <3>1 DEF VersionStep, trainVars, TrainingTypeOK
  <2>2. ASSUME NEW t \in TrainCalls, TrainingStep(t) PROVE VersionsTypeOK' /\ TrainingTypeOK'
    <3>1. TrainingTypeOK' /\ faults' \in 0..MaxFaults
      BY <1>1, <2>2, TrainingTyped, BoundsAssumption
    <3> QED BY <1>1, <2>2, <3>1 DEF TrainingStep, imageVars, versionVars, VersionsTypeOK
  <2>3. CASE Quiet
    <3>1. VersionsTypeOK' BY <1>1, <2>3, QuietTyped
    <3> QED BY <1>1, <2>3, <3>1 DEF Quiet, trainVars, TrainingTypeOK
  <2> QED BY <1>3, <2>1, <2>2, <2>3
<1>6. TypeOK' BY <1>2, <1>5 DEF TypeOK, SlotTypeOK, SlotModels, SlotRow, DagType
<1> QED BY <1>2, <1>4, <1>6 DEF TypeInv

\* The types of rows, calls, stores, runs and the production slot hold in every state.
THEOREM RetrainingTypes == Spec => []TypeOK
<1>1. TypeInv => TypeOK BY DEF TypeInv
<1> QED BY <1>1, TypeInit, TypeStep, PTL DEF Spec

-----------------------------------------------------------------------------
(* What a dvc_hash stands for *)

\* Another call on the same path froze x.
Other(c, x) == \E d \in VersionCalls \ {c} : PathOf(d) = PathOf(c) /\ vcall[d].manifest = x
Backed(c) == vcall[c].manifest \in remote \/ Other(c, vcall[c].manifest)
Rival(c) == \E d \in VersionCalls \ {c} : PathOf(d) = PathOf(c) /\ vcall[d].manifest # Empty

\* A manifest is empty until the images are listed.
Freezing ==
    \A c \in VersionCalls :
        /\ vcall[c].pc \in {"idle", "insert", "list"} => vcall[c].manifest = Empty
        /\ vcall[c].pc \in Working \cup {"done"} =>
             vcall[c].pc \in {"insert", "list"} \/ vcall[c].manifest # Empty

\* Manifests in the working copy were frozen by some call on their path.
Tracked ==
    \A p \in Paths :
        /\ file[p] # Empty /\ pointer[p] # Empty
        /\ file[p] \in Manifests => \E d \in VersionCalls : PathOf(d) = p /\ vcall[d].manifest = file[p]
        /\ pointer[p] \in Manifests =>
             \E d \in VersionCalls : PathOf(d) = p /\ vcall[d].manifest = pointer[p]

\* How far a call's manifest has come on its way to the remote, unless another call on its
\* path got in between.
Follows(c) ==
    LET p == PathOf(c)
        M == vcall[c].manifest
    IN
    /\ vcall[c].pc = "fill" => file[p] = Begun \/ Rival(c)
    /\ vcall[c].pc = "track" => file[p] # None /\ (file[p] = M \/ Rival(c))
    /\ vcall[c].pc = "push" => /\ pointer[p] # None /\ (pointer[p] = M \/ Rival(c))
                               /\ file[p] = M => pointer[p] = M \/ Other(c, M)
    /\ vcall[c].pc = "hash" => /\ pointer[p] # None /\ (pointer[p] = M \/ Rival(c))
                               /\ file[p] = M \/ pointer[p] = M => Backed(c)
    /\ vcall[c].pc \in {"row", "commit", "done"} =>
         /\ vcall[c].hash # Empty
         /\ \/ vcall[c].hash = M /\ M \in remote
            \/ Other(c, vcall[c].hash)
            \/ vcall[c].hash \in Unreadable /\ Rival(c)

HashInv == Freezing /\ Tracked /\ \A c \in VersionCalls : Follows(c)

\* A manifest that is not empty is never replaced.
LEMMA ManifestsStay ==
    ASSUME VersionsTypeOK, Freezing, NEW c \in VersionCalls, VersionStep(c)
    PROVE  /\ \A d \in VersionCalls : vcall[d].manifest # Empty => vcall'[d].manifest = vcall[d].manifest
           /\ \A d \in VersionCalls : \A x : x # Empty /\ Other(d, x) => Other(d, x)'
           /\ \A d \in VersionCalls : Rival(d) => Rival(d)'
           /\ Freezing'
           /\ \A d \in VersionCalls \ {c} : vcall'[d] = vcall[d]
<1>1. vcall \in [VersionCalls -> CallType] BY DEF VersionsTypeOK, CallType, Contents
<1>2. CASE ListImages(c)
  <2> DEFINE S == Trainable(Asked[c].category)
             M == [i \in S |-> [split |-> SplitOf(S, i), label |-> image[i].label]]
             H == {i \in S : image[i].reviewed}
  <2>1. vcall[c].pc = "list" /\ vcall[c].manifest = Empty BY <1>2 DEF ListImages, Freezing
  <2>2. CASE S = {}
    <3>1. vcall' = [vcall EXCEPT ![c].pc = "refused", ![c].created = FALSE]
      BY <1>2, <2>2 DEF ListImages
    <3> QED BY <1>1, <3>1 DEF Freezing, Other, Rival, CallType, Working
  <2>3. CASE S # {}
    <3>1. vcall' = [vcall EXCEPT ![c].pc = "write", ![c].manifest = M, ![c].held = H]
      BY <1>2, <2>3 DEF ListImages
    <3>2. M # Empty
      <4>1. DOMAIN M = S /\ DOMAIN Empty = {} BY DEF Empty
      <4> HIDE DEF M, S
      <4> QED BY <2>3, <4>1
    <3> HIDE DEF M, H, S
    <3> QED BY <1>1, <2>1, <3>1, <3>2 DEF Freezing, Other, Rival, CallType, Working
  <2> QED BY <2>2, <2>3
<1>3. CASE ~ListImages(c)
  <2>1. \A d \in VersionCalls \ {c} : vcall'[d] = vcall[d]
    BY <1>1, <1>3
       DEF VersionStep, Begin, FreezeOn, InsertDataset, OpenFile, WriteFile, Track, Push, ReadHash,
           InsertVersion, CommitVersion, VersionFails, GoTo
  <2>2. vcall'[c].manifest = vcall[c].manifest
    BY <1>1, <1>3
       DEF VersionStep, Begin, FreezeOn, InsertDataset, OpenFile, WriteFile, Track, Push, ReadHash,
           InsertVersion, CommitVersion, VersionFails, GoTo, CallType
  <2>3. \/ vcall[c].pc \in {"idle", "insert", "list"} /\ vcall'[c].pc \in {"insert", "list", "refused", "failed"}
        \/ vcall[c].pc \in Working \ {"insert", "list"} /\ vcall'[c].pc \notin {"idle", "insert", "list"}
    BY <1>1, <1>3
       DEF VersionStep, Begin, FreezeOn, InsertDataset, OpenFile, WriteFile, Track, Push, ReadHash,
           InsertVersion, CommitVersion, VersionFails, GoTo, CallType, Working
  <2> QED BY <2>1, <2>2, <2>3 DEF Freezing, Other, Rival, Working
<1> QED BY <1>2, <1>3

\* What each step does to the working copy.
LEMMA FileSteps ==
    ASSUME VersionsTypeOK, NEW c \in VersionCalls, VersionStep(c)
    PROVE  \/ file' = file /\ pointer' = pointer
           \/ /\ vcall[c].pc \in {"write", "fill"} /\ pointer' = pointer
              /\ \E x \in {vcall[c].manifest, Begun, Mixed} :
                   \A p \in Paths : file'[p] = IF p = PathOf(c) THEN x ELSE file[p]
           \/ /\ vcall[c].pc = "track" /\ file' = file
              /\ \A p \in Paths : pointer'[p] = IF p = PathOf(c) THEN file[p] ELSE pointer[p]
<1>1. PathOf(c) \in Paths /\ DOMAIN file = Paths /\ DOMAIN pointer = Paths
  BY DEF Paths, VersionsTypeOK
<1>2. ASSUME NEW x \in {vcall[c].manifest, Begun, Mixed}, vcall[c].pc \in {"write", "fill"},
             pointer' = pointer, file' = [file EXCEPT ![PathOf(c)] = x]
      PROVE  /\ vcall[c].pc \in {"write", "fill"} /\ pointer' = pointer
             /\ \E y \in {vcall[c].manifest, Begun, Mixed} :
                  \A p \in Paths : file'[p] = IF p = PathOf(c) THEN y ELSE file[p]
  <2>1. \A p \in Paths : file'[p] = IF p = PathOf(c) THEN x ELSE file[p] BY <1>1, <1>2
  <2> QED BY <1>2, <2>1
<1>3. CASE OpenFile(c) BY <1>2, <1>3 DEF OpenFile
<1>4. CASE WriteFile(c) BY <1>2, <1>4 DEF WriteFile
<1>5. CASE VersionFails(c) BY <1>2, <1>5 DEF VersionFails
<1>6. CASE Track(c)
  <2>1. \A p \in Paths : pointer'[p] = IF p = PathOf(c) THEN file[p] ELSE pointer[p]
    BY <1>1, <1>6 DEF Track
  <2> QED BY <1>6, <2>1 DEF Track
<1>7. CASE \/ Begin(c) \/ InsertDataset(c) \/ ListImages(c) \/ Push(c) \/ ReadHash(c)
           \/ InsertVersion(c) \/ CommitVersion(c)
  BY <1>7 DEF Begin, InsertDataset, ListImages, Push, ReadHash, InsertVersion, CommitVersion
<1> QED BY <1>3, <1>4, <1>5, <1>6, <1>7 DEF VersionStep, FreezeOn

LEMMA TrackedStep ==
    ASSUME VersionsTypeOK, HashInv, NEW c \in VersionCalls, VersionStep(c)
    PROVE  Tracked'
<1>1. \A d \in VersionCalls : vcall[d].manifest # Empty => vcall'[d].manifest = vcall[d].manifest
  BY ManifestsStay DEF HashInv
<1>2. Tracked BY DEF HashInv
<1>3. CASE file' = file /\ pointer' = pointer BY <1>1, <1>2, <1>3 DEF Tracked
<1>4. ASSUME vcall[c].pc \in {"write", "fill"}, pointer' = pointer,
             NEW x \in {vcall[c].manifest, Begun, Mixed},
             \A p \in Paths : file'[p] = IF p = PathOf(c) THEN x ELSE file[p]
      PROVE  Tracked'
  <2>1. vcall[c].manifest # Empty BY <1>4 DEF HashInv, Freezing, Working
  <2>2. x # Empty /\ (x \in Manifests => x = vcall[c].manifest)
    BY <2>1, NoneAssumption, EmptyIsManifest DEF Unreadable
  <2> QED BY <1>1, <1>2, <1>4, <2>1, <2>2 DEF Tracked
<1>5. CASE /\ file' = file
           /\ \A p \in Paths : pointer'[p] = IF p = PathOf(c) THEN file[p] ELSE pointer[p]
  BY <1>1, <1>2, <1>5 DEF Tracked
<1> QED BY <1>3, <1>4, <1>5, FileSteps

LEMMA FollowsStep ==
    ASSUME VersionsTypeOK, HashInv, NEW c \in VersionCalls, VersionStep(c), NEW e \in VersionCalls
    PROVE  Follows(e)'
<1> DEFINE p == PathOf(e)
           M == vcall[e].manifest
<1>1. /\ \A d \in VersionCalls : vcall[d].manifest # Empty => vcall'[d].manifest = vcall[d].manifest
      /\ \A d \in VersionCalls : \A x : x # Empty /\ Other(d, x) => Other(d, x)'
      /\ \A d \in VersionCalls : Rival(d) => Rival(d)'
      /\ Freezing'
      /\ \A d \in VersionCalls \ {c} : vcall'[d] = vcall[d]
  BY ManifestsStay DEF HashInv
<1>2. p \in Paths BY DEF Paths
<1>3. /\ file \in [Paths -> Contents] /\ pointer \in [Paths -> Contents]
      /\ vcall \in [VersionCalls -> CallType]
  BY DEF VersionsTypeOK, CallType, Contents
<1>4. Tracked /\ Follows(e) /\ Freezing BY DEF HashInv
<1>5. remote \subseteq remote'
  BY DEF VersionStep, Begin, FreezeOn, InsertDataset, ListImages, OpenFile, WriteFile, Track, Push,
         ReadHash, InsertVersion, CommitVersion, VersionFails
<1>6. ASSUME vcall[e].pc \in (Working \ {"insert", "list"}) \cup {"done"}
      PROVE  M # Empty /\ vcall'[e].manifest = M
  BY <1>1, <1>4, <1>6 DEF Freezing
<1>7. M \notin Unreadable /\ M # None /\ Begun # None /\ Mixed # None
  BY <1>3, NoneAssumption DEF CallType, Unreadable
<1>8. CASE e # c
  <2>1. vcall'[e] = vcall[e] BY <1>1, <1>8
  <2>2. ASSUME UNCHANGED <<file[p], pointer[p]>> PROVE Follows(e)'
    BY <1>1, <1>4, <1>5, <1>6, <2>1, <2>2 DEF Follows, Backed, Working
  <2>3. ASSUME PathOf(c) = p, vcall[c].pc \in {"write", "fill", "track"}
        PROVE  Rival(e)' /\ vcall'[c].manifest = vcall[c].manifest
    <3>1. vcall[c].manifest # Empty BY <1>4, <2>3 DEF Freezing, Working
    <3> QED BY <1>1, <1>8, <2>3, <3>1 DEF Rival
  <2>4. ASSUME vcall[c].pc \in {"write", "fill"}, pointer' = pointer,
               NEW x \in {vcall[c].manifest, Begun, Mixed},
               \A q \in Paths : file'[q] = IF q = PathOf(c) THEN x ELSE file[q]
        PROVE  Follows(e)'
    <3>1. CASE PathOf(c) # p BY <1>2, <2>2, <2>4, <3>1
    <3>2. CASE PathOf(c) = p
      <4>1. file'[p] = x /\ pointer'[p] = pointer[p] BY <1>2, <2>4, <3>2
      <4>2. Rival(e)' /\ vcall'[c].manifest = vcall[c].manifest BY <2>3, <2>4, <3>2
      <4>3. x # None BY <1>3, <1>7, <2>4, NoneAssumption DEF CallType
      <4>4. x = M => Other(e, M)' BY <1>7, <1>8, <2>1, <2>4, <3>2, <4>2 DEF Other, Unreadable
      <4> QED BY <1>1, <1>4, <1>5, <1>6, <2>1, <4>1, <4>2, <4>3, <4>4 DEF Follows, Backed, Working
    <3> QED BY <3>1, <3>2
  <2>5. ASSUME vcall[c].pc = "track", file' = file,
               \A q \in Paths : pointer'[q] = IF q = PathOf(c) THEN file[q] ELSE pointer[q]
        PROVE  Follows(e)'
    <3>1. CASE PathOf(c) # p BY <1>2, <2>2, <2>5, <3>1
    <3>2. CASE PathOf(c) = p
      <4>1. pointer'[p] = file[p] /\ file'[p] = file[p] BY <1>2, <2>5, <3>2
      <4>2. Rival(e)' BY <2>3, <2>5, <3>2
      <4>3. file[p] # None BY <2>5, <3>2 DEF HashInv, Follows
      <4> QED BY <1>1, <1>4, <1>5, <1>6, <2>1, <4>1, <4>2, <4>3 DEF Follows, Backed, Working
    <3> QED BY <3>1, <3>2
  <2> QED BY <2>2, <2>4, <2>5, FileSteps
<1>9. CASE e = c
  <2>1. CASE OpenFile(c)
    <3>1. file'[p] = Begun /\ vcall'[c].pc = "fill"
      BY <1>2, <1>3, <1>9, <2>1 DEF OpenFile, GoTo, CallType
    <3> QED BY <1>9, <3>1 DEF Follows
  <2>2. CASE WriteFile(c)
    <3>1. vcall'[c].pc = "track" /\ vcall[c].pc = "fill"
      BY <1>3, <2>2 DEF WriteFile, GoTo, CallType
    <3>2. vcall'[e].manifest = M BY <1>6, <1>9, <3>1 DEF Working
    <3>3. CASE file' = [file EXCEPT ![p] = M]
      <4>1. file'[p] = M BY <1>2, <1>3, <3>3
      <4> QED BY <1>7, <1>9, <3>1, <3>2, <4>1 DEF Follows
    <3>4. CASE file' # [file EXCEPT ![p] = M]
      <4>1. /\ file'[p] = Mixed
            /\ \/ file[p] # Begun
               \/ \E d \in VersionCalls \ {c} : vcall[d].pc = "fill" /\ PathOf(d) = p
        BY <1>2, <1>3, <1>9, <2>2, <3>4 DEF WriteFile
      <4>2. ASSUME NEW d \in VersionCalls \ {c}, vcall[d].pc = "fill", PathOf(d) = p
            PROVE  Rival(e)
        <5>1. vcall[d].manifest # Empty BY <1>4, <4>2 DEF Freezing, Working
        <5> QED BY <1>9, <4>2, <5>1 DEF Rival
      <4>3. Rival(e) BY <1>4, <1>9, <3>1, <4>1, <4>2 DEF Follows
      <4> QED BY <1>1, <1>7, <1>9, <3>1, <4>1, <4>3 DEF Follows
    <3> QED BY <3>3, <3>4
  <2>3. CASE Track(c)
    <3>1. pointer'[p] = file[p] /\ file' = file /\ vcall'[c].pc = "push" /\ vcall[c].pc = "track"
      BY <1>2, <1>3, <1>9, <2>3 DEF Track, GoTo, CallType
    <3>2. file[p] # None /\ (file[p] = M \/ Rival(e)) BY <1>4, <1>9, <3>1 DEF Follows
    <3> QED BY <1>1, <1>6, <1>9, <3>1, <3>2 DEF Follows, Working
  <2>4. CASE Push(c)
    <3>1. /\ vcall[c].pc = "push" /\ vcall'[c].pc = "hash" /\ file' = file /\ pointer' = pointer
          /\ pointer[p] \in remote'
      BY <1>3, <1>9, <2>4 DEF Push, GoTo, CallType
    <3>2. /\ pointer[p] # None /\ (pointer[p] = M \/ Rival(e))
          /\ file[p] = M => pointer[p] = M \/ Other(e, M)
      BY <1>4, <1>9, <3>1 DEF Follows
    <3>3. M # Empty /\ vcall'[e].manifest = M BY <1>6, <1>9, <3>1 DEF Working
    <3>4. file[p] = M \/ pointer[p] = M => Backed(e)' BY <1>1, <3>1, <3>2, <3>3 DEF Backed
    <3> QED BY <1>1, <1>9, <3>1, <3>2, <3>3, <3>4 DEF Follows
  <2>5. CASE ReadHash(c)
    <3>1. /\ vcall[c].pc = "hash" /\ vcall'[c].pc = "row" /\ vcall'[c].hash = pointer[p]
          /\ vcall'[c].manifest = vcall[c].manifest /\ pointer' = pointer
      BY <1>3, <1>9, <2>5 DEF ReadHash, CallType
    <3>2. /\ pointer[p] # None /\ (pointer[p] = M \/ Rival(e))
          /\ pointer[p] = M => Backed(e)
      BY <1>4, <1>9, <3>1 DEF Follows
    <3>3. pointer[p] # Empty BY <1>2, <1>4 DEF Tracked
    <3>4. \/ pointer[p] = M /\ M \in remote
          \/ Other(e, pointer[p])
          \/ pointer[p] \in Unreadable /\ Rival(e)
      <4>1. CASE pointer[p] = M BY <3>2, <4>1 DEF Backed
      <4>2. CASE pointer[p] # M /\ pointer[p] \in Manifests
        <5>1. PICK d \in VersionCalls : PathOf(d) = p /\ vcall[d].manifest = pointer[p]
          BY <1>2, <1>4, <4>2 DEF Tracked
        <5> QED BY <4>2, <5>1 DEF Other
      <4>3. CASE pointer[p] # M /\ pointer[p] \notin Manifests
        BY <1>2, <1>3, <3>2, <4>3 DEF Contents
      <4> QED BY <4>1, <4>2, <4>3
    <3>5. \/ pointer[p] = M /\ M \in remote'
          \/ Other(e, pointer[p])'
          \/ pointer[p] \in Unreadable /\ Rival(e)'
      <4>1. CASE pointer[p] = M /\ M \in remote BY <1>5, <4>1
      <4>2. CASE Other(e, pointer[p])
        <5>1. PICK x : x = pointer[p] OBVIOUS
        <5>2. Other(e, x)' BY <1>1, <3>3, <4>2, <5>1
        <5> QED BY <3>1, <5>1, <5>2
      <4>3. CASE pointer[p] \in Unreadable /\ Rival(e) BY <1>1, <4>3
      <4> QED BY <3>4, <4>1, <4>2, <4>3
    <3> QED BY <1>9, <3>1, <3>3, <3>5 DEF Follows
  <2>6. CASE InsertVersion(c) \/ CommitVersion(c)
    <3>1. /\ vcall[c].pc \in {"row", "commit"} /\ vcall'[c].pc \in {"commit", "done", "failed"}
          /\ vcall'[c].hash = vcall[c].hash /\ vcall'[c].manifest = vcall[c].manifest
      BY <1>3, <2>6 DEF InsertVersion, CommitVersion, CallType
    <3> QED BY <1>1, <1>4, <1>5, <1>9, <3>1 DEF Follows
  <2>7. CASE Begin(c) \/ InsertDataset(c) \/ ListImages(c) \/ VersionFails(c)
    <3>1. \/ \E pc \in {"insert", "refused", "list"} : vcall' = [vcall EXCEPT ![c].pc = pc]
          \/ InsertDataset(c) \/ ListImages(c) \/ VersionFails(c)
      BY <2>7 DEF Begin, GoTo
    <3>2. vcall'[c].pc \in {"insert", "list", "refused", "failed", "write"}
      <4>1. CASE ListImages(c)
        <5>1. \/ vcall'[c] = [vcall[c] EXCEPT !.pc = "refused", !.created = FALSE]
              \/ \E f, h : vcall'[c] = [vcall[c] EXCEPT !.pc = "write", !.manifest = f, !.held = h]
          BY <1>3, <4>1 DEF ListImages
        <5>2. vcall[c] \in CallType BY <1>3
        <5> QED BY <5>1, <5>2 DEF CallType
      <4>2. CASE ~ListImages(c) BY <1>3, <3>1, <4>2 DEF InsertDataset, VersionFails, CallType
      <4> QED BY <4>1, <4>2
    <3> QED BY <1>9, <3>2 DEF Follows
  <2> QED BY <2>1, <2>2, <2>3, <2>4, <2>5, <2>6, <2>7 DEF VersionStep, FreezeOn
<1> QED BY <1>8, <1>9

LEMMA HashInit == Init => HashInv
<1> SUFFICES ASSUME Init PROVE HashInv OBVIOUS
<1>1. Empty # None BY EmptyIsManifest, NoneAssumption
<1>2. \A c \in VersionCalls : vcall[c] = NewCall BY DEF Init, VersionsInit
<1>3. Freezing BY <1>2 DEF Freezing, NewCall, Working
<1>4. Tracked BY <1>1, NoneAssumption DEF Tracked, Init, VersionsInit
<1>5. \A c \in VersionCalls : Follows(c) BY <1>2 DEF Follows, NewCall
<1> QED BY <1>3, <1>4, <1>5 DEF HashInv

LEMMA HashStep == TypeInv /\ HashInv /\ [Next]_vars => HashInv'
<1> SUFFICES ASSUME TypeInv, HashInv, [Next]_vars PROVE HashInv' OBVIOUS
<1>1. VersionsTypeOK /\ dag \in [Runs -> DagType] BY TypeParts DEF TypeInv
<1>2. ASSUME NEW c \in VersionCalls, VersionStep(c) PROVE HashInv'
  BY <1>1, <1>2, ManifestsStay, TrackedStep, FollowsStep DEF HashInv
<1>3. CASE UNCHANGED versionVars
  BY <1>3 DEF versionVars, HashInv, Freezing, Tracked, Follows, Other, Rival, Backed
<1> QED BY <1>1, <1>2, <1>3, Kinds DEF TrainingStep, Quiet

\* The dvc_hash of a committed version stands for its own manifest, which is in the remote,
\* unless another call prepared the same file: then it may be of what that call froze, or of
\* a file that several were writing.
THEOREM HashesHold == Spec => []HashesAreTrue
<1>1. HashInv => HashesAreTrue
  <2> SUFFICES ASSUME HashInv, NEW v \in Versions
               PROVE  \/ vcall[v].hash = vcall[v].manifest /\ vcall[v].manifest \in remote
                      \/ \E d \in VersionCalls \ {v} :
                           /\ PathOf(d) = PathOf(v) /\ vcall[d].manifest # Empty
                           /\ vcall[v].hash \in {vcall[d].manifest} \cup Unreadable
    BY DEF HashesAreTrue
  <2> QED BY DEF HashInv, Follows, Other, Rival, Versions
<1> QED BY <1>1, TypeInit, TypeStep, HashInit, HashStep, PTL DEF Spec

-----------------------------------------------------------------------------
(* What a fit has seen *)

TrainMember(v, i) ==
    v \in Versions /\ i \in Members(vcall[v].manifest) /\ vcall[v].manifest[i].split = "train"

\* Reviewed images are in the test split, and whatever is on its way to a fit is a training
\* member of a committed version.
HeldBack ==
    \A c \in VersionCalls : \A i \in vcall[c].held :
        i \in Members(vcall[c].manifest) /\ vcall[c].manifest[i].split = "test"
Seen ==
    /\ \A t \in TrainCalls : \A i :
         /\ <<"train", i>> \in tcall[t].todo => TrainMember(tcall[t].version, i)
         /\ i \in tcall[t].fitted => TrainMember(tcall[t].version, i)
    /\ \A t \in TrainCalls : tcall[t].pc = "idle" => tcall[t].fitted = {}
    /\ \A v \in VersionCalls : \A i : <<"train", i>> \in dirs[v] => TrainMember(v, i)
HeldInv == HeldBack /\ Seen

LEMMA HeldBackStep ==
    ASSUME VersionsTypeOK, HeldBack, NEW c \in VersionCalls, VersionStep(c)
    PROVE  HeldBack'
<1>1. vcall \in [VersionCalls -> CallType] BY DEF VersionsTypeOK, CallType, Contents
<1>2. CASE ListImages(c)
  <2> DEFINE S == Trainable(Asked[c].category)
             M == [i \in S |-> [split |-> SplitOf(S, i), label |-> image[i].label]]
             H == {i \in S : image[i].reviewed}
  <2>1. CASE S = {}
    <3>1. vcall' = [vcall EXCEPT ![c].pc = "refused", ![c].created = FALSE]
      BY <1>2, <2>1 DEF ListImages
    <3> QED BY <1>1, <3>1 DEF HeldBack, CallType, Members
  <2>2. CASE S # {}
    <3>1. vcall' = [vcall EXCEPT ![c].pc = "write", ![c].manifest = M, ![c].held = H]
      BY <1>2, <2>2 DEF ListImages
    <3>2. \A i \in H : i \in Members(M) /\ M[i].split = "test"
      <4>1. \A i \in H : i \in S /\ SplitOf(S, i) = "test" BY DEF SplitOf
      <4>2. DOMAIN M = S /\ \A i \in S : M[i].split = SplitOf(S, i) OBVIOUS
      <4> HIDE DEF M, H, S
      <4> QED BY <4>1, <4>2 DEF Members
    <3>3. vcall'[c].manifest = M /\ vcall'[c].held = H /\ \A d \in VersionCalls \ {c} : vcall'[d] = vcall[d]
      <4> HIDE DEF M, H
      <4> QED BY <1>1, <3>1 DEF CallType
    <3> HIDE DEF M, H
    <3> QED BY <3>2, <3>3 DEF HeldBack, Members
  <2> QED BY <2>1, <2>2
<1>3. CASE ~ListImages(c)
  <2>1. \A d \in VersionCalls : vcall'[d].manifest = vcall[d].manifest /\ vcall'[d].held = vcall[d].held
    BY <1>1, <1>3
       DEF VersionStep, Begin, FreezeOn, InsertDataset, OpenFile, WriteFile, Track, Push, ReadHash,
           InsertVersion, CommitVersion, VersionFails, GoTo, CallType
  <2> QED BY <2>1 DEF HeldBack, Members
<1> QED BY <1>2, <1>3

LEMMA SeenStep ==
    ASSUME VersionsTypeOK, TrainingTypeOK, Loaded, Seen, NEW t \in TrainCalls, TrainingStep(t)
    PROVE  Seen'
<1>1. tcall \in [TrainCalls -> TrainType] BY DEF TrainingTypeOK, TrainType
<1>2. vcall' = vcall /\ Versions' = Versions BY DEF TrainingStep, versionVars, Versions
<1>3. dirs \in [VersionCalls -> SUBSET (Folders \X Images)] BY DEF TrainingTypeOK
<1>4. ASSUME dirs' = dirs,
             NEW d \in TrainType, tcall' = [tcall EXCEPT ![t] = d], d.pc # "idle",
             \A i : <<"train", i>> \in d.todo => TrainMember(d.version, i),
             \A i \in d.fitted : TrainMember(d.version, i)
      PROVE  Seen'
  <2>1. \A u \in TrainCalls : tcall'[u] = IF u = t THEN d ELSE tcall[u] BY <1>1, <1>4
  <2> QED BY <1>2, <1>4, <2>1 DEF Seen, TrainMember
<1>5. CASE Load(t)
  <2>1. tcall[t].pc = "idle" /\ tcall[t].fitted = {} BY <1>5 DEF Load, Seen
  <2>2. CASE tcall' = [tcall EXCEPT ![t].pc = "refused"]
    <3>1. tcall' = [tcall EXCEPT ![t] = [tcall[t] EXCEPT !.pc = "refused"]] BY <2>2
    <3>2. [tcall[t] EXCEPT !.pc = "refused"] \in TrainType BY <1>1 DEF TrainType
    <3> QED BY <1>1, <1>4, <1>5, <3>1, <3>2 DEF Load, Seen, TrainType
  <2>3. CASE tcall' # [tcall EXCEPT ![t].pc = "refused"]
    <3>1. PICK v \in Versions :
            tcall' = [tcall EXCEPT ![t].pc = "stage", ![t].version = v, ![t].todo = ToStage(v)]
      BY <1>5, <2>3, Found
    <3>2. v \in VersionCalls BY DEF Versions
    <3> DEFINE d == [tcall[t] EXCEPT !.pc = "stage", !.version = v, !.todo = ToStage(v)]
    <3>3. ToStage(v) \in SUBSET (Folders \X Images)
          /\ \A i : <<"train", i>> \in ToStage(v) => TrainMember(v, i)
      BY <3>2, StagedAreMembers DEF TrainMember
    <3>4. d \in TrainType BY <1>1, <3>2, <3>3 DEF TrainType, TrainingNow
    <3>5. d.pc = "stage" /\ d.version = v /\ d.todo = ToStage(v) /\ d.fitted = {}
      BY <1>1, <2>1 DEF TrainType
    <3>6. tcall' = [tcall EXCEPT ![t] = d] BY <3>1
    <3> HIDE DEF d
    <3> QED BY <1>4, <1>5, <3>3, <3>4, <3>5, <3>6 DEF Load
  <2> QED BY <2>2, <2>3
<1>6. CASE Stage(t)
  <2> DEFINE next == CHOOSE f \in tcall[t].todo : TRUE
             v == tcall[t].version
  <2>1. next \in tcall[t].todo BY <1>6 DEF Stage
  <2>2. v \in VersionCalls BY <1>6 DEF Stage, Loaded, TrainingNow, Versions
  <2>3. \A w \in VersionCalls : dirs'[w] = IF w = v THEN dirs[w] \cup {next} ELSE dirs[w]
    BY <1>3, <1>6 DEF Stage
  <2>4. \A u \in TrainCalls : /\ tcall'[u].todo \subseteq tcall[u].todo
                              /\ tcall'[u].fitted = tcall[u].fitted
                              /\ tcall'[u].version = tcall[u].version /\ tcall'[u].pc = tcall[u].pc
    BY <1>1, <1>6 DEF Stage, TrainType
  <2> HIDE DEF next
  <2>5. \A w, i : TrainMember(w, i)' <=> TrainMember(w, i) BY <1>2 DEF TrainMember
  <2>6. ASSUME NEW w \in VersionCalls, NEW i, <<"train", i>> \in dirs'[w] PROVE TrainMember(w, i)
    <3>1. CASE <<"train", i>> \in dirs[w] BY <3>1 DEF Seen
    <3>2. CASE <<"train", i>> \notin dirs[w]
      <4>1. w = v /\ <<"train", i>> \in tcall[t].todo BY <2>1, <2>3, <2>6, <3>2
      <4> QED BY <4>1 DEF Seen
    <3> QED BY <3>1, <3>2
  <2>7. ASSUME NEW u \in TrainCalls, NEW i
        PROVE  /\ <<"train", i>> \in tcall'[u].todo => TrainMember(tcall'[u].version, i)
               /\ i \in tcall'[u].fitted => TrainMember(tcall'[u].version, i)
               /\ tcall'[u].pc = "idle" => tcall'[u].fitted = {}
    BY <2>4 DEF Seen
  <2> QED BY <2>5, <2>6, <2>7 DEF Seen
<1>7. CASE StartFit(t)
  <2> DEFINE found == {i \in Images : <<"train", i>> \in dirs[tcall[t].version]}
             d == [tcall[t] EXCEPT !.pc = "fitting", !.fitted = found]
  <2>1. tcall' = [tcall EXCEPT ![t] = d] BY <1>7 DEF StartFit
  <2>2. tcall[t].version \in VersionCalls
    BY <1>7 DEF StartFit, Loaded, TrainingNow, Launched, Versions
  <2>3. \A i \in found : TrainMember(tcall[t].version, i) BY <2>2 DEF Seen
  <2>4. found \in SUBSET Images OBVIOUS
  <2> HIDE DEF found
  <2>5. d \in TrainType BY <1>1, <2>4 DEF TrainType, TrainingNow, Launched
  <2>6. d.pc = "fitting" /\ d.version = tcall[t].version /\ d.todo = tcall[t].todo /\ d.fitted = found
    BY <1>1 DEF TrainType
  <2>7. \A i : <<"train", i>> \in d.todo => TrainMember(d.version, i) BY <2>6 DEF Seen
  <2> HIDE DEF d
  <2> QED BY <1>4, <1>7, <2>1, <2>3, <2>5, <2>6, <2>7 DEF StartFit
<1>8. CASE ~(Load(t) \/ Stage(t) \/ StartFit(t))
  <2>1. /\ dirs' = dirs
        /\ \A u \in TrainCalls : /\ tcall'[u].todo = tcall[u].todo
                                 /\ tcall'[u].fitted = tcall[u].fitted
                                 /\ tcall'[u].version = tcall[u].version
                                 /\ tcall'[u].pc = "idle" => tcall[u].pc = "idle"
    BY <1>1, <1>8
       DEF TrainType, TrainingStep, TrainOn, Launch, EndFit, RaiseInFit, RecordFailure, Log,
           Register, Persist, TrainingFails, Step
  <2> QED BY <1>2, <2>1 DEF Seen, TrainMember
<1> QED BY <1>5, <1>6, <1>7, <1>8

LEMMA HeldInit == Init => HeldInv
BY DEF Init, VersionsInit, TrainingInit, NewCall, NewTraining, HeldInv, HeldBack, Seen

LEMMA HeldStep == TypeInv /\ HeldInv /\ [Next]_vars => HeldInv'
<1> SUFFICES ASSUME TypeInv, HeldInv, [Next]_vars PROVE HeldInv' OBVIOUS
<1>1. VersionsTypeOK /\ TrainingTypeOK /\ dag \in [Runs -> DagType] /\ Loaded
  BY TypeParts DEF TypeInv
<1>2. ASSUME NEW c \in VersionCalls, VersionStep(c) PROVE HeldInv'
  <2>1. HeldBack' BY <1>1, <1>2, HeldBackStep DEF HeldInv
  <2>2. \A v, i : TrainMember(v, i) => TrainMember(v, i)'
    BY <1>1, <1>2, VersionsStay DEF TrainMember, Members
  <2>3. UNCHANGED trainVars BY <1>2 DEF VersionStep
  <2> QED BY <2>1, <2>2, <2>3 DEF HeldInv, Seen, trainVars
<1>3. ASSUME NEW t \in TrainCalls, TrainingStep(t) PROVE HeldInv'
  <2>1. Seen' BY <1>1, <1>3, SeenStep DEF HeldInv
  <2> QED BY <1>3, <2>1 DEF HeldInv, HeldBack, TrainingStep, versionVars, Members
<1>4. CASE Quiet
  BY <1>4 DEF Quiet, versionVars, trainVars, HeldInv, HeldBack, Seen, TrainMember, Members, Versions
<1> QED BY <1>1, <1>2, <1>3, <1>4, Kinds

\* No fit has seen an image that its version holds out, however many trainings share the
\* staging directory and whatever is reviewed or relabelled meanwhile.
THEOREM HeldOutIsNeverTrainedOn == Spec => []HeldOutStaysOut
<1>1. TypeInv /\ HeldInv => HeldOutStaysOut
  <2> SUFFICES ASSUME TypeInv, HeldInv, NEW t \in TrainCalls, NEW i \in tcall[t].fitted
               PROVE  LET v == tcall[t].version IN
                      /\ i \in Members(vcall[v].manifest) /\ vcall[v].manifest[i].split = "train"
                      /\ i \notin vcall[v].held
    BY DEF HeldOutStaysOut
  <2>1. TrainMember(tcall[t].version, i) BY DEF HeldInv, Seen
  <2>2. tcall[t].version \in VersionCalls BY <2>1 DEF TrainMember, Versions
  <2> QED BY <2>1, <2>2 DEF TrainMember, HeldInv, HeldBack
<1> QED BY <1>1, TypeInit, TypeStep, HeldInit, HeldStep, PTL DEF Spec

-----------------------------------------------------------------------------
(* The lineage of models *)

\* The weights of u were fitted on the version of t, by t or by another autoencoder.
FittedFor(u, t) ==
    /\ u \in TrainCalls /\ tcall[u].pc # "idle" /\ tcall[u].version = tcall[t].version
    /\ u = t \/ \A w \in {t, u} : Wanted[w].family = "autoencoder"

\* The checkpoint in a version's directory is of an autoencoder that was fitted there.
Checkpoints == \A v \in VersionCalls : checkpoint[v] # None =>
    /\ checkpoint[v] \in TrainCalls /\ tcall[checkpoint[v]].pc # "idle"
    /\ tcall[checkpoint[v]].version = v /\ Wanted[checkpoint[v]].family = "autoencoder"

\* What the stores hold of a training at each of its steps.
Recorded(t) ==
    LET pc == tcall[t].pc IN
    /\ pc \in {"idle", "stage", "refused"} => mlrun[t] = "none"
    /\ pc \in {"fit", "fitting", "log"} => mlrun[t] = "running"
    /\ pc = "record" => mlrun[t] = "FAILED"
    /\ pc \in {"register", "persist", "done"} => mlrun[t] = "FINISHED" /\ FittedFor(artifact[t], t)
    /\ pc = "log" /\ Wanted[t].family = "autoencoder" => checkpoint[tcall[t].version] # None
    /\ pc \in {"persist", "done"} => t \in registered
    /\ t \in registered => pc \in {"persist", "done", "failed"} /\ mlrun[t] = "FINISHED"
    /\ experiment[t] = "completed" <=> pc = "done"
    /\ experiment[t] = "failed" => pc = "failed" /\ mlrun[t] = "FAILED"

LineageInv == Checkpoints /\ \A t \in TrainCalls : Recorded(t)

\* A training leaves the others alone, and a version once loaded stays.
LEMMA TrainingFrame ==
    ASSUME VersionsTypeOK, TrainingTypeOK, NEW t \in TrainCalls, TrainingStep(t)
    PROVE  /\ \A u \in TrainCalls \ {t} :
                /\ tcall'[u] = tcall[u] /\ mlrun'[u] = mlrun[u] /\ artifact'[u] = artifact[u]
                /\ experiment'[u] = experiment[u] /\ (u \in registered' <=> u \in registered)
           /\ \A u \in TrainCalls : tcall[u].pc # "idle" =>
                tcall'[u].pc # "idle" /\ tcall'[u].version = tcall[u].version
           /\ \A v \in VersionCalls : checkpoint[v] # None => checkpoint'[v] # None
<1>1. tcall \in [TrainCalls -> TrainType] BY DEF TrainingTypeOK, TrainType
<1>2. CASE Load(t)
  <2>1. tcall[t].pc = "idle" /\ \A u \in TrainCalls \ {t} : tcall'[u] = tcall[u]
    BY <1>1, <1>2 DEF Load
  <2> QED BY <1>2, <2>1 DEF Load, mlflow
<1>3. CASE ~Load(t)
  <2>1. /\ \A u \in TrainCalls \ {t} :
             /\ tcall'[u] = tcall[u] /\ mlrun'[u] = mlrun[u] /\ artifact'[u] = artifact[u]
             /\ experiment'[u] = experiment[u] /\ (u \in registered' <=> u \in registered)
        /\ \A v \in VersionCalls : checkpoint[v] # None => checkpoint'[v] # None
    BY <1>1, <1>3, CallsAssumption
       DEF TrainingTypeOK, TrainingStep, TrainOn, Stage, Launch, StartFit, EndFit, RaiseInFit,
           RecordFailure, Log, Register, Persist, TrainingFails, Step, mlflow
  <2>2. tcall'[t].pc # "idle" /\ tcall'[t].version = tcall[t].version
    BY <1>1, <1>3
       DEF TrainType, TrainingStep, TrainOn, Stage, Launch, StartFit, EndFit, RaiseInFit,
           RecordFailure, Log, Register, Persist, TrainingFails, Step, TrainingNow
  <2> QED BY <2>1, <2>2
<1> QED BY <1>2, <1>3

LEMMA LineageStepOf ==
    ASSUME VersionsTypeOK, TrainingTypeOK, Loaded, LineageInv, NEW t \in TrainCalls, TrainingStep(t)
    PROVE  LineageInv'
<1>1. tcall \in [TrainCalls -> TrainType] BY DEF TrainingTypeOK, TrainType
<1>2. /\ \A u \in TrainCalls \ {t} :
           /\ tcall'[u] = tcall[u] /\ mlrun'[u] = mlrun[u] /\ artifact'[u] = artifact[u]
           /\ experiment'[u] = experiment[u] /\ (u \in registered' <=> u \in registered)
      /\ \A u \in TrainCalls : tcall[u].pc # "idle" =>
           tcall'[u].pc # "idle" /\ tcall'[u].version = tcall[u].version
      /\ \A v \in VersionCalls : checkpoint[v] # None => checkpoint'[v] # None
  BY TrainingFrame
<1>3. tcall[t].pc \in TrainingNow => tcall[t].version \in VersionCalls BY DEF Loaded, Versions
<1>4. Checkpoints'
  <2>1. CASE checkpoint' = checkpoint BY <1>2, <2>1 DEF LineageInv, Checkpoints
  <2>2. CASE EndFit(t) /\ Wanted[t].family = "autoencoder"
    <3>1. tcall[t].pc = "fitting" BY <2>2 DEF EndFit
    <3>2. tcall'[t].pc # "idle" /\ tcall'[t].version = tcall[t].version BY <1>2, <3>1
    <3>3. \A v \in VersionCalls : checkpoint'[v] = IF v = tcall[t].version THEN t ELSE checkpoint[v]
      BY <2>2 DEF EndFit, TrainingTypeOK
    <3> QED BY <1>2, <2>2, <3>2, <3>3 DEF LineageInv, Checkpoints
  <2> QED
    BY <2>1, <2>2 DEF TrainingStep, TrainOn, Load, Stage, Launch, StartFit, EndFit, RaiseInFit,
                      RecordFailure, Log, Register, Persist, TrainingFails
<1>5. ASSUME NEW u \in TrainCalls \ {t} PROVE Recorded(u)'
  <2>1. Recorded(u) BY DEF LineageInv
  <2>2. FittedFor(artifact[u], u) /\ tcall[u].pc # "idle" => FittedFor(artifact[u], u)'
    BY <1>2 DEF FittedFor
  <2>3. checkpoint[tcall[u].version] # None /\ tcall[u].pc = "log"
          => checkpoint'[tcall'[u].version] # None
    <3>1. tcall[u].pc = "log" => tcall[u].version \in VersionCalls
      BY DEF Loaded, Versions, TrainingNow, Closing
    <3> QED BY <1>2, <3>1
  <2> QED BY <1>2, <2>1, <2>2, <2>3 DEF Recorded
<1>6. Recorded(t) BY DEF LineageInv
<1>7. mlrun \in [TrainCalls -> {"none", "running", "FAILED", "FINISHED"}]
      /\ artifact \in [TrainCalls -> TrainCalls \cup {None}]
      /\ experiment \in [TrainCalls -> {"none", "completed", "failed"}]
      /\ checkpoint \in [VersionCalls -> TrainCalls \cup {None}]
  BY DEF TrainingTypeOK
<1>8. Recorded(t)'
  <2>1. CASE Load(t)
    <3>1. tcall'[t].pc \in {"stage", "refused"} BY <1>1, <2>1 DEF Load, TrainType
    <3> QED BY <1>6, <2>1, <3>1 DEF Load, Recorded, mlflow
  <2>2. CASE Stage(t)
    <3>1. tcall'[t].pc = "stage" /\ tcall[t].pc = "stage" BY <1>1, <2>2 DEF Stage, TrainType
    <3> QED BY <1>6, <2>2, <3>1 DEF Stage, Recorded, mlflow
  <2>3. CASE Launch(t)
    <3>1. tcall'[t].pc = "fit" /\ tcall[t].pc = "stage" /\ mlrun'[t] = "running"
      BY <1>1, <1>7, <2>3 DEF Launch, Step, TrainType
    <3> QED BY <1>6, <2>3, <3>1 DEF Launch, Recorded
  <2>4. CASE StartFit(t)
    <3>1. tcall'[t].pc = "fitting" /\ tcall[t].pc = "fit" BY <1>1, <2>4 DEF StartFit, TrainType
    <3> QED BY <1>6, <2>4, <3>1 DEF StartFit, Recorded, mlflow
  <2>5. CASE EndFit(t)
    <3>1. tcall'[t].pc = "log" /\ tcall[t].pc = "fitting" BY <1>1, <2>5 DEF EndFit, TrainType
    <3>2. tcall[t].version \in VersionCalls /\ tcall'[t].version = tcall[t].version
      BY <1>2, <1>3, <3>1 DEF TrainingNow, Launched
    <3>3. Wanted[t].family = "autoencoder" => checkpoint'[tcall'[t].version] # None
      BY <1>7, <2>5, <3>2, CallsAssumption DEF EndFit
    <3> QED BY <1>6, <2>5, <3>1, <3>3 DEF EndFit, Recorded, mlflow
  <2>6. CASE RaiseInFit(t)
    <3>1. tcall'[t].pc = "record" /\ tcall[t].pc \in {"fit", "fitting"} /\ mlrun'[t] = "FAILED"
      BY <1>1, <1>7, <2>6 DEF RaiseInFit, Step, TrainType
    <3> QED BY <1>6, <2>6, <3>1 DEF RaiseInFit, Recorded
  <2>7. CASE RecordFailure(t)
    <3>1. tcall'[t].pc = "failed" /\ tcall[t].pc = "record" /\ experiment'[t] = "failed"
      BY <1>1, <1>7, <2>7 DEF RecordFailure, Step, TrainType
    <3> QED BY <1>6, <2>7, <3>1 DEF RecordFailure, Recorded, mlflow
  <2>8. CASE Log(t)
    <3>1. /\ tcall'[t].pc = "register" /\ tcall[t].pc = "log" /\ mlrun'[t] = "FINISHED"
          /\ tcall'[t].version = tcall[t].version
          /\ artifact'[t] = IF Wanted[t].family = "autoencoder"
                            THEN checkpoint[tcall[t].version] ELSE t
      BY <1>1, <1>7, <2>8 DEF Log, Step, TrainType
    <3>2. tcall[t].version \in VersionCalls BY <1>3, <3>1 DEF TrainingNow, Closing
    <3>3. FittedFor(artifact[t], t)'
      <4>1. CASE Wanted[t].family = "autoencoder"
        <5>1. checkpoint[tcall[t].version] # None BY <1>6, <3>1, <4>1 DEF Recorded
        <5>2. /\ artifact'[t] \in TrainCalls /\ tcall[artifact'[t]].pc # "idle"
              /\ tcall[artifact'[t]].version = tcall[t].version
              /\ Wanted[artifact'[t]].family = "autoencoder"
          BY <3>1, <3>2, <4>1, <5>1 DEF LineageInv, Checkpoints
        <5>3. tcall'[artifact'[t]].pc # "idle" /\ tcall'[artifact'[t]].version = tcall'[t].version
          BY <1>2, <3>1, <5>2
        <5> QED BY <4>1, <5>2, <5>3 DEF FittedFor
      <4>2. CASE Wanted[t].family # "autoencoder" BY <3>1, <4>2 DEF FittedFor
      <4> QED BY <4>1, <4>2
    <3> QED BY <1>6, <2>8, <3>1, <3>3 DEF Log, Recorded
  <2>9. CASE Register(t)
    <3>1. tcall'[t].pc = "persist" /\ tcall[t].pc = "register" /\ t \in registered'
      BY <1>1, <2>9 DEF Register, Step, TrainType
    <3>2. FittedFor(artifact[t], t) => FittedFor(artifact[t], t)'
      BY <1>2, <2>9, <3>1 DEF Register, FittedFor
    <3> QED BY <1>6, <2>9, <3>1, <3>2 DEF Register, Recorded
  <2>10. CASE Persist(t)
    <3>1. tcall'[t].pc = "done" /\ tcall[t].pc = "persist" /\ experiment'[t] = "completed"
      BY <1>1, <1>7, <2>10 DEF Persist, Step, TrainType
    <3>2. FittedFor(artifact[t], t) => FittedFor(artifact[t], t)'
      BY <1>2, <2>10, <3>1 DEF Persist, FittedFor, mlflow
    <3> QED BY <1>6, <2>10, <3>1, <3>2 DEF Persist, Recorded, mlflow
  <2>11. CASE TrainingFails(t)
    <3>1. tcall'[t].pc = "failed" /\ tcall[t].pc \in TrainingNow
      BY <1>1, <2>11 DEF TrainingFails, Step, TrainType
    <3> QED
      BY <1>6, <2>11, <3>1 DEF TrainingFails, Recorded, mlflow, TrainingNow, Launched, Closing
  <2> QED
    BY <2>1, <2>2, <2>3, <2>4, <2>5, <2>6, <2>7, <2>8, <2>9, <2>10, <2>11 DEF TrainingStep, TrainOn
<1> QED BY <1>4, <1>5, <1>8 DEF LineageInv

LEMMA LineageInit == Init => LineageInv
BY DEF Init, TrainingInit, NewTraining, LineageInv, Checkpoints, Recorded

LEMMA LineageStep == TypeInv /\ LineageInv /\ [Next]_vars => LineageInv'
<1> SUFFICES ASSUME TypeInv, LineageInv, [Next]_vars PROVE LineageInv' OBVIOUS
<1>1. VersionsTypeOK /\ TrainingTypeOK /\ dag \in [Runs -> DagType] /\ Loaded
  BY TypeParts DEF TypeInv
<1>2. CASE UNCHANGED trainVars
  BY <1>2 DEF trainVars, LineageInv, Checkpoints, Recorded, FittedFor
<1>3. ASSUME NEW t \in TrainCalls, TrainingStep(t) PROVE LineageInv'
  BY <1>1, <1>3, LineageStepOf
<1> QED BY <1>1, <1>2, <1>3, Kinds DEF VersionStep, Quiet

\* A model's version is committed, its run finished, its artifact registered and fitted on that
\* version; failed and half-finished trainings leave the traces LineageIsTrue names, no others.
THEOREM LineageHolds == Spec => []LineageIsTrue
<1>1. TypeInv /\ LineageInv => LineageIsTrue
  <2> SUFFICES ASSUME TypeInv, LineageInv PROVE LineageIsTrue OBVIOUS
  <2>1. TrainingTypeOK /\ Loaded BY TypeParts DEF TypeInv
  <2>2. ASSUME NEW t \in Models
        PROVE  /\ tcall[t].version \in Versions
               /\ mlrun[t] = "FINISHED" /\ t \in registered
               /\ artifact[t] # None /\ tcall[artifact[t]].version = tcall[t].version
               /\ artifact[t] = t \/ \A u \in {t, artifact[t]} : Wanted[u].family = "autoencoder"
    <3>1. t \in TrainCalls /\ tcall[t].pc = "done" BY DEF Models, LineageInv, Recorded
    <3>2. tcall[t].version \in Versions BY <2>1, <3>1 DEF Loaded
    <3>3. mlrun[t] = "FINISHED" /\ FittedFor(artifact[t], t) /\ t \in registered
      BY <3>1 DEF LineageInv, Recorded
    <3> QED BY <3>2, <3>3, CallsAssumption DEF FittedFor
  <2>3. ASSUME NEW t \in TrainCalls
        PROVE  /\ experiment[t] = "failed" => mlrun[t] = "FAILED" /\ t \notin registered
               /\ mlrun[t] = "FAILED" => tcall[t].pc \in {"record", "failed"}
               /\ t \in registered /\ t \notin Models => tcall[t].pc \in {"persist", "failed"}
               /\ mlrun[t] = "running" => tcall[t].pc \in {"fit", "fitting", "log", "failed"}
    <3>1. Recorded(t) BY DEF LineageInv
    <3>2. tcall[t].pc \in TrainingNow \cup {"idle", "done", "refused", "failed"}
      BY <2>1 DEF TrainingTypeOK
    <3> QED BY <3>1, <3>2 DEF Recorded, Models, TrainingNow, Launched, Closing
  <2> QED BY <2>2, <2>3 DEF LineageIsTrue
<1> QED BY <1>1, TypeInit, TypeStep, LineageInit, LineageStep, PTL DEF Spec

-----------------------------------------------------------------------------
(* What runs report *)

\* A training has the version it asked for, and from the fit on its results.
TrainedFor == \A t \in TrainCalls :
    /\ tcall[t].pc \in TrainingNow \cup {"done"} =>
         Key(tcall[t].version) = <<Wanted[t].name, Wanted[t].tag>>
    /\ tcall[t].pc \in Closing \cup {"done"} => tcall[t].metrics \in Metrics

\* Run r has a row of its own for model m.
Has(rows, action, m, r) == \E d \in rows : d.action = action /\ d.model = m /\ d.by = r

\* Run r with record d and the history of deployments: its model is of one of its own tries,
\* and what it promotes is such a model.
Reports(r, d, rows) ==
    /\ d.task \in {"evaluate", "deploy", "success", "skipped"} =>
         d.model \in Models /\ \E n \in Tries : d.model = <<r, n>>
    /\ d.task \in {"deploy", "success"} => MeetsMinimumBar(d.model)
    /\ d.task = "deploy" /\ d.deployed = "promoted" => Has(rows, "promote", d.model, r)
    /\ d.task = "deploy" /\ d.deployed = "rejected" => Has(rows, "reject", d.model, r)
    /\ d.task = "success" => Has(rows, "promote", d.model, r)
    /\ d.task = "skipped" => ~MeetsMinimumBar(d.model) \/ Has(rows, "reject", d.model, r)
    /\ d.task = "failed" => d.try = MaxTries
    /\ \A n \in Tries : Has(rows, "promote", <<r, n>>, r) =>
         /\ d.model = <<r, n>> /\ d.task \in {"deploy", "success", "skipped", "failed"}
         /\ d.task = "deploy" /\ d.try = 1 => d.deployed = "promoted"
         /\ d.task = "skipped" => d.try > 1

\* A model is put in over itself only by name, or by a gate that asks for no improvement, and
\* nothing else leaves no model in production.
OverItself ==
    /\ \A d \in deployments : d.action = "promote" /\ d.prev = d.model => Margin = 0
    /\ production = None => \E d \in deployments : d.action # "reject" /\ d.prev = d.model

OutcomeInv ==
    /\ TrainedFor /\ OverItself
    /\ \A r \in Runs : Reports(r, dag[r], deployments)

LEMMA TrainedForStep ==
    ASSUME TypeInv, TrainedFor, [Next]_vars
    PROVE  TrainedFor'
<1>1. VersionsTypeOK /\ TrainingTypeOK /\ dag \in [Runs -> DagType] BY TypeParts DEF TypeInv
<1>2. tcall \in [TrainCalls -> TrainType] BY <1>1 DEF TrainingTypeOK, TrainType
<1>3. CASE UNCHANGED trainVars BY <1>3 DEF trainVars, TrainedFor
<1>4. ASSUME NEW t \in TrainCalls, TrainingStep(t) PROVE TrainedFor'
  <2>1. \A u \in TrainCalls \ {t} : tcall'[u] = tcall[u] BY <1>1, <1>4, TrainingFrame
  <2>2. CASE Load(t)
    <3>1. CASE tcall' = [tcall EXCEPT ![t].pc = "refused"]
      <4>1. tcall'[t].pc = "refused" BY <1>2, <3>1 DEF TrainType
      <4> QED BY <2>1, <4>1 DEF TrainedFor, TrainingNow, Launched, Closing
    <3>2. CASE tcall' # [tcall EXCEPT ![t].pc = "refused"]
      <4>1. PICK v \in Versions :
              /\ Key(v) = <<Wanted[t].name, Wanted[t].tag>>
              /\ tcall' = [tcall EXCEPT ![t].pc = "stage", ![t].version = v, ![t].todo = ToStage(v)]
        BY <1>1, <2>2, <3>2, Found
      <4>2. tcall'[t].pc = "stage" /\ tcall'[t].version = v BY <1>2, <4>1 DEF TrainType
      <4> QED BY <2>1, <4>1, <4>2 DEF TrainedFor, Closing
    <3> QED BY <3>1, <3>2
  <2>3. CASE EndFit(t)
    <3>1. PICK m \in Metrics : tcall' = [tcall EXCEPT ![t].pc = "log", ![t].metrics = m]
      BY <2>3 DEF EndFit
    <3>2. tcall'[t].metrics = m /\ tcall'[t].version = tcall[t].version BY <1>2, <3>1 DEF TrainType
    <3>3. tcall[t].pc \in TrainingNow BY <2>3 DEF EndFit, TrainingNow, Launched
    <3> QED BY <2>1, <3>2, <3>3 DEF TrainedFor
  <2>4. CASE ~Load(t) /\ ~EndFit(t)
    <3>1. /\ tcall'[t].metrics = tcall[t].metrics /\ tcall'[t].version = tcall[t].version
          /\ tcall[t].pc \in TrainingNow
          /\ tcall'[t].pc \in Closing \cup {"done"} => tcall[t].pc \in Closing
      BY <1>2, <1>4, <2>4
         DEF TrainType, TrainingStep, TrainOn, Stage, Launch, StartFit, RaiseInFit,
             RecordFailure, Log, Register, Persist, TrainingFails, Step, TrainingNow, Launched,
             Closing
    <3> QED BY <2>1, <3>1 DEF TrainedFor
  <2> QED BY <2>2, <2>3, <2>4
<1> QED BY <1>1, <1>3, <1>4, Kinds DEF VersionStep, Quiet

\* A model stays what it is.
LEMMA ModelsStay ==
    ASSUME TypeInv, LineageInv, [Next]_vars
    PROVE  \A m \in Models :
             m \in Models' /\ tcall'[m] = tcall[m] /\ (MeetsMinimumBar(m)' <=> MeetsMinimumBar(m))
<1>1. VersionsTypeOK /\ TrainingTypeOK /\ dag \in [Runs -> DagType] BY TypeParts DEF TypeInv
<1>2. \A m \in Models : m \in TrainCalls /\ tcall[m].pc = "done" BY DEF Models, LineageInv, Recorded
<1>3. CASE UNCHANGED trainVars BY <1>3 DEF trainVars, Models, MeetsMinimumBar, MetricsOf
<1>4. ASSUME NEW t \in TrainCalls, TrainingStep(t)
      PROVE  \A m \in Models : m \in Models' /\ tcall'[m] = tcall[m]
  <2>1. tcall[t].pc # "done"
    BY <1>4 DEF TrainingStep, TrainOn, Load, Stage, Launch, StartFit, EndFit, RaiseInFit,
                RecordFailure, Log, Register, Persist, TrainingFails, TrainingNow, Launched, Closing
  <2> QED BY <1>1, <1>2, <1>4, <2>1, TrainingFrame DEF Models
<1>5. \A m \in Models : m \in Models' /\ tcall'[m] = tcall[m]
  BY <1>1, <1>3, <1>4, Kinds DEF VersionStep, Quiet, trainVars, Models
<1> QED BY <1>5 DEF MeetsMinimumBar, MetricsOf

\* A gate that a model passes over itself asks for no improvement.
LEMMA GateOverItself ==
    ASSUME TypeInv, LineageInv, TrainedFor, NEW m \in Models \cup {Incumbent}, PassesGate(m, m)
    PROVE  Margin = 0
<1>1. MetricsOf(m) \in Metrics \cup {IncumbentMetrics}
  <2>1. CASE m = Incumbent BY <2>1 DEF MetricsOf
  <2>2. CASE m # Incumbent
    <3>1. m \in TrainCalls /\ tcall[m].pc = "done" BY <2>2 DEF Models, LineageInv, Recorded
    <3> QED BY <2>2, <3>1 DEF TrainedFor, MetricsOf
  <2> QED BY <2>1, <2>2
<1>2. m # None BY CallsAssumption, IncumbentAssumption DEF Models
<1>3. PICK a : a = MetricsOf(m).auroc OBVIOUS
<1>4. a \in Nat /\ Margin \in Nat BY <1>1, <1>3, GateAssumption
<1>5. a >= a + Margin BY <1>2, <1>3 DEF PassesGate
<1> QED BY <1>4, <1>5

\* The history of a step that promotes nothing for a run serves that run.
LEMMA ReportsCarry ==
    ASSUME NEW r \in Runs, NEW d, NEW rows, NEW more, rows \subseteq more, Reports(r, d, rows),
           \A e \in more : e \in rows \/ e.by # r
    PROVE  Reports(r, d, more)
<1>1. \A a, m : Has(rows, a, m, r) <=> Has(more, a, m, r) BY DEF Has
<1> QED BY <1>1 DEF Reports

\* What a step makes of every run's record, in terms of the state before.
LEMMA ReportsStep ==
    ASSUME TypeInv, LineageInv, OutcomeInv, [Next]_vars
    PROVE  \A s \in Runs : Reports(s, dag'[s], deployments')
<1>1. dag \in [Runs -> DagType] /\ Handed BY TypeParts DEF TypeInv
<1>2. \A s \in Runs : Reports(s, dag[s], deployments) BY DEF OutcomeInv
<1>3. CASE UNCHANGED <<dag, deployments>> BY <1>2, <1>3
<1>4. ASSUME NEW r \in Runs, NEW d \in DagType, dag' = [dag EXCEPT ![r] = d],
             deployments' = deployments, Reports(r, d, deployments)
      PROVE  \A s \in Runs : Reports(s, dag'[s], deployments')
  <2>1. \A s \in Runs : dag'[s] = IF s = r THEN d ELSE dag[s] BY <1>1, <1>4
  <2> QED BY <1>2, <1>4, <2>1
<1>5. ASSUME NEW r \in Runs, Trigger(r) \/ TriggerOnDrift(r)
      PROVE  \A s \in Runs : Reports(s, dag'[s], deployments')
  <2> DEFINE d == [dag[r] EXCEPT !.task = "version"]
  <2>1. dag' = [dag EXCEPT ![r] = d] /\ dag[r].task = "waiting" /\ deployments' = deployments
    BY <1>5 DEF Trigger, TriggerOnDrift, slotVars
  <2>2. d \in DagType /\ d.task = "version" BY <1>1 DEF DagType, Active
  <2>3. Reports(r, d, deployments) BY <1>2, <2>1, <2>2 DEF Reports
  <2> QED BY <1>4, <2>1, <2>2, <2>3
<1>6. ASSUME NEW r \in Runs, NEW task \in Active \cup Ended, NEW m \in TrainCalls \cup {None},
             NextTask(r, task, m), deployments' = deployments,
             dag[r].task \in Active \ {"deploy"},
             task \in {"train", "evaluate", "deploy", "skipped"},
             task # "train" => m \in Models /\ \E n \in Tries : m = <<r, n>>,
             task = "deploy" => MeetsMinimumBar(m), task = "skipped" => ~MeetsMinimumBar(m)
      PROVE  \A s \in Runs : Reports(s, dag'[s], deployments')
  <2> DEFINE d == [task |-> task, try |-> 1, deployed |-> "no", model |-> m]
  <2>1. 1 \in Tries BY TriesAssumption DEF Tries
  <2>2. d \in DagType BY <2>1 DEF DagType
  <2>3. dag' = [dag EXCEPT ![r] = d] BY <1>6 DEF NextTask
  <2>4. \A n \in Tries : ~Has(deployments, "promote", <<r, n>>, r)
    BY <1>2, <1>6 DEF Reports, Active
  <2>5. d.task = task /\ d.model = m /\ d.deployed = "no" OBVIOUS
  <2> HIDE DEF d
  <2>6. Reports(r, d, deployments) BY <1>6, <2>4, <2>5 DEF Reports
  <2> QED BY <1>4, <1>6, <2>2, <2>3, <2>6
<1>7. ASSUME NEW r \in Runs, Versioned(r) \/ Trained(r) \/ Evaluate(r)
      PROVE  \A s \in Runs : Reports(s, dag'[s], deployments')
  <2>1. deployments' = deployments BY <1>7 DEF Versioned, Trained, Evaluate, slotVars
  <2>2. CASE Versioned(r) BY <1>6, <2>1, <2>2 DEF Versioned, Active
  <2>3. CASE Trained(r)
    <3>1. Current(r) \in TrainCalls BY <1>1, TriesAreCalls
    <3>2. Current(r) \in Models BY <2>3, <3>1 DEF Trained, Models, LineageInv, Recorded
    <3>3. \E n \in Tries : Current(r) = <<r, n>> BY <1>1 DEF Current, DagType
    <3> QED BY <1>6, <2>1, <2>3, <3>1, <3>2, <3>3 DEF Trained, Active
  <2>4. CASE Evaluate(r)
    <3>1. /\ dag[r].task = "evaluate" /\ dag[r].model \in TrainCalls
          /\ NextTask(r, IF MeetsMinimumBar(dag[r].model) THEN "deploy" ELSE "skipped", dag[r].model)
      BY <2>4 DEF Evaluate, TypeInv, Handed
    <3>2. dag[r].model \in Models /\ \E n \in Tries : dag[r].model = <<r, n>>
      BY <1>2, <3>1 DEF Reports
    <3>3. CASE MeetsMinimumBar(dag[r].model)
      BY <1>6, <2>1, <3>1, <3>2, <3>3 DEF Active
    <3>4. CASE ~MeetsMinimumBar(dag[r].model)
      BY <1>6, <2>1, <3>1, <3>2, <3>4 DEF Active, Ended
    <3> QED BY <3>3, <3>4
  <2> QED BY <1>7, <2>2, <2>3, <2>4
<1>8. ASSUME NEW r \in Runs, Deploy(r)
      PROVE  \A s \in Runs : Reports(s, dag'[s], deployments')
  <2> DEFINE m == dag[r].model
  <2>1. dag[r].task = "deploy" /\ dag[r].deployed = "no" BY <1>8 DEF Deploy
  <2>2. PICK k \in Tries : m = <<r, k>> BY <1>2, <2>1 DEF Reports
  <2>3. PICK a \in {"promote", "reject"}, o \in {"promoted", "rejected"} :
          /\ a = "promote" <=> o = "promoted"
          /\ dag' = [dag EXCEPT ![r].deployed = o]
          /\ deployments' = deployments \cup
                {[action |-> a, model |-> m, prev |-> production, by |-> r]}
    BY <1>8 DEF Deploy, Promote
  <2> DEFINE d == [dag[r] EXCEPT !.deployed = o]
  <2>4. /\ d.task = "deploy" /\ d.deployed = o /\ d.model = m /\ d.try = dag[r].try
        /\ \A s \in Runs : dag'[s] = IF s = r THEN d ELSE dag[s]
    BY <1>1, <2>1, <2>3 DEF DagType
  <2>5. PICK row : row.action = a /\ row.model = m /\ row.by = r /\ deployments' = deployments \cup {row}
    BY <2>3
  <2> HIDE DEF d
  <2>7. Has(deployments', a, m, r) BY <2>5 DEF Has
  <2>8. \A n \in Tries : Has(deployments', "promote", <<r, n>>, r) =>
          Has(deployments, "promote", <<r, n>>, r) \/ (a = "promote" /\ m = <<r, n>>)
    BY <2>5 DEF Has
  <2>9. Reports(r, d, deployments')
    <3>1. m \in Models /\ MeetsMinimumBar(m) BY <1>2, <2>1 DEF Reports
    <3>2. ASSUME NEW n \in Tries, Has(deployments', "promote", <<r, n>>, r)
          PROVE  m = <<r, n>> /\ (d.try = 1 => d.deployed = "promoted")
      <4>1. CASE Has(deployments, "promote", <<r, n>>, r)
        BY <1>2, <2>1, <2>4, <4>1 DEF Reports
      <4>2. CASE a = "promote" /\ m = <<r, n>> BY <2>3, <2>4, <4>2
      <4> QED BY <2>8, <3>2, <4>1, <4>2
    <3> QED BY <2>2, <2>3, <2>4, <2>7, <3>1, <3>2 DEF Reports
  <2>10. ASSUME NEW s \in Runs, s # r PROVE Reports(s, dag[s], deployments')
    BY <1>2, <2>5, <2>10, ReportsCarry
  <2> QED BY <2>4, <2>9, <2>10
<1>9. ASSUME NEW r \in Runs, Deployed(r)
      PROVE  \A s \in Runs : Reports(s, dag'[s], deployments')
  <2> DEFINE task == IF dag[r].deployed = "promoted" THEN "success" ELSE "skipped"
             d == [dag[r] EXCEPT !.task = task]
  <2>1. /\ dag[r].task = "deploy" /\ dag[r].deployed # "no" /\ deployments' = deployments
        /\ dag' = [dag EXCEPT ![r] = d]
    BY <1>9 DEF Deployed, slotVars
  <2>2. /\ d \in DagType /\ d.task = task /\ d.model = dag[r].model /\ d.try = dag[r].try
        /\ d.deployed = dag[r].deployed /\ dag[r].deployed \in {"promoted", "rejected"}
        /\ d.try \in Tries
    BY <1>1, <2>1 DEF DagType, Ended
  <2>3. d.try # 1 => d.try > 1 BY <2>2, TriesAssumption DEF Tries
  <2> HIDE DEF d
  <2>4. Reports(r, d, deployments) BY <1>2, <2>1, <2>2, <2>3 DEF Reports
  <2> QED BY <1>4, <2>1, <2>2, <2>4
<1>10. ASSUME NEW r \in Runs, TryAgain(r), dag[r].task \in Active, deployments' = deployments
       PROVE  \A s \in Runs : Reports(s, dag'[s], deployments')
  <2>1. dag[r].try \in Nat \ {0} /\ dag[r].try \in Tries
    BY <1>1, TriesAssumption DEF DagType, Tries
  <2>2. CASE dag[r].try < MaxTries
    <3> DEFINE d == [dag[r] EXCEPT !.try = dag[r].try + 1, !.deployed = "no"]
    <3>1. dag' = [dag EXCEPT ![r] = d] BY <1>10, <2>2 DEF TryAgain
    <3>2. dag[r].try + 1 \in Tries BY <2>1, <2>2, TriesAssumption DEF Tries
    <3>3. /\ d \in DagType /\ d.task = dag[r].task /\ d.model = dag[r].model /\ d.deployed = "no"
          /\ d.try # 1
      <4>1. dag[r] \in DagType BY <1>1
      <4>2. d.try = dag[r].try + 1 BY <4>1 DEF DagType
      <4>3. d.task = dag[r].task /\ d.model = dag[r].model /\ d.deployed = "no"
        BY <4>1 DEF DagType
      <4>4. d \in DagType BY <3>2, <4>1 DEF DagType
      <4> HIDE DEF d
      <4> QED BY <2>1, <4>2, <4>3, <4>4
    <3> HIDE DEF d
    <3>4. Reports(r, d, deployments) BY <1>2, <1>10, <3>3 DEF Reports, Active
    <3> QED BY <1>4, <1>10, <3>1, <3>3, <3>4
  <2>3. CASE ~(dag[r].try < MaxTries)
    <3> DEFINE d == [dag[r] EXCEPT !.task = "failed"]
    <3>1. dag' = [dag EXCEPT ![r] = d] BY <1>10, <2>3 DEF TryAgain
    <3>2. dag[r].try = MaxTries BY <2>1, <2>3, TriesAssumption DEF Tries
    <3>3. d \in DagType /\ d.task = "failed" /\ d.model = dag[r].model /\ d.try = dag[r].try
      BY <1>1 DEF DagType, Ended
    <3> HIDE DEF d
    <3>4. Reports(r, d, deployments) BY <1>2, <1>10, <3>2, <3>3 DEF Reports, Active
    <3> QED BY <1>4, <1>10, <3>1, <3>3, <3>4
  <2> QED BY <2>2, <2>3
<1>11. ASSUME NEW o \in Orders, OperatorPromotes(o) \/ Restore(o)
       PROVE  \A s \in Runs : Reports(s, dag'[s], deployments')
  <2>1. dag' = dag BY <1>11 DEF OperatorPromotes, Restore, dagVars
  <2>2. PICK row : row.by = None /\ deployments' = deployments \cup {row}
    <3>1. CASE OperatorPromotes(o) BY <3>1 DEF OperatorPromotes, Promote
    <3>2. CASE Restore(o) BY <3>2 DEF Restore
    <3> QED BY <1>11, <3>1, <3>2
  <2>3. None \notin Runs BY IncumbentAssumption
  <2> QED BY <1>2, <2>1, <2>2, <2>3, ReportsCarry
<1>12. ASSUME NEW r \in Runs, Lose(r) \/ Retry(r)
       PROVE  \A s \in Runs : Reports(s, dag'[s], deployments')
  BY <1>10, <1>12 DEF Lose, Retry, slotVars, Active
<1>13. ASSUME NEW r \in Runs, StartVersion(r) \/ StartTrain(r) \/ CheckDrift(r)
       PROVE  UNCHANGED <<dag, deployments>>
  BY <1>13 DEF StartVersion, StartTrain, CheckDrift, dagVars, slotVars
<1> QED
  BY <1>3, <1>5, <1>7, <1>8, <1>9, <1>11, <1>12, <1>13
     DEF Next, Proceed, vars, dagVars, slotVars, ReviewStep, OperatorVersion, FreezeStep,
         FreezeFails, TrainStep, TrainFails

LEMMA OutcomeInit == Init => OutcomeInv
BY IncumbentAssumption DEF Init, TrainingInit, NewTraining, OutcomeInv, TrainedFor, OverItself, Reports, Has,
       TrainingNow, Launched, Closing

LEMMA OutcomeStep == TypeInv /\ LineageInv /\ OutcomeInv /\ [Next]_vars => OutcomeInv'
<1> SUFFICES ASSUME TypeInv, LineageInv, OutcomeInv, [Next]_vars PROVE OutcomeInv' OBVIOUS
<1>1. TrainedFor' BY TrainedForStep DEF OutcomeInv
<1>2. OverItself'
  <2>1. OverItself /\ TrainedFor BY DEF OutcomeInv
  <2>2. ASSUME NEW m \in Models \cup {Incumbent}, Put(m), NEW a \in {"promote", "rollback"},
               a = "promote" => PassesGate(m, production), NEW by,
               deployments' = deployments \cup
                  {[action |-> a, model |-> m, prev |-> production, by |-> by]}
        PROVE  OverItself'
    <3>1. m # None BY CallsAssumption, IncumbentAssumption DEF Models
    <3>2. PICK row : row = [action |-> a, model |-> m, prev |-> production, by |-> by] OBVIOUS
    <3>3. row.action = a /\ row.model = m /\ row.prev = production BY <3>2
    <3>4. deployments' = deployments \cup {row} BY <2>2, <3>2
    <3>5. row.action = "promote" /\ row.prev = row.model => Margin = 0
      <4>1. CASE a = "promote" /\ production = m BY <2>1, <2>2, <4>1, GateOverItself
      <4> QED BY <3>3, <4>1
    <3>6. production' = None => row.action # "reject" /\ row.prev = row.model
      BY <2>2, <3>1, <3>3 DEF Put
    <3> QED BY <2>1, <3>4, <3>5, <3>6 DEF OverItself
  <2>3. ASSUME NEW m \in Models \cup {Incumbent}, NEW by, Promote(m, by) PROVE OverItself'
    <3>1. CASE PassesGate(m, production) BY <2>2, <2>3, <3>1 DEF Promote
    <3>2. CASE ~PassesGate(m, production)
      <4>1. PICK row : row.action = "reject" /\ deployments' = deployments \cup {row}
        BY <2>3, <3>2 DEF Promote
      <4>2. production' = production BY <2>3, <3>2 DEF Promote
      <4> QED BY <2>1, <4>1, <4>2 DEF OverItself
    <3> QED BY <3>1, <3>2
  <2>4. ASSUME NEW o \in Orders, OperatorPromotes(o) PROVE OverItself'
    BY <2>3, <2>4 DEF OperatorPromotes
  <2>5. ASSUME NEW o \in Orders, Restore(o) PROVE OverItself'
    <3>1. PICK m : m = IF o.model = None THEN displaced ELSE o.model OBVIOUS
    <3> QED BY <2>2, <2>5, <3>1 DEF Restore
  <2>6. ASSUME NEW r \in Runs, Deploy(r) PROVE OverItself'
    <3>1. PICK m : m = dag[r].model OBVIOUS
    <3>2. m \in Models BY <2>6, <3>1 DEF Deploy, OutcomeInv, Reports
    <3> QED BY <2>3, <2>6, <3>1, <3>2 DEF Deploy
  <2>7. CASE UNCHANGED slotVars BY <2>1, <2>7 DEF slotVars, OverItself
  <2> QED BY <2>4, <2>5, <2>6, <2>7, SlotSteps
<1>3. ASSUME NEW s \in Runs PROVE Reports(s, dag[s], deployments)'
  <2>1. Reports(s, dag'[s], deployments') BY ReportsStep
  <2>2. \A m \in Models : m \in Models' /\ (MeetsMinimumBar(m)' <=> MeetsMinimumBar(m))
    BY ModelsStay
  <2>3. dag'[s].task \in {"evaluate", "deploy", "success", "skipped"} =>
          /\ dag'[s].model \in Models'
          /\ MeetsMinimumBar(dag[s].model)' <=> MeetsMinimumBar(dag'[s].model)
    <3>1. dag'[s].task \in {"evaluate", "deploy", "success", "skipped"} => dag'[s].model \in Models
      BY <2>1 DEF Reports
    <3> QED BY <2>2, <3>1 DEF MeetsMinimumBar, MetricsOf
  <2> QED BY <2>1, <2>3 DEF Reports, Has
<1> QED BY <1>1, <1>2, <1>3 DEF OutcomeInv

\* What a run reports is what happened: to the model it trained, and to production.
THEOREM OutcomesHold == Spec => []OutcomesAreTrue
<1>1. TypeInv /\ LineageInv /\ OutcomeInv => OutcomesAreTrue
  <2> SUFFICES ASSUME TypeInv, LineageInv, OutcomeInv PROVE OutcomesAreTrue OBVIOUS
  <2>1. ASSUME NEW r \in Runs, dag[r].task \in {"evaluate", "deploy", "success", "skipped"}
        PROVE  dag[r].model \in Models /\ dag[r].model[1] = r
               /\ Key(tcall[dag[r].model].version) = Key(<<r, 1>>)
    <3>1. PICK n \in Tries : dag[r].model = <<r, n>> /\ dag[r].model \in Models
      BY <2>1 DEF OutcomeInv, Reports
    <3>2. dag[r].model \in TrainCalls /\ tcall[dag[r].model].pc = "done"
      BY <3>1 DEF Models, LineageInv, Recorded
    <3>3. Key(tcall[dag[r].model].version) = <<Wanted[<<r, n>>].name, Wanted[<<r, n>>].tag>>
      BY <3>1, <3>2 DEF OutcomeInv, TrainedFor
    <3>4. /\ Asked[<<r, n>>] = Asked[<<r, 1>>]
          /\ Wanted[<<r, n>>].name = Asked[<<r, n>>].name
          /\ Wanted[<<r, n>>].tag = Asked[<<r, n>>].tag
      BY <3>1, TriesAssumption
    <3> QED BY <3>1, <3>3, <3>4 DEF Key
  <2>2. ASSUME NEW r \in Runs, NEW a PROVE
          {d \in deployments : d.action = a /\ d.model = dag[r].model /\ d.by = r} # {}
            <=> Has(deployments, a, dag[r].model, r)
    BY DEF Has
  <2>3. ASSUME NEW r \in Runs
        PROVE  /\ dag[r].task = "success" => MeetsMinimumBar(dag[r].model)
                                            /\ Has(deployments, "promote", dag[r].model, r)
               /\ dag[r].task = "skipped" =>
                    /\ ~MeetsMinimumBar(dag[r].model) \/ Has(deployments, "reject", dag[r].model, r)
                    /\ Has(deployments, "promote", dag[r].model, r) => dag[r].try > 1
               /\ dag[r].task = "failed" => dag[r].try = MaxTries
    <3>1. Reports(r, dag[r], deployments) BY DEF OutcomeInv
    <3>2. dag[r].task = "skipped" => \E n \in Tries : dag[r].model = <<r, n>> BY <3>1 DEF Reports
    <3> QED BY <3>1, <3>2 DEF Reports
  <2>4. /\ production = None => \E d \in deployments : d.action # "reject" /\ d.prev = d.model
        /\ \A d \in deployments : d.action = "promote" /\ d.prev = d.model => Margin = 0
    BY DEF OutcomeInv, OverItself
  <2> SUFFICES ASSUME NEW r \in Runs
      PROVE  LET m == dag[r].model
                 done(action) == {d \in deployments : d.action = action /\ d.model = m /\ d.by = r}
             IN
             /\ dag[r].task \in {"evaluate", "deploy", "success", "skipped"} =>
                  m \in Models /\ m[1] = r /\ Key(tcall[m].version) = Key(<<r, 1>>)
             /\ dag[r].task = "success" => MeetsMinimumBar(m) /\ done("promote") # {}
             /\ dag[r].task = "skipped" =>
                  /\ ~MeetsMinimumBar(m) \/ done("reject") # {}
                  /\ done("promote") # {} => dag[r].try > 1
             /\ dag[r].task = "failed" => dag[r].try = MaxTries
    BY <2>4 DEF OutcomesAreTrue
  <2>5. dag[r].task \in {"evaluate", "deploy", "success", "skipped"} =>
          dag[r].model \in Models /\ dag[r].model[1] = r
          /\ Key(tcall[dag[r].model].version) = Key(<<r, 1>>)
    BY <2>1
  <2>6. \A a : {d \in deployments : d.action = a /\ d.model = dag[r].model /\ d.by = r} # {}
                 <=> Has(deployments, a, dag[r].model, r)
    BY <2>2
  <2> QED BY <2>3, <2>5, <2>6
<1> QED
  BY <1>1, TypeInit, TypeStep, LineageInit, LineageStep, OutcomeInit, OutcomeStep, PTL DEF Spec

-----------------------------------------------------------------------------
(* The regression suite *)

\* What a call held out is a reviewed image of its category, for good.
Judged == \A c \in VersionCalls : \A i \in vcall[c].held :
    i \in Trainable(Asked[c].category) /\ image[i].reviewed

\* A call that freezes something lists the images at that moment.
LEMMA OnlyListingFreezes ==
    ASSUME VersionsTypeOK, NEW c \in VersionCalls, VersionStep(c), NEW d \in VersionCalls,
           vcall'[d].manifest # vcall[d].manifest \/ vcall'[d].held # vcall[d].held
    PROVE  LET S == Trainable(Asked[d].category) IN
           /\ vcall'[d].manifest = [i \in S |-> [split |-> SplitOf(S, i), label |-> image[i].label]]
           /\ vcall'[d].held = {i \in S : image[i].reviewed}
<1>1. vcall \in [VersionCalls -> CallType] BY DEF VersionsTypeOK, CallType, Contents
<1>2. CASE ListImages(c)
  <2> DEFINE S == Trainable(Asked[c].category)
             M == [i \in S |-> [split |-> SplitOf(S, i), label |-> image[i].label]]
             H == {i \in S : image[i].reviewed}
  <2>1. \/ vcall' = [vcall EXCEPT ![c].pc = "refused", ![c].created = FALSE]
        \/ vcall' = [vcall EXCEPT ![c].pc = "write", ![c].manifest = M, ![c].held = H]
    BY <1>2 DEF ListImages
  <2> HIDE DEF M, H
  <2>2. d = c /\ vcall'[d].manifest = M /\ vcall'[d].held = H BY <1>1, <2>1 DEF CallType
  <2> QED BY <2>2 DEF M, H
<1>3. CASE ~ListImages(c)
  BY <1>1, <1>3
     DEF VersionStep, Begin, FreezeOn, InsertDataset, OpenFile, WriteFile, Track, Push, ReadHash,
         InsertVersion, CommitVersion, VersionFails, GoTo, CallType
<1> QED BY <1>2, <1>3

LEMMA JudgedStep == TypeInv /\ Judged /\ [Next]_vars => Judged'
<1> SUFFICES ASSUME TypeInv, Judged, [Next]_vars PROVE Judged' OBVIOUS
<1>1. VersionsTypeOK /\ dag \in [Runs -> DagType] BY TypeParts DEF TypeInv
<1>2. ASSUME NEW c \in VersionCalls, VersionStep(c) PROVE Judged'
  <2>1. UNCHANGED imageVars BY <1>2 DEF VersionStep
  <2>2. ASSUME NEW d \in VersionCalls, NEW i \in vcall'[d].held
        PROVE  i \in Trainable(Asked[d].category) /\ image[i].reviewed
    <3>1. CASE vcall'[d].held = vcall[d].held BY <2>2, <3>1 DEF Judged
    <3>2. CASE vcall'[d].held # vcall[d].held
      BY <1>1, <1>2, <2>2, <3>2, OnlyListingFreezes
    <3> QED BY <3>1, <3>2
  <2> QED BY <2>1, <2>2 DEF Judged, Trainable, imageVars
<1>3. CASE vcall' = vcall /\ UNCHANGED imageVars
  BY <1>3 DEF Judged, Trainable, imageVars
<1>4. ASSUME NEW verdict \in Verdicts, ReviewStep(verdict) PROVE Judged'
  <2>1. \A i \in Images : image'[i] = image[i] \/ (image'[i].status = "valid" /\ image'[i].reviewed)
    BY <1>1, <1>4 DEF ReviewStep, Review, VersionsTypeOK
  <2>2. \A d \in VersionCalls : vcall'[d].held = vcall[d].held
    BY <1>4 DEF ReviewStep, versionVars
  <2> QED BY <2>1, <2>2 DEF Judged, Trainable
<1>5. ASSUME Quiet, ~\E verdict \in Verdicts : ReviewStep(verdict)
      PROVE  vcall' = vcall /\ UNCHANGED imageVars
  BY <1>5
     DEF Quiet, versionVars, Next, vars, OperatorPromotes, Restore, OperatorVersion, FreezeStep, FreezeFails,
         TrainStep, TrainFails, Trigger, CheckDrift, TriggerOnDrift, Lose, Proceed, StartVersion,
         StartTrain, Versioned, Trained, Evaluate, Deploy, Deployed, Retry
<1> QED BY <1>1, <1>2, <1>3, <1>4, <1>5, Kinds DEF TrainingStep, versionVars

\* An image that an operator reviewed stays in the test split of every later version.
THEOREM SuiteGrows == Spec => SuiteOnlyGrows
<1>1. Init => Judged BY DEF Init, VersionsInit, NewCall, Judged
<1>2. TypeInv /\ Judged /\ [Next]_vars =>
        [\A c \in VersionCalls : vcall[c].manifest = Empty /\ vcall'[c].manifest # Empty =>
           \A v \in Versions : Asked[v].category = Asked[c].category =>
             \A i \in vcall[v].held :
               i \in Members(vcall'[c].manifest) /\ vcall'[c].manifest[i].split = "test"]_vcall
  <2> SUFFICES ASSUME TypeInv, Judged, [Next]_vars,
                      NEW d \in VersionCalls, vcall[d].manifest = Empty, vcall'[d].manifest # Empty,
                      NEW v \in Versions, Asked[v].category = Asked[d].category,
                      NEW i \in vcall[v].held
               PROVE  i \in Members(vcall'[d].manifest) /\ vcall'[d].manifest[i].split = "test"
    OBVIOUS
  <2> DEFINE S == Trainable(Asked[d].category)
             M == [j \in S |-> [split |-> SplitOf(S, j), label |-> image[j].label]]
  <2>1. VersionsTypeOK /\ dag \in [Runs -> DagType] BY TypeParts DEF TypeInv
  <2>2. PICK c \in VersionCalls : VersionStep(c)
    BY <2>1, Kinds DEF TrainingStep, Quiet, versionVars
  <2>3. vcall'[d].manifest = M BY <2>1, <2>2, OnlyListingFreezes
  <2>4. i \in S /\ image[i].reviewed BY DEF Judged, Versions
  <2>5. SplitOf(S, i) = "test" BY <2>4 DEF SplitOf
  <2>6. DOMAIN M = S /\ \A j \in S : M[j].split = SplitOf(S, j) OBVIOUS
  <2> HIDE DEF M, S
  <2> QED BY <2>3, <2>4, <2>5, <2>6 DEF Members
<1> QED BY <1>1, <1>2, TypeInit, TypeStep, JudgedStep, PTL DEF Spec, SuiteOnlyGrows
-----------------------------------------------------------------------------
(***************************************************************************)
(* Why a run that is started ends: calls, trainings and runs only go        *)
(* forward, and a call that waits for another's uncommitted row waits for   *)
(* one that can go on.                                                      *)
(***************************************************************************)

\* Whose rows are uncommitted: one call at most creates a dataset, and until it commits nobody
\* else gets past the name.
WaitInv ==
    \A c \in VersionCalls :
        /\ vcall[c].created =>
             /\ vcall[c].pc \in Working \ {"insert"} /\ dataset[Asked[c].name] = None
             /\ \A d \in VersionCalls : vcall[d].created /\ Asked[d].name = Asked[c].name => c = d
        /\ vcall[c].pc \in Working \ {"insert"} =>
             vcall[c].created \/ dataset[Asked[c].name] # None

\* A call that works waits for no row that another transaction has inserted and not committed.
CanGoOn(c) ==
    /\ vcall[c].pc \in Working
    /\ vcall[c].pc = "insert" => NameIsFree(c)
    /\ vcall[c].pc = "row" => TagIsFree(c)

WaitsEnd ==
    \A c \in VersionCalls : vcall[c].pc \in Working /\ ~CanGoOn(c) =>
        \E d \in VersionCalls \ {c} : Asked[d].name = Asked[c].name /\ CanGoOn(d)

LEMMA WaitInit == Init => WaitInv
BY DEF Init, VersionsInit, NewCall, WaitInv, Working

LEMMA WaitStepOf ==
    ASSUME VersionsTypeOK, WaitInv, NEW c \in VersionCalls, VersionStep(c)
    PROVE  WaitInv'
<1>1. /\ vcall \in [VersionCalls -> CallType] /\ Asked[c].name \in Names
      /\ DOMAIN dataset = Names /\ Asked[c].category # None
  BY AskedAssumption DEF VersionsTypeOK, CallType, Contents, Names
<1>2. \A d \in VersionCalls \ {c} : vcall'[d] = vcall[d]
  BY <1>1 DEF VersionStep, Begin, FreezeOn, InsertDataset, ListImages, OpenFile, WriteFile, Track, Push,
              ReadHash, InsertVersion, CommitVersion, VersionFails, GoTo
<1>3. CASE Begin(c)
  <2>1. PICK pc \in {"insert", "refused", "list"} :
          /\ vcall' = [vcall EXCEPT ![c].pc = pc]
          /\ pc = "list" => dataset[Asked[c].name] # None
    <3> DEFINE n == dataset[Asked[c].name]
               pc == CASE n = None -> "insert"
                       [] n # None /\ TagIsTaken(c) -> "refused"
                       [] OTHER -> "list"
    <3>1. vcall' = [vcall EXCEPT ![c].pc = pc] BY <1>3 DEF Begin, GoTo
    <3>2. pc \in {"insert", "refused", "list"} OBVIOUS
    <3>3. pc = "list" => n # None OBVIOUS
    <3> HIDE DEF pc
    <3> QED BY <3>1, <3>2, <3>3
  <2>2. vcall'[c].pc = pc /\ vcall'[c].created = vcall[c].created /\ dataset' = dataset
    BY <1>1, <1>3, <2>1 DEF Begin, CallType
  <2>3. vcall[c].pc = "idle" BY <1>3 DEF Begin
  <2>4. ~vcall[c].created BY <2>3 DEF WaitInv, Working
  <2> QED BY <1>2, <2>1, <2>2, <2>4 DEF WaitInv, Working
<1>4. CASE InsertDataset(c)
  <2>1. CASE dataset[Asked[c].name] = None
    <3>1. /\ vcall'[c].pc = "list" /\ vcall'[c].created /\ dataset' = dataset
          /\ vcall[c].pc = "insert" /\ NameIsFree(c)
      BY <1>1, <1>4, <2>1 DEF InsertDataset, CallType
    <3> QED BY <1>2, <2>1, <3>1 DEF WaitInv, NameIsFree, Working
  <2>2. CASE dataset[Asked[c].name] # None
    <3>1. /\ vcall'[c].pc = "failed" /\ vcall'[c].created = vcall[c].created
          /\ dataset' = dataset /\ vcall[c].pc = "insert"
      BY <1>1, <1>4, <2>2 DEF InsertDataset, CallType
    <3> QED BY <1>2, <3>1 DEF WaitInv, Working
  <2> QED BY <2>1, <2>2
\* It goes on as it is, or leaves without its rows.
<1>5. ASSUME dataset' = dataset, vcall[c].pc \in Working \ {"insert"},
             vcall'[c].pc \in Working \ {"insert"}, vcall'[c].created = vcall[c].created
      PROVE  WaitInv'
  BY <1>2, <1>5 DEF WaitInv
<1>6. ASSUME dataset' = dataset, vcall'[c].pc \notin Working, ~vcall'[c].created,
             vcall[c].pc \in Working
      PROVE  WaitInv'
  BY <1>2, <1>6 DEF WaitInv
<1>7. CASE ListImages(c)
  <2>1. /\ dataset' = dataset /\ vcall[c].pc = "list"
        /\ \/ vcall'[c].pc = "refused" /\ ~vcall'[c].created
           \/ vcall'[c].pc = "write" /\ vcall'[c].created = vcall[c].created
    BY <1>1, <1>7 DEF ListImages, CallType
  <2> QED BY <1>5, <1>6, <2>1 DEF Working
<1>8. CASE OpenFile(c) \/ WriteFile(c) \/ Track(c) \/ Push(c) \/ ReadHash(c)
  <2>1. /\ dataset' = dataset /\ vcall[c].pc \in {"write", "fill", "track", "push", "hash"}
        /\ vcall'[c].pc \in {"fill", "track", "push", "hash", "row"}
        /\ vcall'[c].created = vcall[c].created
    BY <1>1, <1>8 DEF OpenFile, WriteFile, Track, Push, ReadHash, GoTo, CallType
  <2> QED BY <1>5, <2>1 DEF Working
<1>9. CASE InsertVersion(c)
  <2>1. /\ dataset' = dataset /\ vcall[c].pc = "row"
        /\ \/ vcall'[c].pc = "failed" /\ ~vcall'[c].created
           \/ vcall'[c].pc = "commit" /\ vcall'[c].created = vcall[c].created
    BY <1>1, <1>9 DEF InsertVersion, CallType
  <2> QED BY <1>5, <1>6, <2>1 DEF Working
<1>10. CASE CommitVersion(c)
  <2>1. /\ vcall[c].pc = "commit" /\ vcall'[c].pc = "done" /\ ~vcall'[c].created
        /\ dataset' = IF vcall[c].created
                      THEN [dataset EXCEPT ![Asked[c].name] = Asked[c].category] ELSE dataset
    BY <1>1, <1>10 DEF CommitVersion, CallType
  <2>2. CASE ~vcall[c].created BY <1>6, <2>1, <2>2 DEF Working
  <2>3. CASE vcall[c].created
    <3>1. /\ dataset'[Asked[c].name] # None
          /\ \A d \in VersionCalls : Asked[d].name # Asked[c].name =>
                dataset'[Asked[d].name] = dataset[Asked[d].name]
      BY <1>1, <2>1, <2>3 DEF Names
    <3>2. \A d \in VersionCalls \ {c} : vcall[d].created => Asked[d].name # Asked[c].name
      BY <2>3 DEF WaitInv
    <3> QED BY <1>2, <2>1, <3>1, <3>2 DEF WaitInv, Working
  <2> QED BY <2>2, <2>3
<1>11. CASE VersionFails(c)
  <2>1. /\ dataset' = dataset /\ vcall[c].pc \in Working
        /\ vcall'[c].pc = "failed" /\ ~vcall'[c].created
    BY <1>1, <1>11 DEF VersionFails, CallType
  <2> QED BY <1>6, <2>1 DEF Working
<1> QED
  BY <1>3, <1>4, <1>7, <1>8, <1>9, <1>10, <1>11 DEF VersionStep, FreezeOn

LEMMA WaitStep == TypeInv /\ WaitInv /\ [Next]_vars => WaitInv'
<1> SUFFICES ASSUME TypeInv, WaitInv, [Next]_vars PROVE WaitInv' OBVIOUS
<1>1. VersionsTypeOK /\ dag \in [Runs -> DagType] BY TypeParts DEF TypeInv
<1>2. CASE UNCHANGED versionVars BY <1>2 DEF versionVars, WaitInv
<1> QED BY <1>1, <1>2, WaitStepOf, Kinds DEF TrainingStep, Quiet

\* Whatever calls share names and tags, one that waits for an uncommitted dataset or tag waits
\* for a call that can go on itself: no two wait for each other (the unique keys that
\* add_dataset and add_version insert).
THEOREM NobodyWaitsInACircle == Spec => []WaitsEnd
<1>1. WaitInv => WaitsEnd
  <2> SUFFICES ASSUME WaitInv, NEW c \in VersionCalls, vcall[c].pc \in Working, ~CanGoOn(c)
               PROVE  \E d \in VersionCalls \ {c} : Asked[d].name = Asked[c].name /\ CanGoOn(d)
    BY DEF WaitsEnd
  <2>1. CASE vcall[c].pc = "insert" /\ ~NameIsFree(c)
    <3>1. PICK d \in VersionCalls \ {c} : vcall[d].created /\ Asked[d].name = Asked[c].name
      BY <2>1 DEF NameIsFree
    <3>2. vcall[d].pc \in Working \ {"insert"} /\ dataset[Asked[d].name] = None
      BY <3>1 DEF WaitInv
    <3>3. TagIsFree(d)
      <4> SUFFICES ASSUME NEW e \in VersionCalls \ {d}, vcall[e].pc = "commit",
                          Key(e) = Key(d)
                   PROVE  FALSE
        BY DEF TagIsFree
      <4>1. Asked[e].name = Asked[d].name BY DEF Key
      <4>2. vcall[e].created BY <3>2, <4>1 DEF WaitInv, Working
      <4> QED BY <3>1, <4>1, <4>2 DEF WaitInv
    <3> QED BY <3>1, <3>2, <3>3 DEF CanGoOn
  <2>2. CASE vcall[c].pc = "row" /\ ~TagIsFree(c)
    <3>1. PICK d \in VersionCalls \ {c} : vcall[d].pc = "commit" /\ Key(d) = Key(c)
      BY <2>2 DEF TagIsFree
    <3>2. Asked[d].name = Asked[c].name BY <3>1 DEF Key
    <3> QED BY <3>1, <3>2 DEF CanGoOn, Working
  <2> QED BY <2>1, <2>2 DEF CanGoOn
<1> QED BY <1>1, TypeInit, TypeStep, WaitInit, WaitStep, PTL DEF Spec

\* How many steps a call has left, at most; those of a training but for what it stages; and
\* how far a run is from its end: tasks, tries of a task, and the deployment of a try.
CallLeft(c) ==
    CASE vcall[c].pc = "idle" -> 10
      [] vcall[c].pc = "insert" -> 9
      [] vcall[c].pc = "list" -> 8
      [] vcall[c].pc = "write" -> 7
      [] vcall[c].pc = "fill" -> 6
      [] vcall[c].pc = "track" -> 5
      [] vcall[c].pc = "push" -> 4
      [] vcall[c].pc = "hash" -> 3
      [] vcall[c].pc = "row" -> 2
      [] vcall[c].pc = "commit" -> 1
      [] OTHER -> 0

TrainLeft(t) ==
    CASE tcall[t].pc = "idle" -> 7
      [] tcall[t].pc = "stage" -> 6
      [] tcall[t].pc = "fit" -> 5
      [] tcall[t].pc = "fitting" -> 4
      [] tcall[t].pc = "log" -> 3
      [] tcall[t].pc = "register" -> 2
      [] tcall[t].pc \in {"persist", "record"} -> 1
      [] OTHER -> 0

TasksLeft(r) ==
    CASE dag[r].task = "waiting" -> 5
      [] dag[r].task = "version" -> 4
      [] dag[r].task = "train" -> 3
      [] dag[r].task = "evaluate" -> 2
      [] dag[r].task = "deploy" -> 1
      [] OTHER -> 0
TriesLeft(r) == MaxTries - dag[r].try

\* A run goes on to a later task, to a later try of its task, or to what its deployment did.
RunGoesOn(r) ==
    \/ TasksLeft(r)' < TasksLeft(r)
    \/ TasksLeft(r)' = TasksLeft(r) /\ TriesLeft(r)' < TriesLeft(r) /\ dag'[r].try \in Tries
    \/ /\ TasksLeft(r)' = TasksLeft(r) /\ TriesLeft(r)' = TriesLeft(r)
       /\ dag[r].deployed = "no" /\ dag'[r].deployed # "no"

\* A training takes a later step, or has one file less to stage.
TrainingGoesOn(t) ==
    \/ TrainLeft(t)' < TrainLeft(t)
    \/ /\ tcall[t].pc = "stage" /\ tcall'[t].pc = "stage"
       /\ \E f \in tcall[t].todo : tcall'[t].todo = tcall[t].todo \ {f}

RunsOut ==
    /\ \A c \in VersionCalls : vcall'[c] # vcall[c] => CallLeft(c)' < CallLeft(c)
    /\ \A t \in TrainCalls : tcall'[t] # tcall[t] => TrainingGoesOn(t)
    /\ \A r \in Runs : dag'[r] # dag[r] => RunGoesOn(r)

LEMMA CallRunsOut ==
    ASSUME VersionsTypeOK, NEW c \in VersionCalls, VersionStep(c)
    PROVE  /\ CallLeft(c)' < CallLeft(c)
           /\ \A d \in VersionCalls \ {c} : vcall'[d] = vcall[d]
<1>1. vcall \in [VersionCalls -> CallType] BY DEF VersionsTypeOK, CallType, Contents
<1>2. \A d \in VersionCalls \ {c} : vcall'[d] = vcall[d]
  BY <1>1 DEF VersionStep, Begin, FreezeOn, InsertDataset, ListImages, OpenFile, WriteFile, Track, Push,
              ReadHash, InsertVersion, CommitVersion, VersionFails, GoTo
<1> SUFFICES CallLeft(c)' < CallLeft(c) BY <1>2
<1>3. CASE Begin(c)
  <2> DEFINE n == dataset[Asked[c].name]
             pc == CASE n = None -> "insert"
                     [] n # None /\ TagIsTaken(c) -> "refused"
                     [] OTHER -> "list"
  <2>1. vcall[c].pc = "idle" /\ vcall' = [vcall EXCEPT ![c].pc = pc] BY <1>3 DEF Begin, GoTo
  <2>2. pc \in {"insert", "refused", "list"} OBVIOUS
  <2> HIDE DEF pc
  <2>3. vcall'[c].pc \in {"insert", "refused", "list"} BY <1>1, <2>1, <2>2 DEF CallType
  <2> QED BY <2>1, <2>3 DEF CallLeft
<1>4. CASE InsertDataset(c)
  <2>1. vcall[c].pc = "insert" /\ vcall'[c].pc \in {"list", "failed"}
    BY <1>1, <1>4 DEF InsertDataset, CallType
  <2> QED BY <2>1 DEF CallLeft
<1>5. CASE ListImages(c)
  <2>1. vcall[c].pc = "list" /\ vcall'[c].pc \in {"refused", "write"}
    BY <1>1, <1>5 DEF ListImages, CallType
  <2> QED BY <2>1 DEF CallLeft
<1>6. CASE OpenFile(c) \/ WriteFile(c) \/ Track(c) \/ Push(c) \/ ReadHash(c)
  <2>1. \/ vcall[c].pc = "write" /\ vcall'[c].pc = "fill"
        \/ vcall[c].pc = "fill" /\ vcall'[c].pc = "track"
        \/ vcall[c].pc = "track" /\ vcall'[c].pc = "push"
        \/ vcall[c].pc = "push" /\ vcall'[c].pc = "hash"
        \/ vcall[c].pc = "hash" /\ vcall'[c].pc = "row"
    BY <1>1, <1>6 DEF OpenFile, WriteFile, Track, Push, ReadHash, GoTo, CallType
  <2> QED BY <2>1 DEF CallLeft
<1>7. CASE InsertVersion(c)
  <2>1. vcall[c].pc = "row" /\ vcall'[c].pc \in {"failed", "commit"}
    BY <1>1, <1>7 DEF InsertVersion, CallType
  <2> QED BY <2>1 DEF CallLeft
<1>8. CASE CommitVersion(c)
  <2>1. vcall[c].pc = "commit" /\ vcall'[c].pc = "done" BY <1>1, <1>8 DEF CommitVersion, CallType
  <2> QED BY <2>1 DEF CallLeft
<1>9. CASE VersionFails(c)
  <2>1. vcall[c].pc \in Working /\ vcall'[c].pc = "failed"
    BY <1>1, <1>9 DEF VersionFails, CallType
  <2> QED BY <2>1 DEF CallLeft, Working
<1> QED
  BY <1>3, <1>4, <1>5, <1>6, <1>7, <1>8, <1>9 DEF VersionStep, FreezeOn

LEMMA TrainingRunsOut ==
    ASSUME VersionsTypeOK, TrainingTypeOK, NEW t \in TrainCalls, TrainingStep(t)
    PROVE  /\ TrainingGoesOn(t)
           /\ \A u \in TrainCalls \ {t} : tcall'[u] = tcall[u]
<1>1. tcall \in [TrainCalls -> TrainType] BY DEF TrainingTypeOK, TrainType
<1>2. \A u \in TrainCalls \ {t} : tcall'[u] = tcall[u]
  BY <1>1 DEF TrainingStep, Load, TrainOn, Stage, Launch, StartFit, EndFit, RaiseInFit,
              RecordFailure, Log, Register, Persist, TrainingFails, Step
<1> SUFFICES TrainingGoesOn(t) BY <1>2
<1>3. CASE Load(t)
  <2>1. tcall[t].pc = "idle" BY <1>3 DEF Load
  <2>2. tcall'[t].pc \in {"refused", "stage"}
    <3>1. CASE tcall' = [tcall EXCEPT ![t].pc = "refused"] BY <1>1, <3>1 DEF TrainType
    <3>2. CASE tcall' # [tcall EXCEPT ![t].pc = "refused"]
      <4>1. PICK v \in Versions :
              tcall' = [tcall EXCEPT ![t].pc = "stage", ![t].version = v, ![t].todo = ToStage(v)]
        BY <1>3, <3>2, Found
      <4> QED BY <1>1, <4>1 DEF TrainType
    <3> QED BY <3>1, <3>2
  <2> QED BY <2>1, <2>2 DEF TrainingGoesOn, TrainLeft
<1>4. CASE Stage(t)
  <2> DEFINE next == CHOOSE f \in tcall[t].todo : TRUE
             rest == tcall[t].todo \ {next}
  <2>1. /\ tcall[t].pc = "stage" /\ tcall[t].todo # {}
        /\ tcall' = [tcall EXCEPT ![t].todo = rest]
    BY <1>4 DEF Stage
  <2>2. next \in tcall[t].todo BY <2>1
  <2> HIDE DEF next
  <2>3. tcall'[t].pc = "stage" /\ tcall'[t].todo = rest BY <1>1, <2>1 DEF TrainType
  <2> QED BY <2>1, <2>2, <2>3 DEF TrainingGoesOn
<1>5. CASE Launch(t) \/ Log(t) \/ Register(t) \/ Persist(t) \/ RecordFailure(t)
  <2>1. \/ tcall[t].pc = "stage" /\ tcall'[t].pc = "fit"
        \/ tcall[t].pc = "log" /\ tcall'[t].pc = "register"
        \/ tcall[t].pc = "register" /\ tcall'[t].pc = "persist"
        \/ tcall[t].pc = "persist" /\ tcall'[t].pc = "done"
        \/ tcall[t].pc = "record" /\ tcall'[t].pc = "failed"
    BY <1>1, <1>5 DEF Launch, Log, Register, Persist, RecordFailure, Step, TrainType
  <2> QED BY <2>1 DEF TrainingGoesOn, TrainLeft
<1>6. CASE StartFit(t)
  <2>1. tcall[t].pc = "fit" /\ tcall'[t].pc = "fitting" BY <1>1, <1>6 DEF StartFit, TrainType
  <2> QED BY <2>1 DEF TrainingGoesOn, TrainLeft
<1>7. CASE EndFit(t)
  <2>1. tcall[t].pc = "fitting" /\ tcall'[t].pc = "log" BY <1>1, <1>7 DEF EndFit, TrainType
  <2> QED BY <2>1 DEF TrainingGoesOn, TrainLeft
<1>8. CASE RaiseInFit(t)
  <2>1. tcall[t].pc \in {"fit", "fitting"} /\ tcall'[t].pc = "record"
    BY <1>1, <1>8 DEF RaiseInFit, Step, TrainType
  <2> QED BY <2>1 DEF TrainingGoesOn, TrainLeft
<1>9. CASE TrainingFails(t)
  <2>1. tcall[t].pc \in TrainingNow /\ tcall'[t].pc = "failed"
    BY <1>1, <1>9 DEF TrainingFails, Step, TrainType
  <2> QED BY <2>1 DEF TrainingGoesOn, TrainLeft, TrainingNow, Launched, Closing
<1> QED
  BY <1>3, <1>4, <1>5, <1>6, <1>7, <1>8, <1>9 DEF TrainingStep, TrainOn

\* What Airflow does with a run brings it nearer to its end.
LEMMA RunRunsOut ==
    ASSUME dag \in [Runs -> DagType], [Next]_vars, NEW s \in Runs, dag'[s] # dag[s]
    PROVE  RunGoesOn(s)
<1>1. ASSUME NEW r \in Runs, NEW d, dag' = [dag EXCEPT ![r] = d]
      PROVE  s = r /\ dag'[s] = d
  BY <1>1
<1>2. ASSUME NEW r \in Runs, Trigger(r) \/ TriggerOnDrift(r) PROVE RunGoesOn(s)
  <2> DEFINE d == [dag[r] EXCEPT !.task = "version"]
  <2>1. dag[r].task = "waiting" /\ dag' = [dag EXCEPT ![r] = d]
    BY <1>2 DEF Trigger, TriggerOnDrift
  <2>2. d.task = "version" BY DEF DagType
  <2> HIDE DEF d
  <2>3. s = r /\ dag'[s].task = "version" BY <1>1, <2>1, <2>2
  <2> QED BY <2>1, <2>3 DEF RunGoesOn, TasksLeft
<1>3. ASSUME NEW r \in Runs, NEW task, NEW m, NextTask(r, task, m)
      PROVE  s = r /\ dag'[s].task = task
  BY <1>3 DEF NextTask
<1>4. ASSUME NEW r \in Runs, Versioned(r) PROVE RunGoesOn(s)
  <2>1. dag[s].task = "version" /\ dag'[s].task = "train" BY <1>3, <1>4 DEF Versioned
  <2> QED BY <2>1 DEF RunGoesOn, TasksLeft
<1>5. ASSUME NEW r \in Runs, Trained(r) PROVE RunGoesOn(s)
  <2>1. dag[s].task = "train" /\ dag'[s].task = "evaluate" BY <1>3, <1>5 DEF Trained
  <2> QED BY <2>1 DEF RunGoesOn, TasksLeft
<1>6. ASSUME NEW r \in Runs, Evaluate(r) PROVE RunGoesOn(s)
  <2>1. dag[s].task = "evaluate" /\ dag'[s].task \in {"deploy", "skipped"}
    BY <1>3, <1>6 DEF Evaluate
  <2> QED BY <2>1 DEF RunGoesOn, TasksLeft
<1>7. ASSUME NEW r \in Runs, Deploy(r) PROVE RunGoesOn(s)
  <2>1. PICK x \in {"promoted", "rejected"} : dag' = [dag EXCEPT ![r].deployed = x]
    BY <1>7 DEF Deploy
  <2>2. dag[r].deployed = "no" BY <1>7 DEF Deploy
  <2>3. /\ s = r /\ dag'[s].deployed = x /\ dag'[s].task = dag[s].task
        /\ dag'[s].try = dag[s].try
    BY <2>1 DEF DagType
  <2> QED BY <2>2, <2>3 DEF RunGoesOn, TasksLeft, TriesLeft
<1>8. ASSUME NEW r \in Runs, Deployed(r) PROVE RunGoesOn(s)
  <2> DEFINE task == IF dag[r].deployed = "promoted" THEN "success" ELSE "skipped"
             d == [dag[r] EXCEPT !.task = task]
  <2>1. dag[r].task = "deploy" /\ dag' = [dag EXCEPT ![r] = d] BY <1>8 DEF Deployed
  <2>2. d.task \in {"success", "skipped"} BY DEF DagType
  <2> HIDE DEF d
  <2>3. s = r /\ dag'[s].task \in {"success", "skipped"} BY <1>1, <2>1, <2>2
  <2> QED BY <2>1, <2>3 DEF RunGoesOn, TasksLeft
<1>9. ASSUME NEW r \in Runs, TryAgain(r), dag[r].task \in Active PROVE RunGoesOn(s)
  <2>1. dag[r].try \in Tries /\ MaxTries \in Nat /\ Tries \subseteq Nat
    BY TriesAssumption DEF DagType, Tries
  <2>2. CASE dag[r].try < MaxTries
    <3> DEFINE d == [dag[r] EXCEPT !.try = dag[r].try + 1, !.deployed = "no"]
    <3>1. dag' = [dag EXCEPT ![r] = d] BY <1>9, <2>2 DEF TryAgain
    <3>2. d.task = dag[r].task /\ d.try = dag[r].try + 1 BY DEF DagType
    <3> HIDE DEF d
    <3>3. /\ s = r /\ dag'[s].task = dag[s].task /\ dag'[s].try = dag[s].try + 1
      BY <1>1, <3>1, <3>2
    <3>4. dag'[s].try \in Tries /\ TriesLeft(s)' < TriesLeft(s)
      BY <2>1, <2>2, <3>3 DEF Tries, TriesLeft
    <3>5. TasksLeft(s)' = TasksLeft(s) BY <3>3 DEF TasksLeft
    <3> QED BY <3>4, <3>5 DEF RunGoesOn
  <2>3. CASE ~(dag[r].try < MaxTries)
    <3> DEFINE d == [dag[r] EXCEPT !.task = "failed"]
    <3>1. dag' = [dag EXCEPT ![r] = d] BY <1>9, <2>3 DEF TryAgain
    <3>2. d.task = "failed" BY DEF DagType
    <3> HIDE DEF d
    <3>3. s = r /\ dag'[s].task = "failed" BY <1>1, <3>1, <3>2
    <3> QED BY <1>9, <3>3 DEF RunGoesOn, TasksLeft, Active
  <2> QED BY <2>2, <2>3
<1>10. ASSUME NEW r \in Runs, Lose(r) \/ Retry(r) PROVE RunGoesOn(s)
  BY <1>9, <1>10 DEF Lose, Retry, Active
<1>11. ASSUME NEW r \in Runs, StartVersion(r) \/ StartTrain(r) \/ CheckDrift(r) PROVE dag' = dag
  BY <1>11 DEF StartVersion, StartTrain, CheckDrift, dagVars
<1>12. CASE dag' = dag BY <1>12
<1> QED
  BY <1>2, <1>4, <1>5, <1>6, <1>7, <1>8, <1>10, <1>11, <1>12
     DEF Next, Proceed, vars, dagVars, OperatorPromotes, Restore, ReviewStep, OperatorVersion, FreezeStep,
         FreezeFails, TrainStep, TrainFails

\* Every step takes the call, the training or the run it changes nearer to its end and leaves
\* the others where they are, failures and lost tries included: a call has ten steps at most,
\* a training seven besides those that stage a file each, a run four tasks of MaxTries tries each.
THEOREM RunsRunOut == Spec => [][RunsOut]_vars
<1>1. TypeInv /\ [Next]_vars => [RunsOut]_vars
  <2> SUFFICES ASSUME TypeInv, [Next]_vars PROVE RunsOut OBVIOUS
  <2>1. VersionsTypeOK /\ TrainingTypeOK /\ dag \in [Runs -> DagType] BY TypeParts DEF TypeInv
  <2>2. ASSUME NEW c \in VersionCalls, vcall'[c] # vcall[c] PROVE CallLeft(c)' < CallLeft(c)
    <3>1. PICK d \in VersionCalls : VersionStep(d)
      BY <2>1, <2>2, Kinds DEF TrainingStep, Quiet, versionVars
    <3> QED BY <2>1, <2>2, <3>1, CallRunsOut
  <2>3. ASSUME NEW t \in TrainCalls, tcall'[t] # tcall[t] PROVE TrainingGoesOn(t)
    <3>1. PICK u \in TrainCalls : TrainingStep(u)
      BY <2>1, <2>3, Kinds DEF VersionStep, Quiet, trainVars
    <3> QED BY <2>1, <2>3, <3>1, TrainingRunsOut
  <2> QED BY <2>1, <2>2, <2>3, RunRunsOut DEF RunsOut
<1> QED BY <1>1, TypeInit, TypeStep, PTL DEF Spec

-----------------------------------------------------------------------------
(* Drift *)

Order == [severity \in Severities |->
    CASE severity = "none" -> 0 [] severity = "low" -> 1 [] severity = "medium" -> 2 [] OTHER -> 3]

\* A drift report that has the signals of another and more, over as many samples at least, is
\* no less severe: no further signal can keep a retraining from being started that would be
\* without it (DriftReport.severity, is_significant).
THEOREM MoreDriftIsNoLessSevere ==
    ASSUME NEW w, NEW x, w.samples \in Nat, x.samples \in Nat, MinSamples \in Nat,
           w.samples <= x.samples, w.signals \subseteq x.signals, IsFiniteSet(x.signals)
    PROVE  Order[Severity(w)] <= Order[Severity(x)]
<1>1. /\ "none" \in Severities /\ "low" \in Severities /\ "medium" \in Severities
      /\ "high" \in Severities
  BY DEF Severities
<1>2. Order["none"] = 0 /\ Order["low"] = 1 /\ Order["medium"] = 2 /\ Order["high"] = 3
  BY <1>1 DEF Order
<1>3. Breached(w) \subseteq Breached(x) /\ IsFiniteSet(Breached(x))
  <2>1. Breached(x) \subseteq x.signals BY DEF Breached
  <2> QED BY <2>1, FS_Subset DEF Breached
<1>4. PICK a, b : a = Cardinality(Breached(w)) /\ b = Cardinality(Breached(x)) OBVIOUS
<1>5. a \in Nat /\ b \in Nat /\ a <= b
  BY <1>3, <1>4, FS_Subset, FS_CardinalityType
<1>6. \A percent : Worst(w, percent) => Worst(x, percent) BY <1>3 DEF Worst
<1>7. w.samples >= MinSamples => x.samples >= MinSamples OBVIOUS
<1>8. Severity(w) \in Severities /\ Severity(x) \in Severities BY DEF Severity, Severities
<1>9. CASE w.samples < MinSamples \/ Breached(w) = {}
  <2>1. Severity(w) = "none" BY <1>9 DEF Severity
  <2> QED BY <1>2, <1>8, <2>1 DEF Severities
<1>10. CASE ~(w.samples < MinSamples \/ Breached(w) = {})
  <2>1. ~(x.samples < MinSamples \/ Breached(x) = {}) BY <1>3, <1>7, <1>10
  <2>2. /\ Severity(w) = IF Worst(w, 100) \/ a >= 3 THEN "high"
                         ELSE IF Worst(w, 25) \/ a >= 2 THEN "medium" ELSE "low"
        /\ Severity(x) = IF Worst(x, 100) \/ b >= 3 THEN "high"
                         ELSE IF Worst(x, 25) \/ b >= 2 THEN "medium" ELSE "low"
    BY <1>4, <1>10, <2>1 DEF Severity
  <2>3. (a >= 3 => b >= 3) /\ (a >= 2 => b >= 2) BY <1>5
  <2>4. Severity(w) = "high" => Severity(x) = "high" BY <1>6, <2>2, <2>3
  <2>5. Severity(w) = "medium" => Severity(x) \in {"medium", "high"} BY <1>6, <2>2, <2>3
  <2>6. Severity(w) \in {"low", "medium", "high"} /\ Severity(x) \in {"low", "medium", "high"}
    BY <2>2
  <2> QED BY <1>2, <2>4, <2>5, <2>6
<1> QED BY <1>9, <1>10
==============================================================================
