------------------------------ MODULE Training ------------------------------
(***************************************************************************)
(* TrainModel.execute: resolve a dataset version, stage its images in the   *)
(* directory named for it, fit a detector there, log the run to MLflow,     *)
(* register the artifact and persist the experiment with its model version. *)
(*                                                                          *)
(* The staging directory is shared by all trainings of a version and never  *)
(* emptied, and the autoencoder leaves its checkpoint in it.  A model is    *)
(* identified with the call that trained it.                                *)
(***************************************************************************)
EXTENDS DatasetVersions

CONSTANTS
    TrainCalls,
    Wanted,    \* the dataset name, version tag and model family of each call
    Metrics    \* results a fit may have: [auroc, recall]

ASSUME WantedAssumption ==
    \A t \in TrainCalls :
        /\ DOMAIN Wanted[t] = {"name", "tag", "family"}
        /\ Wanted[t].family \in {"patchcore", "autoencoder"}
ASSUME CallsAssumption == None \notin VersionCalls \cup TrainCalls

VARIABLES
    tcall,       \* what each training is doing
    dirs,        \* what lies in each version's directory: pairs of a folder and an image
    checkpoint,  \* whose weights the autoencoder.pt in each version's directory holds
    mlrun,       \* the state of each training's MLflow run
    artifact,    \* whose weights each run's logged artifact holds
    registered,  \* trainings with a version in the MLflow registry
    experiment   \* committed experiments; a completed one comes with its model version

trainVars == <<tcall, dirs, checkpoint, mlrun, artifact, registered, experiment>>
mlflow == <<mlrun, artifact, registered>>

-----------------------------------------------------------------------------
Folders == {"train", "good", "defect"}
NewTraining == [pc |-> "idle", version |-> None, todo |-> {}, fitted |-> {}, metrics |-> None]

Launched == {"fit", "fitting"}
Closing == {"log", "register", "persist"}
TrainingNow == {"stage", "record"} \cup Launched \cup Closing
Models == {t \in TrainCalls : experiment[t] = "completed"}

Step(t, pc) == tcall' = [tcall EXCEPT ![t].pc = pc]

\* Mutant: every member is staged for training.
StageAll(v) == {<<"train", i>> : i \in Members(vcall[v].manifest)}

\* Where _DatasetStager puts a member, by its split in the version and its label of today:
\* only good images are trained on, and unlabelled ones count as nominal in tests.
FolderFor(v, i) ==
    IF vcall[v].manifest[i].split = "train" THEN "train"
    ELSE IF image[i].label = "defect" THEN "defect" ELSE "good"
ToStage(v) ==
    {<<FolderFor(v, i), i>> : i \in {j \in Members(vcall[v].manifest) :
        vcall[v].manifest[j].split = "train" => image[j].label = "good"}}

TrainingInit ==
    /\ tcall = [t \in TrainCalls |-> NewTraining]
    /\ dirs = [v \in VersionCalls |-> {}]
    /\ checkpoint = [v \in VersionCalls |-> None]
    /\ mlrun = [t \in TrainCalls |-> "none"]
    /\ artifact = [t \in TrainCalls |-> None]
    /\ registered = {}
    /\ experiment = [t \in TrainCalls |-> "none"]

-----------------------------------------------------------------------------
\* _load_dataset_version: the version by name and tag, and its images as they are labelled
\* now.  The images are read one after the other; only one label of each is used.
Load(t) ==
    LET found == {v \in Versions : Key(v) = <<Wanted[t].name, Wanted[t].tag>>} IN
    /\ tcall[t].pc = "idle"
    /\ tcall' = IF found = {} THEN [tcall EXCEPT ![t].pc = "refused"]
                ELSE LET v == CHOOSE v \in found : TRUE
                     IN  [tcall EXCEPT ![t].pc = "stage", ![t].version = v, ![t].todo = ToStage(v)]
    /\ UNCHANGED <<dirs, checkpoint, mlflow, experiment, faults>>

\* _write_one, member after member.
Stage(t) ==
    LET next == CHOOSE f \in tcall[t].todo : TRUE IN
    /\ tcall[t].pc = "stage" /\ tcall[t].todo # {}
    /\ tcall' = [tcall EXCEPT ![t].todo = @ \ {next}]
    /\ dirs' = [dirs EXCEPT ![tcall[t].version] = @ \cup {next}]
    /\ UNCHANGED <<checkpoint, mlflow, experiment, faults>>

\* start_run and log_params, once everything is staged.
Launch(t) ==
    /\ tcall[t].pc = "stage" /\ tcall[t].todo = {} /\ Step(t, "fit")
    /\ mlrun' = [mlrun EXCEPT ![t] = "running"]
    /\ UNCHANGED <<dirs, checkpoint, artifact, registered, experiment, faults>>

\* detector.fit lists the training folder, whoever filled it.
StartFit(t) ==
    LET found == {i \in Images : <<"train", i>> \in dirs[tcall[t].version]} IN
    /\ tcall[t].pc = "fit" /\ found # {}
    /\ tcall' = [tcall EXCEPT ![t].pc = "fitting", ![t].fitted = found]
    /\ UNCHANGED <<dirs, checkpoint, mlflow, experiment, faults>>

\* The autoencoder saves to train_dir.parent / "autoencoder.pt", patchcore to a path of its
\* own under the engine's directory.
EndFit(t) ==
    /\ tcall[t].pc = "fitting"
    /\ \E m \in Metrics : tcall' = [tcall EXCEPT ![t].pc = "log", ![t].metrics = m]
    /\ checkpoint' = IF Wanted[t].family = "autoencoder"
                     THEN [checkpoint EXCEPT ![tcall[t].version] = t] ELSE checkpoint
    /\ UNCHANGED <<dirs, mlflow, experiment, faults>>

\* Mutant: the run is left open when fit raises.
RaiseQuietly(t) ==
    /\ tcall[t].pc = "fitting" /\ Failing /\ Step(t, "record")
    /\ UNCHANGED <<dirs, checkpoint, mlflow, experiment>>

\* fit raises, as it does on an empty folder: the run is ended as FAILED first.
RaiseInFit(t) ==
    /\ \/ /\ tcall[t].pc = "fit" /\ UNCHANGED faults
          /\ {i \in Images : <<"train", i>> \in dirs[tcall[t].version]} = {}
       \/ tcall[t].pc = "fitting" /\ Failing
    /\ Step(t, "record")
    /\ mlrun' = [mlrun EXCEPT ![t] = "FAILED"]
    /\ UNCHANGED <<dirs, checkpoint, artifact, registered, experiment>>

\* _record_failure, in a transaction of its own; then the exception goes on.
RecordFailure(t) ==
    /\ tcall[t].pc = "record" /\ Step(t, "failed")
    /\ experiment' = [experiment EXCEPT ![t] = "failed"]
    /\ UNCHANGED <<dirs, checkpoint, mlflow, faults>>

\* log_artifact uploads what the path holds by now; end_run.
Log(t) ==
    /\ tcall[t].pc = "log" /\ Step(t, "register")
    /\ artifact' = [artifact EXCEPT ![t] = IF Wanted[t].family = "autoencoder"
                                           THEN checkpoint[tcall[t].version] ELSE t]
    /\ mlrun' = [mlrun EXCEPT ![t] = "FINISHED"]
    /\ UNCHANGED <<dirs, checkpoint, registered, experiment, faults>>

\* create_model_version under the category's registry name.
Register(t) ==
    /\ tcall[t].pc = "register" /\ Step(t, "persist")
    /\ registered' = registered \cup {t}
    /\ UNCHANGED <<dirs, checkpoint, mlrun, artifact, experiment, faults>>

\* _persist: the experiment, the model version and the audit event in one transaction.
Persist(t) ==
    /\ tcall[t].pc = "persist" /\ Step(t, "done")
    /\ experiment' = [experiment EXCEPT ![t] = "completed"]
    /\ UNCHANGED <<dirs, checkpoint, mlflow, faults>>

\* Outside fit nothing is cleaned up: whatever raises, or a killed process, leaves the MLflow
\* run as it is and a registered artifact behind.
TrainingFails(t) ==
    /\ tcall[t].pc \in TrainingNow /\ Failing /\ Step(t, "failed")
    /\ UNCHANGED <<dirs, checkpoint, mlflow, experiment>>

\* What a training does once it has begun.
TrainOn(t) ==
    \/ Stage(t) \/ Launch(t) \/ StartFit(t) \/ EndFit(t) \/ RaiseInFit(t)
    \/ RecordFailure(t) \/ Log(t) \/ Register(t) \/ Persist(t)

-----------------------------------------------------------------------------
(* Properties *)

\* The types of the trainings, the directories and the three stores that record them.
TrainingTypeOK ==
    /\ tcall \in [TrainCalls ->
                    [pc : TrainingNow \cup {"idle", "done", "refused", "failed"},
                     version : VersionCalls \cup {None}, todo : SUBSET (Folders \X Images),
                     fitted : SUBSET Images, metrics : Metrics \cup {None}]]
    /\ dirs \in [VersionCalls -> SUBSET (Folders \X Images)]
    /\ checkpoint \in [VersionCalls -> TrainCalls \cup {None}]
    /\ mlrun \in [TrainCalls -> {"none", "running", "FAILED", "FINISHED"}]
    /\ artifact \in [TrainCalls -> TrainCalls \cup {None}]
    /\ registered \subseteq TrainCalls
    /\ experiment \in [TrainCalls -> {"none", "completed", "failed"}]

\* No model was fitted on an image that its version holds out.  However many trainings share
\* the directory, whatever was reviewed or relabelled since, the images a fit has seen are
\* training members of its version and none had been reviewed when it was frozen
\* (_DatasetStager, _assign_splits).
HeldOutStaysOut ==
    \A t \in TrainCalls : \A i \in tcall[t].fitted :
        LET v == tcall[t].version IN
        /\ i \in Members(vcall[v].manifest) /\ vcall[v].manifest[i].split = "train"
        /\ i \notin vcall[v].held

\* The lineage of a model: its dataset version is committed, its MLflow run finished, its
\* artifact is registered and was fitted on the same version, by its own training unless both
\* are autoencoders.  A failed experiment has a FAILED run and nothing registered, and what
\* is registered without a model belongs to a training that has yet to persist or failed
\* before it could (TrainModel.execute, DATA_MODEL.md's lineage).
LineageIsTrue ==
    /\ \A t \in Models :
         /\ tcall[t].version \in Versions
         /\ mlrun[t] = "FINISHED" /\ t \in registered
         /\ artifact[t] # None /\ tcall[artifact[t]].version = tcall[t].version
         /\ artifact[t] = t \/ \A u \in {t, artifact[t]} : Wanted[u].family = "autoencoder"
    /\ \A t \in TrainCalls :
         /\ experiment[t] = "failed" => mlrun[t] = "FAILED" /\ t \notin registered
         /\ mlrun[t] = "FAILED" => tcall[t].pc \in {"record", "failed"}
         /\ t \in registered /\ t \notin Models => tcall[t].pc \in {"persist", "failed"}
         /\ mlrun[t] = "running" => tcall[t].pc \in {"fit", "fitting", "log", "failed"}
==============================================================================
