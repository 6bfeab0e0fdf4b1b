----------------------------- MODULE Retraining -----------------------------
(***************************************************************************)
(* The retraining DAG: version the data, train, evaluate, deploy, with      *)
(* Airflow's retries, and the monitoring DAG that starts it on drift        *)
(* (retraining_dag.py, monitoring_dag.py, common.py, pipeline_client.py).   *)
(*                                                                          *)
(* A try of the first two tasks is a call of DatasetVersions and Training:  *)
(* <<r, n>> is the n-th try of run r.  Airflow may lose a try that works on *)
(* or has even ended: it counts as failed, the next try starts beside it.   *)
(* Operators review, roll back and promote meanwhile.  A change of the      *)
(* production model is one step here; module Deployment has it in full.     *)
(***************************************************************************)
EXTENDS Training

CONSTANTS
    Runs,         \* DAG runs
    MaxTries,     \* 1 + DEFAULT_ARGS["retries"]
    Incumbent,    \* the model in production at first
    IncumbentMetrics,
    MinAuroc, Margin, MaxRegression,   \* the PromotionGate, in percent
    Windows,      \* what a drift check may find: [samples, signals], a signal per name
    MinSamples,
    Orders,       \* what operators may ask for: [action, model], a rollback with or without one
    MaxOrders     \* bound: orders that are carried out

Tries == 1..MaxTries
Severities == {"none", "low", "medium", "high"}

ASSUME TriesAssumption ==
    /\ MaxTries \in Nat \ {0}
    /\ Runs \X Tries \subseteq VersionCalls /\ Runs \X Tries \subseteq TrainCalls
    /\ \A r \in Runs, n \in Tries :
         /\ Asked[<<r, n>>] = Asked[<<r, 1>>] /\ Wanted[<<r, n>>] = Wanted[<<r, 1>>]
         /\ Wanted[<<r, n>>].name = Asked[<<r, n>>].name
         /\ Wanted[<<r, n>>].tag = Asked[<<r, n>>].tag
ASSUME GateAssumption ==
    /\ MinAuroc \in Nat /\ Margin \in Nat /\ MaxRegression \in Nat
    /\ \A m \in Metrics \cup {IncumbentMetrics} : m.auroc \in Nat /\ m.recall \in Nat
    /\ None \notin Metrics
ASSUME IncumbentAssumption == Incumbent \notin TrainCalls /\ Incumbent # None /\ None \notin Runs
ASSUME OrdersAssumption ==
    /\ Orders \subseteq
          [action : {"promote", "rollback"}, model : TrainCalls \cup {Incumbent, None}]
    /\ \A o \in Orders : o.action = "promote" => o.model # None
ASSUME BoundsAssumption ==
    MaxFaults \in Nat /\ MaxOrders \in Nat

VARIABLES
    dag,          \* each run: its task, the task's try, what its deployment did, its model
    production,   \* the model that serves, if one does
    latest, displaced,  \* the model that the last change put in, and the last one before it
    deployments,  \* rows of the deployments table, with whose they are (history): a run's try's
                  \* or, None, an operator's
    drift,        \* the severity each run's monitoring run was told, until the run starts
    orders

dagVars == <<dag, drift>>
slotVars == <<production, latest, displaced, deployments, orders>>
vars == <<imageVars, faults, versionVars, trainVars, dagVars, slotVars>>

-----------------------------------------------------------------------------
Active == {"version", "train", "evaluate", "deploy"}
Ended == {"success", "skipped", "failed"}
Current(r) == <<r, dag[r].try>>   \* the call that is the current try

\* DriftSignal.exceedance and DriftReport.severity; statistics and thresholds in percent.
\* Worst is whether some signal exceeds its threshold by that many percent of it.
Breached(w) == {s \in w.signals : s.statistic > s.threshold}
Worst(w, percent) ==
    \E s \in Breached(w) :
        s.threshold > 0 /\ 100 * (s.statistic - s.threshold) >= percent * s.threshold
Severity(w) ==
    IF w.samples < MinSamples \/ Breached(w) = {} THEN "none"
    ELSE IF Worst(w, 100) \/ Cardinality(Breached(w)) >= 3 THEN "high"
    ELSE IF Worst(w, 25) \/ Cardinality(Breached(w)) >= 2 THEN "medium"
    ELSE "low"

MetricsOf(m) == IF m = Incumbent THEN IncumbentMetrics ELSE tcall[m].metrics
MeetsMinimumBar(m) == MetricsOf(m).auroc >= MinAuroc
PassesGate(m, prev) ==
    /\ MeetsMinimumBar(m)
    /\ prev # None =>
         /\ MetricsOf(m).auroc >= MetricsOf(prev).auroc + Margin
         /\ MetricsOf(m).recall >= MetricsOf(prev).recall - MaxRegression

Init ==
    /\ VersionsInit /\ TrainingInit
    /\ dag = [r \in Runs |-> [task |-> "waiting", try |-> 1, deployed |-> "no", model |-> None]]
    /\ production = Incumbent /\ latest = Incumbent /\ displaced = None
    /\ deployments = {}
    /\ drift = [r \in Runs |-> "unknown"]
    /\ orders = 0

-----------------------------------------------------------------------------
(* What starts a run *)

\* Someone triggers the DAG.
Trigger(r) ==
    /\ dag[r].task = "waiting"
    /\ dag' = [dag EXCEPT ![r].task = "version"]
    /\ drift' = [drift EXCEPT ![r] = "unknown"]
    /\ UNCHANGED <<imageVars, faults, versionVars, trainVars, slotVars>>

\* check_drift: GenerateDriftReport compares the windows of the production model; below
\* min_samples it compares nothing.  Without such a model it raises.
CheckDrift(r) ==
    /\ dag[r].task = "waiting" /\ drift[r] = "unknown" /\ production # None
    /\ \E w \in Windows :
         drift' = [drift EXCEPT ![r] =
             Severity(IF w.samples >= MinSamples THEN w ELSE [w EXCEPT !.signals = {}])]
    /\ UNCHANGED <<imageVars, faults, versionVars, trainVars, dag, slotVars>>

\* trigger_retraining_if_needed.
TriggerOnDrift(r) ==
    /\ dag[r].task = "waiting" /\ drift[r] \in {"medium", "high"}
    /\ dag' = [dag EXCEPT ![r].task = "version"]
    /\ drift' = [drift EXCEPT ![r] = "unknown"]
    /\ UNCHANGED <<imageVars, faults, versionVars, trainVars, slotVars>>

-----------------------------------------------------------------------------
(* The tasks *)

\* The subprocess of the current try starts its use case.
StartVersion(r) ==
    /\ dag[r].task = "version" /\ Begin(Current(r))
    /\ UNCHANGED <<imageVars, trainVars, dagVars, slotVars>>

StartTrain(r) ==
    /\ dag[r].task = "train" /\ Load(Current(r))
    /\ UNCHANGED <<imageVars, versionVars, dagVars, slotVars>>

\* A version that someone asks for outside the DAG.
OperatorVersion(c) ==
    /\ c \notin Runs \X Tries /\ Begin(c)
    /\ UNCHANGED <<imageVars, trainVars, dagVars, slotVars>>

FreezeStep(c) ==
    /\ FreezeOn(c)
    /\ UNCHANGED <<imageVars, trainVars, dagVars, slotVars>>
TrainStep(t) ==
    /\ TrainOn(t)
    /\ UNCHANGED <<imageVars, versionVars, dagVars, slotVars>>
FreezeFails(c) ==
    /\ VersionFails(c)
    /\ UNCHANGED <<imageVars, trainVars, dagVars, slotVars>>
TrainFails(t) ==
    /\ TrainingFails(t)
    /\ UNCHANGED <<imageVars, versionVars, dagVars, slotVars>>

NextTask(r, task, model) ==
    dag' = [dag EXCEPT ![r] = [task |-> task, try |-> 1, deployed |-> "no", model |-> model]]

\* The task's result reaches Airflow, and what it returns the next task.
Versioned(r) ==
    /\ dag[r].task = "version" /\ vcall[Current(r)].pc = "done"
    /\ NextTask(r, "train", None)
    /\ UNCHANGED <<imageVars, faults, versionVars, trainVars, drift, slotVars>>

Trained(r) ==
    /\ dag[r].task = "train" /\ tcall[Current(r)].pc = "done"
    /\ NextTask(r, "evaluate", Current(r))
    /\ UNCHANGED <<imageVars, faults, versionVars, trainVars, drift, slotVars>>

\* evaluate: below the floor the run skips what is left.
Evaluate(r) ==
    /\ dag[r].task = "evaluate"
    /\ NextTask(r, IF MeetsMinimumBar(dag[r].model) THEN "deploy" ELSE "skipped", dag[r].model)
    /\ UNCHANGED <<imageVars, faults, versionVars, trainVars, drift, slotVars>>

\* m goes into production and what was there is archived; if that is m, m ends up archived.
Put(m) ==
    /\ production' = IF m = production THEN None ELSE m
    /\ latest' = m /\ displaced' = IF m = latest THEN displaced ELSE latest

\* PromoteModel: promote, or record the rejection; either commits before it is reported.
Promote(m, by) ==
    LET row(action) == [action |-> action, model |-> m, prev |-> production, by |-> by] IN
    \/ /\ PassesGate(m, production) /\ Put(m)
       /\ deployments' = deployments \cup {row("promote")}
    \/ /\ ~PassesGate(m, production) /\ UNCHANGED <<production, latest, displaced>>
       /\ deployments' = deployments \cup {row("reject")}

Deploy(r) ==
    LET m == dag[r].model IN
    /\ dag[r].task = "deploy" /\ dag[r].deployed = "no" /\ Promote(m, r)
    /\ dag' = [dag EXCEPT ![r].deployed =
                 IF PassesGate(m, production) THEN "promoted" ELSE "rejected"]
    /\ UNCHANGED <<imageVars, faults, versionVars, trainVars, drift, orders>>

\* Mutant: the exit code of a rejection is taken for a success.
DeployedAnyway(r) ==
    /\ dag[r].task = "deploy" /\ dag[r].deployed # "no"
    /\ dag' = [dag EXCEPT ![r].task = "success"]
    /\ UNCHANGED <<imageVars, faults, versionVars, trainVars, drift, slotVars>>

\* Exit code 3 is a rejection and skips the task, code 0 a success.
Deployed(r) ==
    /\ dag[r].task = "deploy" /\ dag[r].deployed # "no"
    /\ dag' = [dag EXCEPT ![r].task = IF dag[r].deployed = "promoted" THEN "success" ELSE "skipped"]
    /\ UNCHANGED <<imageVars, faults, versionVars, trainVars, drift, slotVars>>

-----------------------------------------------------------------------------
(* Retries *)

\* A try has failed: DEFAULT_ARGS grants another, or the run fails.
TryAgain(r) ==
    dag' = IF dag[r].try < MaxTries
           THEN [dag EXCEPT ![r].try = @ + 1, ![r].deployed = "no"]
           ELSE [dag EXCEPT ![r].task = "failed"]

Retry(r) ==
    /\ \/ dag[r].task = "version" /\ vcall[Current(r)].pc \in {"refused", "failed"}
       \/ dag[r].task = "train" /\ tcall[Current(r)].pc \in {"refused", "failed"}
    /\ TryAgain(r)
    /\ UNCHANGED <<imageVars, faults, versionVars, trainVars, drift, slotVars>>

\* Mutant: a lost try is not tried again.
LoseForGood(r) ==
    /\ dag[r].task \in Active /\ Failing
    /\ dag' = [dag EXCEPT ![r].task = "lost"]
    /\ UNCHANGED <<imageVars, versionVars, trainVars, drift, slotVars>>

\* A try's worker is gone for Airflow, before, during or after what the try does.
Lose(r) ==
    /\ dag[r].task \in Active /\ Failing
    /\ TryAgain(r)
    /\ UNCHANGED <<imageVars, versionVars, trainVars, drift, slotVars>>

-----------------------------------------------------------------------------
(* Operators *)

\* The API and the deployment DAG promote whichever model they are given.
OperatorPromotes(o) ==
    /\ o.action = "promote" /\ o.model \in Models \cup {Incumbent} /\ Promote(o.model, None)
    /\ orders < MaxOrders /\ orders' = orders + 1
    /\ UNCHANGED <<imageVars, faults, versionVars, trainVars, dagVars>>

\* RollbackDeployment: to the model that is named, whichever it is, or to the displaced one.
Restore(o) ==
    LET m == IF o.model = None THEN displaced ELSE o.model IN
    /\ o.action = "rollback" /\ production # None /\ m \in Models \cup {Incumbent} /\ Put(m)
    /\ deployments' = deployments \cup
          {[action |-> "rollback", model |-> m, prev |-> production, by |-> None]}
    /\ orders < MaxOrders /\ orders' = orders + 1
    /\ UNCHANGED <<imageVars, faults, versionVars, trainVars, dagVars>>

ReviewStep(verdict) ==
    /\ Review(verdict)
    /\ UNCHANGED <<faults, versionVars, trainVars, dagVars, slotVars>>

Proceed(r) ==
    \/ StartVersion(r) \/ StartTrain(r) \/ Versioned(r) \/ Trained(r)
    \/ Evaluate(r) \/ Deploy(r) \/ Deployed(r) \/ Retry(r)

Next ==
    \/ \E o \in Orders : OperatorPromotes(o) \/ Restore(o)
    \/ \E verdict \in Verdicts : ReviewStep(verdict)
    \/ \E c \in VersionCalls : OperatorVersion(c) \/ FreezeStep(c) \/ FreezeFails(c)
    \/ \E t \in TrainCalls : TrainStep(t) \/ TrainFails(t)
    \/ \E r \in Runs :
         \/ Trigger(r) \/ CheckDrift(r) \/ TriggerOnDrift(r)
         \/ Proceed(r) \/ Lose(r)

Spec == Init /\ [][Next]_vars

\* The scheduler goes on, and so does a call that nobody cut off: its steps are subprocesses
\* and requests that return or raise.
FairSpec ==
    /\ Spec
    /\ \A r \in Runs : WF_vars(Proceed(r))
    /\ \A c \in VersionCalls : WF_vars(FreezeStep(c))
    /\ \A t \in TrainCalls : WF_vars(TrainStep(t))

-----------------------------------------------------------------------------
(* Properties *)

\* The types of the whole state; the bounds hold.
TypeOK ==
    /\ VersionsTypeOK /\ TrainingTypeOK
    /\ dag \in [Runs -> [task : Active \cup Ended \cup {"waiting"}, try : Tries,
                         deployed : {"no", "promoted", "rejected"}, model : TrainCalls \cup {None}]]
    /\ {production, displaced} \subseteq TrainCalls \cup {Incumbent, None}
    /\ latest \in TrainCalls \cup {Incumbent}
    /\ deployments \subseteq
          [action : {"promote", "reject", "rollback"}, model : TrainCalls \cup {Incumbent},
           prev : TrainCalls \cup {Incumbent, None}, by : Runs \cup {None}]
    /\ drift \in [Runs -> Severities \cup {"unknown"}]
    /\ orders \in 0..MaxOrders

\* What a run reports is what happened, whatever operators promote or roll back meanwhile.  A
\* success has put its model into production, and the model was trained by the run itself on
\* the version of its name and tag; a skipped run's model was too weak or rejected, and the run
\* may have promoted it before only with an earlier try of the same deployment; a failed one
\* has used all its tries.  And the category is left without a model in production only when
\* one is put in over itself: by a rollback that names the serving version, or, when the
\* gate asks for no improvement, by a promotion of it, such as a deployment that is tried again
\* after it did promote (retraining_dag.py, _call, PromoteModel.execute).
OutcomesAreTrue ==
    /\ \A r \in Runs :
         LET m == dag[r].model
             done(action) == {d \in deployments : d.action = action /\ d.model = m /\ d.by = r}
         IN
         /\ dag[r].task \in {"evaluate", "deploy", "success", "skipped"} =>
              m \in Models /\ m[1] = r /\ Key(tcall[m].version) = Key(<<r, 1>>)
         /\ dag[r].task = "success" => MeetsMinimumBar(m) /\ done("promote") # {}
         /\ dag[r].task = "skipped" =>
              /\ ~MeetsMinimumBar(m) \/ done("reject") # {}
              /\ done("promote") # {} => dag[r].try > 1
         /\ dag[r].task = "failed" => dag[r].try = MaxTries
    /\ production = None => \E d \in deployments : d.action # "reject" /\ d.prev = d.model
    /\ \A d \in deployments : d.action = "promote" /\ d.prev = d.model => Margin = 0

\* Every run that is started ends, whatever fails, is lost or waits for another call's
\* uncommitted dataset or tag.
EveryRunEnds == \A r \in Runs : dag[r].task = "version" ~> dag[r].task \in Ended
==============================================================================
