------------------------------ MODULE Deployment ------------------------------
(***************************************************************************)
(* Promotion and rollback of model versions: PromoteModel.execute,          *)
(* RollbackDeployment.execute, the stage machine of ModelVersion, the rows  *)
(* of model_versions and deployments, and the MLflow registry that mirrors  *)
(* their stages.                                                            *)
(*                                                                          *)
(* A session is one call of a use case: an HTTP request, a CLI command or   *)
(* the retraining pipeline's deploy step, each in a process of its own.     *)
(* The calls of a session are the awaits at which another session may run.  *)
(* Its transaction reads committed rows, keeps what it read (the identity   *)
(* map), writes its changes when the deployment record is flushed, row by   *)
(* row in primary-key order, and holds those row locks to its end.  The     *)
(* registry is outside the transaction: what it was told stays.             *)
(***************************************************************************)
EXTENDS Integers, FiniteSets

CONSTANTS
    Sessions,       \* calls that may run at the same time
    Models,         \* registered model versions
    Categories,
    None,           \* no model, no session
    CategoryOf,     \* the category each model was trained for
    Created,        \* registration order: created_at, and the UUIDv7 primary key
    Auroc, Recall,  \* each model's held-out image AUROC and recall, in points
    MinAuroc, Margin, MaxRegression,  \* the PromotionGate
    Commands,       \* the commands callers send
    HistoryLimit,   \* list_deployments' limit
    MaxCommands,    \* bound: commands in a behaviour
    MaxFailures     \* bound: sessions that fail on the way

Stages == {"development", "staging", "production", "archived"}

ASSUME ModelsAssumption ==
    /\ None \notin Models \cup Sessions
    /\ CategoryOf \in [Models -> Categories]
    /\ Created \in [Models -> Nat]
    /\ \A m, n \in Models : Created[m] = Created[n] => m = n
    /\ Auroc \in [Models -> Nat] /\ Recall \in [Models -> Nat]
ASSUME GateAssumption == MinAuroc \in Nat /\ Margin \in Nat /\ MaxRegression \in Nat
ASSUME CommandsAssumption ==
    Commands \subseteq [op : {"promote"}, category : Categories, model : Models]
                  \cup [op : {"rollback"}, category : Categories, model : Models \cup {None}]
ASSUME LimitsAssumption ==
    HistoryLimit \in Nat /\ MaxCommands \in Nat /\ MaxFailures \in Nat

VARIABLES
    stage,       \* committed rows of model_versions
    registry,    \* the stage MLflow holds for each version
    deployments, \* committed rows of deployments
    auditLen,    \* committed records of the audit log
    rowLock,     \* who holds each model's row
    chainLock,   \* who holds the audit log's advisory lock
    clock,       \* commands started, as a time
    failures,    \* sessions that failed on the way
    sess         \* each session's progress

vars == <<stage, registry, deployments, auditLen, rowLock, chainLock, clock, failures, sess>>

Unloaded == "unloaded"
StageMap == [Models -> Stages \cup {Unloaded}]

Action == {"promote", "rollback", "reject"}
Record == [at : Nat, action : Action, model : Models, prev : Models \cup {None},
           overlaps : BOOLEAN]  \* history: production changed since its call had started

Steps == {"idle", "find_incumbent", "find_target", "registry_up", "registry_down",
          "flush", "append", "commit"}

Session == [pc : Steps,
            cmd : Commands \cup {None},
            at : Nat,                      \* now, taken when the call starts
            loaded : StageMap,             \* stages as this transaction last read or wrote them
            wanted : StageMap,             \* stages its entities were given since
            subject : Models \cup {None},  \* the candidate or the restored version
            incumbent : Models \cup {None},
            action : Action,
            seen : Nat,                    \* audit head the event was built from
            before : SUBSET Record]        \* history: its category's changes when it started

NotLoaded == [m \in Models |-> Unloaded]
Fresh == [pc |-> "idle", cmd |-> None, at |-> 0, loaded |-> NotLoaded, wanted |-> NotLoaded,
          subject |-> None, incumbent |-> None, action |-> "reject", seen |-> 0,
          before |-> {}]

-----------------------------------------------------------------------------
AllowedStageTransitions ==
    [development |-> {"staging", "archived"},
     staging     |-> {"production", "development", "archived"},
     production  |-> {"staging", "archived"},
     archived    |-> {"staging"}]

CanMove(from, to) == from = to \/ to \in AllowedStageTransitions[from]

\* advance_to_production: through staging from development and archived.
CanAdvance(from) ==
    IF from \in {"development", "archived"}
    THEN CanMove(from, "staging") /\ CanMove("staging", "production")
    ELSE CanMove(from, "production")

\* Mutant: the gate has no absolute floor.
PassesWithoutFloor(candidate, production) ==
    production # None =>
      /\ Auroc[candidate] >= Auroc[production] + Margin
      /\ Recall[candidate] >= Recall[production] - MaxRegression

\* _evaluate_gate finds no reason against the candidate.
PassesGate(candidate, production) ==
    /\ Auroc[candidate] >= MinAuroc
    /\ production # None =>
         /\ Auroc[candidate] >= Auroc[production] + Margin
         /\ Recall[candidate] >= Recall[production] - MaxRegression

\* find_by_stage(category, PRODUCTION): the newest if there are several.
InProduction(c) == {m \in Models : CategoryOf[m] = c /\ stage[m] = "production"}
Incumbents(c) ==
    IF InProduction(c) = {} THEN {None}
    ELSE {m \in InProduction(c) : \A n \in InProduction(c) : Created[m] >= Created[n]}

\* list_deployments: at most HistoryLimit records of the category, newest first.
History(c) == {d \in deployments : CategoryOf[d.model] = c}
Recent(c) == {d \in History(c) :
                Cardinality({e \in History(c) : e.at > d.at}) < HistoryLimit}

ChangedProduction(d) == d.action \in {"promote", "rollback"}
Changes(c) == {d \in History(c) : ChangedProduction(d)}

\* Mutant: the serving model itself counts as an earlier version.
EarlierOrCurrent(c, current) == {d \in Recent(c) : ChangedProduction(d)}

\* _resolve_target: the one named, or the newest other model that went to production.
Earlier(c, current) == {d \in Recent(c) : ChangedProduction(d) /\ d.model # current}
Targets(cmd, current) ==
    LET found == Earlier(cmd.category, current)
    IN  IF cmd.model # None THEN {cmd.model}
        ELSE {d.model : d \in {e \in found : \A f \in found : e.at >= f.at}}

\* A row once loaded keeps the state it was loaded with for the rest of the transaction.
Load(known, m) == IF known[m] = Unloaded THEN [known EXCEPT ![m] = stage[m]] ELSE known

\* Rows whose entity differs from what the transaction loaded: the flush's UPDATEs.
Dirty(s) == {m \in Models : sess[s].wanted[m] \notin {Unloaded, sess[s].loaded[m]}}
ToLock(s) == {m \in Dirty(s) : rowLock[m] # s}

\* Mutant: rows are updated in the order the use case named them.
IsNextAsNamed(s, m) == m \in ToLock(s) /\ (m # sess[s].subject => sess[s].subject \notin ToLock(s))

IsNext(s, m) == m \in ToLock(s) /\ \A n \in ToLock(s) : Created[m] <= Created[n]

-----------------------------------------------------------------------------
Init ==
    /\ stage = [m \in Models |-> "development"]
    /\ registry = [m \in Models |-> "development"]
    /\ deployments = {}
    /\ auditLen = 0
    /\ rowLock = [m \in Models |-> None]
    /\ chainLock = None
    /\ clock = 0
    /\ failures = 0
    /\ sess = [s \in Sessions |-> Fresh]

\* The transaction ends: every lock it holds is released.
End(s) ==
    /\ sess' = [sess EXCEPT ![s] = Fresh]
    /\ rowLock' = [m \in Models |-> IF rowLock[m] = s THEN None ELSE rowLock[m]]
    /\ chainLock' = IF chainLock = s THEN None ELSE chainLock

Update(s, to) == sess' = [sess EXCEPT ![s] = to]

\* PromoteModel.execute: now, a new transaction, and the candidate's row.
BeginPromote(s, cmd) ==
    /\ sess[s].pc = "idle"
    /\ clock < MaxCommands
    /\ cmd.op = "promote"
    /\ clock' = clock + 1
    /\ Update(s, [Fresh EXCEPT !.pc = "find_incumbent", !.cmd = cmd, !.at = clock,
                               !.before = Changes(cmd.category),
                               !.loaded = Load(NotLoaded, cmd.model), !.subject = cmd.model])
    /\ UNCHANGED <<stage, registry, deployments, auditLen, rowLock, chainLock, failures>>

\* The call knows the incumbent and the gate's verdict on its candidate.
Judged(call, inc) ==
    LET passed == PassesGate(call.subject, inc)
    IN  [call EXCEPT
           !.incumbent = inc,
           !.loaded = IF inc = None THEN @ ELSE Load(@, inc),
           !.action = IF passed THEN "promote" ELSE "reject",
           !.pc = IF passed THEN "registry_up" ELSE "flush"]

\* The incumbent of the command's category, and the gate's verdict on the candidate.
FindIncumbent(s) ==
    /\ sess[s].pc = "find_incumbent"
    /\ \E inc \in Incumbents(sess[s].cmd.category) : Update(s, Judged(sess[s], inc))
    /\ UNCHANGED <<stage, registry, deployments, auditLen, rowLock, chainLock, clock, failures>>

\* RollbackDeployment.execute: now, a new transaction, the incumbent; without one,
\* NothingToRollBackError.
BeginRollback(s, cmd) ==
    /\ sess[s].pc = "idle"
    /\ clock < MaxCommands
    /\ cmd.op = "rollback"
    /\ clock' = clock + 1
    /\ \E inc \in Incumbents(cmd.category) :
           Update(s, IF inc = None THEN Fresh
                     ELSE [Fresh EXCEPT !.pc = "find_target", !.cmd = cmd, !.at = clock,
                                        !.before = Changes(cmd.category),
                                        !.loaded = Load(NotLoaded, inc), !.incumbent = inc])
    /\ UNCHANGED <<stage, registry, deployments, auditLen, rowLock, chainLock, failures>>

\* The version to restore and its row; without one, NoPriorProductionVersionError.
FindTarget(s) ==
    /\ sess[s].pc = "find_target"
    /\ LET targets == Targets(sess[s].cmd, sess[s].incumbent)
       IN  \/ targets = {} /\ Update(s, Fresh)
           \/ \E target \in targets :
                Update(s, [sess[s] EXCEPT !.pc = "registry_up", !.action = "rollback",
                                          !.subject = target, !.loaded = Load(@, target)])
    /\ UNCHANGED <<stage, registry, deployments, auditLen, rowLock, chainLock, clock, failures>>

\* The registry is told of the new production version, then its entity is updated.
RegistryUp(s) ==
    /\ sess[s].pc = "registry_up"
    /\ CanAdvance(sess[s].loaded[sess[s].subject])
    /\ registry' = [registry EXCEPT ![sess[s].subject] = "production"]
    /\ Update(s, [sess[s] EXCEPT
         !.wanted[sess[s].subject] = "production",
         !.pc = IF sess[s].incumbent = None THEN "flush" ELSE "registry_down"])
    /\ UNCHANGED <<stage, deployments, auditLen, rowLock, chainLock, clock, failures>>

\* Mutant: the registry is not told that the incumbent is archived.
RowDownOnly(s) ==
    /\ sess[s].pc = "registry_down"
    /\ Update(s, [sess[s] EXCEPT !.wanted[sess[s].incumbent] = "archived", !.pc = "flush"])
    /\ UNCHANGED <<stage, registry, deployments, auditLen, rowLock, chainLock, clock, failures>>

\* Mutant: only the registry is told that the incumbent is archived.
RegistryDownOnly(s) ==
    /\ sess[s].pc = "registry_down"
    /\ registry' = [registry EXCEPT ![sess[s].incumbent] = "archived"]
    /\ Update(s, [sess[s] EXCEPT !.pc = "flush"])
    /\ UNCHANGED <<stage, deployments, auditLen, rowLock, chainLock, clock, failures>>

\* The registry is told that the incumbent is archived, then its entity is updated.
RegistryDown(s) ==
    /\ sess[s].pc = "registry_down"
    /\ CanMove(sess[s].loaded[sess[s].incumbent], "archived")
    /\ registry' = [registry EXCEPT ![sess[s].incumbent] = "archived"]
    /\ Update(s, [sess[s] EXCEPT !.wanted[sess[s].incumbent] = "archived", !.pc = "flush"])
    /\ UNCHANGED <<stage, deployments, auditLen, rowLock, chainLock, clock, failures>>

\* Mutant: each UPDATE commits by itself.
UpdateRowNow(s) ==
    /\ sess[s].pc = "flush"
    /\ \E m \in Models :
         /\ IsNext(s, m)
         /\ rowLock[m] = None
         /\ rowLock' = [rowLock EXCEPT ![m] = s]
         /\ stage' = [stage EXCEPT ![m] = sess[s].wanted[m]]
    /\ UNCHANGED <<registry, deployments, auditLen, chainLock, clock, failures, sess>>

\* add_deployment's flush: an UPDATE per changed row, which waits for the row's lock.
UpdateRow(s) ==
    /\ sess[s].pc = "flush"
    /\ \E m \in Models :
         /\ IsNext(s, m)
         /\ rowLock[m] = None
         /\ rowLock' = [rowLock EXCEPT ![m] = s]
    /\ UNCHANGED <<stage, registry, deployments, auditLen, chainLock, clock, failures, sess>>

\* The deployment record is inserted, still invisible, and the audit log's head is read.
ReadHead(s) ==
    /\ sess[s].pc = "flush"
    /\ ToLock(s) = {}
    /\ Update(s, [sess[s] EXCEPT !.pc = "append", !.seen = auditLen])
    /\ UNCHANGED <<stage, registry, deployments, auditLen, rowLock, chainLock, clock, failures>>

\* audit.append under the advisory lock.
AppendAudit(s) ==
    /\ sess[s].pc = "append"
    /\ chainLock = None
    /\ sess[s].seen = auditLen
    /\ chainLock' = s
    /\ Update(s, [sess[s] EXCEPT !.pc = "commit"])
    /\ UNCHANGED <<stage, registry, deployments, auditLen, rowLock, clock, failures>>

\* The transaction is lost and the registry is not told.
RollBack(s) ==
    /\ End(s)
    /\ failures' = failures + 1
    /\ UNCHANGED <<stage, registry, deployments, auditLen, clock>>

\* audit.append finds that another transaction extended the log: TransientError.
RefuseAudit(s) ==
    /\ sess[s].pc = "append"
    /\ chainLock = None
    /\ sess[s].seen # auditLen
    /\ RollBack(s)

\* The registry or the database fails, the request times out, the process dies, or a
\* transaction of another use case extended the audit log first.
Fail(s) ==
    /\ sess[s].pc # "idle"
    /\ failures < MaxFailures
    /\ RollBack(s)

\* The deployment record of a call.
NewRecord(s) == [at |-> sess[s].at, action |-> sess[s].action, model |-> sess[s].subject,
                 prev |-> sess[s].incumbent,
                 overlaps |-> Changes(sess[s].cmd.category) # sess[s].before]

\* Mutant: every row the transaction loaded is written.
CommitLoaded(s) ==
    /\ sess[s].pc = "commit"
    /\ stage' = [m \in Models |-> IF sess[s].loaded[m] # Unloaded
                                  THEN sess[s].wanted[m] ELSE stage[m]]
    /\ deployments' = deployments \cup {NewRecord(s)}
    /\ auditLen' = auditLen + 1
    /\ End(s)
    /\ UNCHANGED <<registry, clock, failures>>

\* The unit of work commits: rows, record and audit event become visible together.
Commit(s) ==
    /\ sess[s].pc = "commit"
    /\ stage' = [m \in Models |-> IF rowLock[m] = s THEN sess[s].wanted[m] ELSE stage[m]]
    /\ deployments' = deployments \cup {NewRecord(s)}
    /\ auditLen' = auditLen + 1
    /\ End(s)
    /\ UNCHANGED <<registry, clock, failures>>

Begin(s) == \E cmd \in Commands : BeginPromote(s, cmd) \/ BeginRollback(s, cmd)

Continue(s) ==
    \/ FindIncumbent(s) \/ FindTarget(s)
    \/ RegistryUp(s) \/ RegistryDown(s)
    \/ UpdateRow(s) \/ ReadHead(s)
    \/ AppendAudit(s) \/ RefuseAudit(s)
    \/ Commit(s)

Next == \E s \in Sessions : Begin(s) \/ Continue(s) \/ Fail(s)

Spec == Init /\ [][Next]_vars

-----------------------------------------------------------------------------
TypeOK ==
    /\ stage \in [Models -> Stages]
    /\ registry \in [Models -> Stages]
    /\ deployments \subseteq Record
    /\ auditLen \in Nat
    /\ rowLock \in [Models -> Sessions \cup {None}]
    /\ chainLock \in Sessions \cup {None}
    /\ clock \in Nat
    /\ failures \in Nat
    /\ sess \in [Sessions -> Session]

Quiet == \A s \in Sessions : sess[s].pc = "idle"

\* Nothing serves that never passed the gate, whatever promotions and rollbacks overlapped: a
\* model in production has a promotion on record and clears the absolute floor, unless it is
\* one that a rollback names, which nothing checks.
NamedByRollback(m) == \E cmd \in Commands : cmd.op = "rollback" /\ cmd.model = m

ProductionWasEarned == \A m \in Models : stage[m] = "production" =>
    \/ NamedByRollback(m)
    \/ Auroc[m] >= MinAuroc /\ \E d \in deployments : d.action = "promote" /\ d.model = m

\* Two changes of a category overlapped: when one committed, the call of the other had started.
ChangesOverlap(c) == \E d \in Changes(c) : d.overlaps

\* What the newest of some changes left in production: its model; but nothing if it names one
\* model twice, as a retried promotion without a margin or a rollback to the serving version
\* does, since the model is put into production first and archived then.
LeftBy(changes) ==
    {d.model : d \in {e \in changes : e.model # e.prev /\ \A f \in changes : f.at <= e.at}}

\* Where no two committed changes overlapped, whatever else did (rejections, refused and
\* failed calls, calls on other categories), the slot has a history: one model serves, the
\* one the newest change put there; each change took out the very model that served until
\* then; and a promotion beat that one.
SlotHoldsUnlessChangesOverlap == \A c \in Categories : ~ChangesOverlap(c) =>
    /\ InProduction(c) = LeftBy(Changes(c))
    /\ \A d \in Changes(c) :
         /\ {d.prev} \ {None} = LeftBy({e \in Changes(c) : e.at < d.at})
         /\ d.action = "promote" => PassesGate(d.model, d.prev)

\* A stage changes only together with the record of that change and its audit event, and
\* only for the two models the record names.
ChangesAreRecorded ==
    [][stage' # stage =>
         /\ auditLen' = auditLen + 1
         /\ \E d \in deployments' \ deployments :
              /\ ChangedProduction(d)
              /\ \A m \in Models \ {d.model, d.prev} : stage'[m] = stage[m]
              /\ d.prev # None => stage'[d.prev] # "production"]_vars

\* Where a call can go on: nothing but a row's lock or the audit lock makes one wait.
CanGoOn(s) ==
    \/ sess[s].pc = "find_incumbent" /\ Incumbents(sess[s].cmd.category) # {}
    \/ sess[s].pc \in {"find_target", "commit"}
    \/ sess[s].pc = "registry_up" /\ CanAdvance(sess[s].loaded[sess[s].subject])
    \/ sess[s].pc = "registry_down" /\ CanMove(sess[s].loaded[sess[s].incumbent], "archived")
    \/ sess[s].pc = "flush" /\ ToLock(s) = {}
    \/ sess[s].pc = "flush" /\ \E m \in Models : IsNext(s, m) /\ rowLock[m] = None
    \/ sess[s].pc = "append" /\ chainLock = None

SomeCallGoesOn == Quiet \/ \E s \in Sessions : CanGoOn(s)

\* Calls that wait for each other's row locks and for the audit lock never all wait: as a
\* call has no loop, each one ends when those that can run do.
NoDeadlock == SomeCallGoesOn /\ \A s \in Sessions : CanGoOn(s) <=> ENABLED Continue(s)

\* A category never has two models in production: claimed of the application, and true
\* of calls that take turns in the category.
AtMostOneProduction == \A c \in Categories : Cardinality(InProduction(c)) <= 1

\* What a lock per category would give and the code does not: calls on one category take
\* turns, while calls on different ones overlap.
OneCallPerCategory == \A s, t \in Sessions :
    /\ sess[s].pc # "idle" /\ sess[t].pc # "idle"
    /\ sess[s].cmd.category = sess[t].cmd.category
    => s = t

\* Then a category has one model in production, and the registry is kept in sync with the
\* stages PostgreSQL decided as long as no call failed after it told the registry.
RegistryInSync == AtMostOneProduction /\ (Quiet /\ failures = 0 => registry = stage)

\* Then, too, promotions and rollbacks implement the slot they are meant to manage:
\* the production row is the slot, and the newest record that changed production names
\* the model that a rollback without a target puts back.
LastDisplaced(c) ==
    IF Changes(c) = {} THEN None
    ELSE (CHOOSE d \in Changes(c) : \A e \in Changes(c) : d.at >= e.at).prev

Slot == INSTANCE ServingSlot
    WITH serving <- [c \in Categories |-> CHOOSE m \in Incumbents(c) : TRUE],
         displaced <- [c \in Categories |-> LastDisplaced(c)],
         Of <- LAMBDA m : CategoryOf[m],
         MayServe <- PassesGate
ImplementsSlot == Slot!Spec
=============================================================================
