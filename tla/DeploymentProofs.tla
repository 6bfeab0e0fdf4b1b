--------------------------- MODULE DeploymentProofs ---------------------------
(***************************************************************************)
(* Proofs about promotion and rollback, for any number of calls, models,    *)
(* categories and commands: what holds however calls overlap, then what     *)
(* holds when the calls on one category take turns.                         *)
(***************************************************************************)
EXTENDS Deployment, FiniteSetTheorems, TLAPS

Decided == {"registry_up", "registry_down", "flush", "append", "commit"}

Writing == {"flush", "append", "commit"}

\* What a call holds while it is at each step.
CallTyped(s) ==
    /\ sess[s].pc = "idle" => sess[s] = Fresh
    /\ sess[s].pc # "idle" => sess[s].cmd \in Commands
    /\ sess[s].pc = "find_incumbent" => sess[s].subject \in Models
    /\ sess[s].pc = "find_target" => sess[s].incumbent \in Models
    /\ sess[s].pc \in Decided => sess[s].subject \in Models
    /\ sess[s].pc = "registry_down" => sess[s].incumbent \in Models
    /\ \A m \in Models : rowLock[m] = s =>
         sess[s].pc \in Writing /\ sess[s].wanted[m] # Unloaded

TypeInv == TypeOK /\ \A s \in Sessions : CallTyped(s)

\* A session that is not calling holds a record of the right shape.
LEMMA FreshType == Fresh \in Session /\ NotLoaded \in StageMap
BY DEF Fresh, NotLoaded, Session, StageMap, Steps, Action

\* The rows found in production are models.
LEMMA IncumbentsType ==
    ASSUME NEW c PROVE Incumbents(c) \subseteq Models \cup {None}
BY DEF Incumbents, InProduction

\* Loading a row keeps a transaction's view of the stages well formed.
LEMMA LoadType ==
    ASSUME NEW known \in StageMap, NEW m \in Models, stage \in [Models -> Stages]
    PROVE  Load(known, m) \in StageMap
BY DEF Load, StageMap

\* A command names its category and, except for a rollback without a target, a model.
LEMMA CommandType ==
    ASSUME NEW cmd \in Commands
    PROVE  /\ cmd.op \in {"promote", "rollback"}
           /\ cmd.model \in Models \cup {None}
           /\ cmd.op = "promote" => cmd.model \in Models
BY CommandsAssumption

\* The versions a rollback may restore are models.
LEMMA TargetsType ==
    ASSUME NEW cmd \in Commands, NEW current, deployments \subseteq Record
    PROVE  Targets(cmd, current) \subseteq Models
<1>1. Earlier(cmd.category, current) \subseteq deployments
  BY DEF Earlier, Recent, History
<1>2. \A d \in deployments : d.model \in Models
  BY DEF Record
<1>3. cmd.model # None => cmd.model \in Models
  BY CommandType
<1> QED BY <1>1, <1>2, <1>3 DEF Targets

\* A session record stays well formed when the gate has been evaluated.
LEMMA JudgedType ==
    ASSUME NEW call \in Session, NEW inc \in Models \cup {None},
           stage \in [Models -> Stages]
    PROVE  Judged(call, inc) \in Session
<1>1. (IF inc = None THEN call.loaded ELSE Load(call.loaded, inc)) \in StageMap
  BY LoadType, ModelsAssumption DEF Session
<1> QED BY <1>1 DEF Judged, Session, Steps, Action

\* The initial state is well formed.
LEMMA TypeInit == Init => TypeInv
<1> SUFFICES ASSUME Init PROVE TypeInv OBVIOUS
<1>1. TypeOK
  BY FreshType DEF Init, TypeOK, Stages
<1>2. ASSUME NEW s \in Sessions PROVE CallTyped(s)
  <2>1. sess[s] = Fresh /\ Fresh.pc = "idle" /\ \A m \in Models : rowLock[m] # s
    BY ModelsAssumption DEF Init, Fresh
  <2> QED BY <2>1 DEF CallTyped, Decided
<1> QED BY <1>1, <1>2 DEF TypeInv

\* The sessions an action of s does not concern keep what they hold.
LEMMA OthersTyped ==
    ASSUME TypeInv, NEW s \in Sessions, NEW t \in Sessions \ {s}, NEW x,
           sess' = [sess EXCEPT ![s] = x],
           \A m \in Models : rowLock'[m] = t => rowLock[m] = t
    PROVE  CallTyped(t)'
<1>1. sess'[t] = sess[t]
  BY DEF TypeInv, TypeOK
<1> QED BY <1>1 DEF TypeInv, CallTyped

\* Once a transaction has ended, its session is fresh and holds no lock.
LEMMA EndTyped ==
    ASSUME TypeInv, NEW s \in Sessions, End(s)
    PROVE  /\ \A t \in Sessions : CallTyped(t)'
           /\ sess' \in [Sessions -> Session]
           /\ rowLock' \in [Models -> Sessions \cup {None}]
           /\ chainLock' \in Sessions \cup {None}
<1>1. /\ sess' \in [Sessions -> Session]
      /\ rowLock' \in [Models -> Sessions \cup {None}]
      /\ chainLock' \in Sessions \cup {None}
  BY FreshType DEF End, TypeInv, TypeOK
<1>2. sess'[s] = Fresh /\ Fresh.pc = "idle"
  BY DEF End, TypeInv, TypeOK, Fresh
<1>3. \A m \in Models : rowLock'[m] # s
  BY ModelsAssumption DEF End
<1>4. CallTyped(s)'
  BY <1>2, <1>3 DEF CallTyped, Decided
<1>5. \A t \in Sessions \ {s} : \A m \in Models : rowLock'[m] = t => rowLock[m] = t
  BY ModelsAssumption DEF End
<1>6. \A t \in Sessions \ {s} : CallTyped(t)'
  BY <1>5, OthersTyped DEF End
<1> QED BY <1>1, <1>4, <1>6

\* The step of one call that ends nothing: what it must establish about its own session.
LEMMA StepTyped ==
    ASSUME TypeInv, NEW s \in Sessions, NEW x \in Session, Update(s, x),
           x.pc # "idle",
           x.cmd \in Commands,
           x.pc = "find_incumbent" => x.subject \in Models,
           x.pc = "find_target" => x.incumbent \in Models,
           x.pc \in Decided => x.subject \in Models,
           x.pc = "registry_down" => x.incumbent \in Models,
           \A m \in Models : rowLock[m] = s => x.pc \in Writing /\ x.wanted[m] # Unloaded,
           UNCHANGED rowLock
    PROVE  sess' \in [Sessions -> Session] /\ \A t \in Sessions : CallTyped(t)'
<1>1. sess' \in [Sessions -> Session] /\ sess'[s] = x
  BY DEF Update, TypeInv, TypeOK
<1>2. CallTyped(s)'
  BY <1>1 DEF CallTyped
<1>3. \A t \in Sessions \ {s} : CallTyped(t)'
  BY OthersTyped DEF Update
<1> QED BY <1>1, <1>2, <1>3

\* A session that goes back to rest before it took any lock is well formed.
LEMMA RestTyped ==
    ASSUME TypeInv, NEW s \in Sessions, Update(s, Fresh), UNCHANGED rowLock,
           \A m \in Models : rowLock[m] # s
    PROVE  sess' \in [Sessions -> Session] /\ \A t \in Sessions : CallTyped(t)'
<1>1. sess' \in [Sessions -> Session] /\ sess'[s] = Fresh /\ Fresh.pc = "idle"
  BY FreshType DEF Update, TypeInv, TypeOK, Fresh
<1>2. CallTyped(s)'
  BY <1>1 DEF CallTyped, Decided
<1>3. \A t \in Sessions \ {s} : CallTyped(t)'
  BY OthersTyped DEF Update
<1> QED BY <1>1, <1>2, <1>3

\* A session's record is well formed in every state.
LEMMA SessionType ==
    ASSUME TypeInv, NEW s \in Sessions
    PROVE  /\ sess[s] \in Session
           /\ sess[s].pc \in Steps
           /\ sess[s].loaded \in StageMap /\ sess[s].wanted \in StageMap
           /\ sess[s].action \in Action /\ sess[s].at \in Nat
           /\ sess[s].subject \in Models \cup {None}
           /\ sess[s].incumbent \in Models \cup {None}
BY DEF TypeInv, TypeOK, Session

\* Every step keeps the state well formed.
LEMMA TypeStep == TypeInv /\ [Next]_vars => TypeInv'
<1> SUFFICES ASSUME TypeInv, [Next]_vars PROVE TypeInv' OBVIOUS
<1> USE SessionType
<1>0. /\ stage \in [Models -> Stages] /\ registry \in [Models -> Stages]
      /\ deployments \subseteq Record
      /\ auditLen \in Nat /\ clock \in Nat /\ failures \in Nat
      /\ rowLock \in [Models -> Sessions \cup {None}] /\ chainLock \in Sessions \cup {None}
      /\ sess \in [Sessions -> Session]
  BY DEF TypeInv, TypeOK
<1>1. ASSUME NEW s \in Sessions, NEW cmd \in Commands, BeginPromote(s, cmd) PROVE TypeInv'
  <2> DEFINE x == [Fresh EXCEPT !.pc = "find_incumbent", !.cmd = cmd, !.at = clock,
                                !.before = Changes(cmd.category),
                                !.loaded = Load(NotLoaded, cmd.model), !.subject = cmd.model]
  <2>0. Changes(cmd.category) \subseteq Record
    BY <1>0 DEF Changes, History
  <2>1. cmd.model \in Models
    BY <1>1, CommandType DEF BeginPromote
  <2>2. Load(NotLoaded, cmd.model) \in StageMap
    BY <1>0, <2>1, LoadType, FreshType
  <2>3. x \in Session /\ x.pc = "find_incumbent" /\ x.cmd = cmd /\ x.subject = cmd.model
    BY <1>0, <2>0, <2>1, <2>2, FreshType DEF Session, Fresh, Steps
  <2>4. \A m \in Models : rowLock[m] # s
    BY <1>1 DEF BeginPromote, TypeInv, CallTyped, Writing
  <2>5. Update(s, x) /\ UNCHANGED <<stage, registry, deployments, auditLen, rowLock, chainLock, failures>>
        /\ clock' \in Nat
    BY <1>0, <1>1 DEF BeginPromote
  <2> HIDE DEF x
  <2>6. sess' \in [Sessions -> Session] /\ \A t \in Sessions : CallTyped(t)'
    BY <2>1, <2>3, <2>4, <2>5, StepTyped DEF Decided
  <2> QED BY <1>0, <2>5, <2>6 DEF TypeInv, TypeOK
<1>2. ASSUME NEW s \in Sessions, NEW cmd \in Commands, BeginRollback(s, cmd) PROVE TypeInv'
  <2>1. PICK inc \in Incumbents(cmd.category) :
          Update(s, IF inc = None THEN Fresh
                    ELSE [Fresh EXCEPT !.pc = "find_target", !.cmd = cmd, !.at = clock,
                                       !.before = Changes(cmd.category),
                                       !.loaded = Load(NotLoaded, inc), !.incumbent = inc])
    BY <1>2 DEF BeginRollback
  <2>2. UNCHANGED <<stage, registry, deployments, auditLen, rowLock, chainLock, failures>>
        /\ clock' \in Nat
    BY <1>0, <1>2 DEF BeginRollback
  <2>3. \A m \in Models : rowLock[m] # s
    BY <1>2 DEF BeginRollback, TypeInv, CallTyped, Writing
  <2>4. sess' \in [Sessions -> Session] /\ \A t \in Sessions : CallTyped(t)'
    <3>1. CASE inc = None
      BY <2>1, <2>2, <2>3, <3>1, RestTyped
    <3>2. CASE inc # None
      <4> DEFINE x == [Fresh EXCEPT !.pc = "find_target", !.cmd = cmd, !.at = clock,
                                    !.before = Changes(cmd.category),
                                    !.loaded = Load(NotLoaded, inc), !.incumbent = inc]
      <4>0. Changes(cmd.category) \subseteq Record
        BY <1>0 DEF Changes, History
      <4>1. inc \in Models
        BY <2>1, <3>2, IncumbentsType
      <4>2. Load(NotLoaded, inc) \in StageMap
        BY <1>0, <4>1, LoadType, FreshType
      <4>3. x \in Session /\ x.pc = "find_target" /\ x.cmd = cmd /\ x.incumbent = inc
        BY <1>0, <4>0, <4>1, <4>2, FreshType DEF Session, Fresh, Steps
      <4>4. Update(s, x)
        BY <2>1, <3>2
      <4> HIDE DEF x
      <4> QED BY <2>2, <2>3, <4>1, <4>3, <4>4, StepTyped DEF Decided
    <3> QED BY <3>1, <3>2
  <2> QED BY <1>0, <2>2, <2>4 DEF TypeInv, TypeOK
<1>3. ASSUME NEW s \in Sessions, FindIncumbent(s) PROVE TypeInv'
  <2>1. PICK inc \in Incumbents(sess[s].cmd.category) : Update(s, Judged(sess[s], inc))
    BY <1>3 DEF FindIncumbent
  <2>2. inc \in Models \cup {None}
    BY <2>1, IncumbentsType
  <2> DEFINE x == Judged(sess[s], inc)
  <2>3. x \in Session
    BY <1>0, <2>2, JudgedType
  <2>4. x.pc \in {"registry_up", "flush"} /\ x.cmd = sess[s].cmd /\ x.subject = sess[s].subject
    BY <1>0 DEF Judged, Session
  <2>5. sess[s].cmd \in Commands /\ sess[s].subject \in Models /\ \A m \in Models : rowLock[m] # s
    BY <1>3 DEF FindIncumbent, TypeInv, CallTyped, Writing
  <2>6. UNCHANGED <<stage, registry, deployments, auditLen, rowLock, chainLock, clock, failures>>
    BY <1>3 DEF FindIncumbent
  <2>7. Update(s, x)
    BY <2>1
  <2> HIDE DEF x
  <2>8. sess' \in [Sessions -> Session] /\ \A t \in Sessions : CallTyped(t)'
    BY <2>3, <2>4, <2>5, <2>6, <2>7, StepTyped DEF Decided
  <2> QED BY <1>0, <2>6, <2>8 DEF TypeInv, TypeOK
<1>4. ASSUME NEW s \in Sessions, FindTarget(s) PROVE TypeInv'
  <2>1. UNCHANGED <<stage, registry, deployments, auditLen, rowLock, chainLock, clock, failures>>
    BY <1>4 DEF FindTarget
  <2>2. sess[s].cmd \in Commands /\ \A m \in Models : rowLock[m] # s
    BY <1>4 DEF FindTarget, TypeInv, CallTyped, Writing
  <2>3. sess' \in [Sessions -> Session] /\ \A t \in Sessions : CallTyped(t)'
    <3>1. CASE Update(s, Fresh)
      BY <2>1, <2>2, <3>1, RestTyped
    <3>2. ASSUME NEW target \in Targets(sess[s].cmd, sess[s].incumbent),
                 Update(s, [sess[s] EXCEPT !.pc = "registry_up", !.action = "rollback",
                                           !.subject = target, !.loaded = Load(@, target)])
          PROVE  sess' \in [Sessions -> Session] /\ \A t \in Sessions : CallTyped(t)'
      <4> DEFINE x == [sess[s] EXCEPT !.pc = "registry_up", !.action = "rollback",
                                      !.subject = target, !.loaded = Load(sess[s].loaded, target)]
      <4>1. target \in Models
        BY <1>0, <2>2, TargetsType
      <4>2. Load(sess[s].loaded, target) \in StageMap
        BY <1>0, <4>1, LoadType
      <4>3. x \in Session /\ x.pc = "registry_up" /\ x.cmd = sess[s].cmd /\ x.subject = target
        BY ZenonT(60), <1>0, <4>1, <4>2 DEF Session, Steps, Action
      <4>4. Update(s, x)
        BY <1>0, <3>2 DEF Session
      <4> HIDE DEF x
      <4> QED BY <2>1, <2>2, <4>1, <4>3, <4>4, StepTyped DEF Decided
    <3> QED BY <1>4, <3>1, <3>2 DEF FindTarget
  <2> QED BY <1>0, <2>1, <2>3 DEF TypeInv, TypeOK
<1>5. ASSUME NEW s \in Sessions, RegistryUp(s) PROVE TypeInv'
  <2>1. sess[s].subject \in Models /\ sess[s].cmd \in Commands /\ \A m \in Models : rowLock[m] # s
    BY <1>5 DEF RegistryUp, TypeInv, CallTyped, Decided, Writing
  <2> DEFINE x == [sess[s] EXCEPT
                     !.wanted[sess[s].subject] = "production",
                     !.pc = IF sess[s].incumbent = None THEN "flush" ELSE "registry_down"]
  <2>2. x \in Session /\ x.cmd = sess[s].cmd /\ x.subject = sess[s].subject
        /\ x.incumbent = sess[s].incumbent
        /\ x.pc = IF sess[s].incumbent = None THEN "flush" ELSE "registry_down"
    BY ZenonT(60), <1>0, <2>1 DEF Session, Steps, StageMap, Stages
  <2>3. Update(s, x) /\ UNCHANGED <<stage, deployments, auditLen, rowLock, chainLock, clock, failures>>
    BY <1>5 DEF RegistryUp
  <2>4. registry' \in [Models -> Stages]
    BY <1>0, <1>5 DEF RegistryUp, Stages
  <2> HIDE DEF x
  <2>5. sess' \in [Sessions -> Session] /\ \A t \in Sessions : CallTyped(t)'
    BY <2>1, <2>2, <2>3, StepTyped DEF Decided
  <2> QED BY <1>0, <2>3, <2>4, <2>5 DEF TypeInv, TypeOK
<1>6. ASSUME NEW s \in Sessions, RegistryDown(s) PROVE TypeInv'
  <2>1. /\ sess[s].subject \in Models /\ sess[s].incumbent \in Models /\ sess[s].cmd \in Commands
        /\ \A m \in Models : rowLock[m] # s
    BY <1>6 DEF RegistryDown, TypeInv, CallTyped, Decided, Writing
  <2> DEFINE x == [sess[s] EXCEPT !.wanted[sess[s].incumbent] = "archived", !.pc = "flush"]
  <2>2. x \in Session /\ x.cmd = sess[s].cmd /\ x.subject = sess[s].subject /\ x.pc = "flush"
    BY ZenonT(60), <1>0, <2>1 DEF Session, Steps, StageMap, Stages
  <2>3. Update(s, x) /\ UNCHANGED <<stage, deployments, auditLen, rowLock, chainLock, clock, failures>>
    BY <1>6 DEF RegistryDown
  <2>4. registry' \in [Models -> Stages]
    BY <1>0, <1>6 DEF RegistryDown, Stages
  <2> HIDE DEF x
  <2>5. sess' \in [Sessions -> Session] /\ \A t \in Sessions : CallTyped(t)'
    BY <2>1, <2>2, <2>3, StepTyped DEF Decided
  <2> QED BY <1>0, <2>3, <2>4, <2>5 DEF TypeInv, TypeOK
<1>7. ASSUME NEW s \in Sessions, UpdateRow(s) PROVE TypeInv'
  <2>1. PICK m \in Models : IsNext(s, m) /\ rowLock' = [rowLock EXCEPT ![m] = s]
    BY <1>7 DEF UpdateRow
  <2>2. sess[s].wanted[m] # Unloaded /\ sess[s].pc = "flush"
    BY <1>7, <2>1 DEF UpdateRow, IsNext, ToLock, Dirty
  <2>3. \A t \in Sessions : CallTyped(t)'
    BY <1>0, <1>7, <2>1, <2>2 DEF UpdateRow, TypeInv, CallTyped, Writing
  <2>4. rowLock' \in [Models -> Sessions \cup {None}]
    BY <1>0, <2>1
  <2> QED BY <1>0, <1>7, <2>3, <2>4 DEF UpdateRow, TypeInv, TypeOK
<1>8. ASSUME NEW s \in Sessions, ReadHead(s) PROVE TypeInv'
  <2>1. /\ sess[s].subject \in Models /\ sess[s].cmd \in Commands
        /\ \A m \in Models : rowLock[m] = s => sess[s].wanted[m] # Unloaded
    BY <1>8 DEF ReadHead, TypeInv, CallTyped, Decided
  <2> DEFINE x == [sess[s] EXCEPT !.pc = "append", !.seen = auditLen]
  <2>2. /\ x \in Session /\ x.cmd = sess[s].cmd /\ x.subject = sess[s].subject /\ x.pc = "append"
        /\ x.wanted = sess[s].wanted
    BY <1>0 DEF Session, Steps
  <2>3. Update(s, x)
        /\ UNCHANGED <<stage, registry, deployments, auditLen, rowLock, chainLock, clock, failures>>
    BY <1>8 DEF ReadHead
  <2> HIDE DEF x
  <2>4. sess' \in [Sessions -> Session] /\ \A t \in Sessions : CallTyped(t)'
    BY <2>1, <2>2, <2>3, StepTyped DEF Decided, Writing
  <2> QED BY <1>0, <2>3, <2>4 DEF TypeInv, TypeOK
<1>9. ASSUME NEW s \in Sessions, AppendAudit(s) PROVE TypeInv'
  <2>1. /\ sess[s].subject \in Models /\ sess[s].cmd \in Commands
        /\ \A m \in Models : rowLock[m] = s => sess[s].wanted[m] # Unloaded
    BY <1>9 DEF AppendAudit, TypeInv, CallTyped, Decided
  <2> DEFINE x == [sess[s] EXCEPT !.pc = "commit"]
  <2>2. /\ x \in Session /\ x.cmd = sess[s].cmd /\ x.subject = sess[s].subject /\ x.pc = "commit"
        /\ x.wanted = sess[s].wanted
    BY <1>0 DEF Session, Steps
  <2>3. Update(s, x) /\ UNCHANGED <<stage, registry, deployments, auditLen, rowLock, clock, failures>>
        /\ chainLock' \in Sessions \cup {None}
    BY <1>9 DEF AppendAudit
  <2> HIDE DEF x
  <2>4. sess' \in [Sessions -> Session] /\ \A t \in Sessions : CallTyped(t)'
    BY <2>1, <2>2, <2>3, StepTyped DEF Decided, Writing
  <2> QED BY <1>0, <2>3, <2>4 DEF TypeInv, TypeOK
<1>10. ASSUME NEW s \in Sessions, RollBack(s) PROVE TypeInv'
  <2>1. End(s) /\ UNCHANGED <<stage, registry, deployments, auditLen, clock>> /\ failures' \in Nat
    BY <1>0, <1>10 DEF RollBack
  <2> QED BY <1>0, <2>1, EndTyped DEF TypeInv, TypeOK
<1>11. ASSUME NEW s \in Sessions, Commit(s) PROVE TypeInv'
  <2>1. End(s) /\ UNCHANGED <<registry, clock, failures>> /\ auditLen' \in Nat
    BY <1>0, <1>11 DEF Commit
  <2>2. stage' \in [Models -> Stages]
    <3>1. \A m \in Models : rowLock[m] = s => sess[s].wanted[m] \in Stages
      BY <1>0 DEF TypeInv, CallTyped, StageMap
    <3> QED BY <1>0, <1>11, <3>1 DEF Commit
  <2>3. sess[s].subject \in Models
    BY <1>11 DEF Commit, TypeInv, CallTyped, Decided
  <2>4. deployments' \subseteq Record
    <3>1. PICK o \in BOOLEAN : o = (Changes(sess[s].cmd.category) # sess[s].before)
      OBVIOUS
    <3>2. NewRecord(s) = [at |-> sess[s].at, action |-> sess[s].action, model |-> sess[s].subject,
                          prev |-> sess[s].incumbent, overlaps |-> o]
      BY <3>1 DEF NewRecord
    <3>3. NewRecord(s) \in Record
      BY <2>3, <3>1, <3>2 DEF Record
    <3> QED BY <1>0, <1>11, <3>3 DEF Commit
  <2> QED BY <1>0, <2>1, <2>2, <2>4, EndTyped DEF TypeInv, TypeOK
<1>12. CASE UNCHANGED vars
  BY <1>12 DEF vars, TypeInv, TypeOK, CallTyped
<1> QED BY <1>1, <1>2, <1>3, <1>4, <1>5, <1>6, <1>7, <1>8, <1>9, <1>10, <1>11, <1>12
        DEF Next, Begin, Continue, RefuseAudit, Fail

\* Every behaviour keeps the state well formed.
LEMMA TypeInvariant == Spec => []TypeInv
BY TypeInit, TypeStep, PTL DEF Spec

\* Whatever calls overlap or fail, stages, records and locks stay what the tables can hold;
\* in particular no row is ever written with a stage its transaction did not decide.
THEOREM TypeCorrect == Spec => []TypeOK
BY TypeInvariant, PTL DEF TypeInv

-----------------------------------------------------------------------------
(***************************************************************************)
(* What a step does to the session that takes it; the others keep theirs.   *)
(***************************************************************************)
Others(s) == \A t \in Sessions \ {s} : sess'[t] = sess[t]

\* The call that has decided goes on as it decided.
Carries(s) ==
    /\ Others(s)
    /\ sess[s].pc \in Decided /\ sess'[s].pc \in Decided
    /\ sess'[s].cmd = sess[s].cmd /\ sess'[s].at = sess[s].at
    /\ sess'[s].before = sess[s].before
    /\ sess'[s].subject = sess[s].subject /\ sess'[s].incumbent = sess[s].incumbent
    /\ sess'[s].action = sess[s].action /\ sess'[s].loaded = sess[s].loaded
    /\ UNCHANGED <<stage, deployments, failures>>

\* Loading one more row keeps what was loaded, and takes the new row's committed stage.
LEMMA LoadValue ==
    ASSUME NEW known \in StageMap, NEW m \in Models
    PROVE  /\ Load(known, m)[m] = IF known[m] = Unloaded THEN stage[m] ELSE known[m]
           /\ \A n \in Models \ {m} : Load(known, m)[n] = known[n]
BY DEF Load, StageMap

\* The model found in production is in production.
LEMMA IncumbentServes ==
    ASSUME NEW c, NEW inc \in Incumbents(c), inc # None
    PROVE  inc \in Models /\ stage[inc] = "production" /\ CategoryOf[inc] = c
BY DEF Incumbents, InProduction

\* A step that gives its session a new record.
LEMMA Updated ==
    ASSUME TypeInv, NEW s \in Sessions, NEW x, Update(s, x)
    PROVE  sess'[s] = x /\ Others(s)
BY DEF Update, TypeInv, TypeOK, Others

\* A promotion starts with its candidate's row.
LEMMA BeginsPromotion ==
    ASSUME TypeInv, NEW s \in Sessions, NEW cmd \in Commands, BeginPromote(s, cmd)
    PROVE  /\ Others(s) /\ sess[s] = Fresh
           /\ cmd.op = "promote" /\ cmd.model \in Models
           /\ sess'[s].pc = "find_incumbent" /\ sess'[s].cmd = cmd /\ sess'[s].at = clock
           /\ sess'[s].subject = cmd.model /\ sess'[s].incumbent = None
           /\ sess'[s].before = Changes(cmd.category) /\ sess'[s].wanted = NotLoaded
           /\ sess'[s].loaded = Load(NotLoaded, cmd.model)
           /\ clock' = clock + 1
           /\ UNCHANGED <<stage, registry, deployments, auditLen, rowLock, chainLock, failures>>
<1> DEFINE x == [Fresh EXCEPT !.pc = "find_incumbent", !.cmd = cmd, !.at = clock,
                              !.before = Changes(cmd.category),
                              !.loaded = Load(NotLoaded, cmd.model), !.subject = cmd.model]
<1>1. cmd.model \in Models /\ sess[s] = Fresh
  BY CommandType DEF BeginPromote, TypeInv, CallTyped
<1>2. /\ x.pc = "find_incumbent" /\ x.cmd = cmd /\ x.at = clock /\ x.subject = cmd.model
      /\ x.before = Changes(cmd.category) /\ x.incumbent = None /\ x.wanted = NotLoaded /\ x.loaded = Load(NotLoaded, cmd.model)
  BY DEF Fresh
<1>3. Update(s, x)
  BY DEF BeginPromote
<1> HIDE DEF x
<1> QED BY <1>1, <1>2, <1>3, Updated DEF BeginPromote

\* A rollback starts with its incumbent's row, or is over at once.
LEMMA BeginsRollback ==
    ASSUME TypeInv, NEW s \in Sessions, NEW cmd \in Commands, BeginRollback(s, cmd)
    PROVE  /\ Others(s) /\ sess[s] = Fresh /\ cmd.op = "rollback"
           /\ \/ sess'[s] = Fresh
              \/ /\ sess'[s].pc = "find_target" /\ sess'[s].cmd = cmd /\ sess'[s].at = clock
                 /\ sess'[s].incumbent \in Incumbents(cmd.category) \ {None}
                 /\ sess'[s].before = Changes(cmd.category) /\ sess'[s].wanted = NotLoaded
                 /\ sess'[s].loaded = Load(NotLoaded, sess'[s].incumbent)
           /\ clock' = clock + 1
           /\ UNCHANGED <<stage, registry, deployments, auditLen, rowLock, chainLock, failures>>
<1>1. PICK inc \in Incumbents(cmd.category) :
        Update(s, IF inc = None THEN Fresh
                  ELSE [Fresh EXCEPT !.pc = "find_target", !.cmd = cmd, !.at = clock,
                                     !.before = Changes(cmd.category),
                                     !.loaded = Load(NotLoaded, inc), !.incumbent = inc])
  BY DEF BeginRollback
<1>2. /\ cmd.op = "rollback" /\ sess[s] = Fresh /\ clock' = clock + 1
      /\ UNCHANGED <<stage, registry, deployments, auditLen, rowLock, chainLock, failures>>
  BY DEF BeginRollback, TypeInv, CallTyped
<1>3. CASE inc = None
  BY <1>1, <1>2, <1>3, Updated
<1>4. CASE inc # None
  <2> DEFINE x == [Fresh EXCEPT !.pc = "find_target", !.cmd = cmd, !.at = clock,
                                !.before = Changes(cmd.category),
                                !.loaded = Load(NotLoaded, inc), !.incumbent = inc]
  <2>1. /\ x.pc = "find_target" /\ x.cmd = cmd /\ x.at = clock /\ x.incumbent = inc
        /\ x.wanted = NotLoaded /\ x.loaded = Load(NotLoaded, inc)
        /\ x.before = Changes(cmd.category)
    BY DEF Fresh
  <2>2. Update(s, x)
    BY <1>1, <1>4
  <2> HIDE DEF x
  <2> QED BY <1>1, <1>2, <1>4, <2>1, <2>2, Updated
<1> QED BY <1>3, <1>4

\* A promotion learns its incumbent and the gate's verdict.
LEMMA FindsIncumbent ==
    ASSUME TypeInv, NEW s \in Sessions, FindIncumbent(s)
    PROVE  /\ Others(s) /\ sess[s].pc = "find_incumbent" /\ sess[s].subject \in Models
           /\ sess'[s].cmd = sess[s].cmd /\ sess'[s].at = sess[s].at
           /\ sess'[s].before = sess[s].before
           /\ sess'[s].subject = sess[s].subject /\ sess'[s].wanted = sess[s].wanted
           /\ sess'[s].incumbent \in Incumbents(sess[s].cmd.category)
           /\ sess'[s].loaded = IF sess'[s].incumbent = None THEN sess[s].loaded
                                ELSE Load(sess[s].loaded, sess'[s].incumbent)
           /\ \/ /\ PassesGate(sess[s].subject, sess'[s].incumbent)
                 /\ sess'[s].action = "promote" /\ sess'[s].pc = "registry_up"
              \/ /\ ~PassesGate(sess[s].subject, sess'[s].incumbent)
                 /\ sess'[s].action = "reject" /\ sess'[s].pc = "flush"
           /\ UNCHANGED <<stage, registry, deployments, auditLen, rowLock, chainLock, clock, failures>>
<1>1. PICK inc \in Incumbents(sess[s].cmd.category) : Update(s, Judged(sess[s], inc))
  BY DEF FindIncumbent
<1> DEFINE x == Judged(sess[s], inc)
<1>2. /\ x.cmd = sess[s].cmd /\ x.at = sess[s].at /\ x.subject = sess[s].subject
      /\ x.wanted = sess[s].wanted /\ x.incumbent = inc /\ x.before = sess[s].before
      /\ x.loaded = IF inc = None THEN sess[s].loaded ELSE Load(sess[s].loaded, inc)
      /\ \/ PassesGate(sess[s].subject, inc) /\ x.action = "promote" /\ x.pc = "registry_up"
         \/ ~PassesGate(sess[s].subject, inc) /\ x.action = "reject" /\ x.pc = "flush"
  BY SessionType DEF Judged, Session
<1>3. Update(s, x)
  BY <1>1
<1> HIDE DEF x
<1>4. sess'[s] = x /\ Others(s)
  BY <1>3, Updated
<1>5. sess[s].pc = "find_incumbent" /\ sess[s].subject \in Models
  BY DEF FindIncumbent, TypeInv, CallTyped
<1> QED BY <1>1, <1>2, <1>4, <1>5 DEF FindIncumbent

\* A rollback learns what it restores, or gives up.
LEMMA FindsTarget ==
    ASSUME TypeInv, NEW s \in Sessions, FindTarget(s)
    PROVE  /\ Others(s) /\ sess[s].pc = "find_target"
           /\ sess[s].cmd \in Commands /\ sess[s].incumbent \in Models
           /\ \/ sess'[s] = Fresh
              \/ /\ sess'[s].pc = "registry_up" /\ sess'[s].action = "rollback"
                 /\ sess'[s].cmd = sess[s].cmd /\ sess'[s].at = sess[s].at
                 /\ sess'[s].before = sess[s].before
                 /\ sess'[s].incumbent = sess[s].incumbent /\ sess'[s].wanted = sess[s].wanted
                 /\ sess'[s].subject \in Targets(sess[s].cmd, sess[s].incumbent)
                 /\ sess'[s].subject \in Models
                 /\ sess'[s].loaded = Load(sess[s].loaded, sess'[s].subject)
           /\ UNCHANGED <<stage, registry, deployments, auditLen, rowLock, chainLock, clock, failures>>
<1>1. sess[s].pc = "find_target" /\ sess[s].cmd \in Commands /\ sess[s].incumbent \in Models
  BY DEF FindTarget, TypeInv, CallTyped
<1>2. UNCHANGED <<stage, registry, deployments, auditLen, rowLock, chainLock, clock, failures>>
  BY DEF FindTarget
<1>3. CASE Update(s, Fresh)
  BY <1>1, <1>2, <1>3, Updated
<1>4. ASSUME NEW target \in Targets(sess[s].cmd, sess[s].incumbent),
             Update(s, [sess[s] EXCEPT !.pc = "registry_up", !.action = "rollback",
                                       !.subject = target, !.loaded = Load(@, target)])
      PROVE  /\ Others(s)
             /\ sess'[s].pc = "registry_up" /\ sess'[s].action = "rollback"
             /\ sess'[s].cmd = sess[s].cmd /\ sess'[s].at = sess[s].at
             /\ sess'[s].before = sess[s].before
             /\ sess'[s].incumbent = sess[s].incumbent /\ sess'[s].wanted = sess[s].wanted
             /\ sess'[s].subject = target /\ target \in Models
             /\ sess'[s].loaded = Load(sess[s].loaded, target)
  <2> DEFINE x == [sess[s] EXCEPT !.pc = "registry_up", !.action = "rollback",
                                  !.subject = target, !.loaded = Load(sess[s].loaded, target)]
  <2>1. target \in Models
    BY <1>1, TargetsType DEF TypeInv, TypeOK
  <2>2. sess[s] \in Session
    BY SessionType
  <2>3. /\ x.pc = "registry_up" /\ x.action = "rollback" /\ x.subject = target
        /\ x.cmd = sess[s].cmd /\ x.at = sess[s].at /\ x.before = sess[s].before
        /\ x.incumbent = sess[s].incumbent /\ x.wanted = sess[s].wanted
        /\ x.loaded = Load(sess[s].loaded, target)
    BY <2>2 DEF Session
  <2>4. Update(s, x)
    BY <1>4, <2>2 DEF Session
  <2> HIDE DEF x
  <2> QED BY <2>1, <2>3, <2>4, Updated
<1> QED BY <1>1, <1>2, <1>3, <1>4 DEF FindTarget

\* The registry and the entity of the new production version move up together.
LEMMA TellsUp ==
    ASSUME TypeInv, NEW s \in Sessions, RegistryUp(s)
    PROVE  /\ Carries(s) /\ sess[s].pc = "registry_up" /\ sess[s].subject \in Models
           /\ sess'[s].pc = IF sess[s].incumbent = None THEN "flush" ELSE "registry_down"
           /\ sess'[s].wanted = [sess[s].wanted EXCEPT ![sess[s].subject] = "production"]
           /\ registry' = [registry EXCEPT ![sess[s].subject] = "production"]
           /\ UNCHANGED <<auditLen, rowLock, chainLock, clock>>
<1> DEFINE x == [sess[s] EXCEPT
                   !.wanted[sess[s].subject] = "production",
                   !.pc = IF sess[s].incumbent = None THEN "flush" ELSE "registry_down"]
<1>1. sess[s].pc = "registry_up" /\ sess[s].subject \in Models
  BY DEF RegistryUp, TypeInv, CallTyped, Decided
<1>2. /\ x.cmd = sess[s].cmd /\ x.at = sess[s].at /\ x.subject = sess[s].subject
      /\ x.incumbent = sess[s].incumbent /\ x.action = sess[s].action /\ x.loaded = sess[s].loaded
      /\ x.before = sess[s].before
      /\ x.pc = IF sess[s].incumbent = None THEN "flush" ELSE "registry_down"
      /\ x.wanted = [sess[s].wanted EXCEPT ![sess[s].subject] = "production"]
  BY SessionType DEF Session
<1>3. Update(s, x)
  BY DEF RegistryUp
<1> HIDE DEF x
<1>4. sess'[s] = x /\ Others(s)
  BY <1>3, Updated
<1> QED BY <1>1, <1>2, <1>4 DEF RegistryUp, Carries, Decided

\* The registry and the entity of the displaced version move down together.
LEMMA TellsDown ==
    ASSUME TypeInv, NEW s \in Sessions, RegistryDown(s)
    PROVE  /\ Carries(s) /\ sess[s].pc = "registry_down" /\ sess[s].incumbent \in Models
           /\ sess'[s].pc = "flush"
           /\ sess'[s].wanted = [sess[s].wanted EXCEPT ![sess[s].incumbent] = "archived"]
           /\ registry' = [registry EXCEPT ![sess[s].incumbent] = "archived"]
           /\ UNCHANGED <<auditLen, rowLock, chainLock, clock>>
<1> DEFINE x == [sess[s] EXCEPT !.wanted[sess[s].incumbent] = "archived", !.pc = "flush"]
<1>1. sess[s].pc = "registry_down" /\ sess[s].incumbent \in Models
  BY DEF RegistryDown, TypeInv, CallTyped
<1>2. /\ x.cmd = sess[s].cmd /\ x.at = sess[s].at /\ x.subject = sess[s].subject
      /\ x.incumbent = sess[s].incumbent /\ x.action = sess[s].action /\ x.loaded = sess[s].loaded
      /\ x.before = sess[s].before
      /\ x.pc = "flush"
      /\ x.wanted = [sess[s].wanted EXCEPT ![sess[s].incumbent] = "archived"]
  BY SessionType DEF Session
<1>3. Update(s, x)
  BY DEF RegistryDown
<1> HIDE DEF x
<1>4. sess'[s] = x /\ Others(s)
  BY <1>3, Updated
<1> QED BY <1>1, <1>2, <1>4 DEF RegistryDown, Carries, Decided

\* The flush, the reading of the head and the audit event leave the decision alone; a call
\* that leaves the flush has every row it wanted to change.
LEMMA Writes ==
    ASSUME TypeInv, NEW s \in Sessions, UpdateRow(s) \/ ReadHead(s) \/ AppendAudit(s)
    PROVE  /\ Carries(s)
           /\ sess'[s].wanted = sess[s].wanted
           /\ sess[s].pc \in Writing /\ sess'[s].pc \in Writing
           /\ sess'[s].pc # "flush" => sess[s].pc = "append" \/ ToLock(s) = {}
           /\ \A t \in Sessions : \A m \in Models : rowLock[m] = t => rowLock'[m] = t
           /\ UNCHANGED <<registry, auditLen, clock>>
<1>1. CASE UpdateRow(s)
  <2>1. PICK m \in Models : rowLock[m] = None /\ rowLock' = [rowLock EXCEPT ![m] = s]
    BY <1>1 DEF UpdateRow
  <2>2. \A t \in Sessions : \A n \in Models : rowLock[n] = t => rowLock'[n] = t
    BY <2>1, ModelsAssumption DEF TypeInv, TypeOK
  <2>3. UNCHANGED <<sess, stage, registry, deployments, auditLen, clock, failures>>
        /\ sess[s].pc = "flush"
    BY <1>1 DEF UpdateRow
  <2> QED BY <2>2, <2>3 DEF Carries, Others, Decided, Writing
<1>2. CASE ReadHead(s)
  <2> DEFINE x == [sess[s] EXCEPT !.pc = "append", !.seen = auditLen]
  <2>1. /\ x.cmd = sess[s].cmd /\ x.at = sess[s].at /\ x.subject = sess[s].subject
        /\ x.incumbent = sess[s].incumbent /\ x.action = sess[s].action
        /\ x.loaded = sess[s].loaded /\ x.wanted = sess[s].wanted
        /\ x.before = sess[s].before /\ x.pc = "append"
    BY SessionType DEF Session
  <2>2. Update(s, x)
    BY <1>2 DEF ReadHead
  <2> HIDE DEF x
  <2>3. sess'[s] = x /\ Others(s)
    BY <2>2, Updated
  <2> QED BY <1>2, <2>1, <2>3 DEF ReadHead, Carries, Decided, Writing
<1>3. CASE AppendAudit(s)
  <2> DEFINE x == [sess[s] EXCEPT !.pc = "commit"]
  <2>1. /\ x.cmd = sess[s].cmd /\ x.at = sess[s].at /\ x.subject = sess[s].subject
        /\ x.incumbent = sess[s].incumbent /\ x.action = sess[s].action
        /\ x.loaded = sess[s].loaded /\ x.wanted = sess[s].wanted
        /\ x.before = sess[s].before /\ x.pc = "commit"
    BY SessionType DEF Session
  <2>2. Update(s, x)
    BY <1>3 DEF AppendAudit
  <2> HIDE DEF x
  <2>3. sess'[s] = x /\ Others(s)
    BY <2>2, Updated
  <2> QED BY <1>3, <2>1, <2>3 DEF AppendAudit, Carries, Decided, Writing
<1> QED BY <1>1, <1>2, <1>3

\* A transaction that ends leaves its session at rest and the others' locks alone.
LEMMA Ends ==
    ASSUME TypeInv, NEW s \in Sessions, End(s)
    PROVE  /\ Others(s) /\ sess'[s] = Fresh
           /\ \A t \in Sessions \ {s} : \A m \in Models : rowLock[m] = t => rowLock'[m] = t
BY DEF End, Others, TypeInv, TypeOK

\* The steps of Next, one call's at a time.
LEMMA StepCases ==
    ASSUME Next
    PROVE  \E s \in Sessions :
             \/ \E cmd \in Commands : BeginPromote(s, cmd) \/ BeginRollback(s, cmd)
             \/ FindIncumbent(s) \/ FindTarget(s) \/ RegistryUp(s) \/ RegistryDown(s)
             \/ UpdateRow(s) \/ ReadHead(s) \/ AppendAudit(s)
             \/ RollBack(s) \/ Commit(s)
BY DEF Next, Begin, Continue, RefuseAudit, Fail

-----------------------------------------------------------------------------
(***************************************************************************)
(* What a call plans: the rows it has loaded and the stages it has given    *)
(* them, at each step.  It holds of any commands, those that name their own *)
(* incumbent as the version to restore included: that one ends archived.    *)
(***************************************************************************)
Changing(s) == sess[s].pc \in Decided /\ sess[s].action # "reject"

Plan(s) ==
    /\ sess[s].pc = "find_incumbent" =>
         \A m \in Models \ {sess[s].subject} : sess[s].loaded[m] = Unloaded
    /\ sess[s].pc = "find_target" => /\ sess[s].cmd.op = "rollback"
                                     /\ sess[s].loaded[sess[s].incumbent] = "production"
    /\ sess[s].pc \in {"find_incumbent", "find_target", "registry_up"} => sess[s].wanted = NotLoaded
    /\ Changing(s) /\ sess[s].incumbent \notin {None, sess[s].subject} =>
         sess[s].loaded[sess[s].incumbent] = "production"
    /\ sess[s].pc \in {"registry_up", "registry_down"} => sess[s].action # "reject"
    /\ sess[s].pc = "registry_down" =>
         \A m \in Models : sess[s].wanted[m] = IF m = sess[s].subject THEN "production" ELSE Unloaded
    /\ sess[s].pc \in Writing =>
         \A m \in Models : sess[s].wanted[m] =
           IF sess[s].action = "reject" THEN Unloaded
           ELSE IF m = sess[s].incumbent THEN "archived"
           ELSE IF m = sess[s].subject THEN "production" ELSE Unloaded
    /\ sess[s].pc \in {"append", "commit"} => ToLock(s) = {}

PlanInv == \A s \in Sessions : Plan(s)

\* A session at rest plans nothing.
LEMMA RestPlan == ASSUME NEW s, sess'[s] = Fresh PROVE Plan(s)'
<1>1. Fresh.pc = "idle"
  BY DEF Fresh
<1> QED BY <1>1 DEF Plan, Changing, Decided, Writing

\* A step that takes no lock from the other calls leaves their plans alone.
LEMMA PlanStep ==
    ASSUME TypeInv, PlanInv, NEW s \in Sessions, Others(s),
           \A t \in Sessions \ {s} : \A m \in Models : rowLock[m] = t => rowLock'[m] = t,
           Plan(s)'
    PROVE  PlanInv'
<1>1. ASSUME NEW t \in Sessions \ {s} PROVE Plan(t)'
  <2>1. sess'[t] = sess[t]
    BY DEF Others
  <2>2. ToLock(t) = {} => ToLock(t)' = {}
    BY <2>1 DEF ToLock, Dirty
  <2> QED BY <2>1, <2>2 DEF PlanInv, Plan, Changing
<1> QED BY <1>1 DEF PlanInv

\* A promotion has loaded its candidate only, then its incumbent.
LEMMA PlanFindIncumbent ==
    ASSUME TypeInv, PlanInv, NEW s \in Sessions, FindIncumbent(s)
    PROVE  Plan(s)'
<1>1. /\ sess[s].pc = "find_incumbent"
      /\ sess'[s].subject = sess[s].subject /\ sess'[s].wanted = sess[s].wanted
      /\ sess'[s].incumbent \in Incumbents(sess[s].cmd.category)
      /\ sess'[s].loaded = IF sess'[s].incumbent = None THEN sess[s].loaded
                           ELSE Load(sess[s].loaded, sess'[s].incumbent)
      /\ \/ sess'[s].action = "promote" /\ sess'[s].pc = "registry_up"
         \/ sess'[s].action = "reject" /\ sess'[s].pc = "flush"
  BY FindsIncumbent
<1>2. PICK inc : inc = sess'[s].incumbent
  OBVIOUS
<1>3. inc \notin {None, sess[s].subject} => sess'[s].loaded[inc] = "production"
  <2> SUFFICES ASSUME inc \notin {None, sess[s].subject} PROVE sess'[s].loaded[inc] = "production"
    OBVIOUS
  <2>1. inc \in Models \ {sess[s].subject} /\ stage[inc] = "production"
    BY <1>1, <1>2, IncumbentServes
  <2>2. sess[s].loaded[inc] = Unloaded /\ sess[s].loaded \in StageMap
    BY <1>1, <2>1, SessionType DEF PlanInv, Plan
  <2>3. sess'[s].loaded = Load(sess[s].loaded, inc)
    BY <1>1, <1>2
  <2> QED BY <2>1, <2>2, <2>3, LoadValue
<1>4. sess'[s].wanted = NotLoaded /\ \A m \in Models : NotLoaded[m] = Unloaded
  BY <1>1 DEF PlanInv, Plan, NotLoaded
<1> QED BY <1>1, <1>2, <1>3, <1>4 DEF Plan, Changing, Decided, Writing

\* A rollback found its incumbent in production, and loading its target does not change that.
LEMMA PlanFindTarget ==
    ASSUME TypeInv, PlanInv, NEW s \in Sessions, FindTarget(s)
    PROVE  Plan(s)'
<1>1. CASE sess'[s] = Fresh
  BY <1>1, RestPlan
<1>2. CASE /\ sess'[s].pc = "registry_up" /\ sess'[s].action = "rollback"
           /\ sess'[s].incumbent = sess[s].incumbent /\ sess'[s].wanted = sess[s].wanted
           /\ sess'[s].subject \in Models
           /\ sess'[s].loaded = Load(sess[s].loaded, sess'[s].subject)
  <2>1. /\ sess[s].incumbent \in Models /\ sess[s].loaded[sess[s].incumbent] = "production"
        /\ sess[s].wanted = NotLoaded /\ sess[s].loaded \in StageMap
    BY FindsTarget, SessionType DEF PlanInv, Plan
  <2>2. PICK m \in Models : m = sess'[s].subject
    BY <1>2
  <2>3. Load(sess[s].loaded, m)[sess[s].incumbent] = "production"
    BY <2>1, LoadValue DEF Unloaded
  <2> QED BY <1>2, <2>1, <2>2, <2>3 DEF Plan, Changing, Decided, Writing
<1> QED BY <1>1, <1>2, FindsTarget

\* The registry steps give their two entities the stages the registry is told.
LEMMA PlanRegistry ==
    ASSUME TypeInv, PlanInv, NEW s \in Sessions, RegistryUp(s) \/ RegistryDown(s)
    PROVE  Plan(s)'
<1>1. /\ Carries(s) /\ sess[s].wanted \in StageMap /\ sess[s].action # "reject"
      /\ sess[s].incumbent \notin {None, sess[s].subject} =>
           sess[s].loaded[sess[s].incumbent] = "production"
  BY TellsUp, TellsDown, SessionType DEF PlanInv, Plan, Changing, Carries
<1>2. \A m \in Models : m # None
  BY ModelsAssumption
<1>3. CASE RegistryUp(s)
  <2>1. /\ sess'[s].pc = IF sess[s].incumbent = None THEN "flush" ELSE "registry_down"
        /\ sess'[s].wanted = [NotLoaded EXCEPT ![sess[s].subject] = "production"]
    BY <1>3, TellsUp DEF PlanInv, Plan
  <2>2. \A m \in Models : sess'[s].wanted[m] = IF m = sess[s].subject THEN "production" ELSE Unloaded
    BY <2>1 DEF NotLoaded
  <2>3. CASE sess[s].incumbent = None
    BY <1>1, <1>2, <2>1, <2>2, <2>3 DEF Carries, Plan, Changing, Writing
  <2>4. CASE sess[s].incumbent # None
    BY <1>1, <2>1, <2>2, <2>4 DEF Carries, Plan, Changing, Writing
  <2> QED BY <2>3, <2>4
<1>4. CASE RegistryDown(s)
  <2>1. /\ sess'[s].pc = "flush" /\ sess[s].incumbent \in Models
        /\ sess'[s].wanted = [sess[s].wanted EXCEPT ![sess[s].incumbent] = "archived"]
        /\ \A m \in Models : sess[s].wanted[m] = IF m = sess[s].subject THEN "production" ELSE Unloaded
    BY <1>4, TellsDown DEF PlanInv, Plan
  <2>2. \A m \in Models : sess'[s].wanted[m] =
          IF m = sess[s].incumbent THEN "archived"
          ELSE IF m = sess[s].subject THEN "production" ELSE Unloaded
    BY <1>1, <2>1 DEF StageMap
  <2> QED BY <1>1, <2>1, <2>2 DEF Carries, Plan, Changing, Writing
<1> QED BY <1>3, <1>4

\* The flush and the audit event keep the plan.
LEMMA PlanWrites ==
    ASSUME TypeInv, PlanInv, NEW s \in Sessions, UpdateRow(s) \/ ReadHead(s) \/ AppendAudit(s)
    PROVE  Plan(s)'
<1>1. /\ Carries(s) /\ sess'[s].wanted = sess[s].wanted
      /\ sess[s].pc \in Writing /\ sess'[s].pc \in Writing
      /\ sess'[s].pc # "flush" => sess[s].pc = "append" \/ ToLock(s) = {}
      /\ \A m \in Models : rowLock[m] = s => rowLock'[m] = s
  BY Writes
<1>2. Plan(s)
  BY DEF PlanInv
<1>3. sess'[s].pc # "flush" => ToLock(s) = {}
  BY <1>1, <1>2 DEF Plan
<1>4. ToLock(s) = {} => ToLock(s)' = {}
  BY <1>1 DEF ToLock, Dirty, Carries
<1> QED BY <1>1, <1>2, <1>3, <1>4 DEF Plan, Changing, Carries, Writing, Decided

\* Every step keeps every plan.
LEMMA PlanNext == TypeInv /\ PlanInv /\ [Next]_vars => PlanInv'
<1> SUFFICES ASSUME TypeInv, PlanInv, [Next]_vars PROVE PlanInv' OBVIOUS
<1>1. CASE UNCHANGED vars
  BY <1>1 DEF vars, PlanInv, Plan, Changing, ToLock, Dirty
<1>2. ASSUME NEW s \in Sessions, NEW cmd \in Commands, BeginPromote(s, cmd) PROVE PlanInv'
  <2>1. \A m \in Models \ {cmd.model} : Load(NotLoaded, cmd.model)[m] = Unloaded
    BY <1>2, BeginsPromotion, LoadValue, FreshType DEF NotLoaded
  <2>2. Plan(s)'
    BY <1>2, <2>1, BeginsPromotion DEF Plan, Changing, Decided, Writing
  <2> QED BY <1>2, <2>2, BeginsPromotion, PlanStep
<1>3. ASSUME NEW s \in Sessions, NEW cmd \in Commands, BeginRollback(s, cmd) PROVE PlanInv'
  <2>1. /\ Others(s) /\ UNCHANGED rowLock /\ cmd.op = "rollback"
        /\ \/ sess'[s] = Fresh
           \/ /\ sess'[s].pc = "find_target" /\ sess'[s].cmd = cmd
              /\ sess'[s].incumbent \in Incumbents(cmd.category) \ {None}
              /\ sess'[s].wanted = NotLoaded
              /\ sess'[s].loaded = Load(NotLoaded, sess'[s].incumbent)
    BY <1>3, BeginsRollback
  <2>2. CASE sess'[s] = Fresh
    BY <2>1, <2>2, RestPlan, PlanStep
  <2>3. CASE sess'[s] # Fresh
    <3>1. PICK inc \in Incumbents(cmd.category) : inc = sess'[s].incumbent
      BY <2>1, <2>3
    <3>2. Load(NotLoaded, inc)[inc] = "production"
      BY <2>1, <2>3, <3>1, IncumbentServes, LoadValue, FreshType DEF NotLoaded
    <3>3. Plan(s)'
      BY <2>1, <2>3, <3>1, <3>2 DEF Plan, Changing, Decided, Writing
    <3> QED BY <2>1, <3>3, PlanStep
  <2> QED BY <2>2, <2>3
<1>4. ASSUME NEW s \in Sessions, FindIncumbent(s) PROVE PlanInv'
  BY <1>4, PlanFindIncumbent, FindsIncumbent, PlanStep
<1>5. ASSUME NEW s \in Sessions, FindTarget(s) PROVE PlanInv'
  BY <1>5, PlanFindTarget, FindsTarget, PlanStep
<1>6. ASSUME NEW s \in Sessions, RegistryUp(s) \/ RegistryDown(s) PROVE PlanInv'
  <2>1. Others(s) /\ UNCHANGED rowLock
    BY <1>6, TellsUp, TellsDown DEF Carries
  <2> QED BY <1>6, <2>1, PlanRegistry, PlanStep
<1>7. ASSUME NEW s \in Sessions, UpdateRow(s) \/ ReadHead(s) \/ AppendAudit(s) PROVE PlanInv'
  <2>1. /\ Others(s)
        /\ \A t \in Sessions : \A m \in Models : rowLock[m] = t => rowLock'[m] = t
    BY <1>7, Writes DEF Carries
  <2> QED BY <1>7, <2>1, PlanWrites, PlanStep
<1>8. ASSUME NEW s \in Sessions, RollBack(s) \/ Commit(s) PROVE PlanInv'
  BY <1>8, Ends, RestPlan, PlanStep DEF RollBack, Commit
<1> QED BY <1>1, <1>2, <1>3, <1>4, <1>5, <1>6, <1>7, <1>8, StepCases

\* Every behaviour keeps every plan.
LEMMA PlanInvariant == Spec => []PlanInv
<1>1. Init => PlanInv
  <2> SUFFICES ASSUME Init, NEW s \in Sessions PROVE Plan(s)
    BY DEF PlanInv
  <2>1. sess[s].pc = "idle"
    BY DEF Init, Fresh
  <2> QED BY <2>1 DEF Plan, Changing, Decided, Writing
<1> QED BY <1>1, PlanNext, TypeInvariant, PTL DEF Spec

\* What the committing call writes: its incumbent out of production, its candidate into it
\* unless they are one, and nothing else.
LEMMA CommitWrites ==
    ASSUME TypeInv, PlanInv, NEW s \in Sessions, Commit(s), NEW m \in Models
    PROVE  /\ rowLock[m] = s =>
                /\ sess[s].action # "reject"
                /\ \/ m = sess[s].incumbent /\ stage'[m] = "archived"
                   \/ /\ m = sess[s].subject /\ m # sess[s].incumbent
                      /\ stage'[m] = "production"
           /\ rowLock[m] # s => stage'[m] = stage[m]
<1>1. sess[s].pc = "commit" /\ stage'[m] = IF rowLock[m] = s THEN sess[s].wanted[m] ELSE stage[m]
  BY DEF Commit
<1>2. rowLock[m] = s => sess[s].wanted[m] # Unloaded
  BY DEF TypeInv, CallTyped
<1>3. sess[s].wanted[m] = IF sess[s].action = "reject" THEN Unloaded
           ELSE IF m = sess[s].incumbent THEN "archived"
           ELSE IF m = sess[s].subject THEN "production" ELSE Unloaded
  BY <1>1 DEF PlanInv, Plan, Writing
<1> QED BY <1>1, <1>2, <1>3

-----------------------------------------------------------------------------
(***************************************************************************)
(* Every change of a stage comes with its record.  Records are told apart   *)
(* by the time their call started, which no two calls share.                *)
(***************************************************************************)
TimeInv ==
    /\ \A d \in deployments : d.at < clock
    /\ \A d, e \in deployments : d.at = e.at => d = e
    /\ \A s \in Sessions : sess[s].pc # "idle" =>
         /\ sess[s].at < clock /\ sess[s].before \subseteq deployments
         /\ \A d \in sess[s].before : d.at < sess[s].at
         /\ \A d \in deployments : d.at # sess[s].at
         /\ \A t \in Sessions \ {s} : sess[t].pc # "idle" => sess[t].at # sess[s].at

\* What a step does to times: a call starts now, goes on, or ends, and only one that ends
\* leaves a record.
TimeStep(s) ==
    /\ \A t \in Sessions \ {s} : sess'[t] = sess[t]
    /\ \/ /\ sess'[s].at = clock /\ sess'[s].before \subseteq deployments
          /\ clock' = clock + 1 /\ deployments' = deployments
       \/ /\ sess'[s].at = sess[s].at /\ sess'[s].before = sess[s].before /\ sess[s].pc # "idle"
          /\ clock' = clock /\ deployments' = deployments
       \/ /\ sess'[s].pc = "idle" /\ clock' \in {clock, clock + 1}
          /\ \/ deployments' = deployments
             \/ sess[s].pc # "idle" /\ deployments' = deployments \cup {NewRecord(s)}

\* Times stay distinct.
LEMMA TimeKept ==
    ASSUME TypeInv, TimeInv, NEW s \in Sessions, TimeStep(s) PROVE TimeInv'
<1>1. /\ clock \in Nat /\ \A t \in Sessions : sess[t].at \in Nat
      /\ \A d \in deployments : d.at \in Nat
      /\ NewRecord(s).at = sess[s].at
  BY SessionType DEF TypeInv, TypeOK, Record, NewRecord
<1>2. CASE /\ sess'[s].at = clock /\ sess'[s].before \subseteq deployments
           /\ clock' = clock + 1 /\ deployments' = deployments
  BY <1>1, <1>2 DEF TimeInv, TimeStep
<1>3. CASE /\ sess'[s].at = sess[s].at /\ sess'[s].before = sess[s].before /\ sess[s].pc # "idle"
           /\ clock' = clock /\ deployments' = deployments
  BY <1>1, <1>3 DEF TimeInv, TimeStep
<1>4. CASE /\ sess'[s].pc = "idle" /\ clock' \in {clock, clock + 1}
           /\ deployments' = deployments
  BY <1>1, <1>4 DEF TimeInv, TimeStep
<1>5. CASE /\ sess'[s].pc = "idle" /\ clock' \in {clock, clock + 1}
           /\ sess[s].pc # "idle" /\ deployments' = deployments \cup {NewRecord(s)}
  <2>1. \A d \in deployments' : d.at < clock'
    BY <1>1, <1>5 DEF TimeInv
  <2>0. \A d, e \in deployments' : d.at = e.at => d = e
    BY <1>1, <1>5 DEF TimeInv
  <2>2. ASSUME NEW t \in Sessions, sess'[t].pc # "idle"
        PROVE  /\ sess'[t].at < clock' /\ sess'[t].before \subseteq deployments'
               /\ \A d \in sess'[t].before : d.at < sess'[t].at
               /\ \A d \in deployments' : d.at # sess'[t].at
               /\ \A u \in Sessions \ {t} : sess'[u].pc # "idle" => sess'[u].at # sess'[t].at
    <3>1. t # s /\ sess'[t] = sess[t]
      BY <1>5, <2>2 DEF TimeStep
    <3>2. \A d \in deployments : d.at # sess[t].at
      BY <2>2, <3>1 DEF TimeInv
    <3>3. sess[s].at # sess[t].at
      BY <1>5, <2>2, <3>1 DEF TimeInv
    <3>4. \A u \in Sessions \ {t} : sess'[u].pc # "idle" => sess'[u].at # sess'[t].at
      BY <1>5, <2>2, <3>1 DEF TimeInv, TimeStep
    <3> QED BY <1>1, <1>5, <2>2, <3>1, <3>2, <3>3, <3>4 DEF TimeInv
  <2> QED BY <2>0, <2>1, <2>2 DEF TimeInv
<1> QED BY <1>2, <1>3, <1>4, <1>5 DEF TimeStep

\* A step that updates its session's record and keeps its time.
\* Every step is one of those.
LEMMA TimeInvStep == TypeInv /\ TimeInv /\ [Next]_vars => TimeInv'
<1> SUFFICES ASSUME TypeInv, TimeInv, [Next]_vars PROVE TimeInv' OBVIOUS
<1>1. CASE UNCHANGED vars
  BY <1>1 DEF vars, TimeInv
<1>2. CASE Next
  <2>1. PICK s \in Sessions :
          \/ \E cmd \in Commands : BeginPromote(s, cmd) \/ BeginRollback(s, cmd)
          \/ FindIncumbent(s) \/ FindTarget(s) \/ RegistryUp(s) \/ RegistryDown(s)
          \/ UpdateRow(s) \/ ReadHead(s) \/ AppendAudit(s)
          \/ RollBack(s) \/ Commit(s)
    BY <1>2, StepCases
  <2>2. Fresh.pc = "idle"
    BY DEF Fresh
  <2> SUFFICES TimeStep(s) BY <2>1, TimeKept
  <2>3. ASSUME NEW cmd \in Commands, BeginPromote(s, cmd) \/ BeginRollback(s, cmd)
        PROVE  TimeStep(s)
    BY <2>1, <2>2, <2>3, BeginsPromotion, BeginsRollback DEF TimeStep, Others, Changes, History
  <2>4. CASE FindIncumbent(s)
    BY <2>1, <2>4, FindsIncumbent DEF TimeStep, Others
  <2>5. CASE FindTarget(s)
    BY <2>1, <2>2, <2>5, FindsTarget DEF TimeStep, Others
  <2>6. CASE RegistryUp(s) \/ RegistryDown(s)
    <3>1. Carries(s) /\ UNCHANGED clock
      BY <2>1, <2>6, TellsUp, TellsDown
    <3> QED BY <3>1 DEF TimeStep, Carries, Others, Decided
  <2>7. CASE UpdateRow(s) \/ ReadHead(s) \/ AppendAudit(s)
    <3>1. Carries(s) /\ UNCHANGED clock
      BY <2>1, <2>7, Writes
    <3> QED BY <3>1 DEF TimeStep, Carries, Others, Decided
  <2>8. CASE RollBack(s)
    BY <2>1, <2>2, <2>8, Ends DEF RollBack, TimeStep, Others
  <2>9. CASE Commit(s)
    BY <2>1, <2>2, <2>9, Ends DEF Commit, TimeStep, Others, NewRecord
  <2> QED BY <2>1, <2>3, <2>4, <2>5, <2>6, <2>7, <2>8, <2>9
<1> QED BY <1>1, <1>2

\* Every behaviour keeps times distinct.
LEMMA TimeInvariant == Spec => []TimeInv
<1>1. Init => TimeInv
  BY DEF Init, TimeInv, Fresh
<1> QED BY <1>1, TimeInvStep, TypeInvariant, PTL DEF Spec

\* A committing call that changes a stage leaves the record of that change.
LEMMA CommitRecords ==
    ASSUME TypeInv, PlanInv, TimeInv, NEW s \in Sessions, Commit(s), stage' # stage
    PROVE  /\ auditLen' = auditLen + 1
           /\ \E d \in deployments' \ deployments :
                /\ ChangedProduction(d)
                /\ \A m \in Models \ {d.model, d.prev} : stage'[m] = stage[m]
                /\ d.prev # None => stage'[d.prev] # "production"
<1> DEFINE d == NewRecord(s)
<1>1. /\ d \in deployments' /\ d.action = sess[s].action /\ d.model = sess[s].subject
      /\ d.prev = sess[s].incumbent /\ d.at = sess[s].at
      /\ sess[s].pc = "commit" /\ auditLen' = auditLen + 1
  BY DEF Commit, NewRecord
<1>2. d \notin deployments
  BY <1>1 DEF TimeInv
<1>3. PICK m \in Models : rowLock[m] = s
  <2>1. stage \in [Models -> Stages]
        /\ stage' = [m \in Models |-> IF rowLock[m] = s THEN sess[s].wanted[m] ELSE stage[m]]
    BY DEF Commit, TypeInv, TypeOK
  <2>2. SUFFICES ASSUME \A m \in Models : rowLock[m] # s PROVE FALSE
    OBVIOUS
  <2>3. stage' = [m \in Models |-> stage[m]]
    BY <2>1, <2>2
  <2> QED BY <2>1, <2>3
<1>4. sess[s].action # "reject" /\ sess[s].action \in Action
  BY <1>3, CommitWrites, SessionType
<1>5. ChangedProduction(d)
  BY <1>1, <1>4 DEF ChangedProduction, Action
<1>6. \A n \in Models \ {d.model, d.prev} : stage'[n] = stage[n]
  BY <1>1, CommitWrites
<1>7. d.prev # None => stage'[d.prev] # "production"
  <2> SUFFICES ASSUME d.prev # None PROVE stage'[d.prev] # "production" OBVIOUS
  <2>1. d.prev \in Models
    BY <1>1, SessionType
  <2>2. rowLock[d.prev] = s
    <3>1. CASE d.prev = d.model
      <4>1. m \in {sess[s].incumbent, sess[s].subject}
        BY <1>3, CommitWrites
      <4> QED BY <1>1, <1>3, <3>1, <4>1
    <3>2. CASE d.prev # d.model
      <4>1. sess[s].wanted[d.prev] = "archived" /\ sess[s].loaded[d.prev] = "production"
        BY <1>1, <1>4, <2>1, <3>2 DEF PlanInv, Plan, Changing, Decided, Writing
      <4>2. d.prev \in Dirty(s)
        BY <2>1, <4>1 DEF Dirty, Unloaded
      <4> QED BY <1>1, <4>2 DEF PlanInv, Plan, ToLock
    <3> QED BY <3>1, <3>2
  <2>3. \/ d.prev = sess[s].incumbent /\ stage'[d.prev] = "archived"
        \/ d.prev # sess[s].incumbent
    BY <2>1, <2>2, CommitWrites
  <2> QED BY <1>1, <2>3
<1> HIDE DEF d
<1> QED BY <1>1, <1>2, <1>5, <1>6, <1>7

\* No stage ever changes without its record and its audit event, and a change touches only
\* the two models its record names: whatever calls overlap, whatever versions they name.
THEOREM EveryChangeIsRecorded == Spec => ChangesAreRecorded
<1> DEFINE Recorded ==
      stage' # stage =>
         /\ auditLen' = auditLen + 1
         /\ \E d \in deployments' \ deployments :
              /\ ChangedProduction(d)
              /\ \A m \in Models \ {d.model, d.prev} : stage'[m] = stage[m]
              /\ d.prev # None => stage'[d.prev] # "production"
<1>1. TypeInv /\ PlanInv /\ TimeInv /\ [Next]_vars => [Recorded]_vars
  <2> SUFFICES ASSUME TypeInv, PlanInv, TimeInv, Next, stage' # stage PROVE Recorded
    BY DEF vars
  <2>1. PICK s \in Sessions : Begin(s) \/ Continue(s) \/ Fail(s)
    BY SMTT(60) DEF Next
  <2>2. Commit(s)
    BY <2>1 DEF Begin, Continue, Fail, RollBack, RefuseAudit, BeginPromote, BeginRollback,
       FindIncumbent, FindTarget, RegistryUp, RegistryDown, UpdateRow, ReadHead, AppendAudit
  <2> QED BY <2>2, CommitRecords
<1> QED BY <1>1, TypeInvariant, PlanInvariant, TimeInvariant, PTL DEF Spec, ChangesAreRecorded

-----------------------------------------------------------------------------
(***************************************************************************)
(* Safety.  A rollback without a target goes back to a model that has been  *)
(* in production; without named targets and with a positive margin no       *)
(* change names one model twice.                                            *)
(***************************************************************************)
Untargeted == \A cmd \in Commands : cmd.op = "rollback" => cmd.model = None

Earned(m) ==
    \/ NamedByRollback(m)
    \/ Auroc[m] >= MinAuroc /\ \E d \in deployments : d.action = "promote" /\ d.model = m

Justified(action, m, prev) ==
    /\ action = "promote" => PassesGate(m, prev)
    /\ Margin > 0 /\ Untargeted /\ action \in {"promote", "rollback"} => prev # m

RecordsSafe == \A d \in deployments :
    Justified(d.action, d.model, d.prev) /\ (ChangedProduction(d) => Earned(d.model))

\* What a call decided is the gate's verdict, or goes back to what has earned it.
CallSafe(s) == sess[s].pc \in Decided =>
    /\ Justified(sess[s].action, sess[s].subject, sess[s].incumbent)
    /\ sess[s].action = "rollback" => Earned(sess[s].subject)

SafeInv == ProductionWasEarned /\ RecordsSafe /\ \A s \in Sessions : CallSafe(s)

\* A model that would have to beat itself by a positive margin does not pass.
LEMMA NoSelfPromotion ==
    ASSUME Margin > 0, NEW m \in Models PROVE ~PassesGate(m, m)
<1>1. Auroc[m] \in Nat /\ m # None /\ Margin \in Nat
  BY ModelsAssumption, GateAssumption
<1> QED BY <1>1 DEF PassesGate

\* A session at rest claims nothing.
LEMMA RestSafe == ASSUME NEW s, sess'[s] = Fresh PROVE CallSafe(s)'
BY DEF CallSafe, Decided, Fresh

\* What the other sessions decided stays safe when records are only added.
LEMMA OthersSafe ==
    ASSUME SafeInv, NEW s \in Sessions, Others(s), deployments \subseteq deployments'
    PROVE  \A t \in Sessions \ {s} : CallSafe(t)'
<1>1. \A m : Earned(m) => Earned(m)'
  BY DEF Earned
<1>2. ASSUME NEW t \in Sessions \ {s} PROVE CallSafe(t)'
  <2>1. sess'[t] = sess[t] /\ CallSafe(t)
    BY DEF Others, SafeInv
  <2> QED BY <1>1, <2>1 DEF CallSafe
<1> QED BY <1>2

\* A step that touches neither stages nor records is safe if its own session is.
LEMMA QuietStep ==
    ASSUME SafeInv, NEW s \in Sessions, Others(s), UNCHANGED <<stage, deployments>>, CallSafe(s)'
    PROVE  SafeInv'
<1>1. \A t \in Sessions \ {s} : CallSafe(t)'
  BY OthersSafe
<1>2. ProductionWasEarned'
  BY DEF SafeInv, ProductionWasEarned
<1>3. RecordsSafe'
  BY DEF SafeInv, RecordsSafe, Earned, ChangedProduction
<1> QED BY <1>1, <1>2, <1>3 DEF SafeInv

\* A call that goes on as it decided stays safe.
LEMMA CarriesSafe ==
    ASSUME SafeInv, NEW s \in Sessions, Carries(s) PROVE SafeInv'
<1>1. CallSafe(s)'
  BY DEF SafeInv, CallSafe, Carries, Earned
<1> QED BY <1>1, QuietStep DEF Carries

\* A rollback goes back to a model it names, or to another model that earned production.
LEMMA TargetsEarned ==
    ASSUME SafeInv, NEW cmd \in Commands, cmd.op = "rollback", NEW current,
           NEW m \in Targets(cmd, current)
    PROVE  Earned(m) /\ (cmd.model = None => m # current)
<1>1. CASE cmd.model # None
  BY <1>1 DEF Targets, Earned, NamedByRollback
<1>2. CASE cmd.model = None
  <2>1. PICK d \in Earlier(cmd.category, current) : m = d.model
    BY <1>2 DEF Targets
  <2>2. d \in deployments /\ ChangedProduction(d) /\ d.model # current
    BY <2>1 DEF Earlier, Recent, History
  <2> QED BY <2>1, <2>2 DEF SafeInv, RecordsSafe
<1> QED BY <1>1, <1>2

\* The gate judges the candidate against the incumbent.
LEMMA SafeFindIncumbent ==
    ASSUME TypeInv, SafeInv, NEW s \in Sessions, FindIncumbent(s)
    PROVE  SafeInv'
<1>1. /\ Others(s) /\ sess[s].subject \in Models /\ sess'[s].subject = sess[s].subject
      /\ \/ PassesGate(sess[s].subject, sess'[s].incumbent) /\ sess'[s].action = "promote"
         \/ sess'[s].action = "reject"
      /\ UNCHANGED <<stage, deployments>>
  BY FindsIncumbent
<1>2. Justified(sess'[s].action, sess'[s].subject, sess'[s].incumbent)
  BY <1>1, NoSelfPromotion DEF Justified
<1>3. CallSafe(s)'
  BY <1>1, <1>2 DEF CallSafe, Justified
<1> QED BY <1>1, <1>3, QuietStep

\* The rollback finds the version to restore, or gives up.
LEMMA SafeFindTarget ==
    ASSUME TypeInv, PlanInv, SafeInv, NEW s \in Sessions, FindTarget(s)
    PROVE  SafeInv'
<1>1. Others(s) /\ UNCHANGED <<stage, deployments>>
  BY FindsTarget
<1>2. CASE sess'[s] = Fresh
  BY <1>1, <1>2, RestSafe, QuietStep
<1>3. CASE sess'[s] # Fresh
  <2>1. /\ sess[s].cmd \in Commands /\ sess'[s].action = "rollback"
        /\ sess'[s].incumbent = sess[s].incumbent
        /\ sess'[s].subject \in Targets(sess[s].cmd, sess[s].incumbent)
    BY <1>3, FindsTarget
  <2>2. sess[s].cmd.op = "rollback" /\ (Untargeted => sess[s].cmd.model = None)
    BY <2>1, FindsTarget DEF PlanInv, Plan, Untargeted
  <2>3. Earned(sess'[s].subject) /\ (Untargeted => sess'[s].subject # sess[s].incumbent)
    BY <2>1, <2>2, TargetsEarned
  <2>4. Earned(sess[s].subject)'
    BY <1>1, <2>3 DEF Earned
  <2>5. CallSafe(s)'
    BY <2>1, <2>3, <2>4 DEF CallSafe, Justified
  <2> QED BY <1>1, <2>5, QuietStep
<1> QED BY <1>2, <1>3

\* A model that is promoted or restored has earned it, once the record is there.
LEMMA CommitEarned ==
    ASSUME TypeInv, SafeInv, NEW s \in Sessions, Commit(s), sess[s].action # "reject",
           NEW m, m = sess[s].subject
    PROVE  Earned(m)'
<1>1. /\ deployments' = deployments \cup {NewRecord(s)} /\ sess[s].pc = "commit"
      /\ NewRecord(s).action = sess[s].action /\ NewRecord(s).model = m
  BY DEF Commit, NewRecord
<1>2. /\ Justified(sess[s].action, m, sess[s].incumbent)
      /\ sess[s].action = "rollback" => Earned(m)
      /\ sess[s].action \in Action
  BY <1>1, SessionType DEF SafeInv, CallSafe, Decided
<1>3. CASE sess[s].action = "promote"
  BY <1>1, <1>2, <1>3 DEF Earned, Justified, PassesGate
<1>4. CASE sess[s].action = "rollback"
  BY <1>1, <1>2, <1>4 DEF Earned
<1> QED BY <1>2, <1>3, <1>4 DEF Action

\* A commit is safe: what goes into production has earned it, and its record is justified.
LEMMA SafeCommit ==
    ASSUME TypeInv, PlanInv, SafeInv, NEW s \in Sessions, Commit(s)
    PROVE  SafeInv'
<1>1. /\ deployments' = deployments \cup {NewRecord(s)} /\ sess[s].pc = "commit"
      /\ NewRecord(s).action = sess[s].action /\ NewRecord(s).model = sess[s].subject
      /\ NewRecord(s).prev = sess[s].incumbent
  BY DEF Commit, NewRecord
<1>2. \A m : Earned(m) => Earned(m)'
  BY <1>1 DEF Earned
<1>3. ProductionWasEarned'
  <2> SUFFICES ASSUME NEW m \in Models, stage'[m] = "production" PROVE Earned(m)'
    BY DEF ProductionWasEarned, Earned
  <2>1. CASE rowLock[m] = s
    BY <2>1, CommitWrites, CommitEarned
  <2>2. CASE rowLock[m] # s
    BY <1>2, <2>2, CommitWrites DEF SafeInv, ProductionWasEarned, Earned
  <2> QED BY <2>1, <2>2
<1>4. RecordsSafe'
  <2> SUFFICES ASSUME NEW d \in deployments'
               PROVE  Justified(d.action, d.model, d.prev) /\ (ChangedProduction(d) => Earned(d.model)')
    BY DEF RecordsSafe, Justified, ChangedProduction
  <2>1. CASE d \in deployments
    BY <1>2, <2>1 DEF SafeInv, RecordsSafe
  <2>2. CASE d = NewRecord(s)
    BY <1>1, <2>2, CommitEarned DEF SafeInv, CallSafe, Decided, ChangedProduction
  <2> QED BY <1>1, <2>1, <2>2
<1>5. \A t \in Sessions : CallSafe(t)'
  <2>1. Others(s) /\ sess'[s] = Fresh
    BY Ends DEF Commit
  <2> QED BY <1>1, <2>1, RestSafe, OthersSafe
<1> QED BY <1>3, <1>4, <1>5 DEF SafeInv

\* Every step is safe.
LEMMA SafeStep ==
    TypeInv /\ PlanInv /\ SafeInv /\ [Next]_vars => SafeInv'
<1> SUFFICES ASSUME TypeInv, PlanInv, SafeInv, [Next]_vars PROVE SafeInv' OBVIOUS
<1>1. CASE UNCHANGED vars
  BY <1>1 DEF vars, SafeInv, ProductionWasEarned, RecordsSafe, CallSafe, Earned,
              ChangedProduction, Justified
<1>2. ASSUME NEW s \in Sessions, NEW cmd \in Commands, BeginPromote(s, cmd) PROVE SafeInv'
  <2>1. CallSafe(s)'
    BY <1>2, BeginsPromotion DEF CallSafe, Decided
  <2> QED BY <1>2, <2>1, BeginsPromotion, QuietStep
<1>3. ASSUME NEW s \in Sessions, NEW cmd \in Commands, BeginRollback(s, cmd) PROVE SafeInv'
  <2>1. CallSafe(s)'
    BY <1>3, BeginsRollback DEF CallSafe, Decided, Fresh
  <2> QED BY <1>3, <2>1, BeginsRollback, QuietStep
<1>4. ASSUME NEW s \in Sessions, FindIncumbent(s) \/ FindTarget(s) PROVE SafeInv'
  BY <1>4, SafeFindIncumbent, SafeFindTarget
<1>5. ASSUME NEW s \in Sessions, RegistryUp(s) \/ RegistryDown(s) PROVE SafeInv'
  BY <1>5, TellsUp, TellsDown, CarriesSafe
<1>6. ASSUME NEW s \in Sessions, UpdateRow(s) \/ ReadHead(s) \/ AppendAudit(s) PROVE SafeInv'
  BY <1>6, Writes, CarriesSafe
<1>7. ASSUME NEW s \in Sessions, RollBack(s) PROVE SafeInv'
  BY <1>7, Ends, RestSafe, QuietStep DEF RollBack
<1> QED BY <1>1, <1>2, <1>3, <1>4, <1>5, <1>6, <1>7, SafeCommit, StepCases

\* Every behaviour is safe.
LEMMA SafeInvariant == Spec => []SafeInv
<1>1. Init => SafeInv
  <2> SUFFICES ASSUME Init PROVE SafeInv OBVIOUS
  <2>1. ProductionWasEarned /\ RecordsSafe
    BY DEF Init, ProductionWasEarned, RecordsSafe
  <2>2. ASSUME NEW s \in Sessions PROVE CallSafe(s)
    BY DEF Init, Fresh, CallSafe, Decided
  <2> QED BY <2>1, <2>2 DEF SafeInv
<1> QED BY <1>1, SafeStep, TypeInvariant, PlanInvariant, PTL DEF Spec

\* Nothing serves that did not earn it: for any overlap of promotions and rollbacks, a model
\* in production that no rollback names has a promotion on record and clears the gate's floor.
THEOREM OnlyEarnedModelsServe == Spec => []ProductionWasEarned
BY SafeInvariant, PTL DEF SafeInv

-----------------------------------------------------------------------------
(***************************************************************************)
(* No deadlock.  Rows are locked in the order of their primary keys and the *)
(* audit log after them, so who waits for a row waits for a call that can   *)
(* go on or waits for a later row; some version was registered last.        *)
(***************************************************************************)
Registered == \E last \in Nat : \A m \in Models : Created[m] <= last

\* A call has loaded the rows it moves, has locked the rows before those it has yet to lock,
\* and holds the audit lock only to commit.
CallLocks(s) ==
    /\ sess[s].pc \in {"find_incumbent", "registry_up", "registry_down"} =>
         sess[s].loaded[sess[s].subject] # Unloaded
    /\ sess[s].pc \in {"find_target", "registry_up", "registry_down"} /\ sess[s].incumbent # None =>
         sess[s].loaded[sess[s].incumbent] # Unloaded
    /\ chainLock = s => sess[s].pc = "commit"
    /\ \A m \in Models, n \in ToLock(s) : rowLock[m] = s => Created[m] < Created[n]

LockInv == \A s \in Sessions : CallLocks(s)

\* The calls a step does not concern keep their locks and what they wait for.
LEMMA LockStep ==
    ASSUME LockInv, NEW s \in Sessions, Others(s),
           \A t \in Sessions \ {s} : \A m \in Models : rowLock'[m] = t <=> rowLock[m] = t,
           \A t \in Sessions \ {s} : chainLock' = t => chainLock = t,
           CallLocks(s)'
    PROVE  LockInv'
<1>1. ASSUME NEW t \in Sessions \ {s} PROVE CallLocks(t)'
  <2>1. sess'[t] = sess[t]
    BY DEF Others
  <2>2. ToLock(t)' = ToLock(t)
    BY <2>1 DEF ToLock, Dirty
  <2> QED BY <2>1, <2>2 DEF LockInv, CallLocks
<1> QED BY <1>1 DEF LockInv

\* A call that holds no lock yet: what it must have loaded.
LEMMA LockFree ==
    ASSUME TypeInv, LockInv, NEW s \in Sessions, Others(s),
           UNCHANGED <<rowLock, chainLock>>, sess[s].pc \notin Writing,
           sess'[s].pc \in {"find_incumbent", "registry_up", "registry_down"} =>
             sess'[s].loaded[sess'[s].subject] # Unloaded,
           /\ sess'[s].pc \in {"find_target", "registry_up", "registry_down"}
           /\ sess'[s].incumbent # None
           => sess'[s].loaded[sess'[s].incumbent] # Unloaded
    PROVE  LockInv'
<1>1. \A m \in Models : rowLock[m] # s
  BY DEF TypeInv, CallTyped
<1>2. chainLock # s
  BY DEF LockInv, CallLocks, Writing
<1>3. CallLocks(s)'
  BY <1>1, <1>2 DEF CallLocks
<1> QED BY <1>3, LockStep

\* A transaction that ends waits for nothing and holds nothing.
LEMMA LockEnd ==
    ASSUME TypeInv, LockInv, NEW s \in Sessions, End(s) PROVE LockInv'
<1>1. /\ Others(s) /\ sess'[s] = Fresh /\ Fresh.pc = "idle"
      /\ rowLock' = [m \in Models |-> IF rowLock[m] = s THEN None ELSE rowLock[m]]
      /\ chainLock' = IF chainLock = s THEN None ELSE chainLock
  BY Ends DEF End, Fresh
<1>2. None \notin Sessions
  BY ModelsAssumption
<1>3. /\ \A t \in Sessions \ {s} : \A m \in Models : rowLock'[m] = t <=> rowLock[m] = t
      /\ \A t \in Sessions \ {s} : chainLock' = t => chainLock = t
      /\ chainLock' # s /\ \A m \in Models : rowLock'[m] # s
  BY <1>1, <1>2
<1>4. CallLocks(s)'
  BY <1>1, <1>3 DEF CallLocks
<1> QED BY <1>1, <1>3, <1>4, LockStep

\* Loading a row leaves it, and what was loaded, loaded.
LEMMA Loaded ==
    ASSUME TypeInv, NEW known \in StageMap, NEW m \in Models
    PROVE  /\ Load(known, m)[m] # Unloaded
           /\ \A n \in Models : known[n] # Unloaded => Load(known, m)[n] # Unloaded
<1>1. stage[m] \in Stages /\ Unloaded \notin Stages
  BY DEF TypeInv, TypeOK, Stages, Unloaded
<1> QED BY <1>1, LoadValue

\* A call has loaded the rows it decides on.
LEMMA LockFinds ==
    ASSUME TypeInv, LockInv, NEW s \in Sessions, FindIncumbent(s) \/ FindTarget(s)
    PROVE  LockInv'
<1>1. sess[s].loaded \in StageMap /\ Fresh.pc = "idle"
  BY SessionType DEF Fresh
<1>2. CASE FindIncumbent(s)
  <2>1. /\ Others(s) /\ sess[s].pc = "find_incumbent" /\ sess[s].subject \in Models
        /\ sess'[s].subject = sess[s].subject
        /\ sess'[s].incumbent \in Incumbents(sess[s].cmd.category)
        /\ sess'[s].loaded = IF sess'[s].incumbent = None THEN sess[s].loaded
                             ELSE Load(sess[s].loaded, sess'[s].incumbent)
        /\ UNCHANGED <<rowLock, chainLock>>
    BY <1>2, FindsIncumbent
  <2>2. sess[s].loaded[sess[s].subject] # Unloaded
    BY <2>1 DEF LockInv, CallLocks
  <2>3. PICK inc \in Models \cup {None} : inc = sess'[s].incumbent
    BY <2>1, IncumbentsType
  <2>4. /\ sess'[s].loaded[sess[s].subject] # Unloaded
        /\ inc # None => sess'[s].loaded[inc] # Unloaded
    BY <1>1, <2>1, <2>2, <2>3, Loaded
  <2> QED BY <2>1, <2>3, <2>4, LockFree DEF Writing
<1>3. CASE FindTarget(s)
  <2>1. CASE sess'[s] = Fresh
    BY <1>1, <1>3, <2>1, FindsTarget, LockFree DEF Writing
  <2>2. CASE sess'[s] # Fresh
    <3>1. /\ Others(s) /\ sess[s].pc = "find_target" /\ sess[s].incumbent \in Models
          /\ sess'[s].incumbent = sess[s].incumbent /\ sess'[s].subject \in Models
          /\ sess'[s].loaded = Load(sess[s].loaded, sess'[s].subject)
          /\ UNCHANGED <<rowLock, chainLock>>
      BY <1>3, <2>2, FindsTarget
    <3>2. sess[s].incumbent # None => sess[s].loaded[sess[s].incumbent] # Unloaded
      BY <3>1 DEF LockInv, CallLocks
    <3>3. PICK m \in Models : m = sess'[s].subject
      BY <3>1
    <3>4. /\ sess'[s].loaded[m] # Unloaded
          /\ sess[s].incumbent # None => sess'[s].loaded[sess[s].incumbent] # Unloaded
      BY <1>1, <3>1, <3>2, <3>3, Loaded
    <3> QED BY <3>1, <3>3, <3>4, LockFree DEF Writing
  <2> QED BY <2>1, <2>2
<1> QED BY <1>2, <1>3

\* The first row to lock comes before the others.
LEMMA LockUpdateRow ==
    ASSUME TypeInv, LockInv, NEW s \in Sessions, UpdateRow(s) PROVE LockInv'
<1>1. PICK m \in Models : /\ IsNext(s, m) /\ rowLock[m] = None
                          /\ rowLock' = [rowLock EXCEPT ![m] = s]
  BY DEF UpdateRow
<1>2. /\ UNCHANGED <<chainLock, sess>> /\ Others(s)
      /\ sess[s].pc = "flush" /\ None \notin Sessions /\ rowLock \in [Models -> Sessions \cup {None}]
  BY ModelsAssumption DEF UpdateRow, Others, TypeInv, TypeOK
<1>3. ToLock(s)' = ToLock(s) \ {m}
  BY <1>1, <1>2 DEF ToLock, Dirty
<1>4. ASSUME NEW k \in Models, NEW n \in ToLock(s)', rowLock'[k] = s PROVE Created[k] < Created[n]
  <2>1. n \in ToLock(s) /\ n # m /\ n \in Models
    BY <1>3 DEF ToLock, Dirty
  <2>2. CASE k = m
    <3>1. Created[m] <= Created[n] /\ Created[m] # Created[n]
      BY <1>1, <2>1, ModelsAssumption DEF IsNext
    <3> QED BY <2>1, <2>2, <3>1, ModelsAssumption
  <2>3. CASE k # m
    BY <1>1, <1>2, <1>4, <2>1, <2>3 DEF LockInv, CallLocks
  <2> QED BY <2>2, <2>3
<1>5. CallLocks(s)'
  BY <1>2, <1>4 DEF LockInv, CallLocks
<1>6. \A t \in Sessions \ {s} : \A k \in Models : rowLock'[k] = t <=> rowLock[k] = t
  BY <1>1, <1>2
<1> QED BY <1>2, <1>5, <1>6, LockStep

\* With all its rows locked a call reads the head, and takes the audit lock to commit.
LEMMA LockAudit ==
    ASSUME TypeInv, LockInv, NEW s \in Sessions, ReadHead(s) \/ AppendAudit(s) PROVE LockInv'
<1>1. /\ Carries(s) /\ sess'[s].wanted = sess[s].wanted /\ UNCHANGED rowLock
      /\ \/ sess[s].pc = "flush" /\ UNCHANGED chainLock
         \/ sess'[s].pc = "commit" /\ chainLock' = s
  <2>1. ReadHead(s) => sess[s].pc = "flush" /\ UNCHANGED <<rowLock, chainLock>>
    BY DEF ReadHead
  <2>2. AppendAudit(s) => sess'[s].pc = "commit" /\ chainLock' = s /\ UNCHANGED rowLock
    BY SessionType, Updated DEF AppendAudit, Session
  <2> QED BY <2>1, <2>2, Writes
<1>2. ToLock(s)' = ToLock(s)
  BY <1>1 DEF ToLock, Dirty, Carries
<1>3. /\ chainLock' = s => sess'[s].pc = "commit"
      /\ sess'[s].pc \in Writing
      /\ \A m \in Models, n \in ToLock(s) : rowLock[m] = s => Created[m] < Created[n]
  BY <1>1, Writes DEF LockInv, CallLocks
<1>4. CallLocks(s)'
  BY <1>1, <1>2, <1>3 DEF CallLocks, Writing
<1> QED BY <1>1, <1>4, LockStep DEF Carries

\* Every step keeps the order of the locks.
LEMMA LockNext == TypeInv /\ LockInv /\ [Next]_vars => LockInv'
<1> SUFFICES ASSUME TypeInv, LockInv, [Next]_vars PROVE LockInv' OBVIOUS
<1>1. CASE UNCHANGED vars
  BY <1>1 DEF vars, LockInv, CallLocks, ToLock, Dirty
<1>2. ASSUME NEW s \in Sessions, NEW cmd \in Commands, BeginPromote(s, cmd) PROVE LockInv'
  <2>1. /\ Others(s) /\ sess[s].pc \notin Writing /\ UNCHANGED <<rowLock, chainLock>>
        /\ sess'[s].pc = "find_incumbent" /\ sess'[s].subject = cmd.model /\ cmd.model \in Models
        /\ sess'[s].loaded = Load(NotLoaded, cmd.model)
    BY <1>2, BeginsPromotion DEF Fresh, Writing
  <2>2. Load(NotLoaded, cmd.model)[cmd.model] # Unloaded
    BY <2>1, Loaded, FreshType
  <2> QED BY <2>1, <2>2, LockFree
<1>3. ASSUME NEW s \in Sessions, NEW cmd \in Commands, BeginRollback(s, cmd) PROVE LockInv'
  <2>1. Others(s) /\ sess[s].pc \notin Writing /\ UNCHANGED <<rowLock, chainLock>>
    BY <1>3, BeginsRollback DEF Fresh, Writing
  <2>2. CASE sess'[s] = Fresh
    BY <2>1, <2>2, LockFree DEF Fresh
  <2>3. CASE sess'[s] # Fresh
    <3>1. PICK inc \in Incumbents(cmd.category) \ {None} : inc = sess'[s].incumbent
      BY <1>3, <2>3, BeginsRollback
    <3>2. sess'[s].pc = "find_target" /\ sess'[s].loaded = Load(NotLoaded, inc)
      BY <1>3, <2>3, <3>1, BeginsRollback
    <3>3. Load(NotLoaded, inc)[inc] # Unloaded
      BY <3>1, IncumbentServes, Loaded, FreshType
    <3> QED BY <2>1, <3>1, <3>2, <3>3, LockFree
  <2> QED BY <2>2, <2>3
<1>4. ASSUME NEW s \in Sessions, RegistryUp(s) \/ RegistryDown(s) PROVE LockInv'
  <2>1. /\ Carries(s) /\ sess[s].pc \in {"registry_up", "registry_down"}
        /\ UNCHANGED <<rowLock, chainLock>>
    BY <1>4, TellsUp, TellsDown
  <2>2. /\ sess[s].loaded[sess[s].subject] # Unloaded
        /\ sess[s].incumbent # None => sess[s].loaded[sess[s].incumbent] # Unloaded
    BY <2>1 DEF LockInv, CallLocks
  <2> QED BY <2>1, <2>2, LockFree DEF Carries, Writing
<1> QED BY <1>1, <1>2, <1>3, <1>4, LockFinds, LockUpdateRow, LockAudit, LockEnd, StepCases
        DEF RollBack, Commit

\* Every behaviour keeps the order of the locks.
LEMMA LockInvariant == Spec => []LockInv
<1>1. Init => LockInv
  <2> SUFFICES ASSUME Init, NEW s \in Sessions PROVE CallLocks(s)
    BY DEF LockInv
  <2>1. /\ sess[s].pc = "idle" /\ chainLock # s /\ \A m \in Models : rowLock[m] # s
    BY ModelsAssumption DEF Init, Fresh
  <2> QED BY <2>1 DEF CallLocks
<1> QED BY <1>1, LockNext, TypeInvariant, PTL DEF Spec

\* Every nonempty set of naturals has a least element.
LEMMA LeastOf ==
    ASSUME NEW T \in SUBSET Nat, T # {}
    PROVE  \E x \in T : \A y \in T : x <= y
<1> DEFINE R == {ss \in Nat \X Nat : ss[1] < ss[2]}
<1>1. R = OpToRel(<, Nat)
  BY DEF OpToRel
<1>2. IsWellFoundedOn(R, Nat)
  BY <1>1, NatLessThanWellFounded
<1>3. PICK x \in T : \A y \in T : ~ (<<y, x>> \in R)
  <2> HIDE DEF R
  <2> QED BY <1>2, WFMin
<1>4. ASSUME NEW y \in T PROVE x <= y
  <2>1. x \in Nat /\ y \in Nat /\ ~(<<y, x>> \in R)
    BY <1>3
  <2> QED BY <2>1
<1> QED BY <1>4

\* Of some models one was registered first, and one last.
LEMMA FirstAndLast ==
    ASSUME NEW S \in SUBSET Models, S # {}
    PROVE  /\ \E m \in S : \A n \in S : Created[m] <= Created[n]
           /\ Registered => \E m \in S : \A n \in S : Created[m] >= Created[n]
<1>0. \A m \in S : Created[m] \in Nat
  BY ModelsAssumption
<1>1. \E m \in S : \A n \in S : Created[m] <= Created[n]
  <2> DEFINE T == {Created[m] : m \in S}
  <2>1. T \in SUBSET Nat /\ T # {}
    BY <1>0
  <2>2. PICK x \in T : \A y \in T : x <= y
    <3> HIDE DEF T
    <3> QED BY <2>1, LeastOf
  <2> QED BY <2>2
<1>2. ASSUME Registered PROVE \E m \in S : \A n \in S : Created[m] >= Created[n]
  <2>1. PICK last \in Nat : \A m \in Models : Created[m] <= last
    BY <1>2 DEF Registered
  <2> DEFINE T == {last - Created[m] : m \in S}
  <2>2. T \in SUBSET Nat /\ T # {}
    BY <1>0, <2>1
  <2>3. PICK x \in T : \A y \in T : x <= y
    <3> HIDE DEF T
    <3> QED BY <2>2, LeastOf
  <2>4. PICK m \in S : x = last - Created[m]
    OBVIOUS
  <2>5. \A n \in S : last - Created[m] <= last - Created[n]
    BY <2>3, <2>4
  <2>6. \A n \in S : Created[m] >= Created[n]
    BY <1>0, <2>1, <2>5
  <2> QED BY <2>6
<1> QED BY <1>1, <1>2

\* A call that cannot go on waits for a row that another call holds, or for the audit lock.
LEMMA WhatACallWaitsFor ==
    ASSUME Registered, TypeInv, LockInv, NEW s \in Sessions, sess[s].pc # "idle", ~CanGoOn(s)
    PROVE  \/ sess[s].pc = "append" /\ chainLock # None
           \/ /\ sess[s].pc = "flush"
              /\ \E m \in Models : IsNext(s, m) /\ rowLock[m] \in Sessions \ {s}
<1>1. sess[s].pc \in Steps \ {"idle", "find_target", "commit"}
  BY SessionType DEF CanGoOn
<1>2. sess[s].pc # "find_incumbent"
  <2> DEFINE c == sess[s].cmd.category
  <2>1. InProduction(c) # {} => \E m \in InProduction(c) :
          \A n \in InProduction(c) : Created[m] >= Created[n]
    <3>1. InProduction(c) \in SUBSET Models
      BY DEF InProduction
    <3> HIDE DEF c
    <3> QED BY <3>1, FirstAndLast
  <2>2. Incumbents(c) # {}
    BY <2>1 DEF Incumbents
  <2> QED BY <2>2 DEF CanGoOn
<1>3. sess[s].pc # "registry_up"
  <2> SUFFICES ASSUME sess[s].pc = "registry_up" PROVE FALSE OBVIOUS
  <2>1. sess[s].loaded[sess[s].subject] \in Stages
    BY SessionType DEF TypeInv, CallTyped, Decided, LockInv, CallLocks, StageMap
  <2>2. CanAdvance(sess[s].loaded[sess[s].subject])
    BY <2>1 DEF CanAdvance, CanMove, AllowedStageTransitions, Stages
  <2> QED BY <2>2 DEF CanGoOn
<1>4. sess[s].pc # "registry_down"
  <2> SUFFICES ASSUME sess[s].pc = "registry_down" PROVE FALSE OBVIOUS
  <2>1. sess[s].loaded[sess[s].incumbent] \in Stages
    BY SessionType, ModelsAssumption DEF TypeInv, CallTyped, LockInv, CallLocks, StageMap
  <2>2. CanMove(sess[s].loaded[sess[s].incumbent], "archived")
    BY <2>1 DEF CanMove, AllowedStageTransitions, Stages
  <2> QED BY <2>2 DEF CanGoOn
<1>5. CASE sess[s].pc = "flush"
  <2>1. ToLock(s) # {} /\ ToLock(s) \in SUBSET Models
    BY <1>5 DEF CanGoOn, ToLock, Dirty
  <2>2. PICK m \in ToLock(s) : \A n \in ToLock(s) : Created[m] <= Created[n]
    BY <2>1, FirstAndLast
  <2>3. IsNext(s, m) /\ m \in Models /\ rowLock[m] # s /\ rowLock[m] # None
    BY <1>5, <2>1, <2>2 DEF IsNext, ToLock, CanGoOn
  <2>4. rowLock[m] \in Sessions \cup {None}
    BY <2>3 DEF TypeInv, TypeOK
  <2> QED BY <1>5, <2>3, <2>4
<1>6. CASE sess[s].pc = "append"
  BY <1>6 DEF CanGoOn
<1> QED BY <1>1, <1>2, <1>3, <1>4, <1>5, <1>6 DEF Steps

\* Some call can go on: the holder of the audit lock, or the one that waits for the last of
\* the rows that are waited for.
LEMMA NoCycle == Registered /\ TypeInv /\ LockInv => SomeCallGoesOn
<1> SUFFICES ASSUME Registered, TypeInv, LockInv, ~Quiet, \A s \in Sessions : ~CanGoOn(s)
             PROVE  FALSE
  BY DEF SomeCallGoesOn
<1>1. chainLock = None
  <2>1. chainLock \in Sessions => CanGoOn(chainLock)
    BY DEF LockInv, CallLocks, CanGoOn
  <2> QED BY <2>1 DEF TypeInv, TypeOK
<1>2. ASSUME NEW s \in Sessions, sess[s].pc # "idle"
      PROVE  /\ sess[s].pc = "flush"
             /\ \E m \in Models : IsNext(s, m) /\ rowLock[m] \in Sessions \ {s}
  BY <1>1, <1>2, WhatACallWaitsFor
<1> DEFINE Waited == {m \in Models : \E s \in Sessions : IsNext(s, m) /\ rowLock[m] \in Sessions \ {s}}
<1>3. Waited \in SUBSET Models /\ Waited # {}
  BY <1>2 DEF Quiet
<1>4. PICK m \in Waited : \A n \in Waited : Created[m] >= Created[n]
  <2> HIDE DEF Waited
  <2> QED BY <1>3, FirstAndLast
<1>5. PICK t \in Sessions : rowLock[m] = t
  BY <1>4
<1>6. sess[t].pc # "idle" /\ m \in Models
  BY <1>4, <1>5 DEF TypeInv, CallTyped, Writing
<1>7. PICK n \in Models : IsNext(t, n) /\ rowLock[n] \in Sessions \ {t}
  BY <1>2, <1>6
<1>8. n \in Waited
  BY <1>7
<1>9. Created[m] < Created[n]
  BY <1>5, <1>6, <1>7 DEF LockInv, CallLocks, IsNext
<1> QED BY <1>4, <1>6, <1>7, <1>8, <1>9, ModelsAssumption

\* However many calls wait for each other's rows and for the audit log, one can go on, so
\* promotions and rollbacks never deadlock.
THEOREM CallsNeverDeadlock == ASSUME Registered PROVE Spec => []SomeCallGoesOn
BY NoCycle, LockInvariant, TypeInvariant, PTL


\* What is left of a call, in steps: a row to lock of the two it may change, then the head, the
\* audit event and the commit; before that what it finds and what it tells the registry.
Left(s, m) == IF m \in ToLock(s) THEN 1 ELSE 0
StepsLeft(s) ==
    CASE sess[s].pc = "idle" -> 0
      [] sess[s].pc = "commit" -> 1
      [] sess[s].pc = "append" -> 2
      [] sess[s].pc = "flush" -> 3 + Left(s, sess[s].subject) + Left(s, sess[s].incumbent)
      [] sess[s].pc = "registry_down" -> 6
      [] sess[s].pc = "registry_up" -> 7
      [] OTHER -> 8

\* A call changes the rows of its subject and of its incumbent only.
LEMMA TwoRows ==
    ASSUME TypeInv, PlanInv, NEW s \in Sessions, sess[s].pc = "flush"
    PROVE  ToLock(s) \subseteq {sess[s].subject, sess[s].incumbent}
BY DEF PlanInv, Plan, Writing, ToLock, Dirty

\* What is left at each step.
CountInv == \A s \in Sessions :
    /\ sess[s].pc \in Steps
    /\ sess[s].pc = "idle" => StepsLeft(s) = 0
    /\ sess[s].pc = "commit" => StepsLeft(s) = 1
    /\ sess[s].pc = "append" => StepsLeft(s) = 2
    /\ sess[s].pc = "flush" => StepsLeft(s) \in 3..5
    /\ sess[s].pc = "registry_down" => StepsLeft(s) = 6
    /\ sess[s].pc = "registry_up" => StepsLeft(s) = 7
    /\ sess[s].pc \in {"find_incumbent", "find_target"} => StepsLeft(s) = 8

LEMMA CountInvariant == Spec => []CountInv
<1>1. ASSUME TypeInv, NEW s \in Sessions PROVE sess[s].pc \in Steps
  BY <1>1, SessionType DEF Session
<1>2. \A s, m : Left(s, m) \in {0, 1}
  BY DEF Left
<1>3. \A x, y \in {0, 1} : 3 + x + y \in 3..5
  OBVIOUS
<1>4. \A s : 3 + Left(s, sess[s].subject) + Left(s, sess[s].incumbent) \in 3..5
  BY <1>2, <1>3
<1>5. TypeInv => CountInv
  BY <1>1, <1>4 DEF CountInv, StepsLeft
<1> QED BY <1>5, TypeInvariant, PTL

\* That bounds it.
LEMMA StepsLeftBound ==
    ASSUME CountInv, NEW s \in Sessions
    PROVE  StepsLeft(s) \in 0..8 /\ (sess[s].pc # "idle" => StepsLeft(s) > 0)
BY DEF CountInv, Steps

\* A step keeps the other calls' records and locks.
LEMMA StepKeepsOthers ==
    ASSUME TypeInv, NEW s \in Sessions, Begin(s) \/ Continue(s) \/ RollBack(s),
           NEW t \in Sessions \ {s}
    PROVE  sess'[t] = sess[t] /\ \A m \in Models : rowLock[m] = t => rowLock'[m] = t
<1>1. CASE Begin(s)
  BY <1>1, BeginsPromotion, BeginsRollback DEF Begin, Others
<1>2. CASE FindIncumbent(s) \/ FindTarget(s) \/ RegistryUp(s) \/ RegistryDown(s)
  BY <1>2, FindsIncumbent, FindsTarget, TellsUp, TellsDown DEF Carries, Others
<1>3. CASE UpdateRow(s) \/ ReadHead(s) \/ AppendAudit(s)
  BY <1>3, Writes DEF Carries, Others
<1>4. CASE RollBack(s) \/ Commit(s)
  BY <1>4, Ends DEF RollBack, Commit, Others
<1> QED BY <1>1, <1>2, <1>3, <1>4 DEF Continue, RefuseAudit

\* A step of another call leaves no more to do.
LEMMA OthersWait ==
    ASSUME CountInv, NEW s \in Sessions, sess'[s] = sess[s],
           \A m \in Models : rowLock[m] = s => rowLock'[m] = s
    PROVE  StepsLeft(s)' <= StepsLeft(s)
<1>1. ToLock(s)' \subseteq ToLock(s)
  BY DEF ToLock, Dirty
<1>2. \A m : Left(s, m)' <= Left(s, m) /\ Left(s, m) \in {0, 1} /\ Left(s, m)' \in {0, 1}
  BY <1>1 DEF Left
<1>3. \A a, b, x, y \in {0, 1} : x <= a /\ y <= b => 3 + x + y <= 3 + a + b
  OBVIOUS
<1>4. 3 + Left(s, sess[s].subject)' + Left(s, sess[s].incumbent)'
        <= 3 + Left(s, sess[s].subject) + Left(s, sess[s].incumbent)
  BY <1>2, <1>3
<1>5. CASE sess[s].pc = "flush"
  BY <1>4, <1>5 DEF StepsLeft
<1>6. CASE sess[s].pc # "flush"
  <2>1. StepsLeft(s)' = StepsLeft(s)
    BY <1>6 DEF StepsLeft
  <2> QED BY <2>1, StepsLeftBound
<1> QED BY <1>5, <1>6

\* An UPDATE leaves one row fewer to lock.
LEMMA RowLocked ==
    ASSUME TypeInv, PlanInv, NEW s \in Sessions, UpdateRow(s)
    PROVE  StepsLeft(s)' < StepsLeft(s)
<1>1. PICK m \in ToLock(s) : /\ m \in Models /\ rowLock[m] = None
                             /\ rowLock' = [rowLock EXCEPT ![m] = s]
  BY DEF UpdateRow, IsNext, ToLock, Dirty
<1>2. sess' = sess /\ sess[s].pc = "flush"
  BY DEF UpdateRow
<1>3. m \notin ToLock(s)' /\ ToLock(s)' \subseteq ToLock(s)
  BY <1>1, <1>2, ModelsAssumption DEF ToLock, Dirty, TypeInv, TypeOK
<1>4. m \in {sess[s].subject, sess[s].incumbent}
  BY <1>1, <1>2, TwoRows
<1>5. \A n : Left(s, n)' <= Left(s, n) /\ Left(s, n) \in {0, 1} /\ Left(s, n)' \in {0, 1}
  BY <1>3 DEF Left
<1>6. Left(s, m) = 1 /\ Left(s, m)' = 0
  BY <1>1, <1>3 DEF Left
<1>7. \A a, b, x, y \in {0, 1} :
        x <= a /\ y <= b /\ ((a = 1 /\ x = 0) \/ (b = 1 /\ y = 0)) => 3 + x + y < 3 + a + b
  OBVIOUS
<1>8. 3 + Left(s, sess[s].subject)' + Left(s, sess[s].incumbent)'
        < 3 + Left(s, sess[s].subject) + Left(s, sess[s].incumbent)
  <2>1. CASE m = sess[s].subject
    BY <1>2, <1>5, <1>6, <1>7, <2>1
  <2>2. CASE m = sess[s].incumbent
    BY <1>2, <1>5, <1>6, <1>7, <2>2
  <2> QED BY <1>4, <2>1, <2>2
<1> QED BY <1>2, <1>8 DEF StepsLeft

\* Every step of a call leaves it less to do.
LEMMA CallAdvances ==
    ASSUME TypeInv, PlanInv, CountInv, CountInv', NEW s \in Sessions,
           Continue(s) \/ RollBack(s), sess[s].pc # "idle"
    PROVE  StepsLeft(s)' < StepsLeft(s)
<1>1. /\ sess'[s].pc = "idle" => StepsLeft(s)' = 0
      /\ sess'[s].pc = "commit" => StepsLeft(s)' = 1
      /\ sess'[s].pc = "append" => StepsLeft(s)' = 2
      /\ sess'[s].pc = "flush" => StepsLeft(s)' \in 3..5
      /\ sess'[s].pc = "registry_down" => StepsLeft(s)' = 6
      /\ sess'[s].pc = "registry_up" => StepsLeft(s)' = 7
  BY DEF CountInv
<1>2. /\ sess[s].pc = "append" => StepsLeft(s) = 2
      /\ sess[s].pc = "flush" => StepsLeft(s) \in 3..5
      /\ sess[s].pc = "registry_down" => StepsLeft(s) = 6
      /\ sess[s].pc = "registry_up" => StepsLeft(s) = 7
      /\ sess[s].pc \in {"find_incumbent", "find_target"} => StepsLeft(s) = 8
      /\ StepsLeft(s) > 0
  BY StepsLeftBound DEF CountInv
<1>3. UpdateRow(s) => StepsLeft(s)' < StepsLeft(s)
  BY RowLocked
<1>4. FindIncumbent(s) => StepsLeft(s)' < StepsLeft(s)
  BY <1>1, FindsIncumbent, <1>2
<1>5. FindTarget(s) => StepsLeft(s)' < StepsLeft(s)
  BY <1>1, FindsTarget, <1>2 DEF Fresh
<1>6. RegistryUp(s) => StepsLeft(s)' < StepsLeft(s)
  <2>1. RegistryUp(s) => sess[s].pc = "registry_up" /\ sess'[s].pc \in {"flush", "registry_down"}
    BY TellsUp
  <2> QED BY <1>1, <1>2, <2>1
<1>7. RegistryDown(s) => StepsLeft(s)' < StepsLeft(s)
  <2>1. RegistryDown(s) => sess[s].pc = "registry_down" /\ sess'[s].pc = "flush"
    BY TellsDown
  <2> QED BY <1>1, <1>2, <2>1
<1>8. ReadHead(s) => StepsLeft(s)' < StepsLeft(s)
  <2>1. ReadHead(s) => sess[s].pc = "flush" /\ sess'[s].pc = "append"
    BY SessionType DEF ReadHead, Update, Session, TypeInv, TypeOK
  <2> QED BY <1>1, <2>1, <1>2
<1>9. AppendAudit(s) => StepsLeft(s)' < StepsLeft(s)
  <2>1. AppendAudit(s) => sess[s].pc = "append" /\ sess'[s].pc = "commit"
    BY SessionType DEF AppendAudit, Update, Session, TypeInv, TypeOK
  <2> QED BY <1>1, <2>1, <1>2
<1>10. Commit(s) \/ RollBack(s) => StepsLeft(s)' < StepsLeft(s)
  <2>1. Commit(s) \/ RollBack(s) => sess'[s].pc = "idle"
    BY Ends DEF Commit, RollBack, Fresh
  <2>2. StepsLeft(s) > 0
    BY <1>2
  <2> QED BY <1>1, <2>1, <2>2
<1> QED BY <1>3, <1>4, <1>5, <1>6, <1>7, <1>8, <1>9, <1>10 DEF Continue, RefuseAudit

\* A call has no loop: each step of its own leaves it fewer to take, no other call's step gives
\* it more, and it begins with eight at most.  As one of the calls can always go on, all of them
\* end when those that can go on do, whatever they lock and whichever fail.
THEOREM EveryCallRunsOut ==
    Spec => [][\A s \in Sessions :
                 /\ StepsLeft(s) \in 0..8
                 /\ Continue(s) => StepsLeft(s)' < StepsLeft(s)
                 /\ sess[s].pc # "idle" => StepsLeft(s)' <= StepsLeft(s)]_vars
<1> DEFINE Advances(s) ==
      /\ StepsLeft(s) \in 0..8
      /\ Continue(s) => StepsLeft(s)' < StepsLeft(s)
      /\ sess[s].pc # "idle" => StepsLeft(s)' <= StepsLeft(s)
<1>1. ASSUME TypeInv, PlanInv, CountInv, CountInv', Next, NEW s \in Sessions PROVE Advances(s)
  <2>1. StepsLeft(s) \in 0..8
    BY <1>1, StepsLeftBound
  <2>2. Continue(s) => StepsLeft(s)' < StepsLeft(s)
    <3>1. Continue(s) => sess[s].pc # "idle"
      BY DEF Continue, FindIncumbent, FindTarget, RegistryUp, RegistryDown, UpdateRow, ReadHead,
             AppendAudit, RefuseAudit, Commit
    <3> QED BY <1>1, <3>1, CallAdvances
  <2>3. ASSUME sess[s].pc # "idle" PROVE StepsLeft(s)' <= StepsLeft(s)
    <3>1. PICK t \in Sessions : Begin(t) \/ Continue(t) \/ RollBack(t)
      BY <1>1 DEF Next, Fail
    <3>2. CASE t = s
      <4>1. ~Begin(s)
        BY <2>3 DEF Begin, BeginPromote, BeginRollback
      <4>2. StepsLeft(s)' < StepsLeft(s)
        BY <1>1, <2>3, <3>1, <3>2, <4>1, CallAdvances
      <4>3. StepsLeft(s) \in 0..8 /\ StepsLeft(s)' \in 0..8
        BY <1>1, StepsLeftBound DEF CountInv, Steps
      <4> QED BY <4>2, <4>3
    <3>3. CASE t # s
      <4>1. sess'[s] = sess[s] /\ \A m \in Models : rowLock[m] = s => rowLock'[m] = s
        BY <1>1, <3>1, <3>3, StepKeepsOthers
      <4> QED BY <1>1, <4>1, OthersWait
    <3> QED BY <3>2, <3>3
  <2> QED BY <2>1, <2>2, <2>3
<1>2. TypeInv /\ PlanInv /\ CountInv /\ CountInv' /\ [Next]_vars
        => [\A s \in Sessions : Advances(s)]_vars
  <2> HIDE DEF Advances
  <2> QED BY <1>1
<1> QED BY <1>2, TypeInvariant, PlanInvariant, CountInvariant, PTL DEF Spec
-----------------------------------------------------------------------------
(***************************************************************************)
(* One call at a time in each category.  Overlapping calls on one category  *)
(* may leave it with two models in production; calls that take turns there, *)
(* whatever runs in the other categories, keep stages and registry together *)
(* as long as every model a command names is of the command's category.     *)
(***************************************************************************)
Matching == \A cmd \in Commands : cmd.model # None => CategoryOf[cmd.model] = cmd.category

\* A call loads and moves rows of its own category only.
OwnRows(s) == \A m \in Models :
    sess[s].loaded[m] # Unloaded \/ sess[s].wanted[m] # Unloaded => CategoryOf[m] = sess[s].cmd.category

\* So are the models it decides about.
Own(s) ==
    sess[s].pc # "idle" =>
      /\ OwnRows(s)
      /\ sess[s].incumbent # None => CategoryOf[sess[s].incumbent] = sess[s].cmd.category
      /\ sess[s].pc # "find_target" => CategoryOf[sess[s].subject] = sess[s].cmd.category

\* What a call knows is still so.
Fits(s) ==
    sess[s].pc # "idle" =>
      /\ \A m \in Models : sess[s].loaded[m] \in {Unloaded, stage[m]}
      /\ sess[s].pc # "find_incumbent" => sess[s].incumbent \in Incumbents(sess[s].cmd.category)

Current(s) == Own(s) /\ Fits(s)

OneServes == \A c \in Categories : \A m, n \in InProduction(c) : m = n

\* Until a call fails, the registry differs from the committed stages only by what a running
\* call told it.
ToldInv == failures = 0 => \A m \in Models :
    \/ registry[m] = stage[m] /\ \A s \in Sessions : sess[s].wanted[m] = Unloaded
    \/ \E s \in Sessions : sess[s].wanted[m] # Unloaded /\ registry[m] = sess[s].wanted[m]

SyncInv == OneServes /\ ToldInv /\ \A s \in Sessions : Current(s)

\* A command names a category.
LEMMA CommandCategory == ASSUME NEW cmd \in Commands PROVE cmd.category \in Categories
BY CommandsAssumption

\* A call that runs has a category.
LEMMA CallCategory ==
    ASSUME TypeInv, NEW s \in Sessions, sess[s].pc # "idle"
    PROVE  sess[s].cmd \in Commands /\ sess[s].cmd.category \in Categories
BY CommandCategory DEF TypeInv, CallTyped

\* Where at most one model serves, the incumbent is all there is in production.
LEMMA OnlyIncumbent ==
    ASSUME OneServes, NEW c \in Categories, NEW inc \in Incumbents(c)
    PROVE  InProduction(c) = IF inc = None THEN {} ELSE {inc}
<1>1. None \notin Models
  BY ModelsAssumption
<1> QED BY <1>1 DEF OneServes, Incumbents, InProduction

\* Loading a row of the category keeps the rows loaded in the category; loading any row
\* brings in its committed stage.
LEMMA LoadOwn ==
    ASSUME NEW known \in StageMap, NEW m \in Models
    PROVE  /\ \A c : /\ CategoryOf[m] = c
                     /\ \A n \in Models : known[n] # Unloaded => CategoryOf[n] = c
                     => \A n \in Models : Load(known, m)[n] # Unloaded => CategoryOf[n] = c
           /\ (\A n \in Models : known[n] \in {Unloaded, stage[n]})
                => \A n \in Models : Load(known, m)[n] \in {Unloaded, stage[n]}
<1>1. \A n \in Models : Load(known, m)[n] = IF n = m /\ known[m] = Unloaded THEN stage[m] ELSE known[n]
  BY LoadValue
<1> QED BY <1>1

\* No row is loaded at first.
LEMMA NothingLoaded == NotLoaded \in StageMap /\ \A n \in Models : NotLoaded[n] = Unloaded
BY FreshType DEF NotLoaded

\* What a step leaves to its call: rows of its category, and knowledge that still fits if
\* it fitted before.
Keeps(s) == Own(s)' /\ (Fits(s) => Fits(s)')

\* A call that is over knows nothing.
LEMMA KeepsRest == ASSUME NEW s, sess'[s] = Fresh PROVE Keeps(s) /\ Own(s)' /\ Fits(s)'
BY DEF Keeps, Own, Fits, Fresh

\* A promotion begins with a candidate of its category.
LEMMA KeepsBeginPromote ==
    ASSUME Matching, TypeInv, NEW s \in Sessions, NEW cmd \in Commands, BeginPromote(s, cmd)
    PROVE  Keeps(s)
<1>1. /\ cmd.model \in Models
      /\ sess'[s].pc = "find_incumbent" /\ sess'[s].cmd = cmd /\ sess'[s].incumbent = None
      /\ sess'[s].subject = cmd.model /\ sess'[s].wanted = NotLoaded
      /\ sess'[s].loaded = Load(NotLoaded, cmd.model)
      /\ UNCHANGED stage
  BY BeginsPromotion
<1>2. CategoryOf[cmd.model] = cmd.category
  BY <1>1, ModelsAssumption DEF Matching
<1>3. \A n \in Models : /\ Load(NotLoaded, cmd.model)[n] \in {Unloaded, stage[n]}
                        /\ Load(NotLoaded, cmd.model)[n] # Unloaded => CategoryOf[n] = cmd.category
  BY <1>1, <1>2, NothingLoaded, LoadOwn
<1> QED BY <1>1, <1>2, <1>3, NothingLoaded DEF Keeps, Own, Fits, OwnRows

\* A rollback begins with its category's incumbent, or finds nothing in production.
LEMMA KeepsBeginRollback ==
    ASSUME TypeInv, NEW s \in Sessions, NEW cmd \in Commands, BeginRollback(s, cmd)
    PROVE  Keeps(s)
<1>1. CASE sess'[s] = Fresh
  BY <1>1, KeepsRest
<1>2. CASE sess'[s] # Fresh
  <2>1. /\ sess'[s].pc = "find_target" /\ sess'[s].cmd = cmd
        /\ sess'[s].incumbent \in Incumbents(cmd.category) \ {None}
        /\ sess'[s].loaded = Load(NotLoaded, sess'[s].incumbent)
        /\ sess'[s].wanted = NotLoaded /\ UNCHANGED stage
    BY <1>2, BeginsRollback
  <2>2. PICK inc \in Incumbents(cmd.category) \ {None} : inc = sess'[s].incumbent
    BY <2>1
  <2>3. inc \in Models /\ CategoryOf[inc] = cmd.category
    BY <2>2, IncumbentServes
  <2>4. \A n \in Models : /\ Load(NotLoaded, inc)[n] \in {Unloaded, stage[n]}
                          /\ Load(NotLoaded, inc)[n] # Unloaded => CategoryOf[n] = cmd.category
    BY <2>3, NothingLoaded, LoadOwn
  <2>5. Incumbents(cmd.category)' = Incumbents(cmd.category)
    BY <2>1 DEF Incumbents, InProduction
  <2> QED BY <2>1, <2>2, <2>3, <2>4, <2>5, NothingLoaded DEF Keeps, Own, Fits, OwnRows
<1> QED BY <1>1, <1>2

\* The incumbent a promotion finds is its category's.
LEMMA KeepsFindIncumbent ==
    ASSUME TypeInv, NEW s \in Sessions, Own(s), FindIncumbent(s)
    PROVE  Keeps(s)
<1>1. /\ sess[s].pc = "find_incumbent" /\ sess'[s].pc \notin {"idle", "find_target", "find_incumbent"}
      /\ sess'[s].cmd = sess[s].cmd /\ sess'[s].subject = sess[s].subject
      /\ sess'[s].wanted = sess[s].wanted
      /\ sess'[s].incumbent \in Incumbents(sess[s].cmd.category)
      /\ sess'[s].loaded = IF sess'[s].incumbent = None THEN sess[s].loaded
                           ELSE Load(sess[s].loaded, sess'[s].incumbent)
      /\ UNCHANGED stage
  BY FindsIncumbent
<1>2. PICK c : c = sess[s].cmd.category
  OBVIOUS
<1>3. /\ sess[s].loaded \in StageMap /\ CategoryOf[sess[s].subject] = c
      /\ \A n \in Models : sess[s].loaded[n] # Unloaded => CategoryOf[n] = c
      /\ \A n \in Models : sess[s].wanted[n] # Unloaded => CategoryOf[n] = c
  BY <1>1, <1>2, SessionType DEF Own, OwnRows
<1>4. /\ \A n \in Models : sess'[s].loaded[n] # Unloaded => CategoryOf[n] = c
      /\ (\A n \in Models : sess[s].loaded[n] \in {Unloaded, stage[n]})
           => \A n \in Models : sess'[s].loaded[n] \in {Unloaded, stage[n]}
      /\ sess'[s].incumbent # None => CategoryOf[sess'[s].incumbent] = c
  <2>1. CASE sess'[s].incumbent = None
    BY <1>1, <1>3, <2>1
  <2>2. CASE sess'[s].incumbent # None
    <3>1. PICK inc \in Incumbents(c) \ {None} : inc = sess'[s].incumbent
      BY <1>1, <1>2, <2>2
    <3>2. inc \in Models /\ CategoryOf[inc] = c
      BY <3>1, IncumbentServes
    <3>3. sess'[s].loaded = Load(sess[s].loaded, inc)
      BY <1>1, <3>1
    <3> QED BY <1>3, <3>1, <3>2, <3>3, LoadOwn
  <2> QED BY <2>1, <2>2
<1>5. Incumbents(c)' = Incumbents(c)
  BY <1>1 DEF Incumbents, InProduction
<1>6. Own(s)'
  BY <1>1, <1>2, <1>3, <1>4 DEF Own, OwnRows
<1>7. Fits(s) => Fits(s)'
  BY <1>1, <1>2, <1>4, <1>5 DEF Fits
<1> QED BY <1>6, <1>7 DEF Keeps

\* What a rollback restores is of its category, named or found in the category's history.
LEMMA TargetOfCategory ==
    ASSUME Matching, NEW cmd \in Commands, NEW current, NEW m \in Targets(cmd, current)
    PROVE  CategoryOf[m] = cmd.category
BY DEF Matching, Targets, Earlier, Recent, History

\* A rollback finds a version of its category to restore, or gives up.
LEMMA KeepsFindTarget ==
    ASSUME Matching, TypeInv, PlanInv, NEW s \in Sessions, Own(s), FindTarget(s)
    PROVE  Keeps(s)
<1>1. CASE sess'[s] = Fresh
  BY <1>1, KeepsRest
<1>2. CASE sess'[s] # Fresh
  <2>1. /\ sess[s].pc = "find_target" /\ sess[s].cmd \in Commands
        /\ sess'[s].pc = "registry_up" /\ sess'[s].cmd = sess[s].cmd
        /\ sess'[s].incumbent = sess[s].incumbent /\ sess'[s].wanted = sess[s].wanted
        /\ sess'[s].subject \in Targets(sess[s].cmd, sess[s].incumbent)
        /\ sess'[s].subject \in Models
        /\ sess'[s].loaded = Load(sess[s].loaded, sess'[s].subject)
        /\ UNCHANGED stage
    BY <1>2, FindsTarget
  <2>2. PICK m \in Models, c \in {sess[s].cmd.category} : m = sess'[s].subject
    BY <2>1
  <2>3. CategoryOf[m] = c
    BY <2>1, <2>2, TargetOfCategory
  <2>4. /\ sess[s].loaded \in StageMap
        /\ sess[s].incumbent # None => CategoryOf[sess[s].incumbent] = c
        /\ \A n \in Models : sess[s].loaded[n] # Unloaded => CategoryOf[n] = c
        /\ \A n \in Models : sess[s].wanted[n] # Unloaded => CategoryOf[n] = c
    BY <2>1, <2>2, SessionType DEF Own, OwnRows
  <2>5. sess'[s].loaded = Load(sess[s].loaded, m)
    BY <2>1, <2>2
  <2>6. \A n \in Models : sess'[s].loaded[n] # Unloaded => CategoryOf[n] = c
    BY <2>2, <2>3, <2>4, <2>5, LoadOwn
  <2>7. Own(s)'
    BY <2>1, <2>2, <2>3, <2>4, <2>6 DEF Own, OwnRows
  <2>8. Incumbents(c)' = Incumbents(c)
    BY <2>1 DEF Incumbents, InProduction
  <2>9. (\A n \in Models : sess[s].loaded[n] \in {Unloaded, stage[n]})
           => \A n \in Models : sess'[s].loaded[n] \in {Unloaded, stage[n]}
    BY <2>2, <2>4, <2>5, LoadOwn
  <2>10. Fits(s) => Fits(s)'
    BY <2>1, <2>2, <2>8, <2>9 DEF Fits
  <2> QED BY <2>7, <2>10 DEF Keeps
<1> QED BY <1>1, <1>2

\* A call that goes on as it decided, and moves rows of its category, knows what is so.
LEMMA KeepsCarried ==
    ASSUME NEW s \in Sessions, Own(s), Carries(s),
           \A m \in Models : sess'[s].wanted[m] # sess[s].wanted[m]
             => CategoryOf[m] = sess[s].cmd.category
    PROVE  Keeps(s)
<1>1. \A c : Incumbents(c)' = Incumbents(c)
  BY DEF Carries, Incumbents, InProduction
<1>2. /\ sess[s].pc \notin {"idle", "find_incumbent", "find_target"}
      /\ sess'[s].pc \notin {"idle", "find_incumbent", "find_target"}
  BY DEF Carries, Decided
<1>3. Own(s)'
  BY <1>2 DEF Own, OwnRows, Carries
<1>4. Fits(s) => Fits(s)'
  BY <1>1, <1>2 DEF Fits, Carries
<1> QED BY <1>3, <1>4 DEF Keeps

\* What the registry is told is about a model of the category.
LEMMA KeepsRegistry ==
    ASSUME TypeInv, NEW s \in Sessions, Own(s), RegistryUp(s) \/ RegistryDown(s)
    PROVE  /\ Keeps(s) /\ Carries(s)
           /\ \E n \in Models, to \in Stages :
                /\ sess'[s].wanted = [sess[s].wanted EXCEPT ![n] = to]
                /\ registry' = [registry EXCEPT ![n] = to]
<1>1. PICK n \in Models, to \in Stages :
        /\ Carries(s) /\ CategoryOf[n] = sess[s].cmd.category
        /\ sess'[s].wanted = [sess[s].wanted EXCEPT ![n] = to]
        /\ registry' = [registry EXCEPT ![n] = to]
  <2>1. CASE RegistryUp(s)
    <3>1. CategoryOf[sess[s].subject] = sess[s].cmd.category
      BY <2>1, TellsUp DEF Own
    <3> QED BY <2>1, <3>1, TellsUp DEF Stages
  <2>2. CASE RegistryDown(s)
    <3>1. CategoryOf[sess[s].incumbent] = sess[s].cmd.category
      BY <2>2, TellsDown, ModelsAssumption DEF Own
    <3> QED BY <2>2, <3>1, TellsDown DEF Stages
  <2> QED BY <2>1, <2>2
<1>2. \A m \in Models \ {n} : sess'[s].wanted[m] = sess[s].wanted[m]
  BY <1>1, SessionType DEF StageMap
<1>3. Keeps(s)
  BY <1>1, <1>2, KeepsCarried
<1> QED BY <1>1, <1>3

\* Every step that commits nothing keeps what its own call knows, and touches no stage, no
\* record and no other call.
LEMMA KeepsAll ==
    ASSUME Matching, TypeInv, PlanInv, NEW s \in Sessions, Own(s),
           \/ \E cmd \in Commands : BeginPromote(s, cmd) \/ BeginRollback(s, cmd)
           \/ FindIncumbent(s) \/ FindTarget(s) \/ RegistryUp(s) \/ RegistryDown(s)
           \/ UpdateRow(s) \/ ReadHead(s) \/ AppendAudit(s) \/ RollBack(s)
    PROVE  /\ Keeps(s) /\ Others(s) /\ UNCHANGED <<stage, deployments>>
           /\ \/ sess[s].pc = "idle" \/ sess'[s].pc = "idle"
              \/ sess'[s].before = sess[s].before /\ sess'[s].cmd = sess[s].cmd
<1>1. Fresh.pc = "idle"
  BY DEF Fresh
<1>2. ASSUME NEW cmd \in Commands, BeginPromote(s, cmd) \/ BeginRollback(s, cmd)
      PROVE  /\ Keeps(s) /\ Others(s) /\ UNCHANGED <<stage, deployments>>
             /\ sess[s].pc = "idle"
  BY <1>1, <1>2, BeginsPromotion, BeginsRollback, KeepsBeginPromote, KeepsBeginRollback
<1>3. CASE FindIncumbent(s) \/ FindTarget(s)
  BY <1>1, <1>3, FindsIncumbent, FindsTarget, KeepsFindIncumbent, KeepsFindTarget
<1>4. CASE RegistryUp(s) \/ RegistryDown(s)
  BY <1>4, KeepsRegistry DEF Carries
<1>5. CASE UpdateRow(s) \/ ReadHead(s) \/ AppendAudit(s)
  BY <1>5, Writes, KeepsCarried DEF Carries
<1>6. CASE RollBack(s)
  BY <1>1, <1>6, Ends, KeepsRest DEF RollBack
<1> QED BY <1>2, <1>3, <1>4, <1>5, <1>6

-----------------------------------------------------------------------------
\* Every call keeps to its category, whatever overlaps.
LEMMA OwnInvariant == ASSUME Matching PROVE Spec => [](\A s \in Sessions : Own(s))
<1> DEFINE OwnInv == \A s \in Sessions : Own(s)
<1>1. Init => OwnInv
  BY DEF Init, Own, Fresh
<1>2. TypeInv /\ PlanInv /\ OwnInv /\ [Next]_vars => OwnInv'
  <2> SUFFICES ASSUME TypeInv, PlanInv, OwnInv, [Next]_vars, NEW t \in Sessions PROVE Own(t)'
    OBVIOUS
  <2>1. CASE UNCHANGED vars
    BY <2>1 DEF vars, Own, OwnRows
  <2>2. ASSUME NEW s \in Sessions, Others(s), Own(s)' PROVE Own(t)'
    BY <2>2 DEF Others, Own, OwnRows
  <2>3. ASSUME NEW s \in Sessions, Commit(s) PROVE Own(t)'
    BY <2>2, <2>3, Ends, KeepsRest DEF Commit
  <2> QED BY <2>1, <2>2, <2>3, KeepsAll, StepCases DEF Keeps
<1> QED BY <1>1, <1>2, TypeInvariant, PlanInvariant, PTL DEF Spec

\* A step that changes no stage leaves what the other calls know as it was.
LEMMA CurrentStep ==
    ASSUME SyncInv, NEW s \in Sessions, Others(s), UNCHANGED stage, Keeps(s), ToldInv'
    PROVE  SyncInv'
<1>1. \A c : InProduction(c)' = InProduction(c) /\ Incumbents(c)' = Incumbents(c)
  BY DEF InProduction, Incumbents
<1>2. ASSUME NEW t \in Sessions \ {s} PROVE Current(t)'
  <2>1. sess'[t] = sess[t] /\ Current(t)
    BY DEF Others, SyncInv
  <2> QED BY <1>1, <2>1 DEF Current, Own, Fits, OwnRows
<1>3. OneServes'
  BY <1>1 DEF SyncInv, OneServes
<1>4. Current(s)'
  BY DEF SyncInv, Current, Keeps
<1> QED BY <1>2, <1>3, <1>4 DEF SyncInv

\* A step that tells the registry nothing.
LEMMA ToldNothing ==
    ASSUME ToldInv, NEW s \in Sessions, Others(s), sess'[s].wanted = sess[s].wanted,
           UNCHANGED <<stage, registry, failures>>
    PROVE  ToldInv'
<1>1. \A t \in Sessions : sess'[t].wanted = sess[t].wanted
  BY DEF Others
<1> QED BY <1>1 DEF ToldInv

\* A step that tells the registry what its call wants of one model.
LEMMA ToldOne ==
    ASSUME TypeInv, ToldInv, NEW s \in Sessions, Others(s), NEW n \in Models, NEW to \in Stages,
           sess'[s].wanted = [sess[s].wanted EXCEPT ![n] = to],
           registry' = [registry EXCEPT ![n] = to], UNCHANGED <<stage, failures>>
    PROVE  ToldInv'
<1>1. sess[s].wanted \in [Models -> Stages \cup {Unloaded}] /\ registry \in [Models -> Stages]
  BY SessionType DEF StageMap, TypeInv, TypeOK
<1>2. sess'[s].wanted[n] = to /\ registry'[n] = to /\ to # Unloaded
  BY <1>1 DEF Stages, Unloaded
<1>3. /\ \A m \in Models \ {n} : registry'[m] = registry[m]
      /\ \A m \in Models \ {n} : \A t \in Sessions : sess'[t].wanted[m] = sess[t].wanted[m]
  BY <1>1 DEF Others
<1> SUFFICES ASSUME failures = 0, NEW m \in Models
             PROVE  \/ registry'[m] = stage'[m] /\ \A t \in Sessions : sess'[t].wanted[m] = Unloaded
                    \/ \E t \in Sessions : /\ sess'[t].wanted[m] # Unloaded
                                           /\ registry'[m] = sess'[t].wanted[m]
  BY DEF ToldInv
<1>4. CASE m = n
  BY <1>2, <1>4
<1>5. CASE m # n
  BY <1>3, <1>5 DEF ToldInv
<1> QED BY <1>4, <1>5

\* Until a call fails, a step that commits nothing tells the registry what its call wants.
LEMMA ToldStep ==
    ASSUME Matching, TypeInv, PlanInv, SyncInv, NEW s \in Sessions,
           \/ \E cmd \in Commands : BeginPromote(s, cmd) \/ BeginRollback(s, cmd)
           \/ FindIncumbent(s) \/ FindTarget(s) \/ RegistryUp(s) \/ RegistryDown(s)
           \/ UpdateRow(s) \/ ReadHead(s) \/ AppendAudit(s) \/ RollBack(s)
    PROVE  ToldInv'
<1>1. ASSUME NEW cmd \in Commands, BeginPromote(s, cmd) \/ BeginRollback(s, cmd) PROVE ToldInv'
  <2>1. /\ Others(s) /\ sess[s].wanted = NotLoaded /\ sess'[s].wanted = NotLoaded
        /\ UNCHANGED <<stage, registry, failures>>
    BY <1>1, BeginsPromotion, BeginsRollback DEF Fresh
  <2> QED BY <2>1, ToldNothing DEF SyncInv
<1>2. CASE FindIncumbent(s)
  BY <1>2, FindsIncumbent, ToldNothing DEF SyncInv
<1>3. CASE FindTarget(s)
  <2>1. /\ Others(s) /\ sess[s].wanted = NotLoaded /\ sess'[s].wanted = NotLoaded
        /\ UNCHANGED <<stage, registry, failures>>
    BY <1>3, FindsTarget DEF PlanInv, Plan, Fresh
  <2> QED BY <2>1, ToldNothing DEF SyncInv
<1>4. CASE RegistryUp(s) \/ RegistryDown(s)
  <2>1. Carries(s) /\ \E n \in Models, to \in Stages :
          /\ sess'[s].wanted = [sess[s].wanted EXCEPT ![n] = to]
          /\ registry' = [registry EXCEPT ![n] = to]
    BY <1>4, KeepsRegistry DEF SyncInv, Current
  <2>2. PICK n \in Models, to \in Stages :
          /\ sess'[s].wanted = [sess[s].wanted EXCEPT ![n] = to]
          /\ registry' = [registry EXCEPT ![n] = to]
    BY <2>1
  <2>3. Others(s) /\ UNCHANGED <<stage, failures>> /\ ToldInv
    BY <2>1 DEF SyncInv, Carries
  <2> QED BY <2>2, <2>3, ToldOne
<1>5. CASE UpdateRow(s) \/ ReadHead(s) \/ AppendAudit(s)
  BY <1>5, Writes, ToldNothing DEF SyncInv, Carries
<1>6. CASE RollBack(s)
  <2>1. failures' # 0
    BY <1>6 DEF RollBack, TypeInv, TypeOK
  <2> QED BY <2>1 DEF ToldInv
<1> QED BY <1>1, <1>2, <1>3, <1>4, <1>5, <1>6

\* A call whose knowledge fits commits every stage it wants, and no other.
LEMMA CommitStages ==
    ASSUME TypeInv, PlanInv, NEW s \in Sessions, Fits(s), Commit(s), NEW m \in Models
    PROVE  /\ stage'[m] = IF sess[s].wanted[m] = Unloaded THEN stage[m] ELSE sess[s].wanted[m]
           /\ sess[s].wanted[m] = IF sess[s].action = "reject" THEN Unloaded
                                  ELSE IF m = sess[s].incumbent THEN "archived"
                                  ELSE IF m = sess[s].subject THEN "production" ELSE Unloaded
<1>1. /\ sess[s].pc = "commit"
      /\ stage'[m] = IF rowLock[m] = s THEN sess[s].wanted[m] ELSE stage[m]
  BY DEF Commit
<1>2. sess[s].wanted[m] = IF sess[s].action = "reject" THEN Unloaded
                          ELSE IF m = sess[s].incumbent THEN "archived"
                          ELSE IF m = sess[s].subject THEN "production" ELSE Unloaded
  BY <1>1 DEF PlanInv, Plan, Writing
<1>3. CASE sess[s].wanted[m] = Unloaded
  <2>1. rowLock[m] # s
    BY <1>3 DEF TypeInv, CallTyped
  <2> QED BY <1>1, <1>2, <1>3, <2>1
<1>4. CASE sess[s].wanted[m] # Unloaded
  <2>1. sess[s].loaded[m] \in {Unloaded, stage[m]} /\ ToLock(s) = {}
    BY <1>1 DEF Fits, PlanInv, Plan
  <2>2. m \in Dirty(s) => rowLock[m] = s
    BY <2>1 DEF ToLock
  <2>3. m \notin Dirty(s) => stage[m] = sess[s].wanted[m]
    BY <1>4, <2>1 DEF Dirty
  <2> QED BY <1>1, <1>2, <1>4, <2>2, <2>3
<1> QED BY <1>3, <1>4

\* A commit leaves the other categories' rows alone.
LEMMA CommitElsewhere ==
    ASSUME TypeInv, PlanInv, NEW s \in Sessions, Own(s), Commit(s)
    PROVE  /\ \A m \in Models : CategoryOf[m] # sess[s].cmd.category => stage'[m] = stage[m]
           /\ \A c : c # sess[s].cmd.category =>
                InProduction(c)' = InProduction(c) /\ Incumbents(c)' = Incumbents(c)
<1>1. ASSUME NEW m \in Models, CategoryOf[m] # sess[s].cmd.category PROVE stage'[m] = stage[m]
  <2>1. sess[s].wanted[m] = Unloaded /\ (rowLock[m] = s => sess[s].wanted[m] # Unloaded)
    BY <1>1 DEF Commit, Own, OwnRows, TypeInv, CallTyped
  <2> QED BY <2>1, CommitWrites
<1>2. ASSUME NEW c, c # sess[s].cmd.category PROVE InProduction(c)' = InProduction(c)
  BY <1>1, <1>2 DEF InProduction
<1>3. ASSUME NEW c, c # sess[s].cmd.category PROVE Incumbents(c)' = Incumbents(c)
  BY <1>2, <1>3 DEF Incumbents
<1> QED BY <1>1, <1>2, <1>3

\* What a call on another category knows outlives a commit.
LEMMA CommitOthers ==
    ASSUME OneCallPerCategory, TypeInv, PlanInv, SyncInv, NEW s \in Sessions, Commit(s),
           NEW t \in Sessions
    PROVE  Current(t)'
<1>1. Others(s) /\ sess'[s] = Fresh /\ sess[s].pc = "commit"
  BY Ends DEF Commit
<1>2. CASE t = s
  BY <1>1, <1>2, KeepsRest DEF Current
<1>3. CASE t # s
  <2>1. sess'[t] = sess[t] /\ Current(t)
    BY <1>1, <1>3 DEF Others, SyncInv
  <2> SUFFICES ASSUME sess[t].pc # "idle" PROVE Current(t)'
    BY <2>1 DEF Current, Own, Fits
  <2>2. PICK c : c = sess[t].cmd.category
    OBVIOUS
  <2>3. c # sess[s].cmd.category
    BY <1>1, <1>3, <2>2 DEF OneCallPerCategory
  <2>4. /\ Incumbents(c)' = Incumbents(c)
        /\ \A m \in Models : CategoryOf[m] = c => stage'[m] = stage[m]
    BY <2>3, CommitElsewhere DEF SyncInv, Current
  <2>5. \A m \in Models : sess[t].loaded[m] \in {Unloaded, stage'[m]}
    BY <2>1, <2>2, <2>4 DEF Current, Own, Fits, OwnRows
  <2> QED BY <2>1, <2>2, <2>4, <2>5 DEF Current, Own, Fits, OwnRows
<1> QED BY <1>2, <1>3

\* A commit makes what the registry was told true.
LEMMA CommitTold ==
    ASSUME OneCallPerCategory, TypeInv, PlanInv, SyncInv, NEW s \in Sessions, Commit(s)
    PROVE  ToldInv'
<1> SUFFICES ASSUME failures = 0, NEW m \in Models
             PROVE  \/ registry[m] = stage'[m] /\ \A t \in Sessions : sess'[t].wanted[m] = Unloaded
                    \/ \E t \in Sessions : /\ sess'[t].wanted[m] # Unloaded
                                           /\ registry[m] = sess'[t].wanted[m]
  BY DEF ToldInv, Commit
<1>1. Others(s) /\ sess'[s] = Fresh /\ sess[s].pc = "commit" /\ Fresh.wanted[m] = Unloaded
  BY Ends DEF Commit, Fresh, NotLoaded
<1>2. stage'[m] = IF sess[s].wanted[m] = Unloaded THEN stage[m] ELSE sess[s].wanted[m]
  BY CommitStages DEF SyncInv, Current
<1>3. CASE registry[m] = stage[m] /\ \A t \in Sessions : sess[t].wanted[m] = Unloaded
  BY <1>1, <1>2, <1>3 DEF Others
<1>4. ASSUME NEW u \in Sessions, sess[u].wanted[m] # Unloaded, registry[m] = sess[u].wanted[m]
      PROVE  \/ registry[m] = stage'[m] /\ \A t \in Sessions : sess'[t].wanted[m] = Unloaded
             \/ \E t \in Sessions : /\ sess'[t].wanted[m] # Unloaded
                                    /\ registry[m] = sess'[t].wanted[m]
  <2>1. CASE u # s
    BY <1>1, <1>4, <2>1 DEF Others
  <2>2. CASE u = s
    <3>1. registry[m] = stage'[m]
      BY <1>2, <1>4, <2>2
    <3>2. ASSUME NEW t \in Sessions \ {s} PROVE sess[t].wanted[m] = Unloaded
      <4>1. CASE sess[t].pc = "idle"
        BY <1>1, <4>1 DEF TypeInv, CallTyped
      <4>2. CASE sess[t].pc # "idle"
        <5>1. sess[t].cmd.category # sess[s].cmd.category
          BY <1>1, <4>2 DEF OneCallPerCategory
        <5>2. CategoryOf[m] = sess[s].cmd.category
          BY <1>1, <1>4, <2>2 DEF SyncInv, Current, Own, OwnRows
        <5> QED BY <4>2, <5>1, <5>2 DEF SyncInv, Current, Own, OwnRows
      <4> QED BY <4>1, <4>2
    <3> QED BY <1>1, <3>1, <3>2 DEF Others
  <2> QED BY <2>1, <2>2
<1> QED BY <1>3, <1>4 DEF SyncInv, ToldInv

\* A commit leaves at most its subject in production in its category.
LEMMA CommitOneServes ==
    ASSUME TypeInv, PlanInv, SyncInv, NEW s \in Sessions, Commit(s)
    PROVE  OneServes'
<1>1. PICK k \in Categories : k = sess[s].cmd.category
  BY CallCategory DEF Commit
<1>2. ASSUME NEW c \in Categories, c # k
      PROVE  \A m, n \in InProduction(c)' : m = n
  BY <1>1, <1>2, CommitElsewhere DEF SyncInv, OneServes, Current
<1>3. \A m, n \in InProduction(k)' : m = n
  <2>1. sess[s].incumbent \in Incumbents(k)
    BY <1>1 DEF Commit, SyncInv, Current, Fits
  <2>2. \A m \in InProduction(k) : m = sess[s].incumbent
    BY <2>1, OnlyIncumbent DEF SyncInv
  <2>3. ASSUME NEW m \in InProduction(k)'
        PROVE  m \in Models /\ IF sess[s].action = "reject" THEN m = sess[s].incumbent
                               ELSE m = sess[s].subject
    <3>1. m \in Models /\ CategoryOf[m] = k /\ stage'[m] = "production"
      BY DEF InProduction
    <3>2. stage[m] = "production" => m = sess[s].incumbent
      BY <2>2, <3>1 DEF InProduction
    <3> QED BY <3>1, <3>2, CommitStages DEF SyncInv, Current, Unloaded
  <2> QED BY <2>3
<1> QED BY <1>2, <1>3 DEF OneServes

\* Every step keeps stages and registry together when no call joins another of its category.
LEMMA SyncNext ==
    ASSUME Matching
    PROVE  OneCallPerCategory /\ TypeInv /\ PlanInv /\ SyncInv /\ [Next]_vars => SyncInv'
<1> SUFFICES ASSUME OneCallPerCategory, TypeInv, PlanInv, SyncInv, [Next]_vars PROVE SyncInv'
  OBVIOUS
<1>1. CASE UNCHANGED vars
  <2>1. \A c : InProduction(c)' = InProduction(c) /\ Incumbents(c)' = Incumbents(c)
    BY <1>1 DEF vars, InProduction, Incumbents
  <2> QED BY <1>1, <2>1 DEF vars, SyncInv, OneServes, ToldInv, Current, Own, Fits, OwnRows
<1>2. ASSUME NEW s \in Sessions, Commit(s) PROVE SyncInv'
  BY <1>2, CommitOthers, CommitTold, CommitOneServes DEF SyncInv
<1>3. ASSUME NEW s \in Sessions, Keeps(s), Others(s), UNCHANGED stage, ToldInv' PROVE SyncInv'
  BY <1>3, CurrentStep
<1>4. \A s \in Sessions : Own(s)
  BY DEF SyncInv, Current
<1> QED BY <1>1, <1>2, <1>3, <1>4, KeepsAll, ToldStep, StepCases

\* Calls that take turns in each category keep stages and registry together.
LEMMA SyncInvariant ==
    ASSUME Matching PROVE Spec /\ []OneCallPerCategory => []SyncInv
<1>1. Init => SyncInv
  <2> SUFFICES ASSUME Init PROVE SyncInv OBVIOUS
  <2>1. OneServes /\ ToldInv
    BY DEF Init, OneServes, InProduction, ToldInv, Fresh, NotLoaded
  <2>2. \A s \in Sessions : Current(s)
    BY DEF Init, Current, Own, Fits, Fresh
  <2> QED BY <2>1, <2>2 DEF SyncInv
<1> QED BY <1>1, SyncNext, TypeInvariant, PlanInvariant, PTL DEF Spec

\* When no call runs and none failed, the registry holds the committed stages.
LEMMA RegistrySynced == TypeInv /\ ToldInv => (Quiet /\ failures = 0 => registry = stage)
<1> SUFFICES ASSUME TypeInv, ToldInv, Quiet, failures = 0 PROVE registry = stage OBVIOUS
<1>1. \A s \in Sessions : \A m \in Models : sess[s].wanted[m] = Unloaded
  BY DEF Quiet, TypeInv, CallTyped, Fresh, NotLoaded
<1>2. \A m \in Models : registry[m] = stage[m]
  BY <1>1 DEF ToldInv
<1>3. registry \in [Models -> Stages] /\ stage \in [Models -> Stages]
  BY DEF TypeInv, TypeOK
<1> QED BY <1>2, <1>3

\* A category never has two models in production.
LEMMA ServesOne == OneServes => AtMostOneProduction
<1> SUFFICES ASSUME OneServes, NEW c \in Categories PROVE Cardinality(InProduction(c)) <= 1
  BY DEF AtMostOneProduction
<1>1. CASE InProduction(c) = {}
  <2>1. Cardinality(InProduction(c)) = 0
    BY <1>1, FS_EmptySet
  <2> QED BY <2>1
<1>2. ASSUME NEW x \in InProduction(c) PROVE Cardinality(InProduction(c)) <= 1
  <2>1. InProduction(c) = {x}
    BY <1>2 DEF OneServes
  <2>2. Cardinality(InProduction(c)) = 1
    BY <2>1, FS_Singleton
  <2> QED BY <2>2
<1> QED BY <1>1, <1>2

\* When the calls on each category take turns, a category has at most one model in production,
\* and, until a call fails, the registry holds the stages PostgreSQL committed whenever no call
\* runs: calls on other categories and rollbacks to a named version do not disturb it.
THEOREM TurnsKeepTheRegistryInSync ==
    ASSUME Matching PROVE Spec /\ []OneCallPerCategory => []RegistryInSync
<1>1. TypeInv /\ SyncInv => RegistryInSync
  BY ServesOne, RegistrySynced DEF SyncInv, RegistryInSync
<1> QED BY <1>1, SyncInvariant, TypeInvariant, PTL

-----------------------------------------------------------------------------
(***************************************************************************)
(* Calls that overlap, but not the changes.  A call that no committed       *)
(* change of its category disturbed still knows what is so when it commits; *)
(* one that was disturbed and commits a change overlaps with the change     *)
(* that disturbed it.                                                       *)
(***************************************************************************)
\* A promotion on record, or decided by a running call, passed the gate against its incumbent.
VerdictInv ==
    /\ \A d \in deployments : d.action = "promote" => PassesGate(d.model, d.prev)
    /\ \A s \in Sessions : sess[s].pc \in Decided /\ sess[s].action = "promote"
         => PassesGate(sess[s].subject, sess[s].incumbent)

\* No change of its category was committed since the call began.
Undisturbed(s) == sess[s].pc # "idle" /\ Changes(sess[s].cmd.category) = sess[s].before

SlotOf(c) ==
    /\ InProduction(c) = LeftBy(Changes(c))
    /\ \A d \in Changes(c) : {d.prev} \ {None} = LeftBy({e \in Changes(c) : e.at < d.at})

CallsKnow(c) == \A s \in Sessions :
    Undisturbed(s) /\ sess[s].cmd.category = c => Fits(s)

HoldsInv == \A c \in Categories : ~ChangesOverlap(c) => SlotOf(c) /\ CallsKnow(c)

\* Changes are records.
LEMMA ChangesType ==
    ASSUME TypeInv, NEW c
    PROVE  /\ Changes(c) \subseteq deployments
           /\ \A d \in Changes(c) : /\ d.at \in Nat /\ d.model \in Models /\ ChangedProduction(d)
                                    /\ CategoryOf[d.model] = c
BY DEF Changes, History, TypeInv, TypeOK, Record

\* Every verdict is the gate's.
LEMMA VerdictInvariant == Spec => []VerdictInv
<1>1. Init => VerdictInv
  BY DEF Init, VerdictInv, Fresh, Decided
<1>2. TypeInv /\ VerdictInv /\ [Next]_vars => VerdictInv'
  <2> SUFFICES ASSUME TypeInv, VerdictInv, [Next]_vars PROVE VerdictInv'
    OBVIOUS
  <2>1. CASE UNCHANGED vars
    BY <2>1 DEF vars, VerdictInv
  <2>2. ASSUME NEW s \in Sessions, Others(s), UNCHANGED deployments,
               sess'[s].pc \in Decided /\ sess'[s].action = "promote"
                 => PassesGate(sess'[s].subject, sess'[s].incumbent)
        PROVE  VerdictInv'
    BY <2>2 DEF VerdictInv, Others
  <2>3. ASSUME NEW s \in Sessions, Carries(s) PROVE VerdictInv'
    <3>1. /\ Others(s) /\ UNCHANGED deployments
          /\ sess'[s].action = "promote" => PassesGate(sess'[s].subject, sess'[s].incumbent)
      BY <2>3 DEF Carries, VerdictInv
    <3> QED BY <2>2, <3>1
  <2>4. ASSUME NEW s \in Sessions, Commit(s) PROVE VerdictInv'
    <3>1. /\ deployments' = deployments \cup {NewRecord(s)} /\ Others(s) /\ sess'[s] = Fresh
          /\ NewRecord(s).action = sess[s].action /\ NewRecord(s).model = sess[s].subject
          /\ NewRecord(s).prev = sess[s].incumbent /\ sess[s].pc \in Decided
      BY <2>4, Ends DEF Commit, NewRecord, Decided
    <3>2. Fresh.pc \notin Decided
      BY DEF Fresh, Decided
    <3>3. \A d \in deployments' : d.action = "promote" => PassesGate(d.model, d.prev)
      BY <3>1 DEF VerdictInv
    <3>4. \A t \in Sessions : sess'[t].pc \in Decided /\ sess'[t].action = "promote"
            => PassesGate(sess'[t].subject, sess'[t].incumbent)
      BY <3>1, <3>2 DEF VerdictInv, Others
    <3> QED BY <3>3, <3>4 DEF VerdictInv
  <2>5. ASSUME NEW s \in Sessions, NEW cmd \in Commands, BeginPromote(s, cmd) PROVE VerdictInv'
    BY <2>2, <2>5, BeginsPromotion DEF Decided
  <2>6. ASSUME NEW s \in Sessions, NEW cmd \in Commands, BeginRollback(s, cmd) PROVE VerdictInv'
    BY <2>2, <2>6, BeginsRollback DEF Decided, Fresh
  <2>7. ASSUME NEW s \in Sessions, FindIncumbent(s) PROVE VerdictInv'
    BY <2>2, <2>7, FindsIncumbent
  <2>8. ASSUME NEW s \in Sessions, FindTarget(s) PROVE VerdictInv'
    BY <2>2, <2>8, FindsTarget DEF Decided, Fresh
  <2>9. ASSUME NEW s \in Sessions, RollBack(s) PROVE VerdictInv'
    BY <2>2, <2>9, Ends DEF RollBack, Decided, Fresh
  <2> QED BY <2>1, <2>3, <2>4, <2>5, <2>6, <2>7, <2>8, <2>9, TellsUp, TellsDown, Writes, StepCases
<1> QED BY <1>1, <1>2, TypeInvariant, PTL DEF Spec

\* What changes leave in production does not depend on how their set is written.
LEMMA LeftByOne ==
    ASSUME NEW changes, \A d, e \in changes : d.at \in Nat /\ (d.at = e.at => d = e)
    PROVE  \A m, n \in LeftBy(changes) : m = n
<1> SUFFICES ASSUME NEW d \in changes, NEW e \in changes,
                    \A f \in changes : f.at <= d.at, \A f \in changes : f.at <= e.at
             PROVE  d = e
  BY DEF LeftBy
<1>1. d.at <= e.at /\ e.at <= d.at
  OBVIOUS
<1> QED BY <1>1

\* A newest change leaves its model, unless it names that model twice.
LEMMA LeftByNewest ==
    ASSUME NEW changes, NEW r \in changes, r.at \in Nat,
           \A d \in changes \ {r} : d.at \in Nat /\ d.at < r.at
    PROVE  LeftBy(changes) = {r.model} \ {r.prev}
<1>1. \A d \in changes : d.at \in Nat /\ d.at <= r.at /\ (d # r => ~(r.at <= d.at))
  OBVIOUS
<1>2. {e \in changes : e.model # e.prev /\ \A f \in changes : f.at <= e.at}
        = IF r.model # r.prev THEN {r} ELSE {}
  BY <1>1
<1> QED BY <1>2 DEF LeftBy

\* A step that commits nothing changes no category's slot, and leaves each call knowing
\* what it knew.
LEMMA HoldsQuiet ==
    ASSUME HoldsInv, NEW s \in Sessions, Keeps(s), Others(s), UNCHANGED <<stage, deployments>>,
           \/ sess[s].pc = "idle" \/ sess'[s].pc = "idle"
           \/ sess'[s].before = sess[s].before /\ sess'[s].cmd = sess[s].cmd
    PROVE  HoldsInv'
<1>1. \A c : /\ Changes(c)' = Changes(c) /\ InProduction(c)' = InProduction(c)
             /\ Incumbents(c)' = Incumbents(c) /\ ChangesOverlap(c)' = ChangesOverlap(c)
  BY DEF Changes, History, ChangesOverlap, InProduction, Incumbents
<1>2. ASSUME NEW c \in Categories, ~ChangesOverlap(c), NEW t \in Sessions,
             Undisturbed(t)', sess'[t].cmd.category = c
      PROVE  Fits(t)'
  <2>1. CASE t # s
    <3>1. sess'[t] = sess[t]
      BY <2>1 DEF Others
    <3>2. Undisturbed(t) /\ sess[t].cmd.category = c
      BY <1>1, <1>2, <3>1 DEF Undisturbed
    <3>3. Fits(t)
      BY <1>2, <3>2 DEF HoldsInv, CallsKnow
    <3> QED BY <1>1, <3>1, <3>3 DEF Fits
  <2>2. CASE t = s
    <3>1. CASE sess[s].pc = "idle"
      BY <2>2, <3>1 DEF Keeps, Fits
    <3>2. CASE sess[s].pc # "idle"
      <4>1. sess'[s].before = sess[s].before /\ sess'[s].cmd = sess[s].cmd
        BY <1>2, <2>2, <3>2 DEF Undisturbed
      <4>2. Undisturbed(s) /\ sess[s].cmd.category = c
        BY <1>1, <1>2, <2>2, <3>2, <4>1 DEF Undisturbed
      <4> QED BY <1>2, <2>2, <4>2 DEF HoldsInv, CallsKnow, Keeps
    <3> QED BY <3>1, <3>2
  <2> QED BY <2>1, <2>2
<1>3. ASSUME NEW c \in Categories, ~ChangesOverlap(c)' PROVE SlotOf(c)' /\ CallsKnow(c)'
  <2>1. ~ChangesOverlap(c)
    BY <1>1, <1>3
  <2>2. SlotOf(c)'
    BY <1>1, <2>1 DEF HoldsInv, SlotOf, LeftBy
  <2>3. CallsKnow(c)'
    BY <1>2, <2>1 DEF CallsKnow
  <2> QED BY <2>2, <2>3
<1> QED BY <1>3 DEF HoldsInv

\* A call that overlapped with no change of its category commits its own as the newest: it
\* takes out what the earlier ones left, and is what is in production.
LEMMA HoldsChange ==
    ASSUME TypeInv, PlanInv, TimeInv, NEW s \in Sessions, Own(s), Fits(s), Commit(s),
           sess[s].action # "reject", NEW k, k = sess[s].cmd.category, SlotOf(k),
           \A d \in Changes(k) : d.at < sess[s].at,
           Changes(k)' = Changes(k) \cup {NewRecord(s)}
    PROVE  SlotOf(k)'
<1> DEFINE r == NewRecord(s)
<1>1. /\ r.at = sess[s].at /\ r.model = sess[s].subject /\ r.prev = sess[s].incumbent
      /\ r.at \in Nat /\ r.model \in Models /\ CategoryOf[r.model] = k
      /\ r.prev \in Incumbents(k) /\ sess[s].pc = "commit" /\ r.prev \in Models \cup {None}
  BY SessionType DEF NewRecord, Commit, TypeInv, CallTyped, Decided, Own, Fits
<1> HIDE DEF r
<1>2. Changes(k)' = Changes(k) \cup {r} /\ \A d \in Changes(k) : d.at < r.at
  BY <1>1 DEF r
<1>3. \A d \in Changes(k) : d.at \in Nat
  BY ChangesType
<1>4. InProduction(k) \subseteq {r.prev} /\ {r.prev} \ {None} = InProduction(k)
  <2>1. \A d, e \in Changes(k) : d.at = e.at => d = e
    BY ChangesType DEF TimeInv
  <2>2. \A m, n \in InProduction(k) : m = n
    BY <1>3, <2>1, LeftByOne DEF SlotOf
  <2>3. r.prev # None => r.prev \in InProduction(k)
    BY <1>1 DEF Incumbents
  <2>4. r.prev = None => InProduction(k) = {}
    BY <1>1, ModelsAssumption DEF Incumbents, InProduction
  <2> QED BY <2>2, <2>3, <2>4
<1>5. InProduction(k)' = {r.model} \ {r.prev}
  <2>1. \A m \in Models : stage'[m] = IF m = r.prev THEN "archived"
                                      ELSE IF m = r.model THEN "production" ELSE stage[m]
    BY <1>1, CommitStages DEF Unloaded
  <2>2. \A m \in Models : CategoryOf[m] = k /\ stage[m] = "production" => m = r.prev
    BY <1>4 DEF InProduction
  <2> QED BY <1>1, <2>1, <2>2 DEF InProduction
<1>6. LeftBy(Changes(k)') = {r.model} \ {r.prev}
  <2>1. r \in Changes(k)' /\ \A d \in Changes(k)' \ {r} : d.at \in Nat /\ d.at < r.at
    BY <1>2, <1>3
  <2> QED BY <1>1, <2>1, LeftByNewest
<1>7. ASSUME NEW d \in Changes(k)'
      PROVE  {d.prev} \ {None} = LeftBy({e \in Changes(k)' : e.at < d.at})
  <2>1. CASE d = r
    <3>1. {e \in Changes(k)' : e.at < d.at} = Changes(k)
      BY <1>1, <1>2, <1>3, <2>1
    <3> QED BY <1>4, <2>1, <3>1 DEF SlotOf
  <2>2. CASE d # r
    <3>1. d \in Changes(k)
      BY <1>2, <1>7, <2>2
    <3>2. {e \in Changes(k)' : e.at < d.at} = {e \in Changes(k) : e.at < d.at}
      BY <1>1, <1>2, <1>3, <3>1
    <3> QED BY <3>1, <3>2 DEF SlotOf
  <2> QED BY <2>1, <2>2
<1>8. LeftBy(Changes(k))' = LeftBy(Changes(k)')
  BY DEF LeftBy
<1>9. \A d \in Changes(k)' : LeftBy({e \in Changes(k) : e.at < d.at})'
                              = LeftBy({e \in Changes(k)' : e.at < d.at})
  BY DEF LeftBy
<1> QED BY <1>5, <1>6, <1>7, <1>8 DEF SlotOf, LeftBy

\* A commit keeps the slot of every category whose changes do not overlap.
LEMMA HoldsCommit ==
    ASSUME TypeInv, PlanInv, TimeInv, HoldsInv, NEW s \in Sessions, Own(s), Commit(s),
           \A t \in Sessions : Own(t), NEW c \in Categories, ~ChangesOverlap(c)'
    PROVE  SlotOf(c)' /\ CallsKnow(c)'
<1>0. PICK r, k : r = NewRecord(s) /\ k = sess[s].cmd.category
  OBVIOUS
<1>1. /\ Others(s) /\ sess'[s] = Fresh /\ Fresh.pc = "idle" /\ sess[s].pc = "commit"
      /\ deployments' = deployments \cup {r}
      /\ r.at = sess[s].at /\ r.action = sess[s].action /\ r.model = sess[s].subject
      /\ r.overlaps = (Changes(k) # sess[s].before) /\ CategoryOf[r.model] = k
  BY <1>0, Ends DEF Commit, NewRecord, Fresh, Own
<1>2. /\ r \notin deployments /\ \A d \in sess[s].before : d.at < sess[s].at
      /\ \A t \in Sessions : sess[t].pc # "idle" => sess[t].before \subseteq deployments
  BY <1>1 DEF TimeInv
<1>3. /\ \A m \in Models : CategoryOf[m] # k => stage'[m] = stage[m]
      /\ c # k => InProduction(c)' = InProduction(c) /\ Incumbents(c)' = Incumbents(c)
  BY <1>0, CommitElsewhere
<1>4. CASE c # k \/ sess[s].action = "reject"
  <2>1. /\ \A m \in Models : CategoryOf[m] = c => stage'[m] = stage[m]
        /\ InProduction(c)' = InProduction(c) /\ Incumbents(c)' = Incumbents(c)
    <3>1. CASE c # k
      BY <1>3, <3>1
    <3>2. CASE sess[s].action = "reject"
      <4>1. \A m \in Models : stage'[m] = stage[m]
        BY <3>2, CommitWrites
      <4> QED BY <4>1 DEF InProduction, Incumbents
    <3> QED BY <1>4, <3>1, <3>2
  <2>2. Changes(c)' = Changes(c)
    BY <1>1, <1>4 DEF Changes, History, ChangedProduction
  <2>3. ~ChangesOverlap(c)
    BY <2>2 DEF ChangesOverlap
  <2>4. SlotOf(c) /\ CallsKnow(c)
    BY <2>3 DEF HoldsInv
  <2>5. SlotOf(c)'
    BY <2>1, <2>2, <2>4 DEF SlotOf, LeftBy
  <2>6. ASSUME NEW t \in Sessions, Undisturbed(t)', sess'[t].cmd.category = c PROVE Fits(t)'
    <3>1. t # s /\ sess'[t] = sess[t] /\ sess[t].pc # "idle"
      BY <1>1, <2>6 DEF Undisturbed, Others
    <3>2. Undisturbed(t) /\ sess[t].cmd.category = c
      BY <2>2, <2>6, <3>1 DEF Undisturbed
    <3>3. Fits(t)
      BY <2>4, <3>2 DEF CallsKnow
    <3>4. \A m \in Models : sess[t].loaded[m] # Unloaded => CategoryOf[m] = c
      BY <3>1, <3>2 DEF Own, OwnRows
    <3>5. \A m \in Models : sess[t].loaded[m] \in {Unloaded, stage'[m]}
      BY <2>1, <3>1, <3>3, <3>4 DEF Fits
    <3> QED BY <2>1, <3>1, <3>2, <3>3, <3>5 DEF Fits
  <2> QED BY <2>5, <2>6 DEF CallsKnow
<1>5. CASE c = k /\ sess[s].action # "reject"
  <2>1. ChangedProduction(r)
    BY <1>1, <1>5, SessionType DEF ChangedProduction, Action
  <2>2. Changes(k)' = Changes(k) \cup {r}
    BY <1>1, <2>1 DEF Changes, History, ChangedProduction
  <2>3. \A d \in Changes(k) : d \in deployments /\ d # r
    BY <1>2, ChangesType
  <2>4. Changes(k) = sess[s].before /\ \A d \in Changes(k) : d.at < sess[s].at
    BY <1>1, <1>2, <1>5, <2>2 DEF ChangesOverlap
  <2>5. ~ChangesOverlap(k)
    BY <1>5, <2>2 DEF ChangesOverlap
  <2>6. Undisturbed(s)
    BY <1>0, <1>1, <2>4 DEF Undisturbed
  <2>7. SlotOf(k) /\ Fits(s)
    BY <1>0, <1>5, <2>5, <2>6 DEF HoldsInv, CallsKnow
  <2>8. SlotOf(k)'
    BY <1>0, <1>5, <2>2, <2>4, <2>7, HoldsChange
  <2>9. ASSUME NEW t \in Sessions, Undisturbed(t)', sess'[t].cmd.category = k PROVE FALSE
    <3>1. t # s /\ sess'[t] = sess[t] /\ sess[t].pc # "idle"
      BY <1>1, <2>9 DEF Undisturbed, Others
    <3>2. r \in Changes(k)'
      BY <2>2
    <3>3. r \in sess[t].before /\ sess[t].before \subseteq deployments
      BY <1>2, <2>9, <3>1, <3>2 DEF Undisturbed
    <3> QED BY <1>2, <3>3
  <2> QED BY <1>5, <2>8, <2>9 DEF CallsKnow
<1> QED BY <1>4, <1>5

\* Every behaviour keeps the slot of every category whose changes do not overlap.
LEMMA HoldsInvariant == ASSUME Matching PROVE Spec => []HoldsInv
<1> DEFINE OwnInv == \A s \in Sessions : Own(s)
<1>1. Init => HoldsInv
  <2> SUFFICES ASSUME Init PROVE HoldsInv OBVIOUS
  <2>1. \A c : Changes(c) = {} /\ InProduction(c) = {}
    BY DEF Init, Changes, History, InProduction
  <2>2. \A c : SlotOf(c) /\ CallsKnow(c)
    BY <2>1 DEF Init, SlotOf, LeftBy, CallsKnow, Undisturbed, Fresh
  <2> QED BY <2>2 DEF HoldsInv
<1>2. TypeInv /\ PlanInv /\ TimeInv /\ OwnInv /\ HoldsInv /\ [Next]_vars => HoldsInv'
  <2> SUFFICES ASSUME TypeInv, PlanInv, TimeInv, OwnInv, HoldsInv, [Next]_vars PROVE HoldsInv'
    OBVIOUS
  <2>1. CASE UNCHANGED vars
    <3>1. \A c : Changes(c)' = Changes(c) /\ InProduction(c)' = InProduction(c)
                 /\ Incumbents(c)' = Incumbents(c)
      BY <2>1 DEF vars, Changes, History, InProduction, Incumbents
    <3>2. \A c : ChangesOverlap(c)' = ChangesOverlap(c) /\ (SlotOf(c) => SlotOf(c)')
      BY <3>1 DEF ChangesOverlap, SlotOf, LeftBy
    <3>3. \A c : CallsKnow(c) => CallsKnow(c)'
      BY <2>1, <3>1 DEF vars, CallsKnow, Undisturbed, Fits
    <3> QED BY <3>2, <3>3 DEF HoldsInv
  <2>2. ASSUME NEW s \in Sessions, Commit(s) PROVE HoldsInv'
    BY <2>2, HoldsCommit DEF HoldsInv
  <2> QED BY <2>1, <2>2, KeepsAll, HoldsQuiet, StepCases
<1> QED BY <1>1, <1>2, TypeInvariant, PlanInvariant, TimeInvariant, OwnInvariant, PTL DEF Spec

\* Where no two committed changes of a category overlapped, whatever rejections, refused and
\* failed calls, calls on other categories or named targets did, the category serves what its
\* newest change put there, each change took out the model that served until then, and each
\* promotion beat that one.
THEOREM UnoverlappedSlotsHold ==
    ASSUME Matching PROVE Spec => []SlotHoldsUnlessChangesOverlap
<1>1. TypeInv /\ VerdictInv /\ HoldsInv => SlotHoldsUnlessChangesOverlap
  BY ChangesType DEF VerdictInv, HoldsInv, SlotOf, SlotHoldsUnlessChangesOverlap
<1> QED BY <1>1, HoldsInvariant, VerdictInvariant, TypeInvariant, PTL

-----------------------------------------------------------------------------
(***************************************************************************)
(* Calls that take turns in each category and roll back by default keep     *)
(* each category's records one history, whose latest change is in           *)
(* production.                                                              *)
(***************************************************************************)
\* The record of a category's latest change.
Latest(c, d) == d \in Changes(c) /\ \A e \in Changes(c) : e.at <= d.at

\* The records form one history: a change that had a predecessor displaced its model.
HistoryInv ==
    /\ IsFiniteSet(deployments)
    /\ \A d, e \in deployments : d.at = e.at => d = e
    /\ \A c \in Categories : \A d, e \in Changes(c) : e.at < d.at =>
         \E f \in Changes(c) :
           /\ f.at < d.at /\ f.model = d.prev
           /\ \A g \in Changes(c) : g.at < d.at => g.at <= f.at

\* What is in production is what the latest change put there.
ProductionInv == \A c \in Categories :
    \/ Changes(c) = {} /\ InProduction(c) = {}
    \/ \E d \in Changes(c) : Latest(c, d) /\ InProduction(c) = {d.model}

\* A call comes after its category's records, and restores what the latest of them displaced.
InOrder(s) ==
    sess[s].pc # "idle" =>
      /\ \A d \in History(sess[s].cmd.category) : d.at < sess[s].at
      /\ Changing(s) /\ sess[s].action = "rollback" =>
           sess[s].subject = LastDisplaced(sess[s].cmd.category)

SerialInv == HistoryInv /\ ProductionInv /\ \A s \in Sessions : InOrder(s)

\* The model a default rollback would put back is the one the latest change displaced.
LEMMA LatestIsLast ==
    ASSUME TypeInv, HistoryInv, NEW c, NEW d, Latest(c, d)
    PROVE  LastDisplaced(c) = d.prev
<1> DEFINE last == CHOOSE e \in Changes(c) : \A f \in Changes(c) : e.at >= f.at
<1>1. d \in Changes(c) /\ \A f \in Changes(c) : d.at >= f.at
  BY ChangesType DEF Latest
<1>2. last \in Changes(c) /\ \A f \in Changes(c) : last.at >= f.at
  BY <1>1
<1>3. LastDisplaced(c) = last.prev
  BY <1>1 DEF LastDisplaced
<1> HIDE DEF last
<1>4. last.at = d.at
  BY <1>1, <1>2, ChangesType
<1> QED BY <1>1, <1>2, <1>3, <1>4, ChangesType DEF HistoryInv


\* There is one incumbent, and the latest change put it there.
LEMMA TheIncumbent ==
    ASSUME TypeInv, ProductionInv, NEW c \in Categories, NEW inc \in Incumbents(c)
    PROVE  /\ Incumbents(c) = {inc}
           /\ inc = None => InProduction(c) = {} /\ Changes(c) = {}
           /\ inc # None => /\ InProduction(c) = {inc}
                            /\ \E d \in Changes(c) : Latest(c, d) /\ d.model = inc
<1>0. None \notin Models
  BY ModelsAssumption
<1>1. CASE Changes(c) = {} /\ InProduction(c) = {}
  BY <1>1 DEF Incumbents
<1>2. ASSUME NEW d \in Changes(c), Latest(c, d), InProduction(c) = {d.model}
      PROVE  Incumbents(c) = {d.model} /\ d.model # None
  <2>1. d.model \in Models
    BY ChangesType
  <2>2. Created[d.model] >= Created[d.model]
    BY <2>1, ModelsAssumption
  <2> QED BY <1>0, <1>2, <2>1, <2>2 DEF Incumbents
<1> QED BY <1>1, <1>2 DEF ProductionInv

\* What list_deployments returns is the newest end of the history.
LEMMA RecentIsNewest ==
    ASSUME TypeInv, HistoryInv, NEW c, NEW d \in Recent(c), NEW e \in History(c), e.at > d.at
    PROVE  e \in Recent(c)
<1> DEFINE after == {f \in History(c) : f.at > d.at}
           later == {f \in History(c) : f.at > e.at}
<1>1. \A f \in History(c) : f.at \in Nat
  BY DEF History, TypeInv, TypeOK, Record
<1>2. d \in History(c) /\ Cardinality(after) < HistoryLimit
  BY DEF Recent
<1>3. later \subseteq after
  BY <1>1, <1>2
<1>4. IsFiniteSet(after)
  <2>1. after \in SUBSET deployments
    BY DEF History
  <2> QED BY <2>1, FS_Subset DEF HistoryInv
<1>5. IsFiniteSet(later) /\ Cardinality(later) <= Cardinality(after)
  BY <1>3, <1>4, FS_Subset
<1>6. Cardinality(later) \in Nat /\ Cardinality(after) \in Nat /\ HistoryLimit \in Nat
  BY <1>4, <1>5, FS_CardinalityType, LimitsAssumption
<1>7. Cardinality(later) < HistoryLimit
  BY <1>2, <1>5, <1>6
<1> QED BY <1>7 DEF Recent

\* A default rollback that finds a version to restore finds the one the latest change displaced.
LEMMA TargetIsDisplaced ==
    ASSUME Untargeted, Margin > 0, TypeInv, SafeInv, HistoryInv, ProductionInv,
           NEW cmd \in Commands, cmd.model = None,
           NEW inc \in Incumbents(cmd.category), inc # None, NEW m \in Targets(cmd, inc)
    PROVE  m = LastDisplaced(cmd.category) /\ CategoryOf[m] = cmd.category
<1> DEFINE c == cmd.category
<1>0. c \in Categories
  BY CommandCategory
<1>1. PICK t \in Earlier(c, inc) : m = t.model /\ \A f \in Earlier(c, inc) : t.at >= f.at
  BY DEF Targets
<1>2. t \in Changes(c) /\ t \in Recent(c) /\ t.model # inc
  BY <1>1 DEF Earlier, Recent, Changes
<1>3. PICK d \in Changes(c) : Latest(c, d) /\ d.model = inc
  BY <1>0, TheIncumbent
<1>4. t.at < d.at
  <2>1. t.at <= d.at /\ t.at # d.at
    BY <1>2, <1>3, ChangesType DEF Latest, HistoryInv
  <2> QED BY <1>2, <1>3, <2>1, ChangesType
<1>5. PICK f \in Changes(c) : /\ f.at < d.at /\ f.model = d.prev
                              /\ \A g \in Changes(c) : g.at < d.at => g.at <= f.at
  BY <1>0, <1>2, <1>3, <1>4 DEF HistoryInv
<1>6. LastDisplaced(c) = f.model
  BY <1>3, <1>5, LatestIsLast
<1>7. t.at <= f.at
  BY <1>2, <1>4, <1>5
<1>8. f \in Recent(c)
  <2>1. CASE t.at = f.at
    BY <1>2, <1>5, <2>1, ChangesType DEF HistoryInv
  <2>2. CASE t.at # f.at
    <3>1. f.at > t.at /\ f \in History(c)
      BY <1>2, <1>5, <1>7, <2>2, ChangesType DEF Changes
    <3> QED BY <1>2, <3>1, RecentIsNewest
  <2> QED BY <2>1, <2>2
<1>9. f.model # inc
  <2>1. d \in deployments /\ ChangedProduction(d)
    BY <1>3, ChangesType
  <2>2. d.prev # d.model
    BY <2>1 DEF SafeInv, RecordsSafe, Justified, ChangedProduction
  <2> QED BY <1>3, <1>5, <2>2
<1>10. t = f
  <2>1. f \in Earlier(c, inc)
    BY <1>5, <1>8, <1>9, ChangesType DEF Earlier
  <2>2. t.at = f.at
    BY <1>1, <1>2, <1>5, <1>7, <2>1, ChangesType
  <2> QED BY <1>2, <1>5, <2>2, ChangesType DEF HistoryInv
<1> QED BY <1>1, <1>2, <1>6, <1>10, ChangesType


\* A call that is over is in order.
LEMMA RestInOrder == ASSUME NEW s, sess'[s] = Fresh PROVE InOrder(s)'
BY DEF InOrder, Fresh

\* A step that changes neither stages nor records leaves the other calls in order.
LEMMA OrderStep ==
    ASSUME SerialInv, NEW s \in Sessions, Others(s), UNCHANGED <<stage, deployments>>, InOrder(s)'
    PROVE  SerialInv'
<1>1. /\ \A c : Changes(c)' = Changes(c) /\ InProduction(c)' = InProduction(c)
      /\ \A c : History(c)' = History(c) /\ LastDisplaced(c)' = LastDisplaced(c)
  BY DEF Changes, History, InProduction, LastDisplaced
<1>2. HistoryInv' /\ ProductionInv'
  BY <1>1 DEF SerialInv, HistoryInv, ProductionInv, Latest
<1>3. ASSUME NEW t \in Sessions \ {s} PROVE InOrder(t)'
  <2>1. sess'[t] = sess[t] /\ InOrder(t)
    BY DEF Others, SerialInv
  <2> QED BY <1>1, <2>1 DEF InOrder, Changing
<1> QED BY <1>2, <1>3 DEF SerialInv

\* A call that begins comes after everything that is on record.
LEMMA SerialBegin ==
    ASSUME TypeInv, TimeInv, SerialInv, NEW s \in Sessions, NEW cmd \in Commands,
           BeginPromote(s, cmd) \/ BeginRollback(s, cmd)
    PROVE  SerialInv'
<1>1. /\ Others(s) /\ UNCHANGED <<stage, deployments>>
      /\ \/ sess'[s] = Fresh
         \/ sess'[s].pc \in {"find_incumbent", "find_target"} /\ sess'[s].at = clock
  BY BeginsPromotion, BeginsRollback
<1>2. \A c : \A d \in History(c)' : d.at < clock
  BY <1>1 DEF History, TimeInv, TypeInv, TypeOK, Record
<1>3. InOrder(s)'
  BY <1>1, <1>2 DEF InOrder, Changing, Decided, Fresh
<1> QED BY <1>1, <1>3, OrderStep

\* A call that goes on without a new decision stays in order.
LEMMA CarriesInOrder ==
    ASSUME SerialInv, NEW s \in Sessions, Carries(s) PROVE SerialInv'
<1>1. \A c : History(c)' = History(c) /\ LastDisplaced(c)' = LastDisplaced(c)
  BY DEF Carries, Changes, History, LastDisplaced
<1>2. InOrder(s)'
  BY <1>1 DEF SerialInv, InOrder, Changing, Carries, Decided
<1> QED BY <1>2, OrderStep DEF Carries

\* A promotion that finds its incumbent stays in order.
LEMMA SerialFindIncumbent ==
    ASSUME TypeInv, SerialInv, NEW s \in Sessions, FindIncumbent(s)
    PROVE  SerialInv'
<1>1. /\ Others(s) /\ sess[s].pc = "find_incumbent"
      /\ sess'[s].cmd = sess[s].cmd /\ sess'[s].at = sess[s].at
      /\ sess'[s].action \in {"promote", "reject"}
      /\ UNCHANGED <<stage, deployments>>
  BY FindsIncumbent
<1>2. \A c : History(c)' = History(c)
  BY <1>1 DEF History
<1>3. InOrder(s)'
  BY <1>1, <1>2 DEF SerialInv, InOrder
<1> QED BY <1>1, <1>3, OrderStep

\* A rollback finds the version the latest change displaced, or gives up.
LEMMA SerialFindTarget ==
    ASSUME Untargeted, Margin > 0, TypeInv, PlanInv, SafeInv, SyncInv, SerialInv,
           NEW s \in Sessions, FindTarget(s)
    PROVE  SerialInv'
<1>1. Others(s) /\ UNCHANGED <<stage, deployments>>
  BY FindsTarget
<1>2. CASE sess'[s] = Fresh
  BY <1>1, <1>2, RestInOrder, OrderStep
<1>3. CASE sess'[s] # Fresh
  <2>1. /\ sess[s].pc = "find_target" /\ sess[s].cmd \in Commands /\ sess[s].incumbent \in Models
        /\ sess'[s].cmd = sess[s].cmd /\ sess'[s].at = sess[s].at
        /\ sess'[s].subject \in Targets(sess[s].cmd, sess[s].incumbent)
    BY <1>3, FindsTarget
  <2>2. /\ sess[s].cmd.model = None /\ sess[s].incumbent # None
        /\ sess[s].incumbent \in Incumbents(sess[s].cmd.category)
    BY <2>1, ModelsAssumption DEF PlanInv, Plan, Untargeted, SyncInv, Current, Fits
  <2>3. sess'[s].subject = LastDisplaced(sess[s].cmd.category)
    BY <2>1, <2>2, TargetIsDisplaced DEF SerialInv
  <2>4. \A c : History(c)' = History(c) /\ LastDisplaced(c)' = LastDisplaced(c)
    BY <1>1 DEF Changes, History, LastDisplaced
  <2>5. InOrder(s)'
    BY <2>1, <2>3, <2>4 DEF SerialInv, InOrder
  <2> QED BY <1>1, <2>5, OrderStep
<1> QED BY <1>2, <1>3

\* A rejection changes no category's slot or history of changes.
LEMMA CommitRejects ==
    ASSUME TypeInv, PlanInv, SyncInv, NEW s \in Sessions, Commit(s),
           sess[s].action = "reject", NEW c
    PROVE  Changes(c)' = Changes(c) /\ InProduction(c)' = InProduction(c)
<1>1. deployments' = deployments \cup {NewRecord(s)} /\ ~ChangedProduction(NewRecord(s))
  BY DEF Commit, NewRecord, ChangedProduction
<1>2. \A m \in Models : stage'[m] = stage[m]
  BY CommitStages DEF SyncInv, Current
<1>3. Changes(c)' = Changes(c)
  BY <1>1 DEF Changes, History, ChangedProduction
<1>4. InProduction(c)' = InProduction(c)
  BY <1>2 DEF InProduction
<1> QED BY <1>3, <1>4

\* A change puts its subject in its category's slot, and is the category's latest change.
LEMMA CommitChanges ==
    ASSUME Untargeted, Margin > 0, TypeInv, PlanInv, SafeInv, SyncInv, SerialInv, NEW s \in Sessions,
           Commit(s), sess[s].action # "reject",
           NEW k \in Categories, k = sess[s].cmd.category, NEW r, r = NewRecord(s)
    PROVE  /\ r.model \in Models /\ CategoryOf[r.model] = k /\ r.prev # r.model
           /\ r.prev \in Incumbents(k) /\ r.at \in Nat /\ \A d \in Changes(k) : d.at < r.at
           /\ Changes(k)' = Changes(k) \cup {r} /\ InProduction(k)' = {r.model}
           /\ \A c : c # k => Changes(c)' = Changes(c) /\ InProduction(c)' = InProduction(c)
<1>1. /\ r.at = sess[s].at /\ r.action = sess[s].action /\ r.model = sess[s].subject
      /\ r.prev = sess[s].incumbent
      /\ sess[s].pc = "commit" /\ deployments' = deployments \cup {r}
  BY DEF Commit, NewRecord
<1>2. /\ r.model \in Models /\ r.at \in Nat /\ r.action \in {"promote", "rollback"}
      /\ Justified(r.action, r.model, r.prev)
  BY <1>1, SessionType DEF TypeInv, CallTyped, Decided, SafeInv, CallSafe, Action
<1>3. r.prev \in Incumbents(k) /\ CategoryOf[r.model] = k
  BY <1>1 DEF SyncInv, Current, Own, Fits
<1>4. \A d \in Changes(k) : d.at < r.at
  BY <1>1 DEF SerialInv, InOrder, Changes
<1>5. r.prev # r.model
  BY <1>2 DEF Justified
<1>6. ChangedProduction(r)
  BY <1>2 DEF ChangedProduction
<1>7. Changes(k)' = Changes(k) \cup {r}
  BY <1>1, <1>3, <1>6 DEF Changes, History, ChangedProduction
<1>8. \A c : c # k => Changes(c)' = Changes(c)
  BY <1>1, <1>3 DEF Changes, History, ChangedProduction
<1>9. InProduction(k)' = {r.model}
  <2>1. \A m \in InProduction(k) : m = r.prev
    BY <1>3, OnlyIncumbent DEF SyncInv
  <2>2. \A m \in Models : stage'[m] = IF m = r.prev THEN "archived"
                                      ELSE IF m = r.model THEN "production" ELSE stage[m]
    BY <1>1, CommitStages DEF SyncInv, Current, Unloaded
  <2> QED BY <1>2, <1>3, <1>5, <2>1, <2>2 DEF InProduction
<1>10. \A c : c # k => InProduction(c)' = InProduction(c)
  BY CommitElsewhere DEF SyncInv, Current
<1> QED BY <1>2, <1>3, <1>4, <1>5, <1>7, <1>8, <1>9, <1>10

\* A commit leaves the calls on other categories in order.
LEMMA CommitOrder ==
    ASSUME OneCallPerCategory, TypeInv, SyncInv, SerialInv, NEW s \in Sessions, Commit(s),
           NEW t \in Sessions
    PROVE  InOrder(t)'
<1>1. /\ Others(s) /\ sess'[s] = Fresh /\ sess[s].pc = "commit"
      /\ deployments' = deployments \cup {NewRecord(s)} /\ NewRecord(s).model = sess[s].subject
  BY Ends DEF Commit, NewRecord
<1>2. CASE t = s
  BY <1>1, <1>2, RestInOrder
<1>3. CASE t # s
  <2>1. sess'[t] = sess[t] /\ InOrder(t)
    BY <1>1, <1>3 DEF Others, SerialInv
  <2> SUFFICES ASSUME sess[t].pc # "idle" PROVE InOrder(t)'
    BY <2>1 DEF InOrder
  <2>2. PICK c : c = sess[t].cmd.category
    OBVIOUS
  <2>3. CategoryOf[NewRecord(s).model] # c
    BY <1>1, <1>3, <2>2 DEF OneCallPerCategory, SyncInv, Current, Own
  <2>4. History(c)' = History(c)
    BY <1>1, <2>3 DEF History
  <2>5. LastDisplaced(c)' = LastDisplaced(c)
    BY <2>4 DEF LastDisplaced, Changes, ChangedProduction
  <2> QED BY <2>1, <2>2, <2>4, <2>5 DEF InOrder, Changing
<1> QED BY <1>2, <1>3

\* A commit extends the history, and leaves in production what its change put there.
LEMMA SerialCommit ==
    ASSUME OneCallPerCategory, Untargeted, Margin > 0, TypeInv, PlanInv, SafeInv, TimeInv, SyncInv,
           SerialInv, NEW s \in Sessions, Commit(s)
    PROVE  SerialInv'
<1>1. PICK k \in Categories : k = sess[s].cmd.category
  BY CallCategory DEF Commit
<1>2. PICK r : r = NewRecord(s)
  OBVIOUS
<1>3. /\ deployments' = deployments \cup {r} /\ r.at \in Nat /\ \A d \in deployments : d.at # r.at
      /\ \A d \in deployments : d.at \in Nat
  <2>1. /\ deployments' = deployments \cup {r} /\ r.at = sess[s].at
        /\ \A d \in deployments : d.at # sess[s].at
    BY <1>2 DEF Commit, NewRecord, TimeInv
  <2> QED BY <2>1, SessionType DEF TypeInv, TypeOK, Record
<1>4. IsFiniteSet(deployments') /\ \A d, e \in deployments' : d.at = e.at => d = e
  <2>1. IsFiniteSet(deployments')
    BY <1>3, FS_AddElement DEF SerialInv, HistoryInv
  <2> QED BY <1>3, <2>1 DEF SerialInv, HistoryInv
<1>5. \A t \in Sessions : InOrder(t)'
  BY CommitOrder
<1>6. CASE sess[s].action = "reject"
  <2>1. \A c : Changes(c)' = Changes(c) /\ InProduction(c)' = InProduction(c)
    BY <1>6, CommitRejects
  <2>2. HistoryInv' /\ ProductionInv'
    BY <1>4, <2>1 DEF SerialInv, HistoryInv, ProductionInv, Latest
  <2> QED BY <1>5, <2>2 DEF SerialInv
<1>7. CASE sess[s].action # "reject"
  <2>1. /\ r.model \in Models /\ CategoryOf[r.model] = k /\ r.prev # r.model
        /\ r.prev \in Incumbents(k) /\ \A d \in Changes(k) : d.at < r.at
        /\ Changes(k)' = Changes(k) \cup {r} /\ InProduction(k)' = {r.model}
        /\ \A c : c # k => Changes(c)' = Changes(c) /\ InProduction(c)' = InProduction(c)
    BY <1>1, <1>2, <1>7, CommitChanges
  <2>2. \A d \in Changes(k) : d.at < r.at /\ d.at \in Nat
    BY <2>1, ChangesType
  <2>3. ProductionInv'
    <3>1. r \in Changes(k)' /\ \A d \in Changes(k)' : d.at <= r.at
      BY <1>3, <2>1, <2>2
    <3>2. ASSUME NEW c \in Categories
          PROVE  \/ Changes(c)' = {} /\ InProduction(c)' = {}
                 \/ \E d \in Changes(c)' : /\ d \in Changes(c)' /\ \A e \in Changes(c)' : e.at <= d.at
                                           /\ InProduction(c)' = {d.model}
      <4>1. CASE c = k
        BY <2>1, <3>1, <4>1
      <4>2. CASE c # k
        BY <2>1, <4>2 DEF SerialInv, ProductionInv, Latest
      <4> QED BY <4>1, <4>2
    <3> QED BY <3>2 DEF ProductionInv, Latest
  <2>4. ASSUME NEW c \in Categories, NEW d \in Changes(c)', NEW e \in Changes(c)', e.at < d.at
        PROVE  \E f \in Changes(c)' :
                 /\ f.at < d.at /\ f.model = d.prev
                 /\ \A g \in Changes(c)' : g.at < d.at => g.at <= f.at
    <3>1. CASE c # k
      BY <2>1, <2>4, <3>1 DEF SerialInv, HistoryInv
    <3>2. CASE c = k /\ d # r
      <4>1. d \in Changes(k) /\ e \in Changes(k)
        BY <1>3, <2>1, <2>2, <2>4, <3>2
      <4>2. PICK f \in Changes(k) : /\ f.at < d.at /\ f.model = d.prev
                                    /\ \A g \in Changes(k) : g.at < d.at => g.at <= f.at
        BY <2>4, <4>1 DEF SerialInv, HistoryInv
      <4>3. ~(r.at < d.at)
        BY <1>3, <2>2, <4>1
      <4> QED BY <2>1, <3>2, <4>2, <4>3
    <3>3. CASE c = k /\ d = r
      <4>1. e \in Changes(k)
        BY <1>3, <2>1, <2>4, <3>3
      <4>2. PICK f \in Changes(k) : Latest(k, f) /\ InProduction(k) = {f.model}
        BY <4>1 DEF SerialInv, ProductionInv
      <4>3. r.prev = f.model
        <5>1. r.prev # None => InProduction(k) = {r.prev}
          BY <2>1, TheIncumbent DEF SerialInv
        <5>2. r.prev # None
          BY <2>1, <4>2, TheIncumbent DEF SerialInv
        <5> QED BY <4>2, <5>1, <5>2
      <4>4. f.at < r.at /\ \A g \in Changes(k) : g.at <= f.at
        BY <2>2, <4>2 DEF Latest
      <4>5. f \in Changes(c)' /\ \A g \in Changes(c)' : g.at < d.at => g.at <= f.at
        BY <1>3, <2>1, <3>3, <4>2, <4>4
      <4> QED BY <3>3, <4>3, <4>4, <4>5
    <3> QED BY <3>1, <3>2, <3>3
  <2>5. HistoryInv'
    BY <1>4, <2>4 DEF HistoryInv
  <2> QED BY <1>5, <2>3, <2>5 DEF SerialInv
<1> QED BY <1>6, <1>7


\* Every step keeps the history when no call joins another of its category.
LEMMA SerialNext ==
    ASSUME Untargeted, Margin > 0
    PROVE  OneCallPerCategory /\ TypeInv /\ PlanInv /\ SafeInv /\ TimeInv /\ SyncInv /\ SerialInv
             /\ [Next]_vars => SerialInv'
<1> SUFFICES ASSUME OneCallPerCategory, TypeInv, PlanInv, SafeInv, TimeInv, SyncInv, SerialInv,
                    [Next]_vars
             PROVE  SerialInv'
  OBVIOUS
<1>1. CASE UNCHANGED vars
  <2>1. /\ \A c : Changes(c)' = Changes(c) /\ InProduction(c)' = InProduction(c)
        /\ \A c : History(c)' = History(c) /\ LastDisplaced(c)' = LastDisplaced(c)
    BY <1>1 DEF vars, Changes, History, InProduction, LastDisplaced
  <2>2. HistoryInv' /\ ProductionInv'
    BY <1>1, <2>1 DEF vars, SerialInv, HistoryInv, ProductionInv, Latest
  <2>3. \A s \in Sessions : InOrder(s)'
    BY <1>1, <2>1 DEF vars, SerialInv, InOrder, Changing
  <2> QED BY <2>2, <2>3 DEF SerialInv
<1>2. ASSUME NEW s \in Sessions, RegistryUp(s) \/ RegistryDown(s) PROVE SerialInv'
  BY <1>2, TellsUp, TellsDown, CarriesInOrder
<1>3. ASSUME NEW s \in Sessions, UpdateRow(s) \/ ReadHead(s) \/ AppendAudit(s) PROVE SerialInv'
  BY <1>3, Writes, CarriesInOrder
<1>4. ASSUME NEW s \in Sessions, RollBack(s) PROVE SerialInv'
  BY <1>4, Ends, RestInOrder, OrderStep DEF RollBack
<1> QED BY <1>1, <1>2, <1>3, <1>4, SerialBegin, SerialFindIncumbent, SerialFindTarget,
           SerialCommit, StepCases

\* Calls that take turns in each category and roll back by default keep one history.
LEMMA SerialInvariant ==
    ASSUME Untargeted, Margin > 0, Matching PROVE Spec /\ []OneCallPerCategory => []SerialInv
<1>1. Init => SerialInv
  <2> SUFFICES ASSUME Init PROVE SerialInv OBVIOUS
  <2>1. \A c : Changes(c) = {} /\ InProduction(c) = {}
    BY DEF Init, Changes, History, InProduction
  <2>2. HistoryInv /\ ProductionInv
    BY <2>1, FS_EmptySet DEF Init, HistoryInv, ProductionInv
  <2>3. \A s \in Sessions : InOrder(s)
    BY DEF Init, InOrder, Fresh
  <2> QED BY <2>2, <2>3 DEF SerialInv
<1> QED BY <1>1, SerialNext, TypeInvariant, PlanInvariant, SafeInvariant, TimeInvariant,
           SyncInvariant, PTL DEF Spec

-----------------------------------------------------------------------------
(***************************************************************************)
(* Calls that take turns implement the serving slot: a commit is the slot's *)
(* promotion or restoration, every other step leaves it alone.              *)
(***************************************************************************)
ServingNow == [c \in Categories |-> CHOOSE m \in Incumbents(c) : TRUE]
DisplacedNow == [c \in Categories |-> LastDisplaced(c)]

\* The newest of a set of records is the one that is not older than any.
LEMMA NewestOne ==
    ASSUME NEW S, NEW d \in S, d.at \in Nat, \A e \in S \ {d} : e.at \in Nat /\ e.at < d.at
    PROVE  (CHOOSE e \in S : \A f \in S : e.at >= f.at) = d
<1>1. \A f \in S : d.at >= f.at
  OBVIOUS
<1>2. \A e \in S : (\A f \in S : e.at >= f.at) => e = d
  OBVIOUS
<1> QED BY <1>1, <1>2

\* At first every slot is empty.
LEMMA SlotInit == Init => Slot!Init
<1> SUFFICES ASSUME Init PROVE Slot!Init OBVIOUS
<1>1. \A c : Changes(c) = {} /\ InProduction(c) = {}
  BY DEF Init, Changes, History, InProduction
<1>2. \A c : LastDisplaced(c) = None /\ Incumbents(c) = {None}
  BY <1>1 DEF LastDisplaced, Incumbents
<1>3. \A c : (CHOOSE m \in Incumbents(c) : TRUE) = None
  BY <1>2
<1> QED BY <1>2, <1>3 DEF Slot!Init

\* The slot of a category depends on its production rows and its changes only.
LEMMA SlotKept ==
    ASSUME NEW c, Changes(c)' = Changes(c), InProduction(c)' = InProduction(c)
    PROVE  Incumbents(c)' = Incumbents(c) /\ LastDisplaced(c)' = LastDisplaced(c)
BY DEF Incumbents, LastDisplaced

\* A change takes the slot from its incumbent.
LEMMA SlotPlace ==
    ASSUME Untargeted, Margin > 0, TypeInv, PlanInv, SafeInv, SyncInv, SerialInv, NEW s \in Sessions,
           Commit(s), sess[s].action # "reject",
           NEW k \in Categories, k = sess[s].cmd.category
    PROVE  /\ ServingNow[k] = sess[s].incumbent /\ sess[s].subject # sess[s].incumbent
           /\ ServingNow' = [ServingNow EXCEPT ![k] = sess[s].subject]
           /\ DisplacedNow' = [DisplacedNow EXCEPT ![k] = sess[s].incumbent]
<1>1. PICK r : r = NewRecord(s)
  OBVIOUS
<1>2. r.model = sess[s].subject /\ r.prev = sess[s].incumbent
  BY <1>1 DEF NewRecord
<1>3. /\ r.model \in Models /\ CategoryOf[r.model] = k /\ r.prev # r.model
      /\ r.prev \in Incumbents(k) /\ r.at \in Nat /\ \A d \in Changes(k) : d.at < r.at
      /\ Changes(k)' = Changes(k) \cup {r} /\ InProduction(k)' = {r.model}
      /\ \A c : c # k => Changes(c)' = Changes(c) /\ InProduction(c)' = InProduction(c)
  BY <1>1, CommitChanges
<1>4. Incumbents(k) = {r.prev}
  BY <1>3, TheIncumbent DEF SerialInv
<1>5. Incumbents(k)' = {r.model}
  <2>1. Created[r.model] >= Created[r.model]
    BY <1>3, ModelsAssumption
  <2> QED BY <1>3, <2>1 DEF Incumbents
<1>6. LastDisplaced(k)' = r.prev
  <2>1. \A e \in Changes(k)' \ {r} : e.at \in Nat /\ e.at < r.at
    BY <1>3, ChangesType
  <2>2. r \in Changes(k)'
    BY <1>3
  <2>3. (CHOOSE e \in Changes(k)' : \A f \in Changes(k)' : e.at >= f.at) = r
    BY <1>3, <2>1, <2>2, NewestOne
  <2> QED BY <2>2, <2>3 DEF LastDisplaced
<1>7. ASSUME NEW c, c # k
      PROVE  Incumbents(c)' = Incumbents(c) /\ LastDisplaced(c)' = LastDisplaced(c)
  BY <1>3, <1>7, SlotKept
<1>8. ServingNow[k] = r.prev
  BY <1>4 DEF ServingNow
<1>9. ServingNow' = [ServingNow EXCEPT ![k] = r.model]
  <2>1. (CHOOSE m \in Incumbents(k)' : TRUE) = r.model
    BY <1>5
  <2>2. ASSUME NEW c, c # k
        PROVE  (CHOOSE m \in Incumbents(c)' : TRUE) = (CHOOSE m \in Incumbents(c) : TRUE)
    BY <1>7, <2>2
  <2>3. ASSUME NEW c \in Categories
        PROVE  ServingNow'[c] = IF c = k THEN r.model ELSE ServingNow[c]
    <3>1. ServingNow'[c] = CHOOSE m \in Incumbents(c)' : TRUE
      BY DEF ServingNow
    <3>2. ServingNow[c] = CHOOSE m \in Incumbents(c) : TRUE
      BY DEF ServingNow
    <3>3. CASE c = k
      BY <2>1, <3>1, <3>3
    <3>4. CASE c # k
      BY <2>2, <3>1, <3>2, <3>4
    <3> QED BY <3>3, <3>4
  <2>4. ServingNow' = [c \in Categories |-> ServingNow'[c]]
    BY DEF ServingNow
  <2>5. ServingNow = [c \in Categories |-> ServingNow[c]]
    BY DEF ServingNow
  <2> QED BY <2>3, <2>4, <2>5
<1>10. DisplacedNow' = [DisplacedNow EXCEPT ![k] = r.prev]
  BY <1>6, <1>7 DEF DisplacedNow
<1> QED BY <1>2, <1>3, <1>8, <1>9, <1>10

\* A promotion puts in a model the gate passes against the incumbent; a rollback puts back
\* the one the latest change displaced.
LEMMA SlotCommit ==
    ASSUME Untargeted, Margin > 0, TypeInv, PlanInv, SafeInv, SyncInv, SerialInv, NEW s \in Sessions,
           Commit(s)
    PROVE  Slot!Next \/ UNCHANGED <<ServingNow, DisplacedNow>>
<1>1. PICK k \in Categories : k = sess[s].cmd.category
  BY CommandCategory DEF Commit, TypeInv, CallTyped
<1>2. CASE sess[s].action = "reject"
  <2>1. \A c : Changes(c)' = Changes(c) /\ InProduction(c)' = InProduction(c)
    BY <1>2, CommitRejects
  <2>2. \A c : Incumbents(c)' = Incumbents(c) /\ LastDisplaced(c)' = LastDisplaced(c)
    BY <2>1, SlotKept
  <2> QED BY <2>2 DEF ServingNow, DisplacedNow
<1>3. CASE sess[s].action # "reject"
  <2>1. /\ sess[s].pc = "commit" /\ sess[s].subject \in Models
        /\ CategoryOf[sess[s].subject] = k
        /\ Justified(sess[s].action, sess[s].subject, sess[s].incumbent)
        /\ sess[s].action = "rollback" => sess[s].subject = LastDisplaced(k)
    BY <1>1 DEF Commit, TypeInv, CallTyped, Decided, SafeInv, CallSafe, SyncInv, Current, Own,
       SerialInv, InOrder, Changing
  <2>2. PICK m \in Models : m = sess[s].subject
    BY <2>1
  <2>3. /\ m # ServingNow[k]
        /\ ServingNow' = [ServingNow EXCEPT ![k] = m]
        /\ DisplacedNow' = [DisplacedNow EXCEPT ![k] = ServingNow[k]]
        /\ sess[s].incumbent = ServingNow[k]
    BY <1>1, <1>3, <2>2, SlotPlace
  <2>4. CASE sess[s].action = "promote"
    <3>1. CategoryOf[m] = k /\ PassesGate(m, ServingNow[k])
      BY <2>1, <2>2, <2>3, <2>4 DEF Justified
    <3>2. Slot!Promote(k)
      BY <2>3, <3>1 DEF Slot!Promote, Slot!Place, ServingNow, DisplacedNow
    <3> QED BY <3>2 DEF Slot!Next
  <2>5. CASE sess[s].action = "rollback"
    <3>1. DisplacedNow[k] = m /\ m # None
      BY <2>1, <2>2, <2>5, ModelsAssumption DEF DisplacedNow
    <3>2. Slot!Restore(k)
      BY <2>3, <3>1 DEF Slot!Restore, Slot!Place, ServingNow, DisplacedNow
    <3> QED BY <3>2 DEF Slot!Next
  <2>6. sess[s].action \in Action
    BY SessionType
  <2> QED BY <1>3, <2>4, <2>5, <2>6 DEF Action
<1> QED BY <1>2, <1>3

\* Every step is a step of the slot, or none.
LEMMA SlotStep ==
  ASSUME Untargeted, Margin > 0
  PROVE
    TypeInv /\ PlanInv /\ SafeInv /\ SyncInv /\ SerialInv /\ [Next]_vars
      => [Slot!Next]_<<ServingNow, DisplacedNow>>
<1> SUFFICES ASSUME TypeInv, PlanInv, SafeInv, SyncInv, SerialInv, [Next]_vars
             PROVE  Slot!Next \/ UNCHANGED <<ServingNow, DisplacedNow>>
  OBVIOUS
<1>1. CASE \E s \in Sessions : Commit(s)
  BY <1>1, SlotCommit
<1>2. CASE UNCHANGED <<stage, deployments>>
  <2>1. \A c : Incumbents(c)' = Incumbents(c) /\ LastDisplaced(c)' = LastDisplaced(c)
    BY <1>2 DEF Incumbents, InProduction, LastDisplaced, Changes, History
  <2> QED BY <2>1 DEF ServingNow, DisplacedNow
<1>3. CASE UNCHANGED vars
  BY <1>2, <1>3 DEF vars
<1>4. CASE Next
  <2>1. PICK s \in Sessions : Begin(s) \/ Continue(s) \/ Fail(s)
    BY <1>4 DEF Next
  <2>2. Commit(s) \/ UNCHANGED <<stage, deployments>>
    BY <2>1 DEF Begin, Continue, Fail, RollBack, RefuseAudit, BeginPromote, BeginRollback,
       FindIncumbent, FindTarget, RegistryUp, RegistryDown, UpdateRow, ReadHead, AppendAudit
  <2> QED BY <1>1, <1>2, <2>2
<1> QED BY <1>3, <1>4

\* Promotions and default rollbacks that take turns in each category implement the serving
\* slot, whatever runs in the other categories: the production row is the slot, and a rollback
\* without a target puts back what the latest change took out.
THEOREM TurnsImplementTheSlot ==
    ASSUME Untargeted, Margin > 0, Matching PROVE Spec /\ []OneCallPerCategory => ImplementsSlot
BY SlotInit, SlotStep, TypeInvariant, PlanInvariant, SafeInvariant, SyncInvariant,
   SerialInvariant, PTL DEF Spec, ImplementsSlot, Slot!Spec, ServingNow, DisplacedNow
=============================================================================
